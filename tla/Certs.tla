-------------------------------- MODULE Certs --------------------------------
(***************************************************************************)
(* The certificate store of server/certs.go: a CA pair and a server leaf   *)
(* pair in four files, which every start of the program reads and reuses   *)
(* or generates anew before it serves.                                     *)
(*                                                                         *)
(* os.WriteFile truncates, then writes, so each file is written in two     *)
(* steps, and a start may end between any two steps: by a crash, or by an  *)
(* error that New returns.  Nothing keeps a second program from starting   *)
(* meanwhile on the same directory.                                        *)
(*                                                                         *)
(* A CA is named by its key.  A key is fresh if no file, no program and no *)
(* client has it.                                                          *)
(***************************************************************************)
CONSTANTS
    Program,        \* the programs that may run
    CAKey,          \* keys of CAs
    LeafKey,        \* keys of server certificates
    Address,        \* the interface addresses the host may have
    Unreadable      \* a file that is missing or holds no PEM

ASSUME CertsAssumption ==
    Unreadable \notin CAKey \cup LeafKey

VARIABLES
    caCrt, caKey,       \* the files ca.crt and ca.key
    serverCrt,          \* the file server.crt
    serverKey,          \* the file server.key
    at,                 \* where New stands in each program
    ca,                 \* caCert and caKey of a program
    leaf, leafKey,      \* the pair a program serves with
    addresses,          \* what LocalIPs returns
    overlapped,         \* a start began during another one
    latest,             \* the last start that completed, if none began since
    installed,          \* the first CA that was served: clients installed it
    stale               \* the host changed after the program chose its leaf

files == <<caCrt, caKey, serverCrt, serverKey>>
memory == <<ca, leaf, leafKey>>
ghosts == <<overlapped, latest, installed, stale>>
vars == <<files, at, memory, addresses, ghosts>>

Leaf == [signer : CAKey, key : LeafKey,
         addresses : SUBSET Address, aged : BOOLEAN]

Points == {"off", "readCACrt", "readCAKey", "newCA", "writeCACrt", "fillCACrt",
           "writeCAKey", "fillCAKey", "readLeaf", "readLeafKey", "newLeaf",
           "writeLeaf", "fillLeaf", "writeLeafKey", "fillLeafKey", "ready", "serving"}

ChosenLeaf ==
    {"writeLeaf", "fillLeaf", "writeLeafKey", "fillLeafKey", "ready", "serving"}

Starting(p) == at[p] \notin {"off", "serving"}
Goto(p, from, to) == at[p] = from /\ at' = [at EXCEPT ![p] = to]

FreshCA(k) ==
    /\ k \notin {caCrt, caKey, installed}
    /\ \A p \in Program : ca[p] # k /\ (leaf[p] # Unreadable => leaf[p].signer # k)
    /\ serverCrt # Unreadable => serverCrt.signer # k

FreshLeaf(k) ==
    /\ k # serverKey
    /\ \A p \in Program : leafKey[p] # k /\ (leaf[p] # Unreadable => leaf[p].key # k)
    /\ serverCrt # Unreadable => serverCrt.key # k

-----------------------------------------------------------------------------
(* loadOrGenerateCA                                                        *)

Launch(p) ==
    /\ Goto(p, "off", "readCACrt")
    /\ overlapped' = (overlapped \/ \E q \in Program : Starting(q))
    /\ latest' = Unreadable
    /\ stale' = [stale EXCEPT ![p] = FALSE]
    /\ UNCHANGED <<files, memory, addresses, installed>>

ReadCACrt(p) ==
    /\ Goto(p, "readCACrt", IF caCrt = Unreadable THEN "newCA" ELSE "readCAKey")
    /\ ca' = [ca EXCEPT ![p] = caCrt]
    /\ UNCHANGED <<files, leaf, leafKey, addresses, ghosts>>

\* parseCA: the key has to be the certificate's.
ReadCAKey(p) ==
    /\ Goto(p, "readCAKey", IF caKey = ca[p] THEN "readLeaf" ELSE "newCA")
    /\ UNCHANGED <<files, memory, addresses, ghosts>>

NewCA(p) ==
    /\ Goto(p, "newCA", "writeCACrt")
    /\ \E k \in CAKey : FreshCA(k) /\ ca' = [ca EXCEPT ![p] = k]
    /\ UNCHANGED <<files, leaf, leafKey, addresses, ghosts>>

WriteCACrt(p) ==
    /\ \/ Goto(p, "writeCACrt", "fillCACrt") /\ caCrt' = Unreadable
       \/ Goto(p, "fillCACrt", "writeCAKey") /\ caCrt' = ca[p]
    /\ UNCHANGED <<caKey, serverCrt, serverKey, memory, addresses, ghosts>>

\* Variant: the key file is not written.
BugWriteCAKey(p) ==
    /\ Goto(p, "writeCAKey", "readLeaf")
    /\ UNCHANGED <<files, memory, addresses, ghosts>>

WriteCAKey(p) ==
    /\ \/ Goto(p, "writeCAKey", "fillCAKey") /\ caKey' = Unreadable
       \/ Goto(p, "fillCAKey", "readLeaf") /\ caKey' = ca[p]
    /\ UNCHANGED <<caCrt, serverCrt, serverKey, memory, addresses, ghosts>>

-----------------------------------------------------------------------------
(* loadOrGenerateLeaf                                                      *)

ReadLeaf(p) ==
    /\ Goto(p, "readLeaf", IF serverCrt = Unreadable THEN "newLeaf" ELSE "readLeafKey")
    /\ leaf' = [leaf EXCEPT ![p] = serverCrt]
    /\ UNCHANGED <<files, ca, leafKey, addresses, ghosts>>

\* Variant: addresses that came up since are not looked for.
BugReusable(l, c) == l.signer = c /\ ~l.aged

\* leafReuseBlocker finds nothing: signed by the current CA, neither expired
\* nor close to it, and all addresses covered.
Reusable(l, c) == l.signer = c /\ ~l.aged /\ addresses \subseteq l.addresses

\* tls.X509KeyPair: the key file belongs to the certificate.
KeyPair(l, k) == k = l.key

Reuse(p) == KeyPair(leaf[p], serverKey) /\ Reusable(leaf[p], ca[p])

ReadLeafKey(p) ==
    /\ Goto(p, "readLeafKey", IF Reuse(p) THEN "ready" ELSE "newLeaf")
    /\ leafKey' = IF Reuse(p) THEN [leafKey EXCEPT ![p] = serverKey] ELSE leafKey
    /\ UNCHANGED <<files, ca, leaf, addresses, ghosts>>

NewLeaf(p) ==
    /\ Goto(p, "newLeaf", "writeLeaf")
    /\ \E k \in LeafKey :
           /\ FreshLeaf(k)
           /\ leafKey' = [leafKey EXCEPT ![p] = k]
           /\ leaf' = [leaf EXCEPT ![p] =
                  [signer |-> ca[p], key |-> k, addresses |-> addresses, aged |-> FALSE]]
    /\ UNCHANGED <<files, ca, addresses, ghosts>>

WriteLeaf(p) ==
    /\ \/ Goto(p, "writeLeaf", "fillLeaf") /\ serverCrt' = Unreadable
       \/ Goto(p, "fillLeaf", "writeLeafKey") /\ serverCrt' = leaf[p]
    /\ UNCHANGED <<caCrt, caKey, serverKey, memory, addresses, ghosts>>

\* Variant: the key file is not written.
BugWriteLeafKey(p) ==
    /\ Goto(p, "writeLeafKey", "ready")
    /\ UNCHANGED <<files, memory, addresses, ghosts>>

WriteLeafKey(p) ==
    /\ \/ Goto(p, "writeLeafKey", "fillLeafKey") /\ serverKey' = Unreadable
       \/ Goto(p, "fillLeafKey", "ready") /\ serverKey' = leafKey[p]
    /\ UNCHANGED <<caCrt, caKey, serverCrt, memory, addresses, ghosts>>

\* New has returned; Run serves the leaf, and the CA at /ca.crt.
Serve(p) ==
    /\ Goto(p, "ready", "serving")
    /\ latest' = IF \E q \in Program \ {p} : Starting(q) THEN Unreadable ELSE p
    /\ installed' = IF installed = Unreadable THEN ca[p] ELSE installed
    /\ UNCHANGED <<files, memory, addresses, overlapped, stale>>

-----------------------------------------------------------------------------
(* Exits, crashes, failing writes, and the world around the program        *)

Exit(p) ==
    /\ at[p] # "off"
    /\ at' = [at EXCEPT ![p] = "off"]
    /\ ca' = [ca EXCEPT ![p] = Unreadable]
    /\ leaf' = [leaf EXCEPT ![p] = Unreadable]
    /\ leafKey' = [leafKey EXCEPT ![p] = Unreadable]
    /\ latest' = IF latest = p THEN Unreadable ELSE latest
    /\ UNCHANGED <<files, addresses, overlapped, installed, stale>>

\* Whoever has chosen a leaf by now does not look again.
HostChanges ==
    /\ stale' = [p \in Program |-> stale[p] \/ at[p] \in ChosenLeaf]
    /\ UNCHANGED <<overlapped, latest, installed>>

\* DHCP: the host gets other addresses.
AddressChanges ==
    /\ addresses' \in SUBSET Address \ {addresses}
    /\ HostChanges
    /\ UNCHANGED <<files, at, memory>>

Aged(l) == IF l = Unreadable THEN l ELSE [l EXCEPT !.aged = TRUE]

\* Every leaf comes within the margin of its expiry.
TimePasses ==
    /\ serverCrt # Aged(serverCrt)
    /\ serverCrt' = Aged(serverCrt)
    /\ leaf' = [p \in Program |-> Aged(leaf[p])]
    /\ HostChanges
    /\ UNCHANGED <<caCrt, caKey, serverKey, at, ca, leafKey, addresses>>

-----------------------------------------------------------------------------
Init ==
    /\ caCrt = Unreadable /\ caKey = Unreadable
    /\ serverCrt = Unreadable /\ serverKey = Unreadable
    /\ at = [p \in Program |-> "off"]
    /\ ca = [p \in Program |-> Unreadable]
    /\ leaf = [p \in Program |-> Unreadable]
    /\ leafKey = [p \in Program |-> Unreadable]
    /\ addresses \in SUBSET Address
    /\ overlapped = FALSE
    /\ latest = Unreadable
    /\ installed = Unreadable
    /\ stale = [p \in Program |-> FALSE]

LoadCA(p) ==
    ReadCACrt(p) \/ ReadCAKey(p) \/ NewCA(p) \/ WriteCACrt(p) \/ WriteCAKey(p)

LoadLeaf(p) ==
    \/ ReadLeaf(p) \/ ReadLeafKey(p)
    \/ NewLeaf(p) \/ WriteLeaf(p) \/ WriteLeafKey(p)

Next ==
    \/ \E p \in Program : Launch(p) \/ LoadCA(p) \/ LoadLeaf(p) \/ Serve(p) \/ Exit(p)
    \/ AddressChanges \/ TimePasses

Spec == Init /\ [][Next]_vars

-----------------------------------------------------------------------------
(* Properties                                                              *)

\* Every file holds a certificate or key of its kind, or nothing usable.
TypeOK ==
    /\ caCrt \in CAKey \cup {Unreadable}
    /\ caKey \in CAKey \cup {Unreadable}
    /\ serverCrt \in Leaf \cup {Unreadable}
    /\ serverKey \in LeafKey \cup {Unreadable}
    /\ at \in [Program -> Points]
    /\ ca \in [Program -> CAKey \cup {Unreadable}]
    /\ leaf \in [Program -> Leaf \cup {Unreadable}]
    /\ leafKey \in [Program -> LeafKey \cup {Unreadable}]
    /\ addresses \in SUBSET Address
    /\ overlapped \in BOOLEAN
    /\ latest \in Program \cup {Unreadable}
    /\ installed \in CAKey \cup {Unreadable}
    /\ stale \in [Program -> BOOLEAN]

\* What a program serves is what a client that installed its CA accepts,
\* whatever crashes, other programs, older CAs and other networks left in the
\* files: its key opens the leaf, the leaf chains to the CA it offers at
\* /ca.crt, and it names every address of the host and is not about to expire.
\* The last two are looked at once per start: a host that changes afterwards
\* is served the old leaf until the next one.
ServedCoherent ==
    /\ TypeOK
    /\ \A p \in Program : at[p] = "serving" =>
           /\ leafKey[p] = leaf[p].key
           /\ leaf[p].signer = ca[p]
           /\ ~stale[p] => addresses \subseteq leaf[p].addresses /\ ~leaf[p].aged

\* The layout comment of certs.go: clients install the CA once.  No crash, no
\* change of addresses and no expiry of a leaf replaces a CA that was served.
\* Two starts that overlap may mix their pairs, and the next one then
\* generates a third CA.
InstalledOnce ==
    ~overlapped => \A p \in Program : at[p] = "serving" => ca[p] = installed

\* generateLeaf: the files mirror what is served, so that the next start of
\* an undisturbed store reuses both pairs.
MirrorsDisk ==
    latest # Unreadable /\ ~overlapped =>
        /\ caCrt = ca[latest] /\ caKey = ca[latest]
        /\ serverCrt = leaf[latest] /\ serverKey = leafKey[latest]
=============================================================================
