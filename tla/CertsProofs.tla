---------------------------- MODULE CertsProofs ----------------------------
(***************************************************************************)
(* What a program serves belongs together, for any number of programs that *)
(* overlap and crash, and any keys and addresses.                          *)
(*                                                                         *)
(* The files may hold anything, so the first invariant speaks of the       *)
(* memory of each program only: past which point of New it holds a CA, a   *)
(* leaf, and a leaf that fits the CA, the key and, until it changes, the   *)
(* host.                                                                   *)
(*                                                                         *)
(* The second one is about starts that do not overlap, and ties that       *)
(* memory to the files: how far New has got tells which files agree with   *)
(* what it holds.  Crashes may have left anything in the others, except    *)
(* that the files of a CA that was served are never rewritten.             *)
(***************************************************************************)
EXTENDS Certs, TLAPS

\* A program holds no CA before it has read or generated one.
HoldsCA == Points \ {"off", "readCACrt", "newCA"}

Coherent(p) ==
    /\ at[p] \in HoldsCA => ca[p] \in CAKey
    /\ at[p] = "readLeafKey" => leaf[p] \in Leaf
    /\ at[p] \in ChosenLeaf =>
           /\ leaf[p] \in Leaf
           /\ leafKey[p] = leaf[p].key
           /\ leaf[p].signer = ca[p]
           /\ ~stale[p] => addresses \subseteq leaf[p].addresses /\ ~leaf[p].aged

IInv == TypeOK /\ \A p \in Program : Coherent(p)

-----------------------------------------------------------------------------

\* Time takes nothing but its validity from a leaf.
LEMMA AgedLeaf ==
    ASSUME NEW l \in Leaf \cup {Unreadable}
    PROVE  /\ Aged(l) \in Leaf \cup {Unreadable}
           /\ l \in Leaf => /\ Aged(l) \in Leaf
                            /\ Aged(l).key = l.key
                            /\ Aged(l).signer = l.signer
                            /\ Aged(l).addresses = l.addresses
  BY DEF Aged, Leaf

\* Nothing is held before the first start.
LEMMA InitSound == Init => IInv
  BY DEF Init, IInv, TypeOK, Coherent, HoldsCA, ChosenLeaf, Points

\* loadOrGenerateCA ends with a CA in memory, read or new.
LEMMA LoadCASound ==
    ASSUME IInv, NEW p \in Program, LoadCA(p)
    PROVE  IInv'
  <1>1. CASE ReadCACrt(p)
    BY <1>1
    DEF ReadCACrt, Goto, IInv, TypeOK, Coherent, HoldsCA, ChosenLeaf, Points,
        files, ghosts
  <1>2. CASE ReadCAKey(p)
    BY <1>2
    DEF ReadCAKey, Goto, IInv, TypeOK, Coherent, HoldsCA, ChosenLeaf, Points,
        files, memory, ghosts
  <1>3. CASE NewCA(p)
    BY <1>3
    DEF NewCA, Goto, IInv, TypeOK, Coherent, HoldsCA, ChosenLeaf, Points,
        files, ghosts
  <1>4. CASE WriteCACrt(p)
    BY <1>4
    DEF WriteCACrt, Goto, IInv, TypeOK, Coherent, HoldsCA, ChosenLeaf,
        Points, memory, ghosts
  <1>5. CASE WriteCAKey(p)
    BY <1>5
    DEF WriteCAKey, Goto, IInv, TypeOK, Coherent, HoldsCA, ChosenLeaf,
        Points, memory, ghosts
  <1> QED
    BY <1>1, <1>2, <1>3, <1>4, <1>5 DEF LoadCA

\* loadOrGenerateLeaf ends with a pair that fits the CA, read or new.
LEMMA LoadLeafSound ==
    ASSUME IInv, NEW p \in Program, LoadLeaf(p)
    PROVE  IInv'
  <1>1. CASE ReadLeaf(p)
    BY <1>1
    DEF ReadLeaf, Goto, IInv, TypeOK, Coherent, HoldsCA, ChosenLeaf, Points,
        files, ghosts
  <1>2. CASE ReadLeafKey(p)
    BY <1>2 DEF ReadLeafKey, Reuse, KeyPair, Reusable, Goto, IInv, TypeOK, Coherent,
                HoldsCA, ChosenLeaf, Points, files, ghosts
  <1>3. CASE NewLeaf(p)
    BY <1>3
    DEF NewLeaf, Leaf, Goto, IInv, TypeOK, Coherent, HoldsCA, ChosenLeaf,
        Points, files, ghosts
  <1>4. CASE WriteLeaf(p)
    BY <1>4
    DEF WriteLeaf, Goto, IInv, TypeOK, Coherent, HoldsCA, ChosenLeaf, Points,
        memory, ghosts
  <1>5. CASE WriteLeafKey(p)
    BY <1>5
    DEF WriteLeafKey, Goto, IInv, TypeOK, Coherent, HoldsCA, ChosenLeaf,
        Points, memory, ghosts
  <1> QED
    BY <1>1, <1>2, <1>3, <1>4, <1>5 DEF LoadLeaf

\* Every step of Next keeps the memories coherent.
LEMMA NextSound ==
    ASSUME IInv, [Next]_vars
    PROVE  IInv'
  <1>1. ASSUME NEW p \in Program, Launch(p)
        PROVE  IInv'
    BY <1>1
    DEF Launch, Goto, IInv, TypeOK, Coherent, HoldsCA, ChosenLeaf, Points,
        files, memory
  <1>2. ASSUME NEW p \in Program, Serve(p)
        PROVE  IInv'
    BY <1>2
    DEF Serve, Goto, IInv, TypeOK, Coherent, HoldsCA, ChosenLeaf, Points,
        files, memory
  <1>3. ASSUME NEW p \in Program, Exit(p)
        PROVE  IInv'
    BY <1>3 DEF Exit, IInv, TypeOK, Coherent, HoldsCA, ChosenLeaf, Points, files
  <1>4. CASE AddressChanges
    BY <1>4
    DEF AddressChanges, HostChanges, IInv, TypeOK, Coherent, files, memory
  <1>5. CASE TimePasses
    <2>1. TypeOK'
      BY <1>5, AgedLeaf DEF TimePasses, HostChanges, IInv, TypeOK
    <2>2. ASSUME NEW p \in Program
          PROVE  Coherent(p)'
      <3>1. /\ leaf'[p] = Aged(leaf[p])
            /\ at[p] \in ChosenLeaf => stale'[p]
            /\ UNCHANGED <<at, ca, leafKey>>
        BY <1>5 DEF TimePasses, HostChanges
      <3>2. leaf[p] \in Leaf \cup {Unreadable} /\ Coherent(p)
        BY DEF IInv, TypeOK
      <3> QED
        BY <3>1, <3>2, AgedLeaf DEF Coherent
    <2> QED
      BY <2>1, <2>2 DEF IInv
  <1>6. CASE UNCHANGED vars
    BY <1>6 DEF vars, files, memory, ghosts, IInv, TypeOK, Coherent
  <1> QED
    BY <1>1, <1>2, <1>3, <1>4, <1>5, <1>6, LoadCASound, LoadLeafSound DEF Next

\* The files and the memories keep their types, and a program that serves has a
\* key that opens its leaf, a leaf that chains to the CA it offers, and, as long
\* as the host does not change after the choice, a leaf that names all its
\* addresses and is not about to expire.
THEOREM ServedCorrect == Spec => []ServedCoherent
  <1>1. IInv => ServedCoherent
    BY DEF IInv, Coherent, ServedCoherent, ChosenLeaf
  <1>2. IInv /\ [Next]_vars => IInv'
    BY NextSound
  <1> QED
    BY <1>1, <1>2, InitSound, PTL DEF Spec

-----------------------------------------------------------------------------
(* Starts that do not overlap                                              *)

\* New is about to replace the CA.
ReplacesCA == {"newCA", "writeCACrt", "fillCACrt", "writeCAKey", "fillCAKey"}

\* The CA files are those of the program.
HasCAFiles == {"readLeaf", "readLeafKey", "newLeaf", "writeLeaf", "fillLeaf",
               "writeLeafKey", "fillLeafKey", "ready"}

OnDisk(p) ==
    /\ at[p] \in {"readCAKey", "writeCAKey", "fillCAKey"} \cup HasCAFiles
          => caCrt = ca[p]
    /\ at[p] \in HasCAFiles => caKey = ca[p]
    /\ at[p] \in {"readLeafKey", "writeLeafKey", "fillLeafKey", "ready"}
          => serverCrt = leaf[p]
    /\ at[p] = "ready" => serverKey = leafKey[p]
    /\ at[p] \in ReplacesCA => installed = Unreadable
    /\ at[p] = "serving" => ca[p] = installed

\* The files are those of the last start, until the next one begins.
LastStart ==
    latest # Unreadable =>
        /\ \A p \in Program : ~Starting(p)
        /\ caCrt = ca[latest] /\ caKey = ca[latest]
        /\ serverCrt = leaf[latest] /\ serverKey = leafKey[latest]

Undisturbed ==
    ~overlapped =>
        /\ \A p, q \in Program : Starting(p) /\ Starting(q) => p = q
        /\ installed # Unreadable => caCrt = installed /\ caKey = installed
        /\ \A p \in Program : OnDisk(p)
        /\ LastStart

StoreInv == IInv /\ Undisturbed

\* Nothing is stored yet.
LEMMA StoreInit == Init => StoreInv
  BY InitSound
  DEF Init, StoreInv, Undisturbed, OnDisk, LastStart, Starting, ReplacesCA, HasCAFiles

\* What a step of the only start under way has to keep.
LEMMA OnlyStart ==
    ASSUME StoreInv, NEW p \in Program, ~overlapped, UNCHANGED ghosts,
           Starting(p), Starting(p)',
           \A q \in Program \ {p} : at'[q] = at[q] /\ ca'[q] = ca[q],
           installed # Unreadable => caCrt' = installed /\ caKey' = installed,
           OnDisk(p)'
    PROVE  Undisturbed'
  <1>1. \A q \in Program \ {p} : ~Starting(q)
    BY DEF StoreInv, Undisturbed
  <1>2. ASSUME NEW q \in Program \ {p} PROVE ~Starting(q)' /\ OnDisk(q)'
    <2>1. at'[q] \in {"off", "serving"} /\ (at'[q] = "serving" => ca'[q] = installed)
      BY <1>1 DEF StoreInv, Undisturbed, OnDisk, Starting
    <2> QED
      BY <2>1 DEF OnDisk, Starting, ghosts, ReplacesCA, HasCAFiles
  <1>3. latest' = Unreadable
    BY DEF StoreInv, Undisturbed, LastStart, ghosts
  <1> QED
    BY <1>2, <1>3 DEF Undisturbed, LastStart, ghosts

\* Up to the CA: it is replaced only while none was served.
LEMMA LoadCAOnDisk ==
    ASSUME StoreInv, NEW p \in Program, ~overlapped, LoadCA(p)
    PROVE  Undisturbed'
  <1> DEFINE Others == \A q \in Program \ {p} : at'[q] = at[q] /\ ca'[q] = ca[q]
             Kept == installed # Unreadable => caCrt' = installed /\ caKey' = installed
             Goal == /\ UNCHANGED ghosts /\ Starting(p) /\ Starting(p)' /\ Others /\ Kept
                     /\ OnDisk(p)'
  <1>1. /\ at \in [Program -> Points] /\ ca \in [Program -> CAKey \cup {Unreadable}]
        /\ leaf \in [Program -> Leaf \cup {Unreadable}]
        /\ leafKey \in [Program -> LeafKey \cup {Unreadable}]
    BY DEF StoreInv, IInv, TypeOK
  <1>2. /\ OnDisk(p)
        /\ installed # Unreadable => caCrt = installed /\ caKey = installed
    BY DEF StoreInv, Undisturbed
  <1>3. CASE ReadCACrt(p)
    <2>1. Goal
      BY <1>1, <1>2, <1>3
      DEF ReadCACrt, Goto, OnDisk, Starting, ReplacesCA, HasCAFiles, files, ghosts
    <2> QED
      BY <2>1, OnlyStart
  <1>4. CASE ReadCAKey(p)
    <2>1. Goal
      BY <1>1, <1>2, <1>4
      DEF ReadCAKey, Goto, OnDisk, Starting, ReplacesCA, HasCAFiles, files, memory,
          ghosts
    <2> QED
      BY <2>1, OnlyStart
  <1>5. CASE NewCA(p)
    <2>1. Goal
      BY <1>1, <1>2, <1>5
      DEF NewCA, Goto, OnDisk, Starting, ReplacesCA, HasCAFiles, files, ghosts
    <2> QED
      BY <2>1, OnlyStart
  <1>6. CASE WriteCACrt(p)
    <2>1. Goal
      BY <1>1, <1>2, <1>6
      DEF WriteCACrt, Goto, OnDisk, Starting, ReplacesCA, HasCAFiles, memory, ghosts
    <2> QED
      BY <2>1, OnlyStart
  <1>7. CASE WriteCAKey(p)
    <2>1. Goal
      BY <1>1, <1>2, <1>7
      DEF WriteCAKey, Goto, OnDisk, Starting, ReplacesCA, HasCAFiles, memory, ghosts
    <2> QED
      BY <2>1, OnlyStart
  <1> QED
    BY <1>3, <1>4, <1>5, <1>6, <1>7 DEF LoadCA

\* From there on the CA files are the program's.
LEMMA LoadLeafOnDisk ==
    ASSUME StoreInv, NEW p \in Program, ~overlapped, LoadLeaf(p)
    PROVE  Undisturbed'
  <1> DEFINE Others == \A q \in Program \ {p} : at'[q] = at[q] /\ ca'[q] = ca[q]
             Kept == installed # Unreadable => caCrt' = installed /\ caKey' = installed
             Goal == /\ UNCHANGED ghosts /\ Starting(p) /\ Starting(p)' /\ Others /\ Kept
                     /\ OnDisk(p)'
  <1>1. /\ at \in [Program -> Points] /\ ca \in [Program -> CAKey \cup {Unreadable}]
        /\ leaf \in [Program -> Leaf \cup {Unreadable}]
        /\ leafKey \in [Program -> LeafKey \cup {Unreadable}]
    BY DEF StoreInv, IInv, TypeOK
  <1>2. /\ OnDisk(p)
        /\ installed # Unreadable => caCrt = installed /\ caKey = installed
    BY DEF StoreInv, Undisturbed
  <1>3. CASE ReadLeaf(p)
    <2>1. Goal
      BY <1>1, <1>2, <1>3
      DEF ReadLeaf, Goto, OnDisk, Starting, ReplacesCA, HasCAFiles, files, ghosts
    <2> QED
      BY <2>1, OnlyStart
  <1>4. CASE ReadLeafKey(p)
    <2>1. Goal
      BY <1>1, <1>2, <1>4
      DEF ReadLeafKey, Goto, OnDisk, Starting, ReplacesCA, HasCAFiles, files, ghosts
    <2> QED
      BY <2>1, OnlyStart
  <1>5. CASE NewLeaf(p)
    <2>1. Goal
      BY <1>1, <1>2, <1>5
      DEF NewLeaf, Goto, OnDisk, Starting, ReplacesCA, HasCAFiles, files, ghosts
    <2> QED
      BY <2>1, OnlyStart
  <1>6. CASE WriteLeaf(p)
    <2>1. Goal
      BY <1>1, <1>2, <1>6
      DEF WriteLeaf, Goto, OnDisk, Starting, ReplacesCA, HasCAFiles, memory, ghosts
    <2> QED
      BY <2>1, OnlyStart
  <1>7. CASE WriteLeafKey(p)
    <2>1. Goal
      BY <1>1, <1>2, <1>7
      DEF WriteLeafKey, Goto, OnDisk, Starting, ReplacesCA, HasCAFiles, memory, ghosts
    <2> QED
      BY <2>1, OnlyStart
  <1> QED
    BY <1>3, <1>4, <1>5, <1>6, <1>7 DEF LoadLeaf

\* A start that completes serves what is in the files.
LEMMA ServeOnDisk ==
    ASSUME StoreInv, NEW p \in Program, ~overlapped, Serve(p)
    PROVE  Undisturbed'
  <1>1. /\ at[p] = "ready" /\ Starting(p)
        /\ at' = [at EXCEPT ![p] = "serving"]
        /\ installed' = IF installed = Unreadable THEN ca[p] ELSE installed
        /\ UNCHANGED <<caCrt, caKey, serverCrt, serverKey, ca, leaf, leafKey, overlapped>>
    BY DEF Serve, Goto, Starting, files, memory
  <1>2. /\ \A q \in Program \ {p} : ~Starting(q)
        /\ OnDisk(p)
        /\ installed # Unreadable => caCrt = installed
    BY <1>1 DEF StoreInv, Undisturbed
  <1>3. latest' = p
    BY <1>2 DEF Serve
  <1>4. caCrt = ca[p] /\ caKey = ca[p] /\ serverCrt = leaf[p] /\ serverKey = leafKey[p]
    BY <1>1, <1>2 DEF OnDisk, HasCAFiles
  <1>5. installed' = ca[p]
    BY <1>1, <1>2, <1>4
  <1>6. /\ at'[p] = "serving"
        /\ \A q \in Program \ {p} : at'[q] = at[q]
    BY <1>1 DEF StoreInv, IInv, TypeOK
  <1>7. ASSUME NEW q \in Program \ {p} PROVE ~Starting(q)' /\ OnDisk(q)'
    <2>1. at'[q] \in {"off", "serving"}
      BY <1>2, <1>6 DEF Starting
    <2>2. CASE at'[q] = "serving"
      <3>1. ca[q] = installed
        BY <1>6, <2>2 DEF StoreInv, Undisturbed, OnDisk
      <3>2. ca[q] \in CAKey
        BY <1>6, <2>2 DEF StoreInv, IInv, Coherent, HoldsCA, Points
      <3>3. installed' = installed
        BY <1>1, <3>1, <3>2, CertsAssumption
      <3> QED
        BY <1>1, <2>2, <3>1, <3>3 DEF OnDisk, Starting, ReplacesCA, HasCAFiles
    <2> QED
      BY <2>1, <2>2 DEF OnDisk, Starting, ReplacesCA, HasCAFiles
  <1>8. ~Starting(p)' /\ OnDisk(p)'
    BY <1>1, <1>5, <1>6 DEF OnDisk, Starting, ReplacesCA, HasCAFiles
  <1>9. LastStart'
    BY <1>1, <1>3, <1>4, <1>7, <1>8 DEF LastStart
  <1>10. caCrt' = installed' /\ caKey' = installed'
    BY <1>1, <1>4, <1>5
  <1> QED
    BY <1>7, <1>8, <1>9, <1>10 DEF Undisturbed

\* A program that ends leaves the files alone.
LEMMA ExitOnDisk ==
    ASSUME StoreInv, NEW p \in Program, ~overlapped, Exit(p)
    PROVE  Undisturbed'
  <1>1. /\ at'[p] = "off"
        /\ latest' = IF latest = p THEN Unreadable ELSE latest
        /\ \A q \in Program \ {p} : /\ at'[q] = at[q] /\ ca'[q] = ca[q]
                                    /\ leaf'[q] = leaf[q] /\ leafKey'[q] = leafKey[q]
        /\ UNCHANGED <<caCrt, caKey, serverCrt, serverKey, overlapped, installed>>
    BY DEF Exit, files, StoreInv, IInv, TypeOK
  <1>2. ASSUME NEW q \in Program
        PROVE  OnDisk(q)' /\ (Starting(q)' => Starting(q) /\ q # p)
    <2>1. CASE q = p
      BY <1>1, <2>1 DEF OnDisk, Starting, ReplacesCA, HasCAFiles
    <2>2. CASE q # p
      BY <1>1, <2>2 DEF StoreInv, Undisturbed, OnDisk, Starting
    <2> QED
      BY <2>1, <2>2
  <1>3. LastStart'
    <2>1. latest \in Program \cup {Unreadable}
      BY DEF StoreInv, IInv, TypeOK
    <2> QED
      BY <1>1, <1>2, <2>1 DEF StoreInv, Undisturbed, LastStart
  <1> QED
    BY <1>1, <1>2, <1>3 DEF StoreInv, Undisturbed

\* A leaf ages in the file as it does in memory.
LEMMA TimeOnDisk ==
    ASSUME StoreInv, ~overlapped, TimePasses
    PROVE  Undisturbed'
  <1>1. /\ serverCrt' = Aged(serverCrt)
        /\ \A p \in Program : leaf'[p] = Aged(leaf[p])
        /\ UNCHANGED <<caCrt, caKey, serverKey, at, ca, leafKey, overlapped, latest,
                       installed>>
    BY DEF TimePasses, HostChanges
  <1>2. ASSUME NEW p \in Program PROVE OnDisk(p)' /\ (Starting(p)' <=> Starting(p))
    BY <1>1 DEF StoreInv, Undisturbed, OnDisk, Starting
  <1>3. LastStart'
    <2>1. latest \in Program \cup {Unreadable}
      BY DEF StoreInv, IInv, TypeOK
    <2> QED
      BY <1>1, <1>2, <2>1 DEF StoreInv, Undisturbed, LastStart
  <1> QED
    BY <1>1, <1>2, <1>3 DEF StoreInv, Undisturbed

LEMMA StoreNext ==
    ASSUME StoreInv, [Next]_vars
    PROVE  StoreInv'
  <1>1. overlapped => overlapped'
    BY DEF Next, Launch, LoadCA, ReadCACrt, ReadCAKey, NewCA, WriteCACrt, WriteCAKey,
           LoadLeaf, ReadLeaf, ReadLeafKey, NewLeaf, WriteLeaf, WriteLeafKey, Serve,
           Exit, AddressChanges, TimePasses, HostChanges, ghosts, vars
  <1>2. IInv'
    BY NextSound DEF StoreInv
  <1> SUFFICES ASSUME ~overlapped' PROVE Undisturbed'
    BY <1>2 DEF StoreInv, Undisturbed
  <1>3. ~overlapped
    BY <1>1
  <1>4. ASSUME NEW p \in Program, Launch(p) PROVE Undisturbed'
    <2>1. /\ \A q \in Program : ~Starting(q)
          /\ at'[p] = "readCACrt" /\ latest' = Unreadable
          /\ \A q \in Program \ {p} : at'[q] = at[q]
          /\ UNCHANGED <<caCrt, caKey, serverCrt, serverKey, ca, leaf, leafKey, installed>>
      BY <1>4 DEF Launch, Goto, files, memory, StoreInv, IInv, TypeOK
    <2>2. OnDisk(p)'
      BY <2>1 DEF OnDisk, ReplacesCA, HasCAFiles
    <2>3. \A q \in Program \ {p} : OnDisk(q)' /\ ~Starting(q)'
      BY <1>3, <2>1 DEF StoreInv, Undisturbed, OnDisk, Starting
    <2> QED
      BY <1>3, <2>1, <2>2, <2>3 DEF StoreInv, Undisturbed, LastStart
  <1>5. CASE AddressChanges \/ UNCHANGED vars
    <2>1. UNCHANGED <<caCrt, caKey, serverCrt, serverKey, at, ca, leaf, leafKey,
                      overlapped, latest, installed>>
      BY <1>5 DEF AddressChanges, HostChanges, vars, files, memory, ghosts
    <2> QED
      BY <1>3, <2>1 DEF StoreInv, Undisturbed, OnDisk, LastStart, Starting
  <1> QED
    BY <1>3, <1>4, <1>5, LoadCAOnDisk, LoadLeafOnDisk, ServeOnDisk, ExitOnDisk,
       TimeOnDisk
    DEF Next

\* Both invariants, for all values of the constants.
LEMMA AlwaysStored == Spec => []StoreInv
  BY StoreInit, StoreNext, PTL DEF Spec

\* Without overlapping starts every program serves the CA that was served first.
THEOREM InstalledOnceCorrect == Spec => []InstalledOnce
  <1>1. StoreInv => InstalledOnce
    BY DEF StoreInv, Undisturbed, OnDisk, InstalledOnce
  <1> QED
    BY <1>1, AlwaysStored, PTL

\* Without overlapping starts the files are those of the last one.
THEOREM MirrorsDiskCorrect == Spec => []MirrorsDisk
  <1>1. StoreInv => MirrorsDisk
    BY DEF StoreInv, Undisturbed, LastStart, MirrorsDisk
  <1> QED
    BY <1>1, AlwaysStored, PTL
=============================================================================
