------------------------------- MODULE Sharing -------------------------------
(***************************************************************************)
(* The pen as the sessions share it.  server.go gives every session the    *)
(* same two devices, without an owner: the clients' strokes interleave,    *)
(* and the disconnect of one resets what another one holds.                *)
(*                                                                         *)
(* A step of a session is a handler of Tablet.  The clients are the page   *)
(* of app.js: one message after another on an ordered channel, a move only *)
(* while the finger is down; buttons may come from any other client.  A    *)
(* session that ends resets the devices first; then it stops its video,    *)
(* which may take a while, and closes the peer connection, and until then  *)
(* (a handler under way: even longer) the data channel delivers.           *)
(*                                                                         *)
(* After tablet.Close, which takes no d.mu and stops no timer, the driver  *)
(* works on: pen.kernel then is what it would have sent.  What a Send      *)
(* meets that is under way while the device closes is in VirtualDevice.    *)
(***************************************************************************)
EXTENDS Tablet

CONSTANTS
    Client,             \* each is connected at most once at a time
    TrackpadMissing     \* its registration failed: a nil in the route map

ASSUME MissingAssumption == TrackpadMissing \in BOOLEAN

VARIABLES
    at,         \* where each client's session is
    holding,    \* clients whose finger or left button is down
    open,       \* tablet.Close has not been called
    ghost       \* history: since the last reset, a session past its own reset
                \* has touched the pen, or one left the tool without a reset

sharing == <<at, holding, open, ghost>>
sharingVars == <<pen, fired, at, holding, open, ghost>>

-----------------------------------------------------------------------------
(* Messages of the clients                                                 *)

\* A message is handled in a session that runs or has been reset already.
Message(c) ==
    /\ at[c] # "gone"
    /\ ghost' = (ghost \/ at[c] = "leaving")
    /\ UNCHANGED <<at, open>>

Hold(c) == c \notin holding /\ holding' = holding \cup {c}

Release(c) == c \in holding /\ holding' = holding \ {c}

TouchDown(c, p) == Message(c) /\ Hold(c) /\ PointerDown(p)

TouchMove(c, p) ==
    Message(c) /\ c \in holding /\ PointerMove(p) /\ UNCHANGED holding

TouchUp(c) == Message(c) /\ Release(c) /\ PointerUp

\* ProcessEvent ignores a pointerup when the tool is out of range, where a
\* reset may have taken it.
TouchUpIgnored(c) == Release(c) /\ ~pen.inRange /\ UNCHANGED <<vars, at, open, ghost>>

Click(c, pressed) ==
    /\ Message(c)
    /\ IF pressed THEN Hold(c) ELSE Release(c)
    /\ LeftButton(pressed)

Squeeze(c, b, pressed) ==
    Message(c) /\ BarrelButton(b, pressed) /\ UNCHANGED holding

\* The page lifts its fingers before it tells that the tablet panel is gone.
SwipeAway(c) ==
    /\ at[c] # "gone"
    /\ c \notin holding
    /\ Reset
    /\ ghost' = FALSE
    /\ UNCHANGED <<at, holding, open>>

-----------------------------------------------------------------------------
(* Sessions                                                                *)

GoTo(c, phase) == at' = [at EXCEPT ![c] = phase]

\* Shutdown refuses new sessions before it closes the device.
Connect(c) ==
    /\ open
    /\ at[c] = "gone"
    /\ GoTo(c, "running")
    /\ UNCHANGED <<pen, fired, holding, open, ghost>>

\* Variant: the clean-up of the session does not reset the pen.
BugResetDevices(c) ==
    /\ at[c] = "running"
    /\ GoTo(c, "leaving")
    /\ UNCHANGED <<pen, fired, holding, open, ghost>>

\* resetProcessors, the first thing the session does on its way out.  The loop
\* walks over a map: it may come to the missing trackpad first, and panics.
ResetDevices(c) ==
    /\ at[c] = "running"
    /\ GoTo(c, "leaving")
    /\ UNCHANGED <<holding, open>>
    /\ \/ Reset /\ ghost' = FALSE
       \/ /\ TrackpadMissing
          /\ ghost' = (ghost \/ pen.inRange)
          /\ UNCHANGED vars

\* The peer connection is closed and the channel's last message handled.
End(c) ==
    /\ at[c] = "leaving"
    /\ GoTo(c, "gone")
    /\ holding' = holding \ {c}
    /\ UNCHANGED <<pen, fired, open, ghost>>

\* Shutdown has waited for the sessions, or given up.
Close == open /\ open' = FALSE /\ UNCHANGED <<pen, fired, at, holding, ghost>>

-----------------------------------------------------------------------------
SharingInit ==
    /\ Init
    /\ at = [c \in Client |-> "gone"]
    /\ holding = {}
    /\ open = TRUE
    /\ ghost = FALSE

Stroke(c) ==
    \/ \E p \in RawPressure \cup {Absent} : TouchDown(c, p) \/ TouchMove(c, p)
    \/ TouchUp(c)
    \/ TouchUpIgnored(c)
    \/ \E pressed \in BOOLEAN :
          Click(c, pressed) \/ \E b \in Barrel : Squeeze(c, b, pressed)

Expiry(t) == FireTimer(t) /\ UNCHANGED sharing
Tick == Callback /\ UNCHANGED sharing

SharingNext ==
    \/ \E c \in Client :
          Connect(c) \/ Stroke(c) \/ SwipeAway(c) \/ ResetDevices(c) \/ End(c)
    \/ Close
    \/ \E t \in Timer : Expiry(t)
    \/ Tick

SharingSpec == SharingInit /\ [][SharingNext]_sharingVars

-----------------------------------------------------------------------------
(* Properties                                                              *)

Runs(c) == at[c] = "running"

SharingTypeOK ==
    /\ at \in [Client -> {"gone", "running", "leaving"}]
    /\ holding \subseteq {c \in Client : at[c] # "gone"}
    /\ open \in BOOLEAN
    /\ ghost \in BOOLEAN

\* However the clients interleave, and whichever of them is reset by the
\* other, a tip that is down is held by a client whose session runs.  Only a
\* message that its session handled after its reset, or a reset that panicked
\* before it came to the pen, leaves it down for longer, and only until the
\* next reset of any session.
NoGhostTip ==
    /\ SharingTypeOK
    /\ pen.tipDown => ghost \/ \E c \in holding : Runs(c)

\* Once the last session has reset its devices, in whatever order they went,
\* the tool is out of proximity and no keep-alive timer runs: a callback that
\* was already waiting sends nothing, and the only frames that can still come
\* are those of a message the channel delivers late.
QuietWithoutSessions ==
    [][~ghost /\ (\A c \in Client : ~Runs(c)) =>
        /\ ~pen.inRange /\ pen.armed = {}
        /\ pen'.frames # <<>> => ghost' \/ UNCHANGED pen]_sharingVars
=============================================================================
