---------------------------- MODULE SessionProofs ----------------------------
(***************************************************************************)
(* The clean-up of a session, for any devices, any number of offers and    *)
(* pipelines, and callbacks that run at any time: the desktop is not       *)
(* captured after it, and a contact that is left is accounted for.         *)
(*                                                                         *)
(* A callback that passed its nil check may call Start at any later time.  *)
(* What makes it harmless is that the pipeline it reaches was released     *)
(* before s.videoStreamer forgot it.  A message may be handled after       *)
(* resetProcessors saw its device; the history variable late keeps them    *)
(* apart from what the reset has missed.                                   *)
(***************************************************************************)
EXTENDS Session, TLAPS

Capturing(v) == phase[v] \in {"ready", "capturing"}

\* A pipeline is released before it is forgotten, and there is none at first.
VideoOwned ==
    /\ NoCaptureAfterTeardown
    /\ at = "forgetVideo" => \A v \in Stream : ~Capturing(v)
    /\ at = "start" => videoStreamer = NoStream

\* Where the WebSocket is closed, or was never of any use.
ConnectionEnds ==
    /\ pc = "none" => inFlight = NoMessage /\ engaged = {}
    /\ at = "start" => pc = "none"
    /\ at \in {"reset", "stopVideo", "forgetVideo", "closePC", "returned"} => ~wsOpen
    /\ at = "closeWS" /\ wsOpen => pc = "none"

\* What resetProcessors has not visited yet, and what was pressed behind its
\* back, is all that may hold a contact; only a panic makes it skip a device.
ContactsLeft ==
    /\ panicked => registered # Device
    /\ at # "reset" /\ registered = Device => resetLeft = {}
    /\ at \in {"reset", "stopVideo", "forgetVideo", "closePC", "closeWS", "returned"}
          => engaged \subseteq late \cup resetLeft

IInv == VideoOwned /\ ConnectionEnds /\ ContactsLeft

-----------------------------------------------------------------------------

\* A session starts with nothing.
LEMMA InitSound == Init => IInv
  <1> SUFFICES ASSUME Init PROVE IInv
    OBVIOUS
  <1>1. phase \in [Stream -> Video!Phases] /\ \A v \in Stream : phase[v] = "absent"
    BY DEF Init, Video!Init, Video!Phases
  <1>2. callbacks \in 0..MaxCallbacks /\ offers \in 0..MaxOffers
    BY BoundAssumption DEF Init
  <1>3. TypeOK
    BY <1>1, <1>2 DEF Init, TypeOK, RunPoints
  <1> QED
    BY <1>1, <1>3 DEF Init, IInv, VideoOwned, NoCaptureAfterTeardown, ConnectionEnds,
                      ContactsLeft, Capturing, TornDown

-----------------------------------------------------------------------------
(* The goroutine of Run                                                    *)

\* What these steps assign has its type.
LEMMA TypesKept ==
    ASSUME TypeOK, UNCHANGED registered, UNCHANGED crashed,
           \/ Answer \/ Disconnect
           \/ ReadError \/ (\E d \in Device : ResetOne(d)) \/ ResetDone
           \/ ForgetVideo \/ ClosePC \/ CloseWS
    PROVE  TypeOK'
  <1> USE DEF runVars, pionVars, videoVars, dataVars, Goto, TypeOK, RunPoints
  <1>1. CASE Answer \/ Disconnect
    <2>1. CASE Answer
      <3>1. negotiated \in BOOLEAN
        OBVIOUS
      <3> HIDE DEF TypeOK
      <3>2. at' \in RunPoints /\ negotiated' \in BOOLEAN
        BY <2>1, <3>1 DEF Answer
      <3>3. UNCHANGED <<withVideo, resetLeft, panicked, wsOpen, pc, callbacks,
                        passedCheck, offers, videoStreamer, phase, inFlight, engaged, late>>
        BY <2>1 DEF Answer
      <3> QED
        BY <3>2, <3>3 DEF TypeOK
    <2>2. CASE Disconnect
      <3> HIDE DEF TypeOK
      <3>1. /\ wsOpen' \in BOOLEAN
            /\ UNCHANGED <<at, withVideo, resetLeft, panicked, pc, negotiated,
                           callbacks, passedCheck, offers, videoStreamer, phase,
                           inFlight, engaged, late>>
        BY <2>2 DEF Disconnect
      <3> QED
        BY <3>1 DEF TypeOK
    <2> QED
      BY <1>1, <2>1, <2>2
  <1>2. CASE ReadError \/ ResetDone
    BY <1>2 DEF ReadError, ResetDone
  <1>3. ASSUME NEW d \in Device, ResetOne(d) PROVE TypeOK'
    <2>1. /\ at \in RunPoints /\ panicked \in BOOLEAN
          /\ resetLeft \in SUBSET Device /\ engaged \in SUBSET registered
      OBVIOUS
    <2> HIDE DEF TypeOK
    <2>2. at' \in RunPoints /\ panicked' \in BOOLEAN
      BY <1>3, <2>1 DEF ResetOne
    <2>3. resetLeft' \in SUBSET Device /\ engaged' \in SUBSET registered
      BY <1>3, <2>1 DEF ResetOne
    <2>4. UNCHANGED <<withVideo, wsOpen, pc, negotiated, callbacks, passedCheck,
                      offers, videoStreamer, phase, inFlight, late>>
      BY <1>3 DEF ResetOne
    <2> QED
      BY <2>2, <2>3, <2>4 DEF TypeOK
  <1>4. CASE ForgetVideo
    BY <1>4 DEF ForgetVideo
  <1>5. CASE ClosePC
    BY <1>5 DEF ClosePC
  <1>6. CASE CloseWS
    <2> HIDE DEF TypeOK
    <2>1. /\ at' \in RunPoints /\ wsOpen' \in BOOLEAN
          /\ UNCHANGED <<withVideo, resetLeft, panicked, pc, negotiated, callbacks,
                         passedCheck, offers, videoStreamer, phase, inFlight, engaged, late>>
      BY <1>6 DEF CloseWS
    <2> QED
      BY <2>1 DEF TypeOK
  <1> QED
    BY <1>1, <1>2, <1>3, <1>4, <1>5, <1>6

\* Up to an answer nothing is torn down.
LEMMA NegotiationSound ==
    ASSUME IInv, UNCHANGED registered, UNCHANGED crashed,
           Dial \/ ReadOffer \/ AddVideo \/ Answer
    PROVE  IInv'
  <1> USE StreamAssumption
        DEF runVars, pionVars, videoVars, dataVars, Goto,
            IInv, VideoOwned, NoCaptureAfterTeardown, ConnectionEnds,
            ContactsLeft, TypeOK, Capturing, TornDown, RunPoints, Video!Phases
  <1>1. CASE Dial
    BY <1>1 DEF Dial
  <1>2. CASE ReadOffer
    BY <1>2, BoundAssumption DEF ReadOffer
  <1>3. CASE AddVideo
    <2>1. CASE UNCHANGED videoVars
      BY <1>3, <2>1 DEF AddVideo
    <2>2. ASSUME NEW v \in Stream, NEW now \in {"released", "ready"},
                 videoStreamer = NoStream,
                 phase' = [phase EXCEPT ![v] = now],
                 videoStreamer' = IF now = "ready" THEN v ELSE NoStream
          PROVE  IInv'
      <3>1. /\ phase' \in [Stream -> Video!Phases]
            /\ \A w \in Stream : ~Capturing(w)
            /\ \A w \in Stream : Capturing(w)' => w = v /\ now = "ready"
        BY <2>2
      <3>2. NoCaptureAfterTeardown'
        <4>1. TypeOK'
          BY <1>3, <2>2, <3>1 DEF AddVideo
        <4> QED
          BY <1>3, <2>2, <3>1, <4>1 DEF AddVideo
      <3> QED
        BY <1>3, <3>2 DEF AddVideo
    <2> QED
      BY <1>3, <2>1, <2>2 DEF AddVideo, WantsVideo, NextStream
  <1>4. CASE Answer
    <2>1. TypeOK'
      <3> HIDE DEF TypeOK
      <3> QED
        BY <1>4, TypesKept
    <2>2. VideoOwned'
      <3> HIDE DEF TypeOK
      <3> QED
        BY <1>4, <2>1 DEF Answer
    <2>3. ConnectionEnds' /\ ContactsLeft'
      <3> HIDE DEF TypeOK, VideoOwned
      <3> QED
        BY <1>4 DEF Answer
    <2> QED
      BY <2>1, <2>2, <2>3
  <1> QED
    BY <1>1, <1>2, <1>3, <1>4

\* The deferred calls release what the session holds.
LEMMA CleanUpSound ==
    ASSUME IInv, UNCHANGED registered, UNCHANGED crashed,
           \/ ReadError \/ (\E d \in Device : ResetOne(d)) \/ ResetDone
           \/ StopVideo \/ ForgetVideo \/ ClosePC \/ CloseWS
    PROVE  IInv'
  <1> USE StreamAssumption
        DEF runVars, pionVars, videoVars, dataVars, Goto,
            IInv, VideoOwned, NoCaptureAfterTeardown, ConnectionEnds,
            ContactsLeft, TypeOK, Capturing, TornDown, RunPoints, Video!Phases
  <1>1. CASE ReadError
    BY <1>1 DEF ReadError
  <1>2. ASSUME NEW d \in Device, ResetOne(d) PROVE IInv'
    <2>1. TypeOK'
      <3> HIDE DEF TypeOK
      <3> QED
        BY <1>2, TypesKept
    <2>2. VideoOwned'
      <3> HIDE DEF TypeOK
      <3> QED
        BY <1>2, <2>1 DEF ResetOne
    <2>3. ConnectionEnds'
      <3> HIDE DEF TypeOK, VideoOwned
      <3>1. /\ UNCHANGED <<pc, wsOpen, inFlight, late>>
            /\ engaged' \subseteq engaged
            /\ at = "reset" /\ at' \in {"reset", "stopVideo"}
        BY <1>2 DEF ResetOne
      <3> QED
        BY <3>1
    <2>4. ContactsLeft'
      <3>1. engaged \subseteq registered
        OBVIOUS
      <3> HIDE DEF TypeOK, VideoOwned, ConnectionEnds
      <3>2. /\ at = "reset" /\ d \in Device /\ engaged \subseteq late \cup resetLeft
            /\ resetLeft' = resetLeft \ {d} /\ UNCHANGED <<registered, late>>
        BY <1>2 DEF ResetOne
      <3>3. CASE d \in registered
        <4>1. UNCHANGED <<at, panicked>> /\ engaged' = engaged \ {d}
          BY <1>2, <3>3 DEF ResetOne
        <4> QED
          BY <3>2, <4>1
      <3>4. CASE d \notin registered
        <4>1. at' = "stopVideo" /\ UNCHANGED engaged /\ registered # Device
          BY <1>2, <3>2, <3>4 DEF ResetOne
        <4> QED
          BY <3>1, <3>2, <3>4, <4>1
      <3> QED
        BY <3>3, <3>4
    <2> QED
      BY <2>1, <2>2, <2>3, <2>4
  <1>3. CASE ResetDone
    BY <1>3 DEF ResetDone
  <1>4. CASE StopVideo
    BY <1>4 DEF StopVideo
  <1>5. CASE ForgetVideo
    BY <1>5 DEF ForgetVideo
  <1>6. CASE ClosePC
    <2>1. TypeOK'
      <3> HIDE DEF TypeOK
      <3> QED
        BY <1>6, TypesKept
    <2>2. VideoOwned'
      <3> HIDE DEF TypeOK
      <3> QED
        BY <1>6, <2>1 DEF ClosePC
    <2>3. ConnectionEnds' /\ ContactsLeft'
      <3> HIDE DEF TypeOK, VideoOwned
      <3> QED
        BY <1>6 DEF ClosePC
    <2> QED
      BY <2>1, <2>2, <2>3
  <1>7. CASE CloseWS
    <2>1. TypeOK'
      <3> HIDE DEF TypeOK
      <3> QED
        BY <1>7, TypesKept
    <2>2. VideoOwned'
      <3> HIDE DEF TypeOK
      <3> QED
        BY <1>7, <2>1 DEF CloseWS
    <2>3. ConnectionEnds' /\ ContactsLeft'
      <3> HIDE DEF TypeOK, VideoOwned
      <3> QED
        BY <1>7 DEF CloseWS
    <2> QED
      BY <2>1, <2>2, <2>3
  <1> QED
    BY <1>1, <1>2, <1>3, <1>4, <1>5, <1>6, <1>7

-----------------------------------------------------------------------------
(* The other goroutines and the peer                                       *)

LEMMA PeerSound ==
    ASSUME IInv, UNCHANGED registered, UNCHANGED crashed,
           Disconnect \/ Connect \/ Interrupt \/ CheckStreamer
    PROVE  IInv'
  <1> USE DEF runVars, pionVars, videoVars, dataVars,
            IInv, VideoOwned, NoCaptureAfterTeardown, ConnectionEnds,
            ContactsLeft, TypeOK, Capturing, TornDown, RunPoints, Video!Phases
  <1>1. CASE Disconnect
    <2>1. TypeOK'
      <3> HIDE DEF TypeOK
      <3> QED
        BY <1>1, TypesKept
    <2>2. VideoOwned'
      <3> HIDE DEF TypeOK
      <3> QED
        BY <1>1, <2>1 DEF Disconnect
    <2>3. ConnectionEnds' /\ ContactsLeft'
      <3> HIDE DEF TypeOK, VideoOwned
      <3> QED
        BY <1>1 DEF Disconnect
    <2> QED
      BY <2>1, <2>2, <2>3
  <1>2. CASE Connect
    BY <1>2, BoundAssumption DEF Connect
  <1>3. CASE Interrupt
    BY <1>3 DEF Interrupt
  <1>4. CASE CheckStreamer
    BY <1>4, BoundAssumption DEF CheckStreamer
  <1> QED
    BY <1>1, <1>2, <1>3, <1>4

\* A pipeline the session released is not started any more.
LEMMA StartSound ==
    ASSUME IInv, StartStreamer
    PROVE  IInv'
  <1>1. /\ phase' \in [Stream -> Video!Phases]
        /\ \A v \in Stream : Capturing(v)' <=> Capturing(v)
    <2>1. CASE UNCHANGED phase
      BY <2>1 DEF IInv, VideoOwned, NoCaptureAfterTeardown, TypeOK, Capturing
    <2>2. CASE /\ videoStreamer # NoStream /\ phase[videoStreamer] = "ready"
               /\ phase' = [phase EXCEPT ![videoStreamer] = "capturing"]
      BY <2>2 DEF IInv, VideoOwned, NoCaptureAfterTeardown, TypeOK, Capturing, Video!Phases
    <2> QED
      BY <2>1, <2>2 DEF StartStreamer
  <1>2. /\ UNCHANGED <<registered, at, withVideo, resetLeft, panicked, wsOpen, pc,
                      negotiated, callbacks, offers, videoStreamer, inFlight, engaged, late>>
        /\ passedCheck' \in BOOLEAN /\ crashed' \in BOOLEAN
    BY DEF StartStreamer, runVars, dataVars
  <1>3. TypeOK'
    BY <1>1, <1>2 DEF IInv, VideoOwned, NoCaptureAfterTeardown, TypeOK
  <1>4. VideoOwned'
    BY <1>1, <1>2, <1>3 DEF IInv, VideoOwned, NoCaptureAfterTeardown, Capturing, TornDown
  <1> QED
    BY <1>2, <1>4 DEF IInv, ConnectionEnds, ContactsLeft

\* A message presses its device before the reset comes to it, or late.
LEMMA DataSound ==
    ASSUME IInv, UNCHANGED registered, UNCHANGED crashed,
           HandleData \/ \E m \in Message : DataArrives(m)
    PROVE  IInv'
  <1> USE MessageAssumption
        DEF runVars, pionVars, videoVars,
            IInv, VideoOwned, NoCaptureAfterTeardown, ConnectionEnds,
            ContactsLeft, TypeOK, Capturing, TornDown, RunPoints, Video!Phases
  <1>1. CASE HandleData
    <2>1. /\ inFlight \in Message /\ pc # "none"
          /\ inFlight' = NoMessage
          /\ UNCHANGED <<registered, crashed, runVars, wsOpen, pionVars, offers, videoVars>>
      BY <1>1 DEF HandleData
    <2>2. inFlight.device \in Device
      BY <2>1 DEF Message
    <2>3. engaged' \subseteq registered /\ late' \subseteq registered
      BY <1>1 DEF HandleData, Pressed
    <2>4. TypeOK'
      BY <2>1, <2>3
    <2>5. VideoOwned'
      <3> HIDE DEF TypeOK
      <3> QED
        BY <2>1, <2>4
    <2>6. ConnectionEnds'
      <3> HIDE DEF TypeOK, VideoOwned
      <3> QED
        BY <2>1
    <2>7. ASSUME at \in {"reset", "stopVideo", "forgetVideo", "closePC", "closeWS", "returned"}
          PROVE  engaged' \subseteq late' \cup resetLeft
      <3>1. engaged \subseteq late \cup resetLeft
        BY <2>7
      <3> HIDE DEF TypeOK, VideoOwned, ConnectionEnds, ContactsLeft
      <3>2. CASE engaged' \subseteq engaged
        BY <1>1, <3>1, <3>2 DEF HandleData
      <3>3. CASE /\ Pressed(inFlight)
                 /\ engaged' = engaged \cup {inFlight.device}
        BY <1>1, <2>7, <3>1, <3>3 DEF HandleData, AfterReset
      <3> QED
        BY <1>1, <3>2, <3>3 DEF HandleData, Pressed
    <2>8. ContactsLeft'
      <3> HIDE DEF TypeOK, VideoOwned, ConnectionEnds
      <3> QED
        BY <2>1, <2>7
    <2> QED
      BY <2>4, <2>5, <2>6, <2>8
  <1>2. ASSUME NEW m \in Message, DataArrives(m) PROVE IInv'
    BY <1>2 DEF DataArrives
  <1> QED
    BY <1>1, <1>2

LEMMA NextSound == IInv /\ [Next]_vars => IInv'
  <1>1. ASSUME IInv, UNCHANGED vars PROVE IInv'
    BY <1>1 DEF vars, runVars, pionVars, videoVars, dataVars, IInv, VideoOwned,
                NoCaptureAfterTeardown, ConnectionEnds, ContactsLeft, TypeOK,
                Capturing, TornDown
  <1> QED
    BY <1>1, NegotiationSound, CleanUpSound, PeerSound, StartSound, DataSound
    DEF Next, Alive, Progress

-----------------------------------------------------------------------------
(* The theorems                                                            *)

\* The strengthened invariant, for all values of the constants.
THEOREM SessionInvariant == Spec => []IInv
  BY InitSound, NextSound, PTL DEF Spec

\* A session that was torn down captures nothing and owns no pipeline.
THEOREM NoCaptureCorrect == Spec => []NoCaptureAfterTeardown
  <1>1. IInv => NoCaptureAfterTeardown
    BY DEF IInv, VideoOwned
  <1> QED
    BY <1>1, SessionInvariant, PTL

\* A contact that survives the session was pressed after the reset of its
\* device, or the reset panicked before it came to it.
THEOREM ContactsAccountedCorrect == Spec => []ContactsAccounted
  <1>1. IInv => ContactsAccounted
    BY DEF IInv, ContactsLeft, ContactsAccounted, TornDown
  <1> QED
    BY <1>1, SessionInvariant, PTL

\* With every device registered it does not panic.
THEOREM ResetCompletes == Spec => [](registered = Device => ~panicked)
  <1>1. IInv => (registered = Device => ~panicked)
    BY DEF IInv, ContactsLeft
  <1> QED
    BY <1>1, SessionInvariant, PTL

-----------------------------------------------------------------------------
(* The contract of the pipelines                                           *)

\* The session holds on to pipelines that exist.
OwnedIsBuilt == videoStreamer # NoStream => phase[videoStreamer] # "absent"

\* maybeAddVideoTrack, when AddTrack fails: built and stopped at once.
Abandon(v) == Video!Move(v, {"absent"}, "released")

UsesContract == Video!Next \/ (\E v \in Stream : Abandon(v)) \/ UNCHANGED phase

\* Only these steps of Run and of a callback reach a pipeline.
LEMMA OthersLeaveVideo ==
    ASSUME [Next]_vars
    PROVE  AddVideo \/ StopVideo \/ ForgetVideo \/ StartStreamer \/ UNCHANGED videoVars
  <1>1. ASSUME Progress
        PROVE  AddVideo \/ StopVideo \/ ForgetVideo \/ UNCHANGED videoVars
    <2>1. ASSUME NEW d \in Device, ResetOne(d) PROVE UNCHANGED videoVars
      BY <2>1 DEF ResetOne
    <2> QED
      BY <1>1, <2>1 DEF Progress, Dial, Answer, ReadError, ResetDone, ClosePC, CloseWS
  <1>2. CASE ReadOffer \/ Disconnect \/ Connect \/ Interrupt \/ CheckStreamer \/ HandleData
    BY <1>2 DEF ReadOffer, Disconnect, Connect, Interrupt, CheckStreamer, HandleData
  <1>3. ASSUME NEW m \in Message, DataArrives(m) PROVE UNCHANGED videoVars
    BY <1>3 DEF DataArrives
  <1>4. CASE UNCHANGED vars
    BY <1>4 DEF vars
  <1> QED
    BY <1>1, <1>2, <1>3, <1>4 DEF Next, Alive

LEMMA VideoStep ==
    ASSUME IInv, OwnedIsBuilt, [Next]_vars
    PROVE  UsesContract /\ OwnedIsBuilt'
  <1>0. /\ phase \in [Stream -> Video!Phases]
        /\ videoStreamer \in Stream \cup {NoStream}
    BY DEF IInv, VideoOwned, NoCaptureAfterTeardown, TypeOK
  <1>1. CASE UNCHANGED videoVars
    BY <1>1 DEF videoVars, UsesContract, OwnedIsBuilt
  <1>2. CASE AddVideo
    <2>1. CASE UNCHANGED videoVars
      BY <1>1, <2>1
    <2>2. ASSUME NEW v \in NextStream, WantsVideo,
                 phase' = [phase EXCEPT ![v] = "released"], UNCHANGED videoStreamer
          PROVE  UsesContract /\ OwnedIsBuilt'
      BY <1>0, <2>2 DEF NextStream, WantsVideo, UsesContract, OwnedIsBuilt, Abandon,
                        Video!Move
    <2>3. ASSUME NEW v \in NextStream, phase' = [phase EXCEPT ![v] = "ready"],
                 videoStreamer' = v
          PROVE  UsesContract /\ OwnedIsBuilt'
      <3>1. v \in Stream /\ Video!Build(v)
        BY <2>3 DEF NextStream, Video!Build, Video!Move
      <3>2. phase'[v] = "ready"
        BY <1>0, <2>3, <3>1
      <3> QED
        BY <2>3, <3>1, <3>2 DEF UsesContract, OwnedIsBuilt, Video!Next
    <2> QED
      BY <1>2, <2>1, <2>2, <2>3 DEF AddVideo
  <1>3. CASE StopVideo
    <2>1. CASE videoStreamer = NoStream
      BY <1>3, <2>1 DEF StopVideo, UsesContract, OwnedIsBuilt
    <2>2. CASE videoStreamer # NoStream
      <3>1. /\ phase' = [phase EXCEPT ![videoStreamer] = "released"]
            /\ UNCHANGED videoStreamer
            /\ videoStreamer \in Stream
        BY <1>0, <1>3, <2>2 DEF StopVideo
      <3>2. phase[videoStreamer] \in {"ready", "capturing", "released"}
        BY <1>0, <2>2, <3>1 DEF OwnedIsBuilt, Video!Phases
      <3>3. CASE phase[videoStreamer] = "released"
        BY <1>0, <3>1, <3>3 DEF UsesContract, OwnedIsBuilt
      <3>4. CASE phase[videoStreamer] # "released"
        <4>1. Video!Release(videoStreamer)
          BY <3>1, <3>2, <3>4 DEF Video!Release, Video!Move
        <4> QED
          BY <1>0, <3>1, <4>1 DEF UsesContract, OwnedIsBuilt, Video!Next
      <3> QED
        BY <3>3, <3>4
    <2> QED
      BY <2>1, <2>2
  <1>4. CASE ForgetVideo
    BY <1>4 DEF ForgetVideo, UsesContract, OwnedIsBuilt
  <1>5. CASE StartStreamer
    <2>1. CASE UNCHANGED phase
      BY <1>5, <2>1 DEF StartStreamer, UsesContract, OwnedIsBuilt
    <2>2. CASE /\ videoStreamer # NoStream /\ phase[videoStreamer] = "ready"
               /\ phase' = [phase EXCEPT ![videoStreamer] = "capturing"]
      <3>1. Video!Capture(videoStreamer) /\ videoStreamer \in Stream
        BY <1>0, <2>2 DEF Video!Capture, Video!Move
      <3>2. UNCHANGED videoStreamer
        BY <1>5 DEF StartStreamer
      <3> QED
        BY <1>0, <2>2, <3>1, <3>2 DEF UsesContract, OwnedIsBuilt, Video!Next
    <2> QED
      BY <1>5, <2>1, <2>2 DEF StartStreamer
  <1> QED
    BY <1>1, <1>2, <1>3, <1>4, <1>5, OthersLeaveVideo

\* The session uses its pipelines as video.Streamer allows: one is built once,
\* started once, stopped, and not touched again, or built and stopped at once.
THEOREM SessionUsesContract ==
    Spec => Video!Init /\ [][Video!Next \/ \E v \in Stream : Abandon(v)]_phase
  <1>1. Init => OwnedIsBuilt /\ Video!Init
    BY DEF Init, OwnedIsBuilt
  <1>2. IInv /\ OwnedIsBuilt /\ [Next]_vars => OwnedIsBuilt'
    BY VideoStep
  <1>3. IInv /\ OwnedIsBuilt /\ [Next]_vars
           => [Video!Next \/ \E v \in Stream : Abandon(v)]_phase
    BY VideoStep DEF UsesContract
  <1> QED
    BY <1>1, <1>2, <1>3, SessionInvariant, PTL DEF Spec
=============================================================================
