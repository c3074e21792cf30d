------------------------------- MODULE Session -------------------------------
(***************************************************************************)
(* One client connection, signaling/session.go.  Three kinds of goroutine  *)
(* touch a Session: the one that executes Run (signaling loop, then the    *)
(* deferred clean-up, last in first out), the pion goroutines that run     *)
(* onConnectionStateChange, and the pion goroutine of the data channel.    *)
(* The fields of a Session are shared by them without a lock.              *)
(*                                                                         *)
(* A capture pipeline is used through the contract of video.Streamer       *)
(* (StreamerContract), a device through the contact it holds.              *)
(***************************************************************************)
EXTENDS Naturals

CONSTANTS
    Device,         \* the keys of s.processors
    VideoEnabled,   \* Config.VideoEnabled
    Stream,         \* the pipelines newVideo may build, one per offer
    NoStream,       \* s.videoStreamer = nil
    NoMessage,      \* no data-channel message is being handled
    MaxOffers,      \* bound: offers that SetRemoteDescription accepts
    MaxCallbacks    \* bound: state-change goroutines not yet scheduled

ASSUME FlagAssumption == VideoEnabled \in BOOLEAN
ASSUME StreamAssumption == NoStream \notin Stream
ASSUME BoundAssumption == MaxOffers \in Nat /\ MaxCallbacks \in Nat \ {0}

Message == [device : Device, down : BOOLEAN]
ASSUME MessageAssumption == NoMessage \notin Message

VARIABLES
    registered,     \* devices that registered at start-up; the others are nil
    at,             \* where the goroutine of Run stands
    withVideo,      \* the offer being handled has an m=video section
    resetLeft,      \* devices resetProcessors has yet to visit
    panicked,       \* the goroutine of Run panicked (net/http recovers)
    wsOpen,         \* the WebSocket can still be read
    pc,             \* the peer connection
    negotiated,     \* a local description was set
    offers,         \* offers accepted so far
    videoStreamer,  \* s.videoStreamer
    phase,          \* of every pipeline, see StreamerContract
    callbacks,      \* "connected" callbacks not yet scheduled
    passedCheck,    \* a callback found s.videoStreamer # nil
    inFlight,       \* the data-channel message being handled
    engaged,        \* devices that hold a contact
    late,           \* history: devices pressed after resetProcessors had passed
    crashed         \* a pion goroutine panicked: the process is gone

runVars == <<at, withVideo, resetLeft, panicked>>
pionVars == <<pc, negotiated, callbacks, passedCheck>>
videoVars == <<videoStreamer, phase>>
dataVars == <<inFlight, engaged, late>>
vars == <<registered, runVars, wsOpen, pionVars, offers, videoVars, dataVars, crashed>>

Video == INSTANCE StreamerContract WITH Pipeline <- Stream

RunPoints == {"start", "read", "offered", "answer", "reset", "stopVideo",
              "forgetVideo", "closePC", "closeWS", "returned"}

Goto(from, to) == at = from /\ at' = to

-----------------------------------------------------------------------------
(* The goroutine of Run                                                    *)

\* NewPeerConnection; on an error only the WebSocket is closed.
Dial ==
    /\ \/ Goto("start", "read") /\ pc' = "new"
       \/ Goto("start", "closeWS") /\ UNCHANGED pc
    /\ UNCHANGED <<withVideo, resetLeft, panicked, wsOpen, negotiated,
                   callbacks, passedCheck, offers, videoVars, dataVars>>

\* Variant: negotiation is complete before the video track is added.
BugReadOffer ==
    /\ Goto("read", "offered")
    /\ wsOpen
    /\ offers < MaxOffers
    /\ offers' = offers + 1
    /\ withVideo' \in BOOLEAN
    /\ negotiated' = TRUE
    /\ UNCHANGED <<resetLeft, panicked, wsOpen, pc, callbacks, passedCheck,
                   videoVars, dataVars>>

\* An offer that SetRemoteDescription accepts.  A refused one, a candidate and
\* an unknown message leave this state alone.
ReadOffer ==
    /\ Goto("read", "offered")
    /\ wsOpen
    /\ offers < MaxOffers
    /\ offers' = offers + 1
    /\ withVideo' \in BOOLEAN
    /\ UNCHANGED <<resetLeft, panicked, wsOpen, pionVars, videoVars, dataVars>>

\* maybeAddVideoTrack: no video wanted or newVideo fails; AddTrack fails and
\* the pipeline is stopped at once; or the session owns the pipeline.
WantsVideo == VideoEnabled /\ videoStreamer = NoStream /\ withVideo
NextStream == {v \in Stream : phase[v] = "absent"}

AddVideo ==
    /\ Goto("offered", "answer")
    /\ \/ UNCHANGED videoVars
       \/ /\ WantsVideo
          /\ \E v \in NextStream :
                \/ /\ phase' = [phase EXCEPT ![v] = "released"]
                   /\ UNCHANGED videoStreamer
                \/ /\ phase' = [phase EXCEPT ![v] = "ready"]
                   /\ videoStreamer' = v
    /\ UNCHANGED <<withVideo, resetLeft, panicked, wsOpen, pionVars, offers,
                   dataVars>>

\* CreateAnswer or SetLocalDescription may fail; from the latter on, ICE runs.
Answer ==
    /\ Goto("answer", "read")
    /\ negotiated' \in {negotiated, TRUE}
    /\ UNCHANGED <<withVideo, resetLeft, panicked, wsOpen, pc, callbacks,
                   passedCheck, offers, videoVars, dataVars>>

\* Variant: runLoop goes on after a read error.
BugReadError ==
    /\ Goto("read", "read")
    /\ ~wsOpen
    /\ UNCHANGED <<withVideo, resetLeft, panicked, wsOpen, pionVars, offers,
                   videoVars, dataVars>>

\* ReadMessage fails: runLoop returns and the deferred calls begin.
ReadError ==
    /\ Goto("read", "reset")
    /\ ~wsOpen
    /\ resetLeft' = Device
    /\ UNCHANGED <<withVideo, panicked, wsOpen, pionVars, offers, videoVars,
                   dataVars>>

\* One round of resetProcessors' loop over a map, in no particular order.
\* Reset on a nil processor panics; the remaining deferred calls still run.
ResetOne(d) ==
    /\ at = "reset"
    /\ d \in resetLeft
    /\ resetLeft' = resetLeft \ {d}
    /\ IF d \in registered
       THEN /\ engaged' = engaged \ {d}
            /\ UNCHANGED <<at, panicked>>
       ELSE /\ at' = "stopVideo"
            /\ panicked' = TRUE
            /\ UNCHANGED engaged
    /\ UNCHANGED <<withVideo, wsOpen, pionVars, offers, videoVars, inFlight, late>>

\* Variant: the loop over the processors ends early.
BugResetDone ==
    /\ Goto("reset", "stopVideo")
    /\ UNCHANGED <<withVideo, resetLeft, panicked, wsOpen, pionVars, offers,
                   videoVars, dataVars>>

ResetDone ==
    /\ Goto("reset", "stopVideo")
    /\ resetLeft = {}
    /\ UNCHANGED <<withVideo, resetLeft, panicked, wsOpen, pionVars, offers,
                   videoVars, dataVars>>

\* stopVideo: Stop, then s.videoStreamer = nil, when there is a pipeline.
StopVideo ==
    /\ IF videoStreamer = NoStream
       THEN Goto("stopVideo", "closePC") /\ UNCHANGED phase
       ELSE /\ Goto("stopVideo", "forgetVideo")
            /\ phase' = [phase EXCEPT ![videoStreamer] = "released"]
    /\ UNCHANGED <<withVideo, resetLeft, panicked, wsOpen, pionVars, offers,
                   videoStreamer, dataVars>>

ForgetVideo ==
    /\ Goto("forgetVideo", "closePC")
    /\ videoStreamer' = NoStream
    /\ UNCHANGED <<withVideo, resetLeft, panicked, wsOpen, pionVars, offers,
                   phase, dataVars>>

ClosePC ==
    /\ Goto("closePC", "closeWS")
    /\ pc' = "closed"
    /\ UNCHANGED <<withVideo, resetLeft, panicked, wsOpen, negotiated,
                   callbacks, passedCheck, offers, videoVars, dataVars>>

CloseWS ==
    /\ Goto("closeWS", "returned")
    /\ wsOpen' = FALSE
    /\ UNCHANGED <<withVideo, resetLeft, panicked, pionVars, offers,
                   videoVars, dataVars>>

\* Every step of Run but the read of an offer, which waits for the peer.
Progress ==
    \/ Dial \/ AddVideo \/ Answer \/ ReadError
    \/ (\E d \in Device : ResetOne(d)) \/ ResetDone
    \/ StopVideo \/ ForgetVideo \/ ClosePC \/ CloseWS

-----------------------------------------------------------------------------
(* The other goroutines and the peer                                       *)

\* Session.Close, or the peer or the network ends the WebSocket.  The data
\* channel does not end with it: pion delivers until pc.Close, and does not
\* wait there for a handler under way.
Disconnect ==
    /\ wsOpen
    /\ wsOpen' = FALSE
    /\ UNCHANGED <<runVars, pionVars, offers, videoVars, dataVars>>

\* ICE and DTLS connect, or reconnect after an ICE restart; pion runs the
\* state-change handler on a goroutine of its own.
Connect ==
    /\ pc \in {"new", "interrupted"}
    /\ negotiated
    /\ callbacks < MaxCallbacks
    /\ pc' = "connected"
    /\ callbacks' = callbacks + 1
    /\ UNCHANGED <<runVars, wsOpen, negotiated, passedCheck, offers,
                   videoVars, dataVars>>

Interrupt ==
    /\ pc = "connected"
    /\ pc' = "interrupted"
    /\ UNCHANGED <<runVars, wsOpen, negotiated, callbacks, passedCheck, offers,
                   videoVars, dataVars>>

\* onConnectionStateChange(Connected): the nil check of s.videoStreamer ...
CheckStreamer ==
    /\ callbacks > 0
    /\ ~passedCheck
    /\ callbacks' = callbacks - 1
    /\ passedCheck' = (videoStreamer # NoStream)
    /\ UNCHANGED <<runVars, wsOpen, pc, negotiated, offers, videoVars, dataVars>>

\* Variant: Start is not a no-op after Stop.
BugStartStreamer ==
    /\ passedCheck
    /\ passedCheck' = FALSE
    /\ crashed' = (videoStreamer = NoStream)
    /\ phase' = [v \in Stream |->
                    IF v = videoStreamer THEN "capturing" ELSE phase[v]]
    /\ UNCHANGED <<registered, runVars, wsOpen, pc, negotiated, callbacks,
                   offers, videoStreamer, dataVars>>

\* ... and the call through it, a second read of the field.  Start is a no-op
\* on a pipeline that is capturing or released.
StartStreamer ==
    /\ passedCheck
    /\ passedCheck' = FALSE
    /\ crashed' = (videoStreamer = NoStream)
    /\ IF videoStreamer # NoStream /\ phase[videoStreamer] = "ready"
       THEN phase' = [phase EXCEPT ![videoStreamer] = "capturing"]
       ELSE UNCHANGED phase
    /\ UNCHANGED <<registered, runVars, wsOpen, pc, negotiated, callbacks,
                   offers, videoStreamer, dataVars>>

\* A data-channel message for a known device; malformed messages and unknown
\* devices change nothing.
DataArrives(m) ==
    /\ pc = "connected"
    /\ inFlight = NoMessage
    /\ inFlight' = m
    /\ UNCHANGED <<runVars, wsOpen, pionVars, offers, videoVars, engaged, late>>

\* resetProcessors has passed d, or is not coming to it any more.
AfterReset(d) ==
    IF at = "reset" THEN d \notin resetLeft
    ELSE at \in {"stopVideo", "forgetVideo", "closePC", "closeWS", "returned"}

Pressed(m) == m.down /\ m.device \in registered

\* handleDataMessage: dropped for a nil processor; otherwise the event (or
\* "activate") makes the device take or give up its contact.
HandleData ==
    /\ inFlight # NoMessage
    /\ inFlight' = NoMessage
    /\ engaged' = IF inFlight.device \notin registered THEN engaged
                  ELSE IF inFlight.down THEN engaged \cup {inFlight.device}
                  ELSE engaged \ {inFlight.device}
    /\ late' = IF Pressed(inFlight) /\ AfterReset(inFlight.device)
               THEN late \cup {inFlight.device} ELSE late
    /\ UNCHANGED <<runVars, wsOpen, pionVars, offers, videoVars>>

-----------------------------------------------------------------------------
Init ==
    /\ registered \in SUBSET Device
    /\ at = "start"
    /\ withVideo = FALSE
    /\ resetLeft = {}
    /\ panicked = FALSE
    /\ wsOpen = TRUE
    /\ pc = "none"
    /\ negotiated = FALSE
    /\ offers = 0
    /\ videoStreamer = NoStream
    /\ Video!Init
    /\ callbacks = 0
    /\ passedCheck = FALSE
    /\ inFlight = NoMessage
    /\ engaged = {}
    /\ late = {}
    /\ crashed = FALSE

\* Everything ends with the process; a device is registered once, before.
Alive(A) == ~crashed /\ A /\ UNCHANGED <<registered, crashed>>

Next ==
    \/ Alive(Progress \/ ReadOffer)
    \/ Alive(Disconnect \/ Connect \/ Interrupt)
    \/ Alive(CheckStreamer \/ HandleData \/ \E m \in Message : DataArrives(m))
    \/ ~crashed /\ StartStreamer

Spec == Init /\ [][Next]_vars

\* Goroutines that can run do run: the one of Run between two reads, the
\* callbacks pion started, the handler of a message that arrived.  Nothing is
\* assumed of the peer: it need not send offers or data, connect or disconnect.
FairSpec ==
    /\ Spec
    /\ WF_vars(Alive(Progress))
    /\ WF_vars(Alive(CheckStreamer))
    /\ WF_vars(~crashed /\ StartStreamer)
    /\ WF_vars(Alive(HandleData))

-----------------------------------------------------------------------------
(* Properties                                                              *)

TypeOK ==
    /\ registered \in SUBSET Device
    /\ at \in RunPoints
    /\ withVideo \in BOOLEAN /\ panicked \in BOOLEAN /\ wsOpen \in BOOLEAN
    /\ resetLeft \in SUBSET Device
    /\ pc \in {"none", "new", "connected", "interrupted", "closed"}
    /\ negotiated \in BOOLEAN /\ passedCheck \in BOOLEAN
    /\ offers \in 0..MaxOffers
    /\ videoStreamer \in Stream \cup {NoStream}
    /\ phase \in [Stream -> Video!Phases]
    /\ callbacks \in 0..MaxCallbacks
    /\ inFlight \in Message \cup {NoMessage}
    /\ engaged \in SUBSET registered
    /\ late \in SUBSET registered
    /\ crashed \in BOOLEAN

\* Run is past stopVideo and resetProcessors.
TornDown == at \in {"closePC", "closeWS", "returned"}

\* A pipeline that holds capture hardware is the one the session will stop:
\* neither a second offer nor a failed AddTrack leaks one.  Once the session is
\* torn down nothing captures the desktop, and no late "connected" callback
\* brings the pipeline back, whether the clean-up ran normally or while a panic
\* unwound it.
NoCaptureAfterTeardown ==
    /\ TypeOK
    /\ \A v \in Stream : phase[v] \in {"ready", "capturing"} =>
          videoStreamer = v /\ ~TornDown
    /\ TornDown => videoStreamer = NoStream

\* resetProcessors' comment: a disconnect mid-stroke does not leave a device
\* down for the next client, unless the loop over the devices panicked on one
\* that is not registered.
ContactsReleased == TornDown /\ ~panicked => engaged = {}

\* What the clean-up does achieve, whatever arrives while it runs: a contact
\* that survives the session was pressed by a message handled after the reset
\* of its device, or is on a device that the loop did not come to because it
\* panicked on a missing one.
ContactsAccounted ==
    TornDown => /\ engaged \subseteq late \cup resetLeft
                /\ registered = Device => resetLeft = {}

\* Session.Close: once the WebSocket is closed Run returns, whatever the
\* peer connection and the callbacks are doing.
RunReturns == ~wsOpen ~> (at = "returned" \/ crashed)

\* onConnectionStateChange: the video pipeline is started once the connection
\* is established.  On the one offer a client makes per connection, a ready
\* pipeline on a live connection does not stay idle; a second offer could add
\* a pipeline after the last "connected" callback.
Waiting(v) == /\ pc = "connected" /\ wsOpen /\ offers = 1
              /\ videoStreamer = v /\ phase[v] = "ready"
VideoStarts == \A v \in Stream : Waiting(v) ~> (~Waiting(v) \/ crashed)
=============================================================================
