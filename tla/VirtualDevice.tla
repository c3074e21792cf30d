---------------------------- MODULE VirtualDevice ----------------------------
(***************************************************************************)
(* The uinput device of third_party/virtual-device/virtual_device.go: the  *)
(* event queue between the goroutines that Send and the goroutine that     *)
(* writes to the kernel, and Register and Unregister.  No lock protects    *)
(* vd.queue or vd.fd: only isRegistered is atomic.  A handler's d.mu does  *)
(* not help, because the Close methods of the tablet and the trackpad call *)
(* Unregister without it.                                                  *)
(*                                                                         *)
(* Every Register makes a new channel and a new puller: generation n of    *)
(* both belongs to the n-th call that got that far.                        *)
(***************************************************************************)
EXTENDS Integers, Sequences, FiniteSets

CONSTANTS
    Sender,         \* goroutines that call Send
    QueueLen,       \* vd.queueLen
    MaxSend,        \* bound: calls of Send per goroutine
    MaxRegister     \* bound: channels made

ASSUME QueueAssumption == QueueLen \in Nat \ {0}
ASSUME BoundsAssumption == MaxSend \in Nat /\ MaxRegister \in Nat

Generation == 1..MaxRegister
NilChan == 0    \* vd.queue = nil

VARIABLES
    registered, \* vd.isRegistered
    chan,       \* vd.queue: the generation it refers to, or NilChan
    buffer,     \* the events buffered in each generation's channel
    closed,     \* the generations whose channel is closed
    puller,     \* each generation's goroutine: none, waiting, writing, done
    inHand,     \* the event each puller writes
    fdOpen,     \* vd.fd # nil
    owner,      \* where the caller of Register or Unregister is
    pc,         \* where each sender is in Send
    target,     \* the channel a sender's send statement evaluated
    sent,       \* events each sender had accepted, and the last one of each
    handled     \*   sender the puller is done with

chans == <<chan, buffer, closed>>
pullers == <<puller, inHand>>
senders == <<pc, target, sent>>
vars == <<registered, chans, pullers, fdOpen, owner, senders, handled>>

Event == Sender \X (1..MaxSend)
NoEvent == <<>>

OwnerPoints ==
    {"idle", "setup", "pull", "repeat", "flag",             \* Register
     "unflag", "flush", "close", "join", "forget", "destroy"}        \* Unregister

-----------------------------------------------------------------------------
(* Register                                                                *)

\* The device file is opened, unless the device is registered.
Register ==
    /\ owner = "idle"
    /\ ~registered
    /\ Cardinality({g \in Generation : puller[g] # "none"}) < MaxRegister
    /\ owner' = "setup"
    /\ fdOpen' = TRUE
    /\ UNCHANGED <<registered, chans, pullers, senders, handled>>

\* The ioctl steps up to UI_DEV_CREATE; a failing one unregisters.
Configure ==
    /\ owner = "setup"
    /\ owner' \in {"pull", "unflag"}
    /\ UNCHANGED <<registered, chans, pullers, fdOpen, senders, handled>>

\* pull makes the channel and starts its goroutine.
StartPuller ==
    /\ owner = "pull"
    /\ LET g == 1 + Cardinality({h \in Generation : puller[h] # "none"})
       IN  /\ chan' = g
           /\ puller' = [puller EXCEPT ![g] = "waiting"]
    /\ owner' = "repeat"
    /\ UNCHANGED <<registered, buffer, closed, inHand, fdOpen, senders, handled>>

\* pull sends a keyboard's repeat settings.  isRegistered is still false, so
\* Send returns at once: nothing is queued.
SendRepeat ==
    /\ owner = "repeat"
    /\ owner' = "flag"
    /\ UNCHANGED <<registered, chans, pullers, fdOpen, senders, handled>>

SetRegistered ==
    /\ owner = "flag"
    /\ owner' = "idle"
    /\ registered' = TRUE
    /\ UNCHANGED <<chans, pullers, fdOpen, senders, handled>>

-----------------------------------------------------------------------------
(* Unregister                                                              *)

\* The tablet's or the trackpad's Close.
Unregister ==
    /\ owner = "idle"
    /\ owner' = "unflag"
    /\ UNCHANGED <<registered, chans, pullers, fdOpen, senders, handled>>

ClearRegistered ==
    /\ owner = "unflag"
    /\ registered' = FALSE
    /\ owner' = IF chan = NilChan THEN "destroy" ELSE "flush"
    /\ UNCHANGED <<chans, pullers, fdOpen, senders, handled>>

\* closeQueue polls until the queue is empty.
AwaitEmpty ==
    /\ owner = "flush"
    /\ buffer[chan] = <<>>
    /\ owner' = "close"
    /\ UNCHANGED <<registered, chans, pullers, fdOpen, senders, handled>>

\* A goroutine that was already in Send may have enqueued meanwhile.
CloseQueue ==
    /\ owner = "close"
    /\ closed' = closed \cup {chan}
    /\ owner' = "join"
    /\ UNCHANGED <<registered, chan, buffer, pullers, fdOpen, senders, handled>>

\* <-vd.pullDone
JoinPuller ==
    /\ owner = "join"
    /\ puller[chan] = "done"
    /\ owner' = "forget"
    /\ UNCHANGED <<registered, chans, pullers, fdOpen, senders, handled>>

ForgetQueue ==
    /\ owner = "forget"
    /\ chan' = NilChan
    /\ owner' = "destroy"
    /\ UNCHANGED <<registered, buffer, closed, pullers, fdOpen, senders, handled>>

\* releaseDevice and closeDevice; both return early without a file.
CloseDevice ==
    /\ owner = "destroy"
    /\ fdOpen' = FALSE
    /\ owner' = "idle"
    /\ UNCHANGED <<registered, chans, pullers, senders, handled>>

-----------------------------------------------------------------------------
(* Send                                                                    *)

\* Without registration Send returns: a stuttering step.
CheckRegistered(s) ==
    /\ pc[s] = "idle"
    /\ sent[s] < MaxSend
    /\ registered
    /\ pc' = [pc EXCEPT ![s] = "checked"]
    /\ UNCHANGED <<registered, chans, pullers, fdOpen, owner, target, sent,
                   handled>>

\* The send statement evaluates vd.queue; a nil channel blocks for ever.
EvaluateQueue(s) ==
    /\ pc[s] = "checked"
    /\ pc' = [pc EXCEPT ![s] = IF chan = NilChan THEN "stuck" ELSE "sending"]
    /\ target' = [target EXCEPT ![s] = chan]
    /\ UNCHANGED <<registered, chans, pullers, fdOpen, owner, sent, handled>>

HasRoom(g) == Len(buffer[g]) < QueueLen

\* Variant: the send is not blocking, a full queue drops the event.
BugEnqueue(s) ==
    /\ pc[s] = "sending"
    /\ target[s] \notin closed
    /\ pc' = [pc EXCEPT ![s] = "idle"]
    /\ sent' = [sent EXCEPT ![s] = @ + 1]
    /\ buffer' = IF HasRoom(target[s])
                 THEN [buffer EXCEPT ![target[s]] = Append(@, <<s, sent[s] + 1>>)]
                 ELSE buffer
    /\ UNCHANGED <<registered, chan, closed, pullers, fdOpen, owner, target,
                   handled>>

\* The channel takes the event as soon as it has room.
Enqueue(s) ==
    /\ pc[s] = "sending"
    /\ target[s] \notin closed
    /\ HasRoom(target[s])
    /\ pc' = [pc EXCEPT ![s] = "idle"]
    /\ sent' = [sent EXCEPT ![s] = @ + 1]
    /\ buffer' = [buffer EXCEPT ![target[s]] = Append(@, <<s, sent[s] + 1>>)]
    /\ UNCHANGED <<registered, chan, closed, pullers, fdOpen, owner, target,
                   handled>>

\* A send on a closed channel panics, also one that was waiting for room.
SendOnClosed(s) ==
    /\ pc[s] = "sending"
    /\ target[s] \in closed
    /\ pc' = [pc EXCEPT ![s] = "panicked"]
    /\ UNCHANGED <<registered, chans, pullers, fdOpen, owner, target, sent,
                   handled>>

-----------------------------------------------------------------------------
(* The puller                                                              *)

Receive(g) ==
    /\ puller[g] = "waiting"
    /\ buffer[g] # <<>>
    /\ inHand' = [inHand EXCEPT ![g] = Head(buffer[g])]
    /\ buffer' = [buffer EXCEPT ![g] = Tail(@)]
    /\ puller' = [puller EXCEPT ![g] = "writing"]
    /\ UNCHANGED <<registered, chan, closed, fdOpen, owner, senders, handled>>

\* Variant: the loop ends after an event the kernel refused.
BugWrite(g) ==
    /\ puller[g] = "writing"
    /\ handled' = [handled EXCEPT ![inHand[g][1]] = inHand[g][2]]
    /\ inHand' = [inHand EXCEPT ![g] = NoEvent]
    /\ puller' \in {[puller EXCEPT ![g] = "waiting"], [puller EXCEPT ![g] = "done"]}
    /\ UNCHANGED <<registered, chans, fdOpen, owner, senders>>

\* writeEvent; an error is printed and the event is gone.
Write(g) ==
    /\ puller[g] = "writing"
    /\ handled' = [handled EXCEPT ![inHand[g][1]] = inHand[g][2]]
    /\ inHand' = [inHand EXCEPT ![g] = NoEvent]
    /\ puller' = [puller EXCEPT ![g] = "waiting"]
    /\ UNCHANGED <<registered, chans, fdOpen, owner, senders>>

\* Variant: the loop ends when the channel is closed, whatever is buffered.
BugPullEnds(g) ==
    /\ puller[g] = "waiting"
    /\ g \in closed
    /\ puller' = [puller EXCEPT ![g] = "done"]
    /\ UNCHANGED <<registered, chans, inHand, fdOpen, owner, senders, handled>>

\* The range over a closed channel ends once its buffer is empty.
PullEnds(g) ==
    /\ puller[g] = "waiting"
    /\ g \in closed
    /\ buffer[g] = <<>>
    /\ puller' = [puller EXCEPT ![g] = "done"]
    /\ UNCHANGED <<registered, chans, inHand, fdOpen, owner, senders, handled>>

-----------------------------------------------------------------------------
Init ==
    /\ registered = FALSE /\ fdOpen = FALSE
    /\ chan = NilChan /\ closed = {} /\ owner = "idle"
    /\ buffer = [g \in Generation |-> <<>>]
    /\ puller = [g \in Generation |-> "none"]
    /\ inHand = [g \in Generation |-> NoEvent]
    /\ pc = [s \in Sender |-> "idle"]
    /\ target = [s \in Sender |-> NilChan]
    /\ sent = [s \in Sender |-> 0]
    /\ handled = [s \in Sender |-> 0]

Owner ==
    \/ Register \/ Configure \/ StartPuller \/ SendRepeat \/ SetRegistered
    \/ Unregister \/ ClearRegistered \/ AwaitEmpty \/ CloseQueue
    \/ JoinPuller \/ ForgetQueue \/ CloseDevice

Send(s) ==
    CheckRegistered(s) \/ EvaluateQueue(s) \/ Enqueue(s) \/ SendOnClosed(s)

Pull(g) == Receive(g) \/ Write(g) \/ PullEnds(g)

Next == Owner \/ (\E s \in Sender : Send(s)) \/ (\E g \in Generation : Pull(g))

Spec == Init /\ [][Next]_vars

\* The Go scheduler runs every goroutine that can run; nobody has to call
\* Register, Unregister or Send.
FairSpec ==
    /\ Spec
    /\ WF_vars(Owner /\ owner # "idle")
    /\ \A s \in Sender : WF_vars(Send(s) /\ pc[s] # "idle")
    /\ \A g \in Generation : WF_vars(Pull(g))

-----------------------------------------------------------------------------
(* Properties                                                              *)

TypeOK ==
    /\ registered \in BOOLEAN /\ fdOpen \in BOOLEAN
    /\ chan \in Generation \cup {NilChan}
    /\ buffer \in [Generation -> Seq(Event)]
    /\ \A g \in Generation : Len(buffer[g]) <= QueueLen
    /\ closed \subseteq Generation
    /\ puller \in [Generation -> {"none", "waiting", "writing", "done"}]
    /\ inHand \in [Generation -> Event \cup {NoEvent}]
    /\ owner \in OwnerPoints
    /\ pc \in [Sender -> {"idle", "checked", "sending", "stuck", "panicked"}]
    /\ target \in [Sender -> Generation \cup {NilChan}]
    /\ sent \in [Sender -> 0..MaxSend]
    /\ handled \in [Sender -> 0..MaxSend]

Pulling == {g \in Generation : puller[g] \in {"waiting", "writing"}}

\* What the channel accepted is handed to the kernel in the order of each
\* sender, so a SYN_REPORT never overtakes the events of its frame, and nothing
\* is written twice or skipped.
EventsInOrder ==
    [][\A s \in Sender :
          handled'[s] # handled[s] => handled'[s] = handled[s] + 1]_vars

\* Unregister closes the device file only when every event a Send delivered
\* has been handed to the kernel and no puller can write any more: the join
\* with pullDone comes between the last write and the close.  So two
\* registrations never write at once, however soon the second follows.
FlushedBeforeDestroy ==
    /\ TypeOK
    /\ Pulling # {} => fdOpen
    /\ Cardinality(Pulling) <= 1
    /\ ~fdOpen => \A s \in Sender : handled[s] = sent[s]

\* The polling of closeQueue ends: once isRegistered is false each goroutine
\* has at most one event left to enqueue, and the puller drains the rest.
UnregisterReturns == owner = "unflag" ~> owner = "idle"

\* CHANGELOG.md lists as fixed the panic when Send is called on an
\* unregistered device.
SendNeverPanics == \A s \in Sender : pc[s] # "panicked"
=============================================================================
