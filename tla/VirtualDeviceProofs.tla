------------------------- MODULE VirtualDeviceProofs -------------------------
(***************************************************************************)
(* The event queue of a uinput device, for any number of senders, any      *)
(* queue length and any number of registrations: nothing is lost,          *)
(* repeated or overtaken on the way to the kernel, and the device file is  *)
(* closed only behind the last event.                                      *)
(*                                                                         *)
(* The invariant follows the events a sender had accepted and the kernel   *)
(* has not seen.  All of them are in one place, the current channel and    *)
(* the hand of its puller: earlier generations are closed, empty and       *)
(* without a puller, because Unregister waits for the puller before it     *)
(* forgets the channel.                                                    *)
(***************************************************************************)
EXTENDS VirtualDevice, SequenceTheorems, FiniteSetTheorems, TLAPS

Made == {g \in Generation : puller[g] # "none"}

\* Generations are made one after another, and only the last one works.
Generations ==
    /\ \E n \in 0..MaxRegister :
           Made = 1..n /\ (owner \in {"setup", "pull"} => n < MaxRegister)
    /\ chan # NilChan => chan \in Made
    /\ \A g \in Made \ {chan} : puller[g] = "done"
    /\ \A g \in Generation :
           /\ puller[g] = "done" => g \in closed
           /\ puller[g] \in {"none", "done"} => buffer[g] = <<>>
           /\ puller[g] = "writing" <=> inHand[g] # NoEvent
    /\ \A s \in Sender :
           /\ pc[s] = "sending" => target[s] \in Made
           /\ pc[s] \in {"checked", "sending"} => sent[s] < MaxSend

\* Where Register and Unregister stand, and what there is by then.
OwnerKnows ==
    /\ owner \in {"setup", "pull", "destroy"} => chan = NilChan
    /\ owner \in {"repeat", "flag", "flush", "close", "join", "forget"} => chan # NilChan
    /\ owner = "idle" /\ ~registered => chan = NilChan
    /\ owner = "forget" => puller[chan] = "done"
    /\ owner \in {"setup", "pull"} \/ chan # NilChan => fdOpen

\* The events that are on their way, the oldest first.
Pipe ==
    IF chan = NilChan THEN <<>>
    ELSE IF inHand[chan] = NoEvent THEN buffer[chan]
    ELSE <<inHand[chan]>> \o buffer[chan]

\* q holds, of every sender, the events after low up to high, in that order.
InOrder(q, low, high) ==
    /\ q \in Seq(Event)
    /\ \A s \in Sender : low[s] =< high[s]
    /\ \A k \in 1..Len(q) : low[q[k][1]] < q[k][2] /\ q[k][2] =< high[q[k][1]]
    /\ \A j, k \in 1..Len(q) : j < k /\ q[j][1] = q[k][1] => q[j][2] < q[k][2]
    /\ \A s \in Sender : \A n \in (low[s] + 1)..high[s] :
           \E k \in 1..Len(q) : q[k] = <<s, n>>

IInv == TypeOK /\ Generations /\ OwnerKnows /\ InOrder(Pipe, handled, sent)

-----------------------------------------------------------------------------
(* Events in order                                                         *)

Counter == [Sender -> 0..MaxSend]

LEMMA EventParts ==
    ASSUME NEW e \in Event
    PROVE  e[1] \in Sender /\ e[2] \in 1..MaxSend /\ e = <<e[1], e[2]>>
  BY DEF Event

\* A sequence of events, by its elements.
LEMMA Elements ==
    ASSUME NEW q \in Seq(Event)
    PROVE  /\ Len(q) \in Nat
           /\ \A k \in 1..Len(q) : /\ q[k] \in Event
                                   /\ q[k][1] \in Sender
                                   /\ q[k][2] \in 1..MaxSend
                                   /\ q[k] = <<q[k][1], q[k][2]>>
  BY EventParts

\* An accepted event goes behind the others of its sender.
LEMMA AppendInOrder ==
    ASSUME NEW q, NEW low \in Counter, NEW high \in Counter, NEW s \in Sender,
           InOrder(q, low, high), high[s] < MaxSend
    PROVE  InOrder(Append(q, <<s, high[s] + 1>>), low,
                   [high EXCEPT ![s] = high[s] + 1])
  <1> DEFINE e == <<s, high[s] + 1>>
             r == Append(q, e)
             top == [high EXCEPT ![s] = high[s] + 1]
  <1>1. /\ q \in Seq(Event) /\ e \in Event
        /\ e[1] = s /\ e[2] = high[s] + 1
    BY BoundsAssumption DEF InOrder, Event, Counter
  <1>2. \A t \in Sender : /\ low[t] \in Nat /\ high[t] \in Nat
                          /\ low[t] =< high[t]
                          /\ top[t] = IF t = s THEN high[t] + 1 ELSE high[t]
    BY BoundsAssumption DEF Counter, InOrder
  <1> HIDE DEF e, top
  <1>3. /\ r \in Seq(Event) /\ Len(q) \in Nat /\ Len(r) = Len(q) + 1
        /\ \A k \in 1..Len(q) : r[k] = q[k]
        /\ r[Len(q) + 1] = e
    BY <1>1
  <1> HIDE DEF r
  <1>4. \A k \in 1..Len(q) : /\ low[q[k][1]] < q[k][2] /\ q[k][2] =< high[q[k][1]]
                             /\ q[k][1] \in Sender /\ q[k][2] \in Nat
    BY <1>1, Elements, BoundsAssumption DEF InOrder
  <1>5. ASSUME NEW k \in 1..Len(r)
        PROVE  low[r[k][1]] < r[k][2] /\ r[k][2] =< top[r[k][1]]
    <2>1. CASE k \in 1..Len(q)
      <3>1. r[k] = q[k]
        BY <1>3, <2>1
      <3>2. /\ q[k][1] \in Sender /\ q[k][2] \in Nat
            /\ low[q[k][1]] < q[k][2] /\ q[k][2] =< high[q[k][1]]
        BY <1>4, <2>1
      <3>3. high[q[k][1]] \in Nat /\ high[q[k][1]] =< top[q[k][1]]
        BY <1>2, <3>2
      <3>4. top[q[k][1]] \in Nat
        BY <1>2, <3>2
      <3> QED
        BY <3>1, <3>2, <3>3, <3>4
    <2>2. CASE k = Len(q) + 1
      BY <1>1, <1>2, <1>3, <2>2
    <2> QED
      BY <1>3, <2>1, <2>2
  <1>6. ASSUME NEW j \in 1..Len(r), NEW k \in 1..Len(r), j < k, r[j][1] = r[k][1]
        PROVE  r[j][2] < r[k][2]
    <2>1. j \in 1..Len(q)
      BY <1>3, <1>6
    <2>2. CASE k \in 1..Len(q)
      BY <1>3, <1>6, <2>1, <2>2 DEF InOrder
    <2>3. CASE k = Len(q) + 1
      BY <1>1, <1>2, <1>3, <1>4, <1>6, <2>1, <2>3
    <2> QED
      BY <1>3, <2>2, <2>3
  <1>7. ASSUME NEW t \in Sender, NEW n \in (low[t] + 1)..top[t]
        PROVE  \E k \in 1..Len(r) : r[k] = <<t, n>>
    <2>1. CASE n \in (low[t] + 1)..high[t]
      <3>1. PICK k \in 1..Len(q) : q[k] = <<t, n>>
        BY <2>1 DEF InOrder
      <3> QED
        BY <1>3, <3>1
    <2>2. CASE t = s /\ n = high[s] + 1
      BY <1>3, <2>2 DEF e
    <2> QED
      BY <1>2, <2>1, <2>2
  <1>8. \A t \in Sender : low[t] =< top[t]
    BY <1>2
  <1>9. InOrder(r, low, top)
    BY <1>3, <1>5, <1>6, <1>7, <1>8 DEF InOrder
  <1> QED
    BY <1>9 DEF r, e, top

\* The oldest event is the one its sender's count waits for.
LEMMA HeadInOrder ==
    ASSUME NEW q, NEW low \in Counter, NEW high \in Counter,
           InOrder(q, low, high), q # <<>>
    PROVE  /\ Head(q) \in Event
           /\ Head(q)[2] = low[Head(q)[1]] + 1
           /\ InOrder(Tail(q), [low EXCEPT ![Head(q)[1]] = Head(q)[2]], high)
  <1> DEFINE e == Head(q)
             s == e[1]
             r == Tail(q)
             seen == [low EXCEPT ![s] = e[2]]
  <1>1. /\ q \in Seq(Event) /\ Len(q) \in Nat /\ Len(q) >= 1 /\ e = q[1]
        /\ r \in Seq(Event) /\ Len(r) = Len(q) - 1
        /\ \A k \in 1..Len(r) : k + 1 \in 1..Len(q) /\ r[k] = q[k + 1]
    BY DEF InOrder
  <1>2. e \in Event /\ s \in Sender /\ e[2] \in 1..MaxSend /\ 1 \in 1..Len(q)
        /\ e = <<s, e[2]>>
    BY <1>1, EventParts
  <1>3. \A t \in Sender : /\ low[t] \in Nat /\ high[t] \in Nat
                          /\ low[t] =< high[t]
                          /\ seen[t] = IF t = s THEN e[2] ELSE low[t]
    BY <1>2 DEF Counter, InOrder
  <1> HIDE DEF seen, r
  <1>4. \A k \in 1..Len(q) : /\ low[q[k][1]] < q[k][2] /\ q[k][2] =< high[q[k][1]]
                             /\ q[k][1] \in Sender /\ q[k][2] \in 1..MaxSend
    BY <1>1, Elements DEF InOrder
  <1>5. e[2] = low[s] + 1
    <2> SUFFICES ASSUME e[2] # low[s] + 1 PROVE FALSE
      OBVIOUS
    <2>1. low[s] < e[2] /\ e[2] =< high[s]
      BY <1>1, <1>2, <1>4
    <2>2. low[s] + 1 < e[2] /\ low[s] + 1 \in (low[s] + 1)..high[s]
      BY <1>2, <1>3, <2>1
    <2>3. PICK k \in 1..Len(q) : q[k] = <<s, low[s] + 1>>
      BY <1>2, <2>2 DEF InOrder
    <2>4. q[k][1] = s /\ q[k][2] = low[s] + 1
      BY <2>3
    <2>5. k # 1
      BY <1>1, <2>4
    <2>6. 1 < k /\ q[1][1] = q[k][1]
      BY <1>1, <2>4, <2>5
    <2>7. q[1][2] < q[k][2]
      BY <1>2, <2>6 DEF InOrder
    <2> QED
      BY <1>1, <1>2, <1>3, <2>2, <2>4, <2>7
  <1>6. \A t \in Sender : seen[t] =< high[t]
    BY <1>1, <1>2, <1>3, <1>4
  <1>7. ASSUME NEW k \in 1..Len(r)
        PROVE  seen[r[k][1]] < r[k][2] /\ r[k][2] =< high[r[k][1]]
    <2>1. /\ k + 1 \in 1..Len(q) /\ r[k] = q[k + 1] /\ 1 < k + 1
          /\ r[k][1] \in Sender
      BY <1>1, <1>4
    <2>2. CASE r[k][1] = s
      BY <1>1, <1>2, <1>3, <1>4, <2>1, <2>2 DEF InOrder
    <2>3. CASE r[k][1] # s
      BY <1>3, <1>4, <2>1, <2>3
    <2> QED
      BY <2>2, <2>3
  <1>8. ASSUME NEW j \in 1..Len(r), NEW k \in 1..Len(r), j < k, r[j][1] = r[k][1]
        PROVE  r[j][2] < r[k][2]
    <2>1. j + 1 \in 1..Len(q) /\ k + 1 \in 1..Len(q) /\ j + 1 < k + 1
      BY <1>1, <1>8
    <2> QED
      BY <1>1, <1>8, <2>1 DEF InOrder
  <1>9. ASSUME NEW t \in Sender, NEW n \in (seen[t] + 1)..high[t]
        PROVE  \E k \in 1..Len(r) : r[k] = <<t, n>>
    <2>1. n \in (low[t] + 1)..high[t] /\ <<t, n>> # e
      BY <1>2, <1>3, <1>5
    <2>2. PICK k \in 1..Len(q) : q[k] = <<t, n>>
      BY <2>1 DEF InOrder
    <2>3. k - 1 \in 1..Len(r)
      BY <1>1, <2>1, <2>2
    <2>4. r[k - 1] = q[(k - 1) + 1]
      BY <1>1, <2>3
    <2>5. (k - 1) + 1 = k
      BY <1>1, <2>2
    <2> QED
      BY <2>2, <2>3, <2>4, <2>5
  <1> QED
    BY <1>1, <1>2, <1>5, <1>6, <1>7, <1>8, <1>9 DEF InOrder, r, seen

\* With nothing on the way, the kernel has seen what was accepted.
LEMMA EmptyInOrder ==
    ASSUME NEW low \in Counter, NEW high \in Counter, InOrder(<<>>, low, high)
    PROVE  \A s \in Sender : low[s] = high[s]
  <1> SUFFICES ASSUME NEW s \in Sender PROVE low[s] = high[s]
    OBVIOUS
  <1>1. low[s] \in Nat /\ high[s] \in Nat /\ low[s] =< high[s]
    BY DEF Counter, InOrder
  <1>2. CASE low[s] < high[s]
    <2>1. high[s] \in (low[s] + 1)..high[s]
      BY <1>1, <1>2
    <2>2. PICK k \in 1..Len(<<>>) : TRUE
      BY <2>1 DEF InOrder
    <2> QED
      BY <2>2
  <1> QED
    BY <1>1, <1>2

-----------------------------------------------------------------------------
(* The invariant and its parts                                             *)

\* The number of channels made so far.
LEMMA MadeCount ==
    ASSUME Generations
    PROVE  \E n \in 0..MaxRegister :
               /\ Made = 1..n
               /\ Cardinality(Made) = n
               /\ owner \in {"setup", "pull"} => n < MaxRegister
  <1>1. PICK n \in 0..MaxRegister :
            Made = 1..n /\ (owner \in {"setup", "pull"} => n < MaxRegister)
    BY DEF Generations
  <1>2. n \in Nat
    BY <1>1, BoundsAssumption
  <1>3. Cardinality(1..n) = n
    BY <1>2, FS_Interval
  <1> QED
    BY <1>1, <1>3

\* The generation of a goroutine that can take a step, and of a channel that
\* can take an event, is the current one.
LEMMA Current ==
    ASSUME TypeOK, Generations
    PROVE  /\ \A g \in Generation : puller[g] \in {"waiting", "writing"} => g = chan
           /\ \A s \in Sender : pc[s] = "sending" /\ target[s] \notin closed
                                   => target[s] = chan /\ chan \in Generation
  <1>1. ASSUME NEW g \in Generation, puller[g] \in {"waiting", "writing"}
        PROVE  g = chan
    BY <1>1 DEF Generations, Made
  <1>2. ASSUME NEW s \in Sender, pc[s] = "sending", target[s] \notin closed
        PROVE  target[s] = chan /\ chan \in Generation
    BY <1>2 DEF Generations, Made
  <1> QED
    BY <1>1, <1>2

LEMMA NilIsNone == NilChan \notin Generation
  BY DEF NilChan, Generation

\* What stays on its way while no event moves.
LEMMA PipeStays ==
    ASSUME InOrder(Pipe, handled, sent),
           UNCHANGED <<chan, buffer, inHand, handled, sent>>
    PROVE  InOrder(Pipe, handled, sent)'
  <1>1. Pipe' = Pipe
    BY DEF Pipe
  <1>2. /\ InOrder(Pipe, handled, sent)' = InOrder(Pipe', handled', sent')
    BY DEF InOrder
  <1> QED
    BY <1>1, <1>2

LEMMA InitSound == Init => IInv
  <1> SUFFICES ASSUME Init PROVE IInv
    OBVIOUS
  <1>1. 0 \in 0..MaxSend /\ 0 \in 0..MaxRegister /\ 0 =< QueueLen
    BY BoundsAssumption, QueueAssumption
  <1>2. TypeOK
    <2>1. \A g \in Generation : buffer[g] = <<>> /\ Len(buffer[g]) = 0
      BY DEF Init
    <2>2. /\ buffer \in [Generation -> Seq(Event)]
          /\ \A g \in Generation : Len(buffer[g]) <= QueueLen
      <3>1. <<>> \in Seq(Event)
        OBVIOUS
      <3> QED
        BY <2>1, <3>1, <1>1 DEF Init
    <2>3. /\ sent \in [Sender -> 0..MaxSend] /\ handled \in [Sender -> 0..MaxSend]
          /\ inHand \in [Generation -> Event \cup {NoEvent}]
          /\ puller \in [Generation -> {"none", "waiting", "writing", "done"}]
          /\ pc \in [Sender -> {"idle", "checked", "sending", "stuck", "panicked"}]
          /\ target \in [Sender -> Generation \cup {NilChan}]
      BY <1>1 DEF Init
    <2> QED
      BY <2>2, <2>3 DEF Init, TypeOK, OwnerPoints
  <1>3. Made = {} /\ 1..0 = {}
    BY DEF Init, Made
  <1>4. Generations
    BY <1>1, <1>3 DEF Init, Generations
  <1>5. OwnerKnows
    BY DEF Init, OwnerKnows
  <1>6. Pipe = <<>>
    BY DEF Init, Pipe
  <1>7. InOrder(<<>>, handled, sent)
    BY DEF Init, InOrder
  <1> QED
    BY <1>2, <1>4, <1>5, <1>6, <1>7 DEF IInv

-----------------------------------------------------------------------------
(* Register and Unregister                                                 *)

\* Most of their steps touch neither the channels nor the pullers.
LEMMA OwnerStepsSound ==
    ASSUME IInv,
           \/ Register \/ Configure \/ SendRepeat \/ SetRegistered \/ Unregister
           \/ ClearRegistered \/ AwaitEmpty \/ JoinPuller \/ CloseDevice
    PROVE  IInv'
  <1> USE DEF chans, pullers, senders
  <1>1. UNCHANGED <<chan, buffer, closed, puller, inHand, pc, target, sent, handled>>
    BY DEF Register, Configure, SendRepeat, SetRegistered, Unregister,
           ClearRegistered, AwaitEmpty, JoinPuller, CloseDevice
  <1>2. Made' = Made
    BY <1>1 DEF Made
  <1>3. TypeOK'
    BY <1>1
    DEF IInv, TypeOK, OwnerPoints, Register, Configure, SendRepeat, SetRegistered,
        Unregister, ClearRegistered, AwaitEmpty, JoinPuller, CloseDevice
  <1>4. OwnerKnows'
    BY <1>1
    DEF IInv, TypeOK, OwnerKnows, Register, Configure, SendRepeat, SetRegistered,
        Unregister, ClearRegistered, AwaitEmpty, JoinPuller, CloseDevice
  <1>5. Generations'
    <2>1. PICK n \in 0..MaxRegister :
              /\ Made = 1..n
              /\ Cardinality(Made) = n
              /\ owner \in {"setup", "pull"} => n < MaxRegister
      BY MadeCount DEF IInv
    <2>2. owner' \in {"setup", "pull"} => n < MaxRegister
      BY <2>1
      DEF Made, Register, Configure, SendRepeat, SetRegistered,
          Unregister, ClearRegistered, AwaitEmpty, JoinPuller, CloseDevice
    <2> QED
      BY <1>1, <1>2, <2>1, <2>2 DEF IInv, Generations
  <1> QED
    BY <1>1, <1>3, <1>4, <1>5, PipeStays DEF IInv

\* pull: the next generation begins with an empty channel.
LEMMA StartPullerSound ==
    ASSUME IInv, StartPuller
    PROVE  IInv'
  <1>1. PICK n \in 0..MaxRegister :
            Made = 1..n /\ Cardinality(Made) = n /\ n < MaxRegister
    BY MadeCount DEF IInv, StartPuller
  <1> DEFINE g == n + 1
  <1>2. g \in Generation /\ g \notin Made /\ 1..g = Made \cup {g} /\ g \in 0..MaxRegister
    BY <1>1, BoundsAssumption DEF Generation
  <1>3. /\ chan = NilChan /\ chan' = g /\ puller[g] = "none" /\ buffer[g] = <<>>
        /\ inHand[g] = NoEvent
        /\ puller' = [puller EXCEPT ![g] = "waiting"]
        /\ owner' = "repeat"
        /\ UNCHANGED <<registered, buffer, closed, inHand, fdOpen, pc, target, sent,
                       handled>>
    <2>1. chan' = g /\ puller' = [puller EXCEPT ![g] = "waiting"]
      <3> DEFINE new == 1 + Cardinality(Made)
      <3>1. chan' = new /\ puller' = [puller EXCEPT ![new] = "waiting"]
        BY DEF StartPuller, Made
      <3>2. new = g
        BY <1>1
      <3> QED
        BY <3>1, <3>2
    <2>2. chan = NilChan
      BY DEF IInv, OwnerKnows, StartPuller
    <2>3. puller[g] = "none"
      BY <1>2 DEF Made
    <2>4. buffer[g] = <<>> /\ inHand[g] = NoEvent
      BY <1>2, <2>3 DEF IInv, Generations
    <2> QED
      BY <2>1, <2>2, <2>3, <2>4 DEF StartPuller, senders
  <1>4. /\ puller' \in [Generation -> {"none", "waiting", "writing", "done"}]
        /\ puller'[g] = "waiting"
        /\ \A h \in Generation \ {g} : puller'[h] = puller[h]
    BY <1>2, <1>3 DEF IInv, TypeOK
  <1>5. Made' = Made \cup {g}
    BY <1>2, <1>4 DEF Made
  <1> HIDE DEF g
  <1>6. TypeOK'
    BY <1>2, <1>3, <1>4 DEF IInv, TypeOK, OwnerPoints
  <1>7. Generations'
    <2>1. \A h \in Made' \ {chan'} : puller'[h] = "done"
      BY <1>2, <1>3, <1>4, <1>5, NilIsNone DEF IInv, Generations, Made
    <2> QED
      BY <1>2, <1>3, <1>4, <1>5, <2>1 DEF IInv, Generations
  <1>8. OwnerKnows'
    <2>1. fdOpen
      BY DEF IInv, OwnerKnows, StartPuller
    <2> QED
      BY <1>2, <1>3, <2>1, NilIsNone DEF OwnerKnows
  <1>9. Pipe = <<>> /\ Pipe' = <<>>
    BY <1>2, <1>3, NilIsNone DEF Pipe
  <1>10. InOrder(Pipe, handled, sent)'
    BY <1>3, <1>9 DEF IInv, InOrder
  <1> QED
    BY <1>6, <1>7, <1>8, <1>10 DEF IInv

LEMMA CloseQueueSound ==
    ASSUME IInv, CloseQueue
    PROVE  IInv'
  <1>1. /\ chan \in Generation
        /\ closed' = closed \cup {chan} /\ owner' = "join" /\ owner = "close"
        /\ UNCHANGED <<registered, chan, buffer, puller, inHand, fdOpen, pc, target,
                       sent, handled>>
    BY DEF CloseQueue, pullers, senders, IInv, OwnerKnows, Generations, Made
  <1>2. TypeOK'
    BY <1>1 DEF IInv, TypeOK, OwnerPoints
  <1>3. Generations'
    <2>1. Made' = Made
      BY <1>1 DEF Made
    <2> QED
      BY <1>1, <2>1 DEF IInv, Generations
  <1>4. OwnerKnows'
    BY <1>1 DEF IInv, OwnerKnows
  <1> QED
    BY <1>1, <1>2, <1>3, <1>4, PipeStays DEF IInv

\* The channel is forgotten behind the last event.
LEMMA ForgetQueueSound ==
    ASSUME IInv, ForgetQueue
    PROVE  IInv'
  <1>1. /\ chan \in Generation /\ puller[chan] = "done" /\ buffer[chan] = <<>>
        /\ inHand[chan] = NoEvent /\ fdOpen
        /\ chan' = NilChan /\ owner' = "destroy" /\ owner = "forget"
        /\ UNCHANGED <<registered, buffer, closed, puller, inHand, fdOpen, pc, target,
                       sent, handled>>
    BY DEF ForgetQueue, pullers, senders, IInv, OwnerKnows, Generations, Made
  <1>2. TypeOK'
    BY <1>1 DEF IInv, TypeOK, OwnerPoints
  <1>3. Generations'
    <2>1. Made' = Made
      BY <1>1 DEF Made
    <2> QED
      BY <1>1, <2>1 DEF IInv, Generations
  <1>4. OwnerKnows'
    BY <1>1 DEF IInv, OwnerKnows
  <1>5. Pipe = <<>> /\ Pipe' = <<>>
    BY <1>1, NilIsNone DEF Pipe
  <1>6. InOrder(Pipe, handled, sent)'
    BY <1>1, <1>5 DEF IInv, InOrder
  <1> QED
    BY <1>2, <1>3, <1>4, <1>6 DEF IInv

-----------------------------------------------------------------------------
(* Send                                                                    *)

\* Up to the channel operation nothing moves.
LEMMA SendStepsSound ==
    ASSUME IInv, NEW s \in Sender,
           CheckRegistered(s) \/ EvaluateQueue(s) \/ SendOnClosed(s)
    PROVE  IInv'
  <1> USE DEF chans, pullers, senders
  <1>1. UNCHANGED <<registered, chan, buffer, closed, puller, inHand, fdOpen, owner,
                    sent, handled>>
    BY DEF CheckRegistered, EvaluateQueue, SendOnClosed
  <1>2. Made' = Made
    BY <1>1 DEF Made
  <1>3. TypeOK'
    <2>1. pc' \in [Sender -> {"idle", "checked", "sending", "stuck", "panicked"}]
      BY DEF IInv, TypeOK, CheckRegistered, EvaluateQueue, SendOnClosed
    <2>2. target' \in [Sender -> Generation \cup {NilChan}]
      BY DEF IInv, TypeOK, CheckRegistered, EvaluateQueue, SendOnClosed
    <2> QED
      BY <1>1, <2>1, <2>2 DEF IInv, TypeOK
  <1>4. ASSUME NEW t \in Sender
        PROVE  /\ pc'[t] = "sending" => target'[t] \in Made
               /\ pc'[t] \in {"checked", "sending"} => sent'[t] < MaxSend
    <2>1. /\ pc[t] = "sending" => target[t] \in Made
          /\ pc[t] \in {"checked", "sending"} => sent[t] < MaxSend
          /\ chan # NilChan => chan \in Made
      BY DEF IInv, Generations
    <2>2. pc \in [Sender -> {"idle", "checked", "sending", "stuck", "panicked"}]
          /\ target \in [Sender -> Generation \cup {NilChan}]
      BY DEF IInv, TypeOK
    <2>3. CASE CheckRegistered(s)
      BY <1>1, <2>1, <2>2, <2>3 DEF CheckRegistered
    <2>4. CASE EvaluateQueue(s)
      BY <1>1, <2>1, <2>2, <2>4 DEF EvaluateQueue
    <2>5. CASE SendOnClosed(s)
      BY <1>1, <2>1, <2>2, <2>5 DEF SendOnClosed
    <2> QED
      BY <2>3, <2>4, <2>5
  <1>5. Generations'
    BY <1>1, <1>2, <1>4 DEF IInv, Generations
  <1>6. OwnerKnows'
    BY <1>1 DEF IInv, OwnerKnows
  <1> QED
    BY <1>1, <1>3, <1>5, <1>6, PipeStays DEF IInv

\* The event joins the others in the current channel.
LEMMA EnqueueSound ==
    ASSUME IInv, NEW s \in Sender, Enqueue(s)
    PROVE  IInv'
  <1> DEFINE e == <<s, sent[s] + 1>>
             b == buffer[chan]
  <1>1. target[s] = chan /\ chan \in Generation /\ chan # NilChan
    BY Current, NilIsNone DEF IInv, Enqueue
  <1>2. /\ buffer' = [buffer EXCEPT ![chan] = Append(b, e)]
        /\ Len(b) < QueueLen
        /\ sent' = [sent EXCEPT ![s] = sent[s] + 1]
        /\ pc' = [pc EXCEPT ![s] = "idle"]
        /\ UNCHANGED <<registered, chan, closed, puller, inHand, fdOpen, owner, target,
                       handled>>
    BY <1>1 DEF Enqueue, HasRoom, pullers
  <1>3. sent[s] < MaxSend /\ sent[s] \in 0..MaxSend /\ e \in Event
    BY BoundsAssumption DEF IInv, TypeOK, Generations, Enqueue, Event
  <1>4. b \in Seq(Event) /\ Append(b, e) \in Seq(Event)
        /\ Len(Append(b, e)) = Len(b) + 1
    BY <1>1, <1>3 DEF IInv, TypeOK
  <1> HIDE DEF e, b
  <1>5. /\ buffer' \in [Generation -> Seq(Event)]
        /\ buffer'[chan] = Append(b, e)
        /\ \A g \in Generation \ {chan} : buffer'[g] = buffer[g]
        /\ \A g \in Generation : Len(buffer'[g]) <= QueueLen
    <2>1. /\ buffer' \in [Generation -> Seq(Event)]
          /\ buffer'[chan] = Append(b, e)
          /\ \A g \in Generation \ {chan} : buffer'[g] = buffer[g]
      BY <1>1, <1>2, <1>4 DEF IInv, TypeOK
    <2>2. Len(Append(b, e)) <= QueueLen
      BY <1>2, <1>4, QueueAssumption
    <2> QED
      BY <2>1, <2>2 DEF IInv, TypeOK
  <1>6. sent' \in Counter /\ sent \in Counter /\ handled \in Counter
    BY <1>2, <1>3, BoundsAssumption DEF IInv, TypeOK, Counter
  <1>7. TypeOK'
    BY <1>2, <1>5, <1>6 DEF IInv, TypeOK, Counter
  <1>8. puller[chan] \notin {"none", "done"}
    BY <1>1 DEF IInv, Generations, Made, Enqueue
  <1>9. Generations'
    <2>1. Made' = Made
      BY <1>2 DEF Made
    <2>2. \A g \in Generation : puller'[g] \in {"none", "done"} => buffer'[g] = <<>>
      BY <1>2, <1>5, <1>8 DEF IInv, Generations
    <2>3. \A t \in Sender : /\ pc'[t] = "sending" => target'[t] \in Made
                            /\ pc'[t] \in {"checked", "sending"} => sent'[t] < MaxSend
      BY <1>2 DEF IInv, TypeOK, Generations
    <2> QED
      BY <1>2, <2>1, <2>2, <2>3 DEF IInv, Generations
  <1>10. OwnerKnows'
    BY <1>2 DEF IInv, OwnerKnows
  <1>11. Pipe' = Append(Pipe, e)
    <2>1. CASE inHand[chan] = NoEvent
      BY <1>1, <1>2, <1>5, <2>1 DEF Pipe, b
    <2>2. CASE inHand[chan] # NoEvent
      <3>1. inHand[chan] \in Event
        BY <1>1, <2>2 DEF IInv, TypeOK
      <3>2. Pipe = <<inHand[chan]>> \o b /\ Pipe' = <<inHand[chan]>> \o Append(b, e)
        BY <1>1, <1>2, <1>5, <2>2 DEF Pipe, b
      <3>3. <<inHand[chan]>> \o Append(b, e) = Append(<<inHand[chan]>> \o b, e)
        BY <1>3, <1>4, <3>1
      <3> QED
        BY <3>2, <3>3
    <2> QED
      BY <2>1, <2>2
  <1>12. InOrder(Append(Pipe, e), handled, sent')
    BY <1>2, <1>3, <1>6, AppendInOrder DEF IInv, e
  <1>13. InOrder(Pipe, handled, sent)'
    BY <1>2, <1>11, <1>12 DEF InOrder
  <1> QED
    BY <1>7, <1>9, <1>10, <1>13 DEF IInv

-----------------------------------------------------------------------------
(* The puller                                                              *)

\* The oldest event goes from the channel to the puller's hand.
LEMMA ReceiveSound ==
    ASSUME IInv, NEW g \in Generation, Receive(g)
    PROVE  IInv'
  <1> DEFINE b == buffer[g]
  <1>1. g = chan /\ puller[g] = "waiting" /\ g # NilChan
    BY Current, NilIsNone DEF IInv, Receive
  <1>2. /\ inHand' = [inHand EXCEPT ![g] = Head(b)]
        /\ buffer' = [buffer EXCEPT ![g] = Tail(b)]
        /\ puller' = [puller EXCEPT ![g] = "writing"]
        /\ UNCHANGED <<registered, chan, closed, fdOpen, owner, pc, target, sent, handled>>
    BY DEF Receive, senders
  <1>3. /\ b \in Seq(Event) /\ b # <<>> /\ Len(b) <= QueueLen
        /\ Head(b) \in Event /\ Tail(b) \in Seq(Event) /\ Len(Tail(b)) = Len(b) - 1
        /\ b = <<Head(b)>> \o Tail(b)
    <2>1. b \in Seq(Event) /\ b # <<>> /\ Len(b) <= QueueLen
      BY DEF IInv, TypeOK, Receive
    <2> HIDE DEF b
    <2> QED
      BY <2>1
  <1>4. Head(b) # NoEvent
    <2>1. PICK t \in Sender, n \in 1..MaxSend : Head(b) = <<t, n>>
      BY <1>3 DEF Event
    <2>2. <<t, n>> # <<>>
      OBVIOUS
    <2> QED
      BY <2>1, <2>2 DEF NoEvent
  <1>5. inHand[g] = NoEvent
    BY <1>1 DEF IInv, Generations
  <1> HIDE DEF b
  <1>6. /\ \A h \in Generation : Len(buffer'[h]) <= QueueLen
        /\ buffer' \in [Generation -> Seq(Event)]
        /\ buffer'[g] = Tail(b) /\ inHand'[g] = Head(b) /\ puller'[g] = "writing"
        /\ \A h \in Generation \ {g} : /\ buffer'[h] = buffer[h]
                                       /\ inHand'[h] = inHand[h]
                                       /\ puller'[h] = puller[h]
    <2>1. Len(Tail(b)) <= QueueLen
      BY <1>3, QueueAssumption
    <2> QED
      BY <1>2, <1>3, <2>1 DEF IInv, TypeOK
  <1>7. TypeOK'
    BY <1>2, <1>3, <1>6 DEF IInv, TypeOK
  <1>8. Made' = Made
    BY <1>1, <1>6 DEF Made
  <1>9. Generations'
    BY <1>1, <1>2, <1>4, <1>6, <1>8 DEF IInv, Generations
  <1>10. OwnerKnows'
    BY <1>1, <1>2 DEF IInv, OwnerKnows
  <1>11. Pipe = b /\ Pipe' = <<Head(b)>> \o Tail(b)
    BY <1>1, <1>2, <1>4, <1>5, <1>6 DEF Pipe, b
  <1>12. InOrder(Pipe, handled, sent)'
    <2>1. Pipe' = Pipe
      BY <1>3, <1>11
    <2> QED
      BY <1>2, <2>1 DEF IInv, InOrder
  <1> QED
    BY <1>7, <1>9, <1>10, <1>12 DEF IInv

\* The event in hand is the oldest one, and the kernel gets it next.
LEMMA WriteSound ==
    ASSUME IInv, NEW g \in Generation, Write(g)
    PROVE  /\ IInv'
           /\ \A s \in Sender : handled'[s] # handled[s] => handled'[s] = handled[s] + 1
  <1> DEFINE e == inHand[g]
             b == buffer[g]
  <1>1. g = chan /\ puller[g] = "writing" /\ g # NilChan
    BY Current, NilIsNone DEF IInv, Write
  <1>2. /\ handled' = [handled EXCEPT ![e[1]] = e[2]]
        /\ inHand' = [inHand EXCEPT ![g] = NoEvent]
        /\ puller' = [puller EXCEPT ![g] = "waiting"]
        /\ UNCHANGED <<registered, chan, buffer, closed, fdOpen, owner, pc, target, sent>>
    BY DEF Write, chans, senders
  <1>3. e # NoEvent /\ e \in Event /\ b \in Seq(Event)
    BY <1>1 DEF IInv, TypeOK, Generations
  <1>4. Pipe = <<e>> \o b /\ Pipe' = b
    <2>1. inHand'[g] = NoEvent
      BY <1>2 DEF IInv, TypeOK
    <2> QED
      BY <1>1, <1>2, <1>3, <2>1 DEF Pipe
  <1> HIDE DEF e, b
  <1>5. Pipe # <<>> /\ Head(Pipe) = e /\ Tail(Pipe) = b
    BY <1>3, <1>4
  <1>6. handled \in Counter /\ sent \in Counter
    BY DEF IInv, TypeOK, Counter
  <1>7. e[2] = handled[e[1]] + 1 /\ InOrder(b, handled', sent)
    BY <1>2, <1>5, <1>6, HeadInOrder DEF IInv
  <1>8. e[1] \in Sender /\ e[2] \in 0..MaxSend
    BY <1>3, EventParts, BoundsAssumption
  <1>9. handled' \in Counter
    BY <1>2, <1>6, <1>8 DEF Counter
  <1>10. TypeOK'
    BY <1>2, <1>9 DEF IInv, TypeOK, Counter
  <1>11. /\ inHand'[g] = NoEvent /\ puller'[g] = "waiting"
         /\ \A h \in Generation \ {g} : /\ inHand'[h] = inHand[h]
                                        /\ puller'[h] = puller[h]
    BY <1>2 DEF IInv, TypeOK
  <1>12. Made' = Made
    BY <1>1, <1>11 DEF Made
  <1>13. Generations'
    BY <1>1, <1>2, <1>11, <1>12 DEF IInv, Generations
  <1>14. OwnerKnows'
    BY <1>1, <1>2 DEF IInv, OwnerKnows
  <1>15. InOrder(Pipe, handled, sent)'
    BY <1>2, <1>4, <1>7 DEF InOrder
  <1>16. \A s \in Sender : handled'[s] # handled[s] => handled'[s] = handled[s] + 1
    BY <1>2, <1>6, <1>7, <1>8 DEF Counter
  <1> QED
    BY <1>10, <1>13, <1>14, <1>15, <1>16 DEF IInv

LEMMA PullEndsSound ==
    ASSUME IInv, NEW g \in Generation, PullEnds(g)
    PROVE  IInv'
  <1>1. /\ puller[g] = "waiting" /\ g \in closed /\ buffer[g] = <<>>
        /\ puller' = [puller EXCEPT ![g] = "done"]
        /\ UNCHANGED <<registered, chan, buffer, closed, inHand, fdOpen, owner, pc,
                       target, sent, handled>>
    BY DEF PullEnds, chans, senders
  <1>2. g = chan
    BY <1>1, Current DEF IInv
  <1>3. /\ puller'[g] = "done"
        /\ \A h \in Generation \ {g} : puller'[h] = puller[h]
    BY <1>1 DEF IInv, TypeOK
  <1>4. TypeOK'
    BY <1>1 DEF IInv, TypeOK
  <1>5. Made' = Made
    BY <1>1, <1>3 DEF Made
  <1>6. Generations'
    BY <1>1, <1>2, <1>3, <1>5 DEF IInv, Generations
  <1>7. OwnerKnows'
    BY <1>1, <1>2, <1>3 DEF IInv, OwnerKnows
  <1> QED
    BY <1>1, <1>4, <1>6, <1>7, PipeStays DEF IInv

-----------------------------------------------------------------------------
(* The theorems                                                            *)

\* What the kernel has seen of a sender grows by one event at a time.
Written ==
    \A s \in Sender : handled'[s] # handled[s] => handled'[s] = handled[s] + 1

LEMMA NextSound == IInv /\ [Next]_vars => IInv' /\ Written
  <1> SUFFICES ASSUME IInv, [Next]_vars PROVE IInv' /\ Written
    OBVIOUS
  <1>1. CASE Owner
    <2>1. IInv'
      BY <1>1, OwnerStepsSound, StartPullerSound, CloseQueueSound, ForgetQueueSound
      DEF Owner
    <2>2. handled' = handled
      BY <1>1
      DEF Owner, Register, Configure, StartPuller, SendRepeat, SetRegistered,
          Unregister, ClearRegistered, AwaitEmpty, CloseQueue, JoinPuller,
          ForgetQueue, CloseDevice
    <2> QED
      BY <2>1, <2>2 DEF Written
  <1>2. ASSUME NEW s \in Sender, Send(s) PROVE IInv' /\ Written
    <2>1. IInv'
      BY <1>2, SendStepsSound, EnqueueSound DEF Send
    <2>2. handled' = handled
      BY <1>2 DEF Send, CheckRegistered, EvaluateQueue, Enqueue, SendOnClosed
    <2> QED
      BY <2>1, <2>2 DEF Written
  <1>3. ASSUME NEW g \in Generation, Pull(g) PROVE IInv' /\ Written
    <2>1. CASE Write(g)
      BY <2>1, WriteSound DEF Written
    <2>2. CASE Receive(g) \/ PullEnds(g)
      <3>1. handled' = handled
        BY <2>2 DEF Receive, PullEnds
      <3> QED
        BY <2>2, <3>1, ReceiveSound, PullEndsSound DEF Written
    <2> QED
      BY <1>3, <2>1, <2>2 DEF Pull
  <1>4. CASE UNCHANGED vars
    <2>1. UNCHANGED <<registered, chan, buffer, closed, puller, inHand, fdOpen, owner,
                      pc, target, sent, handled>>
      BY <1>4 DEF vars, chans, pullers, senders
    <2>2. TypeOK' /\ Generations' /\ OwnerKnows'
      BY <2>1 DEF IInv, TypeOK, Generations, OwnerKnows, Made
    <2> QED
      BY <2>1, <2>2, PipeStays DEF IInv, Written
  <1> QED
    BY <1>1, <1>2, <1>3, <1>4 DEF Next

\* The strengthened invariant, for all values of the constants.
THEOREM QueueInvariant == Spec => []IInv
  <1>1. IInv /\ [Next]_vars => IInv'
    BY NextSound
  <1> QED
    BY <1>1, InitSound, PTL DEF Spec

\* The file is closed behind the last event and the last puller, and no two
\* pullers work at once.
THEOREM FlushedCorrect == Spec => []FlushedBeforeDestroy
  <1>1. IInv => FlushedBeforeDestroy
    <2> SUFFICES ASSUME IInv PROVE FlushedBeforeDestroy
      OBVIOUS
    <2>1. Pulling \subseteq {chan}
      BY Current DEF IInv, Pulling
    <2>2. Pulling # {} => fdOpen
      BY <2>1, NilIsNone DEF IInv, OwnerKnows, Pulling
    <2>3. Cardinality(Pulling) <= 1
      <3>1. IsFiniteSet({chan}) /\ Cardinality({chan}) = 1
        BY FS_Singleton
      <3>2. IsFiniteSet(Pulling) /\ Cardinality(Pulling) <= Cardinality({chan})
        BY <2>1, <3>1, FS_Subset
      <3> QED
        BY <3>1, <3>2
    <2>4. ~fdOpen => \A s \in Sender : handled[s] = sent[s]
      <3> SUFFICES ASSUME ~fdOpen PROVE \A s \in Sender : handled[s] = sent[s]
        OBVIOUS
      <3>1. Pipe = <<>>
        BY DEF IInv, OwnerKnows, Pipe
      <3>2. handled \in Counter /\ sent \in Counter
        BY DEF IInv, TypeOK, Counter
      <3> QED
        BY <3>1, <3>2, EmptyInOrder DEF IInv
    <2> QED
      BY <2>2, <2>3, <2>4 DEF FlushedBeforeDestroy, IInv
  <1> QED
    BY <1>1, QueueInvariant, PTL

\* The kernel sees the events of each sender in order, none twice, none skipped.
THEOREM InOrderCorrect == Spec => EventsInOrder
  <1>1. IInv /\ [Next]_vars => [Written]_vars
    BY NextSound
  <1>2. [][Written]_vars => EventsInOrder
    BY DEF EventsInOrder, Written
  <1> QED
    BY <1>1, <1>2, QueueInvariant, PTL DEF Spec
=============================================================================
