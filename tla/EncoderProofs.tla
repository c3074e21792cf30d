--------------------------- MODULE EncoderProofs ----------------------------
(***************************************************************************)
(* The capture pipelines, for any number of them: first their lifecycle    *)
(* (Streamer), then what the capture loop does with FFmpeg (Encoder).      *)
(***************************************************************************)
EXTENDS Encoder, TLAPS

-----------------------------------------------------------------------------
(***************************************************************************)
(* One capture loop per pipeline, and the contract of video.Streamer, for  *)
(* any number of pipelines and any order of Start and Stop calls.          *)
(*                                                                         *)
(* SingleLoop alone is not inductive: that a second Start is refused says  *)
(* nothing until started is known to count the loop, and Free is harmless  *)
(* only because Stop gets there after the loop has ended or when none can  *)
(* begin any more.                                                         *)
(***************************************************************************)

\* The capture goroutines that Start has ever asked for.
Loops(p) == launching[p] + running[p] + doneCloses[p]

Sound(p) ==
    /\ started[p] => Loops(p) = 1
    /\ ~started[p] => Loops(p) = 0
    /\ started[p] \/ stopped[p] => built[p]
    /\ stopper[p] = "none" <=> ~stopped[p]
    /\ stopper[p] = "wait" => started[p]
    /\ stopper[p] \in {"free", "zero", "done"} => launching[p] = 0 /\ running[p] = 0
    /\ freed[p] <=> stopper[p] \in {"zero", "done"}

IInv == TypeOK /\ \A p \in Pipeline : Sound(p)

\* Before the first constructor there is nothing.
LEMMA InitSound == Init => IInv
  BY DEF Init, IInv, TypeOK, Sound, Loops, Everywhere, StopPoints

\* Of what adds up to one or to nothing, no more than one part is there.
LEMMA Parts ==
    ASSUME TypeOK, NEW p \in Pipeline
    PROVE  /\ launching[p] \in Nat /\ running[p] \in Nat /\ doneCloses[p] \in Nat
           /\ Loops(p) = 0 => launching[p] = 0 /\ running[p] = 0 /\ doneCloses[p] = 0
           /\ Loops(p) = 1 /\ doneCloses[p] > 0 => launching[p] = 0 /\ running[p] = 0
           /\ Loops(p) = 1 /\ running[p] > 0 => launching[p] = 0 /\ doneCloses[p] = 0
           /\ Loops(p) = 1 /\ launching[p] > 0 => running[p] = 0 /\ doneCloses[p] = 0
  <1>1. launching[p] \in Nat /\ running[p] \in Nat /\ doneCloses[p] \in Nat
    BY DEF TypeOK
  <1> QED
    BY <1>1 DEF Loops

-----------------------------------------------------------------------------
(* A step concerns one pipeline.                                           *)

\* What a step of p leaves of the other pipelines.
LEMMA OthersSound ==
    ASSUME IInv, NEW p \in Pipeline, NEW q \in Pipeline, q # p,
           /\ built'[q] = built[q] /\ started'[q] = started[q]
           /\ stopped'[q] = stopped[q] /\ launching'[q] = launching[q]
           /\ running'[q] = running[q] /\ doneCloses'[q] = doneCloses[q]
           /\ stopper'[q] = stopper[q] /\ freed'[q] = freed[q]
    PROVE  Sound(q)'
  BY DEF IInv, Sound, Loops

LEMMA ConstructorSound ==
    ASSUME IInv, NEW p \in Pipeline, New(p)
    PROVE  IInv'
  <1>1. TypeOK'
    BY DEF IInv, TypeOK, New, Set
  <1>2. ASSUME NEW q \in Pipeline PROVE Sound(q)'
    BY <1>2 DEF IInv, TypeOK, Sound, Loops, New, Set
  <1> QED
    BY <1>1, <1>2 DEF IInv

\* Start, its goroutine, and the end of the loop.
LEMMA LoopSound ==
    ASSUME IInv, NEW p \in Pipeline, Start(p) \/ Launch(p) \/ LoopReturns(p)
    PROVE  IInv'
  <1>1. CASE Start(p)
    <2>1. TypeOK'
      BY <1>1 DEF IInv, TypeOK, Start, Set
    <2>2. Sound(p)'
      <3>1. launching[p] = 0 /\ running[p] = 0 /\ doneCloses[p] = 0
        BY <1>1, Parts DEF IInv, Sound, Start
      <3>2. Loops(p)' = 1 /\ started'[p]
        BY <1>1, <3>1 DEF IInv, TypeOK, Loops, Start, Set
      <3>3. stopper[p] = "none" /\ ~freed[p] /\ built[p] /\ ~stopped[p]
        BY <1>1 DEF IInv, Sound, Start
      <3>4. UNCHANGED <<stopper, freed, built, stopped>>
        BY <1>1 DEF Start
      <3> QED
        BY <3>2, <3>3, <3>4 DEF Sound
    <2>3. ASSUME NEW q \in Pipeline, q # p PROVE Sound(q)'
      BY <1>1, <2>3, OthersSound DEF IInv, TypeOK, Start, Set
    <2> QED
      BY <2>1, <2>2, <2>3 DEF IInv
  <1>2. CASE Launch(p)
    <2>1. TypeOK'
      BY <1>2 DEF IInv, TypeOK, Launch, Set
    <2>2. ASSUME NEW q \in Pipeline PROVE Sound(q)'
      BY <1>2, <2>2 DEF IInv, TypeOK, Sound, Loops, Launch, Set
    <2> QED
      BY <2>1, <2>2 DEF IInv
  <1>3. CASE LoopReturns(p)
    <2>1. TypeOK'
      BY <1>3 DEF IInv, TypeOK, LoopReturns, Set
    <2>2. ASSUME NEW q \in Pipeline PROVE Sound(q)'
      BY <1>3, <2>2 DEF IInv, TypeOK, Sound, Loops, LoopReturns, Set
    <2> QED
      BY <2>1, <2>2 DEF IInv
  <1> QED
    BY <1>1, <1>2, <1>3

\* The steps of the Stop call that does the work.
LEMMA StopSound ==
    ASSUME IInv, NEW p \in Pipeline,
           Stop(p) \/ SignalStop(p) \/ AwaitLoop(p) \/ Free(p) \/ ZeroCapture(p)
    PROVE  IInv'
  <1>1. CASE Stop(p)
    <2>1. TypeOK'
      BY <1>1 DEF IInv, TypeOK, Stop, Set, StopPoints
    <2>2. Sound(p)'
      <3>1. stopper'[p] = "signal" /\ stopped'[p]
        BY <1>1 DEF IInv, TypeOK, Stop, Set
      <3>2. stopper[p] = "none" /\ ~freed[p] /\ built[p]
        BY <1>1 DEF IInv, Sound, Stop
      <3>3. UNCHANGED <<built, started, launching, running, doneCloses, freed>>
        BY <1>1 DEF Stop
      <3> QED
        BY <3>1, <3>2, <3>3 DEF IInv, Sound, Loops
    <2>3. ASSUME NEW q \in Pipeline, q # p PROVE Sound(q)'
      BY <1>1, <2>3, OthersSound DEF IInv, TypeOK, Stop, Set
    <2> QED
      BY <2>1, <2>2, <2>3 DEF IInv
  <1>2. CASE SignalStop(p)
    <2>1. TypeOK'
      BY <1>2 DEF IInv, TypeOK, SignalStop, Set, StopPoints
    <2>2. Sound(p)'
      <3>1. Loops(p)' = Loops(p) /\ UNCHANGED <<started, stopped, built, freed, launching, running>>
        BY <1>2 DEF Loops, SignalStop
      <3>2. stopper[p] = "signal" /\ stopped[p] /\ ~freed[p]
        BY <1>2 DEF IInv, Sound, SignalStop
      <3>3. stopper'[p] = IF started[p] THEN "wait" ELSE "free"
        BY <1>2 DEF IInv, TypeOK, SignalStop, Set
      <3>4. ~started[p] => launching[p] = 0 /\ running[p] = 0
        BY Parts DEF IInv, Sound
      <3>5. CASE started[p]
        BY <3>1, <3>2, <3>3, <3>5 DEF IInv, Sound
      <3>6. CASE ~started[p]
        BY <3>1, <3>2, <3>3, <3>4, <3>6 DEF IInv, Sound
      <3> QED
        BY <3>5, <3>6
    <2>3. ASSUME NEW q \in Pipeline, q # p PROVE Sound(q)'
      BY <1>2, <2>3, OthersSound DEF IInv, TypeOK, SignalStop, Set
    <2> QED
      BY <2>1, <2>2, <2>3 DEF IInv
  <1>3. CASE AwaitLoop(p)
    <2>1. TypeOK'
      BY <1>3 DEF IInv, TypeOK, AwaitLoop, Set, StopPoints
    <2>2. launching[p] = 0 /\ running[p] = 0
      BY <1>3, Parts DEF IInv, Sound, AwaitLoop
    <2>3. ASSUME NEW q \in Pipeline PROVE Sound(q)'
      BY <1>3, <2>2, <2>3 DEF IInv, TypeOK, Sound, Loops, AwaitLoop, Set
    <2> QED
      BY <2>1, <2>3 DEF IInv
  <1>4. CASE Free(p)
    <2>1. TypeOK'
      BY <1>4 DEF IInv, TypeOK, Free, Set, StopPoints
    <2>2. ASSUME NEW q \in Pipeline PROVE Sound(q)'
      BY <1>4, <2>2 DEF IInv, TypeOK, Sound, Loops, Free, Set
    <2> QED
      BY <2>1, <2>2 DEF IInv
  <1>5. CASE ZeroCapture(p)
    <2>1. TypeOK'
      BY <1>5 DEF IInv, TypeOK, ZeroCapture, Set, StopPoints
    <2>2. ASSUME NEW q \in Pipeline PROVE Sound(q)'
      BY <1>5, <2>2 DEF IInv, TypeOK, Sound, Loops, ZeroCapture, Set
    <2> QED
      BY <2>1, <2>2 DEF IInv
  <1> QED
    BY <1>1, <1>2, <1>3, <1>4, <1>5

LEMMA NextSound ==
    ASSUME IInv, [Next]_vars
    PROVE  IInv'
  <1>1. CASE UNCHANGED vars
    BY <1>1 DEF IInv, TypeOK, Sound, Loops, vars
  <1> QED
    BY <1>1, ConstructorSound, LoopSound, StopSound DEF Next

LEMMA Invariant == Spec => []IInv
  BY InitSound, NextSound, PTL DEF Spec

\* No second capture loop, whoever calls Start and Stop, so done is closed
\* once and no two goroutines share the FFmpeg contexts.
THEOREM SingleLoopCorrect == Spec => []SingleLoop
  <1>1. IInv => SingleLoop
    BY DEF IInv, SingleLoop, Sound, Loops
  <1> QED
    BY <1>1, Invariant, PTL

-----------------------------------------------------------------------------
(* The contract                                                            *)

\* A step that leaves every flag Phase looks at, or moves it for p alone.
LEMMA PhaseOfOthers ==
    ASSUME TypeOK, NEW p \in Pipeline, NEW to,
           Phase'[p] = to,
           \A q \in Pipeline \ {p} :
              /\ running'[q] = running[q] /\ freed'[q] = freed[q]
              /\ doneCloses'[q] = doneCloses[q] /\ built'[q] = built[q]
    PROVE  Phase' = [Phase EXCEPT ![p] = to]
  <1>1. \A q \in Pipeline \ {p} : Phase'[q] = Phase[q]
    BY DEF Phase
  <1>2. /\ Phase = [q \in Pipeline |-> Phase[q]]
        /\ Phase' = [q \in Pipeline |-> Phase'[q]]
    BY DEF Phase
  <1> QED
    BY <1>1, <1>2

LEMMA InitContract == Init => Contract!Init
  BY DEF Init, Contract!Init, Phase, Everywhere

\* Every step is one of the contract, or changes nothing its user sees.
LEMMA StepContract ==
    ASSUME IInv, [Next]_vars
    PROVE  [Contract!Next]_Phase
  <1>1. ASSUME UNCHANGED <<running, freed, doneCloses, built>>
        PROVE  UNCHANGED Phase
    BY <1>1 DEF Phase
  <1>2. ASSUME NEW p \in Pipeline, New(p) PROVE Contract!Next
    <2>1. ~freed[p] /\ running[p] = 0 /\ doneCloses[p] = 0
      BY <1>2, Parts DEF IInv, Sound, New
    <2>2. Phase[p] = "absent" /\ Phase'[p] = "ready"
      BY <1>2, <2>1 DEF IInv, TypeOK, Phase, New, Set
    <2>3. Phase' = [Phase EXCEPT ![p] = "ready"]
      BY <1>2, <2>2, PhaseOfOthers DEF IInv, TypeOK, New, Set
    <2> QED
      BY <2>2, <2>3 DEF Contract!Next, Contract!Build, Contract!Move
  <1>3. ASSUME NEW p \in Pipeline, Launch(p) PROVE Contract!Next
    <2>1. Loops(p) = 1 /\ built[p] /\ ~freed[p] /\ running[p] = 0 /\ doneCloses[p] = 0
      BY <1>3, Parts DEF IInv, Sound, Launch
    <2>2. Phase[p] = "ready" /\ Phase'[p] = "capturing"
      BY <1>3, <2>1 DEF IInv, TypeOK, Phase, Launch, Set
    <2>3. Phase' = [Phase EXCEPT ![p] = "capturing"]
      BY <1>3, <2>2, PhaseOfOthers DEF IInv, TypeOK, Launch, Set
    <2> QED
      BY <2>2, <2>3 DEF Contract!Next, Contract!Capture, Contract!Move
  <1>4. ASSUME NEW p \in Pipeline, LoopReturns(p) PROVE UNCHANGED Phase
    <2>1. ~freed[p] /\ doneCloses[p] \in Nat /\ Phase[p] = "capturing"
      BY <1>4 DEF IInv, TypeOK, Sound, Phase, LoopReturns
    <2>2. Phase'[p] = "capturing"
      BY <1>4, <2>1 DEF IInv, TypeOK, Phase, LoopReturns, Set
    <2>3. Phase' = [Phase EXCEPT ![p] = "capturing"]
      BY <1>4, <2>2, PhaseOfOthers DEF IInv, TypeOK, LoopReturns, Set
    <2> QED
      BY <2>1, <2>3 DEF Phase
  <1>5. ASSUME NEW p \in Pipeline, Free(p) PROVE Contract!Next
    <2>1. built[p] /\ ~freed[p] /\ running[p] = 0
      BY <1>5 DEF IInv, Sound, Free
    <2>2. Phase[p] \in {"ready", "capturing"} /\ Phase'[p] = "released"
      BY <1>5, <2>1 DEF IInv, TypeOK, Phase, Free, Set
    <2>3. Phase' = [Phase EXCEPT ![p] = "released"]
      BY <1>5, <2>2, PhaseOfOthers DEF IInv, TypeOK, Free, Set
    <2> QED
      BY <2>2, <2>3 DEF Contract!Next, Contract!Release, Contract!Move
  <1>6. ASSUME NEW p \in Pipeline,
               Start(p) \/ Stop(p) \/ SignalStop(p) \/ AwaitLoop(p) \/ ZeroCapture(p)
        PROVE  UNCHANGED Phase
    BY <1>1, <1>6 DEF Start, Stop, SignalStop, AwaitLoop, ZeroCapture
  <1>7. CASE UNCHANGED vars
    BY <1>1, <1>7 DEF vars
  <1> QED
    BY <1>2, <1>3, <1>4, <1>5, <1>6, <1>7 DEF Next

\* The pipelines implement the contract of video.Streamer: ready once, captured
\* at most once, released once, and never used again.
THEOREM ContractCorrect == Spec => ImplementsContract
  BY InitContract, Invariant, StepContract, PTL DEF Spec, ImplementsContract, Contract!Spec

-----------------------------------------------------------------------------
(***************************************************************************)
(* The FFmpeg calls of the capture loop meet only what is there, and what  *)
(* a pipeline allocated is freed: for any number of pipelines and any      *)
(* machine, source and requested encoder.                                  *)
(*                                                                         *)
(* What a call needs was made calls before it, or in an earlier turn of    *)
(* the loop.  The invariant therefore says for each point of the loop what *)
(* is there by then, and ties the points to the goroutine of Streamer: one *)
(* that runs is at a point of the loop, and its pipeline is not freed.     *)
(***************************************************************************)

LoopPoints == {"top", "read", "receive", "filter", "add", "get", "encoder",
               "send", "packet"}
BuiltPoints == LoopPoints \cup {"ready", "left"}

Placed(p) ==
    /\ built[p] <=> at[p] \in BuiltPoints
    /\ running[p] > 0 <=> at[p] \in LoopPoints
    /\ doneCloses[p] > 0 <=> at[p] = "left"

\* What newEncoder and the constructor make.
FromNewEncoder == {"filteredFrame", "encodePacket"}

Equipped(p) ==
    /\ at[p] \in {"absent", "failed"} \/ freed[p] => held[p] = {}
    /\ at[p] \notin BuiltPoints => opened[p] = {}
    /\ at[p] = "opening" \/ (at[p] \in BuiltPoints /\ ~freed[p])
          => FromNewEncoder \subseteq held[p] /\ (NeedsDevice => "device" \in held[p])
    /\ at[p] = "opening" => held[p] \subseteq EncoderObjects \ {"graph", "codec"}
    /\ at[p] \in BuiltPoints /\ ~freed[p]
          => InputObjects \subseteq held[p] /\ {"input", "decoder"} \subseteq opened[p]
    /\ at[p] # "left"
          => \A object \in {"graph", "codec"} : object \in held[p] => object \in opened[p]
    /\ at[p] \in {"add", "get", "encoder", "send", "packet"} => "graph" \in opened[p]
    /\ at[p] \in {"send", "packet"} => "codec" \in opened[p]

Published == capture # NoPipeline => stopper[capture] # "done"

EInv ==
    /\ IInv /\ EncoderTypeOK /\ Published
    /\ \A p \in Pipeline : Placed(p) /\ Equipped(p)

-----------------------------------------------------------------------------
(* The pipelines of Encoder are those of Streamer                          *)

LEMMA InitIsStreamer == EncoderInit => Init
  BY DEF EncoderInit

LEMMA StepIsStreamer ==
    ASSUME [EncoderNext]_allVars
    PROVE  [Next]_vars
  <1>1. CASE UNCHANGED allVars
    BY <1>1 DEF allVars
  <1>2. ASSUME NEW p \in Pipeline, Construct(p) PROVE [Next]_vars
    BY <1>2 DEF Construct, EncoderFails, NewEncoder, SourceFails, OpenSource, Next
  <1>3. ASSUME NEW p \in Pipeline, EnterLoop(p) PROVE [Next]_vars
    BY <1>3 DEF EnterLoop, Next
  <1>4. ASSUME NEW p \in Pipeline, LoopStep(p) PROVE [Next]_vars
    <2>1. UNCHANGED vars \/ LoopReturns(p)
      BY <1>4 DEF LoopStep, SeeStop, Proceed, ReadPacket, ReceiveFrame, NoFrame,
                  GraphExists, InitFilterGraph, FilterGraphFails, AddFrame,
                  GetFrame, NoFilteredFrame, EncoderExists, InitEncoder,
                  InitEncoderFails, SendFrame, WritePacket, NoPacket, Body, Leave
    <2> QED
      BY <2>1 DEF Next
  <1>5. ASSUME NEW p \in Pipeline, Finish(p) PROVE [Next]_vars
    BY <1>5 DEF Finish, FreeAll, Next
  <1>6. ASSUME NEW p \in Pipeline, Start(p) \/ Stop(p) PROVE [Next]_vars
    BY <1>6 DEF Next
  <1> QED
    BY <1>1, <1>2, <1>3, <1>4, <1>5, <1>6 DEF EncoderNext

\* What Encoder does is a behaviour of Streamer, so the theorems about the
\* single loop and the contract hold of it.
THEOREM EncoderUsesStreamer == EncoderSpec => Spec
  BY InitIsStreamer, StepIsStreamer, PTL DEF EncoderSpec, Spec

-----------------------------------------------------------------------------
LEMMA InitEquipped == EncoderInit => EInv
  <1> SUFFICES ASSUME EncoderInit PROVE EInv
    OBVIOUS
  <1>1. IInv /\ Published
    BY InitSound DEF EncoderInit, Init, Published
  <1>2. PICK c \in Configs : source = c.source /\ family = ResolveEncoder(c)
    BY DEF EncoderInit
  <1>3. c \in ConfigType
    BY ConfigsAssumption
  <1>4. source \in {"kmsgrab", "x11grab", "ddagrab"}
    BY <1>2, <1>3 DEF ConfigType
  <1>5. family \in Families \cup {NoFamily}
    BY <1>2, <1>3 DEF ConfigType, ResolveEncoder
  <1>6. EncoderTypeOK
    BY <1>4, <1>5 DEF EncoderInit, EncoderTypeOK, Everywhere
  <1>7. ASSUME NEW p \in Pipeline PROVE Placed(p) /\ Equipped(p)
    BY DEF EncoderInit, Init, Placed, Equipped, Everywhere, BuiltPoints, LoopPoints
  <1> QED
    BY <1>1, <1>6, <1>7 DEF EInv

\* What a step of p leaves of the other pipelines.
LEMMA OthersEquipped ==
    ASSUME EInv, NEW p \in Pipeline, NEW q \in Pipeline, q # p,
           UNCHANGED <<source, family>>,
           /\ built'[q] = built[q] /\ running'[q] = running[q]
           /\ doneCloses'[q] = doneCloses[q] /\ freed'[q] = freed[q]
           /\ at'[q] = at[q] /\ held'[q] = held[q] /\ opened'[q] = opened[q]
    PROVE  Placed(q)' /\ Equipped(q)'
  BY DEF EInv, Placed, Equipped, NeedsDevice

\* Only a Stop that zeroes the size it published is done.
LEMMA PublishedKept ==
    ASSUME EInv, NEW p \in Pipeline, 
           \/ UNCHANGED <<capture, stopper>>
           \/ New(p) \/ Stop(p) \/ SignalStop(p) \/ AwaitLoop(p) \/ Free(p) \/ ZeroCapture(p)
    PROVE  Published'
  <1>1. CASE New(p)
    BY <1>1 DEF EInv, IInv, TypeOK, Sound, Published, New, StopPoints
  <1>2. CASE UNCHANGED <<capture, stopper>> \/ ZeroCapture(p)
    BY <1>2 DEF EInv, Published, ZeroCapture
  <1>3. CASE Stop(p) \/ SignalStop(p) \/ AwaitLoop(p) \/ Free(p)
    BY <1>3 DEF EInv, IInv, TypeOK, Published, Stop, SignalStop, AwaitLoop, Free, Set
  <1> QED
    BY <1>1, <1>2, <1>3

-----------------------------------------------------------------------------
(* The shapes of a step of the capture goroutine                           *)

\* A goroutine at a point of the loop has its pipeline whole.
LEMMA InLoop ==
    ASSUME EInv, NEW p \in Pipeline, at[p] \in LoopPoints
    PROVE  ~freed[p] /\ built[p] /\ running[p] > 0 /\ doneCloses[p] = 0
  <1>1. running[p] > 0 /\ built[p]
    BY DEF EInv, Placed, BuiltPoints
  <1>2. ~freed[p]
    BY <1>1 DEF EInv, IInv, Sound
  <1>3. doneCloses[p] \in Nat /\ ~(doneCloses[p] > 0)
    BY DEF EInv, IInv, TypeOK, Placed, LoopPoints
  <1> QED
    BY <1>1, <1>2, <1>3

\* From one call to the next, with what this one has made.
LEMMA BodyKeeps ==
    ASSUME EInv, [EncoderNext]_allVars, NEW p \in Pipeline,
           NEW from \in LoopPoints, NEW to \in LoopPoints, Body(p, from, to),
           NEW has, NEW open,
           held' = Set(held, p, has), opened' = Set(opened, p, open),
           held[p] \subseteq has, has \subseteq InputObjects \cup EncoderObjects,
           opened[p] \subseteq open, open \subseteq has,
           \A object \in {"graph", "codec"} : object \in has => object \in open,
           to \in {"add", "get", "encoder", "send", "packet"} => "graph" \in open,
           to \in {"send", "packet"} => "codec" \in open
    PROVE  EInv'
  <1>1. at[p] = from /\ at' = Set(at, p, to) /\ UNCHANGED <<source, family, vars>>
    BY DEF Body, Goto, Keep
  <1>2. ~freed[p] /\ built[p] /\ running[p] > 0 /\ doneCloses[p] = 0
    BY <1>1, InLoop
  <1>3. IInv'
    BY StepIsStreamer, NextSound DEF EInv
  <1>4. EncoderTypeOK'
    BY <1>1 DEF EInv, EncoderTypeOK, Set, LoopPoints
  <1>5. Published'
    BY <1>1, PublishedKept DEF vars
  <1>6. at'[p] = to /\ held'[p] = has /\ opened'[p] = open
    BY <1>1 DEF EInv, EncoderTypeOK, Set
  <1>7. Placed(p)'
    BY <1>1, <1>2, <1>6 DEF Placed, BuiltPoints, LoopPoints, vars
  <1>8. Equipped(p)'
    <2>1. at[p] \in BuiltPoints /\ to \in BuiltPoints /\ freed'[p] = freed[p]
      BY <1>1 DEF BuiltPoints, vars
    <2>2. /\ FromNewEncoder \subseteq has /\ (NeedsDevice' => "device" \in has)
          /\ InputObjects \subseteq has /\ {"input", "decoder"} \subseteq open
      BY <1>1, <1>2, <2>1 DEF EInv, Equipped, NeedsDevice
    <2> QED
      BY <1>2, <1>6, <2>1, <2>2 DEF Equipped, LoopPoints
  <1>9. ASSUME NEW q \in Pipeline, q # p PROVE Placed(q)' /\ Equipped(q)'
    BY <1>1, <1>9, OthersEquipped DEF EInv, EncoderTypeOK, Set, vars
  <1> QED
    BY <1>3, <1>4, <1>5, <1>7, <1>8, <1>9 DEF EInv

\* The loop function returns, at whatever it has made.
LEMMA LeaveKeeps ==
    ASSUME EInv, [EncoderNext]_allVars, NEW p \in Pipeline,
           NEW from \in LoopPoints, Leave(p, from),
           NEW has, held' = Set(held, p, has), opened' = opened,
           held[p] \subseteq has, has \subseteq InputObjects \cup EncoderObjects
    PROVE  EInv'
  <1>1. at[p] = from /\ at' = Set(at, p, "left") /\ UNCHANGED <<source, family>> /\ LoopReturns(p)
    BY DEF Leave, Goto, Keep
  <1>2. ~freed[p] /\ built[p] /\ running[p] > 0 /\ doneCloses[p] = 0
    BY <1>1, InLoop
  <1>3. IInv'
    BY StepIsStreamer, NextSound DEF EInv
  <1>4. EncoderTypeOK'
    BY <1>1 DEF EInv, EncoderTypeOK, Set
  <1>5. Published'
    BY <1>1, PublishedKept DEF LoopReturns
  <1>6. at'[p] = "left" /\ held'[p] = has /\ UNCHANGED <<built, freed>>
    BY <1>1 DEF EInv, EncoderTypeOK, Set, LoopReturns
  <1>7. Placed(p)'
    <2>1. running[p] = 1
      BY <1>2 DEF EInv, IInv, TypeOK, Sound, Loops
    <2>2. running'[p] = 0 /\ doneCloses'[p] = 1
      BY <1>1, <1>2, <2>1 DEF EInv, IInv, TypeOK, LoopReturns, Set
    <2> QED
      BY <1>2, <1>6, <2>2 DEF Placed, BuiltPoints, LoopPoints
  <1>8. Equipped(p)'
    <2>1. at[p] \in BuiltPoints
      BY <1>1 DEF BuiltPoints
    <2>2. /\ FromNewEncoder \subseteq has /\ (NeedsDevice' => "device" \in has)
          /\ InputObjects \subseteq has /\ {"input", "decoder"} \subseteq opened[p]
      BY <1>1, <1>2, <2>1 DEF EInv, Equipped, NeedsDevice
    <2> QED
      BY <1>2, <1>6, <2>2 DEF Equipped, BuiltPoints
  <1>9. ASSUME NEW q \in Pipeline, q # p PROVE Placed(q)' /\ Equipped(q)'
    BY <1>1, <1>9, OthersEquipped DEF EInv, IInv, TypeOK, EncoderTypeOK, LoopReturns, Set
  <1> QED
    BY <1>3, <1>4, <1>5, <1>7, <1>8, <1>9 DEF EInv

-----------------------------------------------------------------------------
(* The steps                                                               *)

LEMMA ConstructKeeps ==
    ASSUME EInv, [EncoderNext]_allVars, NEW p \in Pipeline, Construct(p)
    PROVE  EInv'
  <1>1. IInv'
    BY StepIsStreamer, NextSound DEF EInv
  <1>2. at[p] \in {"absent", "opening"} /\ UNCHANGED <<source, family>>
    BY DEF Construct, EncoderFails, NewEncoder, SourceFails, OpenSource, Keep
  <1>3. /\ ~built[p] /\ ~freed[p] /\ running[p] = 0 /\ doneCloses[p] = 0
        /\ opened[p] = {}
    BY <1>2, Parts DEF EInv, IInv, Sound, Placed, Equipped, BuiltPoints, LoopPoints
  <1>4. CASE EncoderFails(p) \/ NewEncoder(p) \/ SourceFails(p)
    <2>1. PICK has, to : /\ held' = Set(held, p, has) /\ at' = Set(at, p, to)
                         /\ \/ to = "failed" /\ has = {}
                            \/ /\ to = "opening"
                               /\ has = FromNewEncoder \cup IF NeedsDevice THEN {"device"} ELSE {}
      <3>1. CASE EncoderFails(p)
        BY <3>1 DEF EncoderFails, EncoderFree, EncoderObjects, Goto
      <3>2. CASE NewEncoder(p)
        BY <3>2 DEF NewEncoder, FromNewEncoder, Goto
      <3>3. CASE SourceFails(p)
        <4>1. PICK partial \in {{}, {"input"}, {"input", "decoder"}} :
                held' = Set(held, p, EncoderFree(FreeInputDecode(held[p] \cup partial)))
          BY <3>3 DEF SourceFails
        <4>2. EncoderFree(FreeInputDecode(held[p] \cup partial)) = {}
          BY DEF EInv, EncoderTypeOK, EncoderFree, FreeInputDecode, InputObjects
        <4> QED
          BY <3>3, <4>1, <4>2 DEF SourceFails, Goto
      <3> QED
        BY <1>4, <3>1, <3>2, <3>3
    <2>2. UNCHANGED <<vars, opened>>
      BY <1>4 DEF EncoderFails, NewEncoder, SourceFails
    <2>3. has \subseteq EncoderObjects \ {"graph", "codec"}
      BY <2>1 DEF FromNewEncoder, EncoderObjects
    <2>4. EncoderTypeOK'
      BY <1>2, <1>3, <2>1, <2>2, <2>3 DEF EInv, EncoderTypeOK, Set
    <2>5. Published'
      BY <2>2, PublishedKept DEF vars
    <2>6. at'[p] = to /\ held'[p] = has /\ opened'[p] = {}
      BY <1>3, <2>1, <2>2 DEF EInv, EncoderTypeOK, Set
    <2>7. Placed(p)'
      BY <1>3, <2>1, <2>2, <2>6 DEF Placed, BuiltPoints, LoopPoints, vars
    <2>8. Equipped(p)'
      BY <1>2, <1>3, <2>1, <2>2, <2>3, <2>6
         DEF Equipped, BuiltPoints, LoopPoints, NeedsDevice, vars
    <2>9. ASSUME NEW q \in Pipeline, q # p PROVE Placed(q)' /\ Equipped(q)'
      BY <1>2, <2>1, <2>2, <2>9, OthersEquipped DEF EInv, EncoderTypeOK, Set, vars
    <2> QED
      BY <1>1, <2>4, <2>5, <2>7, <2>8, <2>9 DEF EInv
  <1>5. CASE OpenSource(p)
    <2>1. /\ at[p] = "opening" /\ at' = Set(at, p, "ready") /\ New(p)
          /\ held' = Set(held, p, held[p] \cup InputObjects)
          /\ opened' = Set(opened, p, {"input", "decoder"})
      BY <1>5 DEF OpenSource, Goto
    <2>2. EncoderTypeOK'
      BY <1>2, <2>1 DEF EInv, EncoderTypeOK, InputObjects, Set
    <2>3. Published'
      BY <2>1, PublishedKept
    <2>4. /\ at'[p] = "ready" /\ held'[p] = held[p] \cup InputObjects
          /\ opened'[p] = {"input", "decoder"} /\ built'[p]
          /\ UNCHANGED <<freed, running, doneCloses>>
      BY <2>1 DEF EInv, IInv, TypeOK, EncoderTypeOK, New, Set
    <2>5. Placed(p)'
      BY <1>3, <2>4 DEF Placed, BuiltPoints, LoopPoints
    <2>6. Equipped(p)'
      <3>1. /\ FromNewEncoder \subseteq held[p] /\ (NeedsDevice => "device" \in held[p])
            /\ held[p] \subseteq EncoderObjects \ {"graph", "codec"}
        BY <2>1 DEF EInv, Equipped
      <3> QED
        BY <1>2, <1>3, <2>4, <3>1
           DEF Equipped, BuiltPoints, LoopPoints, NeedsDevice, InputObjects
    <2>7. ASSUME NEW q \in Pipeline, q # p PROVE Placed(q)' /\ Equipped(q)'
      BY <1>2, <2>1, <2>7, OthersEquipped DEF EInv, IInv, TypeOK, EncoderTypeOK, New, Set
    <2> QED
      BY <1>1, <2>2, <2>3, <2>5, <2>6, <2>7 DEF EInv
  <1> QED
    BY <1>4, <1>5 DEF Construct

\* Nobody touches the pipeline between the constructor and the loop.
LEMMA EnterKeeps ==
    ASSUME EInv, [EncoderNext]_allVars, NEW p \in Pipeline, EnterLoop(p)
    PROVE  EInv'
  <1>1. /\ Launch(p) /\ at' = Set(at, p, "top")
        /\ UNCHANGED <<source, family, held, opened>>
    BY DEF EnterLoop, Goto, Keep
  <1>2. built[p] /\ ~freed[p] /\ running[p] = 0 /\ doneCloses[p] = 0
    BY <1>1, Parts DEF EInv, IInv, Sound, Launch
  <1>3. at[p] = "ready"
    BY <1>2 DEF EInv, Placed, BuiltPoints
  <1>4. IInv'
    BY StepIsStreamer, NextSound DEF EInv
  <1>5. EncoderTypeOK' /\ Published'
    BY <1>1, PublishedKept DEF EInv, EncoderTypeOK, Launch, Set
  <1>6. /\ at'[p] = "top" /\ running'[p] = 1
        /\ UNCHANGED <<built, freed, doneCloses>>
    BY <1>1, <1>2 DEF EInv, IInv, TypeOK, EncoderTypeOK, Launch, Set
  <1>7. Placed(p)'
    BY <1>2, <1>6 DEF Placed, BuiltPoints, LoopPoints
  <1>8. Equipped(p)'
    BY <1>1, <1>2, <1>3, <1>6 DEF EInv, Equipped, BuiltPoints, LoopPoints, NeedsDevice
  <1>9. ASSUME NEW q \in Pipeline, q # p PROVE Placed(q)' /\ Equipped(q)'
    BY <1>1, <1>9, OthersEquipped DEF EInv, IInv, TypeOK, EncoderTypeOK, Launch, Set
  <1> QED
    BY <1>4, <1>5, <1>7, <1>8, <1>9 DEF EInv

\* What is there at a point of the loop.
LEMMA AtPoint ==
    ASSUME EInv, NEW p \in Pipeline, at[p] \in LoopPoints
    PROVE  /\ held = Set(held, p, held[p]) /\ opened = Set(opened, p, opened[p])
           /\ held[p] \subseteq InputObjects \cup EncoderObjects
           /\ opened[p] \subseteq held[p]
           /\ \A object \in {"graph", "codec"} :
                 object \in held[p] => object \in opened[p]
           /\ at[p] \in {"add", "get", "encoder", "send", "packet"} => "graph" \in opened[p]
           /\ at[p] \in {"send", "packet"} => "codec" \in opened[p]
  <1>1. held = Set(held, p, held[p]) /\ opened = Set(opened, p, opened[p])
    BY DEF EInv, EncoderTypeOK, Set
  <1>2. at[p] # "left"
    BY DEF LoopPoints
  <1> QED
    BY <1>1, <1>2 DEF EInv, EncoderTypeOK, Equipped

LEMMA LoopStepKeeps ==
    ASSUME EInv, [EncoderNext]_allVars, NEW p \in Pipeline, LoopStep(p)
    PROVE  EInv'
  <1>1. CASE Proceed(p) \/ ReceiveFrame(p) \/ NoFrame(p) \/ GraphExists(p)
             \/ AddFrame(p) \/ GetFrame(p) \/ NoFilteredFrame(p)
             \/ EncoderExists(p) \/ SendFrame(p) \/ WritePacket(p) \/ NoPacket(p)
             \/ \E to \in {"receive", "top"} :
                   Body(p, "read", to) /\ UNCHANGED <<held, opened>>
    <2>1. PICK from \in LoopPoints, to \in LoopPoints :
             /\ Body(p, from, to) /\ UNCHANGED <<held, opened>>
             /\ to \in {"add", "get", "encoder", "send", "packet"}
                   => \/ from \in {"add", "get", "encoder", "send", "packet"}
                      \/ "graph" \in held[p]
             /\ to \in {"send", "packet"}
                   => from \in {"send", "packet"} \/ "codec" \in held[p]
      BY <1>1 DEF LoopPoints, Proceed, ReceiveFrame, NoFrame, GraphExists, AddFrame,
                  GetFrame, NoFilteredFrame, EncoderExists, SendFrame, WritePacket, NoPacket
    <2>2. at[p] = from
      BY <2>1 DEF Body
    <2> QED
      BY <2>1, <2>2, AtPoint, BodyKeeps
  <1>2. CASE \/ SeeStop(p)
             \/ Leave(p, "read") /\ UNCHANGED <<held, opened>>
    <2>1. PICK from \in {"top", "read"} : Leave(p, from) /\ UNCHANGED <<held, opened>>
      BY <1>2 DEF SeeStop
    <2>2. at[p] = from /\ from \in LoopPoints
      BY <2>1 DEF Leave, LoopPoints
    <2> QED
      BY <2>1, <2>2, AtPoint, LeaveKeeps
  <1>3. CASE InitFilterGraph(p)
    <2>1. at[p] = "filter" /\ "filter" \in LoopPoints /\ "add" \in LoopPoints
      BY <1>3 DEF InitFilterGraph, Body, LoopPoints
    <2>2. /\ Body(p, "filter", "add")
          /\ held' = Set(held, p, held[p] \cup {"graph"})
          /\ opened' = Set(opened, p, opened[p] \cup {"graph"})
      BY <1>3 DEF InitFilterGraph
    <2> QED
      BY <2>1, <2>2, AtPoint, BodyKeeps DEF EncoderObjects
  <1>4. CASE InitEncoder(p)
    <2>1. at[p] = "encoder" /\ "encoder" \in LoopPoints /\ "send" \in LoopPoints
      BY <1>4 DEF InitEncoder, Body, LoopPoints
    <2>2. /\ Body(p, "encoder", "send")
          /\ held' = Set(held, p, held[p] \cup {"codec"})
          /\ opened' = Set(opened, p, opened[p] \cup {"codec"})
      BY <1>4 DEF InitEncoder
    <2> QED
      BY <2>1, <2>2, AtPoint, BodyKeeps DEF EncoderObjects
  <1>5. CASE FilterGraphFails(p)
    <2>1. at[p] = "filter" /\ "filter" \in LoopPoints
      BY <1>5 DEF FilterGraphFails, Leave, LoopPoints
    <2> QED
      BY <1>5, <2>1, AtPoint, LeaveKeeps DEF FilterGraphFails, EncoderObjects
  <1>6. CASE InitEncoderFails(p)
    <2>1. at[p] = "encoder" /\ "encoder" \in LoopPoints
      BY <1>6 DEF InitEncoderFails, Leave, LoopPoints
    <2> QED
      BY <1>6, <2>1, AtPoint, LeaveKeeps DEF InitEncoderFails, EncoderObjects
  <1> QED
    BY <1>1, <1>2, <1>3, <1>4, <1>5, <1>6 DEF LoopStep, ReadPacket

\* Start, and the steps of Stop: what the pipeline holds goes with Free, and
\* not before the loop is over.
LEMMA CallsKeep ==
    ASSUME EInv, [EncoderNext]_allVars, NEW p \in Pipeline,
           Finish(p) \/ ((Start(p) \/ Stop(p)) /\ UNCHANGED loopVars)
    PROVE  EInv'
  <1>1. IInv'
    BY StepIsStreamer, NextSound DEF EInv
  <1>2. Published'
    BY PublishedKept DEF Finish, FreeAll, Start
  <1>3. CASE UNCHANGED loopVars /\ ~FreeAll(p)
    <2>1. UNCHANGED <<source, family, at, held, opened, built, running, doneCloses, freed>>
      BY <1>3 DEF Finish, loopVars, Start, Stop, SignalStop, AwaitLoop, ZeroCapture
    <2>2. EncoderTypeOK'
      BY <2>1 DEF EInv, EncoderTypeOK
    <2>3. \A q \in Pipeline : Placed(q)' /\ Equipped(q)'
      BY <2>1 DEF EInv, Placed, Equipped, NeedsDevice
    <2> QED
      BY <1>1, <1>2, <2>2, <2>3 DEF EInv
  <1>4. CASE FreeAll(p)
    <2>1. /\ Free(p) /\ UNCHANGED <<source, family, at>>
          /\ held' = Set(held, p, EncoderFree(FreeInputDecode(held[p])))
          /\ opened' = Set(opened, p, {})
      BY <1>4 DEF FreeAll
    <2>2. EncoderFree(FreeInputDecode(held[p])) = {}
      BY DEF EInv, EncoderTypeOK, EncoderFree, FreeInputDecode
    <2>3. EncoderTypeOK'
      BY <2>1, <2>2 DEF EInv, EncoderTypeOK, Set
    <2>4. /\ held'[p] = {} /\ opened'[p] = {} /\ freed'[p]
          /\ UNCHANGED <<built, running, doneCloses>>
      BY <2>1, <2>2 DEF EInv, IInv, TypeOK, EncoderTypeOK, Free, Set
    <2>5. at[p] \in {"ready", "left"}
      BY <2>1 DEF EInv, IInv, TypeOK, Sound, Placed, BuiltPoints, Free
    <2>6. Placed(p)'
      BY <2>1, <2>4 DEF EInv, Placed
    <2>7. Equipped(p)'
      BY <2>1, <2>4, <2>5 DEF Equipped
    <2>8. ASSUME NEW q \in Pipeline, q # p PROVE Placed(q)' /\ Equipped(q)'
      BY <2>1, <2>8, OthersEquipped DEF EInv, IInv, TypeOK, EncoderTypeOK, Free, Set
    <2> QED
      BY <1>1, <1>2, <2>3, <2>6, <2>7, <2>8 DEF EInv
  <1> QED
    BY <1>3, <1>4 DEF Finish

LEMMA EncoderStepKeeps ==
    ASSUME EInv, [EncoderNext]_allVars
    PROVE  EInv'
  <1>1. CASE UNCHANGED allVars
    <2>1. IInv'
      BY StepIsStreamer, NextSound DEF EInv
    <2>2. UNCHANGED <<built, running, doneCloses, freed, capture, stopper>>
          /\ UNCHANGED <<source, family, at, held, opened>>
      BY <1>1 DEF allVars, vars, loopVars
    <2>3. EncoderTypeOK' /\ Published'
      BY <2>2 DEF EInv, EncoderTypeOK, Published
    <2>4. \A p \in Pipeline : Placed(p)' /\ Equipped(p)'
      BY <2>2 DEF EInv, Placed, Equipped, NeedsDevice
    <2> QED
      BY <2>1, <2>3, <2>4 DEF EInv
  <1>2. CASE EncoderNext
    <2>1. PICK p \in Pipeline : \/ Construct(p) \/ EnterLoop(p) \/ LoopStep(p) \/ Finish(p)
                               \/ ((Start(p) \/ Stop(p)) /\ UNCHANGED loopVars)
      BY <1>2 DEF EncoderNext
    <2> QED
      BY <2>1, ConstructKeeps, EnterKeeps, LoopStepKeeps, CallsKeep
  <1> QED
    BY <1>1, <1>2

LEMMA EncoderInvariant == EncoderSpec => []EInv
  BY InitEquipped, EncoderStepKeeps, PTL DEF EncoderSpec

-----------------------------------------------------------------------------
(* The theorems                                                            *)

\* A chain uploads only for a source without hardware frames and an encoder
\* that wants them, and newEncoder makes the device just then.
LEMMA UploadsNeedDevice ==
    ASSUME EncoderTypeOK, Uploads
    PROVE  NeedsDevice
  <1>1. PICK i \in DOMAIN FilterChain(source, family) :
           FilterChain(source, family)[i] = "hwupload"
    BY DEF Uploads
  <1>2. source \in {"kmsgrab", "x11grab", "ddagrab"}
        /\ family \in {"vaapi", "nvenc", "libx264", "amf", "mf", "none"}
    BY DEF EncoderTypeOK, Families, LinuxFamilies, WindowsFamilies, NoFamily
  <1>3. source = "x11grab" /\ family \in {"vaapi", "nvenc"}
    BY <1>1, <1>2 DEF FilterChain
  <1> QED
    BY <1>3 DEF NeedsDevice, HardwareInput

\* The FFmpeg calls of the loop meet what they need, whatever failed before and
\* whoever stops the pipeline.
THEOREM CallsCorrect == EncoderSpec => []CallsAreReady
  <1>1. ASSUME EInv, NEW p \in Pipeline
        PROVE  Exist(at[p]) \subseteq held[p] /\ Open(at[p]) \subseteq opened[p]
    <2>1. CASE at[p] \in LoopPoints
      <3>1. /\ FromNewEncoder \subseteq held[p] /\ InputObjects \subseteq held[p]
            /\ {"input", "decoder"} \subseteq opened[p]
        BY <1>1, <2>1, InLoop DEF EInv, Equipped, BuiltPoints
      <3>2. /\ at[p] \in {"add", "get", "encoder", "send", "packet"} => "graph" \in opened[p]
            /\ at[p] \in {"send", "packet"} => "codec" \in opened[p]
        BY <1>1, <2>1, AtPoint
      <3> QED
        BY <3>1, <3>2 DEF Exist, Open, FromNewEncoder, InputObjects
    <2>2. CASE at[p] \notin LoopPoints
      BY <2>2 DEF Exist, Open, LoopPoints
    <2> QED
      BY <2>1, <2>2
  <1>2. ASSUME EInv, NEW p \in Pipeline, at[p] = "filter", Uploads
        PROVE  "device" \in held[p]
    <2>1. at[p] \in BuiltPoints /\ ~freed[p]
      BY <1>2, InLoop DEF BuiltPoints, LoopPoints
    <2> QED
      BY <1>2, <2>1, UploadsNeedDevice DEF EInv, Equipped
  <1>3. EInv => CallsAreReady
    BY <1>1, <1>2 DEF EInv, CallsAreReady
  <1> QED
    BY <1>3, EncoderInvariant, PTL

\* Nothing is kept after a failed constructor or a finished Stop, nor is the
\* published size.
THEOREM NothingHeldCorrect == EncoderSpec => []NothingHeld
  <1>1. EInv => NothingHeld
    BY DEF EInv, IInv, Sound, Equipped, Published, NothingHeld
  <1> QED
    BY <1>1, EncoderInvariant, PTL
=============================================================================
