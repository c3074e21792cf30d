---------------------------- MODULE TabletProofs ----------------------------
(***************************************************************************)
(* The Linux pen: the state every handler keeps, the frames a handler      *)
(* emits, and the pen as the sessions share it.                            *)
(***************************************************************************)
EXTENDS Sharing, HoverTicks, TLAPS

-----------------------------------------------------------------------------
(***************************************************************************)
(* Theorems about Tablet for every set of buttons, pressures and timers.   *)
(* A handler composes a few steps on the device record; every step keeps   *)
(* the record Sound, so every handler does.                                *)
(***************************************************************************)

Mirrors(d) ==
    /\ d.kernel.tool = d.inRange
    /\ d.kernel.touch = d.tipDown
    /\ d.tipDown => d.inRange

TimerOwned(d) ==
    /\ d.armed \subseteq {d.keepAlive}
    /\ d.keepAlive # NoTimer => KeepAliveOn /\ Hovering(d)

\* What every step shared by the handlers keeps.
Sound(d) == d \in DeviceState /\ Mirrors(d) /\ TimerOwned(d)

\* The inductive invariant: neither the mirror of the contact nor the
\* ownership of the timer is inductive alone, dropTip's early return needs the
\* first and its stopKeepAlive the second.
IInv == Sound(pen) /\ fired \in 0..MaxFired

-----------------------------------------------------------------------------
(* The steps                                                               *)

\* e is d after a frame of the kernel state k with distance x and pressure p.
FrameOn(e, d, k, x, p) ==
    /\ e \in DeviceState
    /\ e.kernel \in KernelState
    /\ e.kernel.tool = k.tool
    /\ e.kernel.touch = k.touch
    /\ e.kernel.distance = x
    /\ e.kernel.pressure = p
    /\ e.frames = Append(d.frames, e.kernel)
    /\ e.inRange = d.inRange
    /\ e.tipDown = d.tipDown
    /\ e.keepAlive = d.keepAlive
    /\ e.armed = d.armed

\* e is d after nothing, or after one frame, the compositor sees.
Quiet(e, d) == e.kernel = d.kernel /\ e.frames = d.frames

OneFrame(e, d) ==
    /\ e.kernel \in KernelState
    /\ PenStep(d.kernel, e.kernel)
    /\ e.frames = Append(d.frames, e.kernel)

\* emitFrame changes the kernel's view and adds one frame, nothing else.
LEMMA EmitFrameFields ==
    ASSUME NEW d \in DeviceState, NEW k \in KernelState,
           NEW x \in {0, HoverDist, HoverDist + 1}, NEW p \in 0..PressureMax
    PROVE  FrameOn(EmitFrame(d, k, x, p), d, k, x, p)
  <1> DEFINE n == [k EXCEPT !.distance = x, !.pressure = p]
  <1>1. n \in KernelState /\ n.tool = k.tool /\ n.touch = k.touch
        /\ n.distance = x /\ n.pressure = p
    BY DEF KernelState
  <1> HIDE DEF n
  <1>2. Append(d.frames, n) \in Seq(KernelState)
    BY <1>1 DEF DeviceState
  <1>3. EmitFrame(d, k, x, p) = [d EXCEPT !.kernel = n, !.frames = Append(d.frames, n)]
    BY DEF EmitFrame, Sync, n
  <1>4. EmitFrame(d, k, x, p) \in DeviceState
    BY <1>1, <1>2, <1>3 DEF DeviceState
  <1> QED
    BY <1>1, <1>3, <1>4 DEF DeviceState, FrameOn

\* The axes are legal values, whatever the pressure.
LEMMA AxisValues ==
    /\ 0 \in 0..PressureMax
    /\ HoverDist \in {0, HoverDist, HoverDist + 1}
    /\ HoverDist + 1 \in {0, HoverDist, HoverDist + 1}
    /\ 0 \in {0, HoverDist, HoverDist + 1}
  BY DEF PressureMax

\* stopKeepAlive leaves no timer behind and does not touch the contact.
LEMMA StopKeepAliveSound ==
    ASSUME NEW d, Sound(d)
    PROVE  LET s == StopKeepAlive(d)
           IN  /\ Sound(s)
               /\ s.keepAlive = NoTimer /\ s.armed = {}
               /\ s.inRange = d.inRange /\ s.tipDown = d.tipDown
               /\ s.kernel = d.kernel /\ s.frames = d.frames
               /\ s.pressure = d.pressure
  <1>1. /\ d \in DeviceState
        /\ d.armed \ {d.keepAlive} = {}
    BY DEF Sound, TimerOwned
  <1>2. StopKeepAlive(d) = [d EXCEPT !.keepAlive = NoTimer, !.armed = {}]
    BY <1>1 DEF StopKeepAlive
  <1> QED
    BY <1>1, <1>2 DEF Sound, Mirrors, TimerOwned, DeviceState, Hovering

\* emitHover and emitKeepAlive only move the axes.
LEMMA HoverFrameSound ==
    ASSUME NEW d, Sound(d), NEW x \in {HoverDist, HoverDist + 1}
    PROVE  /\ Sound(EmitFrame(d, d.kernel, x, 0))
           /\ FrameOn(EmitFrame(d, d.kernel, x, 0), d, d.kernel, x, 0)
           /\ ~d.tipDown => OneFrame(EmitFrame(d, d.kernel, x, 0), d)
  <1> DEFINE e == EmitFrame(d, d.kernel, x, 0)
  <1>1. d \in DeviceState /\ d.kernel \in KernelState
    BY DEF Sound, DeviceState
  <1>2. FrameOn(e, d, d.kernel, x, 0)
    BY <1>1, AxisValues, EmitFrameFields, Zenon
  <1> HIDE DEF e
  <1>3. Mirrors(e) /\ TimerOwned(e)
    BY <1>2 DEF Sound, Mirrors, TimerOwned, Hovering, FrameOn
  <1>4. Sound(e)
    BY <1>2, <1>3 DEF Sound, FrameOn
  <1>5. ~d.tipDown => OneFrame(e, d)
    BY <1>2 DEF FrameOn, OneFrame, PenStep, HoverDist, Sound, Mirrors
  <1> QED
    BY <1>2, <1>4, <1>5 DEF e

LEMMA TipPressureInRange ==
    ASSUME NEW d \in DeviceState
    PROVE  TipPressure(d) \in 0..PressureMax /\ TipPressure(d) >= TipFloor
  <1> DEFINE q == d.pressure
  <1>1. q \in 0..4096
    BY DEF DeviceState, PressureMax
  <1>2. TipPressure(d) = IF q > 256 THEN q ELSE 256
    BY DEF TipPressure, TipFloor
  <1> HIDE DEF q
  <1>3. TipPressure(d) \in 0..4096 /\ TipPressure(d) \in Int /\ 256 <= TipPressure(d)
    BY <1>1, <1>2
  <1> QED
    BY <1>3 DEF TipFloor, PressureMax

LEMMA SetPenSound ==
    ASSUME NEW d, Sound(d), NEW p \in RawPressure \cup {Absent}
    PROVE  /\ Sound(SetPen(d, p))
           /\ SetPen(d, p).inRange = d.inRange
           /\ SetPen(d, p).tipDown = d.tipDown
           /\ SetPen(d, p).kernel = d.kernel
           /\ SetPen(d, p).frames = d.frames
  <1> DEFINE q == IF p = Absent THEN 0 ELSE Clamp(p)
  <1>1. q \in 0..PressureMax
    BY PressureAssumption DEF Clamp, PressureMax
  <1>2. SetPen(d, p) = [d EXCEPT !.pressure = q]
    BY DEF SetPen
  <1> HIDE DEF q
  <1> QED
    BY <1>1, <1>2 DEF Sound, Mirrors, TimerOwned, DeviceState, Hovering

LEMMA ProximityInSound ==
    ASSUME NEW d, Sound(d), ~d.inRange
    PROVE  /\ Sound(ProximityIn(d))
           /\ ProximityIn(d).inRange /\ ~ProximityIn(d).tipDown
           /\ OneFrame(ProximityIn(d), d)
  <1> DEFINE k == [d.kernel EXCEPT !.tool = TRUE]
             e == EmitFrame(d, k, HoverDist, 0)
  <1>1. d \in DeviceState /\ d.kernel \in KernelState /\ 0 \in 0..PressureMax
    BY DEF Sound, DeviceState, PressureMax
  <1>2. k \in KernelState /\ k.tool = TRUE /\ k.touch = d.kernel.touch
    BY <1>1 DEF KernelState
  <1>3. /\ d.tipDown = FALSE /\ d.kernel.touch = FALSE
        /\ d.keepAlive = NoTimer /\ d.armed \subseteq {NoTimer}
    BY <1>1 DEF Sound, Mirrors, TimerOwned, Hovering, DeviceState
  <1>4. d.armed = {}
    BY <1>1, <1>3, TimerAssumption DEF DeviceState
  <1> HIDE DEF k
  <1>5. /\ e \in DeviceState
        /\ e.kernel.tool = TRUE /\ e.kernel.touch = FALSE
        /\ e.tipDown = FALSE
        /\ e.keepAlive = NoTimer /\ e.armed = {}
        /\ OneFrame(e, d)
    <2>1. FrameOn(e, d, k, HoverDist, 0)
      BY <1>1, <1>2, AxisValues, EmitFrameFields, Zenon
    <2> HIDE DEF e
    <2>2. OneFrame(e, d)
      BY <1>2, <1>3, <2>1 DEF FrameOn, OneFrame, PenStep, HoverDist
    <2> QED
      BY <1>2, <1>3, <1>4, <2>1, <2>2 DEF FrameOn
  <1>6. ProximityIn(d) = [e EXCEPT !.inRange = TRUE]
    BY DEF ProximityIn, k
  <1> HIDE DEF e
  <1> DEFINE f == [e EXCEPT !.inRange = TRUE]
  <1>7. /\ f \in DeviceState
        /\ f.inRange = TRUE /\ f.tipDown = e.tipDown /\ Quiet(f, e)
        /\ f.keepAlive = NoTimer /\ f.armed = {}
    BY <1>5 DEF DeviceState, Quiet
  <1>8. ProximityIn(d) = f
    BY <1>6
  <1> HIDE DEF f
  <1>9. Sound(f) /\ f.inRange /\ ~f.tipDown /\ OneFrame(f, d)
    BY <1>5, <1>7 DEF Sound, Mirrors, TimerOwned, Quiet, OneFrame
  <1> QED
    BY <1>8, <1>9

\* proximityOut releases tip and tool and stops the timer.
LEMMA ProximityOutSound ==
    ASSUME NEW d, Sound(d)
    PROVE  /\ Sound(ProximityOut(d))
           /\ ~ProximityOut(d).inRange
           /\ ~ProximityOut(d).kernel.tool /\ ~ProximityOut(d).kernel.touch
           /\ ~d.tipDown => OneFrame(ProximityOut(d), d)
  <1> DEFINE s == StopKeepAlive(d)
             k == [s.kernel EXCEPT !.touch = IF s.tipDown THEN FALSE ELSE @, !.tool = FALSE]
             c == [s EXCEPT !.tipDown = FALSE, !.inRange = FALSE]
  <1>1. Sound(s) /\ s.keepAlive = NoTimer /\ s.armed = {} /\ Quiet(s, d)
        /\ s.tipDown = d.tipDown
    BY StopKeepAliveSound DEF Quiet
  <1>2. s \in DeviceState /\ s.kernel \in KernelState /\ (~s.tipDown => s.kernel.touch = FALSE)
    BY <1>1 DEF Sound, DeviceState, KernelState, Mirrors
  <1> HIDE DEF s
  <1>3. k \in KernelState /\ k.tool = FALSE /\ k.touch = FALSE
    BY <1>2 DEF KernelState
  <1>4. /\ c \in DeviceState
        /\ c.tipDown = FALSE /\ c.inRange = FALSE
        /\ c.keepAlive = NoTimer /\ c.armed = {} /\ c.frames = s.frames
    BY <1>1, <1>2 DEF DeviceState
  <1>5. ProximityOut(d) = Sync(c, k)
    BY DEF ProximityOut, s
  <1> HIDE DEF c, k
  <1>6. Append(c.frames, k) \in Seq(KernelState)
    BY <1>3, <1>4 DEF DeviceState
  <1>7. /\ Sync(c, k) \in DeviceState
        /\ Sync(c, k).kernel = k
        /\ Sync(c, k).tipDown = FALSE /\ Sync(c, k).inRange = FALSE
        /\ Sync(c, k).keepAlive = NoTimer /\ Sync(c, k).armed = {}
        /\ Sync(c, k).frames = Append(c.frames, k)
    BY <1>3, <1>4, <1>6 DEF Sync, DeviceState
  <1>8. ~d.tipDown => OneFrame(Sync(c, k), d)
    BY <1>1, <1>2, <1>3, <1>4, <1>7 DEF OneFrame, PenStep, Quiet
  <1>9. Sound(Sync(c, k))
    BY <1>3, <1>7 DEF Sound, Mirrors, TimerOwned, Hovering
  <1> QED
    BY <1>3, <1>5, <1>7, <1>8, <1>9

\* dropTip: the tool is in proximity already.
LEMMA DropTipSound ==
    ASSUME NEW d, Sound(d), d.inRange
    PROVE  /\ Sound(DropTip(d)) /\ DropTip(d).tipDown /\ DropTip(d).inRange
           /\ IF d.tipDown THEN Quiet(DropTip(d), d) ELSE OneFrame(DropTip(d), d)
  <1>1. CASE d.tipDown
    BY <1>1 DEF DropTip, Quiet
  <1>2. CASE ~d.tipDown
    <2> DEFINE s == StopKeepAlive(d)
               k == WithTouch(s, TRUE)
               e == EmitFrame(s, k, 0, TipPressure(s))
    <2>1. Sound(s) /\ s.keepAlive = NoTimer /\ s.armed = {} /\ s.inRange = d.inRange
          /\ Quiet(s, d)
      BY StopKeepAliveSound DEF Quiet
    <2>2. s \in DeviceState /\ s.kernel \in KernelState /\ s.kernel.tool = s.inRange
          /\ s.inRange = TRUE
      BY <2>1 DEF Sound, DeviceState, Mirrors
    <2> HIDE DEF s
    <2>3. k \in KernelState /\ k.touch = TRUE /\ k.tool = s.kernel.tool
      BY <2>2 DEF WithTouch, KernelState
    <2>4. TipPressure(s) \in 0..PressureMax /\ TipPressure(s) >= TipFloor
      BY <2>2, TipPressureInRange
    <2> HIDE DEF k
    <2>5. /\ e \in DeviceState
          /\ e.kernel.touch = TRUE /\ e.kernel.tool = TRUE
          /\ e.inRange = TRUE
          /\ e.keepAlive = NoTimer /\ e.armed = {}
          /\ OneFrame(e, d)
      <3>1. FrameOn(e, s, k, 0, TipPressure(s))
        BY <2>2, <2>3, <2>4, AxisValues, EmitFrameFields, Zenon
      <3> HIDE DEF e
      <3>2. OneFrame(e, d)
        BY <2>1, <2>2, <2>3, <2>4, <3>1 DEF FrameOn, OneFrame, PenStep, Quiet
      <3> QED
        BY <2>1, <2>2, <2>3, <3>1, <3>2 DEF FrameOn
    <2>6. DropTip(d) = [e EXCEPT !.tipDown = TRUE]
      BY <1>2 DEF DropTip, s, k
    <2> HIDE DEF e
    <2> DEFINE f == [e EXCEPT !.tipDown = TRUE]
    <2>7. /\ f \in DeviceState
          /\ f.tipDown = TRUE /\ f.inRange = e.inRange /\ Quiet(f, e)
          /\ f.keepAlive = NoTimer /\ f.armed = {}
      BY <2>5 DEF DeviceState, Quiet
    <2>8. DropTip(d) = f
      BY <2>6
    <2> HIDE DEF f
    <2>9. Sound(f) /\ OneFrame(f, d)
      BY <2>5, <2>7 DEF Sound, Mirrors, TimerOwned, Quiet, OneFrame
    <2> QED
      BY <1>2, <2>5, <2>7, <2>8, <2>9
  <1> QED
    BY <1>1, <1>2

LEMMA LiftTipSound ==
    ASSUME NEW d, Sound(d)
    PROVE  /\ Sound(LiftTip(d)) /\ ~LiftTip(d).tipDown
           /\ LiftTip(d).inRange = d.inRange
           /\ IF d.tipDown THEN OneFrame(LiftTip(d), d) ELSE Quiet(LiftTip(d), d)
  <1>1. CASE ~d.tipDown
    BY <1>1 DEF LiftTip, Quiet
  <1>2. CASE d.tipDown
    <2> DEFINE k == WithTouch(d, FALSE)
               e == EmitFrame(d, k, HoverDist, 0)
    <2>1. d \in DeviceState /\ d.kernel \in KernelState /\ 0 \in 0..PressureMax
      BY DEF Sound, DeviceState, PressureMax
    <2>2. k \in KernelState /\ k.touch = FALSE /\ k.tool = d.kernel.tool
      BY <2>1 DEF WithTouch, KernelState
    <2>3. d.keepAlive = NoTimer /\ d.armed \subseteq {NoTimer} /\ d.kernel.tool = d.inRange
          /\ d.inRange = TRUE
      BY <1>2, <2>1 DEF DeviceState, Sound, TimerOwned, Mirrors, Hovering
    <2>4. d.armed = {}
      BY <2>1, <2>3, TimerAssumption DEF DeviceState
    <2> HIDE DEF k
    <2>5. /\ e \in DeviceState
          /\ e.kernel.touch = FALSE /\ e.kernel.tool = e.inRange
          /\ e.inRange = d.inRange
          /\ e.keepAlive = NoTimer /\ e.armed = {}
          /\ OneFrame(e, d)
      <3>1. FrameOn(e, d, k, HoverDist, 0)
        BY <2>1, <2>2, AxisValues, EmitFrameFields, Zenon
      <3> HIDE DEF e
      <3>2. OneFrame(e, d)
        BY <2>2, <2>3, <3>1 DEF FrameOn, OneFrame, PenStep, HoverDist
      <3> QED
        BY <2>2, <2>3, <2>4, <3>1, <3>2 DEF FrameOn
    <2>6. LiftTip(d) = [e EXCEPT !.tipDown = FALSE]
      BY <1>2 DEF LiftTip, k
    <2> HIDE DEF e
    <2> DEFINE f == [e EXCEPT !.tipDown = FALSE]
    <2>7. /\ f \in DeviceState
          /\ f.tipDown = FALSE /\ f.inRange = e.inRange /\ Quiet(f, e)
          /\ f.keepAlive = NoTimer /\ f.armed = {}
      BY <2>5 DEF DeviceState, Quiet
    <2>8. LiftTip(d) = f
      BY <2>6
    <2> HIDE DEF f
    <2>9. Sound(f) /\ OneFrame(f, d)
      BY <2>5, <2>7 DEF Sound, Mirrors, TimerOwned, Quiet, OneFrame
    <2> QED
      BY <1>2, <2>5, <2>7, <2>8, <2>9
  <1> QED
    BY <1>1, <1>2

\* armKeepAlive: one timer at most, and only for a hovering pen.  The timer it
\* creates is new to the runtime because an unreferenced one never runs.
LEMMA ArmKeepAliveSound ==
    ASSUME NEW d, Sound(d)
    PROVE  LET a == ArmKeepAlive(d)
           IN  /\ Sound(a)
               /\ a.kernel = d.kernel /\ a.frames = d.frames
               /\ a.inRange = d.inRange /\ a.tipDown = d.tipDown
               /\ KeepAliveOn /\ Hovering(d) => a.keepAlive # NoTimer /\ a.armed # {}
  <1>1. CASE ~KeepAliveOn \/ ~Hovering(d)
    <2>1. ArmKeepAlive(d) = StopKeepAlive(d)
      BY <1>1 DEF ArmKeepAlive
    <2> QED
      BY <1>1, <2>1, StopKeepAliveSound, Zenon
  <1>2. CASE KeepAliveOn /\ Hovering(d)
    <2> DEFINE t == IF d.keepAlive # NoTimer THEN d.keepAlive
                    ELSE CHOOSE u \in Timer : u \notin d.armed
    <2>1. d \in DeviceState /\ d.armed \subseteq {d.keepAlive}
      BY DEF Sound, TimerOwned
    <2>2. ArmKeepAlive(d) = StartTimer(d, t)
      BY <1>2 DEF ArmKeepAlive
    <2>3. t \in Timer /\ d.armed \subseteq {t}
      <3>1. CASE d.keepAlive # NoTimer
        BY <2>1, <3>1 DEF DeviceState
      <3>2. CASE d.keepAlive = NoTimer
        <4>1. d.armed = {}
          BY <2>1, <3>2, TimerAssumption DEF DeviceState
        <4>2. \E u \in Timer : u \notin d.armed
          BY <4>1, TimerAssumption
        <4>3. t \in Timer
          BY <3>2, <4>2, Zenon
        <4> HIDE DEF t
        <4> QED
          BY <4>1, <4>3
      <3> QED
        BY <3>1, <3>2
    <2> HIDE DEF t
    <2> DEFINE a == StartTimer(d, t)
    <2>4. d.armed \cup {t} = {t} /\ t # NoTimer
      BY <2>3, TimerAssumption
    <2>5. a = [d EXCEPT !.keepAlive = t, !.armed = {t}]
      BY <2>4 DEF StartTimer
    <2>6. /\ a \in DeviceState
          /\ a.keepAlive = t /\ a.armed = {t}
          /\ a.kernel = d.kernel /\ a.frames = d.frames
          /\ a.inRange = d.inRange /\ a.tipDown = d.tipDown
      <3>1. {t} \in SUBSET Timer /\ t \in Timer \cup {NoTimer}
        BY <2>3
      <3> HIDE DEF a
      <3> QED
        BY <2>1, <2>5, <3>1 DEF DeviceState
    <2> HIDE DEF a
    <2>7. Mirrors(a) /\ TimerOwned(a) /\ a.armed # {}
      <3>1. Mirrors(a)
        BY <2>6 DEF Sound, Mirrors
      <3>2. TimerOwned(a)
        BY <1>2, <2>6 DEF TimerOwned, Hovering
      <3>3. t \in a.armed
        BY <2>6
      <3> QED
        BY <3>1, <3>2, <3>3
    <2>8. Sound(a)
      BY <2>6, <2>7 DEF Sound
    <2>9. ArmKeepAlive(d) = a
      BY <2>2 DEF a
    <2> QED
      BY <2>4, <2>6, <2>7, <2>8, <2>9
  <1> QED
    BY <1>1, <1>2

LEMMA EnsureProximitySound ==
    ASSUME NEW d, Sound(d)
    PROVE  Sound(EnsureProximity(d)) /\ EnsureProximity(d).inRange
  BY ProximityInSound DEF EnsureProximity

LEMMA BeginStrokeSound ==
    ASSUME NEW d, Sound(d)
    PROVE  Sound(BeginStroke(d)) /\ BeginStroke(d).tipDown
  <1> DEFINE l == IF d.inRange /\ d.tipDown THEN LiftTip(d) ELSE d
  <1>1. Sound(l)
    BY LiftTipSound
  <1>2. BeginStroke(d) = DropTip(EnsureProximity(l))
    BY DEF BeginStroke
  <1> HIDE DEF l
  <1> QED
    BY <1>1, <1>2, EnsureProximitySound, DropTipSound

LEMMA ResetPenSound ==
    ASSUME NEW d, Sound(d)
    PROVE  Sound(ResetPen(d)) /\ ~ResetPen(d).inRange
  <1> DEFINE s == StopKeepAlive(d)
  <1>1. Sound(s) /\ s.inRange = d.inRange
    BY StopKeepAliveSound
  <1>2. ResetPen(d) = IF s.inRange THEN ProximityOut(LiftTip(s)) ELSE s
    BY DEF ResetPen
  <1> HIDE DEF s
  <1> QED
    BY <1>1, <1>2, LiftTipSound, ProximityOutSound

-----------------------------------------------------------------------------
(* The handlers                                                            *)

LEMMA BeginSound ==
    ASSUME Sound(pen)
    PROVE  /\ Sound(Begin)
           /\ Begin.inRange = pen.inRange /\ Begin.tipDown = pen.tipDown
           /\ Begin.keepAlive = pen.keepAlive /\ Begin.armed = pen.armed
           /\ Begin.kernel = pen.kernel /\ Begin.frames = <<>>
  <1>1. pen \in DeviceState /\ <<>> \in Seq(KernelState)
    BY DEF Sound
  <1>2. Begin = [pen EXCEPT !.frames = <<>>]
    BY DEF Begin
  <1>3. /\ Begin \in DeviceState
        /\ Begin.inRange = pen.inRange /\ Begin.tipDown = pen.tipDown
        /\ Begin.keepAlive = pen.keepAlive /\ Begin.armed = pen.armed
        /\ Begin.kernel = pen.kernel /\ Begin.frames = <<>>
    BY <1>1, <1>2 DEF DeviceState
  <1>4. Mirrors(Begin) /\ TimerOwned(Begin)
    BY <1>3 DEF Sound, Mirrors, TimerOwned, Hovering
  <1> QED
    BY <1>3, <1>4 DEF Sound

LEMMA PointerDownSound ==
    ASSUME Sound(pen), NEW p \in RawPressure \cup {Absent}, PointerDown(p)
    PROVE  Sound(pen') /\ fired' = fired
  BY BeginSound, SetPenSound, BeginStrokeSound, Zenon DEF PointerDown, Handle

\* A frame of a pen whose tip stays down.
LEMMA TipFrameSound ==
    ASSUME NEW d, Sound(d), NEW k \in KernelState,
           k.tool = d.kernel.tool, k.touch = d.kernel.touch
    PROVE  /\ Sound(EmitFrame(d, k, 0, TipPressure(d)))
           /\ FrameOn(EmitFrame(d, k, 0, TipPressure(d)), d, k, 0, TipPressure(d))
  <1> DEFINE e == EmitFrame(d, k, 0, TipPressure(d))
  <1>1. d \in DeviceState
    BY DEF Sound
  <1>2. TipPressure(d) \in 0..PressureMax
    BY <1>1, TipPressureInRange
  <1>3. FrameOn(e, d, k, 0, TipPressure(d))
    BY <1>1, <1>2, AxisValues, EmitFrameFields, Zenon
  <1> HIDE DEF e
  <1>4. Sound(e)
    BY <1>3 DEF Sound, Mirrors, TimerOwned, Hovering, FrameOn
  <1> QED
    BY <1>3, <1>4 DEF e

LEMMA PointerMoveSound ==
    ASSUME Sound(pen), NEW p \in RawPressure \cup {Absent}, PointerMove(p)
    PROVE  Sound(pen') /\ fired' = fired
  <1> DEFINE d == SetPen(Begin, p)
  <1>1. Sound(d)
    BY BeginSound, SetPenSound
  <1>2. d.kernel \in KernelState
    BY <1>1 DEF Sound, DeviceState
  <1>3. /\ pen' = IF ~d.inRange THEN DropTip(ProximityIn(d))
                  ELSE IF d.tipDown THEN EmitFrame(d, d.kernel, 0, TipPressure(d))
                  ELSE ArmKeepAlive(EmitHover(d))
        /\ fired' = fired
    BY DEF PointerMove, Handle
  <1> HIDE DEF d
  <1>4. CASE ~d.inRange
    BY <1>1, <1>3, <1>4, ProximityInSound, DropTipSound
  <1>5. CASE d.inRange /\ d.tipDown
    BY <1>1, <1>2, <1>3, <1>5, TipFrameSound
  <1>6. CASE d.inRange /\ ~d.tipDown
    <2>1. Sound(EmitHover(d))
      BY <1>1, HoverFrameSound DEF EmitHover
    <2> QED
      BY <1>3, <1>6, <2>1, ArmKeepAliveSound
  <1> QED
    BY <1>4, <1>5, <1>6

LEMMA PointerUpSound ==
    ASSUME Sound(pen), PointerUp
    PROVE  Sound(pen') /\ fired' = fired
  <1>1. Sound(LiftTip(Begin))
    BY BeginSound, LiftTipSound
  <1>2. Sound(EmitHover(LiftTip(Begin)))
    BY <1>1, HoverFrameSound DEF EmitHover
  <1> QED
    BY <1>2, ArmKeepAliveSound, Zenon DEF PointerUp, Handle

LEMMA LeftButtonSound ==
    ASSUME Sound(pen), NEW pressed \in BOOLEAN, LeftButton(pressed)
    PROVE  Sound(pen') /\ fired' = fired
  <1> DEFINE d == EnsureProximity(Begin)
  <1>1. Sound(d) /\ d.inRange
    BY BeginSound, EnsureProximitySound
  <1>2. /\ pen' = IF pressed THEN DropTip(d) ELSE ArmKeepAlive(LiftTip(d))
        /\ fired' = fired
    BY DEF LeftButton, Handle
  <1> HIDE DEF d
  <1>3. Sound(LiftTip(d))
    BY <1>1, LiftTipSound
  <1> QED
    BY <1>1, <1>2, <1>3, DropTipSound, ArmKeepAliveSound

LEMMA BarrelButtonSound ==
    ASSUME Sound(pen), NEW b \in Barrel, NEW pressed \in BOOLEAN,
           BarrelButton(b, pressed)
    PROVE  Sound(pen') /\ fired' = fired
  <1> DEFINE d == EnsureProximity(Begin)
             k == [d.kernel EXCEPT !.barrel =
                      IF pressed THEN @ \cup {b} ELSE @ \ {b}]
             e == EmitFrame(d, k, HoverDist, 0)
  <1>1. Sound(d) /\ d.inRange
    BY BeginSound, EnsureProximitySound
  <1>2. d \in DeviceState /\ d.kernel \in KernelState
    BY <1>1 DEF Sound, DeviceState
  <1>3. /\ pen' = IF d.tipDown THEN EmitFrame(d, k, 0, TipPressure(d)) ELSE e
        /\ fired' = fired
    BY DEF BarrelButton, Handle
  <1> HIDE DEF d
  <1>4. k \in KernelState /\ k.tool = d.kernel.tool /\ k.touch = d.kernel.touch
    BY <1>2 DEF KernelState
  <1> HIDE DEF k
  <1>5. FrameOn(e, d, k, HoverDist, 0)
    BY <1>2, <1>4, AxisValues, EmitFrameFields, Zenon
  <1> HIDE DEF e
  <1>6. Sound(e)
    BY <1>1, <1>4, <1>5 DEF Sound, Mirrors, TimerOwned, Hovering, FrameOn
  <1> QED
    BY <1>1, <1>3, <1>4, <1>6, TipFrameSound

LEMMA ResetSound ==
    ASSUME Sound(pen), Reset
    PROVE  Sound(pen') /\ fired' = fired
  BY BeginSound, ResetPenSound, Zenon DEF Reset, Handle

\* An expiring timer no longer runs; d.keepAlive still refers to it.
LEMMA FireTimerSound ==
    ASSUME Sound(pen), fired \in 0..MaxFired, NEW t \in Timer, FireTimer(t)
    PROVE  Sound(pen') /\ fired' \in 0..MaxFired /\ fired' = fired + 1
  <1>1. /\ pen' = [Begin EXCEPT !.armed = pen.armed \ {t}]
        /\ fired' = fired + 1 /\ fired < MaxFired
    BY DEF FireTimer
  <1>2. Sound(Begin) /\ Begin.armed = pen.armed
    BY BeginSound
  <1>3. fired' \in 0..MaxFired
    BY <1>1, MaxFiredAssumption
  <1>4. Begin \in DeviceState
    BY <1>2 DEF Sound
  <1>5. /\ pen' \in DeviceState
        /\ pen'.inRange = Begin.inRange /\ pen'.tipDown = Begin.tipDown
        /\ pen'.keepAlive = Begin.keepAlive /\ pen'.armed = Begin.armed \ {t}
        /\ pen'.kernel = Begin.kernel
    BY <1>1, <1>2, <1>4 DEF DeviceState
  <1>6. Mirrors(pen') /\ TimerOwned(pen')
    BY <1>2, <1>5 DEF Sound, Mirrors, TimerOwned, Hovering
  <1> QED
    BY <1>1, <1>3, <1>5, <1>6 DEF Sound

\* What a callback does for a pen that hovers: one hover frame, and the timer
\* runs again if the driver still refers to it.
LEMMA CallbackHovering ==
    ASSUME Sound(pen), Callback, Hovering(pen)
    PROVE  /\ Sound(pen') /\ fired' = fired - 1 /\ fired > 0
           /\ Hovering(pen') /\ pen'.keepAlive = pen.keepAlive
           /\ pen.keepAlive # NoTimer => pen'.armed # {}
           /\ \E e : FrameOn(e, Begin, pen.kernel, e.kernel.distance, 0)
                     /\ e.kernel.distance \in {HoverDist, HoverDist + 1}
                     /\ pen'.frames = e.frames /\ pen'.kernel = e.kernel
  <1> DEFINE b == [Begin EXCEPT !.kaToggle = ~pen.kaToggle]
             x == IF b.kaToggle THEN HoverDist + 1 ELSE HoverDist
             e == EmitFrame(b, b.kernel, x, 0)
  <1>1. Sound(Begin) /\ Begin.inRange = pen.inRange /\ Begin.tipDown = pen.tipDown
        /\ Begin.keepAlive = pen.keepAlive /\ Begin.armed = pen.armed
        /\ Begin.kernel = pen.kernel
    BY BeginSound
  <1>2. pen.kaToggle \in BOOLEAN /\ Begin \in DeviceState
    BY <1>1 DEF Sound, DeviceState
  <1>3. /\ b \in DeviceState
        /\ b.inRange = Begin.inRange /\ b.tipDown = Begin.tipDown
        /\ b.keepAlive = Begin.keepAlive /\ b.armed = Begin.armed
        /\ b.kernel = Begin.kernel /\ b.frames = Begin.frames
    BY <1>2 DEF DeviceState
  <1>4. /\ pen' = IF e.keepAlive # NoTimer THEN StartTimer(e, e.keepAlive) ELSE e
        /\ fired' = fired - 1 /\ fired > 0
    BY DEF Callback, EmitKeepAlive
  <1> HIDE DEF b
  <1>5. Sound(b)
    BY <1>1, <1>3 DEF Sound, Mirrors, TimerOwned, Hovering
  <1>6. x \in {HoverDist, HoverDist + 1}
    OBVIOUS
  <1> HIDE DEF x
  <1>7. Sound(e) /\ FrameOn(e, b, b.kernel, x, 0)
    BY <1>5, <1>6, HoverFrameSound, Zenon
  <1> HIDE DEF e
  <1>8. FrameOn(e, Begin, pen.kernel, e.kernel.distance, 0)
        /\ e.kernel.distance \in {HoverDist, HoverDist + 1}
    BY <1>1, <1>3, <1>6, <1>7 DEF FrameOn
  <1>9. /\ e \in DeviceState /\ e.keepAlive = pen.keepAlive
        /\ e.inRange = pen.inRange /\ e.tipDown = pen.tipDown
        /\ e.armed \subseteq {e.keepAlive} /\ e.keepAlive \in Timer \cup {NoTimer}
    BY <1>1, <1>8 DEF FrameOn, DeviceState, Sound, TimerOwned
  <1>10. CASE e.keepAlive # NoTimer
    <2> DEFINE t == e.keepAlive
    <2>1. {t} \in SUBSET Timer /\ e.armed \cup {t} = {t}
      BY <1>9, <1>10
    <2>2. pen' = [e EXCEPT !.keepAlive = t, !.armed = {t}]
      BY <1>4, <1>10, <2>1 DEF StartTimer
    <2>3. /\ pen' \in DeviceState
          /\ pen'.inRange = e.inRange /\ pen'.tipDown = e.tipDown
          /\ pen'.keepAlive = e.keepAlive /\ pen'.armed = {t}
          /\ pen'.kernel = e.kernel /\ pen'.frames = e.frames
      BY <1>9, <2>1, <2>2 DEF DeviceState
    <2>4. Mirrors(pen') /\ TimerOwned(pen')
      BY <1>7, <2>3 DEF Sound, Mirrors, TimerOwned, Hovering
    <2>5. t \in pen'.armed
      BY <2>3
    <2>6. Sound(pen') /\ Hovering(pen')
      BY <1>9, <2>3, <2>4 DEF Sound, Hovering
    <2>7. pen'.armed # {}
      BY <2>5
    <2> QED
      BY <1>4, <1>8, <1>9, <2>3, <2>6, <2>7
  <1>11. CASE e.keepAlive = NoTimer
    <2>1. pen' = e
      BY <1>4, <1>11
    <2>2. Sound(pen') /\ Hovering(pen')
      BY <1>7, <1>9, <2>1 DEF Hovering
    <2> QED
      BY <1>4, <1>8, <1>9, <1>11, <2>1, <2>2
  <1> QED
    BY <1>10, <1>11

\* A callback that finds the pen released or touching only drops its timer.
LEMMA CallbackLate ==
    ASSUME Sound(pen), Callback, ~Hovering(pen)
    PROVE  /\ Sound(pen') /\ fired' = fired - 1 /\ fired > 0
           /\ pen'.frames = <<>> /\ pen'.armed = {}
           /\ pen'.kernel = pen.kernel
           /\ pen'.inRange = pen.inRange /\ pen'.tipDown = pen.tipDown
  <1>1. /\ Sound(Begin) /\ Begin.frames = <<>> /\ Begin.kernel = pen.kernel
        /\ Begin.inRange = pen.inRange /\ Begin.tipDown = pen.tipDown
        /\ Begin.keepAlive = pen.keepAlive /\ Begin.armed = pen.armed
    BY BeginSound
  <1>2. /\ pen' = [Begin EXCEPT !.keepAlive = NoTimer]
        /\ fired' = fired - 1 /\ fired > 0
    BY DEF Callback
  <1>3. Begin \in DeviceState /\ Begin.keepAlive = NoTimer /\ Begin.armed \subseteq {NoTimer}
    BY <1>1 DEF Sound, TimerOwned, Hovering
  <1>4. Begin.armed = {}
    BY <1>3, TimerAssumption DEF DeviceState
  <1>5. /\ pen' \in DeviceState
        /\ pen'.inRange = Begin.inRange /\ pen'.tipDown = Begin.tipDown
        /\ pen'.keepAlive = NoTimer /\ pen'.armed = {}
        /\ pen'.kernel = Begin.kernel /\ pen'.frames = Begin.frames
    BY <1>2, <1>3, <1>4 DEF DeviceState
  <1>6. Sound(pen')
    BY <1>1, <1>5 DEF Sound, Mirrors, TimerOwned
  <1> QED
    BY <1>1, <1>2, <1>5, <1>6

-----------------------------------------------------------------------------
(* The inductive invariant                                                 *)

LEMMA InitSound == Init => IInv
  <1> SUFFICES ASSUME Init PROVE IInv
    OBVIOUS
  <1>1. Idle \in KernelState /\ Idle.tool = FALSE /\ Idle.touch = FALSE
    BY DEF Idle, KernelState, PressureMax
  <1>2. <<>> \in Seq(KernelState)
    OBVIOUS
  <1>3. /\ pen \in DeviceState
        /\ pen.inRange = FALSE /\ pen.tipDown = FALSE
        /\ pen.keepAlive = NoTimer /\ pen.armed = {} /\ pen.kernel = Idle
    BY <1>1, <1>2 DEF Init, DeviceState, PressureMax
  <1>4. fired \in 0..MaxFired
    BY MaxFiredAssumption DEF Init
  <1> QED
    BY <1>1, <1>3, <1>4 DEF IInv, Sound, Mirrors, TimerOwned

LEMMA NextSound == IInv /\ [Next]_vars => IInv'
  <1> SUFFICES ASSUME IInv, [Next]_vars PROVE IInv'
    OBVIOUS
  <1> USE DEF IInv
  <1>0. Sound(pen) /\ fired \in 0..MaxFired
    OBVIOUS
  <1>1. ASSUME NEW p \in RawPressure \cup {Absent}, PointerDown(p) PROVE IInv'
    BY <1>0, <1>1, PointerDownSound DEF Sound, Mirrors, TimerOwned, Hovering
  <1>2. ASSUME NEW p \in RawPressure \cup {Absent}, PointerMove(p) PROVE IInv'
    BY <1>0, <1>2, PointerMoveSound DEF Sound, Mirrors, TimerOwned, Hovering
  <1>3. CASE PointerUp
    BY <1>0, <1>3, PointerUpSound DEF Sound, Mirrors, TimerOwned, Hovering
  <1>4. ASSUME NEW pressed \in BOOLEAN, LeftButton(pressed) PROVE IInv'
    BY <1>0, <1>4, LeftButtonSound DEF Sound, Mirrors, TimerOwned, Hovering
  <1>5. ASSUME NEW pressed \in BOOLEAN, NEW b \in Barrel, BarrelButton(b, pressed)
        PROVE IInv'
    BY <1>0, <1>5, BarrelButtonSound DEF Sound, Mirrors, TimerOwned, Hovering
  <1>6. CASE Reset
    BY <1>0, <1>6, ResetSound DEF Sound, Mirrors, TimerOwned, Hovering
  <1>7. ASSUME NEW t \in Timer, FireTimer(t) PROVE IInv'
    BY <1>0, <1>7, FireTimerSound DEF Sound, Mirrors, TimerOwned, Hovering
  <1>8. CASE Callback
    <2>1. Sound(pen') /\ fired' = fired - 1 /\ fired > 0
      BY <1>0, <1>8, CallbackHovering, CallbackLate
    <2>2. fired' \in 0..MaxFired
      BY <1>0, <2>1, MaxFiredAssumption
    <2> QED
      BY <2>1, <2>2 DEF Sound, Mirrors, TimerOwned, Hovering
  <1>9. CASE UNCHANGED vars
    BY <1>0, <1>9 DEF vars, Sound, Mirrors, TimerOwned, Hovering
  <1> QED
    BY <1>1, <1>2, <1>3, <1>4, <1>5, <1>6, <1>7, <1>8, <1>9 DEF Next

LEMMA AlwaysSound == Spec => []IInv
  BY InitSound, NextSound, PTL DEF Spec

\* Between handlers the kernel's contact is the driver's, so dropTip's and
\* liftTip's early returns never swallow a transition.  The pen and the
\* kernel's view keep their types, whatever pressures, buttons and late
\* callbacks arrive: setPen's clamp is what keeps ABS_PRESSURE within the range
\* the device declares.
THEOREM MirrorCorrect == Spec => []KernelMirrorsDriver
  <1>1. IInv => KernelMirrorsDriver
    BY DEF IInv, Sound, Mirrors, TypeOK, KernelMirrorsDriver
  <1> QED
    BY <1>1, AlwaysSound, PTL

\* stopKeepAlive can always stop the running timer, because d.keepAlive refers
\* to it and it runs only while the pen hovers.
THEOREM TimerCorrect == Spec => []NoOrphanTimer
  <1>1. IInv => NoOrphanTimer
    BY DEF IInv, Sound, TimerOwned, NoOrphanTimer
  <1> QED
    BY <1>1, AlwaysSound, PTL

-----------------------------------------------------------------------------
(* A hovering pen is kept alive                                            *)

\* Every handler of the pen's own events that leaves it hovering ends in
\* armKeepAlive.
LEMMA PenEventEndsSilence ==
    ASSUME IInv, PenEvent
    PROVE  ~Silent'
  <1>0. Sound(pen)
    BY DEF IInv
  <1>1. SUFFICES ASSUME KeepAliveOn, Hovering(pen')
                 PROVE  TickDue'
    BY DEF Silent, Hovering
  <1>2. ASSUME NEW p \in RawPressure \cup {Absent}, PointerDown(p) PROVE FALSE
    <2>1. pen'.tipDown
      BY <1>0, <1>2, BeginSound, SetPenSound, BeginStrokeSound, Zenon
         DEF PointerDown, Handle
    <2> QED
      BY <1>1, <2>1 DEF Hovering
  <1>3. ASSUME NEW d, Sound(d), pen' = ArmKeepAlive(d) PROVE TickDue'
    BY <1>1, <1>3, ArmKeepAliveSound DEF Hovering, TickDue
  <1>4. ASSUME NEW p \in RawPressure \cup {Absent}, PointerMove(p) PROVE TickDue'
    <2> DEFINE d == SetPen(Begin, p)
    <2>1. Sound(d)
      BY <1>0, BeginSound, SetPenSound
    <2>2. pen' = IF ~d.inRange THEN DropTip(ProximityIn(d))
                 ELSE IF d.tipDown THEN EmitFrame(d, d.kernel, 0, TipPressure(d))
                 ELSE ArmKeepAlive(EmitHover(d))
      BY <1>4 DEF PointerMove, Handle
    <2> HIDE DEF d
    <2>3. CASE ~d.inRange
      <3>1. DropTip(ProximityIn(d)).tipDown
        BY <2>1, <2>3, ProximityInSound, DropTipSound
      <3> QED
        BY <1>1, <2>2, <2>3, <3>1 DEF Hovering
    <2>4. CASE d.inRange /\ d.tipDown
      <3>1. d.kernel \in KernelState
        BY <2>1 DEF Sound, DeviceState
      <3>2. FrameOn(pen', d, d.kernel, 0, TipPressure(d))
        BY <2>1, <2>2, <2>4, <3>1, TipFrameSound
      <3> QED
        BY <1>1, <2>4, <3>2 DEF FrameOn, Hovering
    <2>5. CASE d.inRange /\ ~d.tipDown
      <3>1. Sound(EmitHover(d))
        BY <2>1, HoverFrameSound DEF EmitHover
      <3> QED
        BY <1>3, <2>2, <2>5, <3>1
    <2> QED
      BY <2>3, <2>4, <2>5
  <1>5. CASE PointerUp
    <2>1. Sound(LiftTip(Begin))
      BY <1>0, BeginSound, LiftTipSound
    <2>2. Sound(EmitHover(LiftTip(Begin)))
      BY <2>1, HoverFrameSound DEF EmitHover
    <2> QED
      BY <1>3, <1>5, <2>2 DEF PointerUp, Handle
  <1>6. ASSUME NEW pressed \in BOOLEAN, LeftButton(pressed) PROVE TickDue'
    <2> DEFINE d == EnsureProximity(Begin)
    <2>1. Sound(d) /\ d.inRange
      BY <1>0, BeginSound, EnsureProximitySound
    <2>2. pen' = IF pressed THEN DropTip(d) ELSE ArmKeepAlive(LiftTip(d))
      BY <1>6 DEF LeftButton, Handle
    <2> HIDE DEF d
    <2>3. Sound(LiftTip(d))
      BY <2>1, LiftTipSound
    <2>4. pressed => pen'.tipDown
      BY <2>1, <2>2, DropTipSound
    <2> QED
      BY <1>1, <1>3, <2>2, <2>3, <2>4 DEF Hovering
  <1> QED
    BY <1>2, <1>4, <1>5, <1>6 DEF PenEvent

\* The other steps keep a due tick due, unless they end the hover.
LEMMA OtherStepsKeepTick ==
    ASSUME IInv, [Next]_vars, Silent', ~PenEvent, ~BarrelEntry
    PROVE  Silent
  <1>0. Sound(pen) /\ fired \in 0..MaxFired
    BY DEF IInv
  <1>1. KeepAliveOn /\ Hovering(pen') /\ ~TickDue'
    BY DEF Silent, Hovering
  <1>2. ASSUME NEW pressed \in BOOLEAN, NEW b \in Barrel, BarrelButton(b, pressed)
        PROVE Silent
    <2> DEFINE k == [Begin.kernel EXCEPT !.barrel =
                        IF pressed THEN @ \cup {b} ELSE @ \ {b}]
               e == EmitFrame(Begin, k, HoverDist, 0)
    <2>1. pen.inRange
      BY <1>2 DEF BarrelEntry
    <2>2. Sound(Begin) /\ Begin.inRange = pen.inRange /\ Begin.tipDown = pen.tipDown
          /\ Begin.keepAlive = pen.keepAlive /\ Begin.armed = pen.armed
      BY <1>0, BeginSound
    <2>3. EnsureProximity(Begin) = Begin
      BY <2>1, <2>2 DEF EnsureProximity
    <2>4. /\ pen' = IF Begin.tipDown THEN EmitFrame(Begin, k, 0, TipPressure(Begin))
                    ELSE e
          /\ fired' = fired
      BY <1>2, <2>3 DEF BarrelButton, Handle
    <2>5. Begin \in DeviceState /\ Begin.kernel \in KernelState
      BY <2>2 DEF Sound, DeviceState
    <2> HIDE DEF Begin
    <2>6. k \in KernelState /\ k.tool = Begin.kernel.tool /\ k.touch = Begin.kernel.touch
      BY <2>5 DEF KernelState
    <2> HIDE DEF k
    <2>7. CASE Begin.tipDown
      <3>1. FrameOn(pen', Begin, k, 0, TipPressure(Begin))
        BY <2>2, <2>4, <2>6, <2>7, TipFrameSound
      <3> QED
        BY <1>1, <2>7, <3>1 DEF FrameOn, Hovering
    <2>8. CASE ~Begin.tipDown
      <3>1. FrameOn(e, Begin, k, HoverDist, 0)
        BY <2>5, <2>6, AxisValues, EmitFrameFields, Zenon
      <3>2. pen'.keepAlive = pen.keepAlive /\ pen'.armed = pen.armed
        BY <2>2, <2>4, <2>8, <3>1 DEF FrameOn
      <3>3. Hovering(pen) /\ ~TickDue
        BY <1>1, <2>1, <2>2, <2>4, <2>8, <3>2 DEF TickDue, Hovering
      <3> QED
        BY <1>1, <3>3 DEF Silent
    <2> QED
      BY <2>7, <2>8
  <1>3. CASE Reset
    <2>1. ~pen'.inRange
      BY <1>0, <1>3, BeginSound, ResetPenSound, Zenon DEF Reset, Handle
    <2> QED
      BY <1>1, <2>1 DEF Hovering
  <1>4. ASSUME NEW t \in Timer, FireTimer(t) PROVE Silent
    <2>1. /\ pen' = [Begin EXCEPT !.armed = pen.armed \ {t}]
          /\ fired' = fired + 1 /\ t \in pen.armed
      BY <1>4 DEF FireTimer
    <2>2. Sound(Begin) /\ Begin.keepAlive = pen.keepAlive
      BY <1>0, BeginSound
    <2>3. pen'.keepAlive = pen.keepAlive
      BY <2>1, <2>2 DEF Sound, DeviceState
    <2>4. pen.keepAlive # NoTimer
      BY <1>0, <2>1, TimerAssumption DEF Sound, TimerOwned, DeviceState
    <2>5. fired' > 0
      BY <1>0, <2>1, MaxFiredAssumption
    <2> QED
      BY <1>1, <2>3, <2>4, <2>5 DEF TickDue
  <1>5. CASE Callback
    <2>1. CASE Hovering(pen)
      <3>1. pen'.keepAlive = pen.keepAlive
            /\ (pen.keepAlive # NoTimer => pen'.armed # {})
        BY <1>0, <1>5, <2>1, CallbackHovering
      <3>2. ~TickDue
        BY <1>1, <3>1 DEF TickDue
      <3> QED
        BY <1>1, <2>1, <3>2 DEF Silent
    <2>2. CASE ~Hovering(pen)
      BY <1>0, <1>1, <1>5, <2>2, CallbackLate DEF Hovering
    <2> QED
      BY <2>1, <2>2
  <1>6. CASE UNCHANGED vars
    BY <1>1, <1>6 DEF vars, Silent, TickDue, Hovering
  <1> QED
    BY <1>2, <1>3, <1>4, <1>5, <1>6 DEF Next, PenEvent

\* A hover falls silent only by a barrel button that brings the tool into
\* proximity, and stays silent only until the pen's next event.
THEOREM HoverCorrect == Spec => HoverKeptAlive
  <1>1. IInv /\ [Next]_vars => [Silent' => BarrelEntry \/ (Silent /\ ~PenEvent)]_vars
    BY PenEventEndsSilence, OtherStepsKeepTick
  <1> QED
    BY <1>1, AlwaysSound, PTL DEF Spec, HoverKeptAlive

\* A late callback neither revives a released tool nor touches a stroke.
THEOREM LateTickCorrect == Spec => LateTickHarmless
  <1> DEFINE Harmless ==
        Callback =>
          /\ \A i \in 1..Len(pen'.frames) :
                pen'.frames[i].tool /\ ~pen'.frames[i].touch
          /\ pen'.frames # <<>> => Hovering(pen)
          /\ pen'.armed # {} => Hovering(pen)
  <1>1. IInv /\ [Next]_vars => [Harmless]_vars
    <2> SUFFICES ASSUME IInv, Callback PROVE Harmless
      OBVIOUS
    <2>1. Sound(pen)
      BY DEF IInv
    <2>2. CASE Hovering(pen)
      <3>1. PICK e : FrameOn(e, Begin, pen.kernel, e.kernel.distance, 0)
                     /\ pen'.frames = e.frames
        BY <2>1, <2>2, CallbackHovering
      <3>2. e.frames = Append(<<>>, e.kernel) /\ e.kernel.tool /\ ~e.kernel.touch
        BY <2>1, <2>2, <3>1, BeginSound DEF FrameOn, Sound, Mirrors, Hovering
      <3> QED
        BY <2>2, <3>1, <3>2
    <2>3. CASE ~Hovering(pen)
      <3>1. pen'.frames = <<>> /\ pen'.armed = {}
        BY <2>1, <2>3, CallbackLate
      <3> QED
        BY <3>1
    <2> QED
      BY <2>2, <2>3
  <1> QED
    BY <1>1, AlwaysSound, PTL DEF Spec, LateTickHarmless

-----------------------------------------------------------------------------
(***************************************************************************)
(* The frames of one handler, for every handler: each is a legal step of   *)
(* the pen protocol, and a pointerdown always makes a fresh contact.  The  *)
(* argument follows the record through the steps of the handler: its       *)
(* frames start from the kernel state k0 the handler found and end in the  *)
(* record's own kernel state.                                              *)
(***************************************************************************)

\* What the compositor saw before the i-th frame.
Before(k0, d, i) == IF i = 1 THEN k0 ELSE d.frames[i - 1]

Legal(k0, d) ==
    /\ d.frames \in Seq(KernelState)
    /\ d.kernel = IF Len(d.frames) = 0 THEN k0 ELSE d.frames[Len(d.frames)]
    /\ \A i \in 1..Len(d.frames) : PenStep(Before(k0, d, i), d.frames[i])

\* A step of a handler shows the compositor nothing or one frame.
Extends(e, d) == Quiet(e, d) \/ OneFrame(e, d)

LEMMA QuietLegal ==
    ASSUME NEW k0, NEW d, NEW e, Legal(k0, d), Quiet(e, d)
    PROVE  Legal(k0, e)
  BY DEF Legal, Quiet, Before

LEMMA OneFrameLegal ==
    ASSUME NEW k0, NEW d, NEW e, Legal(k0, d), OneFrame(e, d)
    PROVE  Legal(k0, e)
  <1> DEFINE f == d.frames
             n == Len(f)
             g == e.frames
  <1>1. f \in Seq(KernelState) /\ e.kernel \in KernelState /\ g = Append(f, e.kernel)
    BY DEF Legal, OneFrame
  <1>2. /\ g \in Seq(KernelState) /\ Len(g) = n + 1 /\ n \in Nat
        /\ g[n + 1] = e.kernel
        /\ \A i \in 1..n : g[i] = f[i]
    BY <1>1
  <1>3. PenStep(d.kernel, e.kernel)
    BY DEF OneFrame
  <1>4. d.kernel = IF n = 0 THEN k0 ELSE f[n]
    BY DEF Legal
  <1>5. Before(k0, e, n + 1) = d.kernel
    BY <1>2, <1>4 DEF Before
  <1>6. ASSUME NEW i \in 1..n PROVE PenStep(Before(k0, e, i), g[i])
    <2>1. Before(k0, e, i) = Before(k0, d, i)
      BY <1>2 DEF Before
    <2>2. PenStep(Before(k0, d, i), f[i])
      BY DEF Legal
    <2> QED
      BY <1>2, <2>1, <2>2
  <1>7. ASSUME NEW i \in 1..Len(g) PROVE PenStep(Before(k0, e, i), g[i])
    <2>1. CASE i = n + 1
      BY <1>2, <1>3, <1>5, <2>1
    <2>2. CASE i \in 1..n
      BY <1>6, <2>2
    <2> QED
      BY <1>2, <2>1, <2>2
  <1>8. e.kernel = IF Len(g) = 0 THEN k0 ELSE g[Len(g)]
    BY <1>2
  <1> QED
    BY <1>2, <1>7, <1>8 DEF Legal

LEMMA ExtendsLegal ==
    ASSUME NEW k0, NEW d, NEW e, Legal(k0, d), Extends(e, d)
    PROVE  Legal(k0, e)
  BY QuietLegal, OneFrameLegal DEF Extends

-----------------------------------------------------------------------------
(* The steps of the handlers                                               *)

LEMMA BeginLegal ==
    ASSUME Sound(pen)
    PROVE  Legal(pen.kernel, Begin)
  <1>1. Begin.frames = <<>> /\ Begin.kernel = pen.kernel
    BY BeginSound
  <1> QED
    BY <1>1 DEF Legal

LEMMA SetPenLegal ==
    ASSUME NEW k0, NEW d, Sound(d), Legal(k0, d), NEW p \in RawPressure \cup {Absent}
    PROVE  Legal(k0, SetPen(d, p))
  <1>1. Quiet(SetPen(d, p), d)
    BY SetPenSound DEF Quiet
  <1> QED
    BY <1>1, QuietLegal

LEMMA EnsureProximityLegal ==
    ASSUME NEW k0, NEW d, Sound(d), Legal(k0, d)
    PROVE  /\ Legal(k0, EnsureProximity(d))
           /\ ~d.tipDown => ~EnsureProximity(d).tipDown
  <1>1. CASE d.inRange
    BY <1>1 DEF EnsureProximity
  <1>2. CASE ~d.inRange
    BY <1>2, ProximityInSound, OneFrameLegal DEF EnsureProximity
  <1> QED
    BY <1>1, <1>2

LEMMA DropTipLegal ==
    ASSUME NEW k0, NEW d, Sound(d), d.inRange, Legal(k0, d)
    PROVE  Legal(k0, DropTip(d))
  <1>1. Extends(DropTip(d), d)
    BY DropTipSound DEF Extends
  <1> QED
    BY <1>1, ExtendsLegal

LEMMA LiftTipLegal ==
    ASSUME NEW k0, NEW d, Sound(d), Legal(k0, d)
    PROVE  Legal(k0, LiftTip(d))
  <1>1. Extends(LiftTip(d), d)
    BY LiftTipSound DEF Extends
  <1> QED
    BY <1>1, ExtendsLegal

LEMMA ArmKeepAliveLegal ==
    ASSUME NEW k0, NEW d, Sound(d), Legal(k0, d)
    PROVE  Legal(k0, ArmKeepAlive(d))
  <1>1. Quiet(ArmKeepAlive(d), d)
    BY ArmKeepAliveSound DEF Quiet
  <1> QED
    BY <1>1, QuietLegal

LEMMA EmitHoverLegal ==
    ASSUME NEW k0, NEW d, Sound(d), ~d.tipDown, Legal(k0, d)
    PROVE  Sound(EmitHover(d)) /\ Legal(k0, EmitHover(d))
  BY HoverFrameSound, OneFrameLegal DEF EmitHover

LEMMA TipFrameLegal ==
    ASSUME NEW k0, NEW d, Sound(d), d.tipDown, Legal(k0, d),
           NEW k \in KernelState, k.tool = d.kernel.tool, k.touch = d.kernel.touch
    PROVE  Legal(k0, EmitFrame(d, k, 0, TipPressure(d)))
  <1> DEFINE e == EmitFrame(d, k, 0, TipPressure(d))
  <1>1. FrameOn(e, d, k, 0, TipPressure(d))
    BY TipFrameSound
  <1>2. d \in DeviceState /\ d.kernel.tool /\ d.kernel.touch
    BY DEF Sound, Mirrors
  <1>3. TipPressure(d) >= TipFloor
    BY <1>2, TipPressureInRange
  <1> HIDE DEF e
  <1>4. OneFrame(e, d)
    BY <1>1, <1>2, <1>3 DEF FrameOn, OneFrame, PenStep
  <1> QED
    BY <1>4, OneFrameLegal DEF e

LEMMA ResetPenLegal ==
    ASSUME NEW k0, NEW d, Sound(d), Legal(k0, d)
    PROVE  Legal(k0, ResetPen(d))
  <1> DEFINE s == StopKeepAlive(d)
  <1>1. Sound(s) /\ Quiet(s, d)
    BY StopKeepAliveSound DEF Quiet
  <1>2. Legal(k0, s)
    BY <1>1, QuietLegal
  <1>3. ResetPen(d) = IF s.inRange THEN ProximityOut(LiftTip(s)) ELSE s
    BY DEF ResetPen
  <1> HIDE DEF s
  <1>4. Sound(LiftTip(s)) /\ ~LiftTip(s).tipDown /\ Legal(k0, LiftTip(s))
    BY <1>1, <1>2, LiftTipSound, LiftTipLegal
  <1>5. Legal(k0, ProximityOut(LiftTip(s)))
    BY <1>4, ProximityOutSound, OneFrameLegal
  <1> QED
    BY <1>2, <1>3, <1>5

\* beginStroke ends in a frame that touches, after one that does not.
LEMMA BeginStrokeLegal ==
    ASSUME NEW k0, NEW d, Sound(d), Legal(k0, d)
    PROVE  LET b == BeginStroke(d)
           IN  /\ Legal(k0, b)
               /\ b.kernel.touch
               /\ Len(b.frames) > 0
               /\ b.frames[Len(b.frames)].touch
               /\ ~Before(k0, b, Len(b.frames)).touch
  <1> DEFINE l == IF d.inRange /\ d.tipDown THEN LiftTip(d) ELSE d
             n == EnsureProximity(l)
             b == DropTip(n)
  <1>1. Sound(l) /\ Legal(k0, l) /\ ~l.tipDown
    <2>1. CASE d.inRange /\ d.tipDown
      BY <2>1, LiftTipSound, LiftTipLegal
    <2>2. CASE ~(d.inRange /\ d.tipDown)
      BY <2>2 DEF Sound, Mirrors
    <2> QED
      BY <2>1, <2>2
  <1>2. BeginStroke(d) = b
    BY DEF BeginStroke
  <1> HIDE DEF l
  <1>3. Sound(n) /\ n.inRange /\ Legal(k0, n) /\ ~n.tipDown
    BY <1>1, EnsureProximitySound, EnsureProximityLegal
  <1> HIDE DEF n
  <1>4. Sound(b) /\ b.tipDown /\ OneFrame(b, n) /\ Legal(k0, b)
    BY <1>3, DropTipSound, DropTipLegal
  <1> HIDE DEF b
  <1>5. /\ n.frames \in Seq(KernelState) /\ b.kernel \in KernelState
        /\ b.frames = Append(n.frames, b.kernel)
        /\ n.kernel = IF Len(n.frames) = 0 THEN k0 ELSE n.frames[Len(n.frames)]
    BY <1>3, <1>4 DEF Legal, OneFrame
  <1>6. /\ Len(b.frames) = Len(n.frames) + 1 /\ Len(n.frames) \in Nat
        /\ b.frames[Len(b.frames)] = b.kernel
        /\ \A i \in 1..Len(n.frames) : b.frames[i] = n.frames[i]
    BY <1>5
  <1>7. b.kernel.touch /\ ~n.kernel.touch
    BY <1>3, <1>4 DEF Sound, Mirrors
  <1>8. Before(k0, b, Len(b.frames)) = n.kernel
    <2>1. CASE Len(n.frames) = 0
      BY <1>5, <1>6, <2>1 DEF Before
    <2>2. CASE Len(n.frames) # 0
      <3>1. Len(n.frames) \in 1..Len(n.frames) /\ Len(b.frames) # 1
            /\ Len(b.frames) - 1 = Len(n.frames)
        BY <1>6, <2>2
      <3> QED
        BY <1>5, <1>6, <2>2, <3>1 DEF Before
    <2> QED
      BY <2>1, <2>2
  <1> QED
    BY <1>2, <1>4, <1>6, <1>7, <1>8

-----------------------------------------------------------------------------
(* The handlers                                                            *)

LEMMA PointerDownLegal ==
    ASSUME Sound(pen), NEW p \in RawPressure \cup {Absent}, PointerDown(p)
    PROVE  Legal(pen.kernel, pen') /\ FreshContact(pen') /\ pen'.kernel.touch
  <1> DEFINE d == SetPen(Begin, p)
  <1>1. Sound(d) /\ Legal(pen.kernel, d)
    BY BeginSound, BeginLegal, SetPenSound, SetPenLegal
  <1>2. pen' = BeginStroke(d)
    BY DEF PointerDown, Handle
  <1> HIDE DEF d
  <1> DEFINE n == Len(pen'.frames)
  <1>3. /\ Legal(pen.kernel, pen')
        /\ pen'.kernel.touch
        /\ n > 0
        /\ pen'.frames[n].touch
        /\ ~Before(pen.kernel, pen', n).touch
    BY <1>1, <1>2, BeginStrokeLegal
  <1>4. n \in 1..n
    BY <1>3 DEF Legal
  <1> HIDE DEF n
  <1>5. IF n = 1 THEN ~pen.kernel.touch ELSE ~pen'.frames[n - 1].touch
    BY <1>3 DEF Before
  <1>6. FreshContact(pen')
    BY <1>3, <1>4, <1>5 DEF FreshContact, n
  <1> QED
    BY <1>3, <1>6

LEMMA PointerMoveLegal ==
    ASSUME Sound(pen), NEW p \in RawPressure \cup {Absent}, PointerMove(p)
    PROVE  Legal(pen.kernel, pen')
  <1> DEFINE d == SetPen(Begin, p)
  <1>1. Sound(d) /\ Legal(pen.kernel, d)
    BY BeginSound, BeginLegal, SetPenSound, SetPenLegal
  <1>2. pen' = IF ~d.inRange THEN DropTip(ProximityIn(d))
               ELSE IF d.tipDown THEN EmitFrame(d, d.kernel, 0, TipPressure(d))
               ELSE ArmKeepAlive(EmitHover(d))
    BY DEF PointerMove, Handle
  <1> HIDE DEF d
  <1>3. CASE ~d.inRange
    BY <1>1, <1>2, <1>3, ProximityInSound, OneFrameLegal, DropTipLegal
  <1>4. CASE d.inRange /\ d.tipDown
    <2>1. d.kernel \in KernelState
      BY <1>1 DEF Sound, DeviceState
    <2> QED
      BY <1>1, <1>2, <1>4, <2>1, TipFrameLegal
  <1>5. CASE d.inRange /\ ~d.tipDown
    BY <1>1, <1>2, <1>5, EmitHoverLegal, ArmKeepAliveLegal
  <1> QED
    BY <1>3, <1>4, <1>5

LEMMA PointerUpLegal ==
    ASSUME Sound(pen), PointerUp
    PROVE  Legal(pen.kernel, pen')
  <1>1. Sound(LiftTip(Begin)) /\ ~LiftTip(Begin).tipDown
        /\ Legal(pen.kernel, LiftTip(Begin))
    BY BeginSound, BeginLegal, LiftTipSound, LiftTipLegal
  <1> QED
    BY <1>1, EmitHoverLegal, ArmKeepAliveLegal DEF PointerUp, Handle

LEMMA LeftButtonLegal ==
    ASSUME Sound(pen), NEW pressed \in BOOLEAN, LeftButton(pressed)
    PROVE  Legal(pen.kernel, pen')
  <1> DEFINE d == EnsureProximity(Begin)
  <1>1. Sound(d) /\ d.inRange /\ Legal(pen.kernel, d)
    BY BeginSound, BeginLegal, EnsureProximitySound, EnsureProximityLegal
  <1>2. pen' = IF pressed THEN DropTip(d) ELSE ArmKeepAlive(LiftTip(d))
    BY DEF LeftButton, Handle
  <1> HIDE DEF d
  <1>3. Sound(LiftTip(d)) /\ Legal(pen.kernel, LiftTip(d))
    BY <1>1, LiftTipSound, LiftTipLegal
  <1> QED
    BY <1>1, <1>2, <1>3, DropTipLegal, ArmKeepAliveLegal

LEMMA BarrelButtonLegal ==
    ASSUME Sound(pen), NEW b \in Barrel, NEW pressed \in BOOLEAN,
           BarrelButton(b, pressed)
    PROVE  Legal(pen.kernel, pen')
  <1> DEFINE d == EnsureProximity(Begin)
             k == [d.kernel EXCEPT !.barrel =
                      IF pressed THEN @ \cup {b} ELSE @ \ {b}]
             e == EmitFrame(d, k, HoverDist, 0)
  <1>1. Sound(d) /\ d.inRange /\ Legal(pen.kernel, d)
    BY BeginSound, BeginLegal, EnsureProximitySound, EnsureProximityLegal
  <1>2. d \in DeviceState /\ d.kernel \in KernelState
    BY <1>1 DEF Sound, DeviceState
  <1>3. pen' = IF d.tipDown THEN EmitFrame(d, k, 0, TipPressure(d)) ELSE e
    BY DEF BarrelButton, Handle
  <1> HIDE DEF d
  <1>4. k \in KernelState /\ k.tool = d.kernel.tool /\ k.touch = d.kernel.touch
    BY <1>2 DEF KernelState
  <1> HIDE DEF k
  <1>5. FrameOn(e, d, k, HoverDist, 0)
    BY <1>2, <1>4, AxisValues, EmitFrameFields, Zenon
  <1> HIDE DEF e
  <1>6. CASE d.tipDown
    BY <1>1, <1>3, <1>4, <1>6, TipFrameLegal
  <1>7. CASE ~d.tipDown
    <2>1. OneFrame(e, d)
      BY <1>1, <1>4, <1>5, <1>7
         DEF FrameOn, OneFrame, PenStep, HoverDist, Sound, Mirrors
    <2> QED
      BY <1>1, <1>3, <1>7, <2>1, OneFrameLegal
  <1> QED
    BY <1>6, <1>7

LEMMA CallbackLegal ==
    ASSUME Sound(pen), Callback
    PROVE  Legal(pen.kernel, pen')
  <1>1. CASE Hovering(pen)
    <2>1. PICK e : FrameOn(e, Begin, pen.kernel, e.kernel.distance, 0)
                   /\ e.kernel.distance \in {HoverDist, HoverDist + 1}
                   /\ pen'.frames = e.frames /\ pen'.kernel = e.kernel
      BY <1>1, CallbackHovering
    <2>2. Begin.kernel = pen.kernel /\ pen.kernel.touch = FALSE
      BY <1>1, BeginSound DEF Sound, Mirrors, Hovering, DeviceState
    <2>3. OneFrame(e, Begin)
      BY <2>1, <2>2 DEF FrameOn, OneFrame, PenStep, HoverDist
    <2>4. OneFrame(pen', Begin)
      BY <2>1, <2>3 DEF OneFrame
    <2> QED
      BY <2>4, BeginLegal, OneFrameLegal
  <1>2. CASE ~Hovering(pen)
    <2>1. Quiet(pen', Begin)
      BY <1>2, BeginSound, CallbackLate DEF Quiet
    <2> QED
      BY <2>1, BeginLegal, QuietLegal
  <1> QED
    BY <1>1, <1>2

-----------------------------------------------------------------------------
(* The theorems                                                            *)

\* Every frame of every handler is a legal step of the pen.
LEMMA EveryStepLegal ==
    ASSUME IInv, Next
    PROVE  Legal(pen.kernel, pen')
  <1>0. Sound(pen)
    BY DEF IInv
  <1>1. CASE Reset
    BY <1>0, <1>1, BeginSound, BeginLegal, ResetPenLegal DEF Reset, Handle
  <1>2. ASSUME NEW t \in Timer, FireTimer(t) PROVE Legal(pen.kernel, pen')
    <2>1. Sound(Begin) /\ pen' = [Begin EXCEPT !.armed = pen.armed \ {t}]
      BY <1>0, <1>2, BeginSound DEF FireTimer
    <2>2. Quiet(pen', Begin)
      BY <2>1 DEF Quiet, Sound, DeviceState
    <2> QED
      BY <1>0, <2>2, BeginLegal, QuietLegal
  <1> QED
    BY <1>0, <1>1, <1>2, PointerDownLegal, PointerMoveLegal, PointerUpLegal,
       LeftButtonLegal, BarrelButtonLegal, CallbackLegal DEF Next

LEMMA LegalIsProtocol ==
    ASSUME Legal(pen.kernel, pen') PROVE PenProtocolStep
  <1> DEFINE f == pen'.frames
             seen == <<pen.kernel>> \o f
  <1>1. f \in Seq(KernelState)
    BY DEF Legal
  <1>2. ASSUME NEW i \in 1..Len(f) PROVE PenStep(seen[i], seen[i + 1])
    <2>1. seen[i + 1] = f[i]
      BY <1>1, <1>2
    <2>2. seen[i] = Before(pen.kernel, pen', i)
      BY <1>1, <1>2 DEF Before
    <2>3. PenStep(Before(pen.kernel, pen', i), f[i])
      BY <1>2 DEF Legal
    <2> QED
      BY <2>1, <2>2, <2>3
  <1> QED
    BY <1>2 DEF PenProtocolStep

\* The pen protocol of emitFrame, proximityIn, dropTip and liftTip holds for
\* every client: proximity in a frame of its own before the tip, distance 0 and
\* a pressure over the floor while it touches, no pressure while it hovers.
THEOREM ProtocolCorrect == Spec => PenProtocol
  <1>1. IInv /\ [Next]_vars => [PenProtocolStep]_vars
    <2> SUFFICES ASSUME IInv, Next PROVE PenProtocolStep
      OBVIOUS
    <2>1. Legal(pen.kernel, pen')
      BY EveryStepLegal
    <2> QED
      BY <2>1, LegalIsProtocol
  <1> QED
    BY <1>1, AlwaysSound, PTL DEF Spec, PenProtocol

\* beginStroke gives every pointerdown a fresh contact, even when the pointerup
\* of the stroke before it was lost.
THEOREM StrokeCorrect == Spec => EveryStrokeVisible
  <1> DEFINE Visible ==
        (\E p \in RawPressure \cup {Absent} : PointerDown(p))
            => FreshContact(pen') /\ pen'.kernel.touch
  <1>1. IInv /\ [Next]_vars => [Visible]_vars
    BY PointerDownLegal DEF IInv
  <1> QED
    BY <1>1, AlwaysSound, PTL DEF Spec, EveryStrokeVisible

-----------------------------------------------------------------------------
(***************************************************************************)
(* Theorems about the pen that several sessions share, for every set of    *)
(* clients: what is proved of the pen alone carries over, and two facts    *)
(* about the clients are added to the inductive invariant.                 *)
(***************************************************************************)

\* A tip that is down is held by a client whose session runs, and without such
\* a session no tool is in proximity, unless a message came late or a reset
\* was missed.
Held == pen.tipDown => ghost \/ \E c \in holding : Runs(c)
Empty == pen.inRange => ghost \/ \E c \in Client : Runs(c)

SharingInv == IInv /\ SharingTypeOK /\ Held /\ Empty

-----------------------------------------------------------------------------
(* The steps of the sessions are steps of the pen                          *)

LEMMA StrokeIsPenStep ==
    ASSUME NEW c \in Client, Stroke(c)
    PROVE  [Next]_vars
  BY DEF Stroke, TouchDown, TouchMove, TouchUp, TouchUpIgnored, Click, Squeeze, Next

LEMMA SharingStepIsPenStep ==
    ASSUME [SharingNext]_sharingVars
    PROVE  [Next]_vars
  <1>1. ASSUME NEW c \in Client, Connect(c) \/ End(c) PROVE [Next]_vars
    BY <1>1 DEF Connect, End, vars
  <1>2. ASSUME NEW c \in Client, SwipeAway(c) \/ ResetDevices(c) PROVE [Next]_vars
    BY <1>2 DEF SwipeAway, ResetDevices, Next
  <1>3. CASE Close
    BY <1>3 DEF Close, vars
  <1>4. ASSUME NEW t \in Timer, Expiry(t) PROVE [Next]_vars
    BY <1>4 DEF Expiry, Next
  <1>5. CASE Tick
    BY <1>5 DEF Tick, Next
  <1>6. CASE UNCHANGED sharingVars
    BY <1>6 DEF sharingVars, vars
  <1> QED
    BY <1>1, <1>2, <1>3, <1>4, <1>5, <1>6, StrokeIsPenStep DEF SharingNext

\* Whatever the sessions do to it together, the pen behaves as Tablet says.
THEOREM SharingImplementsTablet == SharingSpec => Spec
  <1>1. SharingInit => Init
    BY DEF SharingInit
  <1>2. [SharingNext]_sharingVars => [Next]_vars
    BY SharingStepIsPenStep
  <1> QED
    BY <1>1, <1>2, PTL DEF SharingSpec, Spec

-----------------------------------------------------------------------------
(* What the handlers do to the tip                                         *)

LEMMA PointerUpLifts ==
    ASSUME Sound(pen), PointerUp
    PROVE  ~pen'.tipDown
  <1>1. Sound(LiftTip(Begin)) /\ ~LiftTip(Begin).tipDown
    BY BeginSound, LiftTipSound
  <1>2. Sound(EmitHover(LiftTip(Begin))) /\ ~EmitHover(LiftTip(Begin)).tipDown
    BY <1>1, HoverFrameSound DEF EmitHover, FrameOn
  <1> QED
    BY <1>2, ArmKeepAliveSound DEF PointerUp, Handle

LEMMA ReleaseLifts ==
    ASSUME Sound(pen), LeftButton(FALSE)
    PROVE  ~pen'.tipDown
  <1> DEFINE d == EnsureProximity(Begin)
  <1>1. Sound(d)
    BY BeginSound, EnsureProximitySound
  <1>2. pen' = ArmKeepAlive(LiftTip(d))
    BY DEF LeftButton, Handle
  <1> HIDE DEF d
  <1>3. Sound(LiftTip(d)) /\ ~LiftTip(d).tipDown
    BY <1>1, LiftTipSound
  <1> QED
    BY <1>2, <1>3, ArmKeepAliveSound

LEMMA ResetReleasesTool ==
    ASSUME Sound(pen), Reset
    PROVE  ~pen'.inRange /\ ~pen'.tipDown
  <1>1. Sound(ResetPen(Begin)) /\ ~ResetPen(Begin).inRange
    BY BeginSound, ResetPenSound
  <1> QED
    BY <1>1 DEF Reset, Handle, Sound, Mirrors

\* A barrel button does not touch the tip.
LEMMA BarrelKeepsTip ==
    ASSUME Sound(pen), NEW b \in Barrel, NEW pressed \in BOOLEAN,
           BarrelButton(b, pressed), pen'.tipDown
    PROVE  pen.tipDown
  <1> DEFINE d == EnsureProximity(Begin)
             k == [d.kernel EXCEPT !.barrel =
                      IF pressed THEN @ \cup {b} ELSE @ \ {b}]
             e == EmitFrame(d, k, HoverDist, 0)
  <1>1. Sound(d) /\ (d.tipDown => pen.tipDown)
    BY BeginSound, EnsureProximitySound, ProximityInSound DEF EnsureProximity
  <1>2. d \in DeviceState /\ d.kernel \in KernelState
    BY <1>1 DEF Sound, DeviceState
  <1>3. pen' = IF d.tipDown THEN EmitFrame(d, k, 0, TipPressure(d)) ELSE e
    BY DEF BarrelButton, Handle
  <1> HIDE DEF d
  <1>4. k \in KernelState
    BY <1>2 DEF KernelState
  <1> HIDE DEF k
  <1>5. FrameOn(e, d, k, HoverDist, 0)
    BY <1>2, <1>4, AxisValues, EmitFrameFields, Zenon
  <1>6. CASE ~d.tipDown
    <2>1. pen' = e /\ ~e.tipDown
      BY <1>3, <1>5, <1>6 DEF FrameOn
    <2> QED
      BY <2>1
  <1> QED
    BY <1>1, <1>6

\* Neither does the keep-alive, in time or late.
LEMMA TimerKeepsPen ==
    ASSUME Sound(pen), Callback \/ \E t \in Timer : FireTimer(t)
    PROVE  /\ pen'.tipDown => pen.tipDown
           /\ pen'.inRange => pen.inRange
  <1>1. CASE Callback /\ Hovering(pen)
    BY <1>1, CallbackHovering DEF Hovering
  <1>2. CASE Callback /\ ~Hovering(pen)
    BY <1>2, CallbackLate
  <1>3. ASSUME NEW t \in Timer, FireTimer(t)
        PROVE  pen'.tipDown = pen.tipDown /\ pen'.inRange = pen.inRange
    <2>1. Sound(Begin) /\ Begin.tipDown = pen.tipDown /\ Begin.inRange = pen.inRange
          /\ pen' = [Begin EXCEPT !.armed = pen.armed \ {t}]
      BY <1>3, BeginSound DEF FireTimer
    <2> QED
      BY <2>1 DEF Sound, DeviceState
  <1> QED
    BY <1>1, <1>2, <1>3

-----------------------------------------------------------------------------
(* The invariant                                                           *)

LEMMA SharingInitSound == SharingInit => SharingInv
  <1> SUFFICES ASSUME SharingInit PROVE SharingInv
    OBVIOUS
  <1>1. pen.inRange = FALSE /\ pen.tipDown = FALSE
    BY DEF SharingInit, Init
  <1>2. SharingTypeOK
    BY DEF SharingInit, SharingTypeOK
  <1> QED
    BY <1>1, <1>2, InitSound DEF SharingInit, SharingInv, Held, Empty

\* The sessions' own bookkeeping keeps its type.
LEMMA SharingTypeSound ==
    ASSUME SharingTypeOK, [SharingNext]_sharingVars
    PROVE  SharingTypeOK'
  <1> USE DEF SharingTypeOK
  <1>1. ASSUME NEW c \in Client, Stroke(c) PROVE SharingTypeOK'
    BY <1>1 DEF Stroke, TouchDown, TouchMove, TouchUp, TouchUpIgnored, Click,
                Squeeze, Message, Hold, Release
  <1>2. ASSUME NEW c \in Client, Connect(c) PROVE SharingTypeOK'
    BY <1>2 DEF Connect, GoTo
  <1>3. ASSUME NEW c \in Client, SwipeAway(c) PROVE SharingTypeOK'
    BY <1>3 DEF SwipeAway
  <1>4. ASSUME NEW c \in Client, ResetDevices(c) PROVE SharingTypeOK'
    BY <1>4 DEF ResetDevices, GoTo
  <1>5. ASSUME NEW c \in Client, End(c) PROVE SharingTypeOK'
    BY <1>5 DEF End, GoTo
  <1>6. CASE Close
    BY <1>6 DEF Close
  <1>7. CASE Tick \/ (\E t \in Timer : Expiry(t)) \/ UNCHANGED sharingVars
    BY <1>7 DEF Tick, Expiry, sharing, sharingVars
  <1> QED
    BY <1>1, <1>2, <1>3, <1>4, <1>5, <1>6, <1>7 DEF SharingNext

\* A message of a session that runs is covered by that session, a late one by
\* the history.
LEMMA MessageAccounted ==
    ASSUME SharingTypeOK, NEW c \in Client, Message(c)
    PROVE  /\ at' = at
           /\ ghost => ghost'
           /\ Runs(c) \/ ghost'
  BY DEF SharingTypeOK, Message, Runs

\* A stroke holds the tip, lifts it, or leaves it as it is.
LEMMA StrokeKeepsHold ==
    ASSUME SharingInv, NEW c \in Client, Stroke(c)
    PROVE  Held' /\ Empty'
  <1>0. Sound(pen) /\ SharingTypeOK /\ Held /\ Empty
    BY DEF SharingInv, IInv
  <1>1. ASSUME Message(c) PROVE Empty'
    BY <1>0, <1>1, MessageAccounted DEF Empty, Runs
  <1>2. ASSUME NEW p \in RawPressure \cup {Absent}, TouchDown(c, p)
        PROVE  Held' /\ Empty'
    BY <1>0, <1>1, <1>2, MessageAccounted DEF TouchDown, Hold, Held, Runs
  <1>3. ASSUME NEW p \in RawPressure \cup {Absent}, TouchMove(c, p)
        PROVE  Held' /\ Empty'
    BY <1>0, <1>1, <1>3, MessageAccounted DEF TouchMove, Held, Runs
  <1>4. CASE TouchUp(c)
    <2>1. ~pen'.tipDown
      BY <1>0, <1>4, PointerUpLifts DEF TouchUp
    <2> QED
      BY <1>1, <1>4, <2>1 DEF TouchUp, Held
  <1>5. CASE TouchUpIgnored(c)
    BY <1>0, <1>5 DEF TouchUpIgnored, vars, Sound, Mirrors, Held, Empty
  <1>6. CASE Click(c, TRUE)
    BY <1>0, <1>1, <1>6, MessageAccounted DEF Click, Hold, Held, Runs
  <1>7. CASE Click(c, FALSE)
    <2>1. ~pen'.tipDown
      BY <1>0, <1>7, ReleaseLifts DEF Click
    <2> QED
      BY <1>1, <1>7, <2>1 DEF Click, Held
  <1>8. ASSUME NEW b \in Barrel, NEW pressed \in BOOLEAN, Squeeze(c, b, pressed)
        PROVE  Held' /\ Empty'
    <2>1. pen'.tipDown => pen.tipDown
      BY <1>0, <1>8, BarrelKeepsTip DEF Squeeze
    <2>2. Message(c) /\ holding' = holding
      BY <1>8 DEF Squeeze
    <2> QED
      BY <1>0, <1>1, <2>1, <2>2, MessageAccounted DEF Held, Runs
  <1> QED
    BY <1>2, <1>3, <1>4, <1>5, <1>6, <1>7, <1>8 DEF Stroke

LEMMA SharingNextSound ==
    ASSUME SharingInv, [SharingNext]_sharingVars
    PROVE  SharingInv'
  <1>0. Sound(pen) /\ SharingTypeOK /\ Held /\ Empty
    BY DEF SharingInv, IInv
  <1>1. IInv'
    BY SharingStepIsPenStep, NextSound DEF SharingInv
  <1>2. SharingTypeOK'
    BY <1>0, SharingTypeSound
  <1>3. ASSUME NEW c \in Client, Connect(c) PROVE Held' /\ Empty'
    BY <1>0, <1>3 DEF Connect, GoTo, SharingTypeOK, Held, Empty, Runs
  <1>4. ASSUME Reset PROVE Held' /\ Empty'
    BY <1>0, <1>4, ResetReleasesTool DEF Held, Empty
  <1>5. ASSUME NEW c \in Client, ResetDevices(c), ~Reset PROVE Held' /\ Empty'
    <2>1. pen' = pen /\ (pen.inRange => ghost')
      BY <1>5 DEF ResetDevices, vars
    <2> QED
      BY <1>0, <2>1 DEF Sound, Mirrors, Held, Empty
  <1>6. ASSUME NEW c \in Client, End(c) PROVE Held' /\ Empty'
    BY <1>0, <1>6 DEF End, GoTo, SharingTypeOK, Held, Empty, Runs
  <1>7. ASSUME Close PROVE Held' /\ Empty'
    BY <1>0, <1>7 DEF Close, Held, Empty, Runs
  <1>8. ASSUME Tick \/ \E t \in Timer : Expiry(t)
        PROVE  Held' /\ Empty'
    <2>1. (pen'.tipDown => pen.tipDown) /\ (pen'.inRange => pen.inRange)
      BY <1>0, <1>8, TimerKeepsPen DEF Tick, Expiry
    <2> QED
      BY <1>0, <1>8, <2>1 DEF Tick, Expiry, sharing, Held, Empty, Runs
  <1>9. ASSUME UNCHANGED sharingVars PROVE Held' /\ Empty'
    BY <1>0, <1>9 DEF sharingVars, Held, Empty, Runs
  <1>10. ASSUME NEW c \in Client, SwipeAway(c) PROVE Reset
    BY <1>10 DEF SwipeAway
  <1>11. Held' /\ Empty'
    BY <1>3, <1>4, <1>5, <1>6, <1>7, <1>8, <1>9, <1>10, StrokeKeepsHold, Zenon
       DEF SharingNext
  <1> QED
    BY <1>1, <1>2, <1>11 DEF SharingInv

LEMMA AlwaysShared == SharingSpec => []SharingInv
  BY SharingInitSound, SharingNextSound, PTL DEF SharingSpec

\* A tip that is down is held by a client whose session runs, whatever the
\* others do meanwhile; only a late message or a reset that was missed leaves
\* it down without one, until the next reset.
THEOREM GhostTipCorrect == SharingSpec => []NoGhostTip
  <1>1. SharingInv => NoGhostTip
    BY DEF SharingInv, Held, NoGhostTip
  <1> QED
    BY <1>1, AlwaysShared, PTL

\* After the reset of the last session the pen is out of proximity, no timer
\* runs and a late callback sends nothing: only a late message still does.
THEOREM QuietCorrect == SharingSpec => QuietWithoutSessions
  <1> DEFINE Quiescent ==
        ~ghost /\ (\A c \in Client : ~Runs(c)) =>
          /\ ~pen.inRange /\ pen.armed = {}
          /\ pen'.frames # <<>> => ghost' \/ UNCHANGED pen
  <1>1. SharingInv /\ [SharingNext]_sharingVars => [Quiescent]_sharingVars
    <2> SUFFICES ASSUME SharingInv, SharingNext, ~ghost, \A c \in Client : ~Runs(c)
                 PROVE  Quiescent
      OBVIOUS
    <2>1. Sound(pen) /\ SharingTypeOK /\ ~pen.inRange
      BY DEF SharingInv, IInv, Empty
    <2>2. pen.keepAlive = NoTimer
      BY <2>1 DEF Sound, TimerOwned, Hovering
    <2>3. pen.armed = {}
      BY <2>1, <2>2, TimerAssumption DEF Sound, TimerOwned, DeviceState
    <2>4. ASSUME NEW c \in Client, Message(c) PROVE ghost'
      BY <2>1, <2>4, MessageAccounted
    <2>5. ASSUME NEW c \in Client, Stroke(c) PROVE ghost' \/ UNCHANGED pen
      BY <2>4, <2>5
         DEF Stroke, TouchDown, TouchMove, TouchUp, TouchUpIgnored, Click, Squeeze, vars
    <2>6. ASSUME Reset PROVE pen'.frames = <<>>
      <3>1. Sound(Begin) /\ ~Begin.inRange /\ Begin.frames = <<>>
        BY <2>1, BeginSound
      <3>2. StopKeepAlive(Begin).frames = <<>> /\ ~StopKeepAlive(Begin).inRange
        BY <3>1, StopKeepAliveSound
      <3> QED
        BY <2>6, <3>2 DEF Reset, Handle, ResetPen
    <2>7. ASSUME NEW c \in Client, ResetDevices(c) PROVE FALSE
      BY <2>7 DEF ResetDevices, Runs
    <2>8. ASSUME NEW t \in Timer, Expiry(t) PROVE FALSE
      BY <2>3, <2>8 DEF Expiry, FireTimer
    <2>9. CASE Tick
      BY <2>1, <2>3, <2>9, CallbackLate DEF Tick, Hovering
    <2>10. CASE Close \/ \E c \in Client : Connect(c) \/ End(c)
      BY <2>1, <2>3, <2>10 DEF Close, Connect, End
    <2>11. CASE \E c \in Client : Stroke(c) \/ SwipeAway(c)
      BY <2>1, <2>3, <2>5, <2>6, <2>11 DEF SwipeAway
    <2> QED
      BY <2>7, <2>8, <2>9, <2>10, <2>11 DEF SharingNext
  <1> QED
    BY <1>1, AlwaysShared, PTL DEF SharingSpec, QuietWithoutSessions

-----------------------------------------------------------------------------
(***************************************************************************)
(* The ticks the compositor does not see.  Between two ticks a handler     *)
(* leaves kaToggle alone and moves the distance to 0 or HoverDist only.    *)
(***************************************************************************)

Steady(e, d) ==
    /\ e.kaToggle = d.kaToggle
    /\ e.kernel.distance \in {0, HoverDist, d.kernel.distance}

\* kaToggle is never behind a distance of HoverDist + 1, and after a tick that
\* was not seen it promises the other distance for the next one.
TickInv ==
    /\ IInv
    /\ unseen \in 0..1
    /\ pen.kernel.distance = HoverDist + 1 => pen.kaToggle
    /\ unseen = 1 => ~pen.kaToggle /\ pen.kernel.distance # HoverDist + 1

-----------------------------------------------------------------------------
(* The steps of the handlers                                               *)

LEMMA SteadyTransitive ==
    ASSUME NEW d, NEW e, NEW f, Steady(e, d), Steady(f, e)
    PROVE  Steady(f, d)
  BY DEF Steady

LEMMA EmitFrameSteady ==
    ASSUME NEW d, Sound(d), NEW k \in KernelState, NEW x \in {0, HoverDist},
           NEW p \in 0..PressureMax
    PROVE  Steady(EmitFrame(d, k, x, p), d)
  <1> DEFINE n == [k EXCEPT !.distance = x, !.pressure = p]
  <1>1. n.distance = x
    BY DEF KernelState
  <1> HIDE DEF n
  <1>2. EmitFrame(d, k, x, p) = [d EXCEPT !.kernel = n, !.frames = Append(d.frames, n)]
    BY DEF EmitFrame, Sync, n
  <1>3. d \in DeviceState
    BY DEF Sound
  <1> QED
    BY <1>1, <1>2, <1>3 DEF Steady, DeviceState

\* The two frames that pass the kernel state on as it is.
LEMMA PlainFramesSteady ==
    ASSUME NEW d, Sound(d)
    PROVE  /\ Steady(EmitHover(d), d)
           /\ Steady(EmitFrame(d, d.kernel, 0, TipPressure(d)), d)
  <1>1. d.kernel \in KernelState /\ TipPressure(d) \in 0..PressureMax
    BY TipPressureInRange DEF Sound, DeviceState
  <1> QED
    BY <1>1, AxisValues, EmitFrameSteady DEF EmitHover

LEMMA SetPenSteady ==
    ASSUME NEW d, Sound(d), NEW p \in RawPressure \cup {Absent}
    PROVE  Steady(SetPen(d, p), d)
  <1>1. SetPen(d, p).kernel = d.kernel
    BY SetPenSound
  <1>2. SetPen(d, p).kaToggle = d.kaToggle
    BY DEF Sound, DeviceState, SetPen
  <1> QED
    BY <1>1, <1>2 DEF Steady

LEMMA StopKeepAliveSteady ==
    ASSUME NEW d, Sound(d)
    PROVE  Steady(StopKeepAlive(d), d)
  BY DEF Sound, DeviceState, StopKeepAlive, Steady

LEMMA ArmKeepAliveSteady ==
    ASSUME NEW d, Sound(d)
    PROVE  Steady(ArmKeepAlive(d), d)
  <1>1. d \in DeviceState
    BY DEF Sound
  <1>2. ASSUME NEW t PROVE Steady(StartTimer(d, t), d)
    BY <1>1 DEF DeviceState, StartTimer, Steady
  <1> QED
    BY <1>2, StopKeepAliveSteady, Zenon DEF ArmKeepAlive

LEMMA ProximitySteady ==
    ASSUME NEW d, Sound(d)
    PROVE  Steady(ProximityIn(d), d) /\ Steady(ProximityOut(d), d)
  <1>1. d \in DeviceState /\ d.kernel \in KernelState
    BY DEF Sound, DeviceState
  <1>2. Steady(ProximityIn(d), d)
    <2> DEFINE k == [d.kernel EXCEPT !.tool = TRUE]
               e == EmitFrame(d, k, HoverDist, 0)
    <2>1. k \in KernelState
      BY <1>1 DEF KernelState
    <2>2. ProximityIn(d) = [e EXCEPT !.inRange = TRUE]
      BY DEF ProximityIn
    <2> HIDE DEF k
    <2>3. Steady(e, d) /\ e \in DeviceState
      <3>1. FrameOn(e, d, k, HoverDist, 0)
        BY <1>1, <2>1, AxisValues, EmitFrameFields, Zenon
      <3> QED
        BY <2>1, <3>1, AxisValues, EmitFrameSteady DEF FrameOn
    <2> HIDE DEF e
    <2> QED
      BY <2>2, <2>3 DEF DeviceState, Steady
  <1>3. Steady(ProximityOut(d), d)
    <2> DEFINE s == StopKeepAlive(d)
               k == [s.kernel EXCEPT !.touch = IF s.tipDown THEN FALSE ELSE @,
                                     !.tool = FALSE]
               c == [s EXCEPT !.tipDown = FALSE, !.inRange = FALSE]
    <2>1. Sound(s) /\ Steady(s, d)
      BY StopKeepAliveSound, StopKeepAliveSteady
    <2>2. s \in DeviceState /\ s.kernel \in KernelState
      BY <2>1 DEF Sound, DeviceState
    <2>3. ProximityOut(d) = Sync(c, k)
      BY DEF ProximityOut
    <2> HIDE DEF s
    <2>4. k.distance = s.kernel.distance
      BY <2>2 DEF KernelState
    <2> HIDE DEF k
    <2>5. c \in DeviceState /\ c.kaToggle = s.kaToggle
      BY <2>2 DEF DeviceState
    <2> HIDE DEF c
    <2>6. Sync(c, k).kernel = k /\ Sync(c, k).kaToggle = c.kaToggle
      BY <2>5 DEF Sync, DeviceState
    <2> QED
      BY <2>1, <2>3, <2>4, <2>5, <2>6 DEF Steady
  <1> QED
    BY <1>2, <1>3

LEMMA TipSteady ==
    ASSUME NEW d, Sound(d)
    PROVE  Steady(DropTip(d), d) /\ Steady(LiftTip(d), d)
  <1>0. Steady(d, d)
    BY DEF Steady
  <1>1. ASSUME NEW s, Sound(s), NEW down \in BOOLEAN, NEW x \in {0, HoverDist},
               NEW p \in 0..PressureMax
        PROVE  Steady([EmitFrame(s, WithTouch(s, down), x, p) EXCEPT !.tipDown = down], s)
    <2> DEFINE k == WithTouch(s, down)
               e == EmitFrame(s, k, x, p)
    <2>1. s \in DeviceState /\ s.kernel \in KernelState
      BY <1>1 DEF Sound, DeviceState
    <2>2. k \in KernelState
      BY <2>1 DEF WithTouch, KernelState
    <2> HIDE DEF k
    <2>3. Steady(e, s)
      BY <1>1, <2>2, EmitFrameSteady
    <2>4. e \in DeviceState
      BY <1>1, <2>1, <2>2, EmitFrameFields DEF FrameOn
    <2> HIDE DEF e
    <2>5. Steady([e EXCEPT !.tipDown = down], s)
      BY <2>3, <2>4 DEF Steady, DeviceState
    <2> QED
      BY <2>5 DEF e, k
  <1>2. Steady(DropTip(d), d)
    <2>1. CASE d.tipDown
      BY <1>0, <2>1 DEF DropTip
    <2>2. CASE ~d.tipDown
      <3> DEFINE s == StopKeepAlive(d)
                 f == [EmitFrame(s, WithTouch(s, TRUE), 0, TipPressure(s))
                         EXCEPT !.tipDown = TRUE]
      <3>1. Sound(s) /\ Steady(s, d)
        BY StopKeepAliveSound, StopKeepAliveSteady
      <3>2. DropTip(d) = f
        BY <2>2 DEF DropTip
      <3> HIDE DEF s
      <3>3. TipPressure(s) \in 0..PressureMax
        BY <3>1, TipPressureInRange DEF Sound
      <3>4. Steady(f, s)
        BY <1>1, <3>1, <3>3
      <3> HIDE DEF f
      <3> QED
        BY <3>1, <3>2, <3>4, SteadyTransitive
    <2> QED
      BY <2>1, <2>2
  <1>3. Steady(LiftTip(d), d)
    <2>1. CASE ~d.tipDown
      BY <1>0, <2>1 DEF LiftTip
    <2>2. CASE d.tipDown
      BY <1>1, <2>2, AxisValues DEF LiftTip
    <2> QED
      BY <2>1, <2>2
  <1> QED
    BY <1>2, <1>3

LEMMA EnsureProximitySteady ==
    ASSUME NEW d, Sound(d)
    PROVE  Steady(EnsureProximity(d), d)
  BY ProximitySteady DEF EnsureProximity, Steady

LEMMA BeginSteady ==
    ASSUME Sound(pen)
    PROVE  Steady(Begin, pen)
  BY DEF Sound, DeviceState, Begin, Steady

-----------------------------------------------------------------------------
(* The handlers                                                            *)

LEMMA PointerDownSteady ==
    ASSUME Sound(pen), NEW p \in RawPressure \cup {Absent}, PointerDown(p)
    PROVE  Steady(pen', pen)
  <1> DEFINE d == SetPen(Begin, p)
             l == IF d.inRange /\ d.tipDown THEN LiftTip(d) ELSE d
  <1>1. Sound(d) /\ Steady(d, pen)
    BY BeginSound, BeginSteady, SetPenSound, SetPenSteady, SteadyTransitive
  <1>2. pen' = DropTip(EnsureProximity(l))
    BY DEF PointerDown, Handle, BeginStroke
  <1> HIDE DEF d
  <1>3. Sound(l) /\ Steady(l, pen)
    BY <1>1, LiftTipSound, TipSteady, SteadyTransitive
  <1> HIDE DEF l
  <1>4. Sound(EnsureProximity(l)) /\ Steady(EnsureProximity(l), pen)
    BY <1>3, EnsureProximitySound, EnsureProximitySteady, SteadyTransitive
  <1> QED
    BY <1>2, <1>4, TipSteady, SteadyTransitive

LEMMA PointerMoveSteady ==
    ASSUME Sound(pen), NEW p \in RawPressure \cup {Absent}, PointerMove(p)
    PROVE  Steady(pen', pen)
  <1> DEFINE d == SetPen(Begin, p)
  <1>1. Sound(d) /\ Steady(d, pen)
    BY BeginSound, BeginSteady, SetPenSound, SetPenSteady, SteadyTransitive
  <1>2. pen' = IF ~d.inRange THEN DropTip(ProximityIn(d))
               ELSE IF d.tipDown THEN EmitFrame(d, d.kernel, 0, TipPressure(d))
               ELSE ArmKeepAlive(EmitHover(d))
    BY DEF PointerMove, Handle
  <1> HIDE DEF d
  <1>3. CASE ~d.inRange
    <2>1. Sound(ProximityIn(d)) /\ Steady(ProximityIn(d), pen)
      BY <1>1, <1>3, ProximityInSound, ProximitySteady, SteadyTransitive
    <2> QED
      BY <1>2, <1>3, <2>1, TipSteady, SteadyTransitive
  <1>4. CASE d.inRange /\ d.tipDown
    BY <1>1, <1>2, <1>4, PlainFramesSteady, SteadyTransitive
  <1>5. CASE d.inRange /\ ~d.tipDown
    <2>1. Sound(EmitHover(d)) /\ Steady(EmitHover(d), pen)
      BY <1>1, HoverFrameSound, PlainFramesSteady, SteadyTransitive DEF EmitHover
    <2> QED
      BY <1>2, <1>5, <2>1, ArmKeepAliveSteady, SteadyTransitive
  <1> QED
    BY <1>3, <1>4, <1>5

LEMMA PointerUpSteady ==
    ASSUME Sound(pen), PointerUp
    PROVE  Steady(pen', pen)
  <1>1. Sound(LiftTip(Begin)) /\ Steady(LiftTip(Begin), pen)
    BY BeginSound, BeginSteady, LiftTipSound, TipSteady, SteadyTransitive
  <1> DEFINE h == EmitHover(LiftTip(Begin))
  <1>2. Sound(h) /\ Steady(h, pen)
    BY <1>1, HoverFrameSound, PlainFramesSteady, SteadyTransitive DEF EmitHover
  <1>3. pen' = ArmKeepAlive(h)
    BY DEF PointerUp, Handle
  <1> HIDE DEF h
  <1> QED
    BY <1>2, <1>3, ArmKeepAliveSteady, SteadyTransitive

LEMMA ButtonSteady ==
    ASSUME Sound(pen), NEW pressed \in BOOLEAN,
           LeftButton(pressed) \/ \E b \in Barrel : BarrelButton(b, pressed)
    PROVE  Steady(pen', pen)
  <1> DEFINE d == EnsureProximity(Begin)
  <1>1. Sound(d) /\ Steady(d, pen)
    BY BeginSound, BeginSteady, EnsureProximitySound, EnsureProximitySteady,
       SteadyTransitive
  <1>2. CASE LeftButton(pressed)
    <2>1. pen' = IF pressed THEN DropTip(d) ELSE ArmKeepAlive(LiftTip(d))
      BY <1>2 DEF LeftButton, Handle
    <2> HIDE DEF d
    <2>2. Sound(LiftTip(d)) /\ Steady(LiftTip(d), pen) /\ Steady(DropTip(d), pen)
      BY <1>1, LiftTipSound, TipSteady, SteadyTransitive
    <2> QED
      BY <2>1, <2>2, ArmKeepAliveSteady, SteadyTransitive
  <1>3. ASSUME NEW b \in Barrel, BarrelButton(b, pressed) PROVE Steady(pen', pen)
    <2> DEFINE k == [d.kernel EXCEPT !.barrel =
                        IF pressed THEN @ \cup {b} ELSE @ \ {b}]
    <2>1. pen' = IF d.tipDown THEN EmitFrame(d, k, 0, TipPressure(d))
                 ELSE EmitFrame(d, k, HoverDist, 0)
      BY <1>3 DEF BarrelButton, Handle
    <2> HIDE DEF d
    <2>2. d \in DeviceState /\ d.kernel \in KernelState
      BY <1>1 DEF Sound, DeviceState
    <2>3. k \in KernelState
      BY <2>2 DEF KernelState
    <2> HIDE DEF k
    <2>4. TipPressure(d) \in 0..PressureMax
      BY <2>2, TipPressureInRange
    <2>5. /\ Steady(EmitFrame(d, k, 0, TipPressure(d)), d)
          /\ Steady(EmitFrame(d, k, HoverDist, 0), d)
      BY <1>1, <2>3, <2>4, AxisValues, EmitFrameSteady
    <2> QED
      BY <1>1, <2>1, <2>5, SteadyTransitive
  <1> QED
    BY <1>2, <1>3

LEMMA ResetSteady ==
    ASSUME Sound(pen), Reset
    PROVE  Steady(pen', pen)
  <1> DEFINE s == StopKeepAlive(Begin)
  <1>1. Sound(s) /\ Steady(s, pen)
    BY BeginSound, BeginSteady, StopKeepAliveSound, StopKeepAliveSteady,
       SteadyTransitive
  <1>2. pen' = IF s.inRange THEN ProximityOut(LiftTip(s)) ELSE s
    BY DEF Reset, Handle, ResetPen
  <1> HIDE DEF s
  <1>3. Sound(LiftTip(s)) /\ Steady(LiftTip(s), pen)
    BY <1>1, LiftTipSound, TipSteady, SteadyTransitive
  <1> QED
    BY <1>1, <1>2, <1>3, ProximitySteady, SteadyTransitive

\* Whatever is not a tick.
LEMMA OthersSteady ==
    ASSUME Sound(pen), Next, ~(Callback /\ Hovering(pen))
    PROVE  Steady(pen', pen)
  <1>1. ASSUME NEW t \in Timer, FireTimer(t) PROVE Steady(pen', pen)
    BY <1>1 DEF FireTimer, Begin, Sound, DeviceState, Steady
  <1>2. CASE Callback
    BY <1>2 DEF Callback, Begin, Sound, DeviceState, Steady
  <1> QED
    BY <1>1, <1>2, PointerDownSteady, PointerMoveSteady, PointerUpSteady,
       ButtonSteady, ResetSteady DEF Next

\* A tick sends the distance that its new toggle stands for.
LEMMA TickSends ==
    ASSUME Sound(pen), Callback, Hovering(pen)
    PROVE  /\ pen'.kaToggle = ~pen.kaToggle
           /\ pen'.kernel.distance =
                 IF pen'.kaToggle THEN HoverDist + 1 ELSE HoverDist
  <1> DEFINE b == [Begin EXCEPT !.kaToggle = ~pen.kaToggle]
             x == IF b.kaToggle THEN HoverDist + 1 ELSE HoverDist
             n == [b.kernel EXCEPT !.distance = x, !.pressure = 0]
             e == EmitFrame(b, b.kernel, x, 0)
  <1>1. /\ b \in DeviceState /\ b.kernel \in KernelState
        /\ b.kaToggle = ~pen.kaToggle
    <2>1. Begin \in DeviceState /\ pen.kaToggle \in BOOLEAN
      BY BeginSound DEF Sound, DeviceState
    <2> QED
      BY <2>1 DEF DeviceState
  <1>2. pen' = IF e.keepAlive # NoTimer THEN StartTimer(e, e.keepAlive) ELSE e
    BY DEF Callback, EmitKeepAlive
  <1>3. e = [b EXCEPT !.kernel = n, !.frames = Append(b.frames, n)]
    BY DEF EmitFrame, Sync
  <1> HIDE DEF b, e
  <1>4. n.distance = x
    BY <1>1 DEF KernelState
  <1> HIDE DEF n
  <1>5. e.kernel = n /\ e.kaToggle = b.kaToggle
    BY <1>1, <1>3 DEF DeviceState
  <1>6. DOMAIN e = DOMAIN b
    BY <1>3
  <1>7. pen'.kernel = e.kernel /\ pen'.kaToggle = e.kaToggle
    BY <1>1, <1>2, <1>6 DEF StartTimer, DeviceState
  <1> QED
    BY <1>1, <1>4, <1>5, <1>7 DEF x

-----------------------------------------------------------------------------
(* The count of unseen ticks                                               *)

LEMMA UnseenKeepsKernel ==
    ASSUME Legal(pen.kernel, pen'), ~Seen
    PROVE  pen'.kernel = pen.kernel
  <1> DEFINE f == pen'.frames
  <1>1. f \in Seq(KernelState) /\ Len(f) \in Nat
    BY DEF Legal
  <1>2. pen'.kernel = IF Len(f) = 0 THEN pen.kernel ELSE f[Len(f)]
    BY DEF Legal
  <1>3. ASSUME Len(f) # 0 PROVE f[Len(f)] = pen.kernel
    <2>1. Len(f) \in 1..Len(f)
      BY <1>1, <1>3
    <2> QED
      BY <2>1 DEF Seen
  <1> QED
    BY <1>2, <1>3

LEMMA HoverTicksInitSound == HoverTicksInit => TickInv
  <1> SUFFICES ASSUME HoverTicksInit PROVE TickInv
    OBVIOUS
  <1>1. pen.kernel.distance = 0
    BY DEF HoverTicksInit, Init, Idle
  <1> QED
    BY <1>1, InitSound DEF HoverTicksInit, TickInv, HoverDist

LEMMA HoverTicksNextSound ==
    ASSUME TickInv, [HoverTicksNext]_tickVars
    PROVE  TickInv'
  <1>0. Sound(pen) /\ IInv /\ unseen \in {0, 1} /\ pen.kaToggle \in BOOLEAN
    BY DEF TickInv, IInv, Sound, DeviceState
  <1>1. CASE UNCHANGED tickVars
    <2>1. pen' = pen /\ fired' = fired /\ unseen' = unseen
      BY <1>1 DEF tickVars
    <2>2. IInv'
      BY <1>0, <2>1, NextSound DEF vars
    <2> QED
      BY <2>1, <2>2 DEF TickInv
  <1>2. CASE HoverTicksNext
    <2>1. Next /\ Count /\ IInv'
      BY <1>0, <1>2, NextSound DEF HoverTicksNext
    <2>2. ~Seen => pen'.kernel = pen.kernel
      BY <1>0, <2>1, EveryStepLegal, UnseenKeepsKernel
    <2>3. CASE Callback /\ Hovering(pen)
      <3>1. /\ pen'.kaToggle = ~pen.kaToggle
            /\ pen'.kernel.distance =
                  IF pen'.kaToggle THEN HoverDist + 1 ELSE HoverDist
        BY <1>0, <2>3, TickSends
      <3>2. CASE Seen
        BY <2>1, <3>1, <3>2 DEF Count, TickInv, HoverDist
      <3>3. CASE ~Seen
        <4>1. pen.kaToggle /\ ~pen'.kaToggle /\ pen'.kernel.distance = HoverDist
          BY <1>0, <2>2, <3>1, <3>3 DEF TickInv
        <4>2. unseen = 0 /\ unseen' = unseen + 1
          BY <1>0, <2>1, <2>3, <3>3, <4>1 DEF Count, TickInv
        <4> QED
          BY <2>1, <4>1, <4>2 DEF TickInv, HoverDist
      <3> QED
        BY <3>2, <3>3
    <2>4. CASE ~(Callback /\ Hovering(pen))
      <3>1. Steady(pen', pen)
        BY <1>0, <2>1, <2>4, OthersSteady
      <3>2. CASE Seen
        BY <2>1, <3>1, <3>2 DEF Count, TickInv, Steady, HoverDist
      <3>3. CASE ~Seen
        BY <2>1, <2>2, <2>4, <3>1, <3>3 DEF Count, TickInv, Steady
      <3> QED
        BY <3>2, <3>3
    <2> QED
      BY <2>3, <2>4
  <1> QED
    BY <1>1, <1>2

\* Of two keep-alive ticks in a row one is seen, whatever hover frames came in
\* between and although kaToggle does not know of them.
THEOREM TicksSeenCorrect == HoverTicksSpec => []NoTwoTicksUnseen
  <1>1. TickInv => NoTwoTicksUnseen
    BY DEF TickInv, NoTwoTicksUnseen
  <1> QED
    BY <1>1, HoverTicksInitSound, HoverTicksNextSound, PTL DEF HoverTicksSpec
=============================================================================
