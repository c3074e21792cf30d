------------------------------- MODULE Tablet -------------------------------
(***************************************************************************)
(* The virtual pen tablet of tablet/tablet_linux.go: the driver's cached   *)
(* pen state, the hover keep-alive timer, and the evdev state the kernel   *)
(* holds for the uinput device.  Every exported method of `device` runs    *)
(* under d.mu, so a handler is one action; the keep-alive callback runs on *)
(* a goroutine of the Go runtime, which may already have been started and  *)
(* be waiting for d.mu when the handler that stops the timer runs.         *)
(*                                                                         *)
(* A handler emits up to two frames (groups of events closed by            *)
(* SYN_REPORT).  They are kept in pen.frames, so a property can speak of   *)
(* what the compositor sees inside one handler.                            *)
(***************************************************************************)
EXTENDS Integers, Sequences

CONSTANTS
    KeepAliveOn,    \* the keepAlive argument of newDevice
    Buttons,        \* the button names clients send
    RawPressure,    \* pressures browsers report, in units of 1/4096
    Absent,         \* a touch sample without a pressure
    Timer,          \* identities for the timers time.AfterFunc creates
    NoTimer,        \* d.keepAlive = nil
    MaxFired        \* bound: callback goroutines waiting for d.mu at once

Barrel == {"right", "middle"}
HoverDist == 10
PressureMax == 4096
TipFloor == 256

ASSUME KeepAliveAssumption == KeepAliveOn \in BOOLEAN
ASSUME ButtonsAssumption == Buttons \subseteq Barrel \cup {"left"}
ASSUME PressureAssumption == RawPressure \subseteq Int /\ Absent \notin RawPressure
ASSUME TimerAssumption == Timer # {} /\ NoTimer \notin Timer
ASSUME MaxFiredAssumption == MaxFired \in Nat \ {0}

VARIABLES
    pen,    \* the device struct, with the kernel's view and the last frames
    fired   \* callback goroutines that wait for d.mu

vars == <<pen, fired>>

\* What evdev holds: tool in proximity, tip contact, barrel buttons, axes.
KernelState == [tool : BOOLEAN, touch : BOOLEAN, barrel : SUBSET Barrel,
                distance : {0, HoverDist, HoverDist + 1},
                pressure : 0..PressureMax]

\* The device struct, the timers of the runtime, the kernel's view of the
\* device and the frames of the last step.
DeviceState == [inRange : BOOLEAN, tipDown : BOOLEAN, kaToggle : BOOLEAN,
                pressure : 0..PressureMax, keepAlive : Timer \cup {NoTimer},
                armed : SUBSET Timer, kernel : KernelState,
                frames : Seq(KernelState)]

-----------------------------------------------------------------------------
(* Frames                                                                  *)

\* SyncReport: the pending changes become visible as one frame.
Sync(d, k) == [d EXCEPT !.kernel = k, !.frames = Append(d.frames, k)]

EmitFrame(d, k, distance, press) ==
    Sync(d, [k EXCEPT !.distance = distance, !.pressure = press])

WithTouch(d, down) == [d.kernel EXCEPT !.touch = down]

\* Variant: the browser's pressure is passed on while hovering.
BugEmitHover(d) == EmitFrame(d, d.kernel, HoverDist, d.pressure)

EmitHover(d) == EmitFrame(d, d.kernel, HoverDist, 0)

\* Variant: every keep-alive frame is the same.
BugEmitKeepAlive(d) == EmitFrame(d, d.kernel, HoverDist, 0)

EmitKeepAlive(d) ==
    EmitFrame(d, d.kernel, IF d.kaToggle THEN HoverDist + 1 ELSE HoverDist, 0)

TipPressure(d) == IF d.pressure > TipFloor THEN d.pressure ELSE TipFloor

-----------------------------------------------------------------------------
(* The keep-alive timer.  pen.armed holds the timers running in the        *)
(* runtime, pen.keepAlive the one the driver refers to.                    *)

\* Variant: the reference is dropped, the timer keeps running.
BugStopKeepAlive(d) == [d EXCEPT !.keepAlive = NoTimer]

StopKeepAlive(d) ==
    [d EXCEPT !.keepAlive = NoTimer, !.armed = d.armed \ {d.keepAlive}]

Hovering(d) == d.inRange /\ ~d.tipDown

\* time.AfterFunc starts a timer no one else refers to; Reset restarts ours.
StartTimer(d, t) == [d EXCEPT !.keepAlive = t, !.armed = d.armed \cup {t}]

ArmKeepAlive(d) ==
    IF ~KeepAliveOn \/ ~Hovering(d)
    THEN StopKeepAlive(d)
    ELSE StartTimer(d, IF d.keepAlive # NoTimer
                       THEN d.keepAlive
                       ELSE CHOOSE t \in Timer : t \notin d.armed)

-----------------------------------------------------------------------------
(* Steps shared by the handlers                                            *)

Clamp(p) == IF p < 0 THEN 0 ELSE IF p > PressureMax THEN PressureMax ELSE p

SetPen(d, p) == [d EXCEPT !.pressure = IF p = Absent THEN 0 ELSE Clamp(p)]

ProximityIn(d) ==
    [EmitFrame(d, [d.kernel EXCEPT !.tool = TRUE], HoverDist, 0)
        EXCEPT !.inRange = TRUE]

\* The tip is released in the same frame if it is still down.
ProximityOut(d) ==
    LET s == StopKeepAlive(d)
    IN  Sync([s EXCEPT !.tipDown = FALSE, !.inRange = FALSE],
             [s.kernel EXCEPT !.touch = IF s.tipDown THEN FALSE ELSE @,
                              !.tool = FALSE])

DropTip(d) ==
    IF d.tipDown
    THEN d
    ELSE LET s == StopKeepAlive(d)
         IN  [EmitFrame(s, WithTouch(s, TRUE), 0, TipPressure(s))
                EXCEPT !.tipDown = TRUE]

\* Variant: tipDown survives the lift.
BugLiftTip(d) ==
    IF ~d.tipDown THEN d ELSE EmitFrame(d, WithTouch(d, FALSE), HoverDist, 0)

LiftTip(d) ==
    IF ~d.tipDown
    THEN d
    ELSE [EmitFrame(d, WithTouch(d, FALSE), HoverDist, 0)
            EXCEPT !.tipDown = FALSE]

EnsureProximity(d) == IF d.inRange THEN d ELSE ProximityIn(d)

\* Variant: a stale contact is not lifted first.
BugBeginStroke(d) == DropTip(EnsureProximity(d))

\* A tip still down here belongs to a stroke whose pointerup was lost.
BeginStroke(d) ==
    DropTip(EnsureProximity(IF d.inRange /\ d.tipDown THEN LiftTip(d) ELSE d))

ResetPen(d) ==
    LET s == StopKeepAlive(d)
    IN  IF s.inRange THEN ProximityOut(LiftTip(s)) ELSE s

-----------------------------------------------------------------------------
(* Handlers.  Events without a touch and unknown buttons or types return   *)
(* before any state changes: they are stuttering steps.                    *)

Begin == [pen EXCEPT !.frames = <<>>]

Handle(d) == pen' = d /\ UNCHANGED fired

PointerDown(p) == Handle(BeginStroke(SetPen(Begin, p)))

PointerMove(p) ==
    LET d == SetPen(Begin, p)
    IN  Handle(IF ~d.inRange THEN DropTip(ProximityIn(d))
               ELSE IF d.tipDown THEN EmitFrame(d, d.kernel, 0, TipPressure(d))
               ELSE ArmKeepAlive(EmitHover(d)))

\* Variant: the lift does not arm the keep-alive.
BugPointerUp == pen.inRange /\ Handle(EmitHover(LiftTip(Begin)))

\* pointerup and pointercancel
PointerUp ==
    /\ pen.inRange
    /\ Handle(ArmKeepAlive(EmitHover(LiftTip(Begin))))

\* The on-screen left button is BTN_TOUCH.
LeftButton(pressed) ==
    /\ "left" \in Buttons
    /\ LET d == EnsureProximity(Begin)
       IN  Handle(IF pressed THEN DropTip(d) ELSE ArmKeepAlive(LiftTip(d)))

BarrelButton(b, pressed) ==
    /\ b \in Buttons \cap Barrel
    /\ LET d == EnsureProximity(Begin)
           k == [d.kernel EXCEPT !.barrel =
                    IF pressed THEN @ \cup {b} ELSE @ \ {b}]
       IN  Handle(IF d.tipDown THEN EmitFrame(d, k, 0, TipPressure(d))
                  ELSE EmitFrame(d, k, HoverDist, 0))

\* Reset on disconnect, and SetActive(FALSE) when the panel is swiped away;
\* SetActive(TRUE) does nothing.
Reset == Handle(ResetPen(Begin))

\* The runtime starts the callback goroutine of an expired timer.
FireTimer(t) ==
    /\ t \in pen.armed
    /\ fired < MaxFired
    /\ pen' = [Begin EXCEPT !.armed = pen.armed \ {t}]
    /\ fired' = fired + 1

\* Variant: the callback does not look at the pen.
BugBlindCallback ==
    /\ fired > 0
    /\ fired' = fired - 1
    /\ pen' = EmitKeepAlive([Begin EXCEPT !.kaToggle = ~pen.kaToggle])

\* A callback goroutine gets d.mu.
Callback ==
    /\ fired > 0
    /\ fired' = fired - 1
    /\ pen' = IF ~Hovering(pen)
              THEN [Begin EXCEPT !.keepAlive = NoTimer]
              ELSE LET d == EmitKeepAlive([Begin EXCEPT !.kaToggle = ~pen.kaToggle])
                   IN  IF d.keepAlive # NoTimer
                       THEN StartTimer(d, d.keepAlive) ELSE d

-----------------------------------------------------------------------------
Idle == [tool |-> FALSE, touch |-> FALSE, barrel |-> {},
         distance |-> 0, pressure |-> 0]

Init ==
    /\ pen = [inRange |-> FALSE, tipDown |-> FALSE, kaToggle |-> FALSE,
              pressure |-> 0, keepAlive |-> NoTimer, armed |-> {},
              kernel |-> Idle, frames |-> <<>>]
    /\ fired = 0

Next ==
    \/ \E p \in RawPressure \cup {Absent} : PointerDown(p) \/ PointerMove(p)
    \/ PointerUp
    \/ \E pressed \in BOOLEAN :
          LeftButton(pressed) \/ \E b \in Barrel : BarrelButton(b, pressed)
    \/ Reset
    \/ \E t \in Timer : FireTimer(t)
    \/ Callback

Spec == Init /\ [][Next]_vars

-----------------------------------------------------------------------------
(* Properties                                                              *)

TypeOK ==
    /\ pen \in DeviceState
    /\ fired \in 0..MaxFired

\* Between handlers the kernel's contact is the driver's: tool in proximity
\* exactly when d.inRange, BTN_TOUCH exactly when d.tipDown, and never a
\* contact without proximity.  If the two drift apart dropTip's early return
\* makes the next stroke invisible.
KernelMirrorsDriver ==
    /\ TypeOK
    /\ pen.kernel.tool = pen.inRange
    /\ pen.kernel.touch = pen.tipDown
    /\ pen.tipDown => pen.inRange

\* A running timer is always the one d.keepAlive refers to, and it exists
\* only while the pen hovers: no handler leaves behind a timer that
\* stopKeepAlive can no longer stop.
NoOrphanTimer ==
    /\ pen.armed \subseteq {pen.keepAlive}
    /\ pen.keepAlive # NoTimer => KeepAliveOn /\ Hovering(pen)

\* armKeepAlive's comment: while the tool is in proximity and not tipping the
\* ticker re-emits the hover frame, so libinput never sees the tool go silent.
\* A tick is due: the timer runs, or its callback waits for the mutex.  The
\* one way into a silent hover is a barrel button that brings the tool into
\* proximity, which does not arm the timer; whatever else happens, a hover
\* that is kept alive stays so, and the next event of the pen ends a silence.
TickDue == pen.keepAlive # NoTimer /\ (pen.armed # {} \/ fired > 0)
Silent == KeepAliveOn /\ Hovering(pen) /\ ~TickDue
PenEvent ==
    \/ \E p \in RawPressure \cup {Absent} : PointerDown(p) \/ PointerMove(p)
    \/ PointerUp
    \/ \E pressed \in BOOLEAN : LeftButton(pressed)
BarrelEntry ==
    ~pen.inRange /\ \E b \in Barrel, pressed \in BOOLEAN : BarrelButton(b, pressed)
HoverKeptAlive == [][Silent' => BarrelEntry \/ (Silent /\ ~PenEvent)]_vars

\* One frame the compositor may legally see after another.  Proximity and
\* contact never change in the same frame, the tip touches only with distance
\* 0 and a pressure over libinput's threshold, a hovering pen reports
\* pressure 0 and a nonzero distance.
PenStep(before, after) ==
    /\ after.touch # before.touch => before.tool /\ after.tool
    /\ after.touch =>
          after.tool /\ after.distance = 0 /\ after.pressure >= TipFloor
    /\ after.tool /\ ~after.touch => after.distance > 0 /\ after.pressure = 0

\* Every frame of every handler, counted from the kernel state the handler
\* found, is a legal step of the pen: in particular proximity is reported in a
\* frame of its own before the tip, and the tip is lifted before the tool
\* leaves.
PenProtocolStep ==
    LET seen == <<pen.kernel>> \o pen'.frames
    IN  \A i \in 1..Len(pen'.frames) : PenStep(seen[i], seen[i + 1])
PenProtocol == [][PenProtocolStep]_vars

\* beginStroke: each pointerdown gives the compositor a fresh BTN_TOUCH 0->1
\* transition, even when an earlier stroke's pointerup was lost.
FreshContact(d) ==
    \E i \in 1..Len(d.frames) :
        /\ d.frames[i].touch
        /\ IF i = 1 THEN ~pen.kernel.touch ELSE ~d.frames[i - 1].touch
EveryStrokeVisible ==
    [][(\E p \in RawPressure \cup {Absent} : PointerDown(p))
          => FreshContact(pen') /\ pen'.kernel.touch]_vars

\* A late callback, one whose timer was stopped while it waited for d.mu,
\* neither revives a released tool nor touches a stroke that began meanwhile:
\* the contact the kernel sees is untouched, and frames appear only while
\* hovering.
LateTickHarmless ==
    [][Callback =>
          /\ \A i \in 1..Len(pen'.frames) :
                pen'.frames[i].tool /\ ~pen'.frames[i].touch
          /\ pen'.frames # <<>> => Hovering(pen)
          /\ pen'.armed # {} => Hovering(pen)]_vars
=============================================================================
