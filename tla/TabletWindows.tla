---------------------------- MODULE TabletWindows ----------------------------
(***************************************************************************)
(* The Windows driver of the pen, tablet/tablet_windows.go: the handlers   *)
(* of Tablet over synthetic pointer injection.  There is no kernel device  *)
(* and no timer here; instead every frame is a call that may fail, and a   *)
(* handler that meets a failure returns in the middle.                     *)
(*                                                                         *)
(* All handlers hold d.mu, so each is one step.  Contact is a flag of a    *)
(* frame and not a pressure threshold, so pressure, tilt and position are  *)
(* left out, and with them the events without touches, which do nothing.   *)
(***************************************************************************)
EXTENDS Naturals, Sequences, SequencesExt

VARIABLES
    pen,    \* what the driver remembers
    os,     \* the pointer as Windows holds it after the delivered frames
    open,   \* the synthetic device exists (hdev # 0)
    last    \* the last call: its event, whether an injection in it failed,
            \* and the frames it delivered

winVars == <<pen, os, open, last>>

Barrel == {"right", "middle"}
Idle == [inRange |-> FALSE, tipDown |-> FALSE, barrels |-> {}]
Gone == [inRange |-> FALSE, contact |-> FALSE, buttons |-> {}]

\* No handler injects more frames than this.
MaxFrames == 2

-----------------------------------------------------------------------------
(* Frames.  A handler is a composition of steps on a record: the pen, the  *)
(* OS, the frames delivered, how many injections were tried, which of them *)
(* fail, and the error the handler is to return.                           *)

Begin(fails) == [pen |-> pen, os |-> os, frames |-> <<>>, tried |-> 0,
                 fails |-> fails, err |-> FALSE]

\* emitFrame: the flags and the held barrel buttons, in one injection.
EmitFrame(s, flags) ==
    LET n == s.tried + 1
    IN  IF n \in s.fails THEN [s EXCEPT !.tried = n, !.err = TRUE]
        ELSE [s EXCEPT !.tried = n,
                       !.frames = Append(@, flags),
                       !.os = [inRange |-> "INRANGE" \in flags,
                               contact |-> "INCONTACT" \in flags,
                               buttons |-> s.pen.barrels]]

SetInRange(s) == IF s.err THEN s ELSE [s EXCEPT !.pen.inRange = TRUE]
SetTip(s, down) == IF s.err THEN s ELSE [s EXCEPT !.pen.tipDown = down]

ProximityIn(s) == SetInRange(EmitFrame(s, {"NEW", "UPDATE", "INRANGE"}))

\* Variant: a tip that is down is dropped again.
BugDropTip(s) == SetTip(EmitFrame(s, {"DOWN", "INRANGE", "INCONTACT"}), TRUE)

DropTip(s) ==
    IF s.pen.tipDown THEN s
    ELSE SetTip(EmitFrame(s, {"DOWN", "INRANGE", "INCONTACT"}), TRUE)

LiftTip(s) ==
    IF ~s.pen.tipDown THEN s
    ELSE SetTip(EmitFrame(s, {"UP", "INRANGE"}), FALSE)

\* What a handler does after a call that returned no error.
EnterRange(s) == IF s.pen.inRange THEN s ELSE ProximityIn(s)
ThenDropTip(s) == IF s.err THEN s ELSE DropTip(s)
ThenLiftTip(s) == IF s.err THEN s ELSE LiftTip(s)

ContactFrame(s) == EmitFrame(s, {"UPDATE", "INRANGE", "INCONTACT"})
HoverFrame(s) == EmitFrame(s, {"UPDATE", "INRANGE"})

\* Variant: a tip that is still down is kept.
BugBeginStroke(s) == ThenDropTip(EnterRange(s))

\* A tip that is still down is lifted first.
BeginStroke(s) ==
    LET lifted == IF s.pen.inRange /\ s.pen.tipDown THEN LiftTip(s) ELSE s
    IN  IF lifted.err THEN lifted ELSE ThenDropTip(EnterRange(lifted))

\* Variant: the buttons are forgotten after the last frame.
BugResetPen(s) ==
    LET out == EmitFrame(LiftTip(s), {"UPDATE"})
    IN  [out EXCEPT !.pen.inRange = FALSE, !.pen.barrels = {}]

\* Reset swallows the errors and leaves the range whatever was delivered.
ResetPen(s) ==
    LET released == [LiftTip(s) EXCEPT !.pen.barrels = {}]
        out == EmitFrame(released, {"UPDATE"})
    IN  [out EXCEPT !.pen.inRange = FALSE]

-----------------------------------------------------------------------------
(* Handlers.  After Close every injection fails: the handle it destroyed   *)
(* is still the one the injector uses.                                     *)

Failures == IF open THEN SUBSET (1 .. MaxFrames) ELSE {1 .. MaxFrames}

\* A handler: what it makes of each choice of the injections that fail.
Handle(event, outcomes) ==
    \E fails \in Failures :
        LET s == outcomes[fails]
        IN  /\ pen' = s.pen
            /\ os' = s.os
            /\ last' = [event |-> event, failed |-> s.err, frames |-> s.frames]
            /\ UNCHANGED open

PointerDown == Handle("pointerdown", [f \in Failures |-> BeginStroke(Begin(f))])

\* A first move before any pointerdown starts a stroke.
PointerMove ==
    LET Move(s) == IF ~s.pen.inRange THEN ThenDropTip(ProximityIn(s))
                   ELSE IF s.pen.tipDown THEN ContactFrame(s) ELSE HoverFrame(s)
    IN  Handle("pointermove", [f \in Failures |-> Move(Begin(f))])

\* pointerup and pointercancel: the barrel buttons are forgotten first.
PointerUp ==
    LET Up(s) == LET t == [s EXCEPT !.pen.barrels = {}]
                 IN  IF t.pen.inRange THEN LiftTip(t) ELSE t
    IN  Handle("pointerup", [f \in Failures |-> Up(Begin(f))])

LeftButton(pressed) ==
    LET Left(s) == IF pressed THEN ThenDropTip(EnterRange(s))
                   ELSE ThenLiftTip(EnterRange(s))
    IN  Handle("left", [f \in Failures |-> Left(Begin(f))])

BarrelButton(button, pressed) ==
    LET Held(s) == [s EXCEPT !.pen.barrels =
                        IF pressed THEN @ \cup {button} ELSE @ \ {button}]
        Report(s) == IF s.pen.tipDown THEN ContactFrame(s)
                     ELSE IF ~s.pen.inRange THEN ProximityIn(s)
                     ELSE HoverFrame(s)
        Change(s) == Report(Held(s))
    IN  Handle("barrel", [f \in Failures |-> Change(Begin(f))])

\* Reset, and SetActive(false).
WinReset == pen.inRange /\ Handle("reset", [f \in Failures |-> ResetPen(Begin(f))])

\* Windows lifts and removes the pointer of a destroyed device.
Close ==
    /\ open
    /\ open' = FALSE
    /\ os' = Gone
    /\ last' = [event |-> "close", failed |-> FALSE, frames |-> <<>>]
    /\ UNCHANGED pen

WinInit ==
    /\ pen = Idle
    /\ os = Gone
    /\ open = TRUE
    /\ last = [event |-> "none", failed |-> FALSE, frames |-> <<>>]

ProcessEvent ==
    \/ PointerDown \/ PointerMove \/ PointerUp
    \/ \E pressed \in BOOLEAN :
          LeftButton(pressed) \/ \E button \in Barrel : BarrelButton(button, pressed)

WinNext == ProcessEvent \/ WinReset \/ Close

WinSpec == WinInit /\ [][WinNext]_winVars

-----------------------------------------------------------------------------
(* Properties                                                              *)

Flag == {"NEW", "UPDATE", "DOWN", "UP", "INRANGE", "INCONTACT"}

WinTypeOK ==
    /\ pen \in [inRange : BOOLEAN, tipDown : BOOLEAN, barrels : SUBSET Barrel]
    /\ os \in [inRange : BOOLEAN, contact : BOOLEAN, buttons : SUBSET Barrel]
    /\ open \in BOOLEAN
    /\ last.frames \in Seq(SUBSET Flag)

Mirrors == pen.inRange = os.inRange /\ pen.tipDown = os.contact

\* The state a Reset leaves when the UP it injects is lost.
Stuck == pen.tipDown /\ ~pen.inRange

\* What the pointer API accepts after a frame that left a pointer in range or
\* not, in contact or not: one in contact may update it, one in the air moves it
\* or takes it away.
LegalAfter(inRange, contact, flags) ==
    /\ "NEW" \in flags => ~inRange
    /\ "DOWN" \in flags => inRange /\ ~contact
    /\ "UP" \in flags => contact
    /\ "INCONTACT" \in flags => contact \/ "DOWN" \in flags
    /\ flags \cap {"NEW", "DOWN", "UP", "INCONTACT"} = {} => inRange /\ ~contact

LegalFrames(frames) ==
    \A i \in DOMAIN frames :
        IF i = 1 THEN LegalAfter(os.inRange, os.contact, frames[1])
        ELSE LegalAfter("INRANGE" \in frames[i - 1],
                        "INCONTACT" \in frames[i - 1], frames[i])

\* As long as the driver knows what Windows holds, every frame of every
\* handler is a legal step of the pointer protocol, also the frame of a later
\* event after any injection failed; only the last frame of a Reset whose UP
\* was lost takes a touching pen away without an UP.
\* A handler that returns in the middle of its frames leaves the two agreed on
\* range and contact; only a Reset, which goes on, may lose track.
FramesLegal ==
    [][Mirrors =>
        \/ LegalFrames(last'.frames) /\ (open' => Mirrors')
        \/ (last'.event = "reset" /\ last'.failed)]_winVars

\* beginStroke recovers from stale state: a pointerdown that returns no error
\* ends in a fresh DOWN and in agreement with Windows, whatever was lost
\* before, unless a Reset has lost the UP of the stroke before it.
StrokeStarts ==
    [][last'.event = "pointerdown" /\ ~last'.failed /\ ~Stuck =>
        /\ Mirrors' /\ os'.contact
        /\ last'.frames # <<>> /\ "DOWN" \in Last(last'.frames)]_winVars

\* After a Reset that found the tool in range and lost no frame, Windows holds
\* no contact, no range and no button for the next client, even when the
\* driver had lost track before.
ResetReleases ==
    /\ WinTypeOK
    /\ last.event = "reset" /\ ~last.failed => os = Gone /\ pen = Idle
=============================================================================
