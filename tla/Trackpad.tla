------------------------------ MODULE Trackpad ------------------------------
(***************************************************************************)
(* The virtual multitouch trackpad: trackpad/trackpad_linux.go maps the    *)
(* browser's pointer ids to multitouch slots, and the vendored             *)
(* touchpad.go turns a list of slots into protocol-B events.  Every method *)
(* runs under d.mu, so a handler is one action.                            *)
(*                                                                         *)
(* Positions are left out.  A contact in d.active always has pressure 1    *)
(* between handlers (a released one is deleted by the handler that         *)
(* released it), so slotOf alone stands for the map.                       *)
(***************************************************************************)
EXTENDS Integers, FiniteSets

CONSTANTS
    Finger,     \* pointer ids, of all the clients that share the device
    NoSlot,     \* the finger is not in d.active
    MaxSlots,   \* maxSlots
    ToolCount   \* how many BTN_TOOL_* buttons toggleFingerCount knows

ASSUME FingerAssumption == IsFiniteSet(Finger)
ASSUME SlotsAssumption == MaxSlots \in Nat \ {0} /\ NoSlot \notin Int
ASSUME ToolAssumption == ToolCount \in Nat

Slot == 0..(MaxSlots - 1)

VARIABLES
    slotOf,         \* d.active: finger -> slot
    slots,          \* d.slots: the slots in use
    touching,       \* d.touching, the last BTN_TOUCH sent
    currentSlots,   \* slots with a live ABS_MT_TRACKING_ID
    fingerCount,    \* virtualTouchpad.fingerCount
    toolButtons,    \* n: the BTN_TOOL_* button of n fingers is pressed
    failed          \* the last ProcessEvent returned an error

vars == <<slotOf, slots, touching, currentSlots, fingerCount, toolButtons,
          failed>>

Active == {f \in Finger : slotOf[f] # NoSlot}
SlotsOf(fingers) == {slotOf[f] : f \in fingers}

-----------------------------------------------------------------------------
(* The event side: fingers to slots                                        *)

\* The touch loop of a down or move event, as far as it has come.
Tracked == [slotOf |-> slotOf, slots |-> slots, full |-> FALSE]

Free(t) == Slot \ t.slots

\* One touch: a known finger keeps its slot, an unknown one takes the first
\* free slot, and with none free the loop returns an error.
Touch(t, f) ==
    IF t.full \/ t.slotOf[f] # NoSlot THEN t
    ELSE IF Free(t) = {} THEN [t EXCEPT !.full = TRUE]
    ELSE LET s == CHOOSE s \in Free(t) : \A o \in Free(t) : s =< o
         IN  [t EXCEPT !.slotOf[f] = s, !.slots = t.slots \cup {s}]

-----------------------------------------------------------------------------
(* The kernel side: slots to protocol-B events                             *)

\* toggleFingerCount: there is a button for 1..ToolCount fingers.
ToolButton(count) == {count} \cap 1..ToolCount

\* multiTouchB over the slots of `pressed` and `released`.  The slots are
\* distinct (SlotBookkeeping), so assignSlotIfNeeded moves none of them.
MultiTouch(pressed, released) ==
    LET lifts == released \cap currentSlots
        lands == pressed \ currentSlots
        count == fingerCount - Cardinality(lifts) + Cardinality(lands)
    IN  /\ currentSlots' = (currentSlots \ lifts) \cup lands
        /\ fingerCount' = count
        /\ toolButtons' = IF count = fingerCount THEN toolButtons
                          ELSE (toolButtons \ ToolButton(fingerCount))
                                    \cup ToolButton(count)

\* BTN_TOUCH is sent before the slots, in the same frame.
Emit(pressed, released) ==
    /\ touching' = (pressed # {})
    /\ MultiTouch(pressed, released)

-----------------------------------------------------------------------------
(* Handlers.  Button events return early and unknown types are refused     *)
(* before any state changes: they are stuttering steps.                    *)

\* Variant: only the touches of this event are emitted.
BugPress(f, g) ==
    LET t == Touch(Touch(Tracked, f), g)
    IN  /\ slotOf' = t.slotOf
        /\ slots' = t.slots
        /\ failed' = t.full
        /\ IF t.full
           THEN UNCHANGED <<touching, currentSlots, fingerCount, toolButtons>>
           ELSE Emit({t.slotOf[h] : h \in {f, g}}, {})

\* pointerdown and pointermove with the touches f and g, f before g; they
\* differ only in a pressure that is 1 already.
Press(f, g) ==
    LET t == Touch(Touch(Tracked, f), g)
    IN  /\ slotOf' = t.slotOf
        /\ slots' = t.slots
        /\ failed' = t.full
        /\ IF t.full
           THEN UNCHANGED <<touching, currentSlots, fingerCount, toolButtons>>
           ELSE Emit({t.slotOf[h] : h \in Active \cup {f, g}}, {})

\* Variant: the slots of lifted fingers are not freed.
BugLeakLift(fingers) ==
    LET released == fingers \cap Active
    IN  /\ slotOf' = [f \in Finger |->
                        IF f \in released THEN NoSlot ELSE slotOf[f]]
        /\ slots' = slots
        /\ failed' = FALSE
        /\ Emit(SlotsOf(Active \ released), SlotsOf(released))

\* pointerup and pointercancel: the slots are freed after the sync report.
Lift(fingers) ==
    LET released == fingers \cap Active
    IN  /\ slotOf' = [f \in Finger |->
                        IF f \in released THEN NoSlot ELSE slotOf[f]]
        /\ slots' = slots \ SlotsOf(released)
        /\ failed' = FALSE
        /\ Emit(SlotsOf(Active \ released), SlotsOf(released))

\* Variant: the contacts are dropped without telling the kernel.
BugReset ==
    /\ Active # {} \/ touching
    /\ slotOf' = [f \in Finger |-> NoSlot]
    /\ slots' = slots \ SlotsOf(Active)
    /\ failed' = FALSE
    /\ Emit({}, {})

Reset ==
    /\ Active # {} \/ touching
    /\ slotOf' = [f \in Finger |-> NoSlot]
    /\ slots' = slots \ SlotsOf(Active)
    /\ failed' = FALSE
    /\ Emit({}, SlotsOf(Active))

-----------------------------------------------------------------------------
Init ==
    /\ slotOf = [f \in Finger |-> NoSlot]
    /\ slots = {}
    /\ touching = FALSE
    /\ currentSlots = {}
    /\ fingerCount = 0
    /\ toolButtons = {}
    /\ failed = FALSE

Next ==
    \/ \E f, g \in Finger : Press(f, g)
    \/ \E fingers \in SUBSET Finger : Lift(fingers)
    \/ Reset

Spec == Init /\ [][Next]_vars

-----------------------------------------------------------------------------
(* Properties                                                              *)

TypeOK ==
    /\ slotOf \in [Finger -> Slot \cup {NoSlot}]
    /\ slots \in SUBSET Slot
    /\ touching \in BOOLEAN
    /\ currentSlots \in SUBSET Slot
    /\ fingerCount \in 0..MaxSlots
    /\ toolButtons \in SUBSET (1..ToolCount)
    /\ failed \in BOOLEAN

\* d.slots and d.active agree: a slot is taken exactly when one finger holds
\* it, and no two fingers share one.  A slot lost by a release, a reset or a
\* refused event would shrink the trackpad until no finger works.
SlotBookkeeping ==
    /\ TypeOK
    /\ slots = SlotsOf(Active)
    /\ \A f, g \in Active : slotOf[f] = slotOf[g] => f = g

\* After an event that was not refused the kernel shows every finger; a finger
\* recorded by an event that ran out of slots half-way (recorded, not emitted)
\* is caught up by the next event.  The two summaries of the contacts that
\* libinput reads, BTN_TOUCH and the BTN_TOOL_* button, agree with the
\* contacts: at most one tool button, that of the number of contacts, none
\* when there are more than ToolCount.
KernelShowsFingers ==
    /\ ~failed => currentSlots = SlotsOf(Active)
    /\ fingerCount = Cardinality(currentSlots)
    /\ toolButtons = ToolButton(fingerCount)
    /\ touching <=> currentSlots # {}

\* A live contact never changes fingers: before a slot serves another pointer
\* id the kernel has seen its tracking id end.  libinput would otherwise see
\* one finger jump across the pad.  An event is refused only when every slot is
\* really held by a finger, and takes nothing away from the fingers down.
Holder(s) == {f \in Active : slotOf[f] = s}
SlotKeepsFinger ==
    [][/\ \A s \in currentSlots \cap currentSlots' : Holder(s)' = Holder(s)
       /\ failed' => /\ Cardinality(SlotsOf(Active)') = MaxSlots
                     /\ \A f \in Active : slotOf'[f] = slotOf[f]
                     /\ currentSlots' = currentSlots]_vars
=============================================================================
