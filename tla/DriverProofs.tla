--------------------------- MODULE DriverProofs -----------------------------
(***************************************************************************)
(* Two drivers of input devices, the trackpad on Linux and the pen on      *)
(* Windows; what they promise their callers, for all values of the         *)
(* constants and any events.                                               *)
(*                                                                         *)
(* The trackpad: the slot table, the contacts the kernel shows and the     *)
(* finger summary agree after any sequence of events, for any number of    *)
(* pointers, slots and tool buttons.                                       *)
(*                                                                         *)
(* What the runs check is inductive but for one fact: a contact of the     *)
(* kernel always belongs to a finger, also after an event that was refused *)
(* half-way, so that the next event can only add the fingers it finds      *)
(* recorded.                                                               *)
(*                                                                         *)
(* The pen: whichever injections Windows refuses, no frame breaks the      *)
(* pointer protocol while the driver and Windows agree, a pointerdown      *)
(* begins with a fresh DOWN, and a Reset that loses no frame leaves        *)
(* nothing behind.                                                         *)
(***************************************************************************)
EXTENDS Trackpad, TabletWindows, FiniteSetTheorems, WellFoundedInduction,
        SequenceTheorems, TLAPS

ContactsAreHeld == currentSlots \subseteq SlotsOf(Active)

IInv == SlotBookkeeping /\ KernelShowsFingers /\ ContactsAreHeld

-----------------------------------------------------------------------------
(* Slots                                                                   *)

\* There are MaxSlots of them.
LEMMA SlotCount ==
    /\ IsFiniteSet(Slot)
    /\ Cardinality(Slot) = MaxSlots
  <1>1. MaxSlots - 1 \in Int /\ 0 \in Int /\ ~(0 > MaxSlots - 1)
    BY SlotsAssumption
  <1> QED
    BY <1>1, FS_Interval, SlotsAssumption DEF Slot

LEMMA NoSlotIsNone == NoSlot \notin Slot
  BY SlotsAssumption DEF Slot

\* A set of slots is finite and no larger than MaxSlots.
LEMMA SlotSet ==
    ASSUME NEW S \in SUBSET Slot
    PROVE  IsFiniteSet(S) /\ Cardinality(S) \in 0..MaxSlots
  <1>1. IsFiniteSet(S) /\ Cardinality(S) =< MaxSlots
    BY SlotCount, FS_Subset
  <1>2. Cardinality(S) \in Nat
    BY <1>1, FS_CardinalityType
  <1> QED
    BY <1>1, <1>2, SlotsAssumption

\* `CHOOSE` in Touch finds the first free slot.
LEMMA FirstSlot ==
    ASSUME NEW S \in SUBSET Slot, S # {}
    PROVE  (CHOOSE s \in S : \A o \in S : s =< o) \in S
  <1> DEFINE Less == {pair \in Nat \X Nat : pair[1] < pair[2]}
  <1>1. IsWellFoundedOn(Less, Nat)
    BY NatLessThanWellFounded DEF OpToRel
  <1>2. S \subseteq Nat
    BY SlotsAssumption DEF Slot
  <1>3. PICK s \in S : \A o \in S : ~(<<o, s>> \in Less)
    <2> HIDE DEF Less
    <2> QED
      BY <1>1, <1>2, WFMin
  <1>4. ASSUME NEW o \in S PROVE s =< o
    <2>1. s \in Nat /\ o \in Nat
      BY <1>2
    <2>2. <<o, s>> \notin Less
      BY <1>3
    <2>3. ~(o < s)
      BY <2>1, <2>2
    <2> QED
      BY <2>1, <2>3
  <1> QED
    BY <1>4

-----------------------------------------------------------------------------
(* The touch loop                                                          *)

Users(t) == {f \in Finger : t.slotOf[f] # NoSlot}

\* A loop state in which fingers and slots agree, and that is full only when
\* no slot is left.
Sound(t) ==
    /\ t \in [slotOf : [Finger -> Slot \cup {NoSlot}], slots : SUBSET Slot,
              full : BOOLEAN]
    /\ t.slots = {t.slotOf[f] : f \in Users(t)}
    /\ \A f, g \in Users(t) : t.slotOf[f] = t.slotOf[g] => f = g
    /\ t.full => t.slots = Slot

\* One touch keeps it sound, moves no finger, and gives the touch a slot
\* unless there is none.
LEMMA TouchSound ==
    ASSUME NEW t, Sound(t), NEW f \in Finger
    PROVE  /\ Sound(Touch(t, f))
           /\ \A g \in Finger \ {f} : Touch(t, f).slotOf[g] = t.slotOf[g]
           /\ \A g \in Users(t) : Touch(t, f).slotOf[g] = t.slotOf[g]
           /\ t.full => Touch(t, f).full
           /\ ~Touch(t, f).full => f \in Users(Touch(t, f))
  <1>1. CASE t.full \/ t.slotOf[f] # NoSlot
    <2>1. Touch(t, f) = t
      BY <1>1 DEF Touch
    <2> QED
      BY <1>1, <2>1 DEF Users
  <1>2. CASE ~(t.full \/ t.slotOf[f] # NoSlot) /\ Free(t) = {}
    <2>1. Touch(t, f) = [t EXCEPT !.full = TRUE]
      BY <1>2 DEF Touch
    <2>2. t.slots = Slot
      BY <1>2 DEF Free, Sound
    <2>3. Touch(t, f) = [slotOf |-> t.slotOf, slots |-> t.slots, full |-> TRUE]
      BY <2>1 DEF Sound
    <2> QED
      BY <2>2, <2>3 DEF Sound, Users
  <1>3. CASE ~(t.full \/ t.slotOf[f] # NoSlot) /\ Free(t) # {}
    <2> DEFINE s == CHOOSE s \in Free(t) : \A o \in Free(t) : s =< o
               u == [slotOf |-> [t.slotOf EXCEPT ![f] = s],
                     slots |-> t.slots \cup {s}, full |-> FALSE]
    <2>1. s \in Slot /\ s \notin t.slots
      <3>1. s \in Free(t)
        BY <1>3, FirstSlot DEF Free
      <3> QED
        BY <3>1 DEF Free
    <2>2. Touch(t, f) = [t EXCEPT !.slotOf[f] = s, !.slots = t.slots \cup {s}]
      BY <1>3 DEF Touch
    <2> HIDE DEF s
    <2>3. Touch(t, f) = u
      BY <1>3, <2>2 DEF Sound
    <2>4. s # NoSlot
      BY <2>1, NoSlotIsNone
    <2>5. /\ u.slotOf \in [Finger -> Slot \cup {NoSlot}]
          /\ u.slotOf[f] = s
          /\ \A g \in Finger \ {f} : u.slotOf[g] = t.slotOf[g]
      BY <2>1 DEF Sound
    <2>6. u.slots = t.slots \cup {s} /\ ~u.full
      OBVIOUS
    <2>7. u \in [slotOf : [Finger -> Slot \cup {NoSlot}], slots : SUBSET Slot,
                full : BOOLEAN]
      BY <2>1, <2>5 DEF Sound
    <2> HIDE DEF u
    <2>8. Users(u) = Users(t) \cup {f} /\ f \notin Users(t)
      BY <1>3, <2>4, <2>5 DEF Users
    <2>9. \A g \in Users(t) : u.slotOf[g] = t.slotOf[g] /\ u.slotOf[g] # s
      <3> SUFFICES ASSUME NEW g \in Users(t)
                   PROVE  u.slotOf[g] = t.slotOf[g] /\ u.slotOf[g] # s
        OBVIOUS
      <3>1. u.slotOf[g] = t.slotOf[g]
        BY <2>5, <2>8 DEF Users
      <3>2. t.slotOf[g] \in t.slots
        BY DEF Sound
      <3> QED
        BY <2>1, <3>1, <3>2
    <2>10. u.slots = {u.slotOf[g] : g \in Users(u)}
      BY <2>5, <2>6, <2>8, <2>9 DEF Sound
    <2>11. \A g, h \in Users(u) : u.slotOf[g] = u.slotOf[h] => g = h
      BY <2>5, <2>8, <2>9 DEF Sound
    <2> QED
      BY <1>3, <2>3, <2>5, <2>6, <2>7, <2>8, <2>9, <2>10, <2>11 DEF Sound
  <1> QED
    BY <1>1, <1>2, <1>3

-----------------------------------------------------------------------------
(* The emission                                                            *)

\* Emitting the slots `pressed` and lifting `released` leaves the kernel with
\* the contacts, the count and the tool button they should have.
LEMMA MultiTouchCounts ==
    ASSUME TypeOK, KernelShowsFingers,
           NEW pressed \in SUBSET Slot, NEW released \in SUBSET Slot,
           MultiTouch(pressed, released), pressed \cap released = {}
    PROVE  /\ currentSlots' = (currentSlots \ released) \cup pressed
           /\ currentSlots' \in SUBSET Slot
           /\ fingerCount' = Cardinality(currentSlots)'
           /\ fingerCount' \in 0..MaxSlots
           /\ toolButtons' = ToolButton(fingerCount')
           /\ toolButtons' \in SUBSET (1..ToolCount)
  <1> DEFINE lifts == released \cap currentSlots
             lands == pressed \ currentSlots
             stay == currentSlots \ lifts
  <1>1. /\ currentSlots' = stay \cup lands
        /\ fingerCount' = fingerCount - Cardinality(lifts) + Cardinality(lands)
        /\ toolButtons' = IF fingerCount' = fingerCount THEN toolButtons
                          ELSE (toolButtons \ ToolButton(fingerCount))
                                    \cup ToolButton(fingerCount')
    BY DEF MultiTouch
  <1>2. currentSlots' = (currentSlots \ released) \cup pressed
    BY <1>1
  <1>3. /\ lifts \in SUBSET Slot /\ lands \in SUBSET Slot /\ stay \in SUBSET Slot
        /\ currentSlots \in SUBSET Slot /\ currentSlots' \in SUBSET Slot
    BY <1>1 DEF TypeOK
  <1>4. currentSlots \cap lifts = lifts /\ stay \cap lands = {}
    OBVIOUS
  <1> HIDE DEF lifts, lands
  <1>5. Cardinality(stay) = Cardinality(currentSlots) - Cardinality(lifts)
    <2>1. IsFiniteSet(currentSlots)
      BY <1>3, SlotSet
    <2>2. Cardinality(currentSlots \ lifts)
              = Cardinality(currentSlots) - Cardinality(currentSlots \cap lifts)
      BY <2>1, FS_Difference
    <2> QED
      BY <1>4, <2>2
  <1> HIDE DEF stay
  <1>6. Cardinality(stay \cup lands) = Cardinality(stay) + Cardinality(lands)
    <2>1. Cardinality(stay \cup lands)
              = Cardinality(stay) + Cardinality(lands) - Cardinality(stay \cap lands)
      BY <1>3, SlotSet, FS_Union
    <2>2. Cardinality(stay \cap lands) = 0
      BY <1>4, FS_EmptySet
    <2>3. Cardinality(stay) \in Int /\ Cardinality(lands) \in Int
      BY <1>3, SlotSet
    <2> QED
      BY <2>1, <2>2, <2>3
  <1>7. /\ Cardinality(stay) \in Int /\ Cardinality(lands) \in Int
        /\ Cardinality(lifts) \in Int /\ Cardinality(currentSlots) \in Int
    BY <1>3, SlotSet
  <1>8. fingerCount' = Cardinality(currentSlots')
    BY <1>1, <1>5, <1>6, <1>7 DEF KernelShowsFingers
  <1>9. Cardinality(currentSlots') \in 0..MaxSlots
    BY <1>3, SlotSet
  <1>10. toolButtons' = ToolButton(fingerCount')
    BY <1>1 DEF KernelShowsFingers
  <1>11. ToolButton(fingerCount') \in SUBSET (1..ToolCount)
    BY DEF ToolButton
  <1> QED
    BY <1>2, <1>3, <1>8, <1>9, <1>10, <1>11

-----------------------------------------------------------------------------
(* The handlers                                                            *)

\* What every handler keeps, and what it may do to a finger's slot.
Kept ==
    /\ IInv'
    /\ \A s \in currentSlots \cap currentSlots' : Holder(s)' = Holder(s)
    /\ failed' => /\ Cardinality(SlotsOf(Active)') = MaxSlots
                  /\ \A f \in Active : slotOf'[f] = slotOf[f]
                  /\ currentSlots' = currentSlots

LEMMA InitHolds == Init => IInv
  <1> SUFFICES ASSUME Init PROVE IInv
    OBVIOUS
  <1>1. Active = {} /\ SlotsOf(Active) = {}
    BY DEF Init, Active, SlotsOf
  <1>2. TypeOK
    <2>1. slotOf \in [Finger -> Slot \cup {NoSlot}]
      BY DEF Init
    <2>2. fingerCount \in 0..MaxSlots
      BY SlotsAssumption DEF Init
    <2> QED
      BY <2>1, <2>2 DEF Init, TypeOK
  <1>3. Cardinality(currentSlots) = 0
    BY FS_EmptySet DEF Init
  <1>4. toolButtons = ToolButton(0)
    BY ToolAssumption DEF Init, ToolButton
  <1> QED
    BY <1>1, <1>2, <1>3, <1>4
    DEF Init, IInv, SlotBookkeeping, KernelShowsFingers, ContactsAreHeld

\* A touch keeps its finger's slot and the new ones get free slots; when the
\* slots run out, nothing is emitted.
LEMMA PressKeeps ==
    ASSUME IInv, NEW f \in Finger, NEW g \in Finger, Press(f, g)
    PROVE  Kept
  <1> DEFINE u == Touch(Tracked, f)
             t == Touch(u, g)
             now == {t.slotOf[h] : h \in Active \cup {f, g}}
  <1>1. Sound(Tracked) /\ Users(Tracked) = Active
    BY DEF IInv, SlotBookkeeping, TypeOK, Tracked, Sound, Users, Active, SlotsOf
  <1>2. /\ Sound(u)
        /\ \A h \in Active : u.slotOf[h] = slotOf[h]
        /\ \A h \in Finger \ {f} : u.slotOf[h] = slotOf[h]
        /\ ~u.full => f \in Users(u)
    <2>1. Tracked.slotOf = slotOf
      BY DEF Tracked
    <2> HIDE DEF Tracked
    <2> QED
      BY <1>1, <2>1, TouchSound
  <1> HIDE DEF u
  <1>3. /\ Sound(t)
        /\ \A h \in Users(u) : t.slotOf[h] = u.slotOf[h]
        /\ \A h \in Finger \ {g} : t.slotOf[h] = u.slotOf[h]
        /\ u.full => t.full
        /\ ~t.full => g \in Users(t)
    BY <1>2, TouchSound
  <1> HIDE DEF t
  <1>4. Active \subseteq Users(u) /\ Users(u) \subseteq Users(t)
    BY <1>2, <1>3 DEF Active, Users
  <1>5. \A h \in Active : t.slotOf[h] = slotOf[h]
    BY <1>2, <1>3, <1>4
  <1>6. Users(t) \subseteq Active \cup {f, g}
    BY <1>2, <1>3 DEF Active, Users
  <1>7. ~t.full => Users(t) = Active \cup {f, g}
    BY <1>2, <1>3, <1>4, <1>6
  <1>8. slotOf' = t.slotOf /\ slots' = t.slots /\ failed' = t.full
    BY DEF Press, t, u
  <1>9. /\ Active' = Users(t)
        /\ SlotsOf(Active)' = {t.slotOf[h] : h \in Users(t)}
    BY <1>8 DEF Active, Users, SlotsOf
  <1>10. SlotBookkeeping' \/ ~TypeOK'
    <2>1. slots' = SlotsOf(Active)'
      BY <1>3, <1>8, <1>9 DEF Sound
    <2>2. \A h, i \in Active' : slotOf'[h] = slotOf'[i] => h = i
      BY <1>3, <1>8, <1>9 DEF Sound
    <2> QED
      BY <2>1, <2>2 DEF SlotBookkeeping
  <1>11. /\ slotOf' \in [Finger -> Slot \cup {NoSlot}]
         /\ slots' \in SUBSET Slot
         /\ failed' \in BOOLEAN
    BY <1>3, <1>8 DEF Sound
  <1>12. SlotsOf(Active) \subseteq SlotsOf(Active)'
    BY <1>4, <1>5, <1>9 DEF SlotsOf
  <1>13. \A s \in currentSlots : Holder(s)' = Holder(s)
    <2> SUFFICES ASSUME NEW s \in currentSlots
                 PROVE  Holder(s)' = Holder(s)
      OBVIOUS
    <2>1. PICK h \in Active : slotOf[h] = s
      BY DEF IInv, ContactsAreHeld, SlotsOf
    <2>2. h \in Active' /\ slotOf'[h] = s
      BY <1>4, <1>5, <1>8, <1>9, <2>1
    <2>3. Holder(s) = {h}
      BY <2>1 DEF Holder, IInv, SlotBookkeeping
    <2>4. \A i \in Active' : slotOf'[i] = s => i = h
      BY <1>3, <1>8, <1>9, <2>2 DEF Sound
    <2>5. Holder(s)' = {h}
      BY <2>2, <2>4 DEF Holder
    <2> QED
      BY <2>3, <2>5
  <1>14. CASE t.full
    <2>1. UNCHANGED <<touching, currentSlots, fingerCount, toolButtons>>
      BY <1>14 DEF Press, t, u
    <2>2. TypeOK'
      BY <1>11, <2>1 DEF IInv, SlotBookkeeping, TypeOK
    <2>3. ContactsAreHeld'
      BY <1>12, <2>1 DEF IInv, ContactsAreHeld
    <2>4. KernelShowsFingers'
      BY <1>8, <1>14, <2>1 DEF IInv, KernelShowsFingers
    <2>5. Cardinality(SlotsOf(Active)') = MaxSlots
      BY <1>3, <1>9, <1>14, SlotCount DEF Sound
    <2>6. \A h \in Active : slotOf'[h] = slotOf[h]
      BY <1>5, <1>8
    <2> QED
      BY <1>10, <1>13, <2>1, <2>2, <2>3, <2>4, <2>5, <2>6 DEF Kept, IInv
  <1>15. CASE ~t.full
    <2>1. touching' = (now # {}) /\ MultiTouch(now, {})
      BY <1>15 DEF Press, Emit, t, u
    <2>2. now = SlotsOf(Active)'
      BY <1>7, <1>9, <1>15
    <2>3. now \in SUBSET Slot
      BY <1>3, <1>9, <2>2 DEF Sound
    <2> HIDE DEF now
    <2>4. /\ currentSlots' = (currentSlots \ {}) \cup now
          /\ currentSlots' \in SUBSET Slot
          /\ fingerCount' = Cardinality(currentSlots)'
          /\ fingerCount' \in 0..MaxSlots
          /\ toolButtons' = ToolButton(fingerCount')
          /\ toolButtons' \in SUBSET (1..ToolCount)
      BY <2>1, <2>3, MultiTouchCounts DEF IInv, SlotBookkeeping
    <2>5. currentSlots' = now
      BY <1>12, <2>2, <2>4 DEF IInv, ContactsAreHeld
    <2>6. TypeOK'
      BY <1>11, <2>1, <2>4 DEF TypeOK
    <2>7. KernelShowsFingers' /\ ContactsAreHeld'
      <3>1. ToolButton(fingerCount') = ToolButton(fingerCount)'
        BY DEF ToolButton
      <3> QED
        BY <2>1, <2>2, <2>4, <2>5, <3>1 DEF KernelShowsFingers, ContactsAreHeld
    <2>8. ~failed'
      BY <1>8, <1>15
    <2> QED
      BY <1>10, <1>13, <2>6, <2>7, <2>8 DEF Kept, IInv
  <1> QED
    BY <1>14, <1>15

\* The slots of lifted fingers become free and their contacts end together.
LEMMA LiftKeeps ==
    ASSUME IInv, NEW fingers \in SUBSET Finger, Lift(fingers)
    PROVE  Kept
  <1> DEFINE released == fingers \cap Active
             gone == SlotsOf(released)
             stay == SlotsOf(Active \ released)
  <1>1. /\ slotOf' \in [Finger -> Slot \cup {NoSlot}]
        /\ \A f \in Finger :
              slotOf'[f] = IF f \in released THEN NoSlot ELSE slotOf[f]
    BY DEF Lift, IInv, SlotBookkeeping, TypeOK
  <1>2. Active' = Active \ released
    BY <1>1 DEF Active
  <1>3. /\ stay \cap gone = {}
        /\ SlotsOf(Active) = stay \cup gone
        /\ stay \in SUBSET Slot /\ gone \in SUBSET Slot
    <2>1. SlotsOf(Active) = stay \cup gone
      BY DEF SlotsOf
    <2>2. stay \cap gone = {}
      BY DEF SlotsOf, IInv, SlotBookkeeping
    <2>3. SlotsOf(Active) \in SUBSET Slot
      BY DEF IInv, SlotBookkeeping, TypeOK
    <2> QED
      BY <2>1, <2>2, <2>3
  <1>4. SlotsOf(Active)' = stay
    <2>1. \A f \in Active \ released : f \in Finger /\ slotOf'[f] = slotOf[f]
      BY <1>1 DEF Active
    <2>2. SlotsOf(Active)' = {slotOf'[f] : f \in Active \ released}
      BY <1>2 DEF SlotsOf
    <2> QED
      BY <2>1, <2>2 DEF SlotsOf
  <1>5. /\ slots' = slots \ gone
        /\ failed' = FALSE
        /\ touching' = (stay # {})
        /\ MultiTouch(stay, gone)
    BY DEF Lift, Emit
  <1>6. \A f \in Active' : slotOf'[f] = slotOf[f]
    BY <1>1, <1>2 DEF Active
  <1> HIDE DEF gone, stay
  <1>7. /\ currentSlots' = (currentSlots \ gone) \cup stay
        /\ currentSlots' \in SUBSET Slot
        /\ fingerCount' = Cardinality(currentSlots)'
        /\ fingerCount' \in 0..MaxSlots
        /\ toolButtons' = ToolButton(fingerCount')
        /\ toolButtons' \in SUBSET (1..ToolCount)
    BY <1>3, <1>5, MultiTouchCounts DEF IInv, SlotBookkeeping
  <1>8. currentSlots' = stay
    BY <1>3, <1>7 DEF IInv, ContactsAreHeld
  <1>9. TypeOK'
    BY <1>1, <1>5, <1>7 DEF TypeOK, IInv, SlotBookkeeping
  <1>10. SlotBookkeeping'
    <2>1. slots' = stay
      BY <1>3, <1>5 DEF IInv, SlotBookkeeping
    <2>2. \A f, g \in Active' : slotOf'[f] = slotOf'[g] => f = g
      BY <1>2, <1>6 DEF IInv, SlotBookkeeping
    <2> QED
      BY <1>4, <1>9, <2>1, <2>2 DEF SlotBookkeeping
  <1>11. KernelShowsFingers' /\ ContactsAreHeld'
    <2>1. ToolButton(fingerCount') = ToolButton(fingerCount)'
      BY DEF ToolButton
    <2> QED
      BY <1>4, <1>5, <1>7, <1>8, <2>1 DEF KernelShowsFingers, ContactsAreHeld
  <1>12. ASSUME NEW s \in currentSlots \cap currentSlots'
         PROVE  Holder(s)' = Holder(s)
    <2>1. PICK h \in Active' : slotOf'[h] = s
      BY <1>4, <1>8 DEF SlotsOf
    <2>2. h \in Active /\ slotOf[h] = s
      BY <1>2, <1>6, <2>1
    <2>3. Holder(s) = {h}
      BY <2>2 DEF Holder, IInv, SlotBookkeeping
    <2>4. Holder(s)' = {h}
      BY <1>10, <2>1 DEF Holder, SlotBookkeeping
    <2> QED
      BY <2>3, <2>4
  <1> QED
    BY <1>5, <1>10, <1>11, <1>12 DEF Kept, IInv

\* A reset lifts every finger.
LEMMA ResetLifts ==
    ASSUME IInv, Reset
    PROVE  Lift(Finger)
  <1>1. Finger \cap Active = Active /\ Active \ Active = {}
    BY DEF Active
  <1>2. SlotsOf({}) = {}
    BY DEF SlotsOf
  <1>3. slotOf' = [f \in Finger |-> IF f \in Active THEN NoSlot ELSE slotOf[f]]
    BY DEF Reset, Active
  <1> QED
    BY <1>1, <1>2, <1>3 DEF Reset, Lift

LEMMA NextKeeps == IInv /\ Next => Kept
  BY PressKeeps, LiftKeeps, ResetLifts DEF Next

LEMMA StutterKeeps == IInv /\ UNCHANGED vars => IInv'
  BY DEF vars, IInv, SlotBookkeeping, KernelShowsFingers, ContactsAreHeld,
         TypeOK, Active, SlotsOf, ToolButton, Slot

-----------------------------------------------------------------------------
(* The theorems                                                            *)

\* The strengthened invariant holds for any number of pointers and slots.
THEOREM TrackpadInvariant == Spec => []IInv
  <1>1. Init => IInv
    BY InitHolds
  <1>2. IInv /\ [Next]_vars => IInv'
    BY NextKeeps, StutterKeeps DEF Kept
  <1> QED
    BY <1>1, <1>2, PTL DEF Spec

\* d.slots and d.active agree and no two fingers share a slot.
THEOREM SlotsAgree == Spec => []SlotBookkeeping
  <1>1. IInv => SlotBookkeeping
    BY DEF IInv
  <1> QED
    BY <1>1, TrackpadInvariant, PTL

\* The kernel shows the fingers, and both of its summaries agree with them.
THEOREM KernelAgrees == Spec => []KernelShowsFingers
  <1>1. IInv => KernelShowsFingers
    BY DEF IInv
  <1> QED
    BY <1>1, TrackpadInvariant, PTL

\* A contact never changes fingers while the kernel shows it, and an event is
\* refused only when every slot is held.
THEOREM ContactsKeepFingers == Spec => SlotKeepsFinger
  <1> DEFINE Step ==
        /\ \A s \in currentSlots \cap currentSlots' : Holder(s)' = Holder(s)
        /\ failed' => /\ Cardinality(SlotsOf(Active)') = MaxSlots
                      /\ \A f \in Active : slotOf'[f] = slotOf[f]
                      /\ currentSlots' = currentSlots
  <1>1. IInv /\ [Next]_vars => [Step]_vars
    <2>1. IInv /\ Next => Step
      BY NextKeeps DEF Kept
    <2> QED
      BY <2>1
  <1>2. [][Step]_vars => SlotKeepsFinger
    BY DEF SlotKeepsFinger
  <1> HIDE DEF Step
  <1> QED
    BY <1>1, <1>2, TrackpadInvariant, PTL DEF Spec

-----------------------------------------------------------------------------
(***************************************************************************)
(* The pen on Windows.  A handler is a composition of steps on a record as *)
(* on Linux, but each frame may be refused; what a step does is one of the *)
(* two.                                                                    *)
(***************************************************************************)

WinPen == [inRange : BOOLEAN, tipDown : BOOLEAN, barrels : SUBSET Barrel]
WinPointer ==
    {o \in [inRange : BOOLEAN, contact : BOOLEAN, buttons : SUBSET Barrel] :
        o.contact => o.inRange}
WinFrame == {f \in SUBSET Flag : "INCONTACT" \in f => "INRANGE" \in f}
WinFrames == Seq(WinFrame)

\* A handler under way.
WinState ==
    [pen : WinPen, os : WinPointer, frames : WinFrames, tried : Nat,
     fails : SUBSET Nat, err : BOOLEAN]

\* The pointer after the frame f.
Under(f, buttons) ==
    [inRange |-> "INRANGE" \in f, contact |-> "INCONTACT" \in f, buttons |-> buttons]

\* What an injection makes of a handler: it fails, and the handler returns, or
\* Windows has the frame.
Refused(r, s) == r.err /\ r.pen = s.pen /\ r.os = s.os /\ r.frames = s.frames
Injected(r, s, f) ==
    /\ ~r.err
    /\ r.os = Under(f, s.pen.barrels)
    /\ r.frames = Append(s.frames, f)

Runs(s) == s \in WinState /\ ~s.err

\* What one injection of the frame f may make of s, with p the pen when it
\* succeeds.
Outcome(r, s, f, p) ==
    r \in WinState /\ (Refused(r, s) \/ (Injected(r, s, f) /\ r.pen = p))

LEMMA WinEmit ==
    ASSUME NEW s, Runs(s), NEW f \in WinFrame
    PROVE  Outcome(EmitFrame(s, f), s, f, s.pen)
  <1> DEFINE r == EmitFrame(s, f)
             n == s.tried + 1
             ptr == Under(f, s.pen.barrels)
             frames == Append(s.frames, f)
  <1>0. s \in WinState /\ ~s.err
    BY DEF Runs
  <1>1. n \in Nat
    BY <1>0 DEF WinState
  <1>2. ptr \in WinPointer
    BY <1>0 DEF Under, WinPointer, WinState, WinPen, WinFrame
  <1>3. frames \in WinFrames
    BY <1>0 DEF WinState, WinFrames
  <1>4. r = IF n \in s.fails THEN [s EXCEPT !.tried = n, !.err = TRUE]
            ELSE [s EXCEPT !.tried = n, !.frames = frames, !.os = ptr]
    BY DEF EmitFrame, Under
  <1> HIDE DEF n, ptr, frames, r
  <1>5. CASE n \in s.fails
    BY <1>0, <1>1, <1>4, <1>5 DEF WinState, Refused, Outcome, r
  <1>6. CASE n \notin s.fails
    <2>1. /\ r \in WinState
          /\ r.pen = s.pen /\ ~r.err /\ r.os = ptr /\ r.frames = frames
      BY <1>0, <1>1, <1>2, <1>3, <1>4, <1>6 DEF WinState
    <2> QED
      BY <2>1 DEF Outcome, Injected, ptr, frames, r
  <1> QED
    BY <1>5, <1>6

InFrame == {"NEW", "UPDATE", "INRANGE"}
DownFrame == {"DOWN", "INRANGE", "INCONTACT"}
UpFrame == {"UP", "INRANGE"}
ContactUpdate == {"UPDATE", "INRANGE", "INCONTACT"}
HoverUpdate == {"UPDATE", "INRANGE"}
OutFrame == {"UPDATE"}

LEMMA WinContact ==
    /\ "INRANGE" \in InFrame /\ "INCONTACT" \notin InFrame
    /\ "INRANGE" \in DownFrame /\ "INCONTACT" \in DownFrame
    /\ "INRANGE" \in UpFrame /\ "INCONTACT" \notin UpFrame
    /\ "INRANGE" \in ContactUpdate /\ "INCONTACT" \in ContactUpdate
    /\ "INRANGE" \in HoverUpdate /\ "INCONTACT" \notin HoverUpdate
    /\ "INRANGE" \notin OutFrame /\ "INCONTACT" \notin OutFrame
  BY DEF InFrame, DownFrame, UpFrame, ContactUpdate, HoverUpdate, OutFrame

LEMMA WinFlags ==
    /\ InFrame \in WinFrame /\ DownFrame \in WinFrame /\ UpFrame \in WinFrame
    /\ ContactUpdate \in WinFrame /\ HoverUpdate \in WinFrame /\ OutFrame \in WinFrame
  BY DEF InFrame, DownFrame, UpFrame, ContactUpdate, HoverUpdate, OutFrame, WinFrame, Flag

LEMMA WinProximity ==
    ASSUME NEW s, Runs(s)
    PROVE  Outcome(ProximityIn(s), s, InFrame, [s.pen EXCEPT !.inRange = TRUE])
  <1> DEFINE t == EmitFrame(s, InFrame)
             r == ProximityIn(s)
             p == [s.pen EXCEPT !.inRange = TRUE]
  <1>1. Outcome(t, s, InFrame, s.pen)
    BY WinEmit, WinFlags
  <1>2. r = IF t.err THEN t ELSE [t EXCEPT !.pen.inRange = TRUE]
    BY DEF ProximityIn, SetInRange, InFrame
  <1>3. p \in WinPen
    BY DEF Runs, WinState, WinPen
  <1>4. CASE t.err
    BY <1>1, <1>2, <1>4 DEF Outcome, Injected
  <1>5. CASE ~t.err
    <2>1. r = [t EXCEPT !.pen = p]
      BY <1>1, <1>2, <1>5 DEF Outcome, Injected, Refused, WinState
    <2> HIDE DEF t, r, p
    <2>2. r \in WinState /\ r.pen = p /\ r.os = t.os /\ r.frames = t.frames /\ ~r.err
      BY <1>1, <1>3, <1>5, <2>1 DEF Outcome, WinState
    <2>3. Outcome(r, s, InFrame, p)
      BY <1>1, <1>5, <2>2 DEF Outcome, Injected, Refused
    <2> QED
      BY <2>3 DEF r, p
  <1> QED
    BY <1>4, <1>5

LEMMA WinSetTip ==
    ASSUME NEW s, Runs(s), NEW f \in WinFrame, NEW down \in BOOLEAN
    PROVE  Outcome(SetTip(EmitFrame(s, f), down), s, f, [s.pen EXCEPT !.tipDown = down])
  <1> DEFINE t == EmitFrame(s, f)
             r == SetTip(t, down)
             p == [s.pen EXCEPT !.tipDown = down]
  <1>1. Outcome(t, s, f, s.pen)
    BY WinEmit
  <1>2. r = IF t.err THEN t ELSE [t EXCEPT !.pen.tipDown = down]
    BY DEF SetTip
  <1>3. p \in WinPen
    BY DEF Runs, WinState, WinPen
  <1>4. CASE t.err
    <2> HIDE DEF t, r, p
    <2>1. r = t /\ Outcome(t, s, f, p)
      BY <1>1, <1>2, <1>4 DEF Outcome, Injected
    <2> QED
      BY <2>1 DEF r, p, t
  <1>5. CASE ~t.err
    <2>1. r = [t EXCEPT !.pen = p]
      BY <1>1, <1>2, <1>5 DEF Outcome, Injected, Refused, WinState
    <2> HIDE DEF t, r, p
    <2>2. r \in WinState /\ r.pen = p /\ r.os = t.os /\ r.frames = t.frames /\ ~r.err
      BY <1>1, <1>3, <1>5, <2>1 DEF Outcome, WinState
    <2>3. Outcome(r, s, f, p)
      BY <1>1, <1>5, <2>2 DEF Outcome, Injected, Refused
    <2> QED
      BY <2>3 DEF r, p, t
  <1> QED
    BY <1>4, <1>5

\* dropTip and liftTip, where the tip is not there yet.
LEMMA WinDrop ==
    ASSUME NEW s, Runs(s), ~s.pen.tipDown
    PROVE  Outcome(DropTip(s), s, DownFrame, [s.pen EXCEPT !.tipDown = TRUE])
  BY WinSetTip, WinFlags DEF DropTip, DownFrame

LEMMA WinLift ==
    ASSUME NEW s, Runs(s), s.pen.tipDown
    PROVE  Outcome(LiftTip(s), s, UpFrame, [s.pen EXCEPT !.tipDown = FALSE])
  BY WinSetTip, WinFlags DEF LiftTip, UpFrame

-----------------------------------------------------------------------------
(* The state of a handler, in step with Windows or not                     *)

\* A frame goes out or not, whatever happened before it.
LEMMA WinEmitTyped ==
    ASSUME NEW s \in WinState, NEW f \in WinFrame
    PROVE  /\ EmitFrame(s, f) \in WinState
           /\ EmitFrame(s, f).pen = s.pen
           /\ s.err => EmitFrame(s, f).err
  <1> DEFINE n == s.tried + 1
             ptr == Under(f, s.pen.barrels)
             frames == Append(s.frames, f)
  <1>1. n \in Nat
    BY DEF WinState
  <1>2. ptr \in WinPointer
    BY DEF Under, WinPointer, WinState, WinPen, WinFrame
  <1>3. frames \in WinFrames
    BY DEF WinState, WinFrames
  <1>4. EmitFrame(s, f) = IF n \in s.fails THEN [s EXCEPT !.tried = n, !.err = TRUE]
                            ELSE [s EXCEPT !.tried = n, !.frames = frames, !.os = ptr]
    BY DEF EmitFrame, Under
  <1> HIDE DEF n, ptr, frames
  <1> QED
    BY <1>1, <1>2, <1>3, <1>4 DEF WinState

LEMMA WinBarrels ==
    ASSUME NEW s \in WinState, NEW B \in SUBSET Barrel
    PROVE  LET r == [s EXCEPT !.pen.barrels = B]
           IN  /\ r \in WinState
               /\ r.pen.inRange = s.pen.inRange /\ r.pen.tipDown = s.pen.tipDown
               /\ r.pen.barrels = B
               /\ r.os = s.os /\ r.frames = s.frames /\ r.err = s.err
  BY DEF WinState, WinPen

LEMMA WinTyped ==
    ASSUME NEW s, Runs(s)
    PROVE  /\ ProximityIn(s) \in WinState
           /\ EnterRange(s) \in WinState
           /\ DropTip(s) \in WinState
           /\ LiftTip(s) \in WinState
           /\ ContactFrame(s) \in WinState
           /\ HoverFrame(s) \in WinState
  <1>1. ProximityIn(s) \in WinState
    BY WinProximity DEF Outcome
  <1>2. DropTip(s) \in WinState
    BY WinDrop DEF Outcome, DropTip, Runs
  <1>3. LiftTip(s) \in WinState
    BY WinLift DEF Outcome, LiftTip, Runs
  <1>4. EnterRange(s) \in WinState
    BY <1>1 DEF EnterRange, Runs
  <1>5. ContactFrame(s) \in WinState /\ HoverFrame(s) \in WinState
    BY WinEmitTyped, WinFlags DEF Runs, ContactFrame, HoverFrame, ContactUpdate, HoverUpdate
  <1> QED
    BY <1>1, <1>2, <1>3, <1>4, <1>5

\* The driver knows what Windows holds.
InStep(s) == s.pen.inRange = s.os.inRange /\ s.pen.tipDown = s.os.contact

\* The frames so far are legal after the pointer that the handler found, and
\* what Windows holds is what the last of them left.
InOrder(s) ==
    /\ LegalFrames(s.frames)
    /\ s.frames = <<>> =>
          s.os.inRange = os.inRange /\ s.os.contact = os.contact
    /\ s.frames # <<>> =>
          /\ s.os.inRange = ("INRANGE" \in s.frames[Len(s.frames)])
          /\ s.os.contact = ("INCONTACT" \in s.frames[Len(s.frames)])

WinSound(s) == s \in WinState /\ InStep(s) /\ InOrder(s)

LEMMA WinFrameNext ==
    ASSUME NEW s, WinSound(s), NEW f \in WinFrame, NEW p, NEW r, Outcome(r, s, f, p),
           LegalAfter(s.os.inRange, s.os.contact, f)
    PROVE  InOrder(r)
  <1>1. CASE Refused(r, s)
    BY <1>1 DEF WinSound, InOrder, Refused
  <1>2. CASE Injected(r, s, f)
    <2> DEFINE n == Len(s.frames)
    <2>1. s.frames \in Seq(WinFrame)
      BY DEF WinSound, WinState, WinFrames
    <2>2. /\ n \in Nat
          /\ Len(r.frames) = n + 1 /\ r.frames[n + 1] = f /\ r.frames # <<>>
          /\ \A i \in 1..n : r.frames[i] = s.frames[i]
          /\ s.frames = <<>> <=> n = 0
      BY <1>2, <2>1 DEF Injected
    <2>3. DOMAIN r.frames = 1..(n + 1) /\ DOMAIN s.frames = 1..n
      BY <1>2, <2>1 DEF Injected
    <2> HIDE DEF n
    <2>4. ASSUME NEW i \in 1..(n + 1)
          PROVE  IF i = 1 THEN LegalAfter(os.inRange, os.contact, r.frames[1])
                 ELSE LegalAfter("INRANGE" \in r.frames[i - 1],
                                   "INCONTACT" \in r.frames[i - 1], r.frames[i])
      <3>1. CASE i \in 1..n
        <4>1. r.frames[i] = s.frames[i] /\ (i # 1 => r.frames[i - 1] = s.frames[i - 1])
          BY <2>2, <3>1
        <4> QED
          BY <2>3, <3>1, <4>1 DEF WinSound, InOrder, LegalFrames
      <3>2. CASE i = n + 1 /\ n = 0
        BY <2>2, <3>2 DEF WinSound, InOrder
      <3>3. CASE i = n + 1 /\ n # 0
        <4>1. i # 1 /\ i - 1 = n /\ r.frames[i - 1] = s.frames[n] /\ r.frames[i] = f
          BY <2>2, <3>3
        <4>2. /\ s.os.inRange = ("INRANGE" \in s.frames[n])
              /\ s.os.contact = ("INCONTACT" \in s.frames[n])
          BY <2>2, <3>3 DEF WinSound, InOrder, n
        <4> QED
          BY <4>1, <4>2
      <3> QED
        BY <2>2, <3>1, <3>2, <3>3
    <2>5. LegalFrames(r.frames)
      BY <2>3, <2>4 DEF LegalFrames
    <2> QED
      BY <1>2, <2>2, <2>5 DEF InOrder, Injected, Under
  <1> QED
    BY <1>1, <1>2 DEF Outcome

\* A step whose frame says what the driver remembers keeps the two in step.
LEMMA WinStepSound ==
    ASSUME NEW s, WinSound(s), NEW f \in WinFrame, NEW p, NEW r, Outcome(r, s, f, p),
           LegalAfter(s.os.inRange, s.os.contact, f),
           (p.inRange <=> "INRANGE" \in f), (p.tipDown <=> "INCONTACT" \in f)
    PROVE  WinSound(r)
  <1>1. InOrder(r)
    BY WinFrameNext
  <1>2. InStep(r)
    <2>1. r \in WinState
      BY DEF Outcome
    <2>2. CASE Refused(r, s)
      BY <2>2 DEF Refused, InStep, WinSound
    <2>3. CASE Injected(r, s, f) /\ r.pen = p
      BY <2>1, <2>3 DEF Injected, InStep, Under, WinState, WinPen
    <2> QED
      BY <2>2, <2>3 DEF Outcome
  <1> QED
    BY <1>1, <1>2 DEF WinSound, Outcome

-----------------------------------------------------------------------------
(* The handlers, in step with Windows                                      *)

LEMMA WinFields ==
    ASSUME NEW s, WinSound(s)
    PROVE  /\ s.pen.inRange \in BOOLEAN /\ s.pen.tipDown \in BOOLEAN
           /\ s.pen.inRange = s.os.inRange /\ s.pen.tipDown = s.os.contact
           /\ s.pen.tipDown => s.pen.inRange
           /\ \A down \in BOOLEAN :
                 /\ [s.pen EXCEPT !.inRange = TRUE].inRange = TRUE
                 /\ [s.pen EXCEPT !.inRange = TRUE].tipDown = s.pen.tipDown
                 /\ [s.pen EXCEPT !.tipDown = down].inRange = s.pen.inRange
                 /\ [s.pen EXCEPT !.tipDown = down].tipDown = down
  BY DEF WinSound, WinState, WinPen, WinPointer, InStep

LEMMA WinEnterSound ==
    ASSUME NEW s, WinSound(s), Runs(s)
    PROVE  LET r == EnterRange(s)
           IN  /\ WinSound(r)
               /\ ~r.err => Runs(r) /\ r.pen.inRange /\ (s.pen.inRange => r = s)
               /\ ~s.pen.inRange => r = ProximityIn(s)
  <1>1. CASE s.pen.inRange
    BY <1>1 DEF EnterRange
  <1>2. CASE ~s.pen.inRange
    <2> DEFINE r == ProximityIn(s)
               p == [s.pen EXCEPT !.inRange = TRUE]
    <2>1. Outcome(r, s, InFrame, p)
      BY WinProximity
    <2>2. LegalAfter(s.os.inRange, s.os.contact, InFrame)
      BY <1>2, WinFields DEF LegalAfter, InFrame
    <2>3. (p.inRange <=> "INRANGE" \in InFrame) /\ (p.tipDown <=> "INCONTACT" \in InFrame)
      BY <1>2, WinFields, WinContact
    <2>4. EnterRange(s) = r
      BY <1>2 DEF EnterRange
    <2>5. p.inRange
      BY WinFields
    <2> HIDE DEF r, p
    <2>6. WinSound(r)
      BY <2>1, <2>2, <2>3, WinStepSound, WinFlags
    <2>7. ~r.err => Runs(r) /\ r.pen.inRange
      BY <2>1, <2>5, <2>6 DEF Outcome, Refused, Runs
    <2> QED
      BY <1>2, <2>4, <2>6, <2>7 DEF r
  <1> QED
    BY <1>1, <1>2

LEMMA WinDropSound ==
    ASSUME NEW s, WinSound(s), Runs(s), s.pen.inRange
    PROVE  WinSound(DropTip(s))
  <1>1. CASE s.pen.tipDown
    BY <1>1 DEF DropTip
  <1>2. CASE ~s.pen.tipDown
    <2> DEFINE r == DropTip(s)
               p == [s.pen EXCEPT !.tipDown = TRUE]
    <2>1. Outcome(r, s, DownFrame, p)
      BY <1>2, WinDrop
    <2>2. LegalAfter(s.os.inRange, s.os.contact, DownFrame)
      BY <1>2, WinFields DEF LegalAfter, DownFrame
    <2>3. (p.inRange <=> "INRANGE" \in DownFrame) /\ (p.tipDown <=> "INCONTACT" \in DownFrame)
      BY WinFields, WinContact
    <2> HIDE DEF r, p
    <2>4. WinSound(r)
      BY <2>1, <2>2, <2>3, WinStepSound, WinFlags
    <2> QED
      BY <2>4 DEF r
  <1> QED
    BY <1>1, <1>2

LEMMA WinLiftSound ==
    ASSUME NEW s, WinSound(s), Runs(s)
    PROVE  LET r == LiftTip(s)
           IN  /\ WinSound(r)
               /\ ~r.err => Runs(r) /\ ~r.pen.tipDown /\ r.pen.inRange = s.pen.inRange
  <1>1. CASE ~s.pen.tipDown
    BY <1>1 DEF LiftTip
  <1>2. CASE s.pen.tipDown
    <2> DEFINE r == LiftTip(s)
               p == [s.pen EXCEPT !.tipDown = FALSE]
    <2>1. Outcome(r, s, UpFrame, p)
      BY <1>2, WinLift
    <2>2. LegalAfter(s.os.inRange, s.os.contact, UpFrame)
      BY <1>2, WinFields DEF LegalAfter, UpFrame
    <2>3. /\ (p.inRange <=> "INRANGE" \in UpFrame) /\ (p.tipDown <=> "INCONTACT" \in UpFrame)
          /\ ~p.tipDown /\ p.inRange = s.pen.inRange
      BY <1>2, WinFields, WinContact
    <2> HIDE DEF r, p
    <2>4. WinSound(r)
      BY <2>1, <2>2, <2>3, WinStepSound, WinFlags
    <2>5. ~r.err => Runs(r) /\ ~r.pen.tipDown /\ r.pen.inRange = s.pen.inRange
      BY <2>1, <2>3 DEF Outcome, Refused, Injected, Runs
    <2> QED
      BY <2>4, <2>5 DEF r
  <1> QED
    BY <1>1, <1>2

LEMMA WinUpdateSound ==
    ASSUME NEW s, WinSound(s), Runs(s)
    PROVE  /\ s.pen.tipDown => WinSound(ContactFrame(s))
           /\ s.pen.inRange /\ ~s.pen.tipDown => WinSound(HoverFrame(s))
  <1>1. CASE s.pen.tipDown
    <2>1. Outcome(ContactFrame(s), s, ContactUpdate, s.pen)
      BY WinEmit, WinFlags DEF ContactFrame, ContactUpdate
    <2>2. LegalAfter(s.os.inRange, s.os.contact, ContactUpdate)
      BY <1>1, WinFields DEF LegalAfter, ContactUpdate
    <2>3. /\ (s.pen.inRange <=> "INRANGE" \in ContactUpdate)
          /\ (s.pen.tipDown <=> "INCONTACT" \in ContactUpdate)
      BY <1>1, WinFields, WinContact
    <2> QED
      BY <1>1, <2>1, <2>2, <2>3, WinStepSound, WinFlags
  <1>2. CASE s.pen.inRange /\ ~s.pen.tipDown
    <2>1. Outcome(HoverFrame(s), s, HoverUpdate, s.pen)
      BY WinEmit, WinFlags DEF HoverFrame, HoverUpdate
    <2>2. LegalAfter(s.os.inRange, s.os.contact, HoverUpdate)
      BY <1>2, WinFields DEF LegalAfter, HoverUpdate
    <2>3. /\ (s.pen.inRange <=> "INRANGE" \in HoverUpdate)
          /\ (s.pen.tipDown <=> "INCONTACT" \in HoverUpdate)
      BY <1>2, WinFields, WinContact
    <2> QED
      BY <1>2, <2>1, <2>2, <2>3, WinStepSound, WinFlags
  <1> QED
    BY <1>1, <1>2

\* What a handler does after a call that returned no error.
LEMMA WinThenSound ==
    ASSUME NEW s, WinSound(s), ~s.err => s.pen.inRange
    PROVE  WinSound(ThenDropTip(s)) /\ WinSound(ThenLiftTip(s))
  BY WinDropSound, WinLiftSound DEF ThenDropTip, ThenLiftTip, Runs, WinSound

LEMMA WinBeginStrokeSound ==
    ASSUME NEW s, WinSound(s), Runs(s)
    PROVE  WinSound(BeginStroke(s))
  <1> DEFINE l == IF s.pen.inRange /\ s.pen.tipDown THEN LiftTip(s) ELSE s
  <1>1. WinSound(l) /\ (~l.err => Runs(l))
    BY WinLiftSound
  <1>2. BeginStroke(s) = IF l.err THEN l ELSE ThenDropTip(EnterRange(l))
    BY DEF BeginStroke
  <1> HIDE DEF l
  <1>3. CASE ~l.err
    BY <1>1, <1>2, <1>3, WinEnterSound, WinThenSound
  <1> QED
    BY <1>1, <1>2, <1>3

-----------------------------------------------------------------------------
(* The steps                                                               *)

WinInv ==
    /\ pen \in WinPen /\ os \in WinPointer
    /\ open \in BOOLEAN
    /\ last.frames \in WinFrames
    /\ last.event = "reset" /\ ~last.failed => os = Gone /\ pen = Idle

\* A handler called e that ends in r.
Takes(e, r) ==
    /\ pen' = r.pen /\ os' = r.os
    /\ last' = [event |-> e, failed |-> r.err, frames |-> r.frames]
    /\ UNCHANGED open

LEMMA WinHandle ==
    ASSUME NEW e, NEW g, Handle(e, g)
    PROVE  \E f \in Failures : Takes(e, g[f])
  BY DEF Handle, Takes

LEMMA WinBegins ==
    ASSUME WinInv, NEW f \in Failures
    PROVE  LET s == Begin(f)
           IN  /\ Runs(s)
               /\ s.pen = pen /\ s.os = os
               /\ Mirrors => WinSound(s)
  <1> DEFINE s == Begin(f)
  <1>1. f \in SUBSET Nat
    BY DEF Failures, MaxFrames
  <1>2. /\ s.pen = pen /\ s.os = os /\ s.frames = <<>>
        /\ s \in WinState /\ ~s.err
    BY <1>1 DEF Begin, WinInv, WinState, WinFrames
  <1> HIDE DEF s
  <1>3. Mirrors => InStep(s)
    BY <1>2 DEF Mirrors, InStep
  <1>4. InOrder(s)
    BY <1>2 DEF InOrder, LegalFrames
  <1> QED
    BY <1>2, <1>3, <1>4 DEF Runs, WinSound, s

\* What an event of the client does.
Served(e, r) == r \in WinState /\ Takes(e, r) /\ (Mirrors => WinSound(r))

LEMMA WinPointerDown ==
    ASSUME WinInv, PointerDown
    PROVE  \E f \in Failures : Served("pointerdown", BeginStroke(Begin(f)))
  <1>1. PICK f \in Failures : Takes("pointerdown", BeginStroke(Begin(f)))
    <2> DEFINE g == [f \in Failures |-> BeginStroke(Begin(f))]
    <2>1. Handle("pointerdown", g)
      BY DEF PointerDown
    <2> QED
      BY <2>1, WinHandle
  <1> DEFINE s == Begin(f)
             l == IF s.pen.inRange /\ s.pen.tipDown THEN LiftTip(s) ELSE s
             t == EnterRange(l)
  <1>2. Runs(s) /\ (Mirrors => WinSound(s))
    BY WinBegins
  <1>3. BeginStroke(s) = IF l.err THEN l ELSE IF t.err THEN t ELSE DropTip(t)
    BY DEF BeginStroke, ThenDropTip
  <1> HIDE DEF s
  <1>4. l \in WinState
    BY <1>2, WinTyped DEF Runs
  <1> HIDE DEF l
  <1>5. ~l.err => t \in WinState
    BY <1>4, WinTyped DEF Runs
  <1> HIDE DEF t
  <1>6. BeginStroke(s) \in WinState
    BY <1>3, <1>4, <1>5, WinTyped DEF Runs
  <1>7. Mirrors => WinSound(BeginStroke(s))
    BY <1>2, WinBeginStrokeSound
  <1> QED
    BY <1>1, <1>6, <1>7 DEF Served, s

LEMMA WinPointerMove ==
    ASSUME WinInv, PointerMove
    PROVE  \E r : Served("pointermove", r)
  <1> DEFINE Move(s) == IF ~s.pen.inRange THEN ThenDropTip(ProximityIn(s))
                        ELSE IF s.pen.tipDown THEN ContactFrame(s) ELSE HoverFrame(s)
             g == [f \in Failures |-> Move(Begin(f))]
  <1>1. Handle("pointermove", g)
    BY DEF PointerMove
  <1>2. PICK f \in Failures : Takes("pointermove", Move(Begin(f)))
    BY <1>1, WinHandle
  <1> DEFINE s == Begin(f)
  <1>3. Runs(s) /\ (Mirrors => WinSound(s))
    BY WinBegins
  <1> HIDE DEF s
  <1>4. CASE ~s.pen.inRange
    <2>1. EnterRange(s) = ProximityIn(s) /\ Move(s) = ThenDropTip(ProximityIn(s))
      BY <1>4 DEF EnterRange
    <2>2. Move(s) \in WinState
      BY <1>3, <2>1, WinTyped DEF ThenDropTip, Runs
    <2>3. Mirrors => WinSound(Move(s))
      <3> SUFFICES ASSUME Mirrors PROVE WinSound(Move(s))
        OBVIOUS
      <3>1. /\ WinSound(ProximityIn(s))
            /\ ~ProximityIn(s).err => ProximityIn(s).pen.inRange
        BY <1>3, <2>1, WinEnterSound
      <3> QED
        BY <2>1, <3>1, WinThenSound
    <2> QED
      BY <1>2, <2>2, <2>3 DEF Served, s
  <1>5. CASE s.pen.inRange
    <2>1. Move(s) \in WinState
      BY <1>3, <1>5, WinTyped
    <2>2. Mirrors => WinSound(Move(s))
      BY <1>3, <1>5, WinUpdateSound
    <2> QED
      BY <1>2, <2>1, <2>2 DEF Served, s
  <1> QED
    BY <1>4, <1>5

LEMMA WinForgetSound ==
    ASSUME NEW s, Runs(s), NEW B \in SUBSET Barrel
    PROVE  LET r == [s EXCEPT !.pen.barrels = B]
           IN  Runs(r) /\ (WinSound(s) => WinSound(r))
  <1> DEFINE r == [s EXCEPT !.pen.barrels = B]
  <1>1. /\ r \in WinState
        /\ r.pen.inRange = s.pen.inRange /\ r.pen.tipDown = s.pen.tipDown
        /\ r.os = s.os /\ r.frames = s.frames /\ r.err = s.err
    BY WinBarrels DEF Runs
  <1> HIDE DEF r
  <1>2. Runs(r) /\ (WinSound(s) => WinSound(r))
    BY <1>1 DEF Runs, WinSound, InStep, InOrder
  <1> QED
    BY <1>2 DEF r

LEMMA WinPointerUp ==
    ASSUME WinInv, PointerUp
    PROVE  \E r : Served("pointerup", r)
  <1> DEFINE Cleared(s) == [s EXCEPT !.pen.barrels = {}]
             Up(s) == IF Cleared(s).pen.inRange THEN LiftTip(Cleared(s)) ELSE Cleared(s)
             g == [f \in Failures |-> Up(Begin(f))]
  <1>1. Handle("pointerup", g)
    BY DEF PointerUp
  <1> HIDE DEF g
  <1>2. PICK f \in Failures : Takes("pointerup", Up(Begin(f)))
    <2>1. PICK f \in Failures : Takes("pointerup", g[f])
      BY <1>1, WinHandle
    <2>2. g[f] = Up(Begin(f))
      BY DEF g
    <2> QED
      BY <2>1, <2>2
  <1> DEFINE s == Begin(f)
             t == Cleared(s)
  <1>3. Runs(s) /\ (Mirrors => WinSound(s))
    BY WinBegins
  <1> HIDE DEF s
  <1>4. Runs(t) /\ (Mirrors => WinSound(t))
    BY <1>3, WinForgetSound
  <1>5. Up(s) = IF t.pen.inRange THEN LiftTip(t) ELSE t
    OBVIOUS
  <1> HIDE DEF t, Up
  <1>6. Up(s) \in WinState /\ (Mirrors => WinSound(Up(s)))
    BY <1>4, <1>5, WinTyped, WinLiftSound DEF Runs
  <1> QED
    BY <1>2, <1>6 DEF Served, s

LEMMA WinLeftButton ==
    ASSUME WinInv, NEW pressed \in BOOLEAN, LeftButton(pressed)
    PROVE  \E r : Served("left", r)
  <1> DEFINE Left(s) == IF pressed THEN ThenDropTip(EnterRange(s))
                        ELSE ThenLiftTip(EnterRange(s))
             g == [f \in Failures |-> Left(Begin(f))]
  <1>1. Handle("left", g)
    BY DEF LeftButton
  <1>2. PICK f \in Failures : Takes("left", Left(Begin(f)))
    BY <1>1, WinHandle
  <1> DEFINE s == Begin(f)
             t == EnterRange(s)
  <1>3. Runs(s) /\ (Mirrors => WinSound(s))
    BY WinBegins
  <1> HIDE DEF s
  <1>4. t \in WinState
    BY <1>3, WinTyped
  <1>5. Mirrors => WinSound(t) /\ (~t.err => t.pen.inRange)
    BY <1>3, WinEnterSound
  <1> HIDE DEF t
  <1>6. ThenDropTip(t) \in WinState /\ ThenLiftTip(t) \in WinState
    BY <1>4, WinTyped DEF ThenDropTip, ThenLiftTip, Runs
  <1>7. Mirrors => WinSound(ThenDropTip(t)) /\ WinSound(ThenLiftTip(t))
    BY <1>5, WinThenSound
  <1>8. Left(s) \in WinState /\ (Mirrors => WinSound(Left(s)))
    BY <1>6, <1>7 DEF t
  <1> QED
    BY <1>2, <1>8 DEF Served, s

LEMMA WinBarrelButton ==
    ASSUME WinInv, NEW b \in Barrel, NEW pressed \in BOOLEAN, BarrelButton(b, pressed)
    PROVE  \E r : Served("barrel", r)
  <1> DEFINE Holding(s) == [s EXCEPT !.pen.barrels =
                              IF pressed THEN @ \cup {b} ELSE @ \ {b}]
             Report(s) == IF s.pen.tipDown THEN ContactFrame(s)
                          ELSE IF ~s.pen.inRange THEN ProximityIn(s)
                          ELSE HoverFrame(s)
             Change(s) == Report(Holding(s))
             g == [f \in Failures |-> Change(Begin(f))]
  <1>1. Handle("barrel", g)
    BY DEF BarrelButton
  <1> HIDE DEF g
  <1>2. PICK f \in Failures : Takes("barrel", Change(Begin(f)))
    <2>1. PICK f \in Failures : Takes("barrel", g[f])
      BY <1>1, WinHandle
    <2>2. g[f] = Change(Begin(f))
      BY DEF g
    <2> QED
      BY <2>1, <2>2
  <1> DEFINE s == Begin(f)
             B == IF pressed THEN s.pen.barrels \cup {b} ELSE s.pen.barrels \ {b}
             t == [s EXCEPT !.pen.barrels = B]
  <1>3. Runs(s) /\ (Mirrors => WinSound(s))
    BY WinBegins
  <1>4. B \in SUBSET Barrel
    BY <1>3 DEF Runs, WinState, WinPen
  <1>5. Holding(s) = t
    OBVIOUS
  <1> HIDE DEF s, B
  <1>6. Runs(t) /\ (Mirrors => WinSound(t))
    BY <1>3, <1>4, WinForgetSound
  <1> HIDE DEF t
  <1>7. Report(t) \in WinState
    BY <1>6, WinTyped
  <1>8. Mirrors => WinSound(Report(t))
    <2> SUFFICES ASSUME Mirrors PROVE WinSound(Report(t))
      OBVIOUS
    <2>1. CASE ~t.pen.inRange
      <3>1. ~t.pen.tipDown
        BY <1>6, <2>1, WinFields
      <3> QED
        BY <1>6, <2>1, <3>1, WinEnterSound
    <2>2. CASE t.pen.inRange
      BY <1>6, <2>2, WinUpdateSound
    <2> QED
      BY <2>1, <2>2
  <1> QED
    BY <1>2, <1>5, <1>7, <1>8 DEF Served, s

\* A Reset that loses no frame leaves nothing, whatever it found; one in step
\* sends legal frames.
LEMMA WinResetPen ==
    ASSUME NEW s, Runs(s)
    PROVE  LET r == ResetPen(s)
           IN  /\ r \in WinState
               /\ ~r.err => r.os = Gone /\ r.pen = Idle
               /\ WinSound(s) /\ s.pen.inRange /\ ~r.err => LegalFrames(r.frames)
  <1> DEFINE l == LiftTip(s)
             t == [l EXCEPT !.pen.barrels = {}]
             out == EmitFrame(t, OutFrame)
             p == [out.pen EXCEPT !.inRange = FALSE]
             r == ResetPen(s)
  <1>1. l \in WinState /\ (~l.err => ~l.pen.tipDown)
    <2>1. CASE ~s.pen.tipDown
      BY <2>1 DEF LiftTip, Runs
    <2>2. CASE s.pen.tipDown
      <3> DEFINE q == [s.pen EXCEPT !.tipDown = FALSE]
      <3>1. Outcome(l, s, UpFrame, q) /\ ~q.tipDown
        BY <2>2, WinLift DEF Runs, WinState, WinPen
      <3> QED
        BY <3>1 DEF Outcome, Refused
    <2> QED
      BY <2>1, <2>2
  <1>2. WinSound(s) => WinSound(l) /\ (~l.err => l.pen.inRange = s.pen.inRange)
    BY WinLiftSound
  <1>3. r = [out EXCEPT !.pen.inRange = FALSE]
    BY DEF ResetPen, OutFrame
  <1> HIDE DEF l, r
  <1>4. /\ t \in WinState
        /\ t.pen.inRange = l.pen.inRange /\ t.pen.tipDown = l.pen.tipDown
        /\ t.pen.barrels = {}
        /\ t.os = l.os /\ t.frames = l.frames /\ t.err = l.err
    BY <1>1, WinBarrels
  <1> HIDE DEF t
  <1>5. out \in WinState /\ out.pen = t.pen /\ (t.err => out.err)
    BY <1>4, WinEmitTyped, WinFlags
  <1>6. Runs(t) => Outcome(out, t, OutFrame, t.pen)
    BY WinEmit, WinFlags
  <1> HIDE DEF out
  <1>7. p \in WinPen /\ ~p.inRange /\ p.tipDown = t.pen.tipDown /\ p.barrels = {}
    BY <1>4, <1>5 DEF WinState, WinPen
  <1>8. r = [out EXCEPT !.pen = p]
    BY <1>3, <1>5 DEF WinState
  <1> HIDE DEF p
  <1>9. /\ r \in WinState /\ r.pen = p
        /\ r.os = out.os /\ r.frames = out.frames /\ r.err = out.err
    BY <1>5, <1>7, <1>8 DEF WinState
  <1>10. ASSUME ~r.err
         PROVE  /\ r.os = Gone /\ r.pen = Idle
                /\ WinSound(s) /\ s.pen.inRange => LegalFrames(r.frames)
    <2>1. Runs(t) /\ ~l.pen.tipDown /\ ~l.err
      BY <1>1, <1>4, <1>5, <1>9, <1>10 DEF Runs
    <2>2. Injected(out, t, OutFrame)
      BY <1>6, <1>9, <1>10, <2>1 DEF Outcome, Refused
    <2>3. out.os = Gone
      <3>1. out.os = Under(OutFrame, {})
        BY <1>4, <2>2 DEF Injected
      <3>2. ("INRANGE" \in OutFrame) = FALSE /\ ("INCONTACT" \in OutFrame) = FALSE
        BY WinContact
      <3> QED
        BY <3>1, <3>2 DEF Under, Gone
    <2>4. p = Idle
      BY <1>4, <1>7, <2>1 DEF Idle, WinPen
    <2>5. ASSUME WinSound(s), s.pen.inRange PROVE LegalFrames(r.frames)
      <3>1. WinSound(t)
        BY <1>2, <1>4, <2>5 DEF WinSound, InStep, InOrder
      <3>2. t.os.inRange /\ ~t.os.contact
        BY <1>2, <1>4, <2>1, <2>5, <3>1, WinFields
      <3>3. LegalAfter(t.os.inRange, t.os.contact, OutFrame)
        BY <3>2 DEF LegalAfter, OutFrame
      <3>4. InOrder(out)
        BY <1>6, <2>1, <3>1, <3>3, WinFrameNext, WinFlags
      <3> QED
        BY <1>9, <3>4 DEF InOrder
    <2> QED
      BY <1>9, <2>3, <2>4, <2>5
  <1> QED
    BY <1>9, <1>10 DEF r

LEMMA WinResetServed ==
    ASSUME WinInv, WinReset
    PROVE  \E r \in WinState :
              /\ Takes("reset", r)
              /\ ~r.err => r.os = Gone /\ r.pen = Idle
              /\ Mirrors /\ ~r.err => LegalFrames(r.frames)
  <1> DEFINE g == [f \in Failures |-> ResetPen(Begin(f))]
  <1>1. Handle("reset", g) /\ pen.inRange
    BY DEF WinReset
  <1> HIDE DEF g
  <1>2. PICK f \in Failures : Takes("reset", g[f])
    BY <1>1, WinHandle
  <1> DEFINE s == Begin(f)
  <1>3. g[f] = ResetPen(s)
    BY DEF g
  <1>4. Runs(s) /\ s.pen = pen /\ (Mirrors => WinSound(s))
    BY WinBegins
  <1> HIDE DEF s
  <1> QED
    BY <1>1, <1>2, <1>3, <1>4, WinResetPen

\* A pointerdown that meets no failure ends in contact, whatever was lost
\* before.
LEMMA WinStroke ==
    ASSUME NEW s, Runs(s), s.pen.tipDown => s.pen.inRange, ~BeginStroke(s).err
    PROVE  LET r == BeginStroke(s)
           IN  /\ r.pen.inRange /\ r.pen.tipDown
               /\ r.os.inRange /\ r.os.contact
               /\ r.frames # <<>> /\ "DOWN" \in r.frames[Len(r.frames)]
  <1> DEFINE l == IF s.pen.inRange /\ s.pen.tipDown THEN LiftTip(s) ELSE s
             t == EnterRange(l)
             r == BeginStroke(s)
  <1>1. r = IF l.err THEN l ELSE IF t.err THEN t ELSE DropTip(t)
    BY DEF BeginStroke, ThenDropTip
  <1>2. ~l.err => Runs(l) /\ ~l.pen.tipDown
    <2>1. CASE ~s.pen.tipDown
      BY <2>1 DEF Runs
    <2>2. CASE s.pen.tipDown
      <3> DEFINE q == [s.pen EXCEPT !.tipDown = FALSE]
      <3>1. Outcome(l, s, UpFrame, q) /\ ~q.tipDown
        BY <2>2, WinLift DEF Runs, WinState, WinPen
      <3> QED
        BY <3>1 DEF Outcome, Refused, Runs
    <2> QED
      BY <2>1, <2>2
  <1> HIDE DEF l
  <1>3. ~l.err => (t.err \/ (Runs(t) /\ t.pen.inRange /\ ~t.pen.tipDown))
    <2>1. CASE l.pen.inRange
      BY <1>2, <2>1 DEF EnterRange
    <2>2. CASE ~l.pen.inRange
      <3> DEFINE q == [l.pen EXCEPT !.inRange = TRUE]
      <3>1. ASSUME ~l.err PROVE Outcome(t, l, InFrame, q) /\ q.inRange /\ ~q.tipDown
        BY <1>2, <2>2, <3>1, WinProximity DEF EnterRange, Runs, WinState, WinPen
      <3> QED
        BY <3>1 DEF Outcome, Refused, Runs
    <2> QED
      BY <2>1, <2>2
  <1> HIDE DEF t, r
  <1>4. ~l.err /\ ~t.err /\ r = DropTip(t) /\ ~r.err
    BY <1>1 DEF r
  <1> DEFINE q == [t.pen EXCEPT !.tipDown = TRUE]
  <1>5. Outcome(r, t, DownFrame, q)
    BY <1>3, <1>4, WinDrop
  <1>6. q.inRange /\ q.tipDown
    BY <1>3, <1>4 DEF Runs, WinState, WinPen
  <1> HIDE DEF q
  <1>7. /\ r.pen = q
        /\ r.os = Under(DownFrame, t.pen.barrels)
        /\ r.frames = Append(t.frames, DownFrame)
    BY <1>4, <1>5 DEF Outcome, Refused, Injected
  <1>8. t.frames \in Seq(WinFrame)
    BY <1>3, <1>4 DEF Runs, WinState, WinFrames
  <1>9. r.frames # <<>> /\ r.frames[Len(r.frames)] = DownFrame
    BY <1>7, <1>8
  <1>10. "DOWN" \in DownFrame
    BY DEF DownFrame
  <1>11. r.os.inRange /\ r.os.contact
    <2>1. /\ r.os.inRange = ("INRANGE" \in DownFrame)
          /\ r.os.contact = ("INCONTACT" \in DownFrame)
      BY <1>7 DEF Under
    <2> QED
      BY <2>1, WinContact
  <1> QED
    BY <1>6, <1>7, <1>9, <1>10, <1>11 DEF r

-----------------------------------------------------------------------------
(* The theorems about the pen on Windows                                   *)

LEMMA WinServes ==
    ASSUME WinInv, ProcessEvent
    PROVE  \E e \in {"pointerdown", "pointermove", "pointerup", "left", "barrel"} :
              \E r : Served(e, r)
  <1>1. CASE PointerDown
    BY <1>1, WinPointerDown
  <1>2. CASE PointerMove
    BY <1>2, WinPointerMove
  <1>3. CASE PointerUp
    BY <1>3, WinPointerUp
  <1>4. ASSUME NEW pressed \in BOOLEAN, LeftButton(pressed) PROVE \E r : Served("left", r)
    BY <1>4, WinLeftButton
  <1>5. ASSUME NEW pressed \in BOOLEAN, NEW b \in Barrel, BarrelButton(b, pressed)
        PROVE  \E r : Served("barrel", r)
    BY <1>5, WinBarrelButton
  <1> QED
    BY <1>1, <1>2, <1>3, <1>4, <1>5 DEF ProcessEvent

LEMMA WinInitHolds == WinInit => WinInv
  BY DEF WinInit, WinInv, Idle, Gone, WinPen, WinPointer, WinFrames

LEMMA WinNextHolds ==
    ASSUME WinInv, [WinNext]_winVars
    PROVE  WinInv'
  <1>1. ASSUME NEW e, NEW r \in WinState, Takes(e, r),
               e = "reset" /\ ~r.err => r.os = Gone /\ r.pen = Idle
        PROVE  WinInv'
    <2>1. /\ last'.frames = r.frames /\ last'.event = e /\ last'.failed = r.err
          /\ pen' = r.pen /\ os' = r.os /\ open' = open
      BY <1>1 DEF Takes
    <2>2. r.pen \in WinPen /\ r.os \in WinPointer /\ r.frames \in WinFrames
      BY DEF WinState
    <2> QED
      BY <1>1, <2>1, <2>2 DEF WinInv
  <1>2. CASE ProcessEvent
    BY <1>1, <1>2, WinServes DEF Served
  <1>3. CASE WinReset
    BY <1>1, <1>3, WinResetServed
  <1>4. CASE Close
    <2>1. pen' = pen /\ os' = Gone /\ open' = FALSE
      BY <1>4 DEF Close
    <2>2. last'.event = "close" /\ last'.frames = <<>>
      BY <1>4 DEF Close
    <2>3. Gone \in WinPointer /\ <<>> \in WinFrames
      BY DEF Gone, WinPointer, WinFrames
    <2> QED
      BY <2>1, <2>2, <2>3 DEF WinInv
  <1>5. CASE UNCHANGED winVars
    BY <1>5 DEF winVars, WinInv
  <1> QED
    BY <1>2, <1>3, <1>4, <1>5 DEF WinNext

LEMMA AlwaysWinInv == WinSpec => []WinInv
  BY WinInitHolds, WinNextHolds, PTL DEF WinSpec

\* On Windows a Reset that found the tool in range and lost no frame leaves
\* nothing pressed (Reset, SetActive(false)).
THEOREM ResetReleasesCorrect == WinSpec => []ResetReleases
  <1>1. WinInv => ResetReleases
    <2>1. WinFrames \subseteq Seq(SUBSET Flag)
      BY DEF WinFrames, WinFrame
    <2> QED
      BY <2>1 DEF WinInv, ResetReleases, WinTypeOK, WinPen, WinPointer
  <1> QED
    BY <1>1, AlwaysWinInv, PTL

\* On Windows every frame is a legal step of the pointer, and a handler cut
\* short by an injection that fails still knows what Windows holds.
THEOREM FramesLegalCorrect == WinSpec => FramesLegal
  <1> DEFINE Agrees ==
          Mirrors =>
             \/ LegalFrames(last'.frames) /\ (open' => Mirrors')
             \/ last'.event = "reset" /\ last'.failed
  <1>1. WinInv /\ [WinNext]_winVars => [Agrees]_winVars
    <2> SUFFICES ASSUME WinInv, WinNext, Mirrors
                 PROVE  \/ LegalFrames(last'.frames) /\ (open' => Mirrors')
                        \/ last'.event = "reset" /\ last'.failed
      OBVIOUS
    <2>1. CASE ProcessEvent
      <3>1. PICK e, r : Served(e, r)
        BY <2>1, WinServes
      <3>2. WinSound(r) /\ Takes(e, r)
        BY <3>1 DEF Served
      <3>3. LegalFrames(last'.frames)
        BY <3>2 DEF WinSound, InOrder, Takes, LegalFrames, LegalAfter
      <3>4. Mirrors'
        BY <3>2 DEF WinSound, InStep, Takes, Mirrors
      <3> QED
        BY <3>3, <3>4
    <2>2. CASE WinReset
      <3>1. PICK r \in WinState :
               /\ Takes("reset", r)
               /\ ~r.err => r.os = Gone /\ r.pen = Idle
               /\ Mirrors /\ ~r.err => LegalFrames(r.frames)
        BY <2>2, WinResetServed
      <3>2. last'.event = "reset" /\ last'.failed = r.err /\ last'.frames = r.frames
        BY <3>1 DEF Takes
      <3>3. ~r.err => Mirrors'
        <4>1. Idle.inRange = Gone.inRange /\ Idle.tipDown = Gone.contact
          BY DEF Idle, Gone
        <4> QED
          BY <3>1, <4>1 DEF Takes, Mirrors
      <3> QED
        BY <3>1, <3>2, <3>3
    <2>3. CASE Close
      BY <2>3 DEF Close, LegalFrames
    <2> QED
      BY <2>1, <2>2, <2>3 DEF WinNext
  <1> QED
    BY <1>1, AlwaysWinInv, PTL DEF WinSpec, FramesLegal

\* On Windows a pointerdown that returns no error ends in a fresh DOWN, whatever
\* was lost before (beginStroke), but for the UP of a Reset.
THEOREM StrokeStartsCorrect == WinSpec => StrokeStarts
  <1> DEFINE Starts ==
          last'.event = "pointerdown" /\ ~last'.failed /\ ~Stuck =>
             /\ Mirrors' /\ os'.contact
             /\ last'.frames # <<>> /\ "DOWN" \in Last(last'.frames)
  <1>1. WinInv /\ [WinNext]_winVars => [Starts]_winVars
    <2> SUFFICES ASSUME WinInv, WinNext,
                        last'.event = "pointerdown", ~last'.failed, ~Stuck
                 PROVE  /\ Mirrors' /\ os'.contact
                        /\ last'.frames # <<>> /\ "DOWN" \in Last(last'.frames)
      OBVIOUS
    <2>1. CASE PointerDown
      <3>1. PICK f \in Failures : Served("pointerdown", BeginStroke(Begin(f)))
        BY <2>1, WinPointerDown
      <3> DEFINE s == Begin(f)
                 r == BeginStroke(s)
      <3>2. Runs(s) /\ s.pen = pen
        BY WinBegins
      <3>3. s.pen.tipDown => s.pen.inRange
        BY <3>2 DEF Stuck
      <3>4. r \in WinState /\ Takes("pointerdown", r)
        BY <3>1 DEF Served
      <3>5. ~r.err
        BY <3>4 DEF Takes
      <3> HIDE DEF s
      <3>6. /\ r.pen.inRange /\ r.pen.tipDown
            /\ r.os.inRange /\ r.os.contact
            /\ r.frames # <<>> /\ "DOWN" \in r.frames[Len(r.frames)]
        BY <3>2, <3>3, <3>5, WinStroke
      <3> HIDE DEF r
      <3>7. r.pen \in WinPen /\ r.os \in WinPointer
        BY <3>4 DEF WinState
      <3>8. Mirrors' /\ os'.contact
        BY <3>4, <3>6, <3>7 DEF Takes, Mirrors, WinPen, WinPointer
      <3> QED
        BY <3>4, <3>6, <3>8 DEF Takes, Last
    <2>2. CASE ~PointerDown
      <3>1. last'.event # "pointerdown"
        <4>1. CASE WinReset
          BY <4>1, WinResetServed DEF Takes
        <4>2. CASE Close
          BY <4>2 DEF Close
        <4>3. CASE PointerMove
          BY <4>3, WinPointerMove DEF Served, Takes
        <4>4. CASE PointerUp
          BY <4>4, WinPointerUp DEF Served, Takes
        <4>5. ASSUME NEW pressed \in BOOLEAN, LeftButton(pressed)
              PROVE  last'.event # "pointerdown"
          BY <4>5, WinLeftButton DEF Served, Takes
        <4>6. ASSUME NEW pressed \in BOOLEAN, NEW b \in Barrel, BarrelButton(b, pressed)
              PROVE  last'.event # "pointerdown"
          BY <4>6, WinBarrelButton DEF Served, Takes
        <4> QED
          BY <2>2, <4>1, <4>2, <4>3, <4>4, <4>5, <4>6 DEF WinNext, ProcessEvent
      <3> QED
        BY <3>1
    <2> QED
      BY <2>1, <2>2
  <1> QED
    BY <1>1, AlwaysWinInv, PTL DEF WinSpec, StrokeStarts
=============================================================================
