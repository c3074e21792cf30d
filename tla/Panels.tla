------------------------------- MODULE Panels -------------------------------
(***************************************************************************)
(* The panels of the page and the pointers on them (app.js).  Each of two  *)
(* areas shows one of three panels; a swipe on its edge zones drags the    *)
(* panels and snaps to the next, to the previous or back, and until the    *)
(* transition has ended the area takes no pointer.  In landscape the lower *)
(* area is not displayed, which ends its transitions without an event.     *)
(*                                                                         *)
(* What the pointers do is sent over an ordered channel that may be lost   *)
(* and opened again; the server applies it to the trackpad and to the pen, *)
(* and resets both when a session ends, for a lost one possibly after the  *)
(* next has begun.                                                         *)
(***************************************************************************)
EXTENDS Naturals, Sequences, SequencesExt

CONSTANTS
    Area,         \* the areas of the page
    Lower,        \* those of them that landscape hides: area-bottom
    Start,        \* Start[a]: initial position of area a in PanelOrder
    Pointer,      \* pointer ids
    NoSurface,    \* no surface
    MaxQueue      \* bound: messages under way at which the user waits

Surface == [area : Area, panel : {"trackpad", "tablet"}]

ASSUME PanelsAssumption ==
    /\ Lower \subseteq Area
    /\ Start \in [Area -> 0..2]
    /\ IsFiniteSet(Pointer)
    /\ NoSurface \notin Surface
    /\ MaxQueue \in Nat \ {0}

VARIABLES
    landscape,    \* the viewport is wider than it is high
    area,         \* areaObj.state, and where the panels are
    active,       \* activePointers of all areas: pointer -> where it went down
    channel,      \* the channel, and whether a lost session is still to end
    queue,        \* messages under way
    device        \* the shared devices: trackpad contacts, pen

panelsVars == <<landscape, area, active, channel, queue, device>>

PanelOrder == <<"trackpad", "tablet", "log">>
Panel(idx) == PanelOrder[idx + 1]
After(idx) == (idx + 1) % 3
Before(idx) == (idx + 2) % 3

\* Where the panels are: at rest, dragged, exactly one panel further, or pulled
\* against the resistance beyond their neighbour or the wrong way.
Position == {"base", "between", "far", "over"}
AreaState ==
    [idx : 0..2, settling : {"no", "next", "prev", "back"}, transition : BOOLEAN,
     pan : {"none", "left", "right"}, at : Position]
Message == [type : {"down", "move", "up"}, panel : {"trackpad", "tablet"}, id : Pointer]
             \cup [type : {"activate"}, active : BOOLEAN]

-----------------------------------------------------------------------------
(* Sending.  sendPointerSample and notifyTabletActive drop what they have  *)
(* while the channel is not open; what the server no longer reads is lost. *)

Sent(msgs) == IF channel.open THEN queue \o msgs ELSE queue

Sample(type, p) == [type |-> type, panel |-> active[p].panel, id |-> p]

\* notifyTabletActive over the areas s.
TabletActive(s) ==
    <<[type |-> "activate", active |-> \E a \in Area : Panel(s[a].idx) = "tablet"]>>

-----------------------------------------------------------------------------
(* Pointers on the surfaces.                                               *)

\* display: none.
Hidden == IF landscape THEN Lower ELSE {}

\* The panels one can touch: a drag shows the neighbour as well, and beyond the
\* middle one of the three the last, in the order preparePan gave them.
Visible(a) ==
    LET s == area[a] IN
    CASE a \in Hidden -> {}
      [] a \notin Hidden /\ s.at = "base" -> {Panel(s.idx)}
      [] a \notin Hidden /\ s.at \in {"between", "far"} ->
            {Panel(s.idx), Panel(IF s.pan = "right" THEN After(s.idx) ELSE Before(s.idx))}
      [] OTHER ->
            {Panel(After(s.idx)), Panel(IF s.pan = "right" THEN Before(s.idx) ELSE s.idx)}

PointerDown(p, a, panel) ==
    /\ Len(queue) < MaxQueue
    /\ active[p] = NoSurface /\ panel \in Visible(a) \ {"log"}
    /\ area[a].settling = "no"
    /\ active' = [active EXCEPT ![p] = [area |-> a, panel |-> panel]]
    /\ queue' = Sent(<<[type |-> "down", panel |-> panel, id |-> p]>>)
    /\ UNCHANGED <<area, channel, device>>

PointerMove(p) ==
    /\ Len(queue) < MaxQueue
    /\ active[p] # NoSurface /\ area[active[p].area].settling = "no"
    /\ queue' = Sent(<<Sample("move", p)>>)
    /\ UNCHANGED <<area, active, channel, device>>

\* pointerup and pointercancel: not held back while the area settles.
PointerUp(p) ==
    /\ Len(queue) < MaxQueue
    /\ active[p] # NoSurface
    /\ active' = [active EXCEPT ![p] = NoSurface]
    /\ queue' = Sent(<<Sample("up", p)>>)
    /\ UNCHANGED <<area, channel, device>>

-----------------------------------------------------------------------------
(* Swipes.  A finger on an edge zone drags the panels of its area; other   *)
(* fingers on the zones are ignored, those on the surfaces are not.        *)

\* Variant: a swipe may start while the last one still settles; preparePan
\* switches the transition off.
BugStartPan(a, edge) ==
    /\ Len(queue) < MaxQueue
    /\ a \notin Hidden
    /\ area[a].pan = "none"
    /\ area' = [area EXCEPT ![a].pan = edge, ![a].transition = FALSE]
    /\ UNCHANGED <<active, channel, queue, device>>

StartPan(a, edge) ==
    /\ Len(queue) < MaxQueue
    /\ a \notin Hidden
    /\ area[a].settling = "no" /\ area[a].pan = "none"
    /\ area' = [area EXCEPT ![a].pan = edge]
    /\ UNCHANGED <<active, channel, queue, device>>

MovePan(a, pos) ==
    /\ Len(queue) < MaxQueue
    /\ area[a].pan # "none" /\ area[a].at # pos
    /\ area' = [area EXCEPT ![a].at = pos]
    /\ UNCHANGED <<active, channel, queue, device>>

\* The swipe went far or fast enough (commit), or the panels snap back.
Settled(s, commit, moves) ==
    [s EXCEPT !.pan = "none", !.at = "base", !.transition = moves,
              !.settling = IF ~commit THEN "back"
                           ELSE IF s.pan = "right" THEN "next" ELSE "prev"]

Target(commit) == IF commit THEN "far" ELSE "base"

\* Variant: the transition is not switched on again.
BugEndPan(a, commit) ==
    /\ Len(queue) < MaxQueue
    /\ area[a].pan # "none"
    /\ area' = [area EXCEPT ![a] = Settled(@, commit, FALSE)]
    /\ UNCHANGED <<active, channel, queue, device>>

\* The browser runs a transition only if the transform of a displayed element
\* changes.
EndPan(a, commit) ==
    /\ Len(queue) < MaxQueue
    /\ area[a].pan # "none"
    /\ area' = [area EXCEPT ![a] =
          Settled(@, commit, a \notin Hidden /\ @.at # Target(commit))]
    /\ UNCHANGED <<active, channel, queue, device>>

Held(a) == {p \in Pointer : active[p] # NoSurface /\ active[p].area = a}

\* releaseAllPointers: the pointerups, in the order of the map.
Lifts(order) == [i \in DOMAIN order |-> Sample("up", order[i])]
Forget(a) == [p \in Pointer |-> IF p \in Held(a) THEN NoSurface ELSE active[p]]

\* The state of an area whose transition has ended.
Snapped(s) ==
    [s EXCEPT !.idx = CASE s.settling = "next" -> After(s.idx)
                        [] s.settling = "prev" -> Before(s.idx)
                        [] OTHER -> s.idx,
              !.settling = "no", !.transition = FALSE]

\* Variant: the pointers are forgotten, but not lifted.
BugForget(a) ==
    /\ area[a].transition
    /\ area' = [area EXCEPT ![a] = Snapped(@)]
    /\ active' = Forget(a)
    /\ queue' = Sent(TabletActive(area'))
    /\ UNCHANGED <<channel, device>>

\* Variant: the server is told before the index moves.
BugNotifyEarly(a) ==
    /\ area[a].transition
    /\ area' = [area EXCEPT ![a] = Snapped(@)]
    /\ active' = Forget(a)
    /\ \E order \in SetToSeqs(Held(a)) : queue' = Sent(Lifts(order) \o TabletActive(area))
    /\ UNCHANGED <<channel, device>>

\* finishSnap, on transitionend.
FinishSnap(a) ==
    /\ area[a].transition
    /\ area' = [area EXCEPT ![a] = Snapped(@)]
    /\ active' = Forget(a)
    /\ \E order \in SetToSeqs(Held(a)) : queue' = Sent(Lifts(order) \o TabletActive(area'))
    /\ UNCHANGED <<channel, device>>

\* updateLayout, after the viewport was turned: an element that is not displayed
\* any more drops its transition, and gets no transitionend later either.
Rotate ==
    /\ Len(queue) < MaxQueue
    /\ landscape' = ~landscape
    /\ area' = [a \in Area |->
          IF a \in Hidden' THEN [area[a] EXCEPT !.transition = FALSE] ELSE area[a]]
    /\ UNCHANGED <<active, channel, queue, device>>

-----------------------------------------------------------------------------
(* The server: the devices as the messages drive them.                     *)

Released == [contacts |-> {}, inRange |-> FALSE, tip |-> FALSE]

Trackpad(m) ==
    [device EXCEPT !.contacts = IF m.type = "up" THEN @ \ {m.id} ELSE @ \cup {m.id}]

\* A down begins a stroke; a move brings an absent pen down and leaves a
\* hovering one in the air; an up leaves it hovering.
Tablet(m) ==
    CASE m.type = "down" -> [device EXCEPT !.inRange = TRUE, !.tip = TRUE]
      [] m.type = "move" -> [device EXCEPT !.inRange = TRUE, !.tip = @ \/ ~device.inRange]
      [] OTHER -> [device EXCEPT !.tip = FALSE]

Applied(m) ==
    IF m.type = "activate"
    THEN IF m.active THEN device ELSE [device EXCEPT !.inRange = FALSE, !.tip = FALSE]
    ELSE IF m.panel = "trackpad" THEN Trackpad(m) ELSE Tablet(m)

Deliver ==
    /\ queue # <<>>
    /\ device' = Applied(Head(queue))
    /\ queue' = Tail(queue)
    /\ UNCHANGED <<area, active, channel>>

-----------------------------------------------------------------------------
(* The channel.  It is open as long as a session reads what the page       *)
(* sends: that the page finds out later makes no difference, what it sends *)
(* is dropped either way.  What is under way when a session ends is lost   *)
(* (for what still arrives see Session).                                   *)

Lose ==
    /\ channel.open
    /\ channel' = [open |-> FALSE, ending |-> TRUE]
    /\ queue' = <<>>
    /\ UNCHANGED <<area, active, device>>

\* The session ends and resets the devices, perhaps after the next has begun.
EndSession ==
    /\ channel.ending
    /\ channel' = [channel EXCEPT !.ending = FALSE]
    /\ device' = Released
    /\ UNCHANGED <<area, active, queue>>

\* channel.onopen tells the server which panel is shown.
Open ==
    /\ ~channel.open
    /\ channel' = [channel EXCEPT !.open = TRUE]
    /\ queue' = TabletActive(area)
    /\ UNCHANGED <<area, active, device>>

-----------------------------------------------------------------------------
PanelsInit ==
    /\ landscape \in BOOLEAN
    /\ area = [a \in Area |->
         [idx |-> Start[a], settling |-> "no", transition |-> FALSE,
          pan |-> "none", at |-> "base"]]
    /\ active = [p \in Pointer |-> NoSurface]
    /\ channel = [open |-> FALSE, ending |-> FALSE]
    /\ queue = <<>>
    /\ device = Released

Touch(p) ==
    \/ \E a \in Area, panel \in {"trackpad", "tablet"} : PointerDown(p, a, panel)
    \/ PointerMove(p)
    \/ PointerUp(p)

Swipe(a) ==
    \/ \E edge \in {"left", "right"} : StartPan(a, edge)
    \/ \E pos \in Position : MovePan(a, pos)
    \/ \E commit \in BOOLEAN : EndPan(a, commit)

PanelsNext ==
    \/ /\ \/ \E p \in Pointer : Touch(p)
          \/ \E a \in Area : Swipe(a) \/ FinishSnap(a)
          \/ Deliver \/ Lose \/ EndSession \/ Open
       /\ UNCHANGED landscape
    \/ Rotate

PanelsSpec == PanelsInit /\ [][PanelsNext]_panelsVars

-----------------------------------------------------------------------------
(* Properties                                                              *)

PanelsTypeOK ==
    /\ landscape \in BOOLEAN
    /\ area \in [Area -> AreaState]
    /\ active \in [Pointer -> Surface \cup {NoSurface}]
    /\ channel \in [open : BOOLEAN, ending : BOOLEAN]
    /\ queue \in Seq(Message)
    /\ device \in [contacts : SUBSET Pointer, inRange : BOOLEAN, tip : BOOLEAN]

\* Nothing is under way to the devices, neither a message nor a reset.
Quiet == queue = <<>> /\ ~channel.ending

\* A contact of a device belongs to a finger that is on its panel: a panel
\* swiped away under a finger, a finger lifted while the area settles or
\* while the channel is gone, a session that ends after its successor has
\* begun, none of them leaves a contact behind.
NoGhostContact ==
    /\ PanelsTypeOK
    /\ Quiet =>
        /\ \A p \in device.contacts : active[p] # NoSurface /\ active[p].panel = "trackpad"
        /\ device.tip => \E p \in Pointer : active[p] # NoSurface /\ active[p].panel = "tablet"

\* Once no area shows the tablet, and none is being swiped, the pen has left
\* proximity and the mouse works again (app.js:140-145), whatever a second
\* finger drew on the panel that a swipe brought half into view.
PenReleased ==
    Quiet /\ (\A a \in Area : /\ area[a].settling = "no" /\ area[a].pan = "none"
                              /\ Panel(area[a].idx) # "tablet")
    => ~device.inRange

\* finishSnap ran: the area takes pointers and swipes again, and none of its
\* pointers is left over.
Arrived(a) ==
    /\ area'[a].settling = "no" /\ area'[a].pan = "none"
    /\ \A p \in Pointer : active'[p] # NoSurface => active'[p].area # a

\* The area takes neither pointers nor swipes, and waits for an event that does
\* not come: it stays so until the page is loaded again.
Deaf(a) == area[a].settling # "no" /\ ~area[a].transition

\* The two ways the code has to make an area deaf: landscape hides it while its
\* panels are on their way, or its swipe ends where the panels already are, or
\* where nobody sees them.
TurnedAway(a) == a \in Hidden' \ Hidden /\ area[a].transition
EndsInPlace(a) ==
    /\ area[a].pan # "none"
    /\ a \in Hidden \/ area[a].at = Target(area'[a].settling # "back")

\* Panels that are on their way arrive, and nothing a user does on any area in
\* between takes the transition away that finishSnap waits for, except in the
\* two named ways, which are defects of the code.
PointersComeBack ==
    [][\A a \in Area :
        /\ area[a].transition /\ area'[a] # area[a] => Arrived(a) \/ TurnedAway(a)
        /\ ~Deaf(a) /\ Deaf(a)' => EndsInPlace(a) \/ TurnedAway(a)]_panelsVars
=============================================================================
