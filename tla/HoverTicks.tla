----------------------------- MODULE HoverTicks -----------------------------
(***************************************************************************)
(* The pen of Tablet with a history of its keep-alive ticks.  evdev drops  *)
(* a frame that changes nothing, so a tick that repeats the frame before   *)
(* it is silence to libinput.                                              *)
(***************************************************************************)
EXTENDS Tablet

VARIABLE unseen     \* ticks in a row after which the compositor saw nothing

tickVars == <<pen, fired, unseen>>

\* A frame the compositor sees: evdev passes on only what changes.
Seen == \E i \in 1..Len(pen'.frames) : pen'.frames[i] # pen.kernel

Count == unseen' = IF Seen THEN 0
                   ELSE IF Callback /\ Hovering(pen) THEN unseen + 1
                   ELSE unseen

HoverTicksInit == Init /\ unseen = 0
HoverTicksNext == Next /\ Count
HoverTicksSpec == HoverTicksInit /\ [][HoverTicksNext]_tickVars

-----------------------------------------------------------------------------
\* emitKeepAlive: although kaToggle goes stale with every hover frame in
\* between, of two ticks in a row at least one changes what the compositor
\* sees, so a hover that is ticking is silent for two periods at most, under
\* the 50 ms after which libinput forces the tool out of proximity.  (When the
\* ticks come is up to the client: each hover move restarts the timer.)
NoTwoTicksUnseen == unseen \in 0..1
=============================================================================
