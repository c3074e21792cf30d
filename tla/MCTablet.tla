------------------------------ MODULE MCTablet ------------------------------
(***************************************************************************)
(* TLC instance of the pen, as the sessions share it and with the history  *)
(* of its ticks.  Three clients, so that one may run, one be on its way    *)
(* out and one come; two timers, so that a timer nobody refers to could    *)
(* exist; two callbacks waiting for the mutex at once; all buttons, and    *)
(* pressures around every threshold; a trackpad that is missing, so that a *)
(* reset may or may not reach the pen.                                     *)
(***************************************************************************)
EXTENDS Sharing, HoverTicks, TLC

AllButtons == {"left", "right", "middle"}
\* Around every threshold: negative, zero, the tip floor, over the maximum.
EdgePressures == {-1, 0, TipFloor, TipFloor + 1, PressureMax + 1}
ClientSymmetry == Permutations(Client)

SharedTicksInit == SharingInit /\ unseen = 0
SharedTicksNext == SharingNext /\ Count
SharedTicksSpec == SharedTicksInit /\ [][SharedTicksNext]_<<sharingVars, unseen>>
=============================================================================
