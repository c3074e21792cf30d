------------------------------ MODULE MCPanels ------------------------------
(***************************************************************************)
(* TLC instance of Panels: the two areas of the page where initArea puts   *)
(* them (tablet on top, log below), two fingers beside those that swipe.   *)
(***************************************************************************)
EXTENDS Panels

CONSTANTS top, bottom

Below == {bottom}
InitialIndex == [a \in Area |-> IF a = bottom THEN 2 ELSE 1]
Fingers == Permutations(Pointer)
=============================================================================
