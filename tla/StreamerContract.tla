-------------------------- MODULE StreamerContract --------------------------
(***************************************************************************)
(* What video.Streamer promises its user (video/video.go): a pipeline is   *)
(* built ready, captures at most once, and is released once, after which   *)
(* it never captures again.                                                *)
(***************************************************************************)
CONSTANT Pipeline
VARIABLE phase

Phases == {"absent", "ready", "capturing", "released"}

Move(p, from, to) == phase[p] \in from /\ phase' = [phase EXCEPT ![p] = to]

Build(p)   == Move(p, {"absent"}, "ready")
Capture(p) == Move(p, {"ready"}, "capturing")
Release(p) == Move(p, {"ready", "capturing"}, "released")

Init == phase = [p \in Pipeline |-> "absent"]
Next == \E p \in Pipeline : Build(p) \/ Capture(p) \/ Release(p)
Spec == Init /\ [][Next]_phase
=============================================================================
