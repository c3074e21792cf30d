------------------------------ MODULE MCCerts ------------------------------
(* Certs for TLC: keys and programs are interchangeable, and every property *)
(* is a safety property.                                                    *)
EXTENDS Certs, TLC

Symmetry ==
    Permutations(Program) \cup Permutations(CAKey) \cup Permutations(LeafKey)
=============================================================================
