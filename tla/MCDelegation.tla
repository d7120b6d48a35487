---- MODULE MCDelegation ----
(* Instances of Delegation for TLC.  Children are interchangeable, which is *)
(* used for the safety properties only.                                     *)
EXTENDS Delegation, TLC

Symmetry == Permutations(Child)
=============================
