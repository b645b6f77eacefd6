---------------------------- MODULE MCLearnerProfile ----------------------------
(* Instances of LearnerProfile for TLC. *)
EXTENDS LearnerProfile, TLC

PowersOfTwo == [n \in 0..MaxClock |-> 2^n]

Symmetry == Permutations(FamilyTopics) \cup Permutations(Turns)
=============================================================================
