--------------------------- MODULE MCTutoringSession ---------------------------
(* Instances of TutoringSession for TLC: two practice problems, one with a      *)
(* curated chain of two questions, the second with an easier form.              *)
EXTENDS TutoringSession

CONSTANTS easy, hard, rec, mix, opener, closer, again

MCProblems == {easy, hard}
MCHanded == MCProblems
MCAsked == {"none", "harder", "easier", "medium"}
MCLevelOf == [p \in MCHanded |-> IF p = easy THEN 1 ELSE 3]
MCQuestions == {rec, mix, opener, closer, again}
MCChainStart == [p \in MCProblems |-> IF p = easy THEN opener ELSE Nothing]
MCSuccessor == [q \in MCQuestions |->
              CASE q = opener -> closer [] q \in {closer, rec} -> Code [] OTHER -> Nothing]
MCChoices == {mix}
MCFollowUp == {opener, closer, rec}
MCReframe == [q \in MCQuestions |-> IF q = closer THEN again ELSE q]
=============================================================================
