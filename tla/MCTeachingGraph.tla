--------------------------- MODULE MCTeachingGraph ---------------------------
(***************************************************************************)
(* TeachingGraph for TLC.  The two statements are alike: no operator tells  *)
(* them apart.                                                             *)
(***************************************************************************)
EXTENDS TeachingGraph, TLC

Statements == Permutations(Problems)

\* Bound: a turn is overtaken only where it has loaded something that waits, which
\* is what turns that overlap can both answer.
OverlapsWhereSomethingWaits ==
    older' # None => older'.pending # None \/ older'.quiz # None
=============================================================================
