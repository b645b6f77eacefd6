---------------------------- MODULE MCHintLadder ----------------------------
(***************************************************************************)
(* One conversation about one problem, over every mode, a cap that binds    *)
(* and one that does not, and turns that lose the rows they write.          *)
(***************************************************************************)
EXTENDS HintLadder

CONSTANT p1

MCProblems == {p1}
MCModes == Modes
MCCaps == {Concept, Full}
MCFailures == {{}, {"hint", "tutoring"}}

\* The record of the last turn is written by every action and read by none, so
\* states that differ in it alone have the same future.
ConversationState == <<ladder, progress, active, pending, history>>
=============================================================================
