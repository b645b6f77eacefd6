------------------------------ MODULE HintPolicy ------------------------------
(***************************************************************************)
(* How much help one turn may give: the pure rules of                       *)
(* app/agents/planner.py, app/agents/hint_engine.py,                        *)
(* app/graph/subgraphs/dsa.py and app/tutoring/turn.py, as operators.       *)
(*                                                                         *)
(* An assistance level is its position in ASSISTANCE_ORDER, a hint level    *)
(* is its HintLevel number, and Unset stands for a Python None.             *)
(***************************************************************************)
EXTENDS Integers

-----------------------------------------------------------------------------
(* Vocabulary *)

Hint == 0
Concept == 1
Pseudocode == 2
Partial == 3
Full == 4
Assistance == Hint .. Full

\* No level, ceiling or floor has been stored.
Unset == -1

HintLevel == 0 .. 6
FullReveal == 6

Modes == {"guidance", "balanced", "challenge"}

\* The reading of the learner the planner adapts to.
Learners == {"weak", "new_topic", "steady", "strong", "prefers_hints"}

\* What the classifier made of a message that goes to the DSA route.
Intents == {"hint", "solve", "unsure"}

\* A row of the hint_progress table.
Row == [level : HintLevel \cup {Unset},
        verified : BOOLEAN,
        ceiling : HintLevel \cup {Unset}]

NoRow == [level |-> Unset, verified |-> FALSE, ceiling |-> Unset]

Lower(a, b) == IF a <= b THEN a ELSE b
Higher(a, b) == IF a >= b THEN a ELSE b

-----------------------------------------------------------------------------
(* The teaching plan *)

\* MAX_HINT_LEVEL_FOR_ASSISTANCE: L2 for a hint up to L6 for the full solution.
MaxHintLevel(assistance) == assistance + 2

BaseCeiling(assistance, row) ==
    IF row.ceiling # Unset THEN row.ceiling ELSE MaxHintLevel(assistance)

\* The level the intent and the learner's profile start a DSA turn at.
InitialAssistance(intent, learner) ==
    LET default == IF intent = "hint" THEN Hint ELSE Concept
    IN  IF intent = "unsure" \/ learner \in {"weak", "prefers_hints"} THEN Hint
        ELSE IF learner = "new_topic" THEN Concept
        ELSE IF learner = "strong" THEN Lower(default + 1, Partial)
        ELSE default

\* Mutant: the plan escalates without an ask once the ladder allows it.
EscalatesUnasked(mode, asked, assistance, row) ==
    mode = "challenge" => /\ row.level # Unset
                          /\ row.level >= BaseCeiling(assistance, row)
                          /\ row.verified

\* Mutant: Challenge mode forgets the demonstrated attempt.
EscalatesUnearned(mode, asked, assistance, row) ==
    /\ asked
    /\ mode = "challenge" => /\ row.level # Unset
                             /\ row.level >= BaseCeiling(assistance, row)

\* An ask for the code is granted at once, except in Challenge mode: there the
\* ladder must be at its ceiling and a sandbox must have run an attempt.
Escalates(mode, asked, assistance, row) ==
    /\ asked
    /\ mode = "challenge" => /\ row.level # Unset
                             /\ row.level >= BaseCeiling(assistance, row)
                             /\ row.verified

BuildPlan(intent, learner, mode, asked, row) ==
    LET assistance == InitialAssistance(intent, learner)
    IN  IF intent # "unsure" /\ Escalates(mode, asked, assistance, row)
        THEN Full
        ELSE assistance

\* The plan of a turn about the learner's code: an ask for the fix is granted,
\* except in Challenge mode.
BuildDebugPlan(default, mode, asked) == IF asked /\ mode # "challenge" THEN Full ELSE default

\* clamp_assistance.
ClampAssistance(assistance, cap) == Lower(assistance, cap)

WithholdCap == Concept

\* plan_teaching: the planner's level, raised to the floor a "don't know"
\* earned, then cut to the client's cap, then to the learner's own hold.
PlanTeaching(built, floor, cap, withheld) ==
    LET floored == Higher(built, floor)
        capped  == ClampAssistance(floored, cap)
        final   == IF withheld THEN Lower(capped, WithholdCap) ELSE capped
    IN  [assistance |-> final, capped |-> final < floored]

-----------------------------------------------------------------------------
(* One rung of the ladder *)

LadderCeiling(plan, row) ==
    LET base == BaseCeiling(plan.assistance, row)
    IN  IF plan.assistance = Full THEN FullReveal
        ELSE IF plan.capped THEN Lower(base, MaxHintLevel(plan.assistance))
        ELSE base

NextLevel(plan, row) ==
    IF plan.assistance = Full THEN FullReveal
    ELSE IF row.level = Unset THEN 0
    ELSE Lower(row.level + 1, LadderCeiling(plan, row))

\* What run_dsa hands back. At the top rung the code is shown when a solution
\* was asked for (only a full plan asks) and found; with nothing to show, the
\* ladder is held where it was and the reply says no solution came back (a
\* rung of level 6 has ceiling 6, so the held level becomes the ceiling).
RunDsa(plan, row, found) ==
    LET level   == NextLevel(plan, row)
        ceiling == LadderCeiling(plan, row)
        held    == Higher(row.level, 0)
    IN  IF level < FullReveal
        THEN [outcome |-> "rung", level |-> level, ceiling |-> ceiling,
              reveals |-> level >= 5]
        ELSE IF plan.assistance = Full /\ found
        THEN [outcome |-> "shown", level |-> level, ceiling |-> ceiling,
              reveals |-> TRUE]
        ELSE [outcome |-> "missing", level |-> held, ceiling |-> held,
              reveals |-> FALSE]

\* The upsert of the turn's rung over the stored row: the first stored ceiling
\* is kept, a capped turn stores none, and the attempt recorded is that of the
\* row the turn had read.
SaveHintProgress(stored, read, plan, hint, ran) ==
    [level |-> hint.level,
     verified |-> read.verified \/ ran,
     ceiling |-> IF stored.ceiling # Unset THEN stored.ceiling
                 ELSE IF plan.capped THEN Unset
                 ELSE hint.ceiling]

\* The row after a sandbox ran the learner's code on another route.
RecordVerifiedAttempt(row) ==
    IF row.verified
    THEN row
    ELSE [level |-> Higher(row.level, 0), verified |-> TRUE,
          ceiling |-> row.ceiling]

-----------------------------------------------------------------------------
(* The reaction to a graded answer *)

\* MODE_SCAFFOLD_CAP
ScaffoldCap(mode) ==
    CASE mode = "guidance" -> Partial
      [] mode = "balanced" -> Pseudocode
      [] OTHER -> Concept

RaiseAssistance(level, mode, cap) ==
    Higher(level, Lower(level + 1, Lower(ScaffoldCap(mode), cap)))

\* assistance_after: giving up raises the level; giving up on the code itself
\* in Guidance mode, uncapped, goes straight to the full solution.
AssistanceAfter(kind, before, givesUp, mode, cap) ==
    IF ~givesUp THEN before
    ELSE IF kind = "code" /\ mode = "guidance" /\ cap = Full THEN Full
    ELSE RaiseAssistance(before, mode, cap)
=============================================================================
