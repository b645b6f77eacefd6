------------------------------ MODULE LearnerProofs ------------------------------
(***************************************************************************)
(* Proofs about what a learner has earned: the help on each problem         *)
(* (HintLadder), for any set of problems, modes, caps, readings of the      *)
(* learner and lost savepoints; and the levels of skill (LearnerProfile),   *)
(* for any topics, hints, number of events and curve of fading.             *)
(***************************************************************************)
EXTENDS HintLadder, LearnerProfile, TLAPS

-----------------------------------------------------------------------------
(* Lemmas about the policy *)

\* The planner's level is a level, and it is the full solution only after an
\* ask for the code; in Challenge mode only with a recorded attempt as well.
LEMMA BuildPlanLevel ==
    ASSUME NEW intent, NEW learner, NEW mode, NEW asked \in BOOLEAN, NEW row \in Row
    PROVE  LET built == BuildPlan(intent, learner, mode, asked, row)
           IN  /\ built \in Assistance
               /\ built = Full => asked /\ (mode = "challenge" => row.verified)
               /\ asked /\ mode # "challenge" /\ intent # "unsure" => built = Full
<1>1. InitialAssistance(intent, learner) \in Hint .. Partial
      BY DEF InitialAssistance, Lower, Hint, Concept, Partial
<1> QED BY <1>1 DEF BuildPlan, Escalates, Assistance, Hint, Partial, Full, Row

Plan == [assistance : Assistance, capped : BOOLEAN]

Rung == [outcome : Outcomes, level : HintLevel \cup {Unset},
         ceiling : HintLevel \cup {Unset}, reveals : BOOLEAN]

\* A rung is consistent with itself, and the code comes only with a full plan.
RungWellFormed(rung) ==
    /\ rung.level <= rung.ceiling
    /\ rung.reveals => rung.level >= 5
    /\ rung.outcome = "shown" => rung.reveals /\ rung.level = FullReveal

LEMMA RungLevel ==
    ASSUME NEW plan \in Plan, NEW row \in Row, NEW found \in BOOLEAN
    PROVE  LET rung == RunDsa(plan, row, found)
           IN  /\ rung \in [outcome : Outcomes, level : HintLevel,
                            ceiling : HintLevel, reveals : BOOLEAN]
               /\ rung.outcome # "none"
               /\ rung.outcome = "shown" => plan.assistance = Full
               /\ plan.assistance = Full => rung.outcome # "rung"
               /\ RungWellFormed(rung)
<1> USE DEF Plan, Row, Assistance, HintLevel, Hint, Full, FullReveal, Unset, Outcomes
<1>1. /\ LadderCeiling(plan, row) \in HintLevel
      /\ NextLevel(plan, row) \in HintLevel
      /\ NextLevel(plan, row) <= LadderCeiling(plan, row)
      /\ plan.assistance = Full => NextLevel(plan, row) = FullReveal
      BY DEF LadderCeiling, NextLevel, BaseCeiling, MaxHintLevel, Lower
<1>2. Higher(row.level, 0) \in HintLevel
      BY DEF Higher
<1> DEFINE level == NextLevel(plan, row)
           ceiling == LadderCeiling(plan, row)
           held == Higher(row.level, 0)
<1>3. CASE level < FullReveal
  <2> DEFINE code == level >= 5
             rung == RunDsa(plan, row, found)
  <2>1. rung = [outcome |-> "rung", level |-> level, ceiling |-> ceiling,
                reveals |-> code]
        BY <1>3 DEF RunDsa
  <2>2. level \in HintLevel /\ ceiling \in HintLevel /\ level <= ceiling
        BY <1>1
  <2>3. plan.assistance # Full
        BY <1>1, <1>3
  <2>4. code \in BOOLEAN /\ (code => level >= 5)
        OBVIOUS
  <2> HIDE DEF level, ceiling, code, rung
  <2>5. rung.outcome = "rung" /\ rung.level = level /\ rung.ceiling = ceiling
        /\ rung.reveals = code
        BY <2>1
  <2>6. RungWellFormed(rung)
        BY <2>2, <2>4, <2>5 DEF RungWellFormed
  <2>7. rung \in [outcome : Outcomes, level : HintLevel,
                  ceiling : HintLevel, reveals : BOOLEAN]
        BY <2>1, <2>2, <2>4
  <2> QED BY <2>3, <2>5, <2>6, <2>7 DEF rung
<1>4. CASE ~(level < FullReveal) /\ plan.assistance = Full /\ found
  <2>1. RunDsa(plan, row, found) =
          [outcome |-> "shown", level |-> level, ceiling |-> ceiling,
           reveals |-> TRUE]
        BY <1>4 DEF RunDsa
  <2> QED BY <2>1, <1>1, <1>4 DEF RungWellFormed
<1>5. CASE ~(level < FullReveal) /\ ~(plan.assistance = Full /\ found)
  <2>1. RunDsa(plan, row, found) =
          [outcome |-> "missing", level |-> held, ceiling |-> held,
           reveals |-> FALSE]
        BY <1>5 DEF RunDsa
  <2> QED BY <2>1, <1>2 DEF RungWellFormed
<1> QED BY <1>3, <1>4, <1>5

\* The row that is stored is a row.
LEMMA SavedRow ==
    ASSUME NEW row \in Row, NEW read \in Row, NEW plan \in Plan, NEW ran \in BOOLEAN,
           NEW rung \in [outcome : Outcomes, level : HintLevel,
                         ceiling : HintLevel, reveals : BOOLEAN]
    PROVE  /\ SaveHintProgress(row, read, plan, rung, ran) \in Row
           /\ SaveHintProgress(row, read, plan, rung, ran).verified <=> read.verified \/ ran
           /\ RecordVerifiedAttempt(row) \in Row
<1>1. SaveHintProgress(row, read, plan, rung, ran) \in Row
      BY DEF SaveHintProgress, Row
<1>2. RecordVerifiedAttempt(row) \in Row
      BY DEF RecordVerifiedAttempt, Row, Higher, HintLevel, Unset
<1> QED BY <1>1, <1>2 DEF SaveHintProgress

\* A graded answer reaches the full solution only from a check that was asked
\* at that level, or by giving up on the code in Guidance mode.
LEMMA AssistanceAfterLevel ==
    ASSUME NEW kind, NEW start \in Assistance, NEW givesUp \in BOOLEAN,
           NEW mode, NEW cap \in Assistance
    PROVE  LET after == AssistanceAfter(kind, start, givesUp, mode, cap)
           IN  /\ after \in Assistance
               /\ after = Full => \/ start = Full
                                  \/ givesUp /\ kind = "code" /\ mode = "guidance"
BY DEF AssistanceAfter, RaiseAssistance, ScaffoldCap, Lower, Higher, Assistance,
       Hint, Concept, Pseudocode, Partial, Full

-----------------------------------------------------------------------------
(* Lemmas about the parts of a turn *)

\* What is read of a ladder is a row, and claims no attempt the store does not.
LEMMA ReadRow ==
    ASSUME TypeOK, NEW p \in Problems, NEW row \in ResolveHintProgress(p)
    PROVE  row \in Row /\ (row.verified => ladder[p].verified)
<1>1. ladder[p] \in Row /\ NoRow \in Row /\ ~NoRow.verified
      BY DEF TypeOK, NoRow, Row
<1> QED BY <1>1 DEF ResolveHintProgress

\* What a message about problem p may be planned to get.
LEMMA PlansLevel ==
    ASSUME TypeOK, NEW p \in Problems, NEW intents, NEW asked \in BOOLEAN,
           NEW withheld \in BOOLEAN, NEW mode, NEW cap \in TurnCaps,
           NEW plan \in Plans(p, intents, asked, withheld, mode, cap)
    PROVE  /\ plan \in Plan
           /\ plan.assistance = Full =>
                /\ \/ floor[p] = Full
                   \/ asked /\ (mode = "challenge" => ladder[p].verified)
                /\ cap = Full
                /\ ~withheld
           /\ asked /\ mode # "challenge" /\ "unsure" \notin intents
              /\ cap = Full /\ ~withheld => plan.assistance = Full
<1>1. PICK intent \in intents, learner \in TurnLearners, row \in ResolveHintProgress(p) :
        plan = PlanTeaching(BuildPlan(intent, learner, mode, asked, row),
                            floor[p], cap, withheld)
      BY DEF Plans
<1> DEFINE built == BuildPlan(intent, learner, mode, asked, row)
<1>2. /\ row \in Row /\ (row.verified => ladder[p].verified)
      /\ floor[p] \in Assistance \cup {Unset}
      BY ReadRow DEF TypeOK
<1>3. cap \in Assistance
      BY CapsAreLevels
<1>4. /\ built \in Assistance
      /\ built = Full => asked /\ (mode = "challenge" => ladder[p].verified)
      /\ asked /\ mode # "challenge" /\ intent # "unsure" => built = Full
      BY <1>2, BuildPlanLevel
<1>5. plan = PlanTeaching(built, floor[p], cap, withheld)
      BY <1>1
<1> HIDE DEF built
\* plan_teaching never lifts a plan to the full solution by itself, and its
\* two caps keep a plan below it.
<1>6. /\ plan \in Plan
      /\ plan.assistance = Full =>
           (built = Full \/ floor[p] = Full) /\ cap = Full /\ ~withheld
      /\ built = Full /\ cap = Full /\ ~withheld => plan.assistance = Full
  <2>1. PICK low \in Assistance \cup {Unset}, start \in Assistance :
          low = floor[p] /\ start = built
        BY <1>2, <1>4
  <2> DEFINE made == PlanTeaching(start, low, cap, withheld)
  <2>2. /\ made \in Plan
        /\ made.assistance = Full =>
             (start = Full \/ low = Full) /\ cap = Full /\ ~withheld
        /\ start = Full /\ cap = Full /\ ~withheld => made.assistance = Full
        BY <1>3 DEF Plan, PlanTeaching, ClampAssistance, WithholdCap, Lower, Higher, Assistance,
                    Unset, Hint, Concept, Full
  <2> QED BY <1>5, <2>1, <2>2
<1> QED BY <1>4, <1>6

\* What dsa_agent may make of a plan.
LEMMA DsaAgentRung ==
    ASSUME TypeOK, NEW p \in Problems, NEW plan \in Plan,
           NEW row \in ResolveHintProgress(p), NEW rung \in DsaAgent(plan, row)
    PROVE  /\ rung \in Rung
           /\ rung.outcome = "shown" => plan.assistance = Full
           /\ plan.assistance = Full => rung.outcome # "rung"
           /\ rung.outcome # "none" => RungWellFormed(rung)
           /\ rung # NoRung =>
                rung \in [outcome : Outcomes, level : HintLevel,
                          ceiling : HintLevel, reveals : BOOLEAN]
<1>1. row \in Row
      BY ReadRow
<1>2. CASE rung = NoRung
      BY <1>2 DEF NoRung, Rung, Outcomes
<1>3. CASE rung # NoRung
  <2>1. PICK found \in BOOLEAN : rung = RunDsa(plan, row, found)
        BY <1>3 DEF DsaAgent
  <2>2. /\ rung \in [outcome : Outcomes, level : HintLevel,
                     ceiling : HintLevel, reveals : BOOLEAN]
        /\ rung.outcome = "shown" => plan.assistance = Full
        /\ plan.assistance = Full => rung.outcome # "rung"
        /\ RungWellFormed(rung)
        BY <1>1, <2>1, RungLevel
  <2> QED BY <2>2 DEF Rung
<1> QED BY <1>2, <1>3

\* A ladder that is saved stays well typed and credits only an attempt that ran.
LEMMA SavedLadder ==
    ASSUME TypeOK, NEW p \in Problems, NEW plan \in Plan, NEW ran \in BOOLEAN,
           NEW lost, NEW read \in ResolveHintProgress(p), NEW rung \in DsaAgent(plan, read),
           SaveRung(lost, p, read, plan, rung, ran)
    PROVE  /\ ladder' \in [Problems -> Row]
           /\ \A q \in Problems :
                ladder'[q].verified => ladder[q].verified \/ (q = p /\ ran)
<1>1. ladder \in [Problems -> Row]
      BY DEF TypeOK
<1>2. CASE ladder' = ladder
      BY <1>1, <1>2
<1>3. CASE ladder' # ladder
  <2> DEFINE row == SaveHintProgress(ladder[p], read, plan, rung, ran)
  <2>1. rung # NoRung /\ ladder' = [ladder EXCEPT ![p] = row]
        BY <1>3 DEF SaveRung, SaveLadder
  <2>2. read \in Row /\ (read.verified => ladder[p].verified) /\ ladder[p] \in Row
        BY <1>1, ReadRow
  <2>3. rung \in [outcome : Outcomes, level : HintLevel,
                  ceiling : HintLevel, reveals : BOOLEAN]
        BY <2>1, DsaAgentRung
  <2>4. row \in Row /\ (row.verified <=> read.verified \/ ran)
        BY <2>2, <2>3, SavedRow
  <2> HIDE DEF row
  <2> QED BY <1>1, <2>1, <2>2, <2>4
<1> QED BY <1>2, <1>3

\* What is saved of the tutoring state is what was there or what the turn made.
LEMMA SavedTutoring ==
    ASSUME TypeOK, NEW lost, NEW p \in Problems, NEW withheld, NEW asked,
           NEW nextFloor \in [Problems -> Assistance \cup {Unset}],
           NEW nextPending \in Check \cup {NoCheck},
           SaveTutoring(lost, p, withheld, asked, nextFloor, nextPending)
    PROVE  /\ floor' \in [Problems -> Assistance \cup {Unset}]
           /\ withholdKey' \in Problems \cup {NoProblem}
           /\ earlier' \in Problems \cup {NoProblem}
           /\ pending' \in Check \cup {NoCheck}
           /\ floor' \in {floor, nextFloor}
           /\ pending' \in {pending, nextPending}
BY DEF SaveTutoring, NextWithholdKey, TypeOK, progress

\* The record of a turn has its type when its parts do.
LEMMA ServedTurn ==
    ASSUME NEW kind \in {"dsa", "grade", "code"}, NEW p \in Problems,
           NEW mode \in TurnModes, NEW cap \in TurnCaps, NEW asked \in BOOLEAN,
           NEW withheld \in BOOLEAN, NEW rung \in Rung
    PROVE  Served(kind, p, mode, cap, asked, withheld, rung) \in Turn
BY ModesAreModes, CapsAreLevels DEF Served, Turn, Rung

LEMMA WithheldIsBoolean ==
    ASSUME NEW asked \in BOOLEAN, NEW p, NEW relation,
           NEW withheld \in Withhold(asked, p, relation)
    PROVE  withheld \in BOOLEAN /\ (asked => ~withheld)
BY DEF Withhold

-----------------------------------------------------------------------------
(* One lemma per turn *)

\* What every turn must show the learner.
TurnFacts ==
    /\ OpenedByADoor
    /\ EarnedReveal
    /\ AnsweredAsk
    /\ WellFormedResult
    /\ WithinTheLimits

LEMMA DsaTurnStep ==
    ASSUME LadderInv, NEW p \in Problems, NEW switched, DsaTurn(p, switched)
    PROVE  LadderInv' /\ TurnFacts
<1> DEFINE relation == Relation(p, switched)
<1>1. PICK asked \in BOOLEAN, ran \in BOOLEAN, mode \in TurnModes,
           cap \in TurnCaps, lost \in SaveFailures :
        LET intents == IF asked \/ relation = "new" THEN {"hint", "solve"}
                                                    ELSE Intents
        IN  /\ \E withheld \in Withhold(asked, p, relation),
                 read \in ResolveHintProgress(p) :
               \E plan \in Plans(p, intents, asked, withheld, mode, cap) :
               \E rung \in DsaAgent(plan, read) :
               \E question \in NextQuestions(p, relation, plan.assistance,
                                             rung.outcome = "shown") :
                 /\ rung = NoRung => ~ran
                 /\ SaveRung(lost, p, read, plan, rung, ran)
                 /\ SaveTutoring(lost, p, withheld, asked, floor, question)
                 /\ turn' = Served("dsa", p, mode, cap, asked, withheld, rung)
            /\ SaveActive(lost, p)
            /\ RecordTurn(p, asked, ran, mode)
      BY DEF DsaTurn
<1> DEFINE intents == IF asked \/ relation = "new" THEN {"hint", "solve"}
                                                   ELSE Intents
<1>a. PICK withheld \in BOOLEAN, read \in ResolveHintProgress(p), plan \in Plan, rung \in Rung :
        /\ withheld \in Withhold(asked, p, relation)
        /\ plan \in Plans(p, intents, asked, withheld, mode, cap)
        /\ rung \in DsaAgent(plan, read)
        /\ \E question \in NextQuestions(p, relation, plan.assistance,
                                         rung.outcome = "shown") :
             /\ SaveRung(lost, p, read, plan, rung, ran)
             /\ SaveTutoring(lost, p, withheld, asked, floor, question)
             /\ turn' = Served("dsa", p, mode, cap, asked, withheld, rung)
  <2>1. PICK withheld \in Withhold(asked, p, relation), read \in ResolveHintProgress(p) :
        \E plan \in Plans(p, intents, asked, withheld, mode, cap) :
        \E rung \in DsaAgent(plan, read) :
        \E question \in NextQuestions(p, relation, plan.assistance,
                                      rung.outcome = "shown") :
          /\ SaveRung(lost, p, read, plan, rung, ran)
          /\ SaveTutoring(lost, p, withheld, asked, floor, question)
          /\ turn' = Served("dsa", p, mode, cap, asked, withheld, rung)
        BY <1>1
  <2>2. PICK plan \in Plans(p, intents, asked, withheld, mode, cap) :
        \E rung \in DsaAgent(plan, read) :
        \E question \in NextQuestions(p, relation, plan.assistance,
                                      rung.outcome = "shown") :
          /\ SaveRung(lost, p, read, plan, rung, ran)
          /\ SaveTutoring(lost, p, withheld, asked, floor, question)
          /\ turn' = Served("dsa", p, mode, cap, asked, withheld, rung)
        BY <2>1
  <2>3. withheld \in BOOLEAN
        BY WithheldIsBoolean
  <2>4. plan \in Plan
        BY <2>3, PlansLevel DEF LadderInv
  <2>5. \A rung \in DsaAgent(plan, read) : rung \in Rung
        BY <2>4, DsaAgentRung DEF LadderInv
  <2> HIDE DEF intents, relation
  <2> QED BY <2>2, <2>3, <2>4, <2>5
<1>2. PICK question \in NextQuestions(p, relation, plan.assistance,
                                     rung.outcome = "shown") :
        /\ withheld \in Withhold(asked, p, relation)
        /\ plan \in Plans(p, intents, asked, withheld, mode, cap)
        /\ rung \in DsaAgent(plan, read)
        /\ SaveRung(lost, p, read, plan, rung, ran)
        /\ SaveTutoring(lost, p, withheld, asked, floor, question)
        /\ turn' = Served("dsa", p, mode, cap, asked, withheld, rung)
  <2> HIDE DEF intents, relation
  <2> QED BY <1>a
<1>3. asked => ~withheld
      BY <1>2 DEF Withhold
<1>4. /\ plan.assistance = Full =>
           /\ \/ floor[p] = Full
              \/ asked /\ (mode = "challenge" => ladder[p].verified)
           /\ cap = Full
           /\ ~withheld
      /\ asked /\ mode # "challenge" /\ "unsure" \notin intents
         /\ cap = Full /\ ~withheld => plan.assistance = Full
  <2>1. plan \in Plans(p, intents, asked, withheld, mode, cap)
        BY <1>2
  <2> HIDE DEF intents
  <2> QED BY <2>1, PlansLevel DEF LadderInv
<1>5. asked => "unsure" \notin intents
      OBVIOUS
<1>6. /\ rung.outcome = "shown" => plan.assistance = Full
      /\ plan.assistance = Full => rung.outcome # "rung"
      /\ rung.outcome # "none" => RungWellFormed(rung)
      BY <1>2, DsaAgentRung DEF LadderInv
<1>7. /\ question \in Check \cup {NoCheck}
       /\ \/ question \in {pending, NoCheck}
          \/ question.problem = p /\ question.assistance = plan.assistance
  <2>1. plan.assistance \in Assistance
        BY <1>4 DEF Plan
  <2> QED BY <1>2, <2>1 DEF NextQuestions, Check, LadderInv, TypeOK
<1>8. /\ ladder' \in [Problems -> Row]
       /\ \A q \in Problems :
            ladder'[q].verified => ladder[q].verified \/ (q = p /\ ran)
  <2>1. TypeOK /\ rung \in DsaAgent(plan, read) /\ SaveRung(lost, p, read, plan, rung, ran)
        BY <1>2 DEF LadderInv
  <2> HIDE DEF intents, relation
  <2> QED BY <2>1, SavedLadder
<1>9. /\ withholdKey' \in Problems \cup {NoProblem}
       /\ earlier' \in Problems \cup {NoProblem}
       /\ pending' \in Check \cup {NoCheck}
       /\ floor' = floor
       /\ pending' \in {pending, question}
      BY <1>2, <1>7, SavedTutoring DEF LadderInv, TypeOK
<1>10. turn' \in Turn
      BY <1>2, <1>3, <1>6, ServedTurn
<1>b. /\ attempted' = IF ran THEN attempted \cup {p} ELSE attempted
      /\ doors' = IF asked THEN doors \cup {p} ELSE doors
      /\ granted' = IF asked /\ mode # "challenge" THEN granted \cup {p} ELSE granted
      BY <1>1 DEF RecordTurn
<1>11. /\ turn'.kind = "dsa" /\ turn'.problem = p /\ turn'.mode = mode
       /\ turn'.cap = cap /\ turn'.asked = asked /\ turn'.withheld = withheld
       /\ turn'.outcome = rung.outcome /\ turn'.level = rung.level
       /\ turn'.ceiling = rung.ceiling /\ turn'.reveals = rung.reveals
      BY <1>2 DEF Served
<1> HIDE DEF intents, relation
<1>12. TypeOK'
      BY <1>1, <1>b, <1>8, <1>9, <1>10 DEF LadderInv, TypeOK, SaveActive
<1>13. AttemptHonest'
      BY <1>b, <1>8 DEF LadderInv, AttemptHonest
<1>14. plan.assistance = Full => p \in doors' /\ p \in Earned'
      BY <1>b, <1>4 DEF LadderInv, FloorHasADoor, FloorIsEarned, AttemptHonest, Earned
<1>15. doors \subseteq doors' /\ Earned \subseteq Earned'
      BY <1>b DEF Earned
<1>16. FloorHasADoor'
      BY <1>9, <1>15 DEF LadderInv, FloorHasADoor
<1>17. CheckHasADoor'
      BY <1>7, <1>9, <1>14, <1>15 DEF LadderInv, CheckHasADoor
<1>c. FloorIsEarned'
      BY <1>9, <1>15 DEF LadderInv, FloorIsEarned
<1>d. CheckIsEarned'
      BY <1>7, <1>9, <1>14, <1>15 DEF LadderInv, CheckIsEarned
<1>18. OpenedByADoor
      BY <1>6, <1>11, <1>14 DEF OpenedByADoor, DoorSubjects
<1>19. EarnedReveal
  <2>1. plan.assistance = Full /\ mode = "challenge" => p \in Earned
        BY <1>4 DEF LadderInv, AttemptHonest, FloorIsEarned, Earned
  <2> QED BY <2>1, <1>6, <1>11 DEF EarnedReveal, DoorSubjects, Earned
<1>20. AnsweredAsk
      BY <1>3, <1>4, <1>5, <1>6, <1>11 DEF AnsweredAsk
<1>21. WellFormedResult
      BY <1>6, <1>11 DEF WellFormedResult, RungWellFormed
<1>22. WithinTheLimits
  <2>1. cap \in 0 .. 4
        BY CapsAreLevels DEF Assistance, Hint, Full
  <2> QED BY <2>1, <1>4, <1>6, <1>11 DEF WithinTheLimits, Full
<1> QED BY <1>12, <1>13, <1>16, <1>17, <1>c, <1>d, <1>18, <1>19, <1>20, <1>21, <1>22
        DEF LadderInv, TurnFacts

LEMMA CodeTurnStep ==
    ASSUME LadderInv, CodeTurn
    PROVE  LadderInv' /\ TurnFacts
<1> DEFINE p == active
<1>1. PICK asked \in BOOLEAN, ran \in BOOLEAN, mode \in TurnModes,
           cap \in TurnCaps, default \in {Hint, Concept}, lost \in SaveFailures :
        LET built == BuildDebugPlan(default, mode, asked)
        IN  /\ IF ran
               THEN SaveLadder(lost, p, RecordVerifiedAttempt(ladder[p]))
               ELSE UNCHANGED ladder
            /\ \E withheld \in Withhold(asked, p, "same") :
               LET plan == PlanTeaching(built, floor[p], cap, withheld) IN
               \E question \in {NoCheck,
                                [kind |-> "question", problem |-> p,
                                 assistance |-> plan.assistance]} :
                 /\ SaveTutoring(lost, p, withheld, asked, floor, question)
                 /\ turn' = Served("code", p, mode, cap, asked, withheld, NoRung)
            /\ RecordTurn(p, asked, ran, mode)
            /\ UNCHANGED active
      BY DEF CodeTurn
<1> DEFINE built == BuildDebugPlan(default, mode, asked)
<1>2. PICK withheld, level, question :
        /\ withheld \in Withhold(asked, p, "same")
        /\ level = PlanTeaching(built, floor[p], cap, withheld).assistance
        /\ question \in {NoCheck, [kind |-> "question", problem |-> p,
                                   assistance |-> level]}
        /\ SaveTutoring(lost, p, withheld, asked, floor, question)
        /\ turn' = Served("code", p, mode, cap, asked, withheld, NoRung)
      BY <1>1
<1>3. p \in Problems /\ p \in Problems \cup {NoProblem} /\ ladder[p] \in Row
      BY DEF CodeTurn, LadderInv, TypeOK
<1>4. withheld \in BOOLEAN
      BY <1>2, WithheldIsBoolean
<1>5. /\ level \in Assistance
      /\ level = Full => (asked /\ mode # "challenge") \/ floor[p] = Full
  <2>1. PICK low \in Assistance \cup {Unset}, start \in Assistance :
          low = floor[p] /\ start = built /\ (start = Full => asked /\ mode # "challenge")
        BY <1>3 DEF LadderInv, TypeOK, BuildDebugPlan, Assistance, Hint, Concept, Full
  <2>2. cap \in Assistance
        BY CapsAreLevels
  <2>3. LET made == PlanTeaching(start, low, cap, withheld).assistance
        IN  made \in Assistance /\ (made = Full => start = Full \/ low = Full)
        BY <1>4, <2>2 DEF PlanTeaching, ClampAssistance, WithholdCap, Lower, Higher, Assistance,
                          Unset, Hint, Concept, Full
  <2> QED BY <1>2, <2>1, <2>3
<1>6. /\ question \in Check \cup {NoCheck}
      /\ question # NoCheck => question.problem = p /\ question.assistance = level
      BY <1>2, <1>3, <1>5 DEF Check
<1>7. /\ ladder' \in [Problems -> Row]
      /\ \A q \in Problems :
           ladder'[q].verified => ladder[q].verified \/ (q = p /\ ran)
  <2>1. ladder \in [Problems -> Row]
        BY DEF LadderInv, TypeOK
  <2>2. RecordVerifiedAttempt(ladder[p]) \in Row
        BY <1>3 DEF RecordVerifiedAttempt, Row, Higher, HintLevel, Unset
  <2>3. CASE ladder' = ladder
        BY <2>1, <2>3
  <2>4. CASE ladder' = [ladder EXCEPT ![p] = RecordVerifiedAttempt(ladder[p])] /\ ran
        BY <1>3, <2>1, <2>2, <2>4
  <2> QED BY <1>1, <2>3, <2>4 DEF SaveLadder
<1>8. /\ withholdKey' \in Problems \cup {NoProblem}
      /\ earlier' \in Problems \cup {NoProblem}
      /\ pending' \in Check \cup {NoCheck}
      /\ floor' = floor
      /\ pending' \in {pending, question}
      BY <1>2, <1>3, <1>6, SavedTutoring DEF LadderInv, TypeOK
<1>9. turn' \in Turn /\ turn'.kind = "code" /\ turn'.outcome = "none"
  <2>1. NoRung \in Rung
        BY DEF NoRung, Rung, Outcomes
  <2>2. turn' \in Turn
        BY <1>2, <1>3, <1>4, <2>1, ServedTurn
  <2> QED BY <1>2, <2>2 DEF Served, NoRung
<1>a. /\ attempted' = IF ran THEN attempted \cup {p} ELSE attempted
      /\ doors' = IF asked THEN doors \cup {p} ELSE doors
      /\ granted' = IF asked /\ mode # "challenge" THEN granted \cup {p} ELSE granted
      /\ active' = active
      BY <1>1 DEF RecordTurn
<1> HIDE DEF p, built
<1>10. TypeOK'
       BY <1>a, <1>3, <1>7, <1>8, <1>9 DEF LadderInv, TypeOK
<1>11. AttemptHonest'
       BY <1>a, <1>7 DEF LadderInv, AttemptHonest
<1>12. level = Full => p \in doors' /\ p \in Earned'
       BY <1>a, <1>3, <1>5 DEF LadderInv, FloorHasADoor, FloorIsEarned, Earned
<1>13. doors \subseteq doors' /\ Earned \subseteq Earned'
       BY <1>a DEF Earned
<1>14. FloorHasADoor'
       BY <1>8, <1>13 DEF LadderInv, FloorHasADoor
<1>15. CheckHasADoor'
       BY <1>6, <1>8, <1>12, <1>13 DEF LadderInv, CheckHasADoor
<1>b. FloorIsEarned'
       BY <1>8, <1>13 DEF LadderInv, FloorIsEarned
<1>c. CheckIsEarned'
       BY <1>6, <1>8, <1>12, <1>13 DEF LadderInv, CheckIsEarned
<1>16. TurnFacts
       BY <1>9 DEF TurnFacts, OpenedByADoor, EarnedReveal, AnsweredAsk,
                   WellFormedResult, WithinTheLimits
<1> QED BY <1>10, <1>11, <1>14, <1>15, <1>b, <1>c, <1>16 DEF LadderInv

LEMMA GradeTurnStep ==
    ASSUME LadderInv, GradeTurn
    PROVE  LadderInv' /\ TurnFacts
<1> DEFINE p == active
<1>1. PICK reaction \in Reactions(pending.kind), redrawn \in BOOLEAN,
           mode \in TurnModes, cap \in TurnCaps, lost \in SaveFailures :
        LET givesUp == reaction = "gives_up"
            after   == AssistanceAfter(pending.kind, pending.assistance, givesUp,
                                       mode, cap)
            handoff == \/ redrawn
                       \/ givesUp /\ pending.kind \in {"code", "recognition"}
            checks  == IF handoff THEN {NoCheck} ELSE NextChecks(reaction, after)
            raised  == IF reaction \in {"gives_up", "taught"}
                       THEN [floor EXCEPT ![pending.problem] = after]
                       ELSE floor
        IN  /\ \E withheld \in Withhold(FALSE, p, "followup"),
                 read \in ResolveHintProgress(p) :
               \E plan \in {[planned EXCEPT !.assistance = after] : planned \in
                             Plans(p, Intents, FALSE, withheld, mode, cap)} :
               \E rung \in IF handoff THEN DsaAgent(plan, read) ELSE {NoRung},
                 check \in checks :
                 /\ SaveRung(lost, p, read, plan, rung, FALSE)
                 /\ SaveTutoring(lost, p, withheld, FALSE, raised, check)
                 /\ turn' = Served("grade", p, mode, cap, FALSE, withheld, rung)
            /\ doors' = IF givesUp THEN doors \cup {p, pending.problem} ELSE doors
            /\ granted' = IF givesUp /\ pending.kind = "code" /\ mode = "guidance"
                          THEN granted \cup {pending.problem}
                          ELSE granted
            /\ UNCHANGED <<active, attempted>>
      BY DEF GradeTurn
<1> DEFINE givesUp == reaction = "gives_up"
           after   == AssistanceAfter(pending.kind, pending.assistance, givesUp,
                                      mode, cap)
           handoff == \/ redrawn
                      \/ givesUp /\ pending.kind \in {"code", "recognition"}
           checks  == IF handoff THEN {NoCheck} ELSE NextChecks(reaction, after)
           raised  == IF reaction \in {"gives_up", "taught"}
                      THEN [floor EXCEPT ![pending.problem] = after]
                      ELSE floor
<1>2. /\ pending \in Check /\ pending # NoCheck
      /\ p \in Problems
      /\ ladder \in [Problems -> Row]
      /\ floor \in [Problems -> Assistance \cup {Unset}]
      BY DEF GradeTurn, LadderInv, TypeOK
<1>3. after \in Assistance /\ (after = Full => \/ pending.assistance = Full
                                           \/ /\ givesUp /\ pending.kind = "code"
                                              /\ mode = "guidance")
  <2>1. pending.assistance \in Assistance /\ givesUp \in BOOLEAN
        BY <1>2 DEF Check
  <2>2. cap \in Assistance
        BY CapsAreLevels
  <2> DEFINE gave == givesUp
  <2>3. gave \in BOOLEAN
        BY <2>1
  <2> HIDE DEF gave
  <2>4. LET level == AssistanceAfter(pending.kind, pending.assistance, gave, mode, cap)
        IN  /\ level \in Assistance
            /\ level = Full => \/ pending.assistance = Full
                               \/ gave /\ pending.kind = "code" /\ mode = "guidance"
        BY <2>1, <2>2, <2>3, AssistanceAfterLevel
  <2> QED BY <2>4 DEF gave
<1>a. PICK withheld \in BOOLEAN, read \in ResolveHintProgress(p), plan \in Plan :
        /\ plan.assistance = after
        /\ \E rung \in DsaAgent(plan, read), check \in checks :
             /\ SaveRung(lost, p, read, plan, rung, FALSE)
             /\ SaveTutoring(lost, p, withheld, FALSE, raised, check)
             /\ turn' = Served("grade", p, mode, cap, FALSE, withheld, rung)
  <2>1. PICK withheld \in Withhold(FALSE, p, "followup"), read \in ResolveHintProgress(p) :
        \E plan \in {[planned EXCEPT !.assistance = after] : planned \in
                      Plans(p, Intents, FALSE, withheld, mode, cap)} :
        \E rung \in IF handoff THEN DsaAgent(plan, read) ELSE {NoRung},
          check \in checks :
          /\ SaveRung(lost, p, read, plan, rung, FALSE)
          /\ SaveTutoring(lost, p, withheld, FALSE, raised, check)
          /\ turn' = Served("grade", p, mode, cap, FALSE, withheld, rung)
        BY <1>1
  <2>2. withheld \in BOOLEAN
        BY WithheldIsBoolean
  <2> HIDE DEF after, handoff, checks, raised, givesUp
  <2>3. PICK planned \in Plans(p, Intents, FALSE, withheld, mode, cap) :
        \E rung \in IF handoff
                    THEN DsaAgent([planned EXCEPT !.assistance = after], read)
                    ELSE {NoRung},
          check \in checks :
          /\ SaveRung(lost, p, read, [planned EXCEPT !.assistance = after], rung, FALSE)
          /\ SaveTutoring(lost, p, withheld, FALSE, raised, check)
          /\ turn' = Served("grade", p, mode, cap, FALSE, withheld, rung)
        BY <2>1
  <2>4. planned \in Plan
        BY <1>2, <2>2, PlansLevel DEF LadderInv
  <2> DEFINE plan == [planned EXCEPT !.assistance = after]
  <2>5. plan \in Plan /\ plan.assistance = after
        BY <1>3, <2>4 DEF Plan
  <2> HIDE DEF plan
  <2>6. NoRung \in DsaAgent(plan, read)
        BY DEF DsaAgent
  <2>7. \E rung \in DsaAgent(plan, read), check \in checks :
          /\ SaveRung(lost, p, read, plan, rung, FALSE)
          /\ SaveTutoring(lost, p, withheld, FALSE, raised, check)
          /\ turn' = Served("grade", p, mode, cap, FALSE, withheld, rung)
        BY <2>3, <2>6 DEF plan
  <2> QED BY <2>2, <2>5, <2>7
<1>4. PICK rung \in DsaAgent(plan, read), check \in checks :
        /\ plan.assistance = after
        /\ SaveRung(lost, p, read, plan, rung, FALSE)
        /\ SaveTutoring(lost, p, withheld, FALSE, raised, check)
        /\ turn' = Served("grade", p, mode, cap, FALSE, withheld, rung)
  <2> HIDE DEF after, handoff, checks, raised, givesUp
  <2> QED BY <1>a
<1>5. /\ rung \in Rung
      /\ rung.outcome = "shown" => after = Full
      /\ rung.outcome # "none" => RungWellFormed(rung)
      BY <1>2, <1>4, DsaAgentRung DEF LadderInv
<1>6. /\ check \in Check \cup {NoCheck}
      /\ check # NoCheck => check.problem = pending.problem /\ check.assistance = after
  <2> HIDE DEF after
  <2> QED BY <1>2, <1>3, <1>4 DEF NextChecks, Check
<1>7. raised \in [Problems -> Assistance \cup {Unset}]
      /\ \A q \in Problems : raised[q] = floor[q]
                             \/ (q = pending.problem /\ raised[q] = after)
  <2> HIDE DEF after
  <2> QED BY <1>2, <1>3 DEF Check
<1>8. /\ ladder' \in [Problems -> Row]
      /\ \A q \in Problems : ladder'[q].verified => ladder[q].verified
      BY <1>2, <1>4, SavedLadder DEF LadderInv
<1> HIDE DEF after, handoff, checks, raised
<1>9. /\ withholdKey' \in Problems \cup {NoProblem}
      /\ earlier' \in Problems \cup {NoProblem}
      /\ pending' \in Check \cup {NoCheck}
      /\ floor' \in [Problems -> Assistance \cup {Unset}]
      /\ floor' \in {floor, raised}
      /\ pending' \in {pending, check}
      BY <1>2, <1>4, <1>6, <1>7, SavedTutoring DEF LadderInv
<1>10. /\ turn' \in Turn /\ turn'.kind = "grade" /\ turn'.mode = mode /\ turn'.outcome = rung.outcome
       /\ turn'.level = rung.level /\ turn'.ceiling = rung.ceiling
       /\ turn'.reveals = rung.reveals
  <2>1. turn' \in Turn
        BY <1>2, <1>4, <1>5, ServedTurn
  <2> QED BY <1>4, <2>1 DEF Served
<1>11. /\ pending.problem \in Problems
       /\ UNCHANGED <<active, attempted>>
       /\ doors' = IF givesUp THEN doors \cup {p, pending.problem} ELSE doors
       /\ granted' = IF givesUp /\ pending.kind = "code" /\ mode = "guidance"
                     THEN granted \cup {pending.problem}
                     ELSE granted
       BY <1>1, <1>2 DEF Check
<1> HIDE DEF p, givesUp
<1>12. TypeOK'
       BY <1>2, <1>8, <1>9, <1>10, <1>11 DEF LadderInv, TypeOK
<1>13. AttemptHonest'
       BY <1>8, <1>11 DEF LadderInv, AttemptHonest
<1>14. doors \subseteq doors' /\ Earned \subseteq Earned'
       BY <1>11 DEF Earned
<1>15. after = Full => pending.problem \in doors' /\ pending.problem \in Earned'
       BY <1>2, <1>3, <1>11 DEF LadderInv, CheckHasADoor, CheckIsEarned, Earned
<1>16. FloorHasADoor' /\ FloorIsEarned'
       BY <1>7, <1>9, <1>14, <1>15 DEF LadderInv, FloorHasADoor, FloorIsEarned
<1>17. CheckHasADoor' /\ CheckIsEarned'
       BY <1>6, <1>9, <1>14, <1>15 DEF LadderInv, CheckHasADoor, CheckIsEarned
<1>18. OpenedByADoor
       BY <1>5, <1>10, <1>15 DEF OpenedByADoor, DoorSubjects
<1>19. WellFormedResult
       BY <1>5, <1>10 DEF WellFormedResult, RungWellFormed
\* Giving up on the code earns it in Guidance mode only: in Challenge the level
\* is one the check was asked at.
<1>20. EarnedReveal
  <2>1. after = Full /\ mode = "challenge" => pending.problem \in Earned
        BY <1>2, <1>3 DEF LadderInv, CheckIsEarned
  <2> QED BY <2>1, <1>5, <1>10 DEF EarnedReveal, DoorSubjects, Earned
<1>21. AnsweredAsk /\ WithinTheLimits
       BY <1>10 DEF AnsweredAsk, WithinTheLimits
<1> QED BY <1>12, <1>13, <1>16, <1>17, <1>18, <1>19, <1>20, <1>21
        DEF LadderInv, TurnFacts

-----------------------------------------------------------------------------
(* The theorems *)

LEMMA StepKeepsInv ==
    ASSUME LadderInv, [Next]_vars
    PROVE  LadderInv' /\ [TurnFacts]_vars
<1>1. ASSUME NEW p \in Problems, NEW switched \in BOOLEAN, DsaTurn(p, switched)
      PROVE  LadderInv' /\ TurnFacts
      BY <1>1, DsaTurnStep
<1>2. CASE CodeTurn
      BY <1>2, CodeTurnStep
<1>3. CASE GradeTurn
      BY <1>3, GradeTurnStep
<1>4. CASE UNCHANGED vars
      BY <1>4 DEF vars, LadderInv, TypeOK, AttemptHonest, FloorHasADoor,
                  CheckHasADoor, FloorIsEarned, CheckIsEarned, Earned
<1> QED BY <1>1, <1>2, <1>3, <1>4 DEF Next

\* The stored help and the ladder keep their invariant through every turn.
THEOREM LadderInvariant == Spec => []LadderInv
<1>1. Init => LadderInv
  <2> SUFFICES ASSUME Init PROVE LadderInv
      OBVIOUS
  <2>1. NoRow \in Row
        BY DEF NoRow, Row
  <2>2. turn \in Turn
        BY DEF Init, Served, NoRung, Turn, Outcomes, Modes, Assistance, Hint, Full
  <2>3. TypeOK
        BY <2>1, <2>2 DEF Init, TypeOK
  <2> QED BY <2>3 DEF Init, LadderInv, AttemptHonest, FloorHasADoor,
                      CheckHasADoor, FloorIsEarned, CheckIsEarned, NoRow, Unset, Full
<1>2. LadderInv /\ [Next]_vars => LadderInv'
      BY StepKeepsInv
<1> QED BY <1>1, <1>2, PTL DEF Spec

\* Every store of a turn holds a value of its type.
THEOREM TypesAreKept == Spec => []TypeOK
<1>1. LadderInv => TypeOK
      BY DEF LadderInv
<1> QED BY <1>1, LadderInvariant, PTL

\* An attempt is credited only where a sandbox ran the learner's code.
THEOREM AttemptsAreHonest == Spec => []AttemptHonest
<1>1. LadderInv => AttemptHonest
      BY DEF LadderInv
<1> QED BY <1>1, LadderInvariant, PTL

\* Every turn shows the learner what the rules allow.
THEOREM TurnsAreFair == Spec => [][TurnFacts]_vars
<1>1. LadderInv /\ [Next]_vars => [TurnFacts]_vars
      BY StepKeepsInv
<1> QED BY <1>1, LadderInvariant, PTL DEF Spec

\* The solution of a problem is shown only behind an ask or a "don't know".
THEOREM NoCodeWithoutADoor == Spec => RevealHasADoor
<1>1. [TurnFacts]_vars => [OpenedByADoor]_vars
      BY DEF TurnFacts
<1> QED BY <1>1, TurnsAreFair, PTL DEF RevealHasADoor

\* Challenge mode gives the code away only for an attempt that ran in an earlier
\* turn, or where an earlier turn in another mode had granted it.
THEOREM ChallengeIsEarned == Spec => ChallengeEarned
<1>1. [TurnFacts]_vars => [EarnedReveal]_vars
      BY DEF TurnFacts
<1> QED BY <1>1, TurnsAreFair, PTL DEF ChallengeEarned

\* Outside Challenge mode an uncapped ask for the code is never refused.
THEOREM AsksAreAnswered == Spec => AskAnswered
<1>1. [TurnFacts]_vars => [AnsweredAsk]_vars
      BY DEF TurnFacts
<1> QED BY <1>1, TurnsAreFair, PTL DEF AskAnswered

\* The rung a learner sees is consistent with itself.
THEOREM ResultsAreWellFormed == Spec => ResultWellFormed
<1>1. [TurnFacts]_vars => [WellFormedResult]_vars
      BY DEF TurnFacts
<1> QED BY <1>1, TurnsAreFair, PTL DEF ResultWellFormed

\* The planner's caps keep code out of a DSA turn.
THEOREM LimitsAreKept == Spec => PlannerHonoursLearner
<1>1. [TurnFacts]_vars => [WithinTheLimits]_vars
      BY DEF TurnFacts
<1> QED BY <1>1, TurnsAreFair, PTL DEF PlannerHonoursLearner

-----------------------------------------------------------------------------
(* Lemmas about scores *)

\* What \div is.
LEMMA Quotient ==
    ASSUME NEW a \in Nat, NEW b \in Nat \ {0}
    PROVE  /\ a \div b \in Nat
           /\ (a \div b) * b <= a
           /\ a < (a \div b) * b + b
BY SMT

LEMMA ScaleIsBounded ==
    /\ Most \in Nat
    /\ \A x \in Scale : x \in Int /\ 0 <= x /\ x <= Most
    /\ \A x \in Int : 0 <= x /\ x <= Most => x \in Scale
<1>1. Most \in Nat
      BY SMT DEF Most
<1> QED BY <1>1 DEF Scale

\* Where one event that counts against a learner can leave a level, at the lowest.
OneLow == 425000

\* A smoothed level is a level, within half a millionth of the weighted mean.
LEMMA SmoothIsTheMean ==
    ASSUME NEW old \in Scale, NEW score \in Scale, NEW tenths \in {1, 3}
    PROVE  /\ Smooth(old, score, tenths) \in Scale
           /\ 10 * Smooth(old, score, tenths) <= (10 - tenths) * old + tenths * score + 5
           /\ (10 - tenths) * old + tenths * score < 10 * Smooth(old, score, tenths) + 5
<1> DEFINE mean == (10 - tenths) * old + tenths * score + 5
           new == Smooth(old, score, tenths)
<1>1. /\ old \in Int /\ 0 <= old /\ old <= Most
      /\ score \in Int /\ 0 <= score /\ score <= Most
      /\ Most \in Nat
      BY ScaleIsBounded
<1>2. mean \in Nat /\ mean <= 10 * Most + 5
      BY <1>1
<1>3. mean \div 10 \in Nat /\ (mean \div 10) * 10 <= mean /\ mean < (mean \div 10) * 10 + 10
  <2> HIDE DEF mean
  <2> QED BY <1>2, Quotient
<1>4. new \in Nat /\ new * 10 <= mean /\ mean < new * 10 + 10
      BY <1>3 DEF Smooth
<1> HIDE DEF new
<1>5. new <= Most
      BY <1>1, <1>2, <1>4
<1>6. new \in Scale
      BY <1>4, <1>5, ScaleIsBounded
<1> QED BY <1>1, <1>4, <1>6 DEF new

\* Help never lifts a level, and a first request leaves it above weak.
LEMMA HelpLowers ==
    ASSUME NEW old \in Scale
    PROVE  /\ HelpUpdate(old) \in Scale
           /\ HelpUpdate(old) <= old
           /\ old >= Prior => HelpUpdate(old) >= OneLow
<1> DEFINE new == Smooth(old, FullSolutionScore, 1)
<1>1. FullSolutionScore \in Int /\ 0 <= FullSolutionScore /\ FullSolutionScore <= Most
      BY SMT DEF FullSolutionScore, Most
<1>2. FullSolutionScore \in Scale
      BY <1>1, ScaleIsBounded
<1>3. new \in Scale /\ 9 * old + FullSolutionScore < 10 * new + 5
  <2>1. (10 - 1) * old + 1 * FullSolutionScore = 9 * old + FullSolutionScore
        BY <1>1, ScaleIsBounded
  <2> QED BY <1>2, <2>1, SmoothIsTheMean
<1>4. new \in Int /\ old \in Int
      BY <1>3, ScaleIsBounded
<1>5. HelpUpdate(old) = IF old < new THEN old ELSE new
      BY DEF HelpUpdate, Smaller
<1>6. HelpUpdate(old) \in Scale /\ HelpUpdate(old) <= old
  <2> HIDE DEF new
  <2> QED BY <1>3, <1>4, <1>5
<1>7. ASSUME old >= Prior PROVE HelpUpdate(old) >= OneLow
  <2> HIDE DEF new
  <2>1. old >= OneLow /\ new >= OneLow
        BY <1>3, <1>4, <1>7, SMT DEF Prior, OneLow, FullSolutionScore
  <2> QED BY <2>1, <1>5
<1> QED BY <1>6, <1>7

GradeNames == {"correct", "partial", "incorrect", "dont_know"}

\* An answer never lifts a level into the hard band; a right or half-right one
\* never takes a level that is not above the prior further down, and one wrong
\* answer leaves the prior above weak.
LEMMA AnswersAreCapped ==
    ASSUME NEW old \in Scale, NEW grade \in GradeNames
    PROVE  /\ ConceptUpdate(old, grade) \in Scale
           /\ ConceptUpdate(old, grade) >= HardSkill => old >= HardSkill
           /\ old >= Prior => ConceptUpdate(old, grade) >= OneLow
           /\ grade \in {"correct", "partial"} =>
                /\ old >= Prior => ConceptUpdate(old, grade) >= Prior
                /\ old >= OneLow => ConceptUpdate(old, grade) >= OneLow
<1> DEFINE score == ConceptScores[grade]
           new == Smooth(old, score, 1)
<1>1. /\ score \in Int /\ 0 <= score /\ score <= Most
      /\ score >= 200000
      /\ grade \in {"correct", "partial"} => score >= 550000
      BY SMT DEF GradeNames, ConceptScores, Most
<1>2. score \in Scale
      BY <1>1, ScaleIsBounded, SMT
<1>3. new \in Scale /\ 9 * old + score < 10 * new + 5
  <2>1. score \in Int /\ old \in Int
        BY <1>2, ScaleIsBounded
  <2>2. (10 - 1) * old + 1 * score = 9 * old + score
        BY <2>1
  <2> QED BY <1>2, <2>2, SmoothIsTheMean
<1>4. new \in Int /\ old \in Int /\ score \in Int
      BY <1>2, <1>3, ScaleIsBounded
<1>5. ConceptCeiling \in Int /\ 0 <= ConceptCeiling /\ ConceptCeiling <= Most
      BY SMT DEF ConceptCeiling, Most
<1>6. ConceptUpdate(old, grade) =
        IF new > old THEN Smaller(new, Larger(old, ConceptCeiling)) ELSE new
      BY DEF ConceptUpdate
<1> HIDE DEF new, score
<1>7. ConceptUpdate(old, grade) \in {new, old, ConceptCeiling}
      BY <1>6, SMT DEF Smaller, Larger
<1>8. ConceptUpdate(old, grade) \in Scale
      BY <1>3, <1>5, <1>7, ScaleIsBounded, SMT
<1>9. ConceptUpdate(old, grade) >= HardSkill => old >= HardSkill
      BY <1>4, <1>6, SMT DEF Smaller, Larger, ConceptCeiling, HardSkill
<1>10. old >= Prior => ConceptUpdate(old, grade) >= OneLow
      BY <1>1, <1>3, <1>4, <1>6, SMT DEF Smaller, Larger, ConceptCeiling, Prior, OneLow
<1>11. ASSUME grade \in {"correct", "partial"}
       PROVE  /\ old >= Prior => ConceptUpdate(old, grade) >= Prior
              /\ old >= OneLow => ConceptUpdate(old, grade) >= OneLow
  <2>1. score >= 550000
        BY <1>1, <1>11
  <2> QED BY <2>1, <1>3, <1>4, <1>6, SMT DEF Smaller, Larger, ConceptCeiling, Prior, OneLow
<1> QED BY <1>8, <1>9, <1>10, <1>11

-----------------------------------------------------------------------------
(* Lemmas about fading *)

\* A distance faded by a weight is between nothing and itself, and the heavier
\* the weight the nearer to nothing.
LEMMA ShrunkIsNearer ==
    ASSUME NEW gap \in Int, NEW w \in Nat \ {0}
    PROVE  /\ Shrunk(gap, w) \in Int
           /\ gap >= 0 => 0 <= Shrunk(gap, w) /\ Shrunk(gap, w) <= gap
           /\ gap <= 0 => gap <= Shrunk(gap, w) /\ Shrunk(gap, w) <= 0
           /\ w = 1 => Shrunk(gap, w) = gap
<1> DEFINE size == IF gap < 0 THEN -gap ELSE gap
           q == (2 * size + w) \div (2 * w)
<1>1. size \in Nat
      OBVIOUS
<1>2. q \in Nat /\ q * (2 * w) <= 2 * size + w /\ 2 * size + w < q * (2 * w) + 2 * w
  <2>1. 2 * size + w \in Nat /\ 2 * w \in Nat \ {0}
        BY <1>1
  <2> HIDE DEF size
  <2> QED BY <2>1, Quotient
<1>3. Shrunk(gap, w) = IF gap < 0 THEN -q ELSE q
  <2>1. gap < 0 => w - 2 * gap = 2 * size + w
        OBVIOUS
  <2> QED BY <2>1 DEF Shrunk
<1> HIDE DEF q, size
<1>4. q <= size
  <2> SUFFICES ASSUME q >= size + 1 PROVE FALSE
      BY <1>1, <1>2
  <2>1. (size + 1) * (2 * w) <= q * (2 * w)
        BY <1>1, <1>2
  <2>2. size * w >= size
        BY <1>1
  <2>3. (size + 1) * (2 * w) = 2 * (size * w) + 2 * w
        BY <1>1
  <2>4. size * w \in Nat
        BY <1>1
  <2> QED BY <2>1, <2>2, <2>3, <2>4, <1>1, <1>2
<1>5. w = 1 => q = size
      BY <1>1, <1>2
<1> QED BY <1>1, <1>2, <1>3, <1>4, <1>5 DEF size

LEMMA ShrunkFallsWithWeight ==
    ASSUME NEW gap \in Nat, NEW w \in Nat \ {0}, NEW v \in Nat \ {0}, w <= v
    PROVE  Shrunk(gap, v) <= Shrunk(gap, w)
<1> DEFINE q == (2 * gap + v) \div (2 * v)
           r == (2 * gap + w) \div (2 * w)
<1>1. q \in Nat /\ q * (2 * v) <= 2 * gap + v
  <2>1. 2 * gap + v \in Nat /\ 2 * v \in Nat \ {0}
        OBVIOUS
  <2> QED BY <2>1, Quotient
<1>2. r \in Nat /\ 2 * gap + w < r * (2 * w) + 2 * w
  <2>1. 2 * gap + w \in Nat /\ 2 * w \in Nat \ {0}
        OBVIOUS
  <2> QED BY <2>1, Quotient
<1>3. Shrunk(gap, v) = q /\ Shrunk(gap, w) = r
      BY DEF Shrunk
<1> HIDE DEF q, r
<1>4. CASE q = 0
      BY <1>2, <1>3, <1>4
<1>5. CASE q > 0
  <2>1. 2 * q - 1 \in Nat
        BY <1>1, <1>5
  <2>2. (2 * q - 1) * v <= 2 * gap
        BY <1>1
  <2>3. (2 * q - 1) * w <= (2 * q - 1) * v
        BY <2>1
  <2>4. q * (2 * w) <= 2 * gap + w
        BY <2>1, <2>2, <2>3, <1>1
  <2>5. q * (2 * w) < (r + 1) * (2 * w)
        BY <2>4, <1>1, <1>2
  <2> QED BY <2>5, <1>1, <1>2, <1>3
<1> QED BY <1>1, <1>4, <1>5

\* A faded level is a level between the prior and where it was, nearer to the
\* prior as time passes; evidence of this moment has not faded.
LEMMA FadingIsTowardsThePrior ==
    ASSUME NEW level \in Scale, NEW at \in Nat, NEW now \in 0..MaxClock, at <= now
    PROVE  /\ Decayed(level, at, now) \in Scale
           /\ level >= Prior => Prior <= Decayed(level, at, now) /\ Decayed(level, at, now) <= level
           /\ level <= Prior => level <= Decayed(level, at, now) /\ Decayed(level, at, now) <= Prior
           /\ at = now => Decayed(level, at, now) = level
<1> DEFINE w == Halvings[now - at]
           moved == Shrunk(level - Prior, w)
<1>1. now - at \in 0..MaxClock
      BY SomeBounds
<1>2. w \in Nat \ {0} /\ (at = now => w = 1)
      BY <1>1, Fading
<1>3. /\ Prior \in Int /\ 0 <= Prior /\ Prior <= Most
      /\ level \in Int /\ 0 <= level /\ level <= Most
  <2>1. Prior \in Int /\ 0 <= Prior /\ Prior <= Most
        BY SMT DEF Prior, Most
  <2> QED BY <2>1, ScaleIsBounded
<1>4. level - Prior \in Int
      BY <1>3
<1>5. /\ moved \in Int
      /\ level - Prior >= 0 => 0 <= moved /\ moved <= level - Prior
      /\ level - Prior <= 0 => level - Prior <= moved /\ moved <= 0
      /\ w = 1 => moved = level - Prior
  <2> HIDE DEF w
  <2> QED BY <1>2, <1>4, ShrunkIsNearer
<1>6. Decayed(level, at, now) = Prior + moved
      BY NoneIsNone, <1>3 DEF Decayed
<1> HIDE DEF moved, w
<1>7. /\ Decayed(level, at, now) \in Int
      /\ level >= Prior => Prior <= Decayed(level, at, now) /\ Decayed(level, at, now) <= level
      /\ level <= Prior => level <= Decayed(level, at, now) /\ Decayed(level, at, now) <= Prior
      /\ at = now => Decayed(level, at, now) = level
      BY <1>2, <1>3, <1>5, <1>6
<1>8. 0 <= Decayed(level, at, now) /\ Decayed(level, at, now) <= Most
  <2>1. level >= Prior \/ level <= Prior
        BY <1>3
  <2>2. CASE level >= Prior
        BY <1>3, <1>7, <2>2, ScaleIsBounded
  <2>3. CASE level <= Prior
        BY <1>3, <1>7, <2>3, ScaleIsBounded
  <2> QED BY <2>1, <2>2, <2>3
<1> QED BY <1>7, <1>8, ScaleIsBounded

\* What is hard after a while was hard, and harder, before.
LEMMA FadingNeverLifts ==
    ASSUME NEW level \in Scale, NEW at \in Nat, NEW now \in 0..MaxClock,
           NEW then \in 0..MaxClock, at <= now, now <= then,
           Decayed(level, at, then) > Prior
    PROVE  Decayed(level, at, then) <= Decayed(level, at, now)
<1> DEFINE w == Halvings[now - at]
           v == Halvings[then - at]
<1>1. now - at \in 0..MaxClock /\ then - at \in 0..MaxClock /\ now - at <= then - at
      BY SomeBounds
<1>2. w \in Nat \ {0} /\ v \in Nat \ {0} /\ w <= v
  <2> HIDE DEF w, v
  <2>1. w = Halvings[now - at] /\ v = Halvings[then - at]
        BY DEF w, v
  <2>2. \A m, n \in 0..MaxClock : m <= n => Halvings[m] <= Halvings[n]
        BY Fading
  <2>3. Halvings[now - at] <= Halvings[then - at]
        BY <1>1, <2>2, Zenon
  <2>4. Halvings[now - at] \in Nat \ {0} /\ Halvings[then - at] \in Nat \ {0}
        BY <1>1, Fading
  <2> QED BY <2>1, <2>3, <2>4
<1>3. Prior \in Int /\ level \in Int
  <2>1. Prior \in Int
        BY SMT DEF Prior
  <2> QED BY <2>1, ScaleIsBounded
<1>4. level > Prior
  <2>1. at <= then
        OBVIOUS
  <2>2. level <= Prior => Decayed(level, at, then) <= Prior
        BY <2>1, FadingIsTowardsThePrior
  <2>3. Decayed(level, at, then) \in Int
        BY <2>1, FadingIsTowardsThePrior, ScaleIsBounded
  <2> QED BY <1>3, <2>2, <2>3
<1>5. level - Prior \in Nat
      BY <1>3, <1>4
<1>6. /\ Decayed(level, at, then) = Prior + Shrunk(level - Prior, v)
      /\ Decayed(level, at, now) = Prior + Shrunk(level - Prior, w)
      BY NoneIsNone, <1>3 DEF Decayed
<1> HIDE DEF w, v
<1>7. Shrunk(level - Prior, v) <= Shrunk(level - Prior, w)
      BY <1>2, <1>5, ShrunkFallsWithWeight
<1>8. Shrunk(level - Prior, v) \in Int /\ Shrunk(level - Prior, w) \in Int
      BY <1>2, <1>5, ShrunkIsNearer
<1> QED BY <1>3, <1>6, <1>7, <1>8

-----------------------------------------------------------------------------
(* Lemmas about events *)

\* An event of an outcome, of a graded answer, of help needed or of a topic met.
IsEvent(e) ==
    /\ e.topic \in Topics
    /\ \/ e.solved \in BOOLEAN /\ e.hints \in Nat /\ e.full \in BOOLEAN
       \/ e.solved = None /\ e.source \in {"quiz", "tutor_reply"} /\ e.grade \in GradeNames
       \/ e.solved = None /\ e.source \in {"help_needed", "none"}

LEMMA EventsAreEvents ==
    /\ \A e \in TurnEvents : IsEvent(e)
    /\ \A e \in QuizEvents : IsEvent(e) /\ e.solved = None
<1>1. \A topic \in Topics, source \in {"quiz", "tutor_reply"} :
        \A e \in Graded(topic, source, Grades) : IsEvent(e) /\ e.solved = None
      BY SomeGrades DEF Graded, Event, IsEvent, GradeNames
<1>2. \A e \in QuizEvents : IsEvent(e) /\ e.solved = None
      BY <1>1 DEF QuizEvents
<1>3. \A topic \in Topics : \A e \in Solutions(topic) : IsEvent(e)
  <2> TAKE topic \in Topics
  <2> TAKE e \in Solutions(topic)
  <2>1. \/ \E h \in HintsUsed : e = Event(topic, TRUE, h, FALSE, "suite", None)
        \/ e = Event(topic, TRUE, 0, TRUE, "suite", None)
        BY Zenon DEF Solutions
  <2>2. \A h \in Nat : \A full \in BOOLEAN : IsEvent(Event(topic, TRUE, h, full, "suite", None))
        BY DEF Event, IsEvent
  <2> QED BY <2>1, <2>2, SomeHints
<1>4. \A topic \in Topics : IsEvent(Failure(topic))
      BY DEF Failure, Event, IsEvent
<1>5. \A topic \in Topics : \A e \in Replies(topic) : e \in Graded(topic, "tutor_reply", Grades)
  <2>1. \A S : \A topic \in Topics : \A e \in Graded(topic, "tutor_reply", Grades \cap S) :
          e \in Graded(topic, "tutor_reply", Grades)
        BY DEF Graded
  <2> QED BY <2>1, Zenon DEF Replies
<1>6. \A topic \in Topics, s \in {"help_needed", "none"} :
        IsEvent(Event(topic, None, 0, FALSE, s, None))
      BY DEF Event, IsEvent
<1>7. \A e \in TurnEvents : IsEvent(e)
  <2> TAKE e \in TurnEvents
  <2>1. PICK topic \in Topics :
           \/ e \in Solutions(topic) \/ e = Failure(topic) \/ e \in Replies(topic)
           \/ \E s \in {"help_needed", "none"} : e = Event(topic, None, 0, FALSE, s, None)
        BY DEF TurnEvents
  <2> QED BY <1>1, <1>3, <1>4, <1>5, <1>6, <2>1
<1> QED BY <1>2, <1>7

\* What an outcome scores: a failed run 0.25, a solution more, and below the
\* prior only where the outcome counts against the learner.
LEMMA OutcomeIsScored ==
    ASSUME NEW e, IsEvent(e), e.solved # None
    PROVE  /\ OutcomeScore(e) \in Scale
           /\ OutcomeScore(e) >= UnsolvedScore
           /\ e.solved = FALSE => OutcomeScore(e) = UnsolvedScore
<1>1. e.solved \in BOOLEAN /\ e.hints \in Nat /\ e.full \in BOOLEAN
      BY DEF IsEvent
<1>2. /\ UnsolvedScore \in Int /\ FullSolutionScore \in Int /\ MinSolvedScore \in Int
      /\ 0 <= UnsolvedScore /\ UnsolvedScore <= FullSolutionScore
      /\ FullSolutionScore <= MinSolvedScore /\ MinSolvedScore <= Most
      /\ HintPenalty \in Nat /\ Most \in Nat
      BY SMT DEF UnsolvedScore, FullSolutionScore, MinSolvedScore, HintPenalty, Most
<1>3. HintPenalty * e.hints \in Nat
      BY <1>1, <1>2
<1>4. OutcomeScore(e) \in Int /\ UnsolvedScore <= OutcomeScore(e) /\ OutcomeScore(e) <= Most
      BY <1>1, <1>2, <1>3 DEF OutcomeScore, Larger
<1>5. OutcomeScore(e) \in Scale
      BY <1>2, <1>4, ScaleIsBounded
<1> QED BY <1>1, <1>2, <1>4, <1>5 DEF OutcomeScore

-----------------------------------------------------------------------------
(* Lemmas about folding an event *)

Estimates == [Keys -> Scale \cup {None}]

\* A level that is not stored is read as the prior.
LEMMA LevelsAreLevels ==
    ASSUME NEW levels \in Estimates, NEW key \in Keys
    PROVE  /\ Level(levels, key) \in Scale
           /\ levels[key] # None => Level(levels, key) = levels[key]
           /\ levels[key] = None => Level(levels, key) = Prior
           /\ levels[key] \in Scale \/ levels[key] = None
           /\ levels[key] \in Scale => levels[key] # None
<1>1. Prior \in Int /\ 0 <= Prior /\ Prior <= Most
      BY SMT DEF Prior, Most
<1>2. Prior \in Scale
      BY <1>1, ScaleIsBounded
<1>3. levels[key] \in Scale \/ levels[key] = None
      BY DEF Estimates
<1>4. levels[key] \in Scale => levels[key] # None
      BY NoneIsNone, ScaleIsBounded
<1> QED BY <1>2, <1>3, <1>4 DEF Level

LEMMA KeysOfAnEvent ==
    ASSUME NEW e, IsEvent(e)
    PROVE  /\ SkillKeys(e) \subseteq Keys
           /\ e.topic \in SkillKeys(e)
           /\ Family \in SkillKeys(e) <=> e.topic \in FamilyTopics
           /\ \A key \in SkillKeys(e) : key = Family \/ key = e.topic
           /\ Family \in Keys
           /\ e.topic # Family
BY KnownFamily DEF SkillKeys, Keys, IsEvent

\* One step of soft evidence: it stays a level, never lifts one into the hard band.
LEMMA SoftStepIsCapped ==
    ASSUME NEW e, IsEvent(e), Soft(e), NEW old \in Scale
    PROVE  /\ SoftStep(e, old) \in Scale
           /\ SoftStep(e, old) >= HardSkill => old >= HardSkill
           /\ old >= Prior => SoftStep(e, old) >= OneLow
           /\ ~Low(e) =>
                /\ old >= Prior => SoftStep(e, old) >= Prior
                /\ old >= OneLow => SoftStep(e, old) >= OneLow
<1>1. /\ e.solved = None
      /\ \/ e.source \in {"quiz", "tutor_reply"} /\ e.grade \in GradeNames
         \/ e.source = "help_needed"
      BY NoneIsNone DEF Soft, IsEvent
<1>2. CASE e.source = "help_needed"
  <2>1. SoftStep(e, old) = HelpUpdate(old) /\ Low(e)
        BY <1>2 DEF SoftStep, Low
  <2>2. HelpUpdate(old) \in Int /\ old \in Int /\ HardSkill \in Int
    <3>1. HardSkill \in Int
          BY SMT DEF HardSkill
    <3> QED BY <3>1, HelpLowers, ScaleIsBounded
  <2>3. HelpUpdate(old) <= old
        BY HelpLowers
  <2>4. HelpUpdate(old) >= HardSkill => old >= HardSkill
        BY <2>2, <2>3
  <2> QED BY <2>1, <2>4, HelpLowers
<1>3. CASE e.source \in {"quiz", "tutor_reply"} /\ e.grade \in GradeNames
  <2>1. SoftStep(e, old) = ConceptUpdate(old, e.grade)
        BY <1>3 DEF SoftStep
  <2>2. ~Low(e) => e.grade \in {"correct", "partial"}
        BY <1>3 DEF Low, GradeNames
  <2> QED BY <2>1, <2>2, <1>3, AnswersAreCapped
<1> QED BY <1>1, <1>2, <1>3

\* The level a key is left at by an event, in terms of the levels before it.
LEMMA ApplyingAnEvent ==
    ASSUME NEW levels \in Estimates, NEW e, IsEvent(e), NEW key \in Keys
    PROVE  /\ ApplyEvent(levels, e) \in Estimates
           /\ key \notin SkillKeys(e) => ApplyEvent(levels, e)[key] = levels[key]
           /\ key \in SkillKeys(e) =>
                /\ ApplyEvent(levels, e)[key] \in Scale
                /\ ApplyEvent(levels, e)[key] =
                     IF Soft(e) THEN SoftLevel(levels, e, key)
                     ELSE IF e.solved = None THEN Level(levels, key)
                     ELSE Smooth(Level(levels, key), OutcomeScore(e), 3)
<1> DEFINE After(k) == IF Soft(e) THEN SoftLevel(levels, e, k)
                       ELSE IF e.solved = None THEN Level(levels, k)
                       ELSE Smooth(Level(levels, k), OutcomeScore(e), 3)
<1>1. ASSUME NEW k \in Keys, k \in SkillKeys(e) PROVE After(k) \in Scale
  <2>1. CASE Soft(e)
    <3>1. SoftStep(e, Level(levels, k)) \in Scale /\ Level(levels, k) \in Scale
          BY <2>1, LevelsAreLevels, SoftStepIsCapped
    <3>2. Start(levels, e) \in Scale
      <4>1. Level(levels, Family) \in Scale
            BY KeysOfAnEvent, LevelsAreLevels
      <4>2. Prior \in Int /\ 0 <= Prior /\ Prior <= Most
            BY SMT DEF Prior, Most
      <4> QED BY <4>1, <4>2, ScaleIsBounded DEF Start
    <3>3. SoftStep(e, Start(levels, e)) \in Scale
          BY <2>1, <3>2, SoftStepIsCapped
    <3>4. SoftLevel(levels, e, k) \in Scale
      <4>1. Prior \in Int /\ 0 <= Prior /\ Prior <= Most
            BY SMT DEF Prior, Most
      <4>2. Prior \in Scale
            BY <4>1, ScaleIsBounded
      <4> QED BY <3>1, <3>3, <4>2 DEF SoftLevel
    <3> QED BY <2>1, <3>4
  <2>2. CASE ~Soft(e) /\ e.solved = None
        BY <2>2, LevelsAreLevels
  <2>3. CASE ~Soft(e) /\ e.solved # None
    <3>1. OutcomeScore(e) \in Scale /\ Level(levels, k) \in Scale
          BY <2>3, OutcomeIsScored, LevelsAreLevels
    <3> QED BY <2>3, <3>1, SmoothIsTheMean
  <2> QED BY <2>1, <2>2, <2>3
<1>2. ApplyEvent(levels, e) =
        [k \in Keys |-> IF k \notin SkillKeys(e) THEN levels[k] ELSE After(k)]
      BY DEF ApplyEvent
<1> HIDE DEF After
<1>3. ApplyEvent(levels, e) \in Estimates
  <2>1. \A k \in Keys : (IF k \notin SkillKeys(e) THEN levels[k] ELSE After(k)) \in Scale \cup {None}
        BY <1>1, LevelsAreLevels
  <2> QED BY <1>2, <2>1 DEF Estimates
<1>4. /\ key \notin SkillKeys(e) => ApplyEvent(levels, e)[key] = levels[key]
      /\ key \in SkillKeys(e) => ApplyEvent(levels, e)[key] = After(key)
      BY <1>2
<1> QED BY <1>1, <1>3, <1>4 DEF After

\* Events do not tell levels apart that read the same.
LEMMA ApplyingReadsLevels ==
    ASSUME NEW a \in Estimates, NEW b \in Estimates, NEW e, IsEvent(e),
           \A k \in Keys : Level(a, k) = Level(b, k)
    PROVE  \A k \in Keys : Level(ApplyEvent(a, e), k) = Level(ApplyEvent(b, e), k)
<1> TAKE k \in Keys
<1>1. CASE k \notin SkillKeys(e)
  <2>1. ApplyEvent(a, e)[k] = a[k] /\ ApplyEvent(b, e)[k] = b[k]
        BY <1>1, ApplyingAnEvent
  <2> QED BY <2>1 DEF Level
<1>2. CASE k \in SkillKeys(e)
  <2>1. Level(a, k) = Level(b, k) /\ Level(a, Family) = Level(b, Family)
        BY KeysOfAnEvent
  <2>2. Start(a, e) = Start(b, e)
        BY <2>1 DEF Start
  <2>3. SoftLevel(a, e, k) = SoftLevel(b, e, k)
        BY <2>1, <2>2 DEF SoftLevel
  <2>4. ApplyEvent(a, e)[k] = ApplyEvent(b, e)[k]
    <3>1. ApplyEvent(a, e)[k] =
            IF Soft(e) THEN SoftLevel(a, e, k)
            ELSE IF e.solved = None THEN Level(a, k)
            ELSE Smooth(Level(a, k), OutcomeScore(e), 3)
          BY <1>2, ApplyingAnEvent
    <3>2. ApplyEvent(b, e)[k] =
            IF Soft(e) THEN SoftLevel(b, e, k)
            ELSE IF e.solved = None THEN Level(b, k)
            ELSE Smooth(Level(b, k), OutcomeScore(e), 3)
          BY <1>2, ApplyingAnEvent
    <3> QED BY <2>1, <2>3, <3>1, <3>2
  <2> QED BY <2>4 DEF Level
<1> QED BY <1>1, <1>2

\* A profile: its levels, and when each last had evidence.
Profiles == [skills : Estimates, seen : [Keys -> 0..clock \cup {None}]]

Reading(profile) == View(profile.skills, profile.seen, clock)

\* A level as it is shown: a level, towards the prior from the stored one.
LEMMA ShownLevels ==
    ASSUME NEW levels \in Estimates, NEW at \in [Keys -> 0..clock \cup {None}],
           clock \in 0..MaxClock, NEW key \in Keys
    PROVE  /\ View(levels, at, clock) \in Estimates
           /\ View(levels, at, clock)[key] = Decayed(levels[key], at[key], clock)
           /\ levels[key] = None => View(levels, at, clock)[key] = None
           /\ levels[key] # None => View(levels, at, clock)[key] \in Scale
           /\ Level(levels, key) >= Prior => Level(View(levels, at, clock), key) >= Prior
           /\ Level(levels, key) >= OneLow => Level(View(levels, at, clock), key) >= OneLow
<1> DEFINE shown == View(levels, at, clock)
<1>1. shown = [k \in Keys |-> Decayed(levels[k], at[k], clock)]
      BY DEF View
<1>2. ASSUME NEW k \in Keys
      PROVE  /\ levels[k] = None => shown[k] = None
             /\ levels[k] # None =>
                  /\ shown[k] \in Scale
                  /\ levels[k] >= Prior => shown[k] >= Prior
                  /\ levels[k] <= Prior => shown[k] >= levels[k]
  <2>1. shown[k] = Decayed(levels[k], at[k], clock)
        BY <1>1
  <2>2. CASE levels[k] = None \/ at[k] = None
    <3>1. shown[k] = levels[k]
          BY <2>1, <2>2 DEF Decayed
    <3>2. levels[k] # None => levels[k] \in Scale
          BY LevelsAreLevels
    <3>3. levels[k] # None => levels[k] \in Int
          BY <3>2, ScaleIsBounded
    <3> QED BY <3>1, <3>2, <3>3
  <2>3. CASE levels[k] # None /\ at[k] # None
    <3>1. levels[k] \in Scale /\ levels[k] \in Int
          BY <2>3, LevelsAreLevels, ScaleIsBounded
    <3>2. at[k] \in 0..clock
          BY <2>3
    <3>3. at[k] \in Nat /\ at[k] <= clock
          BY <3>2
    <3> QED BY <2>1, <2>3, <3>1, <3>3, FadingIsTowardsThePrior
  <2> QED BY <2>2, <2>3
<1>3. shown \in Estimates
  <2>1. \A k \in Keys : Decayed(levels[k], at[k], clock) \in Scale \cup {None}
        BY <1>1, <1>2
  <2> QED BY <1>1, <2>1 DEF Estimates
<1> HIDE DEF shown
<1>4. Prior \in Int /\ OneLow \in Int /\ OneLow <= Prior
      BY SMT DEF Prior, OneLow
<1>5. CASE levels[key] = None
  <2>1. Level(shown, key) = Prior
        BY <1>2, <1>5, <1>3, LevelsAreLevels
  <2> QED BY <1>1, <1>2, <1>3, <1>4, <1>5, <2>1 DEF shown
<1>6. CASE levels[key] # None
  <2>1. Level(levels, key) = levels[key] /\ levels[key] \in Int
        BY <1>6, LevelsAreLevels, ScaleIsBounded
  <2>2. shown[key] \in Scale /\ shown[key] \in Int
        BY <1>2, <1>6, ScaleIsBounded
  <2>3. Level(shown, key) = shown[key]
        BY <2>2, <1>3, LevelsAreLevels
  <2>4. /\ levels[key] >= Prior => shown[key] >= Prior
        /\ levels[key] <= Prior => shown[key] >= levels[key]
        BY <1>2, <1>6
  <2>5. /\ Level(levels, key) >= Prior => Level(shown, key) >= Prior
        /\ Level(levels, key) >= OneLow => Level(shown, key) >= OneLow
        BY <1>4, <2>1, <2>2, <2>3, <2>4
  <2>6. shown[key] = Decayed(levels[key], at[key], clock)
        BY <1>1
  <2> QED BY <1>3, <1>6, <2>2, <2>5, <2>6 DEF shown
<1> QED BY <1>5, <1>6

\* A stored level that has just had evidence, or never had any, is shown as it is.
LEMMA FreshLevels ==
    ASSUME NEW levels \in Estimates, NEW at \in [Keys -> 0..clock \cup {None}],
           clock \in 0..MaxClock, NEW key \in Keys,
           at[key] \in {None, clock} \/ levels[key] \in {None, Prior}
    PROVE  View(levels, at, clock)[key] = levels[key]
<1>1. View(levels, at, clock)[key] = Decayed(levels[key], at[key], clock)
      BY DEF View
<1>2. CASE at[key] = None \/ levels[key] = None
      BY <1>1, <1>2 DEF Decayed
<1>3. CASE at[key] # None /\ levels[key] # None
  <2>1. levels[key] \in Scale /\ levels[key] \in Int
        BY <1>3, LevelsAreLevels, ScaleIsBounded
  <2>2. at[key] \in 0..clock
        BY <1>3
  <2>3. at[key] \in Nat /\ at[key] <= clock
        BY <2>2
  <2>4. Decayed(levels[key], at[key], clock) \in Int
        BY <2>1, <2>3, FadingIsTowardsThePrior, ScaleIsBounded
  <2>5. Prior \in Int
        BY SMT DEF Prior
  <2>6. CASE at[key] = clock
        BY <1>1, <2>1, <2>3, <2>6, FadingIsTowardsThePrior
  <2>7. CASE levels[key] = Prior
    <3>1. /\ levels[key] >= Prior => Decayed(levels[key], at[key], clock) <= levels[key]
          /\ levels[key] <= Prior => levels[key] <= Decayed(levels[key], at[key], clock)
          BY <2>1, <2>3, FadingIsTowardsThePrior
    <3> QED BY <1>1, <2>1, <2>4, <2>5, <2>7, <3>1
  <2> QED BY <1>3, <2>6, <2>7
<1> QED BY <1>2, <1>3

\* Evidence is blended into the levels as they are shown.
LEMMA BaselineIsShown ==
    ASSUME NEW profile \in Profiles, clock \in 0..MaxClock, NEW e, IsEvent(e)
    PROVE  LET baseline == DecayForOutcome(profile.skills, profile.seen, e, clock)
           IN  /\ baseline \in Estimates
               /\ \A key \in Keys :
                     IF key \in SkillKeys(e) /\ (e.solved # None \/ Soft(e))
                     THEN baseline[key] = Reading(profile)[key]
                     ELSE baseline[key] = profile.skills[key]
<1>1. profile.skills \in Estimates /\ profile.seen \in [Keys -> 0..clock \cup {None}]
      BY DEF Profiles
<1>2. Reading(profile) \in Estimates
      /\ \A key \in Keys :
           Reading(profile)[key] = Decayed(profile.skills[key], profile.seen[key], clock)
  <2>1. \A key \in Keys :
           /\ View(profile.skills, profile.seen, clock) \in Estimates
           /\ View(profile.skills, profile.seen, clock)[key] =
                Decayed(profile.skills[key], profile.seen[key], clock)
        BY <1>1, ShownLevels
  <2>2. Family \in Keys
        BY DEF Keys
  <2> QED BY <2>1, <2>2 DEF Reading
<1> DEFINE baseline == DecayForOutcome(profile.skills, profile.seen, e, clock)
<1>3. \A key \in Keys :
        IF key \in SkillKeys(e) /\ (e.solved # None \/ Soft(e))
        THEN baseline[key] = Reading(profile)[key]
        ELSE baseline[key] = profile.skills[key]
      BY <1>2 DEF DecayForOutcome
<1>4. baseline \in Estimates
  <2>1. baseline = [key \in Keys |-> baseline[key]]
        BY DEF DecayForOutcome
  <2>2. \A key \in Keys : baseline[key] \in Scale \cup {None}
    <3> TAKE key \in Keys
    <3>1. Reading(profile)[key] \in Scale \cup {None} /\ profile.skills[key] \in Scale \cup {None}
          BY <1>1, <1>2 DEF Estimates
    <3> QED BY <1>3, <3>1
  <2> HIDE DEF baseline
  <2> QED BY <2>1, <2>2 DEF Estimates
<1> QED BY <1>3, <1>4

\* What folding an event leaves at a key: what it had, or what the event makes
\* of the levels shown, as of now.
LEMMA FoldedKeys ==
    ASSUME NEW profile \in Profiles, clock \in 0..MaxClock, NEW e, IsEvent(e), NEW key \in Keys
    PROVE  LET new == FoldEvent(profile, e)
               shown == Reading(profile)
           IN  \/ /\ new.skills[key] = profile.skills[key]
                  /\ new.seen[key] = profile.seen[key]
                  /\ Level(ApplyEvent(shown, e), key) = Level(shown, key)
               \/ /\ new.skills[key] = Prior
                  /\ new.seen[key] = profile.seen[key]
                  /\ profile.skills[key] = None
                  /\ Level(ApplyEvent(shown, e), key) = Level(shown, key)
               \/ /\ key \in SkillKeys(e)
                  /\ new.skills[key] \in Scale
                  /\ new.skills[key] = ApplyEvent(shown, e)[key]
                  /\ new.seen[key] = clock
<1> DEFINE baseline == DecayForOutcome(profile.skills, profile.seen, e, clock)
           shown == Reading(profile)
           new == FoldEvent(profile, e)
           moved == Moved(baseline, e)
<1>1. /\ baseline \in Estimates
      /\ \A k \in Keys :
           IF k \in SkillKeys(e) /\ (e.solved # None \/ Soft(e))
           THEN baseline[k] = shown[k]
           ELSE baseline[k] = profile.skills[k]
      BY BaselineIsShown
<1>2. /\ new.skills[key] = IF key \notin moved /\ profile.skills[key] # None
                           THEN profile.skills[key] ELSE ApplyEvent(baseline, e)[key]
      /\ new.seen[key] = IF key \in moved THEN clock ELSE profile.seen[key]
      BY DEF FoldEvent
<1>3. moved = IF e.solved # None THEN SkillKeys(e)
              ELSE {k \in SkillKeys(e) : ApplyEvent(baseline, e)[k] # Level(baseline, k)}
      BY DEF Moved
<1>4. shown \in Estimates /\ profile.skills \in Estimates
  <2>1. profile.skills \in Estimates /\ profile.seen \in [Keys -> 0..clock \cup {None}]
        BY DEF Profiles
  <2> QED BY <2>1, ShownLevels DEF Reading
<1>5. profile.skills[key] = None => shown[key] = None
  <2>1. profile.skills \in Estimates /\ profile.seen \in [Keys -> 0..clock \cup {None}]
        BY DEF Profiles
  <2> QED BY <2>1, ShownLevels DEF Reading
<1> HIDE DEF baseline, shown, new, moved
<1>6. CASE key \notin SkillKeys(e)
  <2>1. key \notin moved
        BY <1>3, <1>6
  <2>2. ApplyEvent(baseline, e)[key] = baseline[key] /\ ApplyEvent(shown, e)[key] = shown[key]
        BY <1>1, <1>4, <1>6, ApplyingAnEvent
  <2>3. baseline[key] = profile.skills[key]
        BY <1>1, <1>6
  <2>4. new.skills[key] = profile.skills[key] /\ new.seen[key] = profile.seen[key]
        BY <1>2, <2>1, <2>2, <2>3
  <2>5. Level(ApplyEvent(shown, e), key) = Level(shown, key)
        BY <2>2 DEF Level
  <2> QED BY <2>4, <2>5 DEF new, shown
<1>7. CASE key \in SkillKeys(e) /\ (e.solved # None \/ Soft(e))
  <2>1. \A k \in SkillKeys(e) : k \in Keys /\ baseline[k] = shown[k]
        BY <1>1, <1>7, KeysOfAnEvent
  <2>2. \A k \in SkillKeys(e) : Level(baseline, k) = Level(shown, k)
        BY <2>1 DEF Level
  <2>3. ApplyEvent(baseline, e)[key] = ApplyEvent(shown, e)[key]
        /\ ApplyEvent(baseline, e)[key] \in Scale
    <3>1. Start(baseline, e) = Start(shown, e)
          BY <2>2, KeysOfAnEvent DEF Start
    <3>2. SoftLevel(baseline, e, key) = SoftLevel(shown, e, key)
          BY <1>7, <2>2, <3>1 DEF SoftLevel
    <3>3. /\ ApplyEvent(baseline, e)[key] \in Scale
          /\ ApplyEvent(baseline, e)[key] =
               IF Soft(e) THEN SoftLevel(baseline, e, key)
               ELSE IF e.solved = None THEN Level(baseline, key)
               ELSE Smooth(Level(baseline, key), OutcomeScore(e), 3)
          BY <1>1, <1>7, ApplyingAnEvent
    <3>4. ApplyEvent(shown, e)[key] =
               IF Soft(e) THEN SoftLevel(shown, e, key)
               ELSE IF e.solved = None THEN Level(shown, key)
               ELSE Smooth(Level(shown, key), OutcomeScore(e), 3)
          BY <1>4, <1>7, ApplyingAnEvent
    <3>5. Level(baseline, key) = Level(shown, key)
          BY <1>7, <2>2
    <3> QED BY <3>2, <3>3, <3>4, <3>5
  <2>4. CASE key \in moved
        BY <1>2, <1>7, <2>3, <2>4 DEF new, shown
  <2>5. CASE key \notin moved
    <3>1. ApplyEvent(baseline, e)[key] = Level(baseline, key)
          BY <1>3, <1>7, <2>5
    <3>2. ApplyEvent(shown, e)[key] = Level(shown, key)
          BY <1>7, <2>2, <2>3, <3>1
    <3>3. Level(ApplyEvent(shown, e), key) = Level(shown, key)
      <4>1. ApplyEvent(shown, e) \in Estimates /\ ApplyEvent(shown, e)[key] \in Scale
            BY <1>4, <1>7, ApplyingAnEvent
      <4>2. Level(ApplyEvent(shown, e), key) = ApplyEvent(shown, e)[key]
            BY <4>1, LevelsAreLevels
      <4> QED BY <3>2, <4>2
    <3>4. profile.skills[key] = None => new.skills[key] = Prior
      <4>1. profile.skills[key] = None => Level(shown, key) = Prior
            BY <1>4, <1>5, LevelsAreLevels
      <4> QED BY <1>2, <2>3, <2>5, <3>2, <4>1
    <3>5. /\ profile.skills[key] # None => new.skills[key] = profile.skills[key]
          /\ new.seen[key] = profile.seen[key]
          BY <1>2, <2>5
    <3> QED BY <3>3, <3>4, <3>5 DEF new, shown
  <2> QED BY <2>4, <2>5
<1>8. CASE key \in SkillKeys(e) /\ e.solved = None /\ ~Soft(e)
  <2>1. ApplyEvent(baseline, e)[key] = Level(baseline, key)
        BY <1>1, <1>8, ApplyingAnEvent
  <2>2. key \notin moved
        BY <1>3, <1>8, <2>1
  <2>3. baseline[key] = profile.skills[key]
        BY <1>1, <1>8
  <2>4. profile.skills[key] = None => new.skills[key] = Prior
        BY <1>1, <1>2, <2>1, <2>2, <2>3, LevelsAreLevels
  <2>5. ApplyEvent(shown, e) \in Estimates /\ ApplyEvent(shown, e)[key] \in Scale
        /\ ApplyEvent(shown, e)[key] = Level(shown, key)
        BY <1>4, <1>8, ApplyingAnEvent
  <2>6. Level(ApplyEvent(shown, e), key) = Level(shown, key)
        BY <2>5, LevelsAreLevels
  <2>7. /\ profile.skills[key] # None => new.skills[key] = profile.skills[key]
        /\ new.seen[key] = profile.seen[key]
        BY <1>2, <2>2
  <2> QED BY <2>4, <2>6, <2>7 DEF new, shown
<1> QED BY <1>6, <1>7, <1>8

\* A profile that an event was folded into is shown as the event makes the levels
\* shown before it.
LEMMA FoldingIsApplying ==
    ASSUME NEW profile \in Profiles, clock \in 0..MaxClock, NEW e, IsEvent(e)
    PROVE  /\ FoldEvent(profile, e) \in Profiles
           /\ \A key \in Keys : Level(Reading(FoldEvent(profile, e)), key) =
                                Level(ApplyEvent(Reading(profile), e), key)
<1> DEFINE new == FoldEvent(profile, e)
           shown == Reading(profile)
           again == Reading(new)
<1>1. /\ profile.skills \in Estimates
      /\ profile.seen \in [Keys -> 0..clock \cup {None}]
      BY DEF Profiles
<1>2. shown \in Estimates
  <2>1. Family \in Keys
        BY DEF Keys
  <2> QED BY <1>1, <2>1, ShownLevels DEF Reading
<1>3. Prior \in Scale
  <2>1. Prior \in Int /\ 0 <= Prior /\ Prior <= Most
        BY SMT DEF Prior, Most
  <2> QED BY <2>1, ScaleIsBounded
<1>4. new \in Profiles
  <2>1. \A key \in Keys :
          /\ new.skills[key] \in Scale \cup {None}
          /\ new.seen[key] \in 0..clock \cup {None}
    <3> TAKE key \in Keys
    <3>1. /\ profile.skills[key] \in Scale \cup {None}
          /\ profile.seen[key] \in 0..clock \cup {None}
          /\ clock \in 0..clock
          BY <1>1, SomeBounds DEF Estimates
    <3>2. \/ new.skills[key] = profile.skills[key] /\ new.seen[key] = profile.seen[key]
          \/ new.skills[key] = Prior /\ new.seen[key] = profile.seen[key]
          \/ new.skills[key] \in Scale /\ new.seen[key] = clock
          BY FoldedKeys
    <3> QED BY <1>3, <3>1, <3>2
  <2>2. new = [skills |-> new.skills, seen |-> new.seen]
        /\ new.skills = [key \in Keys |-> new.skills[key]]
        /\ new.seen = [key \in Keys |-> new.seen[key]]
        BY DEF FoldEvent
  <2> HIDE DEF new
  <2>3. new.skills \in Estimates
        BY <2>1, <2>2 DEF Estimates
  <2>4. new.seen \in [Keys -> 0..clock \cup {None}]
        BY <2>1, <2>2
  <2> QED BY <2>2, <2>3, <2>4 DEF Profiles
<1>5. /\ new.skills \in Estimates
      /\ new.seen \in [Keys -> 0..clock \cup {None}]
      BY <1>4 DEF Profiles
<1>6. again \in Estimates
  <2>1. Family \in Keys
        BY DEF Keys
  <2> QED BY <1>5, <2>1, ShownLevels DEF Reading
<1>7. ASSUME NEW key \in Keys
      PROVE  Level(again, key) = Level(ApplyEvent(shown, e), key)
  <2> DEFINE kept == /\ new.skills[key] = profile.skills[key]
                     /\ new.seen[key] = profile.seen[key]
                     /\ Level(ApplyEvent(shown, e), key) = Level(shown, key)
             met == /\ new.skills[key] = Prior
                    /\ profile.skills[key] = None
                    /\ Level(ApplyEvent(shown, e), key) = Level(shown, key)
             counts == /\ key \in SkillKeys(e)
                       /\ new.skills[key] \in Scale
                       /\ new.skills[key] = ApplyEvent(shown, e)[key]
                       /\ new.seen[key] = clock
  <2>1. kept \/ met \/ counts
        BY FoldedKeys
  <2>2. /\ again[key] = Decayed(new.skills[key], new.seen[key], clock)
        /\ shown[key] = Decayed(profile.skills[key], profile.seen[key], clock)
        BY DEF Reading, View
  <2> HIDE DEF new, shown
  <2>3. CASE kept
        BY <2>2, <2>3 DEF Level
  <2>4. CASE met
    <3>1. View(new.skills, new.seen, clock)[key] = new.skills[key]
          BY <1>5, <2>4, FreshLevels
    <3>2. Level(again, key) = Prior
          BY <3>1, <2>4 DEF Level, Reading
    <3>3. shown[key] = None
          BY <2>2, <2>4 DEF Decayed
    <3> QED BY <2>4, <3>2, <3>3 DEF Level
  <2>5. CASE counts
    <3>1. View(new.skills, new.seen, clock)[key] = new.skills[key]
          BY <1>5, <2>5, FreshLevels
    <3>2. again[key] = ApplyEvent(shown, e)[key]
          BY <3>1, <2>5 DEF Reading
    <3> QED BY <3>2 DEF Level
  <2> QED BY <2>1, <2>3, <2>4, <2>5
<1> QED BY <1>4, <1>7

-----------------------------------------------------------------------------
(* A topic becomes easy only after two events that count against the learner *)

GroupOf(key) == IF key \in FamilyTopics THEN Family ELSE key

\* As low as the levels of a group can be after so many events against it.
Floor(count) == IF count = 0 THEN Prior ELSE IF count = 1 THEN OneLow ELSE 0

AboveTheFloor(levels, counts) ==
    \A key \in Keys : Level(levels, key) >= Floor(counts[GroupOf(key)])

LEMMA GroupsAreGroups ==
    /\ \A key \in Keys : GroupOf(key) \in Groups
    /\ \A e : IsEvent(e) => \A key \in SkillKeys(e) :
          key \in Keys /\ GroupOf(key) = Group(e.topic)
BY KnownFamily DEF GroupOf, Groups, Group, SkillKeys, Keys, IsEvent

LEMMA FloorIsLow ==
    ASSUME NEW count \in 0..2
    PROVE  Floor(count) \in Int /\ 0 <= Floor(count) /\ Floor(count) <= Prior /\ Prior \in Int
<1>1. Prior \in Int /\ OneLow \in Int /\ 0 <= OneLow /\ OneLow <= Prior
      BY SMT DEF Prior, OneLow
<1> QED BY <1>1 DEF Floor

LEMMA ApplyingKeepsTheFloor ==
    ASSUME NEW levels \in Estimates, NEW e, IsEvent(e), NEW counts \in [Groups -> 0..2],
           AboveTheFloor(levels, counts), NEW key \in SkillKeys(e)
    PROVE  ApplyEvent(levels, e)[key] >= Floor(Counted(counts, e)[GroupOf(key)])
<1> DEFINE g == Group(e.topic)
           new == Counted(counts, e)
<1>1. key \in Keys /\ GroupOf(key) = g /\ g \in Groups /\ counts[g] \in 0..2
      BY GroupsAreGroups
<1>2. /\ Level(levels, key) \in Scale /\ Level(levels, key) \in Int
      /\ Level(levels, key) >= Floor(counts[g])
      BY <1>1, LevelsAreLevels, ScaleIsBounded DEF AboveTheFloor
<1>3. new[g] = IF Low(e) THEN Smaller(2, counts[g] + 1) ELSE counts[g]
      BY <1>1 DEF Counted
<1>4. new[g] \in 0..2 /\ (Low(e) => new[g] > 0 /\ (new[g] = 1 => counts[g] = 0))
      BY <1>1, <1>3 DEF Smaller
<1>5. ApplyEvent(levels, e)[key] \in Scale /\ ApplyEvent(levels, e)[key] \in Int
      /\ ApplyEvent(levels, e)[key] >= 0
      BY <1>1, ApplyingAnEvent, ScaleIsBounded
<1>6. ApplyEvent(levels, e)[key] =
        IF Soft(e) THEN SoftLevel(levels, e, key)
        ELSE IF e.solved = None THEN Level(levels, key)
        ELSE Smooth(Level(levels, key), OutcomeScore(e), 3)
      BY <1>1, ApplyingAnEvent
<1>7. Prior \in Int /\ OneLow \in Int /\ 0 <= OneLow /\ OneLow <= Prior
      BY SMT DEF Prior, OneLow
<1>8. SUFFICES ASSUME new[g] # 2
               PROVE  ApplyEvent(levels, e)[key] >= Floor(new[g])
  <2>1. new[g] = 2 => Floor(new[g]) = 0
        BY DEF Floor
  <2> QED BY <1>1, <1>5, <2>1
<1> HIDE DEF new, g
<1>9. CASE Soft(e)
  <2> DEFINE start == IF key = Family \/ Level(levels, key) # Prior THEN Level(levels, key)
                      ELSE IF Direct(e) THEN Start(levels, e) ELSE Prior
  <2>1. start \in Scale /\ start \in Int /\ start >= Floor(counts[g])
    <3>1. Floor(counts[g]) <= Prior /\ Floor(counts[g]) \in Int
          BY <1>1, FloorIsLow
    <3>2. Prior \in Scale
      <4>1. Prior \in Int /\ 0 <= Prior /\ Prior <= Most
            BY SMT DEF Prior, Most
      <4> QED BY <4>1, ScaleIsBounded
    <3>3. e.topic \in FamilyTopics =>
             Level(levels, Family) \in Scale /\ Level(levels, Family) >= Floor(counts[g])
      <4>1. e.topic \in FamilyTopics => Family \in SkillKeys(e)
            BY KeysOfAnEvent
      <4>2. e.topic \in FamilyTopics => GroupOf(Family) = g /\ Family \in Keys
            BY <4>1, GroupsAreGroups DEF g
      <4> QED BY <4>2, LevelsAreLevels DEF AboveTheFloor
    <3>4. Start(levels, e) \in Scale /\ Start(levels, e) >= Floor(counts[g])
          BY <1>7, <3>1, <3>2, <3>3 DEF Start
    <3>5. start \in Scale /\ start >= Floor(counts[g])
          BY <1>2, <1>7, <3>1, <3>2, <3>4
    <3> QED BY <3>5, ScaleIsBounded
  <2>2. \/ ApplyEvent(levels, e)[key] = SoftStep(e, start)
        \/ ApplyEvent(levels, e)[key] = Prior
        BY <1>6, <1>9 DEF SoftLevel
  <2> HIDE DEF start
  <2>3. /\ start >= Prior => SoftStep(e, start) >= OneLow
        /\ ~Low(e) => /\ start >= Prior => SoftStep(e, start) >= Prior
                      /\ start >= OneLow => SoftStep(e, start) >= OneLow
        BY <1>9, <2>1, SoftStepIsCapped
  <2>4. CASE Low(e)
    <3>1. new[g] = 1 /\ counts[g] = 0
          BY <1>4, <1>8, <2>4
    <3> QED BY <2>1, <2>2, <2>3, <3>1, <1>7 DEF Floor
  <2>5. CASE ~Low(e)
    <3>1. new[g] = counts[g]
          BY <1>3, <2>5
    <3> QED BY <2>1, <2>2, <2>3, <2>5, <3>1, <1>1, <1>7, <1>8 DEF Floor
  <2> QED BY <2>4, <2>5
<1>10. CASE ~Soft(e) /\ e.solved = None
  <2>1. ApplyEvent(levels, e)[key] = Level(levels, key)
        BY <1>6, <1>10
  <2>2. CASE Low(e)
    <3>1. new[g] = 1 /\ counts[g] = 0
          BY <1>4, <1>8, <2>2
    <3> QED BY <1>2, <2>1, <3>1, <1>7 DEF Floor
  <2>3. CASE ~Low(e)
    <3>1. new[g] = counts[g]
          BY <1>3, <2>3
    <3> QED BY <1>2, <2>1, <3>1
  <2> QED BY <2>2, <2>3
<1>11. CASE ~Soft(e) /\ e.solved # None
  <2> DEFINE old == Level(levels, key)
             score == OutcomeScore(e)
  <2>1. score \in Scale /\ score \in Int /\ score >= UnsolvedScore
        BY <1>11, OutcomeIsScored, ScaleIsBounded
  <2>2. ApplyEvent(levels, e)[key] = Smooth(old, score, 3)
        BY <1>6, <1>11
  <2>3. (10 - 3) * old + 3 * score < 10 * Smooth(old, score, 3) + 5
        BY <1>2, <2>1, SmoothIsTheMean
  <2>4. 7 * old + 3 * score < 10 * ApplyEvent(levels, e)[key] + 5
        BY <1>2, <2>1, <2>2, <2>3
  <2>5. score < Prior => Low(e)
        BY <1>11 DEF Low
  <2> HIDE DEF old, score
  <2>6. old \in Int /\ old >= Floor(counts[g])
        BY <1>2 DEF old
  <2>7. CASE Low(e)
    <3>1. new[g] = 1 /\ counts[g] = 0
          BY <1>4, <1>8, <2>7
    <3>2. old >= Prior
          BY <2>6, <3>1 DEF Floor
    <3>3. ApplyEvent(levels, e)[key] >= OneLow
          BY <1>5, <2>1, <2>4, <2>6, <3>2, SMT DEF Prior, OneLow, UnsolvedScore
    <3> QED BY <3>1, <3>3 DEF Floor
  <2>8. CASE ~Low(e)
    <3>1. new[g] = counts[g] /\ score >= Prior
          BY <1>3, <2>5, <2>8, <2>1, <1>7
    <3>2. /\ old >= Prior => ApplyEvent(levels, e)[key] >= Prior
          /\ old >= OneLow => ApplyEvent(levels, e)[key] >= OneLow
          BY <1>5, <2>1, <2>4, <2>6, <3>1, SMT DEF Prior, OneLow
    <3> QED BY <3>1, <3>2, <2>6, <1>1, <1>8 DEF Floor
  <2> QED BY <2>7, <2>8
<1> QED BY <1>9, <1>10, <1>11

LEMMA FoldingKeepsTheFloor ==
    ASSUME NEW profile \in Profiles, clock \in 0..MaxClock, NEW e, IsEvent(e),
           NEW counts \in [Groups -> 0..2], AboveTheFloor(profile.skills, counts)
    PROVE  /\ Counted(counts, e) \in [Groups -> 0..2]
           /\ AboveTheFloor(FoldEvent(profile, e).skills, Counted(counts, e))
<1> DEFINE new == FoldEvent(profile, e)
           shown == Reading(profile)
           counted == Counted(counts, e)
<1>1. counted \in [Groups -> 0..2]
      BY DEF Counted, Smaller
<1>2. \A g \in Groups : /\ counts[g] \in 0..2 /\ counted[g] \in 0..2
                        /\ Floor(counted[g]) <= Floor(counts[g])
  <2> TAKE g \in Groups
  <2>1. counts[g] \in 0..2 /\ counted[g] \in 0..2 /\ counted[g] >= counts[g]
        BY DEF Counted, Smaller
  <2>2. Prior \in Int /\ OneLow \in Int /\ 0 <= OneLow /\ OneLow <= Prior
        BY SMT DEF Prior, OneLow
  <2> QED BY <2>1, <2>2 DEF Floor
<1>3. /\ profile.skills \in Estimates
      /\ profile.seen \in [Keys -> 0..clock \cup {None}]
      BY DEF Profiles
<1>4. shown \in Estimates /\ AboveTheFloor(shown, counts)
  <2>1. Family \in Keys
        BY DEF Keys
  <2>2. shown \in Estimates
        BY <1>3, <2>1, ShownLevels DEF Reading
  <2>3. ASSUME NEW key \in Keys
        PROVE  Level(shown, key) >= Floor(counts[GroupOf(key)])
    <3>1. counts[GroupOf(key)] \in 0..2
          BY <1>2, GroupsAreGroups
    <3>2. Level(profile.skills, key) >= Floor(counts[GroupOf(key)])
          BY DEF AboveTheFloor
    <3>3. /\ Level(profile.skills, key) >= Prior => Level(shown, key) >= Prior
          /\ Level(profile.skills, key) >= OneLow => Level(shown, key) >= OneLow
          BY <1>3, ShownLevels DEF Reading
    <3>4. Level(shown, key) >= 0
          BY <2>2, LevelsAreLevels, ScaleIsBounded
    <3> QED BY <3>1, <3>2, <3>3, <3>4 DEF Floor
  <2> QED BY <2>2, <2>3 DEF AboveTheFloor
<1>5. ASSUME NEW key \in Keys
      PROVE  Level(new.skills, key) >= Floor(counted[GroupOf(key)])
  <2>1. /\ GroupOf(key) \in Groups
        /\ Floor(counted[GroupOf(key)]) \in Int
        /\ Floor(counts[GroupOf(key)]) \in Int
        /\ Floor(counted[GroupOf(key)]) <= Floor(counts[GroupOf(key)])
        BY <1>2, GroupsAreGroups, FloorIsLow
  <2>2. /\ Level(profile.skills, key) >= Floor(counts[GroupOf(key)])
        /\ Level(profile.skills, key) \in Int
        BY <1>3, LevelsAreLevels, ScaleIsBounded DEF AboveTheFloor
  <2>3. \/ new.skills[key] = profile.skills[key]
        \/ new.skills[key] = Prior /\ profile.skills[key] = None
        \/ /\ key \in SkillKeys(e)
           /\ new.skills[key] \in Scale
           /\ new.skills[key] = ApplyEvent(shown, e)[key]
        BY FoldedKeys
  <2> HIDE DEF new, shown, counted
  <2>4. CASE new.skills[key] = profile.skills[key]
        BY <2>1, <2>2, <2>4 DEF Level
  <2>5. CASE new.skills[key] = Prior /\ profile.skills[key] = None
        BY <2>1, <2>2, <2>5 DEF Level
  <2>6. CASE /\ key \in SkillKeys(e)
             /\ new.skills[key] \in Scale
             /\ new.skills[key] = ApplyEvent(shown, e)[key]
    <3>1. ApplyEvent(shown, e)[key] >= Floor(Counted(counts, e)[GroupOf(key)])
          BY <1>4, <2>6, ApplyingKeepsTheFloor
    <3>2. Level(new.skills, key) = new.skills[key]
          BY <2>6, NoneIsNone, ScaleIsBounded DEF Level
    <3> QED BY <2>6, <3>1, <3>2 DEF counted
  <2> QED BY <2>3, <2>4, <2>5, <2>6
<1> QED BY <1>1, <1>5 DEF AboveTheFloor

-----------------------------------------------------------------------------
(* A topic becomes hard only by a solution *)

\* The topic, or the family it may be planned with, is in the hard band.
WithinReach(levels, topic) ==
    \/ Level(levels, topic) >= HardSkill
    \/ topic \in FamilyTopics /\ Level(levels, Family) >= HardSkill

LEMMA HardIsWithinReach ==
    ASSUME NEW levels \in Estimates, NEW topic \in Topics
    PROVE  /\ Hard(levels, topic) => WithinReach(levels, topic)
           /\ WithinReach(levels, topic) =>
                \/ Hard(levels, topic)
                \/ topic \in FamilyTopics /\ Level(levels, Family) >= HardSkill
<1>1. topic \in Keys /\ Family \in Keys
      BY DEF Keys
<1>2. Level(levels, topic) \in Int /\ Level(levels, Family) \in Int
      BY <1>1, LevelsAreLevels, ScaleIsBounded
<1>3. /\ Prior \in Int /\ HardSkill \in Int /\ WeakSkill \in Int
      /\ WeakSkill < HardSkill /\ Prior < HardSkill
      BY SMT DEF Prior, HardSkill, WeakSkill
<1>4. Level(levels, topic) # Prior => levels[topic] = Level(levels, topic)
      BY <1>1, LevelsAreLevels
<1> DEFINE skill == SkillFor(levels, topic)
<1>5. skill = IF Level(levels, topic) # Prior THEN Level(levels, topic)
              ELSE IF topic \in FamilyTopics THEN Level(levels, Family) ELSE Prior
      BY <1>4 DEF SkillFor
<1> HIDE DEF skill
<1>6. skill \in Int
      BY <1>2, <1>3, <1>5
<1>7. DifficultyFor(skill) = "hard" <=> skill >= HardSkill
      BY <1>3, <1>6 DEF DifficultyFor
<1>8. Hard(levels, topic) <=> skill >= HardSkill
      BY <1>7 DEF Hard, skill
<1> QED BY <1>2, <1>3, <1>5, <1>8 DEF WithinReach

LEMMA ReachIsEarned ==
    ASSUME NEW levels \in Estimates, NEW e, IsEvent(e), NEW topic \in Topics,
           ~(e.solved = TRUE /\ Group(e.topic) = Group(topic)),
           WithinReach(ApplyEvent(levels, e), topic)
    PROVE  WithinReach(levels, topic)
<1> DEFINE after == ApplyEvent(levels, e)
<1>1. after \in Estimates
  <2>1. Family \in Keys
        BY DEF Keys
  <2> QED BY <2>1, ApplyingAnEvent
<1>2. PICK key \in {topic, Family} :
         /\ Level(after, key) >= HardSkill
         /\ key = Family => topic \in FamilyTopics
  <2>1. topic # Family
        BY KnownFamily
  <2> QED BY <2>1 DEF WithinReach
<1>3. key \in Keys /\ Family \in Keys /\ topic # Family
      BY KnownFamily DEF Keys
<1>4. SUFFICES ASSUME key \in SkillKeys(e)
               PROVE  WithinReach(levels, topic)
  <2>1. key \notin SkillKeys(e) => after[key] = levels[key]
        BY <1>3, ApplyingAnEvent
  <2>2. key \notin SkillKeys(e) => Level(levels, key) >= HardSkill
        BY <1>2, <2>1 DEF Level
  <2> QED BY <1>2, <2>2 DEF WithinReach
<1>5. Group(e.topic) = Group(topic)
      BY <1>2, <1>4, KeysOfAnEvent DEF Group
<1>6. e.solved = FALSE \/ e.solved = None
  <2>1. e.solved \in BOOLEAN \/ e.solved = None
        BY DEF IsEvent
  <2> QED BY <1>5, <2>1
<1>7. /\ after[key] \in Scale
      /\ after[key] = IF Soft(e) THEN SoftLevel(levels, e, key)
                      ELSE IF e.solved = None THEN Level(levels, key)
                      ELSE Smooth(Level(levels, key), OutcomeScore(e), 3)
      BY <1>3, <1>4, ApplyingAnEvent
<1>8. Level(after, key) = after[key]
      BY <1>1, <1>3, <1>7, LevelsAreLevels
<1> HIDE DEF after
<1>9. /\ Prior \in Int /\ HardSkill \in Int /\ Prior < HardSkill
      BY SMT DEF Prior, HardSkill
<1>10. Level(levels, key) \in Scale /\ Level(levels, key) \in Int /\ after[key] \in Int
       BY <1>3, <1>7, LevelsAreLevels, ScaleIsBounded
<1>11. CASE Soft(e)
  <2>1. \/ after[key] = SoftStep(e, Level(levels, key))
        \/ after[key] = SoftStep(e, Start(levels, e)) /\ key # Family
        \/ after[key] = Prior
        BY <1>7, <1>11 DEF SoftLevel
  <2>2. CASE after[key] = SoftStep(e, Level(levels, key))
    <3>1. Level(levels, key) >= HardSkill
          BY <1>2, <1>8, <1>10, <1>11, <2>2, SoftStepIsCapped
    <3> QED BY <1>2, <3>1 DEF WithinReach
  <2>3. CASE after[key] = SoftStep(e, Start(levels, e)) /\ key # Family
    <3>1. key = topic /\ e.topic = topic
          BY <1>2, <1>4, <2>3, KeysOfAnEvent
    <3>2. Start(levels, e) \in Scale
      <4>1. Level(levels, Family) \in Scale
            BY <1>3, LevelsAreLevels
      <4>2. Prior \in Int /\ 0 <= Prior /\ Prior <= Most
            BY SMT DEF Prior, Most
      <4> QED BY <4>1, <4>2, ScaleIsBounded DEF Start
    <3>3. Start(levels, e) >= HardSkill
          BY <1>2, <1>8, <1>11, <2>3, <3>2, SoftStepIsCapped
    <3>4. topic \in FamilyTopics /\ Level(levels, Family) >= HardSkill
          BY <1>9, <3>1, <3>3 DEF Start
    <3> QED BY <3>4 DEF WithinReach
  <2>4. CASE after[key] = Prior
        BY <1>2, <1>8, <1>9, <2>4
  <2> QED BY <2>1, <2>2, <2>3, <2>4
<1>12. CASE ~Soft(e) /\ e.solved = None
  <2>1. Level(levels, key) >= HardSkill
        BY <1>2, <1>7, <1>8, <1>12
  <2> QED BY <1>2, <2>1 DEF WithinReach
<1>13. CASE ~Soft(e) /\ e.solved # None
  <2> DEFINE old == Level(levels, key)
  <2>1. OutcomeScore(e) = UnsolvedScore /\ OutcomeScore(e) \in Scale
        BY <1>6, <1>13, OutcomeIsScored
  <2>2. after[key] = Smooth(old, OutcomeScore(e), 3)
        BY <1>7, <1>13
  <2>3. 10 * Smooth(old, OutcomeScore(e), 3) <= (10 - 3) * old + 3 * OutcomeScore(e) + 5
        BY <1>10, <2>1, SmoothIsTheMean
  <2>4. OutcomeScore(e) \in Int
        BY <2>1, ScaleIsBounded
  <2>5. 10 * after[key] <= 7 * old + 3 * UnsolvedScore + 5
        BY <1>10, <2>1, <2>2, <2>3, <2>4
  <2> HIDE DEF old
  <2>6. old \in Int /\ after[key] >= HardSkill
        BY <1>2, <1>8, <1>10 DEF old
  <2>7. old >= HardSkill
        BY <1>10, <2>5, <2>6, SMT DEF HardSkill, UnsolvedScore
  <2> QED BY <1>2, <2>7 DEF WithinReach, old
<1> QED BY <1>11, <1>12, <1>13

\* Time takes nothing into the hard band.
LEMMA ReachIsNotWaitedFor ==
    ASSUME NEW levels \in Estimates, NEW at \in [Keys -> 0..clock \cup {None}],
           clock \in 0..MaxClock, NEW then \in 0..MaxClock, clock <= then,
           NEW topic \in Topics, WithinReach(View(levels, at, then), topic)
    PROVE  WithinReach(View(levels, at, clock), topic)
<1>1. PICK key \in {topic, Family} :
         /\ Level(View(levels, at, then), key) >= HardSkill
         /\ key = Family => topic \in FamilyTopics
  <2>1. topic # Family
        BY KnownFamily
  <2> QED BY <2>1 DEF WithinReach
<1>2. key \in Keys
      BY DEF Keys
<1>3. /\ Prior \in Int /\ HardSkill \in Int /\ Prior < HardSkill
      BY SMT DEF Prior, HardSkill
<1>4. /\ View(levels, at, then)[key] = Decayed(levels[key], at[key], then)
      /\ View(levels, at, clock)[key] = Decayed(levels[key], at[key], clock)
      BY <1>2 DEF View
<1>5. CASE levels[key] = None \/ at[key] = None
  <2>1. View(levels, at, then)[key] = View(levels, at, clock)[key]
        BY <1>4, <1>5 DEF Decayed
  <2> QED BY <1>1, <2>1 DEF WithinReach, Level
<1>6. CASE levels[key] # None /\ at[key] # None
  <2>1. levels[key] \in Scale
        BY <1>2, <1>6, LevelsAreLevels
  <2>2. at[key] \in 0..clock
        BY <1>2, <1>6
  <2>3. at[key] \in Nat /\ at[key] <= clock /\ at[key] <= then
        BY <2>2, SomeBounds
  <2> DEFINE old == Decayed(levels[key], at[key], clock)
             new == Decayed(levels[key], at[key], then)
  <2>4. old \in Scale /\ new \in Scale
        BY <2>1, <2>3, FadingIsTowardsThePrior
  <2>5. new > Prior => new <= old
        BY <2>1, <2>3, FadingNeverLifts
  <2> HIDE DEF old, new
  <2>6. old \in Int /\ new \in Int /\ old # None /\ new # None
        BY <2>4, ScaleIsBounded, NoneIsNone
  <2>7. Level(View(levels, at, then), key) = new /\ Level(View(levels, at, clock), key) = old
        BY <1>4, <2>6 DEF Level, old, new
  <2>8. Level(View(levels, at, clock), key) >= HardSkill
        BY <1>1, <1>3, <2>5, <2>6, <2>7
  <2> QED BY <1>1, <2>8 DEF WithinReach
<1> QED BY <1>5, <1>6

LEMMA ReachReadsLevels ==
    ASSUME NEW a, NEW b, NEW topic \in Topics,
           \A key \in Keys : Level(a, key) = Level(b, key)
    PROVE  WithinReach(a, topic) <=> WithinReach(b, topic)
BY DEF WithinReach, Keys

-----------------------------------------------------------------------------
(* The invariant of the profile *)

Fresh == \A t \in Turns \ stale : before[t] # None => before[t] = Shown

ProfileInv ==
    /\ ProfileTypeOK
    /\ seen \in [Keys -> 0..clock \cup {None}]
    /\ AboveTheFloor(skills, lows)
    /\ Fresh

LEMMA TheProfileIsAProfile ==
    ASSUME ProfileInv
    PROVE  /\ Stored.profile \in Profiles
           /\ clock \in 0..MaxClock
           /\ Reading(Stored.profile) = Shown
           /\ Shown \in Estimates
           /\ Stored.lows \in [Groups -> 0..2]
           /\ AboveTheFloor(Stored.profile.skills, Stored.lows)
           /\ Stored.events = <<>>
<1>1. /\ skills \in Estimates /\ clock \in 0..MaxClock
      /\ seen \in [Keys -> 0..clock \cup {None}]
      /\ lows \in [Groups -> 0..2] /\ AboveTheFloor(skills, lows)
      BY DEF ProfileInv, ProfileTypeOK, Estimates
<1>2. Family \in Keys
      BY DEF Keys
<1>3. Shown \in Estimates
      BY <1>1, <1>2, ShownLevels DEF Shown
<1> QED BY <1>1, <1>3 DEF Stored, Profiles, Reading, Shown

\* A record that a turn may commit.
IsRecord(record) ==
    /\ record.profile \in Profiles
    /\ record.lows \in [Groups -> 0..2]
    /\ AboveTheFloor(record.profile.skills, record.lows)

LEMMA RecordingKeeps ==
    ASSUME NEW record, IsRecord(record), clock \in 0..MaxClock, NEW e, IsEvent(e)
    PROVE  /\ IsRecord(RecordEvent(record, e))
           /\ RecordEvent(record, e).events = Append(record.events, e)
           /\ \A key \in Keys : Level(Reading(RecordEvent(record, e).profile), key) =
                                Level(ApplyEvent(Reading(record.profile), e), key)
<1> DEFINE new == RecordEvent(record, e)
<1>1. /\ record.profile \in Profiles /\ record.lows \in [Groups -> 0..2]
      /\ AboveTheFloor(record.profile.skills, record.lows)
      BY DEF IsRecord
<1>2. /\ new.profile = FoldEvent(record.profile, e)
      /\ new.lows = Counted(record.lows, e)
      /\ new.events = Append(record.events, e)
      BY DEF RecordEvent
<1>3. /\ FoldEvent(record.profile, e) \in Profiles
      /\ \A key \in Keys : Level(Reading(FoldEvent(record.profile, e)), key) =
                           Level(ApplyEvent(Reading(record.profile), e), key)
      BY <1>1, FoldingIsApplying
<1>4. /\ Counted(record.lows, e) \in [Groups -> 0..2]
      /\ AboveTheFloor(FoldEvent(record.profile, e).skills, Counted(record.lows, e))
      BY <1>1, FoldingKeepsTheFloor
<1> HIDE DEF new
<1> QED BY <1>2, <1>3, <1>4 DEF IsRecord, new

\* What recording an event does to what is within reach.
LEMMA RecordingReaches ==
    ASSUME NEW record, IsRecord(record), clock \in 0..MaxClock, NEW e, IsEvent(e),
           NEW topic \in Topics,
           ~(e.solved = TRUE /\ Group(e.topic) = Group(topic)),
           WithinReach(Reading(RecordEvent(record, e).profile), topic)
    PROVE  WithinReach(Reading(record.profile), topic)
<1>1. \A key \in Keys : Level(Reading(RecordEvent(record, e).profile), key) =
                        Level(ApplyEvent(Reading(record.profile), e), key)
      BY RecordingKeeps
<1>2. WithinReach(ApplyEvent(Reading(record.profile), e), topic)
      BY <1>1, ReachReadsLevels
<1>3. Reading(record.profile) \in Estimates
  <2>1. Family \in Keys
        BY DEF Keys
  <2> QED BY <2>1, ShownLevels DEF Reading, IsRecord, Profiles
<1> QED BY <1>2, <1>3, ReachIsEarned

\* A turn that commits a record and ends keeps the invariant, and the profile is
\* shown as the record has it.
LEMMA CommittingKeeps ==
    ASSUME ProfileInv, NEW t \in Turns, NEW record, IsRecord(record),
           record.events = <<>> => record.profile = Stored.profile,
           Commit(t, record), EndTurn(t), events' \in 0..MaxEvents
    PROVE  ProfileInv' /\ Shown' = Reading(record.profile)
<1>1. /\ record.profile.skills \in Estimates
      /\ record.profile.seen \in [Keys -> 0..clock \cup {None}]
      /\ record.lows \in [Groups -> 0..2]
      /\ AboveTheFloor(record.profile.skills, record.lows)
      BY DEF IsRecord, Profiles
<1>2. /\ skills' = record.profile.skills /\ seen' = record.profile.seen
      /\ lows' = record.lows /\ clock' = clock
      /\ before' = [before EXCEPT ![t] = None]
      /\ stale' = IF record.events = <<>> THEN stale
                  ELSE stale \cup {u \in Turns \ {t} : before[u] # None}
      BY DEF Commit, EndTurn
<1>3. ProfileTypeOK
      BY DEF ProfileInv
<1>4. clock \in 0..MaxClock /\ 0..clock \subseteq 0..MaxClock
      BY <1>3, SomeBounds DEF ProfileTypeOK
<1>5. seen' \in [Keys -> 0..MaxClock \cup {None}]
      BY <1>1, <1>2, <1>4
<1>6. before' \in [Turns -> Estimates \cup {None}] /\ stale' \subseteq Turns
      BY <1>2, <1>3 DEF ProfileTypeOK, Estimates
<1>7. ProfileTypeOK'
      BY <1>1, <1>2, <1>4, <1>5, <1>6 DEF ProfileTypeOK, Estimates
<1>8. AboveTheFloor(skills, lows)'
  <2>1. AboveTheFloor(skills', lows')
        BY <1>1, <1>2
  <2> QED BY <2>1 DEF AboveTheFloor, Level, Floor
<1>9. Shown' = Reading(record.profile)
      BY <1>2 DEF Shown, Reading, View, Decayed
<1>10. Fresh'
  <2> SUFFICES ASSUME NEW u \in Turns, u \notin stale', before'[u] # None
               PROVE  before'[u] = Shown'
      BY DEF Fresh
  <2>1. u # t /\ before'[u] = before[u]
        BY <1>2, <1>3 DEF ProfileTypeOK
  <2>2. record.events = <<>> /\ u \notin stale
        BY <1>2, <2>1
  <2>3. before[u] = Shown
        BY <2>1, <2>2 DEF ProfileInv, Fresh
  <2>4. Shown' = Shown
        BY <1>9, <2>2, TheProfileIsAProfile
  <2> QED BY <2>1, <2>3, <2>4
<1> QED BY <1>1, <1>2, <1>7, <1>8, <1>9, <1>10 DEF ProfileInv

LEMMA StoredIsARecord == ASSUME ProfileInv PROVE IsRecord(Stored)
BY TheProfileIsAProfile DEF IsRecord

\* The records a turn can make: of no event, of one, of two.
LEMMA OneEvent ==
    ASSUME NEW e
    PROVE  /\ Append(<<>>, e) = <<e>> /\ <<e>> # <<>>
           /\ Len(<<>>) = 0 /\ Len(<<e>>) = 1
           /\ 1 \in DOMAIN <<e>> /\ <<e>>[1] = e
<1>1. Append(<<>>, e) = <<e>> /\ <<e>> # <<>>
      OBVIOUS
<1>2. Len(<<>>) = 0 /\ Len(<<e>>) = 1
      OBVIOUS
<1>3. 1 \in DOMAIN <<e>> /\ <<e>>[1] = e
      OBVIOUS
<1> QED BY <1>1, <1>2, <1>3

LEMMA TwoEvents ==
    ASSUME NEW e, NEW f
    PROVE  LET both == Append(<<e>>, f)
           IN  /\ Len(both) = 2 /\ both # <<>>
               /\ {1, 2} \subseteq DOMAIN both /\ both[1] = e /\ both[2] = f
<1>1. <<e>> \in Seq({e, f})
      OBVIOUS
<1>2. Len(<<e>>) = 1 /\ <<e>>[1] = e /\ Len(<<>>) = 0
      OBVIOUS
<1> DEFINE both == Append(<<e>>, f)
<1>3. Len(both) = 2 /\ DOMAIN both = 1..2 /\ both[1] = e /\ both[2] = f
      BY <1>1, <1>2
<1> HIDE DEF both
<1>4. both # <<>>
      BY <1>2, <1>3
<1> QED BY <1>3, <1>4 DEF both

\* update_learner_model on one event.
LEMMA AnUpdate ==
    ASSUME ProfileInv, NEW t \in Turns, NEW e, IsEvent(e), NEW kept \in BOOLEAN,
           UpdateLearnerModel(t, e, kept)
    PROVE  /\ ProfileInv'
           /\ ~kept => Shown' = Shown /\ told' = None
           /\ kept => /\ last' = <<e>>
                      /\ told' = SkillDeltas(before[t], e)
                      /\ Shown' = Reading(RecordEvent(Stored, e).profile)
           /\ before' = [before EXCEPT ![t] = None]
<1> DEFINE record == IF kept THEN RecordEvent(Stored, e) ELSE Stored
<1>1. /\ clock \in 0..MaxClock /\ Stored.events = <<>>
      /\ Reading(Stored.profile) = Shown
      BY TheProfileIsAProfile
<1>2. IsRecord(Stored)
      BY StoredIsARecord
<1>3. /\ IsRecord(RecordEvent(Stored, e))
      /\ RecordEvent(Stored, e).events = <<e>>
  <2>1. RecordEvent(Stored, e).events = Append(Stored.events, e)
        BY <1>1, <1>2, RecordingKeeps
  <2> QED BY <1>1, <1>2, <2>1, RecordingKeeps, OneEvent
<1>4. IsRecord(record) /\ (record.events = <<>> => record.profile = Stored.profile)
      BY <1>2, <1>3, OneEvent
<1>5. /\ Commit(t, record) /\ EndTurn(t)
      /\ told' = IF kept THEN SkillDeltas(before[t], e) ELSE None
      /\ events < MaxEvents /\ events' = events + 1
      BY DEF UpdateLearnerModel
<1>6. events' \in 0..MaxEvents
      BY <1>5, SomeBounds DEF ProfileInv, ProfileTypeOK
<1> HIDE DEF record
<1>7. ProfileInv' /\ Shown' = Reading(record.profile)
      BY <1>4, <1>5, <1>6, CommittingKeeps
<1>8. last' = record.events
      BY <1>5 DEF Commit
<1> QED BY <1>1, <1>3, <1>5, <1>7, <1>8 DEF record, EndTurn

\* update_learner_model on the two marked answers of a quiz.
LEMMA AQuiz ==
    ASSUME ProfileInv, NEW t \in Turns, NEW first, IsEvent(first), NEW second, IsEvent(second),
           NEW kept \in SUBSET {1, 2}, UpdateAfterQuiz(t, first, second, kept)
    PROVE  LET one == IF 1 \in kept THEN RecordEvent(Stored, first) ELSE Stored
               both == IF 2 \in kept THEN RecordEvent(one, second) ELSE one
           IN  /\ ProfileInv'
               /\ IsRecord(one)
               /\ Shown' = Reading(both.profile)
               /\ last' = both.events
               /\ both.events = IF kept = {} THEN <<>>
                                ELSE IF kept = {1} THEN <<first>>
                                ELSE IF kept = {2} THEN <<second>>
                                ELSE Append(<<first>>, second)
               /\ before' = [before EXCEPT ![t] = None]
               /\ events' = events + 2
               /\ told' = IF kept = {} THEN None ELSE QuizSkillDeltas(before[t], first, second)
<1> DEFINE one == IF 1 \in kept THEN RecordEvent(Stored, first) ELSE Stored
           both == IF 2 \in kept THEN RecordEvent(one, second) ELSE one
<1>1. clock \in 0..MaxClock /\ Stored.events = <<>>
      BY TheProfileIsAProfile
<1>2. IsRecord(Stored)
      BY StoredIsARecord
<1>3. /\ IsRecord(one)
      /\ one.events = IF 1 \in kept THEN <<first>> ELSE <<>>
      /\ 1 \notin kept => one = Stored
  <2>1. /\ IsRecord(RecordEvent(Stored, first))
        /\ RecordEvent(Stored, first).events = Append(Stored.events, first)
        BY <1>1, <1>2, RecordingKeeps
  <2>2. RecordEvent(Stored, first).events = <<first>>
        BY <1>1, <2>1, OneEvent
  <2> QED BY <1>1, <1>2, <2>1, <2>2
<1>4. /\ Commit(t, both) /\ EndTurn(t)
      /\ told' = IF kept = {} THEN None ELSE QuizSkillDeltas(before[t], first, second)
      /\ events + 2 <= MaxEvents /\ events' = events + 2
      BY DEF UpdateAfterQuiz
<1> HIDE DEF one
<1>5. /\ IsRecord(both)
      /\ both.events = IF 2 \in kept THEN Append(one.events, second) ELSE one.events
      /\ 2 \notin kept => both = one
  <2>1. /\ IsRecord(RecordEvent(one, second))
        /\ RecordEvent(one, second).events = Append(one.events, second)
        BY <1>1, <1>3, RecordingKeeps
  <2> QED BY <1>3, <2>1
<1> HIDE DEF both
<1>6. both.events = IF kept = {} THEN <<>>
                    ELSE IF kept = {1} THEN <<first>>
                    ELSE IF kept = {2} THEN <<second>>
                    ELSE Append(<<first>>, second)
  <2>1. kept = {} \/ kept = {1} \/ kept = {2} \/ kept = {1, 2}
        OBVIOUS
  <2>2. Append(<<>>, second) = <<second>>
        BY OneEvent
  <2>3. CASE kept = {}
        BY <1>3, <1>5, <2>3
  <2>4. CASE kept = {1}
        BY <1>3, <1>5, <2>4
  <2>5. CASE kept = {2}
        BY <1>3, <1>5, <2>2, <2>5
  <2>6. CASE kept = {1, 2}
        BY <1>3, <1>5, <2>6
  <2> QED BY <2>1, <2>3, <2>4, <2>5, <2>6
<1>7. both.events = <<>> => both.profile = Stored.profile
  <2>1. <<first>> # <<>> /\ <<second>> # <<>>
        BY OneEvent
  <2>2. Append(<<first>>, second) # <<>>
        BY TwoEvents
  <2>3. both.events = <<>> => kept = {}
        BY <1>6, <2>1, <2>2
  <2> QED BY <1>3, <1>5, <2>3
<1>8. events' \in 0..MaxEvents
      BY <1>4, SomeBounds DEF ProfileInv, ProfileTypeOK
<1>9. ProfileInv' /\ Shown' = Reading(both.profile)
      BY <1>4, <1>5, <1>7, <1>8, CommittingKeeps
<1>10. last' = both.events
      BY <1>4 DEF Commit
<1> QED BY <1>3, <1>4, <1>6, <1>9, <1>10 DEF one, both, EndTurn

LEMMA LoadingKeeps ==
    ASSUME ProfileInv, NEW t \in Turns, NEW readable \in BOOLEAN,
           LoadLearnerProfile(t, readable)
    PROVE  ProfileInv' /\ Shown' = Shown /\ told' = None
<1>1. /\ skills' = skills /\ seen' = seen /\ clock' = clock /\ events' = events
      /\ lows' = lows /\ told' = None
      /\ before' = [before EXCEPT ![t] = IF readable THEN Shown ELSE Nothing]
      /\ stale' = IF readable THEN stale \ {t} ELSE stale \cup {t}
      BY DEF LoadLearnerProfile
<1>2. Shown \in Estimates
      BY TheProfileIsAProfile
<1>3. Nothing \in Estimates
      BY DEF Nothing, Estimates
<1>4. before \in [Turns -> Estimates \cup {None}] /\ stale \subseteq Turns /\ ProfileTypeOK
      BY DEF ProfileInv, ProfileTypeOK, Estimates
<1>5. before' \in [Turns -> Estimates \cup {None}] /\ stale' \subseteq Turns
      BY <1>1, <1>2, <1>3, <1>4
<1>6. ProfileTypeOK'
      BY <1>1, <1>4, <1>5 DEF ProfileTypeOK, Estimates
<1>7. Shown' = Shown
      BY <1>1 DEF Shown, View, Decayed
<1>8. AboveTheFloor(skills, lows)' /\ (seen \in [Keys -> 0..clock \cup {None}])'
      BY <1>1 DEF ProfileInv, AboveTheFloor, Level, Floor
<1>9. Fresh'
  <2> SUFFICES ASSUME NEW u \in Turns, u \notin stale', before'[u] # None
               PROVE  before'[u] = Shown'
      BY DEF Fresh
  <2>1. CASE u = t
        BY <1>1, <1>4, <1>7, <2>1
  <2>2. CASE u # t
        BY <1>1, <1>4, <1>7, <2>2 DEF ProfileInv, Fresh
  <2> QED BY <2>1, <2>2
<1> QED BY <1>1, <1>6, <1>7, <1>8, <1>9 DEF ProfileInv

LEMMA TickingKeeps ==
    ASSUME ProfileInv, Tick
    PROVE  /\ ProfileInv' /\ told' = None
           /\ Shown' = View(skills, seen, clock')
           /\ clock' \in 0..MaxClock /\ clock <= clock'
<1>1. /\ skills' = skills /\ seen' = seen /\ clock' = clock + Pause /\ events' = events
      /\ lows' = lows /\ before' = before /\ stale' = stale /\ told' = None
      /\ clock + Pause <= MaxClock /\ \A t \in Turns : before[t] = None
      BY DEF Tick
<1>2. ProfileTypeOK /\ clock \in 0..MaxClock
      BY DEF ProfileInv, ProfileTypeOK
<1>3. clock' \in 0..MaxClock /\ clock <= clock'
      BY <1>1, <1>2, SomeBounds
<1>4. ProfileTypeOK'
      BY <1>1, <1>2, <1>3 DEF ProfileTypeOK
<1>5. seen' \in [Keys -> 0..clock' \cup {None}]
  <2>1. 0..clock \subseteq 0..clock'
        BY <1>2, <1>3
  <2> QED BY <1>1, <2>1 DEF ProfileInv
<1>6. AboveTheFloor(skills, lows)' /\ Fresh'
      BY <1>1 DEF ProfileInv, AboveTheFloor, Level, Floor, Fresh
<1>7. Shown' = View(skills, seen, clock')
      BY <1>1 DEF Shown, View, Decayed
<1> QED BY <1>1, <1>3, <1>4, <1>5, <1>6, <1>7 DEF ProfileInv

LEMMA TheProfileStarts == ProfileInit => ProfileInv
<1> SUFFICES ASSUME ProfileInit PROVE ProfileInv
    OBVIOUS
<1>1. Nothing \in Estimates /\ Nothing \in [Keys -> 0..clock \cup {None}]
      /\ Nothing \in [Keys -> 0..MaxClock \cup {None}]
      BY DEF Nothing, Estimates
<1>2. ProfileTypeOK
      BY <1>1, SomeBounds DEF ProfileInit, ProfileTypeOK, Estimates
<1>3. AboveTheFloor(skills, lows)
  <2> SUFFICES ASSUME NEW key \in Keys
               PROVE  Level(skills, key) >= Floor(lows[GroupOf(key)])
      BY DEF AboveTheFloor
  <2>1. Level(skills, key) = Prior /\ lows[GroupOf(key)] = 0
        BY GroupsAreGroups DEF ProfileInit, Nothing, Level
  <2>2. Prior \in Int
        BY SMT DEF Prior
  <2> QED BY <2>1, <2>2 DEF Floor
<1>4. Fresh
      BY DEF Fresh, ProfileInit
<1> QED BY <1>1, <1>2, <1>3, <1>4 DEF ProfileInv, ProfileInit

\* What a step of the profile is.
LEMMA StepsOfTheProfile ==
    ASSUME ProfileNext
    PROVE  \/ Tick
           \/ \E t \in Turns :
                \/ \E readable \in BOOLEAN : LoadLearnerProfile(t, readable)
                \/ \E e \in TurnEvents, kept \in BOOLEAN :
                      IsEvent(e) /\ UpdateLearnerModel(t, e, kept)
                \/ \E first, second \in QuizEvents, kept \in SUBSET {1, 2} :
                      /\ IsEvent(first) /\ IsEvent(second)
                      /\ first.solved = None /\ second.solved = None
                      /\ UpdateAfterQuiz(t, first, second, kept)
<1>1. CASE Tick
      BY <1>1
<1>2. ASSUME NEW t \in Turns, TurnStep(t)
      PROVE  \/ \E readable \in BOOLEAN : LoadLearnerProfile(t, readable)
             \/ \E e \in TurnEvents, kept \in BOOLEAN :
                   IsEvent(e) /\ UpdateLearnerModel(t, e, kept)
             \/ \E first, second \in QuizEvents, kept \in SUBSET {1, 2} :
                   /\ IsEvent(first) /\ IsEvent(second)
                   /\ first.solved = None /\ second.solved = None
                   /\ UpdateAfterQuiz(t, first, second, kept)
      BY <1>2, EventsAreEvents, Zenon DEF TurnStep
<1> QED BY <1>1, <1>2 DEF ProfileNext

LEMMA TheProfileKeeps == ProfileInv /\ [ProfileNext]_profileVars => ProfileInv'
<1> SUFFICES ASSUME ProfileInv, [ProfileNext]_profileVars PROVE ProfileInv'
    OBVIOUS
<1>1. CASE UNCHANGED profileVars
      BY <1>1 DEF profileVars, ProfileInv, ProfileTypeOK, AboveTheFloor, Level, Floor, Fresh,
                  Shown, View, Decayed
<1>2. CASE ProfileNext
  <2>1. CASE Tick
        BY <2>1, TickingKeeps
  <2>2. ASSUME NEW t \in Turns, NEW readable \in BOOLEAN, LoadLearnerProfile(t, readable)
        PROVE  ProfileInv'
        BY <2>2, LoadingKeeps
  <2>3. ASSUME NEW t \in Turns, NEW e, IsEvent(e), NEW kept \in BOOLEAN,
               UpdateLearnerModel(t, e, kept)
        PROVE  ProfileInv'
        BY <2>3, AnUpdate
  <2>4. ASSUME NEW t \in Turns, NEW first, IsEvent(first), NEW second, IsEvent(second),
               NEW kept \in SUBSET {1, 2}, UpdateAfterQuiz(t, first, second, kept)
        PROVE  ProfileInv'
        BY <2>4, AQuiz
  <2> QED BY <1>2, <2>1, <2>2, <2>3, <2>4, StepsOfTheProfile, Zenon
<1> QED BY <1>1, <1>2

\* The profile is well formed, no level is below what the evidence against it
\* allows, and a view that is not out of date is what the profile shows.
THEOREM TheProfileInvariantHolds == ProfileSpec => []ProfileInv
<1> QED BY TheProfileStarts, TheProfileKeeps, PTL DEF ProfileSpec

\* For any topics, scores of hints, number of events and curve of fading: nobody
\* is planned with as weak on a topic before two events have counted against
\* them on it or on its family.
THEOREM WeaknessIsShownTwice == ProfileSpec => []EasyIsEarned
<1>1. ProfileInv => EasyIsEarned
  <2> SUFFICES ASSUME ProfileInv, NEW topic \in Topics,
                      DifficultyFor(Planned(topic)) = "easy"
               PROVE  lows[Group(topic)] >= 2
      BY DEF EasyIsEarned
  <2>1. topic \in Keys /\ Family \in Keys /\ topic # Family
        BY KnownFamily DEF Keys
  <2>2. /\ GroupOf(topic) = Group(topic)
        /\ topic \in FamilyTopics => GroupOf(Family) = Group(topic)
        /\ Group(topic) \in Groups
        BY KnownFamily, <2>1, GroupsAreGroups DEF GroupOf, Group
  <2> DEFINE count == lows[Group(topic)]
  <2>3. /\ count \in 0..2 /\ skills \in Estimates /\ clock \in 0..MaxClock
        /\ seen \in [Keys -> 0..clock \cup {None}]
        /\ Level(skills, topic) >= Floor(count)
        /\ topic \in FamilyTopics => Level(skills, Family) >= Floor(count)
        BY <2>1, <2>2 DEF ProfileInv, ProfileTypeOK, Estimates, AboveTheFloor
  <2> HIDE DEF count
  <2>4. /\ Prior \in Int /\ OneLow \in Int /\ WeakSkill \in Int
        /\ WeakSkill < OneLow /\ OneLow <= Prior
        BY SMT DEF Prior, OneLow, WeakSkill
  <2>5. SUFFICES ASSUME count # 2 PROVE FALSE
        BY <2>3 DEF count
  <2>6. Level(skills, topic) >= OneLow
        /\ (topic \in FamilyTopics => Level(skills, Family) >= OneLow)
    <3>1. Floor(count) >= OneLow /\ Floor(count) \in Int
          BY <2>3, <2>4, <2>5 DEF Floor
    <3>2. Level(skills, topic) \in Int /\ Level(skills, Family) \in Int
          BY <2>1, <2>3, LevelsAreLevels, ScaleIsBounded
    <3> QED BY <2>3, <2>4, <3>1, <3>2
  <2>7. /\ Shown \in Estimates
        /\ Level(Shown, topic) >= OneLow
        /\ topic \in FamilyTopics => Level(Shown, Family) >= OneLow
        BY <2>1, <2>3, <2>6, ShownLevels DEF Shown
  <2>8. Planned(topic) >= OneLow /\ Planned(topic) \in Int
    <3>1. /\ Level(Shown, topic) \in Int /\ Level(Shown, Family) \in Int
          /\ Level(Shown, topic) # Prior => Shown[topic] = Level(Shown, topic)
          BY <2>1, <2>7, LevelsAreLevels, ScaleIsBounded
    <3> QED BY <2>4, <2>7, <3>1 DEF Planned, SkillFor
  <2>9. ~(Planned(topic) < WeakSkill)
        BY <2>4, <2>8
  <2> QED BY <2>9 DEF DifficultyFor
<1> QED BY <1>1, TheProfileInvariantHolds, PTL

LEMMA WhatIsShown == ProfileInv => Shown \in Estimates
BY TheProfileIsAProfile

\* What is within reach after a turn of which no event is a solution in the
\* topic's group was within reach before.
LEMMA AHardTopicIsAlwaysEarned ==
    ProfileInv /\ [ProfileNext]_profileVars => [AHardTopicIsEarned]_profileVars
<1> SUFFICES ASSUME ProfileInv, ProfileNext, NEW topic \in Topics,
                    Hard(Shown', topic), ~Hard(Shown, topic),
                    ~(topic \in FamilyTopics /\ Level(Shown, Family) >= HardSkill)
             PROVE  \E i \in DOMAIN last' :
                      /\ last'[i].solved = TRUE
                      /\ Group(last'[i].topic) = Group(topic)
    BY DEF AHardTopicIsEarned
<1>1. ProfileInv'
      BY TheProfileKeeps
<1>2. Shown \in Estimates /\ Shown' \in Estimates
  <2>1. Shown \in Estimates
        BY WhatIsShown
  <2>2. (ProfileInv => Shown \in Estimates)'
        BY WhatIsShown, PTL
  <2>3. Estimates' = Estimates
    <3>1. Most' = Most
          BY SMT DEF Most
    <3>2. Scale' = Scale
          BY <3>1 DEF Scale
    <3> QED BY <3>2 DEF Estimates, Keys
  <2> QED BY <1>1, <2>1, <2>2, <2>3
<1>3. WithinReach(Shown', topic) /\ ~WithinReach(Shown, topic)
      BY <1>2, HardIsWithinReach
<1>4. CASE Tick
  <2>1. Shown' = View(skills, seen, clock') /\ clock' \in 0..MaxClock /\ clock <= clock'
        BY <1>4, TickingKeeps
  <2>2. skills \in Estimates /\ seen \in [Keys -> 0..clock \cup {None}] /\ clock \in 0..MaxClock
        BY DEF ProfileInv, ProfileTypeOK, Estimates
  <2>3. WithinReach(View(skills, seen, clock), topic)
        BY <1>3, <2>1, <2>2, ReachIsNotWaitedFor
  <2> QED BY <1>3, <2>3 DEF Shown
<1>5. ASSUME NEW t \in Turns, NEW readable \in BOOLEAN, LoadLearnerProfile(t, readable)
      PROVE  FALSE
      BY <1>3, <1>5, LoadingKeeps
<1>6. /\ IsRecord(Stored) /\ clock \in 0..MaxClock /\ Reading(Stored.profile) = Shown
      BY StoredIsARecord, TheProfileIsAProfile
<1>7. ASSUME NEW t \in Turns, NEW e, IsEvent(e), NEW kept \in BOOLEAN,
             UpdateLearnerModel(t, e, kept)
      PROVE  \E i \in DOMAIN last' : /\ last'[i].solved = TRUE
                                     /\ Group(last'[i].topic) = Group(topic)
  <2>1. kept /\ last' = <<e>> /\ Shown' = Reading(RecordEvent(Stored, e).profile)
        BY <1>3, <1>7, AnUpdate
  <2>2. e.solved = TRUE /\ Group(e.topic) = Group(topic)
        BY <1>3, <1>6, <1>7, <2>1, RecordingReaches
  <2>3. 1 \in DOMAIN last' /\ last'[1] = e
        BY <2>1, OneEvent
  <2> QED BY <2>2, <2>3
<1>8. ASSUME NEW t \in Turns, NEW first, IsEvent(first), NEW second, IsEvent(second),
             first.solved = None, second.solved = None,
             NEW kept \in SUBSET {1, 2}, UpdateAfterQuiz(t, first, second, kept)
      PROVE  FALSE
  <2> DEFINE one == IF 1 \in kept THEN RecordEvent(Stored, first) ELSE Stored
             both == IF 2 \in kept THEN RecordEvent(one, second) ELSE one
  <2>1. IsRecord(one) /\ Shown' = Reading(both.profile)
        BY <1>8, AQuiz
  <2>2. first.solved # TRUE /\ second.solved # TRUE
        BY <1>8, NoneIsNone
  <2>3. WithinReach(Reading(one.profile), topic)
    <3> HIDE DEF one
    <3>1. CASE 2 \in kept
      <4>1. WithinReach(Reading(RecordEvent(one, second).profile), topic)
            BY <1>3, <2>1, <3>1
      <4> QED BY <1>6, <1>8, <2>1, <2>2, <4>1, RecordingReaches
    <3>2. CASE 2 \notin kept
          BY <1>3, <2>1, <3>2
    <3> QED BY <3>1, <3>2
  <2>4. WithinReach(Reading(Stored.profile), topic)
    <3>1. CASE 1 \in kept
      <4>1. WithinReach(Reading(RecordEvent(Stored, first).profile), topic)
            BY <2>3, <3>1
      <4> QED BY <1>6, <1>8, <2>2, <4>1, RecordingReaches
    <3>2. CASE 1 \notin kept
          BY <2>3, <3>2
    <3> QED BY <3>1, <3>2
  <2> QED BY <1>3, <1>6, <2>4
<1> QED BY <1>4, <1>5, <1>7, <1>8, StepsOfTheProfile

\* For any topics and any curve of fading: the hard band is entered by a solution
\* that the sandbox passed, or after the family.
THEOREM HardnessIsEarned == ProfileSpec => HardIsEarned
<1> QED BY AHardTopicIsAlwaysEarned, TheProfileInvariantHolds, PTL DEF ProfileSpec, HardIsEarned

-----------------------------------------------------------------------------
(* What a turn reports is what it did *)

LEMMA DifferenceReadsLevels ==
    ASSUME NEW view, NEW a, NEW b, \A topic \in Topics : Level(a, topic) = Level(b, topic)
    PROVE  Difference(view, a) = Difference(view, b)
BY DEF Difference

\* One event moves a topic by what is known of the topic: the family's estimate,
\* left out of the report, counts only for a quiz.
LEMMA TheReportOfOneEvent ==
    ASSUME NEW view \in Estimates, NEW e \in TurnEvents
    PROVE  SkillDeltas(view, e) = Difference(view, ApplyEvent(view, e))
<1> DEFINE topics == [view EXCEPT ![Family] = None]
<1>1. IsEvent(e) /\ e.source # "quiz"
  <2>1. e.source # "quiz"
    <3>1. PICK topic \in Topics :
             \/ e \in Solutions(topic) \/ e = Failure(topic) \/ e \in Replies(topic)
             \/ \E s \in {"help_needed", "none"} : e = Event(topic, None, 0, FALSE, s, None)
          BY DEF TurnEvents
    <3>2. \A S : \A f \in Graded(topic, "tutor_reply", Grades \cap S) : f.source = "tutor_reply"
          BY DEF Graded, Event
    <3>3. e \in Replies(topic) => e.source = "tutor_reply"
          BY <3>2, Zenon DEF Replies
    <3>4. e \in Solutions(topic) => e.source = "suite"
          BY DEF Solutions, Event
    <3>5. Failure(topic).source = "suite"
          BY DEF Failure, Event
    <3>6. \A s : Event(topic, None, 0, FALSE, s, None).source = s
          BY DEF Event
    <3> QED BY <3>1, <3>3, <3>4, <3>5, <3>6
  <2> QED BY <2>1, EventsAreEvents
<1>2. /\ topics \in Estimates
      /\ \A topic \in Topics : topic \in Keys /\ topic # Family /\ topics[topic] = view[topic]
      BY KnownFamily DEF Estimates, Keys
<1> HIDE DEF topics
<1>3. \A topic \in Topics : Level(topics, topic) = Level(view, topic)
      BY <1>2 DEF Level
<1>4. ASSUME NEW topic \in Topics
      PROVE  Level(ApplyEvent(topics, e), topic) = Level(ApplyEvent(view, e), topic)
  <2>1. CASE topic \notin SkillKeys(e)
    <3>1. /\ ApplyEvent(topics, e)[topic] = topics[topic]
          /\ ApplyEvent(view, e)[topic] = view[topic]
          BY <1>1, <1>2, <2>1, ApplyingAnEvent
    <3> QED BY <1>2, <3>1 DEF Level
  <2>2. CASE topic \in SkillKeys(e)
    <3>1. Direct(e) => Start(topics, e) = Start(view, e)
      <4>1. Direct(e) => e.topic \notin FamilyTopics
            BY <1>1, KeysOfAnEvent DEF Direct
      <4> QED BY <4>1 DEF Start
    <3>2. Level(topics, topic) = Level(view, topic)
          BY <1>3
    <3>3. SoftLevel(topics, e, topic) = SoftLevel(view, e, topic)
          BY <3>1, <3>2 DEF SoftLevel
    <3>4. ApplyEvent(topics, e)[topic] =
            IF Soft(e) THEN SoftLevel(topics, e, topic)
            ELSE IF e.solved = None THEN Level(topics, topic)
            ELSE Smooth(Level(topics, topic), OutcomeScore(e), 3)
          BY <1>1, <1>2, <2>2, ApplyingAnEvent
    <3>5. ApplyEvent(view, e)[topic] =
            IF Soft(e) THEN SoftLevel(view, e, topic)
            ELSE IF e.solved = None THEN Level(view, topic)
            ELSE Smooth(Level(view, topic), OutcomeScore(e), 3)
          BY <1>1, <1>2, <2>2, ApplyingAnEvent
    <3>6. ApplyEvent(topics, e)[topic] = ApplyEvent(view, e)[topic]
          BY <3>2, <3>3, <3>4, <3>5
    <3> QED BY <3>6 DEF Level
  <2> QED BY <2>1, <2>2
<1>5. Difference(topics, ApplyEvent(topics, e)) = Difference(view, ApplyEvent(view, e))
      BY <1>3, <1>4 DEF Difference
<1> QED BY <1>5 DEF SkillDeltas, topics

LEMMA TheReportIsAlwaysTrue ==
    ProfileInv /\ [ProfileNext]_profileVars => [TheReportIsTrue]_profileVars
<1> SUFFICES ASSUME ProfileInv, ProfileNext, told = None, told' # None,
                    events' = events + Len(last'),
                    NEW u \in Turns, u \notin stale, before[u] # None, before'[u] = None
             PROVE  told' = Difference(Shown, Shown')
    BY DEF TheReportIsTrue
<1>1. before[u] = Shown
      BY DEF ProfileInv, Fresh
<1>2. /\ IsRecord(Stored) /\ clock \in 0..MaxClock
      /\ Reading(Stored.profile) = Shown /\ Shown \in Estimates
      BY StoredIsARecord, TheProfileIsAProfile
<1>3. before \in [Turns -> Estimates \cup {None}] /\ events \in Int
      BY SomeBounds DEF ProfileInv, ProfileTypeOK, Estimates
<1>4. \A topic \in Topics : topic \in Keys
      BY DEF Keys
<1>5. CASE Tick
      BY <1>5, TickingKeeps
<1>6. ASSUME NEW t \in Turns, NEW readable \in BOOLEAN, LoadLearnerProfile(t, readable)
      PROVE  FALSE
      BY <1>6, LoadingKeeps
<1>7. ASSUME NEW t \in Turns, NEW e \in TurnEvents, IsEvent(e), NEW kept \in BOOLEAN,
             UpdateLearnerModel(t, e, kept)
      PROVE  told' = Difference(Shown, Shown')
  <2>1. /\ kept /\ told' = SkillDeltas(before[t], e)
        /\ Shown' = Reading(RecordEvent(Stored, e).profile)
        /\ before' = [before EXCEPT ![t] = None]
        BY <1>7, AnUpdate
  <2>2. u = t
        BY <1>3, <2>1
  <2>3. told' = Difference(Shown, ApplyEvent(Shown, e))
        BY <1>1, <1>2, <2>1, <2>2, TheReportOfOneEvent
  <2>4. \A key \in Keys : Level(Shown', key) = Level(ApplyEvent(Shown, e), key)
        BY <1>2, <1>7, <2>1, RecordingKeeps
  <2>5. Difference(Shown, Shown') = Difference(Shown, ApplyEvent(Shown, e))
        BY <1>4, <2>4, DifferenceReadsLevels
  <2> QED BY <2>3, <2>5
<1>8. ASSUME NEW t \in Turns, NEW first, IsEvent(first), NEW second, IsEvent(second),
             NEW kept \in SUBSET {1, 2}, UpdateAfterQuiz(t, first, second, kept)
      PROVE  told' = Difference(Shown, Shown')
  <2> DEFINE one == IF 1 \in kept THEN RecordEvent(Stored, first) ELSE Stored
             both == IF 2 \in kept THEN RecordEvent(one, second) ELSE one
  <2>1. /\ IsRecord(one) /\ Shown' = Reading(both.profile) /\ last' = both.events
        /\ both.events = IF kept = {} THEN <<>>
                         ELSE IF kept = {1} THEN <<first>>
                         ELSE IF kept = {2} THEN <<second>>
                         ELSE Append(<<first>>, second)
        /\ before' = [before EXCEPT ![t] = None]
        /\ events' = events + 2
        /\ told' = IF kept = {} THEN None ELSE QuizSkillDeltas(before[t], first, second)
        BY <1>8, AQuiz
  <2> HIDE DEF both
  <2>2. u = t
        BY <1>3, <2>1
  <2>3. kept = {1, 2}
    <3>1. Len(<<>>) = 0 /\ Len(<<first>>) = 1 /\ Len(<<second>>) = 1
          BY OneEvent
    <3>2. Len(last') = 2 \/ Len(last') \notin Int
          BY <1>3, <2>1
    <3>3. kept = {} \/ kept = {1} \/ kept = {2} \/ kept = {1, 2}
          OBVIOUS
    <3> QED BY <2>1, <3>1, <3>2, <3>3
  <2>4. told' = Difference(Shown, ApplyEvent(ApplyEvent(Shown, first), second))
        BY <1>1, <2>1, <2>2, <2>3 DEF QuizSkillDeltas
  <2>5. both = RecordEvent(one, second) /\ one = RecordEvent(Stored, first)
        BY <2>3 DEF both
  <2> HIDE DEF one
  <2>6. \A key \in Keys : Level(Reading(one.profile), key) = Level(ApplyEvent(Shown, first), key)
        BY <1>2, <1>8, <2>5, RecordingKeeps
  <2>7. \A key \in Keys : Level(Shown', key) = Level(ApplyEvent(Reading(one.profile), second), key)
        BY <1>2, <1>8, <2>1, <2>5, RecordingKeeps
  <2>8. Reading(one.profile) \in Estimates /\ ApplyEvent(Shown, first) \in Estimates
    <3>1. Family \in Keys
          BY DEF Keys
    <3>2. Reading(one.profile) \in Estimates
          BY <1>2, <2>1, <3>1, ShownLevels DEF Reading, IsRecord, Profiles
    <3>3. ApplyEvent(Shown, first) \in Estimates
          BY <1>2, <1>8, <3>1, ApplyingAnEvent
    <3> QED BY <3>2, <3>3
  <2>9. \A key \in Keys : Level(ApplyEvent(Reading(one.profile), second), key) =
                          Level(ApplyEvent(ApplyEvent(Shown, first), second), key)
        BY <1>8, <2>6, <2>8, ApplyingReadsLevels
  <2>10. Difference(Shown, Shown') =
           Difference(Shown, ApplyEvent(ApplyEvent(Shown, first), second))
         BY <1>4, <2>7, <2>9, DifferenceReadsLevels
  <2> QED BY <2>4, <2>10
<1> QED BY <1>5, <1>6, <1>7, <1>8, StepsOfTheProfile

\* For any topics and any two marked answers: a turn that had the profile as it
\* still is, and whose events were all stored, reports what they did.
THEOREM ReportsAreTrue == ProfileSpec => DeltasAreWritten
<1> QED BY TheReportIsAlwaysTrue, TheProfileInvariantHolds, PTL DEF ProfileSpec, DeltasAreWritten
==================================================================================
