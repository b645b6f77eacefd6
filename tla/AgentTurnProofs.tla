--------------------------- MODULE AgentTurnProofs ---------------------------
(***************************************************************************)
(* Proofs about AgentTurn, for any number of patch attempts, model calls    *)
(* and repetitions, and any stored rungs and plans.                         *)
(***************************************************************************)
EXTENDS AgentTurn, Integers, TLAPS

-----------------------------------------------------------------------------
(* The inductive invariant *)

\* The types the arguments below need.
AgentTypes ==
    /\ turn \in Messages
    /\ ask \in Ask
    /\ row \in Ladder!Row
    /\ initial \in Verdicts /\ final \in Verdicts /\ checked \in Verdicts
    /\ attempts \in Nat
    /\ patched \in Patches \cup {None}
    /\ request \in AllCodes \cup {None}
    /\ ran \subseteq AllCodes \X Verdicts

\* Until it answers, the agent has said nothing; until it patches, it has found
\* no bug and written no patch; and only the two ladder routes reach the solver.
Ending == {"execute", "reply", "done"}
Debugging == {"patch", "rerun", "present", "map"}
Solving == {"reference", "analysis", "hint"}

InOrder ==
    /\ pc \notin Ending => result = Silent /\ row = ask.row
    /\ pc # "done" => said = Nothing
    /\ pc \notin Ending \cup Debugging =>
         patched = None /\ ~found /\ presented = None /\ attempts = 0
    /\ pc = "patch" => attempts < MaxPatchAttempts
    /\ pc \notin Ending => (pc \in Solving \/ pc \in {"grade", "step"} => ask.route \in {"dsa", "grade"})
    /\ pc = "suite" => ask.route \in {"debug", "dsa", "review"}
    /\ pc = "grade" => ask.route = "grade"
    /\ pc = "asked" => ask.route = "debug"
    /\ pc \in {"debug", "explain"} \cup Debugging => ask.route = "debug"
    /\ pc = "start" => checked = None
    /\ turn.wants <=> ask.assistance = Ladder!Full

\* A verdict that may be said of a code is one of its runs.
IsRun(code, verdict) == verdict \in Reported => <<code, verdict>> \in ran

VerdictsAreRuns ==
    /\ IsRun(Own, initial)
    /\ pc # "rerun" /\ final \in Reported => patched # None /\ <<patched, final>> \in ran
    /\ presented = Tidy => <<Tidy, IF initial = "pass" THEN "pass" ELSE "no tests">> \in ran
    /\ solution = "verified" => <<Ref, "pass">> \in ran
    /\ checked \in Reported => \E c \in AllCodes : <<c, checked>> \in ran

\* A program that passed as it came is never patched.
PassedIsLeftAlone == initial = "pass" => patched = None /\ ~found

\* What the agent hands to the reply, before the reply is written.
ClaimsAreRuns == result.claims \subseteq ran /\ result.claims \subseteq AllCodes \X Verdicts

\* The solver's account is within the rung the turn comes to, and the rung
\* stored at the top is that of a solution to be shown.
AccountOfRung ==
    /\ pc \notin Ending \cup {"hint"} => insight = {}
    /\ insight \subseteq Told
    /\ pc = "hint" => \A part \in insight : Gate[part] <= NextRung
    /\ result.tells \subseteq Told
    /\ result.tells # {} => ask.route \in {"dsa", "grade"}
    /\ result.shown \in {None, Ref}
    /\ result.shown # None =>
         /\ turn.wants
         /\ result.outcome.full
         /\ row.level = Ladder!FullReveal \/ row = ask.row
    /\ row.level = Ladder!FullReveal /\ ask.row.level # Ladder!FullReveal
         => result.shown # None
    /\ result.outcome.full =>
         \/ result.shown # None
         \/ ask.row.level = Ladder!FullReveal
         \/ ask.route = "debug" /\ patched # None
    /\ \A part \in result.tells :
         \/ Gate[part] <= row.level
         \/ row = ask.row /\ Gate[part] <= NextRung
         \/ turn.wants /\ result.shown = None

AgentInv ==
    /\ AgentTypes /\ InOrder /\ VerdictsAreRuns /\ PassedIsLeftAlone
    /\ ClaimsAreRuns /\ AccountOfRung
    /\ SaidToHaveRunRan /\ CreditIsTheirs /\ RevealIsCounted /\ ToldWithinTheRung

-----------------------------------------------------------------------------
(* Codes, verdicts, answers *)

LEMMA CodesAreCodes ==
    /\ Own \in AllCodes /\ Tidy \in AllCodes /\ Ref \in AllCodes /\ Example \in AllCodes
    /\ Patches \subseteq AllCodes /\ Own # Tidy
    /\ None \notin AllCodes /\ None \notin Verdicts \ {None}
    /\ Reported \subseteq Verdicts \ {None, "skipped", "keyboard", "unavailable"}
<1>1. AllCodes \subseteq Nat
      BY SomeAttempts DEF AllCodes, Codes, Own, Tidy, Ref, Example, Patches
<1>2. None \notin AllCodes
      BY <1>1, NoneIsNoCode
<1>3. None \notin {"pass", "fail", "no tests", "unavailable", "skipped", "keyboard"}
      BY NoneIsNoVerdict DEF Ran
<1>4. Own # Tidy
      BY SomeAttempts DEF Own, Tidy
<1> QED BY <1>2, <1>3, <1>4
        DEF AllCodes, Codes, Own, Tidy, Ref, Example, Patches, Reported, Verdicts, Ran

LEMMA OutcomesAreVerdicts ==
    ASSUME NEW c, NEW verdict \in Outcomes(c) PROVE verdict \in Verdicts
BY DEF Outcomes, Ran, Verdicts

\* An answer with nothing but claims tells and shows nothing, and credits nobody.
LEMMA PlainAnswer ==
    ASSUME NEW claims
    PROVE  /\ Answer(claims).claims = claims /\ Answer(claims).tells = {}
           /\ Answer(claims).shown = None /\ Answer(claims).outcome.solved = None
           /\ ~Answer(claims).outcome.full
BY DEF Answer, Silent, NoOutcome

LEMMA SilentSaysNothing ==
    /\ Silent.claims = {} /\ Silent.tells = {} /\ Silent.shown = None
    /\ Silent.outcome.solved = None /\ ~Silent.outcome.full
BY DEF Silent, NoOutcome

LEMMA NothingIsSaid ==
    Nothing.claims = {} /\ Nothing.tells = {} /\ Nothing.shown = None
BY DEF Nothing

LEMMA GatesAreRungs ==
    /\ Told = {"understanding", "mistakes", "brute", "insight", "pseudocode", "complexity"}
    /\ Gate["understanding"] = 0 /\ Gate["mistakes"] = 1 /\ Gate["brute"] = 2
    /\ Gate["insight"] = 3 /\ Gate["pseudocode"] = 4 /\ Gate["complexity"] = 4
    /\ \A part \in Told : Gate[part] \in 0..4
BY DEF Told, Gate

-----------------------------------------------------------------------------
(* The rung *)

LEMMA RungOfTurn ==
    ASSUME ask \in Ask, ask.row \in Ladder!Row
    PROVE  /\ NextRung \in Ladder!HintLevel
           /\ Rung.level \in Ladder!HintLevel /\ Rung.ceiling \in Ladder!HintLevel
           /\ Rung.outcome = "shown" =>
                /\ Rung.level = Ladder!FullReveal /\ NextRung = Ladder!FullReveal
                /\ ask.assistance = Ladder!Full /\ solution # None
           /\ Rung.outcome # "shown" /\ Rung.level = Ladder!FullReveal
                => Read.level = Ladder!FullReveal
           /\ Read.level = Ladder!FullReveal => ask.row.level = Ladder!FullReveal
           /\ \/ Rung.level = NextRung
              \/ ask.assistance = Ladder!Full /\ Rung.outcome = "missing"
              \/ Rung.level >= 5
<1> USE DEF Ladder!HintLevel, Ladder!FullReveal, Ladder!Unset, Ladder!Full, Ladder!Hint
<1>1. ask.assistance \in 0..4 /\ Read.level \in -1..6 /\ Read.ceiling \in -1..6
  <2>1. ask.assistance \in Levels
        BY DEF Ask
  <2>2. ask.assistance \in 0..4
        BY <2>1, RowsAreRows DEF Ladder!Assistance
  <2>3. Read \in Ladder!Row
        BY DEF Read, Ladder!Row, Ladder!NoRow
  <2> QED BY <2>2, <2>3 DEF Ladder!Row
<1>12. Read.level = 6 => ask.row.level = 6
      BY DEF Read, Ladder!NoRow
<1>2. Plan.assistance = ask.assistance
      BY DEF Plan
<1> DEFINE ceiling == Ladder!LadderCeiling(Plan, Read)
           level == Ladder!NextLevel(Plan, Read)
<1>3. ceiling \in 0..6 /\ level \in 0..6
      BY <1>1, <1>2 DEF Ladder!LadderCeiling, Ladder!BaseCeiling, Ladder!MaxHintLevel,
         Ladder!NextLevel, Ladder!Lower
<1>4. ask.assistance # 4 /\ level = 6 => Read.level >= 5
      BY <1>1, <1>2, <1>3 DEF Ladder!NextLevel, Ladder!Lower
<1>5. ask.assistance = 4 => level = 6
      BY <1>2 DEF Ladder!NextLevel
<1>6. /\ Rung.outcome \in {"rung", "shown", "missing"}
      /\ Rung.outcome = "rung" => level < 6 /\ Rung.level = level /\ Rung.ceiling = ceiling
      /\ Rung.outcome = "shown" =>
           /\ level >= 6 /\ Rung.level = level /\ Rung.ceiling = ceiling
           /\ ask.assistance = 4 /\ solution # None
      /\ Rung.outcome = "missing" =>
           level >= 6 /\ Rung.level = Ladder!Higher(Read.level, 0)
                      /\ Rung.ceiling = Ladder!Higher(Read.level, 0)
  <2> DEFINE code == level >= 5
             held == Ladder!Higher(Read.level, 0)
  <2>1. CASE level < 6
    <3>1. Rung = [outcome |-> "rung", level |-> level, ceiling |-> ceiling, reveals |-> code]
          BY <2>1 DEF Rung, Ladder!RunDsa
    <3> HIDE DEF level, ceiling, code
    <3> QED BY <2>1, <3>1
  <2>2. CASE ~(level < 6) /\ ask.assistance = 4 /\ solution # None
    <3>1. Rung = [outcome |-> "shown", level |-> level, ceiling |-> ceiling, reveals |-> TRUE]
          BY <1>2, <2>2 DEF Rung, Ladder!RunDsa
    <3>2. level >= 6
          BY <1>3, <2>2
    <3> HIDE DEF level, ceiling
    <3> QED BY <2>2, <3>1, <3>2
  <2>3. CASE ~(level < 6) /\ ~(ask.assistance = 4 /\ solution # None)
    <3>1. Rung = [outcome |-> "missing", level |-> held, ceiling |-> held, reveals |-> FALSE]
          BY <1>2, <2>3 DEF Rung, Ladder!RunDsa
    <3>2. level >= 6
          BY <1>3, <2>3
    <3> HIDE DEF level
    <3> QED BY <3>1, <3>2
  <2> QED BY <2>1, <2>2, <2>3
<1>7. NextRung = level
      BY DEF NextRung
<1> HIDE DEF ceiling, level
<1>8. Ladder!Higher(Read.level, 0) \in 0..6
      BY <1>1 DEF Ladder!Higher
<1>9. /\ Read.level >= 5 => Ladder!Higher(Read.level, 0) = Read.level
      /\ Ladder!Higher(Read.level, 0) = 6 => Read.level = 6
      BY <1>1 DEF Ladder!Higher
<1>10. CASE Rung.outcome = "missing"
  <2>1. Rung.level = Ladder!Higher(Read.level, 0) /\ Rung.ceiling = Rung.level /\ level = 6
        BY <1>3, <1>6, <1>10
  <2>2. ask.assistance = 4 \/ Rung.level >= 5
        BY <1>1, <1>4, <1>9, <2>1
  <2> QED BY <1>3, <1>7, <1>8, <1>9, <1>10, <1>12, <2>1, <2>2
<1>11. CASE Rung.outcome # "missing"
       BY <1>1, <1>3, <1>5, <1>6, <1>7, <1>11, <1>12
<1> QED BY <1>10, <1>11

LEMMA SavedRung ==
    ASSUME ask \in Ask, row \in Ladder!Row, ask.row \in Ladder!Row, NEW verdict \in BOOLEAN
    PROVE  LET saved == Ladder!SaveHintProgress(row, Read, Plan, Rung, verdict)
           IN  saved \in Ladder!Row /\ saved.level = Rung.level
<1> DEFINE saved == Ladder!SaveHintProgress(row, Read, Plan, Rung, verdict)
           verified == Read.verified \/ verdict
           ceiling == IF row.ceiling # Ladder!Unset THEN row.ceiling
                      ELSE IF Plan.capped THEN Ladder!Unset ELSE Rung.ceiling
<1>1. saved = [level |-> Rung.level, verified |-> verified, ceiling |-> ceiling]
      BY DEF Ladder!SaveHintProgress
<1>2. verified \in BOOLEAN
      BY DEF Read, Ladder!Row, Ladder!NoRow
<1>3. ceiling \in Ladder!HintLevel \cup {Ladder!Unset}
      BY RungOfTurn DEF Ladder!Row
<1>4. Rung.level \in Ladder!HintLevel
      BY RungOfTurn
<1> HIDE DEF saved, verified, ceiling
<1>5. saved \in Ladder!Row /\ saved.level = Rung.level
      BY <1>1, <1>2, <1>3, <1>4 DEF Ladder!Row
<1> QED BY <1>5 DEF saved

-----------------------------------------------------------------------------
(* The steps *)

\* A step inside the agent: it has calls made, code run, a verdict or a patch
\* worked out, and hands nothing to the reply.
LEMMA WithinAgent ==
    ASSUME AgentInv, pc \notin Ending, pc' \notin Ending \cup {"start"}, AgentTypes',
           UNCHANGED <<ask, row, solution, result, said>>,
           turn'.wants = turn.wants,
           pc' = "hint" => pc = "hint" /\ insight' = insight,
           pc' # "hint" => insight' = {},
           pc' \in Solving \/ pc' \in {"grade", "step"} => ask.route \in {"dsa", "grade"},
           pc' = "suite" => ask.route \in {"debug", "dsa", "review"},
           pc' = "grade" => ask.route = "grade",
           pc' = "asked" => ask.route = "debug",
           pc' \in {"debug", "explain"} \cup Debugging => ask.route = "debug",
           pc' \notin Debugging => patched' = None /\ ~found' /\ presented' = None /\ attempts' = 0,
           pc' = "patch" => attempts' < MaxPatchAttempts,
           ran \subseteq ran',
           VerdictsAreRuns', PassedIsLeftAlone'
    PROVE  AgentInv'
<1>1. result' = Silent /\ row' = ask'.row /\ said' = Nothing /\ said = Nothing
      BY DEF AgentInv, InOrder, Ending
<1>2. InOrder'
      BY <1>1 DEF AgentInv, InOrder
<1>3. ClaimsAreRuns'
      BY <1>1, SilentSaysNothing DEF ClaimsAreRuns
<1>4. AccountOfRung'
      BY <1>1, SilentSaysNothing DEF AgentInv, AccountOfRung, NextRung, Read, Plan
<1>5. CreditIsTheirs'
      BY <1>1, SilentSaysNothing DEF CreditIsTheirs
<1>6. pc' # "done"
      BY DEF Ending
<1>7. SaidToHaveRunRan' /\ RevealIsCounted' /\ ToldWithinTheRung'
      BY <1>1, <1>6, NothingIsSaid DEF SaidToHaveRunRan, RevealIsCounted, ToldWithinTheRung
<1> QED BY <1>2, <1>3, <1>4, <1>5, <1>7 DEF AgentInv

\* The agent ends with an answer that tells nothing of a solution.
LEMMA AgentAnswers ==
    ASSUME AgentInv, pc \notin Ending, pc' = "execute", AgentTypes',
           UNCHANGED <<turn, ask, row, solution, said>>, insight' \in {insight, {}},
           result'.tells = {}, result'.shown = None,
           result'.outcome.full => ask.route = "debug" /\ patched' # None,
           ran \subseteq ran',
           ClaimsAreRuns', VerdictsAreRuns', PassedIsLeftAlone', CreditIsTheirs'
    PROVE  AgentInv'
<1>1. row' = ask'.row /\ said' = Nothing
      BY DEF AgentInv, InOrder, Ending
<1>2. InOrder'
      BY <1>1 DEF AgentInv, InOrder, Ending, Debugging
<1>3. insight' \subseteq Told
      BY DEF AgentInv, AccountOfRung
<1>4. AccountOfRung'
      BY <1>1, <1>3 DEF AccountOfRung, Ending
<1>5. SaidToHaveRunRan' /\ RevealIsCounted' /\ ToldWithinTheRung'
      BY <1>1, NothingIsSaid DEF SaidToHaveRunRan, RevealIsCounted, ToldWithinTheRung
<1> QED BY <1>2, <1>4, <1>5 DEF AgentInv

-----------------------------------------------------------------------------
(* The steps before the agent answers *)

\* Calls are made and cases found; nothing else happens.
LEMMA CallsKeepInv ==
    ASSUME AgentInv, pc \notin Ending, pc' \notin Ending \cup {"start", "hint"} \cup Debugging,
           pc \notin {"hint"} \cup Debugging,
           UNCHANGED <<initial, work, request, checked, ran, agentVars>>,
           turn' \in Messages, turn'.wants = turn.wants,
           pc' \in Solving \/ pc' \in {"grade", "step"} => ask.route \in {"dsa", "grade"},
           pc' = "suite" => ask.route \in {"debug", "dsa", "review"},
           pc' = "grade" => ask.route = "grade",
           pc' \in {"asked", "debug", "explain"} => ask.route = "debug"
    PROVE  AgentInv'
<1>1. AgentTypes'
      BY DEF AgentInv, AgentTypes, work, agentVars
<1>2. insight' = {} /\ patched' = None /\ ~found' /\ presented' = None /\ attempts' = 0
      BY DEF AgentInv, InOrder, AccountOfRung, work, agentVars
<1>3. VerdictsAreRuns' /\ PassedIsLeftAlone'
      BY DEF AgentInv, VerdictsAreRuns, IsRun, PassedIsLeftAlone, work, agentVars, Debugging
<1> QED BY <1>1, <1>2, <1>3, WithinAgent DEF agentVars, work, Debugging

LEMMA UnderstandKeepsInv == ASSUME AgentInv, Understand PROVE AgentInv'
<1>1. ask.route \in Routes
      BY DEF AgentInv, AgentTypes, Ask
<1>2. /\ pc' = StartOf(ask.route) /\ pc = "start"
      /\ UNCHANGED <<turn, initial, work, request, checked, ran, agentVars>>
      BY DEF Understand
<1>3. /\ pc' \in {"asked", "suite", "ground", "grade", "code", "discuss", "quiz", "exercise"}
      /\ pc' = "suite" => ask.route \in {"dsa", "review"}
      /\ pc' = "grade" => ask.route = "grade"
      /\ pc' = "asked" => ask.route = "debug"
      BY <1>1, <1>2 DEF StartOf, Routes
<1> QED BY <1>2, <1>3, CallsKeepInv DEF Ending, Debugging, Solving, AgentInv, AgentTypes

LEMMA ResolveSuiteKeepsInv == ASSUME AgentInv, ResolveSuite PROVE AgentInv'
<1>1. /\ pc = "suite" /\ ask.route \in {"debug", "dsa", "review"}
      /\ UNCHANGED <<initial, work, request, checked, ran, agentVars>>
      BY DEF ResolveSuite, AgentInv, InOrder
<1>2. turn' \in Messages /\ turn'.wants = turn.wants
      BY DEF ResolveSuite, AgentInv, AgentTypes, Messages
<1>3. /\ pc' \in {"debug", "reference", "review"}
      /\ pc' = "reference" => ask.route = "dsa"
      /\ pc' = "debug" => ask.route = "debug"
      BY <1>1 DEF ResolveSuite
<1> QED BY <1>1, <1>2, <1>3, CallsKeepInv DEF Ending, Debugging, Solving

LEMMA ExplainingKeepsInv == ASSUME AgentInv, Ground \/ Open PROVE AgentInv'
<1>1. /\ pc \in {"ground", "open"} /\ pc' \in {"examples", "open", "code"}
      /\ UNCHANGED <<turn, initial, work, request, checked, ran, agentVars>>
      BY DEF Ground, Open
<1> QED BY <1>1, CallsKeepInv DEF Ending, Debugging, Solving, AgentInv, AgentTypes

\* A graded answer may raise the level of the plan, and with it what is wanted.
LEMMA GradeKeepsInv == ASSUME AgentInv, GradeAnswer PROVE AgentInv'
<1>1. /\ pc = "grade" /\ ask.route = "grade"
      /\ UNCHANGED <<initial, work, request, checked, ran, row, solution, insight, result, said>>
      BY DEF GradeAnswer, AgentInv, InOrder
<1>2. CASE pc' = "step" /\ UNCHANGED <<turn, ask>>
      BY <1>1, <1>2, CallsKeepInv DEF Ending, Debugging, Solving, AgentInv, AgentTypes, agentVars
<1>3. ASSUME pc' = "reference", NEW after \in Levels,
             ask' = [ask EXCEPT !.assistance = after],
             turn' = [turn EXCEPT !.wants = after = Ladder!Full]
      PROVE  AgentInv'
  <2>1. ask' \in Ask /\ ask'.row = ask.row /\ ask'.route = ask.route /\ ask'.assistance = after
        BY <1>3 DEF AgentInv, AgentTypes, Ask
  <2>2. turn' \in Messages
        BY <1>3 DEF AgentInv, AgentTypes, Messages
  <2>3. turn'.wants <=> after = Ladder!Full
        BY <1>3 DEF AgentInv, AgentTypes, Messages
  <2>4. AgentTypes'
        BY <1>1, <2>1, <2>2 DEF AgentInv, AgentTypes, work
  <2>5. result = Silent /\ row = ask.row /\ said = Nothing /\ insight = {}
        /\ patched = None /\ ~found /\ presented = None /\ attempts = 0
        BY <1>1 DEF AgentInv, InOrder, AccountOfRung, Ending, Debugging
  <2>6. InOrder'
        BY <1>1, <1>3, <2>1, <2>3, <2>5 DEF InOrder, Solving, Debugging, work
  <2>7. VerdictsAreRuns' /\ PassedIsLeftAlone' /\ ClaimsAreRuns' /\ CreditIsTheirs'
        BY <1>1, <1>3 DEF AgentInv, VerdictsAreRuns, IsRun, PassedIsLeftAlone, ClaimsAreRuns,
           CreditIsTheirs, work
  <2>8. AccountOfRung'
        BY <1>1, <1>3, <2>1, <2>5, SilentSaysNothing DEF AccountOfRung
  <2>9. SaidToHaveRunRan' /\ RevealIsCounted' /\ ToldWithinTheRung'
        BY <1>1, <1>3, <2>5, NothingIsSaid DEF SaidToHaveRunRan, RevealIsCounted, ToldWithinTheRung
  <2> QED BY <2>4, <2>6, <2>7, <2>8, <2>9 DEF AgentInv
<1> QED BY <1>1, <1>2, <1>3 DEF GradeAnswer

-----------------------------------------------------------------------------
(* The solver *)

LEMMA ReferenceKeepsInv == ASSUME AgentInv, VerifiedReference PROVE AgentInv'
<1>1. /\ pc = "reference" /\ pc' = "analysis"
      /\ UNCHANGED <<turn, initial, work, request, checked, ask, row, insight, result, said>>
      BY DEF VerifiedReference
<1>2. /\ ran \subseteq ran' /\ ran' \subseteq ran \cup {<<Ref, "pass">>}
      /\ solution' = "verified" => <<Ref, "pass">> \in ran'
  <2>1. CASE solution' = None /\ UNCHANGED ran
        BY <2>1, NoneIsNoVerdict
  <2>2. ASSUME NEW candidate, solution' = candidate,
               IF candidate = "verified" THEN ran' = ran \cup {<<Ref, "pass">>} ELSE UNCHANGED ran
        PROVE  /\ ran \subseteq ran' /\ ran' \subseteq ran \cup {<<Ref, "pass">>}
               /\ solution' = "verified" => <<Ref, "pass">> \in ran'
        BY <2>2
  <2> QED BY <2>1, <2>2 DEF VerifiedReference
<1>3. AgentTypes'
  <2>1. <<Ref, "pass">> \in AllCodes \X Verdicts
        BY CodesAreCodes DEF Verdicts, Ran
  <2> QED BY <1>1, <1>2, <2>1 DEF AgentInv, AgentTypes, work
<1>4. result = Silent /\ row = ask.row /\ said = Nothing /\ insight = {}
      /\ patched = None /\ ~found /\ presented = None /\ attempts = 0
      BY <1>1 DEF AgentInv, InOrder, AccountOfRung, Ending, Debugging
<1>5. InOrder'
      BY <1>1, <1>4 DEF AgentInv, InOrder, Ending, Solving, Debugging, work
<1>6. VerdictsAreRuns' /\ PassedIsLeftAlone' /\ ClaimsAreRuns' /\ CreditIsTheirs'
  <2>1. VerdictsAreRuns'
        BY <1>1, <1>2 DEF AgentInv, VerdictsAreRuns, IsRun, work
  <2> QED BY <1>1, <1>4, <2>1, SilentSaysNothing
          DEF AgentInv, PassedIsLeftAlone, ClaimsAreRuns, CreditIsTheirs, work
<1>7. AccountOfRung'
      BY <1>1, <1>4, SilentSaysNothing DEF AccountOfRung
<1>8. SaidToHaveRunRan' /\ RevealIsCounted' /\ ToldWithinTheRung'
      BY <1>1, <1>4, NothingIsSaid DEF SaidToHaveRunRan, RevealIsCounted, ToldWithinTheRung
<1> QED BY <1>3, <1>5, <1>6, <1>7, <1>8 DEF AgentInv

LEMMA AnalyseKeepsInv == ASSUME AgentInv, Analyse PROVE AgentInv'
<1>1. /\ pc = "analysis" /\ pc' = "hint"
      /\ UNCHANGED <<turn, initial, work, request, checked, ran, ask, row, result, said>>
      BY DEF Analyse
<1>2. result = Silent /\ row = ask.row /\ said = Nothing /\ insight = {}
      /\ patched = None /\ ~found /\ presented = None /\ attempts = 0
      BY <1>1 DEF AgentInv, InOrder, AccountOfRung, Ending, Debugging
<1>3. /\ solution' = "verified" => solution = "verified"
      /\ insight' \subseteq Fields
      BY <1>2 DEF Analyse, AnalyseProblem
<1>4. AgentTypes'
      BY <1>1 DEF AgentInv, AgentTypes, work
<1>5. InOrder'
      BY <1>1, <1>2 DEF AgentInv, InOrder, Ending, Solving, Debugging, work
<1>6. VerdictsAreRuns' /\ PassedIsLeftAlone' /\ ClaimsAreRuns' /\ CreditIsTheirs'
      BY <1>1, <1>2, <1>3, SilentSaysNothing DEF AgentInv, VerdictsAreRuns, IsRun,
         PassedIsLeftAlone, ClaimsAreRuns, CreditIsTheirs, work
<1>7. AccountOfRung'
  <2>1. NextRung' = NextRung
        BY <1>1 DEF NextRung, Read, Plan
  <2> QED BY <1>1, <1>2, <1>3, <2>1, SilentSaysNothing DEF AccountOfRung, Fields
<1>8. SaidToHaveRunRan' /\ RevealIsCounted' /\ ToldWithinTheRung'
      BY <1>1, <1>2, NothingIsSaid DEF SaidToHaveRunRan, RevealIsCounted, ToldWithinTheRung
<1> QED BY <1>4, <1>5, <1>6, <1>7, <1>8 DEF AgentInv

\* The verdict on the learner's own code is what a run came to, or what it was.
LEMMA OwnRun ==
    ASSUME AgentInv, \/ UNCHANGED <<initial, ran>>
                     \/ \E verdict \in Outcomes(Own) : Runs(Own, verdict) /\ initial' = verdict
    PROVE  /\ initial' \in Verdicts
           /\ ran \subseteq ran' /\ ran' \subseteq AllCodes \X Verdicts
           /\ initial' \in Reported => <<Own, initial'>> \in ran'
<1>1. CASE UNCHANGED <<initial, ran>>
      BY <1>1 DEF AgentInv, AgentTypes, VerdictsAreRuns, IsRun
<1>2. ASSUME NEW verdict \in Outcomes(Own), Runs(Own, verdict), initial' = verdict
      PROVE  /\ initial' \in Verdicts
             /\ ran \subseteq ran' /\ ran' \subseteq AllCodes \X Verdicts
             /\ initial' \in Reported => <<Own, initial'>> \in ran'
      BY <1>2, OutcomesAreVerdicts, CodesAreCodes DEF Runs, AgentInv, AgentTypes
<1> QED BY <1>1, <1>2


\* The fields of what the solver hands over.
LEMMA HintHandsOver ==
    ASSUME NEW rung
    PROVE  LET hint == HintAnswer(rung) IN
           /\ hint.claims = IF rung.outcome = "shown" /\ solution = "verified"
                            THEN {<<Ref, "pass">>} ELSE {}
           /\ hint.shown = IF rung.outcome = "shown" THEN Ref ELSE None
           /\ hint.tells = insight \cup About(rung)
           /\ hint.outcome.solved = Solved(initial')
           /\ hint.outcome.full <=> rung.level = Ladder!FullReveal
<1> DEFINE claims == IF rung.outcome = "shown" /\ solution = "verified"
                     THEN {<<Ref, "pass">>} ELSE {}
           shown == IF rung.outcome = "shown" THEN Ref ELSE None
           tells == insight \cup About(rung)
           top == rung.level = Ladder!FullReveal
           outcome == [solved |-> Solved(initial'), full |-> top]
<1>1. HintAnswer(rung) = [Answer(claims) EXCEPT !.shown = shown, !.tells = tells,
                                                !.outcome = outcome]
      BY DEF HintAnswer, Surfaced, DsaOutcome
<1>3. outcome.solved = Solved(initial') /\ (outcome.full <=> top)
  <2>1. outcome.full = top
        BY Zenon
  <2> QED BY <2>1
<1> HIDE DEF claims, shown, tells, outcome
<1>4. /\ HintAnswer(rung).claims = claims /\ HintAnswer(rung).shown = shown
      /\ HintAnswer(rung).tells = tells /\ HintAnswer(rung).outcome = outcome
      BY <1>1 DEF Answer, Silent
<1> QED BY <1>3, <1>4 DEF claims, shown, tells, top

LEMMA DsaAgentKeepsInv == ASSUME AgentInv, DsaAgent PROVE AgentInv'
<1>1. /\ pc = "hint" /\ pc' = "execute" /\ insight' = {}
      /\ UNCHANGED <<turn, calls, work, checked, ask, solution, said>>
      BY DEF DsaAgent
<1>2. /\ result = Silent /\ row = ask.row /\ said = Nothing
      /\ patched = None /\ ~found /\ ask.route \in {"dsa", "grade"}
      /\ turn.wants <=> ask.assistance = Ladder!Full
      /\ insight \subseteq Told /\ \A part \in insight : Gate[part] <= NextRung
      /\ ask \in Ask /\ row \in Ladder!Row
      BY <1>1 DEF AgentInv, InOrder, AccountOfRung, Ending, Debugging, Solving, AgentTypes
<1>3. /\ initial' \in Verdicts
      /\ ran \subseteq ran' /\ ran' \subseteq AllCodes \X Verdicts
      /\ initial' \in Reported => <<Own, initial'>> \in ran'
  <2>1. \/ UNCHANGED <<initial, ran>>
        \/ \E verdict \in Outcomes(Own) : Runs(Own, verdict) /\ initial' = verdict
        BY DEF DsaAgent, RunLearnersCode
  <2> QED BY <2>1, OwnRun
<1>4. request' \in AllCodes \cup {None}
      BY CodesAreCodes DEF DsaAgent, DsaRequests
<1>5. VerdictsAreRuns' /\ PassedIsLeftAlone'
  <2>1. presented # Tidy
        BY <1>1, CodesAreCodes DEF AgentInv, InOrder, Ending, Debugging
  <2> QED BY <1>1, <1>2, <1>3, <2>1 DEF AgentInv, VerdictsAreRuns, IsRun, PassedIsLeftAlone, work
<1>6. Solved(initial') # None => /\ <<Own, Solved(initial')>> \in ran'
                                 /\ patched' = None
      BY <1>1, <1>2, <1>3 DEF Solved, Reported, work
<1>7. CASE ask.solved
  <2>1. /\ row' = row
        /\ result' = [Silent EXCEPT !.outcome = [NoOutcome EXCEPT !.solved = Solved(initial')]]
        BY <1>7 DEF DsaAgent
  <2>2. /\ result'.tells = {} /\ result'.shown = None /\ result'.claims = {}
        /\ result'.outcome.solved = Solved(initial') /\ ~result'.outcome.full
        BY <2>1 DEF Silent, NoOutcome
  <2>3. AgentTypes'
        BY <1>1, <1>3, <1>4, <2>1 DEF AgentInv, AgentTypes, work
  <2>4. ClaimsAreRuns' /\ CreditIsTheirs'
        BY <1>6, <2>2 DEF ClaimsAreRuns, CreditIsTheirs
  <2> QED BY <1>1, <1>3, <1>5, <2>1, <2>2, <2>3, <2>4, AgentAnswers DEF Ending
<1>8. CASE ~ask.solved
  <2> DEFINE hint == HintAnswer(Rung)
             verdict == HasVerdict
  <2>1. /\ result' = hint
        /\ row' \in {row, Ladder!SaveHintProgress(row, Read, Plan, Rung, verdict)}
        BY <1>8 DEF DsaAgent
  <2>2. /\ hint.claims = IF Rung.outcome = "shown" /\ solution = "verified"
                         THEN {<<Ref, "pass">>} ELSE {}
        /\ hint.shown = IF Rung.outcome = "shown" THEN Ref ELSE None
        /\ hint.tells = insight \cup About(Rung)
        /\ hint.outcome.solved = Solved(initial')
        /\ hint.outcome.full <=> Rung.level = Ladder!FullReveal
        BY HintHandsOver
  <2>3. verdict \in BOOLEAN
        BY DEF HasVerdict
  <2> HIDE DEF hint, verdict
  <2>4. row' \in Ladder!Row /\ (row' = row \/ row'.level = Rung.level)
        BY <1>2, <2>1, <2>3, SavedRung
  <2>5. AgentTypes'
        BY <1>1, <1>3, <1>4, <2>4 DEF AgentInv, AgentTypes, work
  <2>6. InOrder'
        BY <1>1, <1>2 DEF AgentInv, InOrder, Ending, Solving, Debugging, work
  <2>7. ClaimsAreRuns' /\ CreditIsTheirs'
    <3>1. result'.claims \subseteq ran'
          BY <1>3, <2>1, <2>2 DEF AgentInv, VerdictsAreRuns
    <3>2. result'.claims \subseteq AllCodes \X Verdicts
          BY <1>3, <3>1
    <3> QED BY <1>6, <2>1, <2>2, <3>1, <3>2 DEF ClaimsAreRuns, CreditIsTheirs
  <2>8. AccountOfRung'
    <3>1. /\ Rung.level \in 0..6 /\ NextRung \in 0..6
          /\ Rung.outcome = "shown" => /\ Rung.level = 6 /\ NextRung = 6
                                       /\ ask.assistance = Ladder!Full /\ solution # None
          /\ Rung.outcome # "shown" /\ Rung.level = 6 => ask.row.level = 6
          /\ \/ Rung.level = NextRung
             \/ ask.assistance = Ladder!Full /\ Rung.outcome = "missing"
             \/ Rung.level >= 5
          BY <1>2, RungOfTurn DEF Ladder!HintLevel, Ladder!FullReveal
    <3>2. ASSUME NEW part \in result'.tells
          PROVE  /\ part \in Told
                 /\ \/ Gate[part] <= row'.level
                    \/ row' = ask.row /\ Gate[part] <= NextRung
                    \/ turn.wants /\ result'.shown = None
      <4>1. part \in insight \cup About(Rung) /\ part \in Told /\ Gate[part] \in 0..4
        <5>1. part \in insight \cup About(Rung)
              BY <2>1, <2>2, <3>2
        <5> QED BY <1>2, <5>1, GatesAreRungs DEF About
      <4>2. Gate[part] <= NextRung
        <5>1. CASE part \in insight
              BY <1>2, <5>1
        <5>2. CASE Rung.outcome = "shown"
              BY <3>1, <4>1, <5>2
        <5> QED BY <4>1, <5>1, <5>2 DEF About
      <4>3. CASE row' = row
            BY <1>2, <4>1, <4>2, <4>3
      <4>4. CASE row'.level = Rung.level
            BY <1>2, <2>1, <2>2, <3>1, <4>1, <4>2, <4>4
      <4> QED BY <2>4, <4>1, <4>3, <4>4
    <3>3. NextRung' = NextRung \/ row' # row
          BY <1>1 DEF NextRung, Read, Plan
    <3>4. /\ result'.shown \in {None, Ref}
          /\ result'.shown # None => /\ turn.wants /\ result'.outcome.full
                                     /\ row'.level = Ladder!FullReveal \/ row' = ask.row
          BY <1>2, <2>1, <2>2, <2>4, <3>1 DEF Ladder!FullReveal
    <3>5. row'.level = Ladder!FullReveal /\ ask.row.level # Ladder!FullReveal => result'.shown # None
      <4>1. Ref # None
            BY CodesAreCodes
      <4> QED BY <1>2, <2>1, <2>2, <2>4, <3>1, <4>1 DEF Ladder!FullReveal
    <3>6. result'.outcome.full => result'.shown # None \/ ask.row.level = Ladder!FullReveal
      <4>1. Ref # None
            BY CodesAreCodes
      <4> QED BY <2>1, <2>2, <3>1, <4>1 DEF Ladder!FullReveal
    <3> QED BY <1>1, <1>2, <3>2, <3>3, <3>4, <3>5, <3>6 DEF AccountOfRung, Ending
  <2>9. SaidToHaveRunRan' /\ RevealIsCounted' /\ ToldWithinTheRung'
        BY <1>1, <1>2, NothingIsSaid DEF SaidToHaveRunRan, RevealIsCounted, ToldWithinTheRung
  <2> QED BY <1>5, <2>5, <2>6, <2>7, <2>8, <2>9 DEF AgentInv
<1> QED BY <1>7, <1>8

-----------------------------------------------------------------------------
(* The other agents *)

\* An answer that makes claims about runs of this turn and credits nobody.
LEMMA PlainAnswerKeepsInv ==
    ASSUME AgentInv, pc \notin Ending, pc' = "execute",
           UNCHANGED <<turn, initial, work, request, checked, ask, row, solution, insight, said>>,
           NEW runs, runs \subseteq AllCodes \X Verdicts, ran' = ran \cup runs,
           result'.tells = {}, result'.shown = None, result'.outcome.solved = None,
           ~result'.outcome.full,
           result'.claims \subseteq ran', pc # "rerun"
    PROVE  AgentInv'
<1>1. AgentTypes'
      BY DEF AgentInv, AgentTypes, work
<1>2. ClaimsAreRuns'
      BY <1>1 DEF ClaimsAreRuns, AgentTypes
<1>3. VerdictsAreRuns' /\ PassedIsLeftAlone' /\ CreditIsTheirs'
      BY DEF AgentInv, VerdictsAreRuns, IsRun, PassedIsLeftAlone, CreditIsTheirs, work
<1>4. ran \subseteq ran'
      OBVIOUS
<1> QED BY <1>1, <1>2, <1>3, <1>4, AgentAnswers

LEMMA SpokenStepKeepsInv == ASSUME AgentInv, SpokenStep PROVE AgentInv'
<1>1. ran' = ran \cup {} /\ result' = Answer({})
      BY DEF SpokenStep
<1> QED BY <1>1, PlainAnswer, PlainAnswerKeepsInv DEF SpokenStep, Ending

LEMMA TalkKeepsInv == ASSUME AgentInv, Talk PROVE AgentInv'
<1>1. ran' = ran \cup {} /\ result' = Answer({})
      BY DEF Talk
<1> QED BY <1>1, PlainAnswer, PlainAnswerKeepsInv DEF Talk, Discuss, Quiz, Exercise, Ending

LEMMA RunExplainKeepsInv == ASSUME AgentInv, RunExplain PROVE AgentInv'
<1>1. ran' = ran \cup {} /\ result' \in {Answer({}), Silent}
      BY DEF RunExplain
<1> QED BY <1>1, PlainAnswer, SilentSaysNothing, PlainAnswerKeepsInv DEF RunExplain, Ending

LEMMA RunExamplesKeepsInv == ASSUME AgentInv, RunExamples PROVE AgentInv'
<1>1. <<Example, "no tests">> \in AllCodes \X Verdicts
      BY CodesAreCodes DEF Verdicts, Ran
<1>2. CASE result' = Answer({}) /\ UNCHANGED ran
  <2>1. ran' = ran \cup {}
        BY <1>2
  <2> QED BY <1>2, <2>1, PlainAnswer, PlainAnswerKeepsInv DEF RunExamples, Ending
<1>3. CASE /\ ran' = ran \cup {<<Example, "no tests">>}
           /\ result' = Answer({<<Example, "no tests">>})
      BY <1>1, <1>3, PlainAnswer, PlainAnswerKeepsInv DEF RunExamples, Ending
<1> QED BY <1>2, <1>3 DEF RunExamples

LEMMA AboutOwnCode ==
    ASSUME NEW verdict
    PROVE  LET answer == AboutCode(verdict) IN
           /\ answer.tells = {} /\ answer.shown = None /\ answer.outcome.solved = None
           /\ ~answer.outcome.full
           /\ answer.claims \subseteq {<<Own, verdict>>}
<1> DEFINE claims == Claimed({<<Own, verdict>>})
<1>1. claims \subseteq {<<Own, verdict>>}
      BY DEF Claimed
<1>2. AboutCode(verdict) = [Answer(claims) EXCEPT !.aboutCode = TRUE]
      BY DEF AboutCode
<1> HIDE DEF claims
<1>3. /\ AboutCode(verdict).tells = {} /\ AboutCode(verdict).shown = None
      /\ AboutCode(verdict).outcome = NoOutcome /\ AboutCode(verdict).claims = claims
      BY <1>2 DEF Answer, Silent
<1> QED BY <1>1, <1>3 DEF NoOutcome

LEMMA CodeAnswerKeepsInv == ASSUME AgentInv, CodeAnswer PROVE AgentInv'
<1>1. /\ pc = "code"
      /\ UNCHANGED <<turn, initial, work, request, checked, ask, row, solution, insight, said>>
      BY DEF CodeAnswer
<1>2. CASE pc' = "explained" /\ UNCHANGED <<ran, result>>
      BY <1>1, <1>2, CallsKeepInv
         DEF Ending, Debugging, Solving, AgentInv, AgentTypes, agentVars
<1>3. ASSUME NEW verdict \in ScriptOutcomes, ran' = ran \cup {<<Own, verdict>>},
             \/ pc' = "execute" /\ result' = AboutCode(verdict)
             \/ pc' = "explained" /\ UNCHANGED result
      PROVE  AgentInv'
  <2>1. {<<Own, verdict>>} \subseteq AllCodes \X Verdicts
    <3>1. verdict \in Verdicts
          BY <1>3 DEF ScriptOutcomes, Verdicts, Ran
    <3> QED BY <3>1, CodesAreCodes
  <2>2. CASE pc' = "execute" /\ result' = AboutCode(verdict)
        BY <1>1, <1>3, <2>1, <2>2, AboutOwnCode, PlainAnswerKeepsInv DEF Ending
  <2>3. CASE pc' = "explained" /\ UNCHANGED result
    <3>1. AgentTypes'
          BY <1>1, <1>3, <2>1 DEF AgentInv, AgentTypes, work
    <3>2. VerdictsAreRuns' /\ PassedIsLeftAlone'
          BY <1>1, <1>3 DEF AgentInv, VerdictsAreRuns, IsRun, PassedIsLeftAlone, work
    <3>3. insight' = {} /\ patched' = None /\ ~found' /\ presented' = None /\ attempts' = 0
          BY <1>1 DEF AgentInv, InOrder, AccountOfRung, work, Ending, Debugging
    <3> QED BY <1>1, <1>3, <2>3, <3>1, <3>2, <3>3, WithinAgent DEF Ending, Debugging, Solving
  <2> QED BY <1>3, <2>2, <2>3
<1> QED BY <1>2, <1>3 DEF CodeAnswer

\* A review credits the learner with what their code did in its run.
LEMMA ReviewKeepsInv == ASSUME AgentInv, Review PROVE AgentInv'
<1>1. /\ pc = "review" /\ pc' = "execute"
      /\ UNCHANGED <<turn, work, checked, ask, row, solution, insight, said>>
      BY DEF Review
<1>2. /\ initial' \in Verdicts
      /\ ran \subseteq ran' /\ ran' \subseteq AllCodes \X Verdicts
      /\ initial' \in Reported => <<Own, initial'>> \in ran'
  <2>1. \/ UNCHANGED <<initial, ran>>
        \/ \E verdict \in Outcomes(Own) : Runs(Own, verdict) /\ initial' = verdict
        BY DEF Review, Correctness
  <2> QED BY <2>1, OwnRun
<1>3. request' \in AllCodes \cup {None}
      BY CodesAreCodes DEF Review, Correctness, AgentInv, AgentTypes
<1>4. patched = None /\ ~found /\ presented # Tidy
      BY <1>1, CodesAreCodes DEF AgentInv, InOrder, Ending, Debugging
<1>5. VerdictsAreRuns' /\ PassedIsLeftAlone'
      BY <1>1, <1>2, <1>4 DEF AgentInv, VerdictsAreRuns, IsRun, PassedIsLeftAlone, work
<1> DEFINE claims == ReviewClaims
           outcome == [NoOutcome EXCEPT !.solved = Solved(initial')]
<1>6. claims \subseteq ran'
      BY <1>2 DEF ReviewClaims, Claimed
<1>7. outcome.solved = Solved(initial') /\ ~outcome.full
      BY DEF NoOutcome
<1>8. result' = [Answer(claims) EXCEPT !.outcome = outcome]
      BY DEF Review, ReviewAnswer
<1> HIDE DEF claims, outcome
<1>9. /\ result'.tells = {} /\ result'.shown = None /\ result'.claims = claims
      /\ result'.outcome = outcome
      BY <1>8 DEF Answer, Silent
<1>10. AgentTypes'
       BY <1>1, <1>2, <1>3 DEF AgentInv, AgentTypes, work
<1>11. ClaimsAreRuns' /\ CreditIsTheirs'
       BY <1>1, <1>2, <1>4, <1>6, <1>7, <1>9
          DEF ClaimsAreRuns, CreditIsTheirs, Solved, Reported, work
<1> QED BY <1>1, <1>2, <1>5, <1>7, <1>9, <1>10, <1>11, AgentAnswers DEF Ending

-----------------------------------------------------------------------------
(* The debugger *)

LEMMA DebuggersTurn ==
    ASSUME AgentInv, pc \in {"debug", "explain"} \cup Debugging PROVE ask.route = "debug"
BY DEF AgentInv, InOrder, Debugging

LEMMA PatchesAreCodes ==
    \A c \in Patches : c \in AllCodes /\ c # None /\ c \in Nat
BY CodesAreCodes, SomeAttempts DEF Patches

LEMMA DebugKeepsInv == ASSUME AgentInv, Debug, UNCHANGED agentVars PROVE AgentInv'
<1>1. /\ pc = "asked" /\ pc' = "suite"
      /\ UNCHANGED <<turn, initial, work, request, checked, ran>>
      BY DEF Debug
<1>2. ask.route = "debug"
      BY <1>1 DEF AgentInv, InOrder
<1> QED BY <1>1, <1>2, CallsKeepInv DEF Ending, Debugging, Solving, AgentInv, AgentTypes

LEMMA RunTestsKeepsInv == ASSUME AgentInv, RunTests, UNCHANGED agentVars PROVE AgentInv'
<1>1. pc = "debug" /\ pc' = "explain" /\ UNCHANGED <<turn, work, checked, agentVars>>
      BY DEF RunTests
<1>2. patched = None /\ ~found /\ presented = None /\ attempts = 0 /\ insight = {}
      BY <1>1 DEF AgentInv, InOrder, AccountOfRung, Ending, Debugging
<1>3. presented # Tidy
      BY <1>2, CodesAreCodes
<1>4. /\ initial' \in Verdicts /\ request' \in AllCodes \cup {None}
      /\ ran \subseteq ran' /\ ran' \subseteq AllCodes \X Verdicts
      /\ initial' \in Reported => <<Own, initial'>> \in ran'
  <2>1. CASE turn.code
    <3>1. \E verdict \in Outcomes(Own) : Runs(Own, verdict) /\ initial' = verdict
          BY <2>1 DEF RunTests
    <3>2. request' \in AllCodes \cup {None}
          BY <2>1, CodesAreCodes DEF RunTests
    <3> QED BY <3>1, <3>2, OwnRun
  <2>2. CASE ~turn.code
        BY <2>2, CodesAreCodes DEF RunTests, AgentInv, AgentTypes, Verdicts
  <2> QED BY <2>1, <2>2
<1>5. AgentTypes'
      BY <1>1, <1>4 DEF AgentInv, AgentTypes, work, agentVars
<1>6. VerdictsAreRuns' /\ PassedIsLeftAlone'
      BY <1>1, <1>2, <1>3, <1>4
         DEF AgentInv, VerdictsAreRuns, IsRun, PassedIsLeftAlone, work, agentVars
<1> QED BY <1>1, <1>2, <1>4, <1>5, <1>6, DebuggersTurn, WithinAgent
        DEF Ending, Debugging, Solving, work, agentVars

LEMMA ExplainKeepsInv == ASSUME AgentInv, Explain, UNCHANGED agentVars PROVE AgentInv'
<1>1. /\ pc = "explain" /\ pc' = "patch"
      /\ UNCHANGED <<turn, initial, patched, final, attempts, presented, request, checked, ran>>
      BY DEF Explain
<1>2. patched = None /\ ~found /\ attempts = 0 /\ insight = {}
      BY <1>1 DEF AgentInv, InOrder, AccountOfRung, Ending, Debugging
<1>3. initial = "pass" => ~found'
      BY <1>2 DEF Explain, ReadCode
<1>4. AgentTypes' /\ attempts' < MaxPatchAttempts
      BY <1>1, <1>2, SomeAttempts DEF AgentInv, AgentTypes, agentVars
<1>5. VerdictsAreRuns' /\ PassedIsLeftAlone'
      BY <1>1, <1>2, <1>3 DEF AgentInv, VerdictsAreRuns, IsRun, PassedIsLeftAlone, agentVars
<1> QED BY <1>1, <1>2, <1>4, <1>5, DebuggersTurn, WithinAgent DEF Ending, Debugging, Solving, agentVars

LEMMA PatchKeepsInv == ASSUME AgentInv, Patch, UNCHANGED agentVars PROVE AgentInv'
<1>1. /\ pc = "patch" /\ pc' = "rerun"
      /\ UNCHANGED <<turn, initial, found, final, presented, request, checked, ran>>
      BY DEF Patch
<1>2. insight = {}
      BY <1>1 DEF AgentInv, AccountOfRung, Ending
<1>3. patched' \in Patches \cup {None} /\ attempts' \in Nat
  <2>1. attempts < MaxPatchAttempts /\ attempts \in Nat
        BY <1>1 DEF AgentInv, InOrder, AgentTypes
  <2> QED BY <2>1, SomeAttempts DEF Patch, Patches
<1>4. initial = "pass" => patched' = None
      BY DEF Patch, Established, FixAskedForAReadBug, AgentInv, PassedIsLeftAlone
<1>5. AgentTypes'
      BY <1>1, <1>3 DEF AgentInv, AgentTypes, agentVars
<1>6. VerdictsAreRuns' /\ PassedIsLeftAlone'
      BY <1>1, <1>4 DEF AgentInv, VerdictsAreRuns, IsRun, PassedIsLeftAlone, agentVars
<1> QED BY <1>1, <1>2, <1>5, <1>6, DebuggersTurn, WithinAgent DEF Ending, Debugging, Solving, agentVars

LEMMA ReRunKeepsInv == ASSUME AgentInv, ReRun, UNCHANGED agentVars PROVE AgentInv'
<1>1. /\ pc = "rerun" /\ pc' \in {"patch", "present"}
      /\ UNCHANGED <<turn, initial, found, patched, attempts, presented, request, checked>>
      /\ pc' = "patch" => attempts' < MaxPatchAttempts
      BY DEF ReRun, PatchAgain
<1>2. insight = {}
      BY <1>1 DEF AgentInv, AccountOfRung, Ending
<1>3. /\ final' \in Verdicts /\ ran \subseteq ran' /\ ran' \subseteq AllCodes \X Verdicts
      /\ final' \in Reported => patched # None /\ <<patched, final'>> \in ran'
  <2>1. CASE patched = None
        BY <2>1, CodesAreCodes DEF ReRun, AgentInv, AgentTypes, Verdicts
  <2>2. CASE patched # None
    <3>1. patched \in AllCodes
          BY <2>2, PatchesAreCodes DEF AgentInv, AgentTypes
    <3>2. PICK verdict \in Outcomes(patched) : Runs(patched, verdict) /\ final' = verdict
          BY <2>2 DEF ReRun
    <3> QED BY <2>2, <3>1, <3>2, OutcomesAreVerdicts DEF Runs, AgentInv, AgentTypes
  <2> QED BY <2>1, <2>2
<1>4. AgentTypes'
      BY <1>1, <1>3 DEF AgentInv, AgentTypes, agentVars
<1>5. VerdictsAreRuns' /\ PassedIsLeftAlone'
      BY <1>1, <1>3 DEF AgentInv, VerdictsAreRuns, IsRun, PassedIsLeftAlone, agentVars
<1> QED BY <1>1, <1>2, <1>3, <1>4, <1>5, DebuggersTurn, WithinAgent DEF Ending, Debugging, Solving, agentVars

LEMMA PresentKeepsInv == ASSUME AgentInv, Present, UNCHANGED agentVars PROVE AgentInv'
<1>1. /\ pc = "present" /\ pc' = "map"
      /\ UNCHANGED <<turn, initial, found, patched, final, attempts, request, checked>>
      BY DEF Present
<1>2. insight = {}
      BY <1>1 DEF AgentInv, AccountOfRung, Ending
<1>3. /\ ran \subseteq ran' /\ ran' \subseteq AllCodes \X Verdicts
      /\ presented' = Tidy => <<Tidy, IF initial = "pass" THEN "pass" ELSE "no tests">> \in ran'
  <2>1. CASE UNCHANGED <<presented, ran>>
        BY <2>1 DEF AgentInv, AgentTypes, VerdictsAreRuns
  <2>2. CASE presented' = Own /\ UNCHANGED ran
        BY <2>2, CodesAreCodes DEF AgentInv, AgentTypes
  <2>3. ASSUME NEW verdict \in Outcomes(Tidy), Runs(Tidy, verdict),
               presented' = IF HeldUp(verdict) THEN Tidy ELSE Own
        PROVE  /\ ran \subseteq ran' /\ ran' \subseteq AllCodes \X Verdicts
               /\ presented' = Tidy
                    => <<Tidy, IF initial = "pass" THEN "pass" ELSE "no tests">> \in ran'
    <3>1. verdict \in Verdicts /\ Tidy \in AllCodes /\ Own # Tidy
          BY <2>3, OutcomesAreVerdicts, CodesAreCodes
    <3>2. HeldUp(verdict) => verdict = IF initial = "pass" THEN "pass" ELSE "no tests"
          BY DEF HeldUp
    <3>3. ran' = ran \cup {<<Tidy, verdict>>} /\ ran \subseteq AllCodes \X Verdicts
          BY <2>3 DEF Runs, AgentInv, AgentTypes
    <3>4. presented' = Tidy => HeldUp(verdict)
          BY <2>3, <3>1
    <3>5. ran' \subseteq AllCodes \X Verdicts
          BY <3>1, <3>3
    <3>6. presented' = Tidy => <<Tidy, IF initial = "pass" THEN "pass" ELSE "no tests">> \in ran'
          BY <3>2, <3>3, <3>4
    <3> QED BY <3>3, <3>5, <3>6
  <2> QED BY <2>1, <2>2, <2>3 DEF Present
<1>4. AgentTypes'
      BY <1>1, <1>3 DEF AgentInv, AgentTypes, agentVars
<1>5. VerdictsAreRuns' /\ PassedIsLeftAlone'
      BY <1>1, <1>3 DEF AgentInv, VerdictsAreRuns, IsRun, PassedIsLeftAlone, agentVars
<1> QED BY <1>1, <1>2, <1>3, <1>4, <1>5, DebuggersTurn, WithinAgent DEF Ending, Debugging, Solving, agentVars

\* Nothing was run: the debugger reads the code, and has nothing to credit.
LEMMA StaticReviewKeepsInv ==
    ASSUME AgentInv, StaticReview, result' = Answer({}), UNCHANGED <<ask, row, solution, insight, said>>
    PROVE  AgentInv'
<1>1. /\ pc = "debug" /\ pc' = "execute" /\ initial' = "skipped" /\ final' = "skipped"
      /\ presented' \in {Own, None}
      /\ UNCHANGED <<turn, found, patched, attempts, request, checked, ran>>
      BY DEF StaticReview
<1>2. presented' # Tidy
      BY <1>1, CodesAreCodes
<1>3. AgentTypes'
      BY <1>1 DEF AgentInv, AgentTypes, Verdicts
<1>4. /\ result'.tells = {} /\ result'.shown = None /\ result'.claims = {}
      /\ result'.outcome.solved = None /\ ~result'.outcome.full
      BY PlainAnswer
<1>5. VerdictsAreRuns' /\ PassedIsLeftAlone' /\ ClaimsAreRuns' /\ CreditIsTheirs'
      BY <1>1, <1>2, <1>4 DEF AgentInv, VerdictsAreRuns, IsRun, PassedIsLeftAlone,
         ClaimsAreRuns, CreditIsTheirs, Reported
<1> QED BY <1>1, <1>3, <1>4, <1>5, AgentAnswers DEF Ending

\* The question about a message that is only code is answered with its output.
LEMMA AnswerQuestionKeepsInv ==
    ASSUME AgentInv, AnswerQuestion, result' = AboutCode("no tests"),
           UNCHANGED <<ask, row, solution, insight, said>>
    PROVE  AgentInv'
<1>1. <<Own, "no tests">> \in AllCodes \X Verdicts
      BY CodesAreCodes DEF Verdicts, Ran
<1>2. /\ pc = "asked" /\ pc' = "execute" /\ ran' = ran \cup {<<Own, "no tests">>}
      /\ UNCHANGED <<turn, initial, work, request, checked>>
      BY DEF AnswerQuestion
<1> QED BY <1>1, <1>2, AboutOwnCode, PlainAnswerKeepsInv DEF Ending

\* What the debugger says was run, was: a patch's pass or clean end counts only
\* for the patch it came from.
LEMMA DebugClaimsAreRuns ==
    ASSUME AgentInv, pc = "map"
    PROVE  DebugClaims \subseteq ran
<1> SUFFICES ASSUME NEW claim \in DebugClaims
             PROVE  claim \in ran
    OBVIOUS
<1>1. /\ claim[2] \in Reported
      /\ \/ claim = <<Own, initial>>
         \/ (Fixed \/ PatchRanClean) /\ claim = <<patched, final>>
         \/ presented = Tidy /\ claim = <<Tidy, IF initial = "pass" THEN "pass" ELSE "no tests">>
      BY DEF DebugClaims, Claimed, TheirsShown
<1>2. CASE claim = <<Own, initial>>
      BY <1>1, <1>2 DEF AgentInv, VerdictsAreRuns, IsRun
<1>3. CASE (Fixed \/ PatchRanClean) /\ claim = <<patched, final>>
      BY <1>1, <1>3 DEF AgentInv, VerdictsAreRuns
<1>4. CASE presented = Tidy /\ claim = <<Tidy, IF initial = "pass" THEN "pass" ELSE "no tests">>
      BY <1>4 DEF AgentInv, VerdictsAreRuns
<1> QED BY <1>1, <1>2, <1>3, <1>4

\* The debugger credits the learner with what their own code did.
LEMMA MapBackKeepsInv ==
    ASSUME AgentInv, MapBack, result' = DebugAnswer, UNCHANGED <<ask, row, solution, insight, said>>
    PROVE  AgentInv'
<1>1. /\ pc = "map" /\ pc' = "execute"
      /\ UNCHANGED <<turn, calls, initial, work, checked, ran>>
      BY DEF MapBack
<1>2. request' \in AllCodes \cup {None}
      BY PatchesAreCodes, CodesAreCodes DEF MapBack, AgentInv, AgentTypes
<1>3. AgentTypes'
      BY <1>1, <1>2 DEF AgentInv, AgentTypes, work
<1> DEFINE claims == DebugClaims
           given == patched # None
           outcome == [solved |-> Solved(initial), full |-> given]
<1>4. claims \subseteq ran
      BY <1>1, DebugClaimsAreRuns
<1>5. result' = [Answer(claims) EXCEPT !.outcome = outcome]
      BY DEF DebugAnswer
<1>6. outcome.solved = Solved(initial) /\ outcome.full = given
      BY Zenon
<1> HIDE DEF claims, outcome
<1>7. /\ result'.tells = {} /\ result'.shown = None /\ result'.claims = claims
      /\ result'.outcome = outcome
      BY <1>5 DEF Answer, Silent
<1>8. VerdictsAreRuns' /\ PassedIsLeftAlone'
      BY <1>1 DEF AgentInv, VerdictsAreRuns, IsRun, PassedIsLeftAlone, work
<1>9. ClaimsAreRuns' /\ CreditIsTheirs'
      BY <1>1, <1>4, <1>6, <1>7 DEF AgentInv, AgentTypes, VerdictsAreRuns, IsRun,
         PassedIsLeftAlone, ClaimsAreRuns, CreditIsTheirs, Solved, Reported, work
<1>10. result'.outcome.full => ask.route = "debug" /\ patched' # None
       BY <1>1, <1>6, <1>7, DebuggersTurn DEF given, Debugging, work
<1> QED BY <1>1, <1>3, <1>7, <1>8, <1>9, <1>10, AgentAnswers DEF Ending

LEMMA DebugAgentKeepsInv == ASSUME AgentInv, DebugAgent PROVE AgentInv'
BY AnswerQuestionKeepsInv, MapBackKeepsInv, StaticReviewKeepsInv, DebugKeepsInv,
   RunTestsKeepsInv, ExplainKeepsInv, PatchKeepsInv, ReRunKeepsInv, PresentKeepsInv
   DEF DebugAgent, DebugGraph

\* An agent that raises hands over nothing; what it ran and stored stands.
LEMMA RaiseKeepsInv == ASSUME AgentInv, Raise PROVE AgentInv'
<1>1. /\ pc \notin Ending /\ pc' = "execute" /\ initial' = None /\ final' = None
      /\ patched' = None /\ presented' = None /\ request' = None /\ result' = Silent
      /\ UNCHANGED <<turn, calls, found, attempts, checked, ran, ask, row, solution, insight, said>>
      BY DEF Raise, Ending
<1>2. None \notin Reported /\ None # Tidy
      BY CodesAreCodes
<1>3. AgentTypes'
      BY <1>1 DEF AgentInv, AgentTypes, Verdicts
<1>4. VerdictsAreRuns' /\ PassedIsLeftAlone' /\ ClaimsAreRuns' /\ CreditIsTheirs'
      BY <1>1, <1>2, SilentSaysNothing DEF AgentInv, VerdictsAreRuns, IsRun, PassedIsLeftAlone,
         ClaimsAreRuns, CreditIsTheirs, Reported
<1> QED BY <1>1, <1>3, <1>4, SilentSaysNothing, AgentAnswers

-----------------------------------------------------------------------------
(* The run made for the reply, and the reply *)

LEMMA ExecuteKeepsInv == ASSUME AgentInv, ExecuteAndVerify PROVE AgentInv'
<1>1. /\ pc = "execute" /\ pc' = "reply"
      /\ UNCHANGED <<turn, calls, initial, work, request, agentVars>>
      BY DEF ExecuteAndVerify, Execute
<1>2. /\ ran \subseteq ran' /\ ran' \subseteq AllCodes \X Verdicts /\ checked' \in Verdicts
      /\ checked' \in Reported => \E c \in AllCodes : <<c, checked'>> \in ran'
  <2>1. CASE UNCHANGED <<checked, ran>>
        BY <2>1 DEF AgentInv, AgentTypes, VerdictsAreRuns
  <2>2. CASE checked' = "unavailable" /\ UNCHANGED ran
        BY <2>2 DEF AgentInv, AgentTypes, Verdicts, Ran, Reported
  <2>3. ASSUME request # None, NEW verdict \in Outcomes(request), Runs(request, verdict),
               checked' = verdict
        PROVE  /\ ran \subseteq ran' /\ ran' \subseteq AllCodes \X Verdicts /\ checked' \in Verdicts
               /\ checked' \in Reported => \E c \in AllCodes : <<c, checked'>> \in ran'
    <3>1. request \in AllCodes /\ verdict \in Verdicts
          BY <2>3, OutcomesAreVerdicts DEF AgentInv, AgentTypes
    <3>2. ran' = ran \cup {<<request, verdict>>} /\ ran \subseteq AllCodes \X Verdicts
          BY <2>3 DEF Runs, AgentInv, AgentTypes
    <3> QED BY <2>3, <3>1, <3>2
  <2> QED BY <2>1, <2>2, <2>3 DEF ExecuteAndVerify, Execute
<1>3. AgentTypes'
      BY <1>1, <1>2 DEF AgentInv, AgentTypes, work, agentVars
<1>4. InOrder'
      BY <1>1 DEF AgentInv, InOrder, Ending, Solving, Debugging, work, agentVars
<1>5. VerdictsAreRuns' /\ PassedIsLeftAlone' /\ ClaimsAreRuns' /\ CreditIsTheirs'
  <2>1. VerdictsAreRuns' /\ PassedIsLeftAlone'
        BY <1>1, <1>2 DEF AgentInv, VerdictsAreRuns, IsRun, PassedIsLeftAlone, work, agentVars
  <2>2. ClaimsAreRuns' /\ CreditIsTheirs'
        BY <1>1, <1>2 DEF AgentInv, ClaimsAreRuns, CreditIsTheirs, work, agentVars
  <2> QED BY <2>1, <2>2
<1>6. AccountOfRung'
  <2>1. NextRung' = NextRung
        BY <1>1 DEF NextRung, Read, Plan, agentVars
  <2> QED BY <1>1, <2>1 DEF AgentInv, AccountOfRung, Ending, agentVars, work
<1>7. SaidToHaveRunRan' /\ RevealIsCounted' /\ ToldWithinTheRung'
  <2>1. said' = Nothing
        BY <1>1 DEF AgentInv, InOrder, agentVars
  <2> QED BY <1>1, <2>1, NothingIsSaid DEF SaidToHaveRunRan, RevealIsCounted, ToldWithinTheRung
<1> QED BY <1>3, <1>4, <1>5, <1>6, <1>7 DEF AgentInv

\* The reply changes nothing but what is said.
LEMMA ReplyKeepsInv ==
    ASSUME AgentInv, pc = "reply", pc' = "done",
           UNCHANGED <<turn, calls, initial, work, request, checked, ran,
                       ask, row, solution, insight, result>>,
           SaidToHaveRunRan', RevealIsCounted', ToldWithinTheRung'
    PROVE  AgentInv'
<1>1. AgentTypes'
      BY DEF AgentInv, AgentTypes, work
<1>2. InOrder'
      BY DEF AgentInv, InOrder, Ending, Solving, Debugging, work
<1>3. VerdictsAreRuns' /\ PassedIsLeftAlone' /\ ClaimsAreRuns' /\ CreditIsTheirs'
      BY DEF AgentInv, VerdictsAreRuns, IsRun, PassedIsLeftAlone, ClaimsAreRuns, CreditIsTheirs, work
<1>4. AccountOfRung'
  <2>1. NextRung' = NextRung
        BY DEF NextRung, Read, Plan
  <2> QED BY <2>1 DEF AgentInv, AccountOfRung, Ending, work
<1> QED BY <1>1, <1>2, <1>3, <1>4 DEF AgentInv

\* The lines on what was run say no more than was run.
LEMMA LinesAreRuns ==
    ASSUME AgentInv, NEW claim \in ExecutionLines
    PROVE  \E c \in AllCodes : claim[1] \in {None, c} /\ <<c, claim[2]>> \in ran
<1>1. /\ claim[2] \in Reported
      /\ claim = <<Own, initial>> \/ claim = <<None, checked>>
      BY DEF ExecutionLines, Claimed
<1>2. CASE claim = <<Own, initial>>
      BY <1>1, <1>2, CodesAreCodes DEF AgentInv, VerdictsAreRuns, IsRun
<1>3. CASE claim = <<None, checked>>
      BY <1>1, <1>3 DEF AgentInv, VerdictsAreRuns
<1> QED BY <1>1, <1>2, <1>3

\* What is told is kept of what the agent told; of a solution nobody could write,
\* what was asked for and the outline that follows a graded answer.
LEMMA ToldIsKept ==
    ASSUME NEW requested, NEW brief, NEW told,
           told \in Replies(requested, Kept(Rendered.tells, brief, requested))
    PROVE  /\ told \subseteq Rendered.tells
           /\ RefusedReveal => told \subseteq requested
           /\ ask.route = "grade" /\ result.shown = None => told \subseteq requested \cup (Told \ Verbose)
              \/ ~(Rendered.tells \subseteq Told)
<1>1. told = {} \/ told = Kept(Rendered.tells, brief, requested)
      BY DEF Replies
<1>2. ask.route = "grade" /\ result.shown = None => Dropped(brief) = Verbose
      BY DEF Dropped
<1> QED BY <1>1, <1>2 DEF Kept

LEMMA FinalKeepsInv == ASSUME AgentInv, FinalResponse PROVE AgentInv'
<1>1. /\ pc = "reply" /\ pc' = "done"
      /\ UNCHANGED <<turn, calls, initial, work, request, checked, ran,
                     ask, row, solution, insight, result>>
      BY DEF FinalResponse
<1>2. PICK brief \in BOOLEAN, requested \in {parts \cap Rendered.tells : parts \in Requests} :
         \E tells \in Replies(requested, Kept(Rendered.tells, brief, requested)) :
             said' = [text |-> IF result.silent THEN "fallback" ELSE "answer",
                      shown |-> Rendered.shown,
                      tells |-> tells,
                      claims |-> result.claims \cup ExecutionLines,
                      asked |-> requested]
      BY DEF FinalResponse
<1>3. /\ said'.shown = Rendered.shown /\ said'.asked = requested
      /\ said'.tells \in Replies(requested, Kept(Rendered.tells, brief, requested))
      /\ said'.claims = result.claims \cup ExecutionLines
      BY <1>2
<1>4. /\ Rendered.shown = IF turn.wants THEN result.shown ELSE None
      /\ Rendered.tells \subseteq result.tells
      BY DEF Rendered
<1>5. SaidToHaveRunRan'
  <2> SUFFICES ASSUME NEW claim \in result.claims \cup ExecutionLines
               PROVE  \E c \in AllCodes : claim[1] \in {None, c} /\ <<c, claim[2]>> \in ran
      BY <1>1, <1>3 DEF SaidToHaveRunRan
  <2>1. CASE claim \in result.claims
    <3>1. claim \in AllCodes \X Verdicts /\ claim \in ran
          BY <2>1 DEF AgentInv, ClaimsAreRuns
    <3> QED BY <3>1
  <2> QED BY <2>1, LinesAreRuns
<1>6. RevealIsCounted'
  <2>1. said'.shown # None => result.shown # None
        BY <1>3, <1>4
  <2>2. result.shown # None => said'.shown # None
        BY <1>3, <1>4 DEF AgentInv, AccountOfRung
  <2>3. patched' = patched
        BY <1>1 DEF work
  <2> QED BY <1>1, <2>1, <2>2, <2>3 DEF RevealIsCounted, AgentInv, AccountOfRung
<1>7. ToldWithinTheRung'
  <2>1. NextRung' = NextRung
        BY <1>1 DEF NextRung, Read, Plan
  <2> SUFFICES ASSUME NEW part \in said'.tells
               PROVE  \/ Gate[part] <= row.level
                      \/ row = ask.row /\ Gate[part] <= NextRung
                      \/ /\ turn.wants /\ said'.shown = None
                         /\ \/ part \in said'.asked
                            \/ ask.route = "grade" /\ part = "pseudocode"
      BY <1>1, <2>1 DEF ToldWithinTheRung
  <2>2. /\ part \in result.tells /\ part \in Told /\ ask.route \in {"dsa", "grade"}
        /\ Rendered.tells \subseteq Told
        BY <1>3, <1>4, ToldIsKept DEF AgentInv, AccountOfRung
  <2>3. \/ Gate[part] <= row.level
        \/ row = ask.row /\ Gate[part] <= NextRung
        \/ turn.wants /\ result.shown = None
        BY <2>2 DEF AgentInv, AccountOfRung
  <2>4. CASE turn.wants /\ result.shown = None
    <3>1. CASE RefusedReveal
          BY <1>3, <1>4, <2>4, <3>1, ToldIsKept
    <3>2. CASE ~RefusedReveal
      <4>1. ask.route = "grade"
            BY <2>2, <2>4, <3>2 DEF RefusedReveal
      <4>2. part \in said'.asked \/ part \notin Verbose
            BY <1>3, <2>2, <2>4, <4>1, ToldIsKept
      <4>3. part \in said'.asked \/ part = "pseudocode"
            BY <2>2, <4>2, GatesAreRungs DEF Verbose, Survey
      <4> QED BY <1>3, <1>4, <2>4, <4>1, <4>3
    <3> QED BY <3>1, <3>2
  <2> QED BY <2>3, <2>4
<1> QED BY <1>1, <1>5, <1>6, <1>7, ReplyKeepsInv

LEMMA FallBackKeepsInv == ASSUME AgentInv, FallBack PROVE AgentInv'
<1>1. /\ said'.text = "apology" /\ said'.claims = {} /\ said'.tells = {} /\ said'.shown = None
      BY DEF FallBack, Nothing
<1>2. SaidToHaveRunRan' /\ RevealIsCounted' /\ ToldWithinTheRung'
      BY <1>1 DEF SaidToHaveRunRan, RevealIsCounted, ToldWithinTheRung
<1> QED BY <1>2, ReplyKeepsInv DEF FallBack

LEMMA StepKeepsAgentInv == AgentInv /\ [Next]_vars => AgentInv'
<1> SUFFICES ASSUME AgentInv, [Next]_vars PROVE AgentInv'
    OBVIOUS
<1>1. CASE Progress
      BY <1>1, UnderstandKeepsInv, ResolveSuiteKeepsInv, ReferenceKeepsInv, AnalyseKeepsInv,
         DsaAgentKeepsInv, GradeKeepsInv, SpokenStepKeepsInv, ExplainingKeepsInv,
         RunExamplesKeepsInv, CodeAnswerKeepsInv, RunExplainKeepsInv, ReviewKeepsInv,
         TalkKeepsInv, DebugAgentKeepsInv, ExecuteKeepsInv, FinalKeepsInv DEF Progress
<1>2. CASE UNCHANGED vars
  <2>1. NextRung' = NextRung
        BY <1>2 DEF NextRung, Read, Plan, vars, agentVars
  <2>2. AgentTypes' /\ InOrder'
    <3>1. AgentTypes'
          BY <1>2 DEF AgentInv, AgentTypes, vars, debugVars, agentVars
    <3>2. InOrder'
          BY <1>2 DEF AgentInv, InOrder, vars, debugVars, agentVars
    <3> QED BY <3>1, <3>2
  <2>3. PassedIsLeftAlone' /\ ClaimsAreRuns' /\ VerdictsAreRuns'
        BY <1>2 DEF AgentInv, PassedIsLeftAlone, ClaimsAreRuns, VerdictsAreRuns, IsRun,
           vars, debugVars, agentVars
  <2>4. AccountOfRung'
        BY <1>2, <2>1 DEF AgentInv, AccountOfRung, vars, debugVars, agentVars
  <2>5. SaidToHaveRunRan' /\ CreditIsTheirs' /\ RevealIsCounted'
        BY <1>2 DEF AgentInv, SaidToHaveRunRan, CreditIsTheirs, RevealIsCounted,
           vars, debugVars, agentVars
  <2>6. ToldWithinTheRung'
        BY <1>2, <2>1 DEF AgentInv, ToldWithinTheRung, vars, debugVars, agentVars
  <2> QED BY <2>2, <2>3, <2>4, <2>5, <2>6 DEF AgentInv
<1> QED BY <1>1, <1>2, RaiseKeepsInv, FallBackKeepsInv DEF Next, Finished

-----------------------------------------------------------------------------
(* The theorems *)

LEMMA InitSetsUp == Init => AgentInv
<1> SUFFICES ASSUME Init PROVE AgentInv
    OBVIOUS
<1>1. /\ result = Silent /\ said = Nothing /\ row = ask.row /\ insight = {} /\ solution = None
      /\ pc = "start" /\ initial = None /\ ~found /\ patched = None /\ final = None
      /\ attempts = 0 /\ presented = None /\ request = None /\ checked = None /\ ran = {}
      /\ turn \in Messages /\ ask \in Ask /\ (turn.wants <=> ask.assistance = Ladder!Full)
      BY DEF Init, DebugInit, Turns, Asked
<1>2. None \notin Reported /\ None # Tidy /\ None # "verified"
      BY CodesAreCodes, NoneIsNoVerdict
<1>3. row \in Ladder!Row
      BY <1>1, RowsAreRows DEF Ask
<1>4. AgentTypes
      BY <1>1, <1>3 DEF AgentTypes, Verdicts
<1>5. InOrder
      BY <1>1, SomeAttempts DEF InOrder, Ending, Solving, Debugging
<1>6. VerdictsAreRuns /\ PassedIsLeftAlone
      BY <1>1, <1>2 DEF VerdictsAreRuns, IsRun, PassedIsLeftAlone, Reported
<1>7. ClaimsAreRuns /\ CreditIsTheirs /\ AccountOfRung
      BY <1>1, SilentSaysNothing DEF ClaimsAreRuns, CreditIsTheirs, AccountOfRung
<1>8. SaidToHaveRunRan /\ RevealIsCounted /\ ToldWithinTheRung
      BY <1>1, NothingIsSaid DEF SaidToHaveRunRan, RevealIsCounted, ToldWithinTheRung
<1> QED BY <1>4, <1>5, <1>6, <1>7, <1>8 DEF AgentInv

\* The inductive invariant: the steps of a turn in their order, every verdict
\* that may be said of a code a run of it, and the solver's account within the
\* rung the turn comes to.
THEOREM AgentInvariant == Spec => []AgentInv
BY InitSetsUp, StepKeepsAgentInv, PTL DEF Spec

\* No reply claims a run that did not happen, or another result of it, whatever
\* raises, and however often a patch fails (_render_debug, _render_review,
\* execution_lines).
THEOREM ClaimsAreTrue == Spec => []SaidToHaveRunRan
BY AgentInvariant, PTL DEF AgentInv

\* The learner is credited with what their own code did, never with what a patch
\* did.
THEOREM CreditIsEarned == Spec => []CreditIsTheirs
BY AgentInvariant, PTL DEF AgentInv

\* A solution that is shown is counted, and one that is counted was shown, but for
\* the debugger's patch and the failures that the property names (run_dsa,
\* DSAResult.to_outcome, DebugResult.to_outcome).
THEOREM RevealsAreStored == Spec => []RevealIsCounted
BY AgentInvariant, PTL DEF AgentInv

\* The reply tells nothing beyond the rung that is stored or come to; of a
\* solution nobody could write, only what was asked for by name and the outline
\* after a graded answer (_STAGE_GATES, _with_tutoring).
THEOREM NothingTooEarly == Spec => []ToldWithinTheRung
BY AgentInvariant, PTL DEF AgentInv

-----------------------------------------------------------------------------
(* The budget *)

\* The calls made to read the message, and those made before its agent works:
\* a message that is only code may be answered about first.
Heard == (IF ask.image THEN 1 ELSE 0) + (IF ask.ruled THEN 0 ELSE 1)
Opening == Heard + (IF ask.route = "debug" /\ turn.sole /\ ~turn.wants THEN 1 ELSE 0)

\* The routes by which a step is reached, and whether they bring code.
OnItsRoute ==
    /\ ask.route \in Routes
    /\ ask.route = "guidance" => ask.sources
    /\ ask.route \notin {"debug", "dsa", "review", "code", "guidance"} => ~turn.code
    /\ pc = "ground" => ask.route \in {"concept", "guidance"}
    /\ pc = "open" => ~turn.code
    /\ pc \in {"debug", "explain"} \cup Debugging => ask.route = "debug"

\* A bug that only the reading found is patched once, a failure up to the limit.
AttemptsInOrder ==
    /\ attempts <= MaxPatchAttempts
    /\ pc = "patch" /\ ~Established => attempts = 0
    /\ pc \in {"rerun", "present"} /\ ~Established => attempts <= 1

\* How many calls have been asked for when a step is reached.
CallsSoFar ==
    /\ calls \in Nat
    /\ pc = "start" => calls = 0
    /\ pc \in {"asked", "grade", "ground", "discuss", "quiz", "exercise"} => calls <= Heard
    /\ pc = "step" => calls <= Heard + 1
    /\ pc = "suite" => calls <= Opening
    /\ pc \in {"debug", "explain"} => calls <= Opening + Retries
    /\ pc \in {"patch", "rerun", "present"} => calls <= Opening + Retries + 1 + attempts
    /\ pc = "map" => \/ calls <= Opening + Retries + 1 + attempts
                     \/ calls <= Heard + Retries + 3
    /\ pc \in {"review", "reference", "open"} => calls <= Heard + Retries
    /\ pc \in {"analysis", "examples"} => calls <= Heard + Retries + Retries
    /\ pc = "hint" => calls <= Heard + Retries + Retries + 1
    /\ pc = "code" =>
         calls <= Heard + Retries + (IF turn.code THEN 0 ELSE Retries)
    /\ pc = "explained" =>
         calls <= Heard + Retries + (IF turn.code THEN 1 ELSE Retries)

\* The one message whose calls are more than the budget: only code, read from an
\* image, answered about at first and debugged after all.
OnlyTheLastPatchIsRefused ==
    calls > MaxCalls =>
        /\ calls <= MaxCalls + 1
        /\ ask.route = "debug" /\ ask.image /\ turn.sole /\ ~turn.wants
        /\ attempts = MaxPatchAttempts

BudgetInv == OnItsRoute /\ AttemptsInOrder /\ CallsSoFar /\ OnlyTheLastPatchIsRefused

\* Who makes the calls that come before an agent's own.
LEMMA WhoseCalls ==
    /\ Heard \in 0..2 /\ (Heard = 2 => ask.image)
    /\ Opening \in {Heard, Heard + 1}
    /\ Opening # Heard => ask.route = "debug" /\ turn.sole /\ ~turn.wants
<1>1. Heard \in 0..2 /\ (Heard = 2 => ask.image)
      BY DEF Heard
<1> QED BY <1>1 DEF Opening

\* The numbers the sums are made of.
LEMMA NumbersOfCalls ==
    /\ Retries \in Nat /\ Retries >= 1
    /\ MaxPatchAttempts \in Nat /\ MaxPatchAttempts >= 1
    /\ MaxCalls \in Nat
    /\ 3 + Retries + MaxPatchAttempts <= MaxCalls
    /\ 5 + Retries <= MaxCalls
    /\ 3 + Retries + Retries <= MaxCalls
    /\ Heard \in Nat /\ Heard <= 2
    /\ Opening \in Nat /\ Heard <= Opening /\ Opening <= Heard + 1
<1>1. Retries \in Nat /\ Retries >= 1
      BY SomeRetries
<1>2. MaxPatchAttempts \in Nat /\ MaxPatchAttempts >= 1 /\ MaxCalls \in Nat
      BY SomeAttempts, SomeCalls
<1>3. 3 + Retries + MaxPatchAttempts <= MaxCalls /\ 5 + Retries <= MaxCalls
      BY BudgetCovers
<1>4. 3 + Retries + Retries <= MaxCalls
      BY <1>1, <1>2, BudgetCovers
<1>5. Heard \in 0..2 /\ Opening \in {Heard, Heard + 1}
      BY WhoseCalls
<1>6. Heard \in Nat /\ Heard <= 2 /\ Opening \in Nat /\ Heard <= Opening /\ Opening <= Heard + 1
      BY <1>5
<1> QED BY <1>1, <1>2, <1>3, <1>4, <1>6

\* A sum over the budget has every patch and every call before it.
LEMMA OverTheBudget ==
    ASSUME NEW heard \in Nat, NEW opening \in Nat, NEW again \in Nat, NEW most \in Nat,
           NEW budget \in Nat, NEW made \in Nat, NEW patches \in Nat,
           3 + again + most <= budget, 5 + again <= budget,
           heard <= 2, opening <= heard + 1, patches <= most, made > budget,
           made <= opening + again + 1 + patches \/ made <= heard + again + 3
    PROVE  opening # heard /\ heard = 2 /\ patches = most /\ made <= budget + 1
OBVIOUS

\* What several calls for one answer, and one call, add.
LEMMA TriesAdd ==
    ASSUME calls \in Nat, NEW ok, Tries(Retries, ok)
    PROVE  calls' \in Nat /\ calls' <= calls + Retries
BY NumbersOfCalls DEF Tries

LEMMA AsksAdds ==
    ASSUME calls \in Nat, NEW ok, Asks(ok)
    PROVE  calls' \in Nat /\ calls' = calls + 1
BY DEF Asks

\* Calls up to a sum within the budget break nothing.
LEMMA WithinBudget ==
    ASSUME calls' \in Nat, calls' <= MaxCalls PROVE OnlyTheLastPatchIsRefused'
BY NumbersOfCalls DEF OnlyTheLastPatchIsRefused

\* An agent that is not the debugger answers within the budget.
LEMMA AnswerKeepsBudget ==
    ASSUME BudgetInv, pc' \in Ending, UNCHANGED <<turn, attempts>>,
           ask' = ask,
           calls' = calls \/ (calls' \in Nat /\ calls' <= MaxCalls)
    PROVE  BudgetInv'
<1>1. OnItsRoute'
      BY DEF BudgetInv, OnItsRoute, Ending, Debugging
<1>2. AttemptsInOrder'
      BY DEF BudgetInv, AttemptsInOrder, Ending
<1>3. CallsSoFar'
      BY DEF BudgetInv, CallsSoFar, Ending
<1>4. OnlyTheLastPatchIsRefused'
  <2>1. CASE calls' = calls
        BY <2>1 DEF BudgetInv, OnlyTheLastPatchIsRefused
  <2>2. CASE calls' \in Nat /\ calls' <= MaxCalls
        BY <2>2, WithinBudget
  <2> QED BY <2>1, <2>2
<1> QED BY <1>1, <1>2, <1>3, <1>4 DEF BudgetInv

-----------------------------------------------------------------------------
(* Every step keeps within its sum *)

LEMMA UnderstandKeepsBudget == ASSUME AgentInv, BudgetInv, Understand PROVE BudgetInv'
<1>1. /\ pc = "start" /\ pc' = StartOf(ask.route) /\ calls' = Heard
      /\ UNCHANGED <<turn, ask, initial, attempts>>
      BY DEF Understand, Parts, Heard, BudgetInv, CallsSoFar, work, agentVars
<1>2. attempts = 0 /\ ask.route \in Routes
      BY <1>1 DEF AgentInv, InOrder, Ending, Debugging, BudgetInv, OnItsRoute
<1>3. /\ pc' \in {"asked", "suite", "ground", "grade", "code", "discuss", "quiz", "exercise"}
      /\ pc' = "ground" => ask.route \in {"concept", "guidance"}
      BY <1>1, <1>2 DEF StartOf, Routes
<1>4. OnItsRoute'
      BY <1>1, <1>3 DEF BudgetInv, OnItsRoute, Debugging
<1>5. AttemptsInOrder'
      BY <1>1, <1>2, <1>3, NumbersOfCalls DEF AttemptsInOrder
<1>6. Heard' = Heard /\ Opening' = Opening
      BY <1>1 DEF Heard, Opening
<1>7. CallsSoFar' /\ OnlyTheLastPatchIsRefused'
      BY <1>1, <1>3, <1>6, NumbersOfCalls, WithinBudget DEF CallsSoFar
<1> QED BY <1>4, <1>5, <1>7 DEF BudgetInv

LEMMA ResolveSuiteKeepsBudget == ASSUME AgentInv, BudgetInv, ResolveSuite PROVE BudgetInv'
<1>1. /\ pc = "suite" /\ UNCHANGED <<ask, initial, attempts>>
      /\ UNCHANGED calls \/ \E ok \in BOOLEAN : Tries(Retries, ok)
      /\ ask.route \in {"debug", "dsa", "review"}
      /\ attempts = 0 /\ calls \in Nat /\ calls <= Opening
      BY DEF ResolveSuite, work, agentVars, AgentInv, InOrder, Ending, Debugging,
         BudgetInv, CallsSoFar
<1>2. calls' \in Nat /\ calls' <= Opening + Retries
      BY <1>1, NumbersOfCalls, TriesAdd
<1>3. /\ turn'.code = turn.code /\ turn'.sole = turn.sole /\ turn'.wants = turn.wants
      BY DEF ResolveSuite, AgentInv, AgentTypes, Messages
<1>4. /\ pc' \in {"debug", "reference", "review"}
      /\ pc' = "debug" <=> ask.route = "debug"
      BY <1>1 DEF ResolveSuite
<1>5. OnItsRoute'
      BY <1>1, <1>3, <1>4 DEF BudgetInv, OnItsRoute, Debugging
<1>6. AttemptsInOrder'
      BY <1>1, <1>4, NumbersOfCalls DEF AttemptsInOrder
<1>7. /\ Heard' = Heard /\ Opening' = Opening
      /\ pc' # "debug" => Opening = Heard
      BY <1>1, <1>3, <1>4, WhoseCalls DEF Heard, Opening
<1>8. CallsSoFar'
      BY <1>2, <1>4, <1>7, NumbersOfCalls DEF CallsSoFar
<1>9. OnlyTheLastPatchIsRefused'
      BY <1>2, NumbersOfCalls, WithinBudget
<1> QED BY <1>5, <1>6, <1>8, <1>9 DEF BudgetInv

\* The graded answer, whose plan may be raised, and the solver.
LEMMA SolvingKeepsBudget ==
    ASSUME AgentInv, BudgetInv, GradeAnswer \/ SpokenStep \/ VerifiedReference \/ Analyse \/ DsaAgent
    PROVE  BudgetInv'
<1>1. ask.route \in {"dsa", "grade"} /\ attempts = 0 /\ calls \in Nat
      BY DEF GradeAnswer, SpokenStep, VerifiedReference, Analyse, DsaAgent, AgentInv, InOrder,
         Ending, Debugging, Solving, BudgetInv, CallsSoFar
<1>2. ASSUME GradeAnswer PROVE BudgetInv'
  <2>1. /\ pc = "grade" /\ pc' \in {"step", "reference"} /\ attempts' = attempts
        /\ calls' = calls \/ \E usable \in BOOLEAN : Asks(usable)
        BY <1>2 DEF GradeAnswer, Judge, work
  <2>2. calls' \in Nat /\ calls' <= Heard + 1
        BY <1>1, <2>1, NumbersOfCalls, AsksAdds DEF BudgetInv, CallsSoFar
  <2>3. /\ ask'.route = ask.route /\ ask'.image = ask.image /\ ask'.ruled = ask.ruled
        /\ ask'.sources = ask.sources
        /\ turn'.code = turn.code
        BY <1>2 DEF GradeAnswer, AgentInv, AgentTypes, Ask, Messages
  <2>4. Heard' = Heard
        BY <2>3 DEF Heard
  <2>5. OnItsRoute'
        BY <2>1, <2>3 DEF BudgetInv, OnItsRoute, Debugging
  <2>6. AttemptsInOrder'
        BY <1>1, <2>1, NumbersOfCalls DEF AttemptsInOrder
  <2>7. CallsSoFar'
        BY <2>1, <2>2, <2>4, NumbersOfCalls DEF CallsSoFar
  <2>8. OnlyTheLastPatchIsRefused'
        BY <2>2, NumbersOfCalls, WithinBudget
  <2> QED BY <2>5, <2>6, <2>7, <2>8 DEF BudgetInv
<1>3. ASSUME SpokenStep PROVE BudgetInv'
  <2>1. /\ pc = "step" /\ pc' = "execute" /\ UNCHANGED <<turn, ask, attempts>>
        /\ \E ok \in BOOLEAN : Tries(Retries, ok)
        BY <1>3 DEF SpokenStep, work
  <2>2. calls' \in Nat /\ calls' <= Heard + 1 + Retries
        BY <1>1, <2>1, NumbersOfCalls, TriesAdd DEF BudgetInv, CallsSoFar
  <2>3. calls' <= MaxCalls
        BY <2>2, NumbersOfCalls
  <2> QED BY <2>1, <2>2, <2>3, AnswerKeepsBudget DEF Ending
<1>4. ASSUME VerifiedReference PROVE BudgetInv'
  <2>1. /\ pc = "reference" /\ pc' = "analysis" /\ UNCHANGED <<turn, ask, attempts>>
        /\ calls' = calls \/ \E ok \in BOOLEAN : Tries(Retries, ok)
        BY <1>4 DEF VerifiedReference, work
  <2>2. calls' \in Nat /\ calls' <= Heard + Retries + Retries
        BY <1>1, <2>1, NumbersOfCalls, TriesAdd DEF BudgetInv, CallsSoFar
  <2>3. Heard' = Heard
        BY <2>1 DEF Heard
  <2>4. OnItsRoute' /\ AttemptsInOrder'
        BY <1>1, <2>1, NumbersOfCalls DEF BudgetInv, OnItsRoute, AttemptsInOrder, Debugging
  <2>5. CallsSoFar'
        BY <2>1, <2>2, <2>3, NumbersOfCalls DEF CallsSoFar
  <2>6. OnlyTheLastPatchIsRefused'
        BY <2>2, NumbersOfCalls, WithinBudget
  <2> QED BY <2>4, <2>5, <2>6 DEF BudgetInv
<1>5. ASSUME Analyse PROVE BudgetInv'
  <2>1. /\ pc = "analysis" /\ pc' = "hint" /\ UNCHANGED <<turn, ask, attempts>>
        /\ calls' = calls \/ \E usable \in BOOLEAN : Asks(usable)
        BY <1>5 DEF Analyse, AnalyseProblem, work
  <2>2. calls' \in Nat /\ calls' <= Heard + Retries + Retries + 1
        BY <1>1, <2>1, NumbersOfCalls, AsksAdds DEF BudgetInv, CallsSoFar
  <2>3. Heard' = Heard
        BY <2>1 DEF Heard
  <2>4. OnItsRoute' /\ AttemptsInOrder'
        BY <1>1, <2>1, NumbersOfCalls DEF BudgetInv, OnItsRoute, AttemptsInOrder, Debugging
  <2>5. CallsSoFar'
        BY <2>1, <2>2, <2>3, NumbersOfCalls DEF CallsSoFar
  <2>6. OnlyTheLastPatchIsRefused'
        BY <2>2, NumbersOfCalls, WithinBudget
  <2> QED BY <2>4, <2>5, <2>6 DEF BudgetInv
<1>6. ASSUME DsaAgent PROVE BudgetInv'
      BY <1>6, AnswerKeepsBudget DEF DsaAgent, Ending, work
<1> QED BY <1>2, <1>3, <1>4, <1>5, <1>6

\* An explanation goes on to the examples, to an answer without the references,
\* or to the code.
LEMMA ExplainingKeepsBudget ==
    ASSUME AgentInv, BudgetInv,
           Ground \/ Open \/ RunExamples \/ CodeAnswer \/ RunExplain
    PROVE  BudgetInv'
<1>1. UNCHANGED <<turn, ask, attempts>> /\ attempts = 0 /\ calls \in Nat
      BY DEF Ground, Open, RunExamples, CodeAnswer, RunExplain, AgentInv, InOrder,
         Ending, Debugging, BudgetInv, CallsSoFar, work, agentVars
<1>2. Heard' = Heard
      BY <1>1 DEF Heard
<1>3. ASSUME pc' \in {"open", "examples", "code", "explained"},
             pc' = "open" => ~turn.code,
             calls' \in Nat,
             calls' <= IF pc' = "explained"
                       THEN Heard + Retries + (IF turn.code THEN 1 ELSE Retries)
                       ELSE IF pc' = "open" THEN Heard + Retries
                       ELSE IF pc' = "examples" THEN Heard + Retries + Retries
                       ELSE Heard + Retries + (IF turn.code THEN 0 ELSE Retries)
      PROVE  BudgetInv'
  <2>1. OnItsRoute' /\ AttemptsInOrder'
        BY <1>1, <1>3, NumbersOfCalls DEF BudgetInv, OnItsRoute, AttemptsInOrder, Debugging
  <2>2. CallsSoFar'
        BY <1>1, <1>2, <1>3, NumbersOfCalls DEF CallsSoFar
  <2>3. calls' <= MaxCalls
        BY <1>3, NumbersOfCalls
  <2> QED BY <1>3, <2>1, <2>2, <2>3, WithinBudget DEF BudgetInv
<1>4. ASSUME Ground PROVE BudgetInv'
  <2>1. /\ pc = "ground" /\ calls <= Heard /\ ask.route \in {"concept", "guidance"}
        /\ ask.route = "guidance" => ask.sources
        /\ ask.route = "concept" => ~turn.code
        BY <1>4 DEF Ground, BudgetInv, CallsSoFar, OnItsRoute
  <2>2. /\ calls' = calls \/ \E ok \in BOOLEAN : Tries(Retries, ok)
        /\ pc' \in {"open", "examples", "code"}
        /\ pc' = "open" => ~turn.code
        BY <1>4, <2>1 DEF Ground
  <2>3. calls' \in Nat /\ calls' <= Heard + Retries
        BY <1>1, <2>1, <2>2, NumbersOfCalls, TriesAdd
  <2> QED BY <1>3, <2>2, <2>3, NumbersOfCalls
<1>5. ASSUME Open PROVE BudgetInv'
  <2>1. /\ pc = "open" /\ calls <= Heard + Retries /\ ~turn.code
        /\ pc' \in {"examples", "code"}
        /\ \E ok \in BOOLEAN : Tries(Retries, ok)
        BY <1>5 DEF Open, BudgetInv, CallsSoFar, OnItsRoute
  <2>2. calls' \in Nat /\ calls' <= Heard + Retries + Retries
        BY <1>1, <2>1, NumbersOfCalls, TriesAdd
  <2> QED BY <1>3, <2>1, <2>2, NumbersOfCalls
<1>6. ASSUME RunExamples PROVE BudgetInv'
      BY <1>1, <1>6, AnswerKeepsBudget DEF RunExamples, Ending
<1>7. ASSUME CodeAnswer PROVE BudgetInv'
  <2>1. pc = "code" /\ calls <= Heard + Retries + (IF turn.code THEN 0 ELSE Retries)
        BY <1>7 DEF CodeAnswer, BudgetInv, CallsSoFar
  <2>2. CASE ~turn.code
    <3>1. pc' = "explained" /\ calls' = calls
          BY <1>7, <2>2 DEF CodeAnswer
    <3> QED BY <1>1, <1>3, <2>1, <2>2, <3>1
  <2>3. CASE turn.code
    <3>1. pc' \in {"execute", "explained"} /\ \E usable \in BOOLEAN : Asks(usable)
          BY <1>7, <2>3 DEF CodeAnswer
    <3>2. calls' \in Nat /\ calls' <= Heard + Retries + 1
          BY <1>1, <2>1, <2>3, <3>1, NumbersOfCalls, AsksAdds
    <3>3. CASE pc' = "explained"
          BY <1>3, <2>3, <3>2, <3>3
    <3>4. CASE pc' = "execute"
          BY <1>1, <3>2, <3>4, NumbersOfCalls, AnswerKeepsBudget DEF Ending
    <3> QED BY <3>1, <3>3, <3>4
  <2> QED BY <2>2, <2>3
<1>8. ASSUME RunExplain PROVE BudgetInv'
  <2>1. /\ pc = "explained" /\ pc' = "execute"
        /\ calls' = calls \/ (turn.code /\ calls' = calls + 2)
        /\ turn.code => calls <= Heard + Retries + 1
        BY <1>8 DEF RunExplain, ExplainParts, Parts, BudgetInv, CallsSoFar
  <2>2. calls' = calls \/ (calls' \in Nat /\ calls' <= MaxCalls)
        BY <1>1, <2>1, NumbersOfCalls
  <2> QED BY <1>1, <2>1, <2>2, AnswerKeepsBudget DEF Ending
<1> QED BY <1>4, <1>5, <1>6, <1>7, <1>8

\* The other agents answer with one call, two, or two answers tried for.
LEMMA OthersKeepBudget == ASSUME AgentInv, BudgetInv, Review \/ Talk PROVE BudgetInv'
<1>1. pc' = "execute" /\ UNCHANGED <<turn, ask, attempts>> /\ calls \in Nat
      BY DEF Review, Talk, work, BudgetInv, CallsSoFar
<1>2. \/ calls' = calls
      \/ calls' \in Nat /\ calls' <= Heard + Retries + Retries
      \/ calls' \in Nat /\ calls' <= Heard + Retries + 2
  <2>1. CASE Review
    <3>1. calls <= Heard + Retries /\ (calls' = calls \/ calls' = calls + 2)
          BY <2>1 DEF Review, ReviewFindings, Parts, BudgetInv, CallsSoFar
    <3> QED BY <1>1, <3>1, NumbersOfCalls
  <2>2. CASE Talk
    <3>1. pc \in {"discuss", "quiz", "exercise"} /\ calls <= Heard
          BY <2>2 DEF Talk, Discuss, Quiz, Exercise, BudgetInv, CallsSoFar
    <3>2. CASE \E ok \in BOOLEAN : Tries(Retries, ok)
          BY <1>1, <3>1, <3>2, NumbersOfCalls, TriesAdd
    <3>3. CASE \E ok \in BOOLEAN : Asks(ok)
          BY <1>1, <3>1, <3>3, NumbersOfCalls, AsksAdds
    <3>4. CASE Exercise
      <4>1. ASSUME NEW proposed \in 1..Retries, NEW planted \in 0..Retries,
                   calls' = calls + (proposed + planted)
            PROVE  calls' \in Nat /\ calls' <= Heard + Retries + Retries
            BY <1>1, <3>1, <4>1, NumbersOfCalls
      <4> QED BY <3>4, <4>1 DEF Exercise, Parts
    <3> QED BY <2>2, <3>2, <3>3, <3>4 DEF Talk, Discuss, Quiz
  <2> QED BY <2>1, <2>2
<1>3. calls' = calls \/ (calls' \in Nat /\ calls' <= MaxCalls)
      BY <1>1, <1>2, NumbersOfCalls
<1> QED BY <1>1, <1>3, AnswerKeepsBudget DEF Ending

\* The debugger: an answer or a failed one, cases, a reading, patches, and either
\* patches or a tidied copy. What is over the budget is the last patch.
LEMMA DebuggingKeepsBudget ==
    ASSUME AgentInv, BudgetInv, AgentTypes',
           Debug \/ RunTests \/ Explain \/ Patch \/ ReRun \/ Present, UNCHANGED agentVars
    PROVE  BudgetInv'
<1>1. /\ UNCHANGED <<turn, ask>>
      /\ ask.route = "debug" \/ pc = "asked"
      /\ calls \in Nat /\ attempts \in Nat
      BY DEF Debug, RunTests, Explain, Patch, ReRun, Present, agentVars, BudgetInv,
         CallsSoFar, OnItsRoute, Debugging, AgentInv, AgentTypes
<1>2. Heard' = Heard /\ Opening' = Opening /\ ask.route = "debug"
      BY <1>1 DEF Heard, Opening, AgentInv, InOrder
<1>4. ASSUME calls' \in Nat, attempts' \in Nat, attempts' <= MaxPatchAttempts,
             \/ calls' <= Opening + Retries + 1 + attempts'
             \/ calls' <= Heard + Retries + 3
      PROVE  OnlyTheLastPatchIsRefused'
  <2>1. CASE calls' <= MaxCalls
        BY <1>4, <2>1, WithinBudget
  <2>2. CASE calls' > MaxCalls
    <3>2. /\ Opening # Heard /\ Heard = 2 /\ attempts' = MaxPatchAttempts
          /\ calls' <= MaxCalls + 1
          BY <1>4, <2>2, NumbersOfCalls, OverTheBudget
    <3>4. ask.image /\ turn.sole /\ ~turn.wants
          BY <3>2, WhoseCalls
    <3> QED BY <1>1, <1>2, <3>2, <3>4 DEF OnlyTheLastPatchIsRefused
  <2> QED BY <1>4, <2>1, <2>2, NumbersOfCalls
<1>5. OnItsRoute'
  <2>1. pc' \in {"suite", "explain"} \cup Debugging
        BY DEF Debug, RunTests, Explain, Patch, ReRun, Present, Debugging
  <2> QED BY <1>1, <1>2, <2>1 DEF BudgetInv, OnItsRoute, Debugging
<1>6. AttemptsInOrder'
  <2>1. CASE pc \notin Debugging
    <3>1. attempts = 0 /\ attempts' = 0 /\ pc' \in {"suite", "explain", "patch"}
          BY <2>1 DEF Debug, RunTests, Explain, Patch, ReRun, Present, Debugging, work,
             AgentInv, InOrder, Ending
    <3> QED BY <3>1, NumbersOfCalls DEF AttemptsInOrder
  <2>2. CASE Patch
    <3>1. /\ pc = "patch" /\ pc' = "rerun" /\ initial' = initial
          /\ attempts' = attempts \/ attempts' = attempts + 1
          BY <2>2 DEF Patch
    <3>2. attempts < MaxPatchAttempts /\ (~Established => attempts = 0)
          BY <3>1 DEF AgentInv, InOrder, BudgetInv, AttemptsInOrder
    <3> QED BY <1>1, <3>1, <3>2, NumbersOfCalls DEF AttemptsInOrder, Established
  <2>3. CASE ReRun
    <3>1. /\ pc = "rerun" /\ pc' \in {"patch", "present"} /\ UNCHANGED <<initial, attempts>>
          /\ pc' = "patch" => Established
          BY <2>3 DEF ReRun, PatchAgain
    <3> QED BY <3>1 DEF BudgetInv, AttemptsInOrder, Established
  <2>4. CASE Present
    <3>1. pc' = "map" /\ UNCHANGED <<initial, attempts>>
          BY <2>4 DEF Present
    <3> QED BY <3>1 DEF BudgetInv, AttemptsInOrder
  <2> QED BY <2>1, <2>2, <2>3, <2>4 DEF Debug, RunTests, Explain, Debugging
<1>7. /\ CallsSoFar'
      /\ calls' \in Nat /\ attempts' \in Nat /\ attempts' <= MaxPatchAttempts
      /\ \/ calls' <= Opening + Retries + 1 + attempts'
         \/ calls' <= Heard + Retries + 3
  <2>1. attempts' \in Nat /\ attempts' <= MaxPatchAttempts
        BY <1>6 DEF AttemptsInOrder, AgentTypes
  <2>2. CASE Debug
    <3>1. /\ pc = "asked" /\ pc' = "suite" /\ calls <= Heard
          /\ calls' = calls \/ (turn.sole /\ ~turn.wants /\ calls' = calls + 1)
          BY <2>2, <1>1, AsksAdds DEF Debug, MayJustAnswer, BudgetInv, CallsSoFar
    <3>3. turn.sole /\ ~turn.wants => Opening = Heard + 1
          BY <1>2 DEF Opening
    <3>4. calls' = calls \/ (Opening = Heard + 1 /\ calls' = calls + 1)
          BY <3>1, <3>3
    <3>5. calls <= Heard
          BY <3>1
    <3>2. calls' \in Nat /\ calls' <= Opening
      <4>1. CASE calls' = calls
            BY <1>1, <3>5, <4>1, NumbersOfCalls
      <4>2. CASE Opening = Heard + 1 /\ calls' = calls + 1
            BY <1>1, <3>5, <4>2, NumbersOfCalls
      <4> QED BY <3>4, <4>1, <4>2
    <3>6. calls' <= Heard + Retries + 3
          BY <3>2, NumbersOfCalls
    <3>7. CallsSoFar'
          BY <1>2, <3>1, <3>2 DEF CallsSoFar
    <3> QED BY <2>1, <3>2, <3>6, <3>7
  <2>3. CASE RunTests
    <3>1. pc = "debug" /\ pc' = "explain" /\ calls' = calls /\ calls <= Opening + Retries
          BY <2>3 DEF RunTests, BudgetInv, CallsSoFar
    <3>2. CallsSoFar'
          BY <1>1, <1>2, <3>1 DEF CallsSoFar
    <3>3. calls' \in Nat /\ calls' <= Heard + Retries + 3
          BY <1>1, <3>1, NumbersOfCalls
    <3> QED BY <2>1, <3>2, <3>3
  <2>4. CASE Explain
    <3>1. /\ pc = "explain" /\ pc' = "patch" /\ calls <= Opening + Retries
          /\ calls' = calls \/ calls' = calls + 1
          BY <1>1, <2>4, AsksAdds DEF Explain, ReadCode, BudgetInv, CallsSoFar
    <3> QED BY <1>1, <1>2, <2>1, <3>1, NumbersOfCalls DEF CallsSoFar
  <2>5. CASE Patch
    <3>1. /\ pc = "patch" /\ pc' = "rerun" /\ calls <= Opening + Retries + 1 + attempts
          /\ \/ calls' = calls /\ attempts' = attempts
             \/ calls' = calls + 1 /\ attempts' = attempts + 1
          BY <1>1, <2>5, AsksAdds DEF Patch, BudgetInv, CallsSoFar
    <3> QED BY <1>1, <1>2, <2>1, <3>1, NumbersOfCalls DEF CallsSoFar
  <2>6. CASE ReRun
    <3>1. /\ pc = "rerun" /\ pc' \in {"patch", "present"} /\ calls' = calls
          /\ attempts' = attempts /\ calls <= Opening + Retries + 1 + attempts
          BY <2>6 DEF ReRun, BudgetInv, CallsSoFar
    <3> QED BY <1>1, <1>2, <2>1, <3>1, NumbersOfCalls DEF CallsSoFar
  <2>7. CASE Present
    <3>1. /\ pc = "present" /\ pc' = "map" /\ attempts' = attempts
          /\ calls <= Opening + Retries + 1 + attempts
          /\ calls' = calls \/ (PresentsTheirs /\ calls' = calls + 1)
          BY <1>1, <2>7, AsksAdds DEF Present, BudgetInv, CallsSoFar
    <3>2. PresentsTheirs => attempts <= 1 /\ Opening = Heard
          BY <3>1 DEF PresentsTheirs, BudgetInv, AttemptsInOrder, Opening, Heard
    <3>3. \/ calls' = calls
          \/ calls' <= Heard + Retries + 3
          BY <1>1, <3>1, <3>2, NumbersOfCalls
    <3>4. calls' \in Nat
          BY <1>1, <3>1
    <3> QED BY <1>1, <1>2, <2>1, <3>1, <3>3, <3>4, NumbersOfCalls DEF CallsSoFar
  <2> QED BY <2>2, <2>3, <2>4, <2>5, <2>6, <2>7
<1> QED BY <1>4, <1>5, <1>6, <1>7 DEF BudgetInv

\* The debugger's answers: one without debugging, one from reading alone, or what
\* the subgraph came to.
LEMMA DebugAgentKeepsBudget ==
    ASSUME AgentInv, AgentInv', BudgetInv, DebugAgent PROVE BudgetInv'
<1>1. calls \in Nat
      BY DEF BudgetInv, CallsSoFar
<1>2. ASSUME AnswerQuestion, UNCHANGED ask PROVE BudgetInv'
  <2>1. pc = "asked" /\ pc' = "execute" /\ UNCHANGED <<turn, attempts>> /\ Asks(TRUE) /\ calls <= Heard
        BY <1>2 DEF AnswerQuestion, work, BudgetInv, CallsSoFar
  <2>2. calls <= Heard /\ calls' = calls + 1
        BY <1>1, <2>1, AsksAdds
  <2>3. calls' \in Nat /\ calls' <= MaxCalls
        BY <1>1, <2>2, NumbersOfCalls
  <2> QED BY <1>2, <2>1, <2>3, AnswerKeepsBudget DEF Ending
<1>3. ASSUME MapBack, UNCHANGED ask PROVE BudgetInv'
      BY <1>3, AnswerKeepsBudget DEF MapBack, work, Ending
<1>4. ASSUME StaticReview, UNCHANGED ask PROVE BudgetInv'
  <2>1. /\ pc = "debug" /\ pc' = "execute" /\ UNCHANGED <<turn, attempts>>
        /\ calls' = calls \/ \E usable \in BOOLEAN : Asks(usable)
        /\ calls <= Opening + Retries
        BY <1>4 DEF StaticReview, BudgetInv, CallsSoFar
  <2>2. calls' \in Nat /\ calls' <= Heard + 1 + Retries + 1
        BY <1>1, <2>1, NumbersOfCalls, AsksAdds
  <2>3. calls' <= MaxCalls
        BY <2>2, NumbersOfCalls
  <2> QED BY <1>4, <2>1, <2>2, <2>3, AnswerKeepsBudget DEF Ending
<1>5. ASSUME DebugGraph, UNCHANGED agentVars PROVE BudgetInv'
      BY <1>5, DebuggingKeepsBudget DEF DebugGraph, AgentInv
<1> QED BY <1>2, <1>3, <1>4, <1>5 DEF DebugAgent, agentVars

LEMMA StepKeepsBudget == AgentInv /\ AgentInv' /\ BudgetInv /\ [Next]_vars => BudgetInv'
<1> SUFFICES ASSUME AgentInv, AgentInv', BudgetInv, [Next]_vars PROVE BudgetInv'
    OBVIOUS
<1>1. CASE Progress
  <2>1. CASE ExecuteAndVerify
        BY <2>1, AnswerKeepsBudget DEF ExecuteAndVerify, Execute, agentVars, work, Ending
  <2>2. CASE FinalResponse
        BY <2>2, AnswerKeepsBudget DEF FinalResponse, work, Ending
  <2> QED BY <1>1, <2>1, <2>2, UnderstandKeepsBudget, ResolveSuiteKeepsBudget, SolvingKeepsBudget,
          ExplainingKeepsBudget, OthersKeepBudget, DebugAgentKeepsBudget DEF Progress
<1>2. CASE Raise
      BY <1>2, AnswerKeepsBudget DEF Raise, Ending
<1>3. CASE FallBack
      BY <1>3, AnswerKeepsBudget DEF FallBack, work, Ending
<1>4. CASE UNCHANGED vars
  <2>1. UNCHANGED <<turn, pc, calls, initial, attempts, ask>>
        BY <1>4 DEF vars, debugVars, agentVars
  <2>2. Heard' = Heard /\ Opening' = Opening
        BY <2>1 DEF Heard, Opening
  <2>3. OnItsRoute' /\ AttemptsInOrder' /\ OnlyTheLastPatchIsRefused'
        BY <2>1 DEF BudgetInv, OnItsRoute, AttemptsInOrder, Established, OnlyTheLastPatchIsRefused
  <2>4. CallsSoFar'
        BY <2>1, <2>2 DEF BudgetInv, CallsSoFar
  <2> QED BY <2>3, <2>4 DEF BudgetInv
<1> QED BY <1>1, <1>2, <1>3, <1>4 DEF Next, Finished

\* The budget refuses a turn one call at most, and only the debugger's for its last
\* patch (LLMCallBudget, the retries of each agent, MAX_PATCH_ATTEMPTS).
THEOREM RefusalIsALastPatch == Spec => []RefusalCostsALastPatch
<1>1. Init => BudgetInv
  <2> SUFFICES ASSUME Init PROVE BudgetInv
      OBVIOUS
  <2>1. pc = "start" /\ calls = 0 /\ attempts = 0 /\ ask \in Ask /\ Asked(ask, turn)
        BY DEF Init, DebugInit
  <2>2. OnItsRoute
        BY <2>1 DEF OnItsRoute, Debugging, Ask, Asked
  <2>3. AttemptsInOrder /\ CallsSoFar /\ OnlyTheLastPatchIsRefused
        BY <2>1, NumbersOfCalls DEF AttemptsInOrder, CallsSoFar, OnlyTheLastPatchIsRefused
  <2> QED BY <2>2, <2>3 DEF BudgetInv
<1>2. BudgetInv => RefusalCostsALastPatch
      BY NumbersOfCalls DEF BudgetInv, CallsSoFar, OnlyTheLastPatchIsRefused, RefusalCostsALastPatch
<1> QED BY <1>1, <1>2, AgentInvariant, StepKeepsBudget, PTL DEF Spec

=============================================================================
