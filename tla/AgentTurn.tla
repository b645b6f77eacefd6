------------------------------- MODULE AgentTurn -------------------------------
(***************************************************************************)
(* What the agent of one turn does and what the reply says of it: the model *)
(* calls it makes under the turn's budget, the code it runs in the sandbox, *)
(* the rung of the hint ladder it stores, and the claims, code and sources  *)
(* of the reply. The debugger is DebugLoop; the rung is HintPolicy's.       *)
(*                                                                         *)
(* The route of the turn is given (TurnDecision decides it). A model's text *)
(* is usable or not; a candidate solution passes its cases or does not      *)
(* (CodeEvidence says how it is checked).                                   *)
(***************************************************************************)
EXTENDS DebugLoop

CONSTANTS
    Retries,    \* SYNTH_ATTEMPTS, _ATTEMPTS: calls an agent makes for one answer
    Rows,       \* bound: the stored rungs a turn may find
    Levels,     \* bound: the assistance levels of a plan
    Requests    \* bound: the parts of an answer a message asks for by name

ASSUME SomeRetries == Retries \in Nat \ {0}

\* The sums the budget covers: reading an image, the intent and an answer tried
\* for, beside the reading of the bug and the patches; with the lines explained;
\* and with two answers tried for in a row. It does with the code's own 3, 8 and 2.
ASSUME BudgetCovers ==
    /\ 3 + Retries + MaxPatchAttempts <= MaxCalls
    /\ 5 + Retries <= MaxCalls
    /\ 3 + 2 * Retries <= MaxCalls

Ladder == INSTANCE HintPolicy

ASSUME RowsAreRows == Rows \subseteq Ladder!Row /\ Levels \subseteq Ladder!Assistance

\* _SECTION_ASKS, of the parts the solver gates: each phrase asks for these; to
\* be walked through the problem is to be told the idea too.
SectionAsks == {{"insight"}, {"complexity"}, {"brute"}, {"mistakes"},
                {"understanding", "insight"}}

\* requested_sections: a message may hold several of the phrases.
ASSUME RequestsAreAsks == Requests \subseteq {UNION asks : asks \in SUBSET SectionAsks}

VARIABLES
    ask,        \* the message, its route and its plan
    row,        \* the row of hint_progress, which this turn writes
    solution,   \* the reference solution of a full plan
    insight,    \* what the solver worked out about the problem
    result,     \* what the agent hands to the reply
    said        \* what the reply says

agentVars == <<ask, row, solution, insight, result, said>>
vars == <<debugVars, agentVars>>

Routes == {"debug", "dsa", "grade", "review", "concept", "guidance", "code",
           "discuss", "quiz", "exercise"}

Ask == [
    route : Routes,
    image : BOOLEAN,            \* there is an image to read
    ruled : BOOLEAN,            \* a rule gives the intent, no model is asked
    text : BOOLEAN,             \* there is a problem or a question
    sources : BOOLEAN,          \* there are references to answer from
    solved : BOOLEAN,           \* the ladder says the problem is solved
    assistance : Levels,        \* the plan's level
    capped : BOOLEAN,           \* it was lowered to the client's cap
    row : Rows,                 \* the stored rung
    missed : BOOLEAN]           \* reading it failed

Plan == [assistance |-> ask.assistance, capped |-> ask.capped]

\* A message may differ in what its route looks at; the level of the plan is
\* what decides whether code is wanted.
Asked(a, t) ==
    /\ t.wants <=> a.assistance = Ladder!Full
    /\ a.capped => a.assistance # Ladder!Full
    /\ a.route # "debug" => ~t.sole /\ t.whole /\ t.packages
    /\ t.sole => ~a.ruled
    /\ a.route = "code" => t.code
    /\ a.route \notin {"debug", "dsa", "review", "code", "guidance"} => ~t.code
    /\ a.route \notin {"dsa", "grade"} =>
         /\ a.row = Ladder!NoRow /\ a.assistance \in {Ladder!Hint, Ladder!Full}
         /\ a.text /\ ~a.solved /\ ~a.capped
    /\ a.route = "grade" => a.text
    /\ a.sources <=> a.route = "guidance" \/ (a.sources /\ a.route = "concept")
    /\ a.solved \/ a.missed => a.row # Ladder!NoRow
    /\ ~(a.solved /\ a.missed)

\* What is recorded of the learner: their verdict, and whether the code was
\* given.
NoOutcome == [solved |-> None, full |-> FALSE]

\* Only a definite verdict is evidence about the learner.
Solved(verdict) == IF verdict \in {"pass", "fail"} THEN verdict ELSE None

\* What an agent hands to the reply: the solution it shows, the parts of an
\* account it tells, what it says was run and came to what, and whether it
\* answers a question about code. A silent one has nothing to say.
Silent == [shown |-> None, tells |-> {}, claims |-> {}, aboutCode |-> FALSE,
           silent |-> TRUE, outcome |-> NoOutcome]
Answer(claims) == [Silent EXCEPT !.claims = claims, !.silent = FALSE]

\* The agents' own code, beside DebugLoop's: a reference solution, and the
\* examples of an explanation.
Ref == MaxPatchAttempts + 2
Example == MaxPatchAttempts + 3
AllCodes == Codes \cup {Ref, Example}

\* What may be said of code that ran.
Reported == {"pass", "fail", "no tests"}
Claimed(claims) == {claim \in claims : claim[2] \in Reported}

Nothing == [text |-> "none", shown |-> None, tells |-> {}, claims |-> {}, asked |-> {}]

Init ==
    /\ DebugInit
    /\ ask \in Ask
    /\ Asked(ask, turn)
    /\ row = ask.row
    /\ solution = None
    /\ insight = {}
    /\ result = Silent
    /\ said = Nothing

-----------------------------------------------------------------------------
(* Calls of the model *)

Left == IF calls < MaxCalls THEN MaxCalls - calls ELSE 0

\* Up to n calls for one answer: tried again while what comes back is no use;
\* a failed or refused call ends it.
Tries(n, ok) ==
    \E k \in 1..n :
        /\ k <= Left + 1
        /\ ok => k <= Left
        /\ calls' = calls + k

\* n calls one after the other, each for a part of its own.
Parts(n) == calls' = calls + n

StartOf(route) ==
    CASE route = "debug" -> "asked"
      [] route \in {"dsa", "review"} -> "suite"
      [] route \in {"concept", "guidance"} -> "ground"
      [] OTHER -> route

\* understand_input reads the image, classify_intent asks when no rule decides.
Understand ==
    /\ pc = "start"
    /\ Parts((IF ask.image THEN 1 ELSE 0) + (IF ask.ruled THEN 0 ELSE 1))
    /\ pc' = StartOf(ask.route)
    /\ UNCHANGED <<turn, initial, work, request, checked, ran, agentVars>>

\* _resolve_test_suite: the statement's examples or the cases kept from
\* before; too few of them, or none, and the model proposes some.
ResolveSuite ==
    /\ pc = "suite"
    /\ \E some \in BOOLEAN :
         /\ turn' = [turn EXCEPT !.tests = some]
         /\ some => turn.code
         /\ \/ UNCHANGED calls
            \/ turn.code /\ turn.runner /\ \E proposed \in BOOLEAN :
                 Tries(Retries, proposed) /\ (proposed => some)
    /\ pc' = CASE ask.route = "debug" -> "debug"
               [] ask.route = "dsa" -> "reference"
               [] ask.route = "review" -> "review"
    /\ UNCHANGED <<initial, work, request, checked, ran, agentVars>>

-----------------------------------------------------------------------------
(* A step of the hint ladder *)

\* Mutant: a candidate that could not be checked counts as checked.
VerifiedReferenceUnchecked ==
    /\ pc = "reference"
    /\ IF turn.wants /\ ~ask.solved /\ ask.text
       THEN \E candidate \in {None, "unverified", "verified"} :
              /\ candidate # None => Left > 0
              /\ Tries(Retries, candidate = "verified")
              /\ solution' = candidate
       ELSE solution' = None /\ UNCHANGED calls
    /\ pc' = "analysis"
    /\ UNCHANGED <<turn, initial, work, request, checked, ran, ask, row, insight, result, said>>

\* verified_reference, for a full plan: proposed, run against its cases,
\* mended once. One that did not pass is kept with the reason; a failed call
\* leaves the best so far.
VerifiedReference ==
    /\ pc = "reference"
    /\ IF turn.wants /\ ~ask.solved /\ ask.text
       THEN \E candidate \in {None, "unverified", "verified"} :
              /\ candidate # None => Left > 0
              /\ Tries(Retries, candidate = "verified")
              /\ solution' = candidate
              /\ IF candidate = "verified"
                 THEN turn.runner /\ ran' = ran \cup {<<Ref, "pass">>}
                 ELSE UNCHANGED ran
       ELSE solution' = None /\ UNCHANGED <<calls, ran>>
    /\ pc' = "analysis"
    /\ UNCHANGED <<turn, initial, work, request, checked, ask, row, insight, result, said>>

\* _STAGE_GATES: the first rung that may tell a part of the solver's account.
Gate == [understanding |-> 0, mistakes |-> 1, brute |-> 2, insight |-> 3,
         pseudocode |-> 4, complexity |-> 4]

Told == DOMAIN Gate

\* resolve_hint_progress: a read that fails finds a new ladder.
Read == IF ask.missed THEN Ladder!NoRow ELSE ask.row

\* The rung this turn comes to, before it is known whether there is code.
NextRung == Ladder!NextLevel(Plan, Read)

\* The account is cut to that rung; it may fill every field.
Fields == {part \in Told : Gate[part] <= NextRung}

\* analyze_dsa_problem: one call. At the top its answer is code too, which
\* stands in for a reference nobody could write.
AnalyseProblem ==
    \E usable, code \in BOOLEAN :
        /\ Asks(usable)
        /\ code => usable /\ turn.wants /\ solution = None
        /\ solution' = IF code THEN "unverified" ELSE solution
        /\ insight' = IF usable THEN Fields ELSE {}

\* A solved problem, a message without one, a solution with its own account.
MayBeSilent == ask.solved \/ ~ask.text \/ solution # None

\* _understand.
Analyse ==
    /\ pc = "analysis"
    /\ \/ MayBeSilent /\ UNCHANGED <<calls, solution, insight>>
       \/ ~ask.solved /\ ask.text /\ AnalyseProblem
    /\ pc' = "hint"
    /\ UNCHANGED <<turn, initial, work, request, checked, ran, ask, row, result, said>>

\* The learner's code, run on the turn's cases.
RunLearnersCode ==
    IF turn.code /\ turn.tests
    THEN \E verdict \in Outcomes(Own) : Runs(Own, verdict) /\ initial' = verdict
    ELSE UNCHANGED <<initial, ran>>

HasVerdict == initial' \in {"pass", "fail"}

\* Mutant: the ladder climbs to the top also when there is no code to show.
RungUnheld ==
    [Ladder!RunDsa(Plan, Read, TRUE) EXCEPT !.outcome = IF @ = "shown" /\ solution = None
                                                       THEN "missing" ELSE @]

\* run_dsa's rung, and what it shows.
Rung == Ladder!RunDsa(Plan, Read, solution # None)

\* The nodes of the subgraph each hand on their part of the account.
Surfaced == insight

DsaOutcome(rung) == [solved |-> Solved(initial'), full |-> rung.level = Ladder!FullReveal]

\* What is said about code that is shown comes with the code.
About(rung) == IF rung.outcome = "shown" THEN {"insight", "complexity"} ELSE {}

\* Only a sandbox pass may be called checked.
HintAnswer(rung) ==
    [Answer(IF rung.outcome = "shown" /\ solution = "verified" THEN {<<Ref, "pass">>} ELSE {})
       EXCEPT !.shown = IF rung.outcome = "shown" THEN Ref ELSE None,
              !.tells = Surfaced \cup About(rung),
              !.outcome = DsaOutcome(rung)]

\* What may be run again: the learner's code, else the solution that was kept.
DsaRequests ==
    IF turn.code /\ turn.tests THEN {Own}
    ELSE IF solution = None THEN {None}
    ELSE IF solution = "verified" THEN {Ref} ELSE {Ref, None}

\* run_dsa and the end of dsa_agent: the rung is stored unless that fails.
DsaAgent ==
    /\ pc = "hint"
    /\ RunLearnersCode
    /\ IF ask.solved
       THEN /\ result' = [Silent EXCEPT !.outcome = [NoOutcome EXCEPT !.solved = Solved(initial')]]
            /\ UNCHANGED row
       ELSE /\ result' = HintAnswer(Rung)
            /\ row' \in {row, Ladder!SaveHintProgress(row, Read, Plan, Rung, HasVerdict)}
    /\ request' \in DsaRequests
    /\ insight' = {}
    /\ pc' = "execute"
    /\ UNCHANGED <<turn, calls, work, checked, ask, solution, said>>

-----------------------------------------------------------------------------
(* A graded answer *)

\* grade_reply: a rule decides, or the model is asked.
Judge == UNCHANGED calls \/ \E usable \in BOOLEAN : Asks(usable)

\* grade_answer: it moves on, or hands the
\* next step to the solver with the plan's level raised or not.
GradeAnswer ==
    /\ pc = "grade"
    /\ Judge
    /\ \/ pc' = "step" /\ UNCHANGED <<turn, ask>>
       \/ /\ pc' = "reference"
          /\ \E after \in {l \in Levels : l >= ask.assistance} :
               /\ ask.capped => after = ask.assistance
               /\ ask' = [ask EXCEPT !.assistance = after]
               /\ turn' = [turn EXCEPT !.wants = after = Ladder!Full]
    /\ UNCHANGED <<initial, work, request, checked, ran, row, solution, insight, result, said>>

\* spoken_step: the reply in the model's words, or the bank's sentence.
SpokenStep ==
    /\ pc = "step"
    /\ \E ok \in BOOLEAN : Tries(Retries, ok)
    /\ result' = Answer({})
    /\ pc' = "execute"
    /\ UNCHANGED <<turn, initial, work, request, checked, ran, ask, row, solution, insight, said>>

-----------------------------------------------------------------------------
(* An explanation *)

\* Mutant: guidance that used no reference is asked for again too.
GroundAgain ==
    /\ pc = "ground"
    /\ IF ask.sources
       THEN \E usable, used \in BOOLEAN :
              /\ Tries(Retries, usable)
              /\ pc' = IF usable /\ used THEN "examples" ELSE "open"
       ELSE pc' = "open" /\ UNCHANGED calls
    /\ UNCHANGED <<turn, initial, work, request, checked, ran, agentVars>>

\* answer_concept over the references. An answer that used none of them is no
\* answer of a concept: the model is asked again without them; the guidance
\* never is.
Ground ==
    /\ pc = "ground"
    /\ IF ask.sources
       THEN \E usable, used \in BOOLEAN :
              /\ Tries(Retries, usable)
              /\ pc' = IF ~usable THEN "code"
                       ELSE IF used \/ ask.route = "guidance" THEN "examples" ELSE "open"
       ELSE pc' = "open" /\ UNCHANGED calls
    /\ UNCHANGED <<turn, initial, work, request, checked, ran, agentVars>>

\* _open_answer.
Open ==
    /\ pc = "open"
    /\ \E usable \in BOOLEAN :
         /\ Tries(Retries, usable)
         /\ pc' = IF usable THEN "examples" ELSE "code"
    /\ UNCHANGED <<turn, initial, work, request, checked, ran, agentVars>>

\* _run_examples: one that ran to its end is shown with its output, one that
\* did not is left out, and without a sandbox it is shown as not executed.
RunExamples ==
    /\ pc = "examples"
    /\ \/ result' = Answer({}) /\ UNCHANGED ran
       \/ /\ turn.runner
          /\ ran' = ran \cup {<<Example, "no tests">>}
          /\ result' = Answer({<<Example, "no tests">>})
    /\ pc' = "execute"
    /\ UNCHANGED <<turn, calls, initial, work, request, checked, ask, row, solution, insight, said>>

\* run_learner_code: never run when it waits for the keyboard; what it printed
\* or stopped with is the answer's own account of it.
ScriptOutcomes ==
    IF turn.runner /\ ~turn.keyboard THEN {"no tests", "fail", "unavailable"} ELSE {"unavailable"}

AboutCode(verdict) == [Answer(Claimed({<<Own, verdict>>})) EXCEPT !.aboutCode = TRUE]

\* _code_answer; without an answer the code is explained instead.
CodeAnswer ==
    /\ pc = "code"
    /\ IF ~turn.code
       THEN pc' = "explained" /\ UNCHANGED <<calls, ran, result>>
       ELSE \E usable \in BOOLEAN, verdict \in ScriptOutcomes :
              /\ ran' = ran \cup {<<Own, verdict>>}
              /\ Asks(usable)
              /\ IF usable
                 THEN pc' = "execute" /\ result' = AboutCode(verdict)
                 ELSE pc' = "explained" /\ UNCHANGED result
    /\ UNCHANGED <<turn, initial, work, request, checked, ask, row, solution, insight, said>>

\* A call for the lines and one for the reasons of the cost, each left out
\* when it fails.
ExplainParts == Parts(2)

\* run_explain: nothing without code.
RunExplain ==
    /\ pc = "explained"
    /\ IF turn.code
       THEN ExplainParts /\ result' = Answer({})
       ELSE UNCHANGED calls /\ result' = Silent
    /\ pc' = "execute"
    /\ UNCHANGED <<turn, initial, work, request, checked, ran, ask, row, solution, insight, said>>

-----------------------------------------------------------------------------
(* The other agents *)

\* _correctness: the sandbox's word alone, on the learner's code.
Correctness ==
    IF turn.code /\ turn.tests /\ turn.runner
    THEN /\ \E verdict \in Outcomes(Own) : Runs(Own, verdict) /\ initial' = verdict
         /\ request' = Own
    ELSE UNCHANGED <<initial, request, ran>>

\* The model's findings on style and its advice, of the kinds each may have.
ReviewFindings == IF turn.code THEN Parts(2) ELSE UNCHANGED calls

\* _render_review.
ReviewClaims == Claimed({<<Own, initial'>>})

ReviewAnswer ==
    [Answer(ReviewClaims) EXCEPT !.outcome = [NoOutcome EXCEPT !.solved = Solved(initial')]]

\* review_code.
Review ==
    /\ pc = "review"
    /\ Correctness
    /\ ReviewFindings
    /\ result' = ReviewAnswer
    /\ pc' = "execute"
    /\ UNCHANGED <<turn, work, checked, ask, row, solution, insight, said>>

\* discuss: code in the reply is asked to be left out, then taken out.
Discuss == pc = "discuss" /\ \E ok \in BOOLEAN : Tries(Retries, ok)

\* write_quiz or mark_quiz: one call; a built-in set and an excuse otherwise.
Quiz == pc = "quiz" /\ \E ok \in BOOLEAN : Asks(ok)

\* _bug_exercise and plant_bug: a reference, then a bug planted in it.
Exercise ==
    /\ pc = "exercise"
    /\ IF turn.runner
       THEN \E proposed \in 1..Retries, planted \in 0..Retries : Parts(proposed + planted)
       ELSE UNCHANGED calls

\* The model's words, or a fixed sentence.
Talk ==
    /\ Discuss \/ Quiz \/ Exercise
    /\ result' = Answer({})
    /\ pc' = "execute"
    /\ UNCHANGED <<turn, initial, work, request, checked, ran, ask, row, solution, insight, said>>

-----------------------------------------------------------------------------
(* The debugger *)

\* What _render_debug says was run: their code's verdict, the patch's, and
\* that of their code tidied.
DebugClaims == Claimed(
    {<<Own, initial>>}
      \cup (IF Fixed \/ (PatchRanClean /\ PatchShown) THEN {<<patched, final>>} ELSE {})
      \cup (IF TheirsShown /\ presented = Tidy
            THEN {<<Tidy, IF initial = "pass" THEN "pass" ELSE "no tests">>} ELSE {}))

\* Mutant: the learner is credited with what the patch came to.
DebugAnswerFinal ==
    [Answer(DebugClaims) EXCEPT
       !.outcome = [solved |-> Solved(IF patched = None THEN initial ELSE final),
                    full |-> patched # None]]

\* What is recorded is the verdict on the code they brought; a patch counts as
\* the code given, shown or not.
DebugAnswer ==
    [Answer(DebugClaims) EXCEPT
       !.outcome = [solved |-> Solved(initial), full |-> patched # None]]

\* The nodes of the debugger's subgraph.
DebugGraph == Debug \/ RunTests \/ Explain \/ Patch \/ ReRun \/ Present

DebugAgent ==
    \/ /\ AnswerQuestion
       /\ result' = AboutCode("no tests")
       /\ UNCHANGED <<ask, row, solution, insight, said>>
    \/ /\ MapBack
       /\ result' = DebugAnswer
       /\ UNCHANGED <<ask, row, solution, insight, said>>
    \/ /\ StaticReview
       /\ result' = Answer({})
       /\ UNCHANGED <<ask, row, solution, insight, said>>
    \/ /\ DebugGraph
       /\ UNCHANGED agentVars

-----------------------------------------------------------------------------
(* The reply *)

\* safe_node: any step of an agent may raise; its result is lost, and an
\* apology is the reply. Calls, runs and a stored rung stand.
Raise ==
    /\ pc \notin {"start", "execute", "reply", "done"}
    /\ pc' = "execute"
    /\ initial' = None
    /\ final' = None
    /\ patched' = None
    /\ presented' = None
    /\ request' = None
    /\ result' = Silent
    /\ UNCHANGED <<turn, calls, found, attempts, checked, ran, ask, row, solution, insight, said>>

ExecuteAndVerify == Execute /\ UNCHANGED agentVars

\* execution_lines: their own verdict, and the verdict of the run made for the
\* reply when it is another one or when a solution is shown; that line does not
\* say which code it ran.
ExecutionLines ==
    LET theirs == turn.code /\ ask.route \notin {"dsa", "grade"}
    IN  IF result.aboutCode THEN {}
        ELSE IF theirs
        THEN Claimed({<<Own, initial>>} \cup (IF checked # initial THEN {<<None, checked>>} ELSE {}))
        ELSE IF result.shown # None THEN Claimed({<<None, checked>>}) ELSE {}

\* DSA_SECTIONS_BY_ASSISTANCE, of the parts the solver gates.
Sections(assistance) ==
    CASE assistance = Ladder!Hint -> {}
      [] assistance = Ladder!Concept -> {"understanding", "insight", "mistakes", "complexity"}
      [] OTHER -> Told

\* The parts a reply drops: a survey of the problem, the longer one beside a
\* question or the answer to one, and what repeats a solution that is shown.
Survey == {"understanding", "mistakes"}
Verbose == Survey \cup {"brute", "insight", "complexity"}
BesideCode == Survey \cup {"brute", "pseudocode"}

\* brief: the reply ends with a question, or with the solver's own step. The
\* cost of a solution that is shown stays beside it.
Dropped(brief) ==
    IF brief \/ ask.route = "grade"
    THEN IF result.shown = None THEN Verbose ELSE Verbose \ {"complexity"}
    ELSE IF result.shown = None THEN Survey ELSE BesideCode

\* Mutant: a solution that could not be shown is made up for by its parts.
KeptAnyway(parts, brief, requested) ==
    (parts \ Dropped(brief)) \cup (parts \cap requested)

\* A solution was granted and there is none to show: the reply says so and stops.
RefusedReveal == ask.route = "dsa" /\ turn.wants /\ result.shown = None

\* _with_tutoring: a part that was asked for is kept whatever else is dropped.
Kept(parts, brief, requested) ==
    (IF RefusedReveal THEN {} ELSE parts \ Dropped(brief)) \cup (parts \cap requested)

\* When the reply opens a curated chain, the chain's opener stands for the whole
\* answer.
Replies(requested, kept) ==
    IF ask.route = "dsa" /\ result.shown = None /\ requested = {} THEN {kept, {}} ELSE {kept}

\* _render_dsa: code is shown only under a full plan.
Rendered == [shown |-> IF turn.wants THEN result.shown ELSE None,
             tells |-> result.tells \cap Sections(ask.assistance)]

\* final_response: the agent's answer, a fixed sentence when it has none.
FinalResponse ==
    /\ pc = "reply"
    /\ \E brief \in BOOLEAN, requested \in {parts \cap Rendered.tells : parts \in Requests} :
         \E tells \in Replies(requested, Kept(Rendered.tells, brief, requested)) :
             said' = [text |-> IF result.silent THEN "fallback" ELSE "answer",
                      shown |-> Rendered.shown,
                      tells |-> tells,
                      claims |-> result.claims \cup ExecutionLines,
                      asked |-> requested]
    /\ pc' = "done"
    /\ UNCHANGED <<turn, calls, initial, work, request, checked, ran, ask, row, solution, insight, result>>

\* The reply's own node failed: nothing of the agent's is said.
FallBack ==
    /\ pc = "reply"
    /\ said' = [Nothing EXCEPT !.text = "apology"]
    /\ pc' = "done"
    /\ UNCHANGED <<turn, calls, initial, work, request, checked, ran, ask, row, solution, insight, result>>

Finished == pc = "done" /\ UNCHANGED vars

-----------------------------------------------------------------------------
(* The specification *)

Progress ==
    \/ Understand \/ ResolveSuite
    \/ VerifiedReference \/ Analyse \/ DsaAgent
    \/ GradeAnswer \/ SpokenStep
    \/ Ground \/ Open \/ RunExamples \/ CodeAnswer \/ RunExplain
    \/ Review \/ Talk \/ DebugAgent
    \/ ExecuteAndVerify \/ FinalResponse

Next == Progress \/ Raise \/ FallBack \/ Finished

\* Every model call and sandbox run has a timeout; the graph then goes on.
Spec == Init /\ [][Next]_vars /\ WF_vars(Progress)

-----------------------------------------------------------------------------
(* Properties *)

\* The types of the variables.
TypeOK ==
    /\ DebugTypeOK
    /\ ask \in Ask
    /\ row \in Ladder!Row
    /\ solution \in {None, "unverified", "verified"}
    /\ result.claims \subseteq AllCodes \X Reported
    /\ ran \subseteq AllCodes \X Verdicts

\* What the budget may cost a turn: one call at most is refused, and that is the
\* debugger's, for the last of its patches. Every other agent, and the patches
\* before the last, find a call left, however often theirs are repeated.
RefusalCostsALastPatch ==
    /\ calls <= MaxCalls + 1
    /\ calls > MaxCalls => ask.route = "debug" /\ attempts = MaxPatchAttempts

\* "8 covers the worst real path (image + debug + retry) with headroom"
\* (app/llm/budget.py). A message that is only code, read from an image and
\* debugged, asks for nine.
BudgetCoversTheWorstPath == calls <= MaxCalls

\* Whatever the reply says was run and came to something was run this turn and
\* came to that: the verdict on their own code, on a fix, on the tidied copy,
\* on a reference solution, and the output of an example.
SaidToHaveRunRan ==
    \A claim \in said.claims :
        \E c \in AllCodes : claim[1] \in {None, c} /\ <<c, claim[2]>> \in ran

\* The learner is credited, or blamed, only with what their own code did in a
\* run of this turn, and never solved a problem on a turn whose patch mended
\* their code.
CreditIsTheirs ==
    result.outcome.solved # None =>
        /\ <<Own, result.outcome.solved>> \in ran
        /\ result.outcome.solved = "pass" => patched = None

\* Between a solution that is shown and one that is counted as given. A reply
\* that shows it is recorded of the learner and raises the ladder's row to the
\* top, unless the row was not stored. A row that gets to the top on this turn,
\* and a solution recorded of the learner, were shown: unless the reply's own
\* node failed, the row was at the top already, or it is the debugger's patch,
\* which to_outcome records whether or not the reply shows it.
RevealIsCounted ==
    pc = "done" =>
        /\ said.shown # None =>
             /\ row.level = Ladder!FullReveal \/ row = ask.row
             /\ result.outcome.full
        /\ row.level = Ladder!FullReveal /\ ask.row.level # Ladder!FullReveal
             => said.shown # None \/ said.text = "apology"
        /\ result.outcome.full =>
             \/ said.shown # None \/ said.text = "apology"
             \/ ask.row.level = Ladder!FullReveal
             \/ ask.route = "debug" /\ patched # None

\* What the reply tells of the solution is within the rung the ladder stores,
\* so that the next step and the earned reveal count from what the learner has
\* seen; with the rung unstored, within the rung this turn came to. A full
\* solution that was granted and that nobody could write leaves its parts behind
\* at the old rung: of those the reply tells the ones the learner asked for by
\* name, and after a graded answer the outline.
ToldWithinTheRung ==
    pc = "done" => \A part \in said.tells :
        \/ Gate[part] <= row.level
        \/ row = ask.row /\ Gate[part] <= NextRung
        \/ /\ turn.wants /\ said.shown = None
           /\ part \in said.asked \/ (ask.route = "grade" /\ part = "pseudocode")

\* The turn ends in a reply, however often the patch fails, the model is
\* silent or the sandbox does not answer.
AgentTurnEnds == <>(pc = "done")

=============================================================================
