------------------------------ MODULE CodeEvidence ------------------------------
(***************************************************************************)
(* Where the tests come from that judge a learner's code, and what becomes  *)
(* of their verdict: the suite of a turn (_resolve_test_suite of            *)
(* app/graph/nodes.py), the cases a model proposes and the sandbox proves   *)
(* (app/execution/synth.py), the cases kept for the subject                 *)
(* (app/memory/test_suites.py), the solution a learner asked for, the       *)
(* debugging exercise (app/agents/bug_exercise.py), and the outcome that is *)
(* recorded about the learner (_build_learning_event).                      *)
(*                                                                         *)
(* A program is what it does and how it is called; a test case is an input, *)
(* the programs whose answer it expects, and the call it makes.  A model    *)
(* proposes what it likes; the sandbox may cut a run short, be in trouble,  *)
(* or raise.                                                                *)
(***************************************************************************)
EXTENDS Naturals, FiniteSets

CONSTANTS
    MinSuiteCases,  \* _MIN_SUITE_CASES (lowered: statements here have two inputs)
    SynthAttempts,  \* SYNTH_ATTEMPTS
    PlantAttempts,  \* _ATTEMPTS of plant_bug
    MaxTurns,       \* bound: turns of the conversation
    None

ASSUME SomeCases == MinSuiteCases \in Nat
ASSUME SomeAttempts == SynthAttempts \in Nat \ {0} /\ PlantAttempts \in Nat \ {0}
ASSUME SomeTurns == MaxTurns \in Nat
ASSUME NoneIsNoOutcome == None \notin {"pass", "fail", "solved", "failed"}

VARIABLES
    sandbox,    \* ctx.runner is there
    examples,   \* the worked examples each problem's statement shows
    curated,    \* the exercise's problem has a statement of the bank
    cache,      \* CachedTestSuite: the cases kept for a subject, {} for no row
    exercise,   \* the debugging exercise that was set
    shown,      \* code the tutor has written in this conversation
    turns,      \* turns taken
    pc,         \* the step to take next
    msg,        \* the learner's message
    suite,      \* the turn's TestSuite, {} for none
    source,     \* suite_source
    tries,      \* model calls of the present loop
    solution,   \* the VerifiedSolution
    initial,    \* initial_verdict: their own code
    final,      \* verification: the code run last
    reply,      \* the code shown, and whether it is called checked
    event       \* the outcome of the learning event

vars == <<sandbox, examples, curated, cache, exercise, shown, turns, pc, msg,
          suite, source, tries, solution, initial, final, reply, event>>
world == <<sandbox, curated>>
kept == <<examples, cache, exercise, shown, turns>>
outcome == <<initial, final, reply, event>>

-----------------------------------------------------------------------------
(* Programs, cases and runs *)

\* "script" has no function to call; "broken" raises when it is loaded.
Does == {"right", "bug", "broken", "script"}
Codes == {c \in [does : Does, shape : {"a", "b"}] :
            c.does \in {"broken", "script"} => c.shape = "a"}

\* The correct program and the buggy one differ on the edge input only.  A
\* case of shape "any" passes its arguments by position, the others by name.
Case(input, by, shape) == [input |-> input, by |-> by, shape |-> shape]
Both == {"right", "bug"}

Functions(code) == code.does # "script"

Accepts(code, case) == case.shape \in {"any", code.shape}

SelectEntrypoint(code, cases) ==
    Functions(code) /\ \A case \in cases : Accepts(code, case)

\* Answers are compared in one canonical form: 2.0 is 2, a tuple is a list.
Agrees(code, case) == code.does \in case.by

Passes(code, case) == Functions(code) /\ Accepts(code, case) /\ Agrees(code, case)

Loads(code) == code.does # "broken"

\* The host counts a case as passed only by its own digest of the answer.
AllPass(code, cases) == \A case \in cases : Passes(code, case)

\* How far the harness came, and what the cases said.
Report(code, cases) ==
    IF ~Loads(code) THEN "load"
    ELSE IF cases = {} THEN "completed"
    ELSE IF ~Functions(code) THEN "entrypoint"
    ELSE IF AllPass(code, cases) THEN "passed"
    ELSE "failed"

\* A run may be cut short (time, memory, no report, a report not to be
\* trusted), or the sandbox may have no slot or be in trouble.
Results(code, cases) == {Report(code, cases), "cut", "trouble"}

Verify(result) ==
    CASE result = "passed" -> "pass"
      [] result \in {"trouble", "completed"} -> "inconclusive"
      [] OTHER -> "fail"

Without(cases, seen) ==
    {c \in cases : \A s \in seen : <<s.input, s.shape>> # <<c.input, c.shape>>}

\* Mutant: the kept cases replace the statement's.
WithExtraInstead(base, extra) == IF extra = {} THEN base ELSE extra

WithExtraCases(base, extra) == base \cup Without(extra, base)

\* The cases a model writes (bound): an ordinary one, an edge one too, a wrong
\* answer, or the buggy program's.
Proposals ==
    UNION {{{Case("plain", Both, s)}, {Case("plain", {}, s)},
            {Case("edge", {"bug"}, s)},
            {Case("plain", Both, s), Case("edge", {"right"}, s)}} : s \in {"a", "b"}}

-----------------------------------------------------------------------------
(* Subjects *)

\* The learner's own problem, and the one an exercise is set on.
Problems == {"theirs", "exercise"}

\* The examples of a statement that can be read as calls.
Statements ==
    {{}} \cup {{Case("plain", Both, s)} : s \in {"any", "a"}}
         \cup {{Case("plain", Both, "any"), Case("edge", {"right"}, "any")}}

\* Bound: the code that is sent; an ask for the solution comes without.
Attempts == {c \in Codes : c.does # "broken"} \ {[does |-> "bug", shape |-> "b"]}

\* A problem is "stated" (its statement is in the turn, pasted or carried),
\* "named" (a curated problem, by its title), or neither.
Messages == [
    ask : {"attempt", "solution", "exercise"},
    code : Attempts \cup {None},
    about : Problems,
    problem : {"stated", "named", "none"},
    pasted : BOOLEAN]       \* the code is mostly the tutor's own

Stated == msg.problem = "stated"

\* subject_key: the statement's title, else the code.
SubjectKey ==
    IF msg.ask = "exercise" THEN <<"t", "exercise">>
    ELSE IF Stated THEN <<"t", msg.about>>
    ELSE <<"c", msg.code>>

Keys == ({"t"} \X Problems) \cup ({"c"} \X Codes)

\* extract_test_suite for a program, from the statement of the turn.
Extract(code, known) ==
    IF SelectEntrypoint(code, known) THEN known ELSE {}

\* The statement, or for named problems with code the bank's.
KnownExamples == IF msg.problem = "none" THEN {} ELSE examples[msg.about]

Extracted == Extract(msg.code, KnownExamples)

Init ==
    /\ sandbox \in BOOLEAN
    /\ curated \in BOOLEAN
    /\ \E statement \in Statements :
          examples = [p \in Problems |->
                        IF p = "theirs" THEN statement
                        ELSE IF curated THEN {Case("plain", Both, "any")}
                        ELSE {}]
    /\ cache = [k \in Keys |-> {}]
    /\ exercise = None
    /\ shown = {}
    /\ turns = 0
    /\ pc = "asked"
    /\ msg = None
    /\ suite = {}
    /\ source = "none"
    /\ tries = 0
    /\ solution = None
    /\ initial = None
    /\ final = None
    /\ reply = None
    /\ event = None

-----------------------------------------------------------------------------
(* The suite of the turn *)

Receive(m) ==
    /\ pc = "asked"
    /\ turns < MaxTurns
    /\ m.about = "exercise" => exercise # None /\ m.problem = "stated"
    /\ m.pasted => m.code \in shown
    /\ m.ask = "attempt" <=> m.code # None
    /\ m.ask = "exercise" => m.problem = "none"
    /\ msg' = m
    /\ pc' = IF m.code # None THEN "suite"
             ELSE IF m.ask = "exercise" /\ ~sandbox THEN "record"
             ELSE "reference"
    /\ event' = None
    /\ UNCHANGED <<world, kept, suite, source, tries, solution, initial,
                   final, reply>>

\* The steps after the suite: a solution is looked for when it was asked for.
AfterSuite == IF msg.ask = "solution" THEN "reference" ELSE "run"

CanSynthesise == sandbox /\ Functions(msg.code)

\* The kept cases, or none: a failed read must not cost the turn.
Cached(readable) == IF readable THEN cache[SubjectKey] ELSE {}

TopUp(cached) ==
    /\ cached = {}
    /\ Cardinality(Extracted) < MinSuiteCases
    /\ CanSynthesise

\* The statement's examples, with the kept cases.
ResolveExtracted(cached) ==
    /\ Extracted # {}
    /\ suite' = WithExtraCases(Extracted, cached)
    /\ source' = "extracted"
    /\ pc' = IF TopUp(cached) THEN "synthesise" ELSE AfterSuite

\* No example fits the code: the kept cases if they fit it, else new ones.
ResolveCached(cached) ==
    /\ Extracted = {}
    /\ cached # {}
    /\ SelectEntrypoint(msg.code, cached)
    /\ suite' = cached
    /\ source' = "synthesised"
    /\ pc' = AfterSuite

ResolveNew(cached) ==
    /\ Extracted = {}
    /\ cached = {} \/ ~SelectEntrypoint(msg.code, cached)
    /\ UNCHANGED <<suite, source>>
    /\ pc' = IF CanSynthesise THEN "synthesise" ELSE AfterSuite

ResolveTestSuite(readable) ==
    /\ pc = "suite"
    /\ \/ ResolveExtracted(Cached(readable))
       \/ ResolveCached(Cached(readable))
       \/ ResolveNew(Cached(readable))
    /\ UNCHANGED <<world, kept, msg, tries, solution, outcome>>

\* No suite comes back: no usable proposal in time, a refused call, a sandbox
\* that could not finish, or anything raised.
SynthesiseNothing ==
    /\ pc = "synthesise"
    /\ tries' = 0
    /\ pc' = AfterSuite
    /\ UNCHANGED <<world, kept, msg, suite, source, solution, outcome>>

\* The reply is unusable: no object, no code, cases the learner's function
\* cannot be called with, a reference without that function.
SynthesiseUnusable ==
    /\ pc = "synthesise"
    /\ tries + 1 < SynthAttempts
    /\ tries' = tries + 1
    /\ UNCHANGED <<world, kept, pc, msg, suite, source, solution, outcome>>

\* The reference passes every case it came with.
Proves(reference, cases) ==
    \E result \in Results(reference, cases) : Verify(result) = "pass"

\* A proposal that holds is kept for the subject, unless the write fails, and
\* becomes the suite, or tops up the examples.
Synthesise(reference, cases, written) ==
    /\ pc = "synthesise"
    /\ SelectEntrypoint(msg.code, cases)
    /\ Functions(reference)
    /\ Proves(reference, cases)
    /\ suite' = WithExtraCases(suite, cases)
    /\ source' = IF suite = {} THEN "synthesised" ELSE source
    /\ cache' = IF written THEN [cache EXCEPT ![SubjectKey] = cases] ELSE cache
    /\ tries' = 0
    /\ pc' = AfterSuite
    /\ UNCHANGED <<world, examples, exercise, shown, turns, msg, solution, outcome>>

-----------------------------------------------------------------------------
(* The solution they asked for, or an exercise starts from *)

AfterReference ==
    IF msg.ask # "exercise" THEN "run"
    ELSE IF solution' # None /\ solution'.verified THEN "plant"
    ELSE "record"

\* verified_reference reads the examples of the statement alone; an exercise
\* without a curated statement is asked for by its title.
ReferenceExamples ==
    IF msg.ask = "exercise" THEN (IF curated THEN examples["exercise"] ELSE {})
    ELSE IF Stated THEN examples[msg.about]
    ELSE {}

\* What a proposed reference is run against: the examples that fit it, else
\* the cases that came with it.
ReferenceSuite(code, proposed) ==
    IF Extract(code, ReferenceExamples) # {} THEN Extract(code, ReferenceExamples)
    ELSE IF Functions(code) THEN proposed
    ELSE {}

\* With no sandbox or no case there is nothing to run.
Runnable(code, cases) == sandbox /\ cases # {}

EndReference(candidate) ==
    /\ solution' = candidate
    /\ tries' = 0
    /\ pc' = AfterReference
    /\ UNCHANGED <<world, kept, msg, suite, source, outcome>>

\* A solution with the cases it ran against, or None when it did not run.
Candidate(code, cases, verified) ==
    [code |-> code, cases |-> cases, verified |-> verified]

\* A model that does not answer leaves the best candidate so far; an exception
\* leaves none.
ReferenceRefused ==
    /\ pc = "reference"
    /\ \/ EndReference(solution)
       \/ EndReference(None)

\* No usable code: asked once more.
ReferenceUnusable ==
    /\ pc = "reference"
    /\ tries + 1 < SynthAttempts
    /\ tries' = tries + 1
    /\ UNCHANGED <<world, kept, pc, msg, suite, source, solution, outcome>>

\* It is shown all the same, as code nothing checked.
ReferenceUnchecked(code, proposed) ==
    /\ pc = "reference"
    /\ \/ /\ ~Runnable(code, ReferenceSuite(code, proposed))
          /\ EndReference(Candidate(code, None, FALSE))
       \/ /\ Runnable(code, ReferenceSuite(code, proposed))
          /\ \E result \in Results(code, ReferenceSuite(code, proposed)) \ {"failed"} :
                /\ Verify(result) # "pass"
                /\ EndReference(Candidate(code, ReferenceSuite(code, proposed), FALSE))

\* It fails its cases: told which, the model is asked once more.
ReferenceFailed(code, proposed) ==
    LET cases == ReferenceSuite(code, proposed)
    IN  /\ pc = "reference"
        /\ Runnable(code, cases)
        /\ Report(code, cases) = "failed"
        /\ \/ /\ tries + 1 < SynthAttempts
              /\ tries' = tries + 1
              /\ solution' = Candidate(code, cases, FALSE)
              /\ UNCHANGED <<world, kept, pc, msg, suite, source, outcome>>
           \/ /\ tries + 1 = SynthAttempts
              /\ EndReference(Candidate(code, cases, FALSE))

\* The examples alone, or with the proposed cases the reference agrees with,
\* when both further runs went through.
Widened(code, cases, proposed) ==
    {cases, cases \cup {c \in proposed : Passes(code, c)}}

ReferencePassed(code, proposed) ==
    LET cases == ReferenceSuite(code, proposed)
    IN  /\ pc = "reference"
        /\ Runnable(code, cases)
        /\ Report(code, cases) = "passed"
        /\ \E wider \in Widened(code, cases, proposed) :
              EndReference(Candidate(code, wider, TRUE))

-----------------------------------------------------------------------------
(* The exercise: the same code with one bug *)

PlantNothing ==
    /\ pc = "plant"
    /\ tries' = 0
    /\ pc' = "record"
    /\ UNCHANGED <<world, kept, msg, suite, source, solution, outcome>>

\* Unusable, unchanged, not run to a result, or it still passes.
PlantAgain ==
    /\ pc = "plant"
    /\ tries + 1 < PlantAttempts
    /\ tries' = tries + 1
    /\ UNCHANGED <<world, kept, pc, msg, suite, source, solution, outcome>>

\* Mutant: any fail will do.
CaughtAnyhow(code, cases) ==
    \E result \in Results(code, cases) : Verify(result) = "fail"

\* The cases ran, and one of them failed.
Caught(code, cases) == Report(code, cases) = "failed"

\* A statement the tutor has no text for is written by the model, with one
\* worked example that nothing runs.
WrittenExamples ==
    IF curated THEN {examples["exercise"]}
    ELSE {{}} \cup {{Case("plain", by, "any")} : by \in {Both, {}}}

PlantBug(code, statement, written) ==
    /\ pc = "plant"
    /\ code # solution.code
    /\ Caught(code, solution.cases)
    /\ exercise' = code
    /\ examples' = [examples EXCEPT !["exercise"] = statement]
    /\ cache' = IF written THEN [cache EXCEPT ![SubjectKey] = solution.cases] ELSE cache
    /\ reply' = [code |-> code, checked |-> FALSE]
    /\ tries' = 0
    /\ pc' = "record"
    /\ UNCHANGED <<world, shown, turns, msg, suite, source, solution,
                   initial, final, event>>

-----------------------------------------------------------------------------
(* What is run, shown and recorded *)

OwnRun == msg.code # None /\ suite # {}

\* What a run of the code comes back with; no sandbox, no verdict.
Verdicts(code, cases) ==
    IF sandbox THEN {Verify(r) : r \in Results(code, cases)} ELSE {"inconclusive"}

RunLearnerCode ==
    /\ pc = "run"
    /\ initial' \in IF OwnRun THEN Verdicts(msg.code, suite) ELSE {None}
    /\ pc' = IF msg.ask = "solution" THEN "reveal" ELSE "execute"
    /\ UNCHANGED <<world, kept, msg, suite, source, tries, solution,
                   final, reply, event>>

\* Mutant: the code is called checked because it was asked for.
LabelShown(candidate) == [code |-> candidate.code, checked |-> TRUE]

\* Only a pass in the sandbox is called checked.
Label(candidate) == [code |-> candidate.code, checked |-> candidate.verified]

\* The solution found, else the solver's own code, which is run without cases,
\* else nothing.
Reveal(solver) ==
    /\ pc = "reveal"
    /\ pc' = "execute"
    /\ solution' = IF solution = None /\ solver # None
                   THEN Candidate(solver, {}, FALSE)
                   ELSE solution
    /\ reply' = IF solution' = None THEN None ELSE Label(solution')
    /\ UNCHANGED <<world, kept, msg, suite, source, tries, initial,
                   final, event>>

\* Their own code comes before the solution; nothing to run, no verification.
ExecuteCode ==
    /\ pc = "execute"
    /\ final' \in IF OwnRun THEN Verdicts(msg.code, suite)
                  ELSE IF solution # None /\ solution.cases # None
                  THEN Verdicts(solution.code, solution.cases)
                  ELSE {None}
    /\ pc' = "record"
    /\ UNCHANGED <<world, kept, msg, suite, source, tries, solution,
                   initial, reply, event>>

SolvedFromVerdict == initial

\* How code the tutor wrote behaves says nothing about the learner, except the
\* exercise, which is theirs to fix.
IsTheTutorsCode == msg.pasted /\ msg.about # "exercise"

\* Mutant: cases written from the learner's code alone judge it.
CountsWhatever == SolvedFromVerdict \in {"pass", "fail"} /\ ~IsTheTutorsCode

Counts ==
    /\ SolvedFromVerdict \in {"pass", "fail"}
    /\ source = "synthesised" => Stated
    /\ ~IsTheTutorsCode

\* Of a turn only what is stored outlives it.
BuildLearningEvent ==
    /\ pc = "record"
    /\ event' = IF ~Counts THEN "unknown"
                ELSE IF SolvedFromVerdict = "pass" THEN "solved" ELSE "failed"
    /\ shown' = IF reply = None THEN shown ELSE shown \cup {reply.code}
    /\ turns' = turns + 1
    /\ pc' = "asked"
    /\ msg' = None
    /\ suite' = {}
    /\ source' = "none"
    /\ tries' = 0
    /\ solution' = None
    /\ initial' = None
    /\ final' = None
    /\ reply' = None
    /\ UNCHANGED <<world, examples, cache, exercise>>

-----------------------------------------------------------------------------
Suites ==
    \/ \E readable \in BOOLEAN : ResolveTestSuite(readable)
    \/ SynthesiseNothing
    \/ SynthesiseUnusable
    \/ /\ pc = "synthesise"
       /\ \E reference \in Codes, cases \in Proposals, written \in BOOLEAN :
             Synthesise(reference, cases, written)

References ==
    \/ ReferenceRefused
    \/ ReferenceUnusable
    \/ /\ pc = "reference"
       /\ \E code \in Codes, proposed \in Proposals \cup {{}} :
             \/ ReferenceUnchecked(code, proposed)
             \/ ReferenceFailed(code, proposed)
             \/ ReferencePassed(code, proposed)

Exercises ==
    \/ PlantNothing
    \/ PlantAgain
    \/ /\ pc = "plant"
       /\ \E code \in Codes, statement \in WrittenExamples, written \in BOOLEAN :
             PlantBug(code, statement, written)

\* The code of a solver that shows its own (bound).
SolverCodes == {None, [does |-> "right", shape |-> "a"]}

Reply ==
    \/ RunLearnerCode
    \/ \E solver \in SolverCodes : Reveal(solver)
    \/ ExecuteCode
    \/ BuildLearningEvent

Step == Suites \/ References \/ Exercises \/ Reply

Next == Step \/ \E m \in Messages : Receive(m)

Spec == Init /\ [][Next]_vars

-----------------------------------------------------------------------------
(* Properties *)

Records(outcomes) == event = None /\ event' \in outcomes

\* A program recorded as solved passed every worked example of the problem that
\* the code can be called with: the kept or proposed cases are added to the
\* examples and never replace them (_resolve_test_suite, _with_extra_cases).
SolvedPassesExamples ==
    [][Records({"solved"}) =>
        \A case \in Extracted : Passes(msg.code, case)]_vars

\* Cases written from the learner's code alone never judge it: an outcome is
\* recorded only when the problem's statement is there or its examples were in
\* the suite, and only from the run of code of the learner's own
\* (_build_learning_event, solved_from_verdict).
JudgedOnTheirOwn ==
    [][Records({"solved", "failed"}) =>
        /\ OwnRun
        /\ Stated \/ Extracted # {}
        /\ msg.pasted => msg.about = "exercise"
        /\ event' = "solved" <=> initial = "pass"]_vars

\* Code shown as checked passed, in the sandbox, every case the reply speaks
\* of, the statement's examples that it can be called with among them
\* (_check_reference, _with_proposed_cases, run_dsa).
CheckedCodePassed ==
    reply # None /\ reply.checked =>
        /\ sandbox
        /\ Extract(reply.code, ReferenceExamples) \subseteq solution.cases
        /\ Report(reply.code, solution.cases) = "passed"

\* An exercise is code that runs and fails one of the cases the solution it was
\* made from passes, and those are the cases a fix is judged by, when they could
\* be kept (plant_bug, _bug_exercise_turn).
ExerciseHasABug ==
    [][pc = "plant" /\ reply' # None =>
        /\ exercise'.does # "broken"
        /\ Report(exercise', solution.cases) # "passed"
        /\ Report(solution.code, solution.cases) = "passed"
        /\ cache'[<<"t", "exercise">>] \in {solution.cases,
                                           cache[<<"t", "exercise">>]}]_vars

=============================================================================
