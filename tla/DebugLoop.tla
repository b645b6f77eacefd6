------------------------------- MODULE DebugLoop -------------------------------
(***************************************************************************)
(* One debug turn: the debugger's subgraph (app/graph/subgraphs/debug.py)   *)
(* and the nodes of the outer graph around it (debug_agent, execute_code,   *)
(* verify_execution of app/graph/nodes.py), up to what the reply says       *)
(* (_render_debug of app/response/generate.py).                             *)
(*                                                                         *)
(* A sandbox run and a model call answer as they like: the same code may    *)
(* fail one run and pass the next, a call may be unusable or refused by the *)
(* budget, and any step may raise.                                          *)
(***************************************************************************)
EXTENDS Naturals

CONSTANTS
    MaxPatchAttempts,   \* MAX_PATCH_ATTEMPTS
    MaxCalls,           \* DEFAULT_MAX_LLM_CALLS: model calls a turn may make
    None

ASSUME SomeAttempts == MaxPatchAttempts \in Nat \ {0}
ASSUME SomeCalls == MaxCalls \in Nat
ASSUME NoneIsNoCode == None \notin Nat

VARIABLES
    turn,       \* what the message and the deployment are
    pc,         \* the step to take next
    calls,      \* model calls asked for, the refused ones too
    initial,    \* initial_verdict: their own code
    found,      \* reading_found_bug
    patched,    \* patched_code
    final,      \* final_verdict: the patch
    attempts,   \* patch calls made
    presented,  \* presented_code
    request,    \* the execution request handed to the outer graph
    checked,    \* the outer graph's verification
    ran         \* history: every run of a code and its verdict

debugVars == <<turn, pc, calls, initial, found, patched, final, attempts, presented,
          request, checked, ran>>
work == <<found, patched, final, attempts, presented>>

\* A code is told by its origin: the learner's own, a patch by its attempt, or
\* the tidied copy of their own.
Own == 0
Patches == 1..MaxPatchAttempts
Tidy == MaxPatchAttempts + 1
Codes == {Own, Tidy} \cup Patches

\* What verify() says of a run; "keyboard" is the inconclusive verdict of a
\* program that waits for input().
Ran == {"pass", "fail", "no tests", "unavailable"}
Verdicts == Ran \cup {"skipped", "keyboard", None}
Inconclusive == {"no tests", "unavailable", "keyboard"}

ASSUME NoneIsNoVerdict ==
    None \notin Ran \cup {"skipped", "keyboard", "unverified", "verified"}

Messages == [
    code: BOOLEAN,      \* there is code
    wants: BOOLEAN,     \* wants_code: the plan is at full
    sole: BOOLEAN,      \* debug only by the rule for a message that is only code
    runner: BOOLEAN,    \* the sandbox is there
    packages: BOOLEAN,  \* the sandbox has what the code imports
    whole: BOOLEAN,     \* the code is not part of a function
    keyboard: BOOLEAN,  \* it calls input()
    tests: BOOLEAN]     \* a test suite was found

\* Without code there is nothing to say about it.
Turns == {m \in Messages :
            ~m.code => /\ ~m.sole /\ ~m.keyboard /\ ~m.tests
                       /\ m.packages /\ m.whole}

DebugInit ==
    /\ turn \in Turns
    /\ calls = 0
    /\ pc = "start"
    /\ initial = None
    /\ found = FALSE
    /\ patched = None
    /\ final = None
    /\ attempts = 0
    /\ presented = None
    /\ request = None
    /\ checked = None
    /\ ran = {}

-----------------------------------------------------------------------------
(* The sandbox and the model *)

\* What running a code can come to. Their own code stops at an import the
\* sandbox lacks, and at input() if it gets that far; the code of another
\* agent comes with cases of its own, or with none.
Outcomes(c) ==
    IF ~turn.runner THEN {"unavailable"}
    ELSE IF c \notin Codes THEN Ran
    ELSE IF c = Own /\ ~turn.packages THEN {"fail", "unavailable"}
    ELSE {"fail", "unavailable"}
           \cup (IF turn.tests THEN {"pass"} ELSE {"no tests"})
           \cup (IF c = Own /\ turn.keyboard THEN {"keyboard"} ELSE {})

Runs(c, verdict) ==
    /\ verdict \in Outcomes(c)
    /\ ran' = ran \cup {<<c, verdict>>}

\* One call of the model: usable or not, and never usable over the budget.
Asks(usable) ==
    /\ usable => calls < MaxCalls
    /\ calls' = calls + 1

-----------------------------------------------------------------------------
(* debug_agent, up to the subgraph *)

\* A message that is only code, of which nothing wrong is reported, and that
\* can be run as it is.
MayJustAnswer == turn.sole /\ ~turn.wants /\ turn.runner /\ ~turn.keyboard

\* It ran to its end and printed something: the question is answered with that
\* output and the turn is no debug turn after all.
AnswerQuestion ==
    /\ pc = "asked"
    /\ MayJustAnswer
    /\ turn.packages
    /\ Asks(TRUE)
    /\ ran' = ran \cup {<<Own, "no tests">>}
    /\ pc' = "execute"
    /\ UNCHANGED <<turn, initial, work, request, checked>>

\* Not such a message, or its code did not run to an output, or the model
\* had no answer about that output.
Debug ==
    /\ pc = "asked"
    /\ \/ UNCHANGED calls
       \/ MayJustAnswer /\ turn.packages /\ Asks(FALSE)
    /\ pc' = "suite"
    /\ UNCHANGED <<turn, initial, work, request, checked, ran>>

\* What is read, never run: there is no sandbox, or running it would report
\* the missing package or the missing lines as the learner's bug.
ReadOnly ==
    \/ ~turn.runner
    \/ turn.code /\ ~turn.packages /\ ~turn.wants
    \/ turn.code /\ ~turn.whole

StaticReview ==
    /\ pc = "debug"
    /\ ReadOnly
    /\ IF turn.code THEN \E usable \in BOOLEAN : Asks(usable) ELSE UNCHANGED calls
    /\ initial' = "skipped"
    /\ final' = "skipped"
    /\ presented' = IF turn.code /\ turn.wants /\ ~turn.runner THEN Own ELSE None
    /\ pc' = "execute"
    /\ UNCHANGED <<turn, found, patched, attempts, request, checked, ran>>

-----------------------------------------------------------------------------
(* The subgraph *)

\* static_analysis, run_tests, find_failing_case and localize.
RunTests ==
    /\ pc = "debug"
    /\ ~ReadOnly
    /\ IF turn.code
       THEN \E verdict \in Outcomes(Own) :
              /\ Runs(Own, verdict)
              /\ initial' = verdict
              /\ request' = IF verdict = "keyboard" THEN None ELSE Own
       ELSE initial' = "skipped" /\ UNCHANGED <<ran, request>>
    /\ pc' = "explain"
    /\ UNCHANGED <<turn, calls, work, checked>>

Established == initial = "fail"

\* read_code: one call, whose answer may name a bug where one may be named.
ReadCode(mayFind) ==
    \E usable \in BOOLEAN :
        /\ Asks(usable)
        /\ found' \in IF usable /\ mayFind THEN BOOLEAN ELSE {FALSE}

\* Code that passed is not asked about for a bug, and not at all when _present
\* is about to be; an error without code is read on its own and names no bug.
Explain ==
    /\ pc = "explain"
    /\ IF initial = "pass" /\ turn.wants
       THEN UNCHANGED <<calls, found>>
       ELSE ReadCode(turn.code /\ initial # "pass")
    /\ pc' = "patch"
    /\ UNCHANGED <<turn, initial, patched, final, attempts, presented, request, checked, ran>>

\* A bug only the reading found is fixed once, and only when asked.
FixAskedForAReadBug == turn.wants /\ found /\ attempts = 0

Patch ==
    /\ pc = "patch"
    /\ IF Established \/ FixAskedForAReadBug
       THEN \E usable \in BOOLEAN :
              /\ Asks(usable)
              /\ attempts' = attempts + 1
              /\ patched' = IF usable THEN attempts + 1 ELSE None
       ELSE patched' = None /\ UNCHANGED <<calls, attempts>>
    /\ pc' = "rerun"
    /\ UNCHANGED <<turn, initial, found, final, presented, request, checked, ran>>

\* Another attempt while a proven failure stands, within the cap.
PatchAgain(verdict) ==
    /\ Established
    /\ verdict # "pass"
    /\ attempts < MaxPatchAttempts

\* re_run and verify_final.
ReRun ==
    /\ pc = "rerun"
    /\ IF patched = None
       THEN final' = "skipped" /\ UNCHANGED ran
       ELSE \E verdict \in Outcomes(patched) : Runs(patched, verdict) /\ final' = verdict
    /\ pc' = IF PatchAgain(final') THEN "patch" ELSE "present"
    /\ UNCHANGED <<turn, calls, initial, found, patched, attempts, presented, request, checked>>

\* They asked for the code and there is no fix to show.
PresentsTheirs ==
    /\ turn.wants
    /\ turn.code
    /\ ~Established
    /\ patched = None
    /\ initial \in {"pass"} \cup Inconclusive

\* The tidied copy does what their own code did.
HeldUp(verdict) ==
    \/ initial = "pass" /\ verdict = "pass"
    \/ initial \in {"no tests", "keyboard"} /\ verdict = "no tests"

Present ==
    /\ pc = "present"
    /\ IF PresentsTheirs
       THEN \E usable \in BOOLEAN :
              /\ Asks(usable)
              /\ IF usable
                 THEN \E verdict \in Outcomes(Tidy) :
                        /\ Runs(Tidy, verdict)
                        /\ presented' = IF HeldUp(verdict) THEN Tidy ELSE Own
                 ELSE presented' = Own /\ UNCHANGED ran
       ELSE UNCHANGED <<calls, presented, ran>>
    /\ pc' = "map"
    /\ UNCHANGED <<turn, initial, found, patched, final, attempts, request, checked>>

-----------------------------------------------------------------------------
(* Back in the outer graph *)

\* run_debug hands over the patch to run again, else their own code, and
\* nothing that waits for the keyboard.
MapBack ==
    /\ pc = "map"
    /\ request' = IF initial = "keyboard" THEN None
                  ELSE IF patched # None THEN patched ELSE request
    /\ pc' = "execute"
    /\ UNCHANGED <<turn, calls, initial, work, checked, ran>>

\* Mutant: the outer graph waits for a request no agent set.
ExecuteRequest ==
    /\ pc = "execute"
    /\ request # None
    /\ \E verdict \in Outcomes(request) : Runs(request, verdict) /\ checked' = verdict
    /\ pc' = "reply"
    /\ UNCHANGED <<turn, calls, initial, work, request>>

\* execute_code and verify_execution: either node may fail, and then its
\* fallback's verdict is inconclusive.
Execute ==
    /\ pc = "execute"
    /\ IF request = None
       THEN UNCHANGED <<checked, ran>>
       ELSE \/ \E verdict \in Outcomes(request) : Runs(request, verdict) /\ checked' = verdict
            \/ checked' = "unavailable" /\ UNCHANGED ran
    /\ pc' = "reply"
    /\ UNCHANGED <<turn, calls, initial, work, request>>

-----------------------------------------------------------------------------
(* What the turn says *)

\* "A fix was found and verified in the sandbox".
Fixed == final = "pass"

\* The patch ran to its end with no case to judge it by.
PatchRanClean == final = "no tests" /\ initial \in {"fail"} \cup Inconclusive

PatchShown == patched # None /\ turn.wants
TheirsShown == presented # None /\ ~PatchShown

-----------------------------------------------------------------------------
(* Properties *)

\* The types of the variables.
DebugTypeOK ==
    /\ turn \in Messages
    /\ calls \in Nat
    /\ initial \in Verdicts
    /\ found \in BOOLEAN
    /\ patched \in Patches \cup {None}
    /\ final \in Verdicts
    /\ attempts \in 0..MaxPatchAttempts
    /\ presented \in {Own, Tidy, None}
    /\ checked \in Verdicts

=============================================================================
