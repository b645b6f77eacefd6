# A verification project for the adaptive coding agent

The program is a tutor for data structures and algorithms: a FastAPI server
that runs every message of a learner through a LangGraph "teaching graph", keeps
what it learns in PostgreSQL, runs code in Docker containers, and a browser page
that streams the replies. This directory holds TLA+ models of the parts whose
correctness depends on sequences and interleavings a test suite does not reach,
the TLC configurations that check them, and TLAPS proofs.

Paths below are relative to the repository root (`app/...`, `frontend/...`).

## 1. Inventory

| Component | State it keeps | Operations | What is hard |
|---|---|---|---|
| Hint policy and ladder: `agents/planner.py`, `agents/hint_engine.py`, `graph/subgraphs/dsa.py`, `tutoring/turn.py`, the hint parts of `graph/nodes.py` | `hint_progress` rows (level, verified attempt, ceiling); in `session_progress` the scaffold floor, the hold, the earlier problem; `pending_check`; `active_problem` | a DSA turn, a turn with code, a graded reply, a problem switch | long sequences of legal turns; limits applied in an order; levels stored under one mode and used under another; stores that fail one by one |
| Turn persistence: `memory/conversation.py`, `memory/events.py`, `memory/hint_progress.py`, `update_learner_model` in `graph/nodes.py` | `messages`, `learning_events`, `learner_profile`, `hint_progress`, `conversations` | a turn, rename, delete | overlapping transactions, row locks taken in opposite orders, rows read before a model call and written after it, savepoints, rollback |
| Login sessions: `auth/routes.py`, `auth/deps.py`, `db/auth.py` | `refresh_tokens` | login, refresh, logout, authenticate | rotation racing logout and itself, retries, grace period, clock leeway |
| Streamed turn: `graph/api.py`, `graph/build.py` | generator, graph task, queue, database session | open, stage, result, commit, answer, abandon | cancellation, lost connections, a failing commit, a dying process |
| Browser page: `frontend/js/chat.js`, `sessions.js`, `streaming.js`, `api.js` | active conversation, message list, titles, the turn in flight | select, send, show, title, refresh | every `await` lets the learner click elsewhere |
| Code sandbox: `execution/sandbox.py`, `execution/runner.py` | containers, a semaphore, a thread pool | run, kill, remove, sweep | cancellation during creation, sweeps by another process, threads kept by timed-out waits |
| LLM clients: `llm/client.py`, `llm/budget.py` | the failover cursor and its window, a call count per turn | call, advance, wait, rewind, retry | overlapping calls share the cursor across awaits |
| Teaching graph: `graph/build.py`, `graph/routing.py`, `graph/nodes.py` | the state of one run; between runs the active and the earlier subject, the pending check, the last thread, the open quiz | about 18 nodes, 4 branch points, one decision | every message is read against what earlier turns left; a failing node is replaced by its fallback; each store of a turn may fail alone |
| Debug agent: `graph/subgraphs/debug.py`, `agents/debugger.py` | attempts, last patch, three verdicts | reproduce, read, patch, re-run, present | a bounded loop over unreliable calls; a claim, a patch and a verdict that come from different runs |
| Learner profile: `memory/profile.py`, the profile parts of `graph/nodes.py` | mastery by skill and by topic, half-life, times | fold an event, decay, estimate, report a delta | order and time of folding, overlapping turns, evidence on one topic read by another |
| Execution verification, test generation, harness: `execution/` | the kept test cases of a problem | collect, propose and filter cases, run, judge, keep | what a verdict is evidence of: whose code, on which cases, run or only read |
| Tutoring bank, grader, progression, adaptation, misconceptions: `tutoring/` | fields of the session progress: grades, questions asked, evidence log, last practice | ask, grade, react, pick a problem, say what was adapted | claims about several earlier turns; questions repeated over turns; rules of a grader in an order |
| Quiz, bug exercises, practice: `agents/assess.py`, `bug_exercise.py`, `practice.py` | the open quiz and its position | ask, mark, close, abandon | answers that arrive after the conversation has moved on |
| Agents of a turn and its reply: `graph/subgraphs/`, `agents/`, `response/` | one turn's calls, runs, verdicts, rung, reply | reference, analysis, hint, explanation, review, reply | a claim, a code and a verdict that come from different runs; a budget shared by every helper |
| Input: `input/normalize.py`, `vision.py`, `snippet.py`, `intent.py` | none | sort lines, transcribe an image, merge, wrap a snippet | a line that two rules want and neither keeps |
| Retrieval and knowledge | a fixed index | rank | none over time; what is searched for is a matter of the turn's subject |
| Start, settings, migrations, evaluation | none at run time | | |

How they interact: the page opens `POST /chat/stream`; `_chat_stream_events`
starts the graph in a task and owns the database session; the graph's nodes read
the conversation and the ladder, call the LLM clients and the sandbox, and write
messages, events, profile, ladder and tutoring state through that one session;
the single commit of the turn makes them visible; the page adds the reply and
titles the conversation. Every request is authenticated against the
`refresh_tokens` rows of its session.

## 2. Modules

| Module | Models | Depends on |
|---|---|---|
| `HintPolicy` | the pure rules of one turn's help, as operators | |
| `HintLadder` | the ladder of a conversation, a turn per step | `HintPolicy` |
| `MCHintLadder` | instances for TLC and the view | `HintLadder` |
| `TurnLog` | abstract: what a conversation promises a reader | |
| `ConversationTurns` | overlapping turn transactions, rename, delete; refines `TurnLog` | `TurnLog` |
| `LoginSession` | abstract: what a login promises | |
| `AuthSessions` | overlapping login, refresh, logout; refines `LoginSession` | `LoginSession` |
| `ChatStream` | the server side of a streamed turn | |
| `Workspace` | the page, composed with `ChatStream` | `ChatStream` |
| `Sandbox` | server processes and their containers on one Docker daemon | |
| `Failover` | the model calls of overlapping turns: budgets and the shared failover chains | |
| `DebugLoop` | the debugger's subgraph and the outer nodes around it | |
| `AgentTurn` | the agents of one turn, the calls, runs and rung they spend, and what the reply says of them | `DebugLoop`, `HintPolicy` |
| `TurnDecision` | what a message is about and which node answers it, as operators | |
| `TeachingGraph` | the turns of a conversation through the compiled graph | `TurnDecision` |
| `CodeEvidence` | which cases judge which code, what a verdict is evidence of, what is kept | |
| `LearnerProfile` | mastery, decay and difficulty across the turns of a learner | |
| `Grading` | the rules of the grader, as operators | |
| `TutoringSession` | questions, grades, practice problems and claims from turn to turn | `Grading` |
| `MessageReading` | a message, line by line, into a structured input | |
| `MCServices` | `Sandbox` and `Failover` in one run: a behaviour uses one of them | both |
| `MCTeachingGraph` | the symmetry of its statements, and which overlaps are worth a step | `TeachingGraph` |
| `MCAgentTurn`, `MCLearnerProfile`, `MCMessageReading`, `MCTutoringSession` | instances for TLC | the modules they name |
| `LearnerProofs` | lemmas and theorems about `HintLadder` and `LearnerProfile`: what is kept of a learner | both, TLAPS |
| `ConversationProofs` | the same about `ConversationTurns` and `TutoringSession`: what is kept of a conversation | both, TLAPS |
| `ServiceProofs` | the same about `Sandbox` and `Failover`: the services a turn calls | both, TLAPS |
| `AgentTurnProofs`, `AuthProofs`, `WorkspaceProofs`, `TeachingGraphProofs`, `CodeEvidenceProofs` | the same about `AgentTurn`, `AuthSessions`, `Workspace`, `TeachingGraph`, `CodeEvidence` | the module they name, TLAPS |

Where one proof module is about two components, the second component's
specification has names of its own (`CallsSpec`, `TutoringSpec`, `ProfileSpec`).

### HintPolicy and HintLadder

Assistance levels and hint levels are their positions in the code's own
orderings; `Unset` (-1) is a Python `None`. `ladder` is the `hint_progress`
table by problem; `floor`, `withholdKey`, `earlier` are fields of
`session_progress`; `active` and `pending` are columns of `conversations`.
`turn` records what the last turn was asked and what it served. `attempted`,
`granted` and `doors` are history variables: the problems a sandbox ran code on,
those whose full level was granted outside Challenge mode, and those the learner
asked the code of or gave up on. No guard reads them.

A turn is one step, because a turn's effects become visible at one commit; its
three stores may fail separately (`SaveFailures`), as the code's savepoints may.
Its read of the ladder may fail too: `ResolveHintProgress` then gives a new row,
which the turn's upsert writes over the stored one.
`DsaTurn` is a message routed to `dsa_agent` (plan, floor, cap, hold, rung,
upsert, next check), `CodeTurn` a message with code that the debug or review
agent runs, `GradeTurn` a reply to the pending check. How the classifier reads a
message, whether the solver finds a solution, whether the sandbox runs the code
and how an answer is graded are choices of the environment. The wording of a
rung, the topic key of the ladder (here the problem of the turn) and
`asks_at_ceiling` (written, read by no policy) are abstracted.

### ConversationTurns

Each request is a transaction with a program counter (`pc`), the row locks it
holds (`held`), what it read before the model call (`read`) and what it has
written and not committed (`draft`). The locks are those the statements of
`app/memory` take: `SELECT ... FOR UPDATE` on the conversation in `add_turn`,
rename and delete, the plain `UPDATE` of the tutoring state, the foreign key of
a learning event, the row of the ladder's upsert, `FOR UPDATE` on the profile.
A turn records no event, one, or one for each answer of a quiz it
marks (`left`, `recorded`), each in a savepoint of its own, all folded into the
profile it locked for the first; the active problem and the tutoring state are two
savepoints as well (`SaveProblem`, `SaveState`), so either may be stored without the
other. `LoseStore` is a failed savepoint: a conversation that is gone, a deadlock
victim, any other database error. `Abort` is a client that leaves or a process
that dies before the commit. An identity value drawn by a transaction that is
rolled back is lost, as in PostgreSQL (`counter`). `Log`
is `TurnLog` of what a reader sees, who sees committed rows only (`LogOf`), and
`IsATurnLog` says that they behave as one.

### AuthSessions

A row of `refresh_tokens` is a record in `tokens`; requests are slots that may
be used again. `refresh` and `logout` lock the user's row before they read;
`login` takes the shared lock of its foreign key. A transaction's writes are a
`draft` applied at `Commit`; `Abort` is a rollback at any point before. Retried
and duplicated requests are two requests that `Present` one token. Time is a
ticking clock; expiry, leeway and grace are measured on it. The refinement
mapping to `LoginSession` calls a session live while it has a row that is not
revoked. The tokens' encoding, cookies and passwords are not modelled, and a
token that was never issued is not presented.

### ChatStream and Workspace

`phase` is where the generator of a request stands, `task` the graph's task,
`queue` what the task has put and the generator not taken, `session` the
database session, `sent` the frames of a response that was not cut off. `Lose`
and `Crash` may happen at any time; `Abandon` is the server closing the
generator of a client it has found gone, which cancels the task and waits for it
(`TaskAwaited`). The graph is its outcome: some stages, then a result or an
exception. `committed` holds the turns that were committed, each with or without its
messages: `_persist_turns` may fail in its savepoint, and the turn then commits and
its reply is sent all the same.

`Workspace` adds the page. Each `await` of `selectConversation`, `sendMessage`
and `refreshAfterTurn` ends an action, so another conversation may be selected
or renamed between any two of them. Since only one turn is in flight for the
page, connections are lost only for the turn being read. Creating and deleting
conversations and the access-token refresh are left out.

### Sandbox

`pc` is where a run stands in `SandboxRunner.run`, `DockerSandbox.run` and
`_run_created_container`, `home` the process it was asked of, `outcome` what it
will answer. `container` is the daemon's state of its container: `"stale"` is a
running one older than `DEFAULT_STALE_AFTER_S`. A run holds a slot of its
process's semaphore while `InFlight`. `cleanup` is the attempt `_remove` is
making: `run` shields it, so it may go on after the run. `server` and `listed`
are a process and what its `sweep_orphans` has found. `fault` is a history
variable: what kept a run from removing its container in its own time.

Calls of the daemon are made in threads of a pool, so cancelling the run that
awaits one does not stop it: `stray` holds the calls that may still take effect.
A creation or start that is answered with an error may do so too. The
first cancellation of a creation waits for it (`"abandoning"`) and then removes
the container (`"discarding"`, not shielded); a second one leaves it to the next
sweep. `Crash` ends a process at any point.

Merged or left out: the kill and the wait after it are one step, and so are the
two reads of the logs; the pool's size, which only delays calls; what the
harness reports; a probe that fails at startup, after which there is no sandbox.
`Age` assumes that a container is not stale while its run is in flight: the
timeouts of all calls of a run add up to less than `DEFAULT_STALE_AFTER_S`.

### Failover

`cursor` and `moved` are `_index` and `_advanced_at` of the two chains a process
holds: the main one and that of the classifier's small model. They are shared by
all turns; the other variables are the locals of one call of one turn. An action
ends where the code awaits: at a request, and at the wait for a retry-after. So
another call may move or rewind the cursor while a request is in the air, which
is what `Answered` (the cursor goes to the client that answered) has to survive.
`LimitedNext`, `LimitedWait`, `AskAgain` and `Exhausted` are the branches after a
rate limit: the next credential, the one wait, the second pass over the earlier
ones, giving up. `Call` counts the call against the turn's budget before it is
made, as `_consume` does, and `GiveUp` is the classifier going on to the main
chain, still within the same counted call. `tried` is history.
A retry-after counts only as brief enough to wait for or not; the clock counts
up to the rewind window. One ask of a client is one request of this project's own:
Groq's client is built not to repeat it where there is another credential,
OpenRouter's (`app/llm/client.py:780-781`) is left to what its SDK does below that.

### DebugLoop and AgentTurn

`DebugLoop` is the debugger for any message (`Turns`: code or none, a full answer
asked for or not, `input()`, tests found or not, a missing package, part of a
function, no sandbox). `initial`, `final` and `checked` are the three verdicts
the code keeps: of the learner's own code, of the patch, and of what the outer
graph ran again. `patched`, `presented` and `request` are the code a reply may
show or run, told apart by origin (their own, the n-th patch, the tidied copy).
The model and the sandbox answer as they like, and the same code may fail once
and pass the next time. `ran` is history: every verdict a sandbox gave and for
which code. Line numbers, prompts and the findings of static analysis beyond
"major or not" are left out.

`AgentTurn` puts it into a turn. `ask` is the message with its route and plan,
`row` the stored rung, `solution` the reference of a full plan, `insight` what
the solver's analysis filled, `result` what the agent hands over and `said` the
reply: the code shown, the parts of the account told (`tells`), the verdicts
claimed (`claims`), the text's kind. Every model call of every helper counts
against one budget (`calls`, `Tries`, `Parts`), and the code's own constants are
used: 3 patches, 8 calls, 2 tries. `Raise` lets any step of an agent raise, after
which `safe_node`'s fallback answers; `FallBack` is a failing reply node. What may
be told depends on the rung (`Gate`, `Sections`), on what the reply drops
(`Dropped`) and on what the learner asked for by name, which is kept whatever else
goes (`SectionAsks`, `Kept`; `said.asked`); a reply that opens a question of a
curated chain may be nothing but that question (`Replies`). The rung itself is
`HintPolicy`'s, counted from the stored row or, when reading it fails, from none
(`Read`, `ask.missed`). An analysis may fill every field its rung allows. Citations
and wording are left out.

### TurnDecision and TeachingGraph

`TurnDecision` is `decide_turn` with everything below it: the subject the
message is about (`ProblemUpdate`), the second look at a step that nothing was
tied to (`AnchoredTurn`), what an unsure reading settles as (`SettledTurn`), the
route (`SelectRoute`), whether the turn is talk (`MayBeTalk`, `MustBeTalk`) and
the subject it stores (`Takes`). Its input is what was loaded and one of
`Readings`: a label, the classifier's confidence and referent, what the message
brings, and which of the code's phrase lists it answers to. Readings the code
cannot produce together are not in the set. Where the wording beyond those lists
decides, `Decisions` has both outcomes.

`TeachingGraph` has one action per node, in the order of the edges. `seen` is the
conversation as the turn loaded it and `conv` as it is stored, `d` the decision,
`out` what the agents left in the state. Every node may fail: the fallback's
update is one of the node's outcomes (`NoDecision`, `NoOutcome`, a reply without
a question). `LoadLearnerProfile` and `UpdateLearnerModel` read and write in
savepoints of their own, so any part may fail alone.

Turns of one conversation overlap: nothing is locked between the load and the
store. They are taken in the order in which they are stored, and a turn may have
loaded the conversation, part by part, before the one ahead of it was stored
(`older`, `late`). Since a turn's agents see nothing of the others, that is all an
overlap changes.

`graded`, `marked`, `moved` and `strayed` are history: whether a grade of the stored
question was recorded before, which questions of the stored quiz were marked,
whether an agent has answered something else since it was asked, and whether, since
the question or the quiz was asked, a turn was not stored or was stored over another.
What talk shows while a question waits (`_reply_grade`, `nodes.py:4830-4850`; refined by
the discuss agent at 3106-3110) is recorded of the words of that turn, besides the
question's own grade, and is not counted as one.

`RetrieveKnowledge` and `PlanTeaching` keep what was searched for (`hits`) and
where the topic comes from (`topic`); both are dropped when the agent has run.
Merged or left out: `execute_code` is part of `Verify`'s step; a reading names one
referent; the stored last attempt, the hold on an answer (`HintLadder` has it),
generated tests and review data. A stored quiz is kept in `conv` only while it is
open, since `open_quiz` is its only reader. How overlapping turns wait for each
other's rows is in `ConversationTurns`.

### CodeEvidence

One problem over a few turns. A turn takes its cases from the statement's
examples, from those kept before and from those a model proposes and a reference
confirms; it judges the learner's code, writes a reference solution, or plants a
bug in one. A code's behaviour is what it does on each kind of case; a verdict is
recorded with whose code it was of and on which cases. The action for the kept
cases writes them back as `test_suites.py` does. Concrete inputs, the comparison
of printed values and the harness's protocol are abstracted to whether a case is
passed, failed or not reported.

### LearnerProfile

A learner's skill levels by topic and by family, moved by events with the decay of
the time passed, while turns overlap: each reads the profile at its start (`before`)
and plans with it (`SkillFor`, `DifficultyFor`). At its end it locks the row,
folds its events one after another into what is stored by then (`RecordEvent`,
`Commit`) and reports deltas against what it had read. Levels are counted in
millionths, the six digits the code rounds to; time is counted in half-lives and
passes between turns. `Halvings` is the decay curve, a constant: powers of two in
the run, and in the proofs anything that starts at 1 and never falls. `lows`, `last`
and `stale` are history.

### Grading and TutoringSession

`Grading` is the grader's rules in their order (`GradeDeterministic`) over every
shape of question and every combination of what a reply may contain, with a
model's judgement after them. `TutoringSession` uses the grades it can give: the
pending check, the log of grades cut to its limit, the questions already asked,
the last practice problem, the log of evidence and what the last reply claimed to
have adapted (`told`). `Tutor`, `DebugAgent`, `DiscussAgent`, `PracticeAgent` and
`GradeAnswer` are the turns that change them. `recent`, `graded`, `streak` and
`answered` are history; `answered` counts the graded replies to each question over
the whole session, whatever came between them and in whatever wording it was put.

### MessageReading

A message is a sequence of lines, each of a kind (code, a question, a statement,
an example, a bound, a trace, a fence, ...), typed one by one. `UnderstandInput` is
`understand_input`: the steps of `normalize.py` in their order, each taking its
lines out and leaving blanks, tracebacks before errors that stand alone; an image's
parts merged in, its constraints without repetitions (`Once`); a snippet wrapped
into a runnable module, or the call added that runs a class's method (`AdaptClass`).
A line's kind stands for the wording tests (regular expressions, language guess);
its length is abstracted, only "given" and "tell" lines being long enough for a
statement. The error patterns of other languages are left out: no kind of line is one.

## 3. Runs

| Run | What it checks | Bounds |
|---|---|---|
| `hint_ladder` | `RevealHasADoor`, `ChallengeEarned` | one problem, all three modes, a cap that binds and none, stores failing together or not at all, reads of the ladder that fail |
| `conversation` | `ProfileFollowsEvents`, the refinement `IsATurnLog`, `EveryRequestEnds` | two overlapping turns of up to two events each and one rename or delete |
| `auth` | `AccessEndsWithSession`, `RotationIsSeamless`, the refinement `ImplementsLoginSession` | two requests at once, two sessions, four tokens, three ticks |
| `workspace` | `SessionOutlivesTask`, `ShownIsStored`, `StreamsClose`, `ComposerComesBack` | two requests of at most one stage event, two conversations |
| `services` | of `Sandbox`: `LeaksHaveACause`, `RunningWithinLimit`, `ResultsAreWhole`, `EveryRunEnds`; of `Failover`: `OneMoreTry`, `EveryCallEnds` | two runs for one slot of one process, another process that starts and sweeps, any number of crashes and restarts; two turns of one call each, a main chain of three credentials of two providers, a small chain of two, a window of one tick |
| `agent_turn` | `CreditIsTheirs`, `RefusalCostsALastPatch`, `SaidToHaveRunRan`, `RevealIsCounted`, `ToldWithinTheRung`, `AgentTurnEnds` | every route, the code's 3 patches, 8 calls and 2 tries, four stored rungs, three levels of assistance, no part or those one phrase asks for |
| `agent_budget` | `BudgetCoversTheWorstPath`, found violated | those of `agent_turn` |
| `teaching_graph` | `WaitingIsNotGraded`, `NoMarksAfterAnotherAnswer`, `DecisionHasItsSubject` | two statements, one piece of code, a quiz of two questions, any number of turns, any node failing, one database failure or one turn overtaken |
| `code_evidence` | `SolvedPassesExamples`, `JudgedOnTheirOwn`, `CheckedCodePassed`, `ExerciseHasABug` | two turns on one problem, suites of at least two cases, two tries for a reference and for a bug |
| `learner_profile` | `EasyIsEarned`, `HardIsEarned`, `DeltasAreWritten` | two overlapping turns, two topics of one family, three events, a pause of up to three half-lives |
| `tutoring` | `NotesAreTrue`, `TheLessonMovesOn`, `GradesAreEarned`, `HarderIsEarned` | four turns, an easy and a hard problem, a bank of five questions, logs of two grades and three pieces of evidence |
| `reading` | `NothingIsLost`, `AsksAreHeard` | every message of up to four lines of nineteen kinds, no image, an unreadable one or one of two |

What they show:

- *hint_ladder.* Over any sequence of turns, code is shown only on a problem whose
  learner asked for it or gave up. In Challenge mode it is shown, on any kind of turn,
  only where an earlier turn ran an attempt of theirs, or granted the full level in
  another mode, which outlives that mode.
- *conversation, auth.* Readers see whole turns in one order, the profile is the
  events folded in that order, and deadlocks resolve; a login that has ended is
  let in by none of its access tokens, a page that refreshes sees no gap, and
  only an honest end or a reuse ends a session.
- *workspace.* No graph uses a closed session, and both ends finish; a reply that is
  shown was committed, and is in the stored history of its conversation unless its
  messages failed in their own savepoint.
- *services.* Containers are left behind only for a cause that can be named, and
  never more run than allowed; a result is whole and a run ends. A model call asks a
  credential at most twice, the second time only after the wait, and ends. The two
  share no state, so they share a run and each behaviour uses one of them.
- *agent_turn.* What a reply says was run was run, and came to that; the learner
  is credited with their own run only. A solution that is shown counts as given, on
  the ladder and of the learner; one that counts was shown, save the debugger's
  patch, which counts either way, and a reply whose own node failed. Nothing is told
  beyond the rung the ladder will count from, save the parts of a granted solution
  nobody could write: those the learner asked for by name, and after a graded answer
  the outline. A turn has at most one call refused, for the last of the debugger's
  patches.
- *agent_budget.* The same turns refute that 8 calls cover the worst path
  (`app/llm/budget.py:31-33`): an image of code, debugged with every step repeated,
  asks for nine.
- *teaching_graph.* A question that waits was not graded before, and a quiz is not
  marked once an agent has answered something else, unless since it was asked a
  turn's state was not stored or turns overlapped. Two turns that overlap may both
  grade what both have loaded: nothing in the code prevents it (section 6). No
  decision sends the ladder or the debugger in without a subject in a conversation
  that has one, whatever fails.
- *code_evidence.* "Solved" means that the statement's examples passed; a learner
  is judged on their own code and cases that apply to it; code called checked ran
  and passed; a debugging exercise fails a case its reference passes.
- *learner_profile.* A topic becomes hard only by a solution or after its family,
  and easy only after two pieces of evidence against the learner; what is reported
  as moved is what that turn wrote.
- *tutoring.* Claims of adaptation are true of the turns behind them; a reply that is
  at least the second one graded to a question, over detours and rewordings, is not
  followed by that question again (a later turn may put it); a step up follows right
  answers.
- *reading.* No line of a message disappears, but a constraint that an image repeats,
  and a question is read as one.

Why these bounds are enough to be interesting:

- *hint_ladder.* The interplay between modes, caps, floors, holds and stored
  levels is within a problem; the level, ceiling and assistance ranges are the
  code's own, not cut. The number of turns is unbounded. The view drops
  `turn`, which no action reads. The theorems hold for any set of problems.
- *conversation.* Every lock conflict, lost update and deadlock is between two
  transactions, and a third makes a cycle through a bystander possible. A ladder
  of levels 0 and 1 with ceilings 0 and 1 tells the orders of two upserts apart. Two
  events in a turn have one kept and one lost, in either order (`MaxMarks`).
- *auth.* Two requests are a race, a third and later one comes when a slot is
  used again; four tokens give a session three rotations or two sessions a
  rotation each; three ticks pass expiry (2), leeway (1) and grace (1). An access
  token lives one tick and is issued with each refresh token.
- *workspace.* The page sends one request at a time, and a second may start
  while the first is still being abandoned; one stage event is enough for the
  queue to hold frames before the terminal item.
- *services.* Runs compete for a slot, which takes two; each has its own
  container, and processes meet only in the sweep, which takes one process with
  runs and one that starts. Calls, cancellations and crashes are not bounded.
  Sharing the cursor is between two calls. Three credentials, of which two are the
  primary provider's, make "earlier", "next" and "last", and "worth waiting" and
  "not", all different. One call a turn is enough: the budget is spent before the
  call, a call starts afresh, and a new turn has a new budget.
- *agent_turn.* One turn touches no other, and all limits are the code's own. The
  four stored rungs are none, the first, one in the middle and the last; the three
  levels of assistance tell all sections of a reply apart, and the requests are what
  the phrases of `_SECTION_ASKS` name.
- *teaching_graph.* Subjects of both kinds, two of the kind that a new one may
  always replace; a quiz of two questions has a first, a next and a last. One
  database failure, of any set of a turn's accesses, or one turn overtaken, where
  what it had loaded was waiting for an answer (`OverlapsWhereSomethingWaits`): a
  question or a quiz either of them has touched is in `strayed` until it is asked
  afresh, and the properties claim nothing of it. The number of turns and of failing
  nodes is not bounded, and the theorems bound neither.
- *code_evidence.* Two turns are enough to read what the first has kept. The
  least size of a suite is 2 for the code's 4, so that "enough" and "too few"
  differ by one case; requests for the solution come without code. The turns are
  bounded (`MaxTurns`), so the run may stop: deadlock is not checked there.
- *learner_profile.* A fold depends on the events before it and the time between:
  three events, two topics that share a family, two grades. Levels and weights are
  the code's own. The events are bounded, so deadlock is not checked.
- *tutoring.* The code keeps 30 grades and 8 pieces of evidence; here 2 and 3, so
  that both logs overflow within four turns. The levels are the easiest and the
  hardest, so that "the nearest" differs from "the next". Bounded by `MaxTurns`;
  deadlock is not checked.
- *reading.* Rules of `normalize.py` look at a line and its neighbours, a block's
  ends and what is left: four lines make all pairs of them meet. The message is
  read once, so deadlock is not checked.

A module's type invariant documents its variables; where the module has proofs, the
types its argument needs are part of the inductive invariant. Deadlock is checked in
every run but the four bounded ones above: `ConversationTurns`, `AuthSessions` and
`AgentTurn` say explicitly where they may
rest (`Finished`, `Quiet`).

### Fairness

- *Database.* PostgreSQL queues for a row lock, so a waiting request is not
  overtaken for ever: strong fairness of `Wait` in `AuthSessions`, where a slot
  can come back and compete again. In `ConversationTurns` every request runs
  once, so weak fairness is enough; a deadlock is broken by failing a statement
  of its cycle (`CannotGoOn`, `Victim`).
- *Event loop.* What is ready runs: weak fairness of the generator's steps and
  of the end of the task. A run of the graph ends because it is acyclic with a
  recursion limit, and its model and sandbox calls carry timeouts. Whether the
  server notices a lost client (`Abandon`) matters only for progress of the
  request concerned and is in disjunction with the generator's own steps.
- *Page.* A `fetch` returns or fails (`WF_vars(Process)`). The page has no
  timeout of its own, so `ComposerComesBack` rests on the browser reporting a
  dead connection.
- *Sandbox.* Every call of the daemon has an HTTP timeout and the queue has one
  too, so a run's next step and its removal come (`Proceed`, `Remove`).
- *Failover.* A request is answered or fails by the client's timeout, and the wait
  is a sleep: weak fairness of each turn's `Resume`. No turn has to make a call.
- *AgentTurn and TeachingGraph.* LangGraph runs the node that is due
  (`WF_vars(Progress)`, `WF_node(Step)`: every step of a turn leaves its node, so
  this is fairness of all actions but `Receive`). That each node ends rests on
  the timeouts the models above are about.
- No fairness is assumed of learners, of failures or of the clock.

## 4. Proofs

`LearnerProofs` proves of `HintLadder`, for every set of problems, every set of modes, caps
and learner readings, and every pattern of failing stores:

- `LadderInvariant`: `Spec => []LadderInv`, and from it `TypesAreKept` and
  `AttemptsAreHonest`;
- the action properties `NoCodeWithoutADoor`, `ChallengeIsEarned`,
  `AsksAreAnswered`, `ResultsAreWellFormed`, `LimitsAreKept`.

Argument. "The solution is shown only on a problem the learner asked the code of
or gave up on" is not provable of a turn alone: help at the full level can be
stored, as a scaffold floor or in a pending check, and replayed turns later.
The inductive invariant `LadderInv` adds that every stored full level lies on a
problem with such a door (`FloorHasADoor`, `CheckHasADoor`), and on one where it was
earned, by an attempt or by a grant outside Challenge mode (`FloorIsEarned`,
`CheckIsEarned`), which is what `ChallengeIsEarned` needs. Types alone do not
do either: `RungWellFormed` needs the row's level within its range to compare it
with the ceiling a failed reveal is given.
Lemmas about the policy's operators (`BuildPlanLevel`, `PlansLevel`, `RungLevel`,
`SavedRow`, `AssistanceAfterLevel`) come first, then one about each store
(`SavedLadder`, `SavedTutoring`), then one per action (`DsaTurnStep`,
`CodeTurnStep`, `GradeTurnStep`), which shows the invariant's four parts and the
facts about the served turn together. The assumptions are the named ones of
`HintLadder`: the constants are what they are called.

`AttemptsAreHonest`, `AsksAreAnswered`, `ResultsAreWellFormed` and `LimitsAreKept`
are proved and not repeated in a run: they are parts of the argument rather than
ends.

`ServiceProofs` proves of `Sandbox`, for every set of runs and of processes and every limit:

- `SandboxInvariant`: `Spec => []SandboxInv`, and from it `SandboxTypes` and
  `LeaksAreCaused`;
- the action property `ReadsAreWhole`;
- `LimitIsKept`, from `SandboxInvariant` and a second invariant,
  `SlotsWithinLimit`.

Argument. `LeaksHaveACause` speaks of runs that are over; `NothingForgotten`
extends it to those that wait for their removal, and says that a removal still
under way after its run is to blame on somebody. A stray creation could break
that, so `StraysAreForsaken` says it belongs to a run that is over and had a
cause already. A container that is running and undisturbed is then one of a run
in flight, so the running ones are a subset of the slots taken; those grow only
in `Acquire`, which counts them first (`OnlyAcquireTakes`, `StepKeepsSlots`).
A result is whole because `WaitsForStarted` says that what a run inspects has
stopped unless it timed out. The assumptions are the named ones of `Sandbox`: a
positive limit, `Serving` a set of processes, `None` neither a process nor an
answer.

`ServiceProofs` also proves of `Failover`, for any number of turns, of calls, and of credentials in either
chain: `FailoverInvariant`, `AskedOnceMore` (`OneMoreTry`) and `ChainsAreKept`.

Argument. "At most twice, and twice only after the wait" is not inductive, since
it says nothing about the clients a call has yet to reach. `AskedInOrder` says
where a call has been: before the wait it has asked those from the one it began
with up to the present one, once each (`AskedOnTheWay`); its second pass goes over
those before the one it began with, which nobody has asked (`AskedInSecondPass`).
Other calls move and rewind the shared cursor at any time; a call reads it
only when it begins and writes its own position when it ends, so `WithinChain`,
that every position is inside its chain, is all that has to survive them.

`AgentTurnProofs`, for any number of patches, calls and repetitions and any stored
rungs: `AgentInvariant`, and from it `ClaimsAreTrue`, `CreditIsEarned`,
`RevealsAreStored` and `NothingTooEarly`; and `RefusalIsALastPatch`
(`RefusalCostsALastPatch`) from it and a second invariant, `BudgetInv`. These are
all the safety properties of the run.

Argument. What a reply says is of the reply only at the end, so the invariant
carries it through the turn: every verdict the state keeps is one a run gave to
the code it is of (`VerdictsAreRuns`), with the debugger's own difficulty that
`final` speaks of the last patch except between its writing and its run; a
program that passed as it came is never patched (`PassedIsLeftAlone`), which is
what keeps the tidied copy from borrowing another's verdict; the solver's account
is within the rung the turn will store (`AccountOfRung`). `InOrder` says what has
not happened yet.

`RefusalIsALastPatch` is about a sum over a whole turn. `CallsSoFar` bounds the calls made
when each step is reached, along the worst way there; what makes the debugger's sum
small enough is that patches are counted in `attempts` and that only a turn with no
proven failure also has its code tidied, after at most one patch (`AttemptsInOrder`).
A sum over the budget then leaves no slack in any term (`OverTheBudget`), which is the
turn the property names: the refused call is the ninth, which the run `agent_budget`
finds. It needs the one assumption that relates the constants, `BudgetCovers`: the
budget covers three sums of retries and patches. The code's own 8 calls do with 3
patches and 2 tries, with nothing to spare in one of them.

`AuthProofs`, for any requests in flight, sessions, tokens and lifetimes:
`AuthInvariant`, `EndedForGood` (`AccessEndsWithSession`), the action property
`RotationLeavesNoGap` and the refinement `LoginsAreSessions`.

Argument. A request decides by rows it read and writes them later. The invariant
describes each kind of draft in terms of the rows as they are now (`LoginDraft`,
`RotationDraft`, `LogoutDraft`, `ReuseDraft`): it holds because who has read rows
for a change holds the user's row alone (`Apart`), so between the read and the
commit only logins, which share the lock, insert, and what they insert is of a new session.
So one commit maps to one step of `LoginSession`: a login starts a
session, a logout ends one, a reuse ends all, a rotation leaves as many live
sessions as there were (`LiveAfterCommit`, `SessionsAfterCommit`), and every other
step is a stutter (`OnlyCommitsWrite`).

`WorkspaceProofs`, for any requests, conversations and stages:
`WorkspaceInvariant`, `WorkspaceTypes`, `NoWorkOnAClosedSession`
(`SessionOutlivesTask`) and `RepliesAreStored` (`ShownIsStored`).

Argument. `StreamInOrder` ties the generator, the task, the queue and the session
of each request: whatever ends a stream is in the queue only once the task has
ended, a generator that is closing waits for a task it has cancelled, and a done
frame follows the commit. The page shows a reply only on a done frame or from a stored
history, and the frames of a cut-off response are not read (`ShownAreCommitted`), so the
page adds types and the aim of its title.

`TeachingGraphProofs`, for any statements and code, any size of a quiz and any
number of failures and of turns overtaken: `GraphInvariant`, `GraphTypesOK`,
`NoQuestionIsGradedTwice` (`WaitingIsNotGraded`), `MarksAreOfTheOpenQuiz`
(`NoMarksAfterAnotherAnswer`) and `DecisionsHaveTheirSubject` (`DecisionHasItsSubject`).

Argument. Two parts. The lemma `DecisionsAreSound` is about `TurnDecision` alone:
through the readings, the subject of a message, the second look and the routes, a
turn that is a step or a bug hunt is tied to a subject where there is one, and a
follow-up carries its statement. The other is the graph: what a turn loaded is
what is stored, or nothing where it could not be read (`SeenIsStored`), unless it
was overtaken (`late`); together with what agents may leave (`OutcomeInOrder`) that lets
the savepoints of `UpdateLearnerModel` fail one by one and still keep
`EvidenceInOrder`. A drill's marks are those before its position, and a quiz the
conversation has moved on from is no longer the thread, which are the strengthenings
the two properties need. What a late or unstored turn has touched stays in `strayed`
until it is asked afresh.
The proof found `ThreadOf` to be a `CASE` whose guards overlap where an agent both
talked about code and did something else; TLC takes the first, the code tests the
talk about code first, and the definition now says so.

`CodeEvidenceProofs`, for any number of turns and of attempts and any size below
which a suite is topped up: `EvidenceInvariant`, `EvidenceTypesOK`,
`CheckedCodeHasPassed` (`CheckedCodePassed`) and the action properties
`SolvedHasPassedTheExamples`, `OutcomesAreTheirOwn` and `ExercisesHaveABug`: all
that the run checks.

Argument. Each property is about the end of a turn and rests on a run made earlier
against cases that could have changed since. The invariant keeps the three together: the
suite holds the examples that fit the code and says where it came from
(`SuiteIsGrounded`), a verdict is of the code and the suite as they are
(`VerdictIsOfTheRun`), a solution that claims to be verified passed its own cases
(`SolutionIsVerified`). A suite is only ever added to (`ExtraIsAdded`), and a
solution's cases only by cases it passes (`WidenedStillPasses`), which is why a cut-off
second run does not matter. The one step that changes examples within a turn,
`PlantBug`, changes those of a statement no reference was judged by
(`PlantBugKeeps`). `None` is assumed to be no verdict and no outcome.

`ConversationProofs` proves of `ConversationTurns`, for any turns, edits and
levels: `TheInvariantHolds`, `TheProfileFollowsTheEvents` (`ProfileFollowsEvents`) and
the refinement `TheConversationIsATurnLog` (`IsATurnLog`). That is all of the run's
safety.

Argument. Drafts are computed early and written late. Each part of
`ConversationInv` says which lock keeps what a draft was computed from as it was:
who has folded an event holds the profile, so the draft is the stored profile with
the turn's own events after it, in the order of their numbers, which are above every
stored one (`FoldsTheProfile`); who has numbered its messages holds the conversation, so the
numbers go on where the stored ones end (`NumbersOn`). The two locks are exclusive
(`Exclusive`, `LocksStayExclusive`), the foreign key's shared one does not count.
Numbers drawn by rolled-back transactions leave gaps among the events
(`EventsAreNumbered`) and none among the messages (`Numbered`). A commit
then adds one turn at the end of `LogOf`, or empties it with the conversation
(`LogGrowsAtTheEnd`, `StepOfTheLog`), and every other step is a stutter (`OnlyCommitsShow`).

Of `TutoringSession`, for any problems, bank of questions, limits of the logs and
number of turns: `TheTutoringInvariantHolds`, `NotesAreAlwaysTrue` (`NotesAreTrue`),
`NoAnswerLoops` (`TheLessonMovesOn`), `EveryGradeIsEarned` (`GradesAreEarned`) and
`EveryHarderProblemIsEarned` (`HarderIsEarned`).

Argument. The claims are about turns the session no longer remembers, since its logs
are cut from the front. Each part of `TutoringInv` relates a log to the history
it is the end of, and only as far as the cut allows. `StreaksAreTrue` needs just one
direction: a log that ends with k misses follows k misses in a row, so a claim made from
it is true of them (`WhatIsSaidIsTrue`); a log cut too short claims less.
`RecentGradesAreLogged` gives the position of the last practice problem its meaning
until the first grade is dropped. `AnswersAreLogged` says that, as long as the log
holds every grade, each graded reply to a question is in it (`AnswersStayLogged`,
`TheLogGrows`), so `Attempts` finds a second one whatever came between the two, and
the reaction to it puts something else (`ASecondAnswerMovesOn`). That the
grades themselves are earned is a case split over the rules of `Grading` in their
order (`TheFirstRuleDecides`, `TheRulesInOrder`, `EveryKindIsEarned`): with every mark of the
reply fixed, one idea more never makes the grade worse (`OneIdeaMoreIsNoWorse`).

`LearnerProofs` also proves of `LearnerProfile`, for any topics, turns, hints, grades, number
of events and decay curve: `TheProfileInvariantHolds`, `WeaknessIsShownTwice` (`EasyIsEarned`),
and the action properties `HardnessIsEarned` (`HardIsEarned`) and `ReportsAreTrue`
(`DeltasAreWritten`). That is all the run checks.

Argument. `EasyIsEarned` speaks of two pieces of evidence and needs to know how far the
first may take a level. `AboveTheFloor` counts: with none against the learner a
level is at the prior or above, after one at least at .425, which is a failed run from the
prior and just above `WEAK_SKILL`. Fading moves a level towards the prior and never
past it (`FadingIsTowardsThePrior`), so it keeps every floor, whatever its curve.
Rounding is exact integer arithmetic; the facts about `\div` come from one lemma
(`Quotient`). For the hard band the lemma is that answers stop at the ceiling
(`AnswersAreCapped`), help only lowers (`HelpLowers`), and waiting does not bring a topic
within reach (`ReachIsEarned`, `ReachIsNotWaitedFor`). The report is
computed from a view read before the model call, and the stored profile from the row: they agree
because folding an event moves what is shown exactly as applying it moves the
view (`FoldingIsApplying`), and an unspoilt view is still what would be shown (`Fresh`).

The proof corrected the model. `HardIsEarned` first said that only a solution takes a topic into
the hard band. It held of the run's constants and has a counterexample
for others: `skill_for` reads an own estimate equal to the prior as no
estimate, so a topic whose level comes to rest there follows its family into
the hard band on a failed run or on waiting (section 6). The property now
names that door and no other.

The assumptions of each are the named ones of its module: numbers are numbers, a
Python `None` is none of the values it stands beside, the sets of a conversation's
statements and code are disjoint, a question of the bank is not its own successor (none
in the bank's file is), a decay curve starts at 1 and does not fall.

Only model-checked:

- liveness (`EveryRequestEnds`, `StreamsClose`, `ComposerComesBack`, `EveryRunEnds`,
  `EveryCallEnds`, `AgentTurnEnds`), which rests on fairness and `ENABLED`;
- `NothingIsLost` and `AsksAreHeard` of `MessageReading`, whose passes over the lines
  are folds and recursive operators: what they compute for every length of a message would be
  an induction over data.

Every other safety property, every action property and every refinement that a passing
run checks is stated by a theorem.

## 5. Mutants

Every property of a passing run has a mutant in `PROJECT.json`: an operator
beside the definition it replaces, commented `Mutant:`, that a plausible edit of
the code would amount to (a lock not taken, a limit applied in another order, a
task not awaited). With it TLC finds the property violated.

## 6. Observations

Every property of the passing runs holds; `agent_budget` is the one run that refutes a
statement of the code's own. What follows was seen in the code while
modelling: places where it does something other than a comment or docstring of
its own says, or something a reader would not expect. The properties are stated so
that they are true of the code as it is.

- *Ladder.* A code request follows the learner to another problem:
  `_with_tutoring` carries it unless the turn is a new problem, and "go back to
  the earlier one" is a follow-up on another. A "don't know" to a code request in
  guidance mode stores a floor of the full solution, which the docstring of
  `_apply_scaffold_floor` rules out; `grade_answer` rebuilds the plan from the
  graded level and does not apply `WITHHOLD_CAP` again, so a held answer can be
  handed over; a failed reveal on a fresh ladder stores ceiling 0 for good; the
  apology "You asked for the full solution" can be served to someone who gave up
  rather than asked. A conversation that opens by naming or describing a problem
  stores its first rung under the topic's key, and the next follow-up reads the
  problem's: the ladder restarts and the attempt is forgotten. `resolve_hint_progress`
  says every caller of a turn agrees on one row, but `grade_answer` renames the
  plan's topic between the planner's read and the solver's, so without a problem key
  they read two; a read of the ladder that fails is taken for a new ladder, which the
  turn's upsert writes over the stored rung and attempt; `_anchored_ladder_topic` says it returns a topic or `None`, and lets
  a key of shared code (`_c`) through.
- *Persistence.* A verified attempt can be taken back by an overlapping turn that
  read the row earlier, though it is "monotonic once persisted". A turn in flight
  while its conversation is deleted leaves a ladder row of a conversation that no
  longer exists; overlapping turns can serve the same rung twice and lose each
  other's session progress and pending check; `rebuild_profile` replays at
  `created_at` where `record_event` folded at the current time (nothing in `app/`
  calls it).
- *Page.* The automatic title replaces one the learner gave before the first
  turn, since `rename` leaves `untitled` set; an error frame after a successful
  commit makes "Retry" store the turn a second time; a history that arrives late
  replaces the list of another conversation, and the answer to a title replaces
  the active one; a second tab that refreshes at the same time is sent to the
  login page within the grace period; `initialize` does the same on any failure
  of `getMe`, a 5xx included; a sign-out whose request fails leaves the page to
  sign in again by itself; a tab that signs out ends the session of the cookie,
  which may be another tab's newer login; after a refresh whose answer was lost,
  the old cookie's next use past the grace period ends every session.
- *Sandbox.* `sweep_orphans` (`execution/sandbox.py`) removes every labelled
  container that is not running, also one another process has created and not
  started yet, or whose logs it still has to read; the comment says it "can never
  kill another live process's in-flight sandbox run". The run ends as an error
  (`ResultsAreWhole`), never with a wrong result.
- *Failover.* An answer that was in the air while another call rewound the cursor
  sets it back to its own client, with no window running to rewind it again. The
  comment in `_build_client` (`app/llm/client.py:757-760`) says "the SDK's retries are
  turned off"; of `ChatOpenRouter`, built without `max_retries` (780-781), that is not
  so, and its SDK may repeat a limited request below what `OneMoreTry` counts.
- *Budget.* `app/llm/budget.py:31-33` says "8 covers the worst real path (image + debug
  + retry) with headroom". A message that is only code, read from an image and debugged
  with every step repeated, asks for 9, and the refused one is the last patch: the
  finding of the run `agent_budget`.
- *Debugger.* Asked for the corrected code, it runs code whose package the
  sandbox lacks, and the import error is recorded as the learner's failure; a
  later unusable patch discards an earlier candidate; a bug that was only read
  and whose patch is unusable returns their own code without saying that no fix
  was found; `to_outcome`
  (`app/schemas/agent_results.py:300`) counts a patch as the full solution given, also one
  that is not shown.
- *Agents.* A code question whose answer failed falls through to the explanation,
  which says "not executed" of code that has just run; the key insight and the
  complexity of a reveal may come from another model call than its code; a reveal
  together with the learner's own code labels their verdict "Execution" under the
  solution; a rerun of their own code with another verdict is labelled as the
  suggested fix; sources stay cited after their sections are dropped or their
  analysis failed; a graded hand-off granted a full solution that nobody could
  write keeps its outline, where `dsa.py` wants the turn to show nothing.
- *Page, stored.* A turn whose two messages fail in their savepoint commits the rest
  and is shown; reloading the conversation no longer has it.
- *Teaching graph.* A failing `grade_answer` or `final_response` clears the
  pending question although the apology says "try again". When only the savepoint
  of the tutoring state fails after the evidence was stored, the same question is
  graded and counted again; and since nothing is locked between loading the tutoring
  state and storing it, two turns that overlap may both grade one answer, mark one
  quiz, or bring back a question the other has closed. A failed read of the tutoring
  state is written back as an empty one, so floor, hold, quiz and earlier subject are
  gone, where `app/memory/conversation.py:388-390` speaks of one turn's grading; a
  failed read or store of the active subject can leave the active and the earlier
  one the same; a graded reply can be handed to the solver with relation "none"
  and no statement (`DecisionHasItsSubject` is about decisions and leaves that hand-off
  out). A clarifying or meta reply leaves the quiz open, although `open_quiz`
  (`app/graph/routing.py:287-292`) calls it open "only while it is the LAST thing the
  tutor said".
- *Code evidence.* In an exercise without a curated statement, the worked example
  a model wrote is read back as the statement's own; a topped-up suite is never
  run whole by the reference; a reference whose signature does not fit the
  examples is still called checked with them; a submission that does not fit
  overwrites the kept cases; a harness that reports nothing counts as the
  learner's failure; kept cases are added to extracted examples without selecting
  the entry point (`_with_extra_cases`), so renamed parameters fail, against
  `testgen.py:81-86`.
- *Profile.* `skill_for` (`agents/planner.py:779-785`) takes an own level equal to the
  prior for no evidence: a failed run that takes a topic from .607143 to exactly .5, or
  enough time, makes the tutor plan it with its family's level instead, hard if that is.
  `_skill_deltas` says "exactly what was written", which is false when
  another turn recorded in between or a store failed; `_quiz_skill_deltas` reports moves
  of answers that failed to persist. The comment of `HELP_ALPHA` (`app/memory/profile.py:107-109`)
  says that five requests for the code take a learner from the prior to weak and "one
  sandbox failure does it in one step"; a failure takes .5 to .425, which is not weak,
  and two are needed, as the comment of `UNSOLVED_SCORE` in the same file says and
  `EasyIsEarned` says. An outcome on a topic never moved starts from the prior
  and not from the family's estimate, so a first pass can lower the planned skill
  and a first failure raise it; a correct answer lowers a skill above .85.
- *Tutoring.* With the grade log full, the grades since the last practice problem
  are empty for good (`progression.py:5-9` says otherwise); notes chosen by the
  first reading of a message stay when the agent's own reading contradicts them;
  `question_for_turn` (`app/tutoring/turn.py:297`) promises "never the same question
  twice for one problem", which its misconception and practice branches do not check:
  a question the lesson has moved on from can be put again by a later turn; attempts
  count per
  conversation, not per problem; "let's step up to X" is said with the nearest
  problem there is.
- *Grading.* The guard against instructions in `grade_reply` after the model's
  judgement is unreachable. The docstring of `grader.py` lists "I don't know" before
  accepted answers and options; beside one of them it is graded by that.
- *Input.* The line offset of a wrapped snippet is wrong when a sample input is
  set again below, or when its first line is a star import
  (`schemas/input.py:24-26`); a question directly under a list of constraints is
  absorbed as one; a fence without a language that holds code and an error line
  goes to the error whole.

## 7. Not modelled, and why

- Retrieval ranks a fixed index; the regular expressions, the language guess and
  all wording are kinds and choices of the environment in the modules that use
  their results.
- The page's own refresh of its access token and the creation of conversations.
  A composition of the refresh with two tabs was tried and has too many states to
  be exhausted next to a turn in flight; `RotationIsSeamless` covers the server's
  side of it.
- Rendering, settings, migrations and offline evaluation are no part of the
  behaviour.

The reasons per component are in `PROJECT.json`.

## 8. What could follow

1. `MessageReading` without recursive operators, one line per step, would bring its two
   properties within reach of an inductive invariant; the code works on whole lists of lines,
   pass by pass, which is what the module keeps.
2. The page's refresh of its access token next to a turn in flight, if a view keeps
   the states few.
3. `HintLadder` and `TeachingGraph` both take a turn's decision: the former could
   take its turns from `TurnDecision` instead of choosing them.
