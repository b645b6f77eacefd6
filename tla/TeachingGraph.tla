---------------------------- MODULE TeachingGraph ----------------------------
(***************************************************************************)
(* The teaching graph (app/graph/build.py) over the turns of one            *)
(* conversation: every node of a turn, in the order of the edges, and what  *)
(* the turn leaves for the next one to be read against.  Any node may fail; *)
(* safe_node then replaces its update by the node's fallback.               *)
(*                                                                         *)
(* Of a turn's message the graph sees one of TurnDecision's readings.  What *)
(* an agent says is left out; what it leaves in the state is not.  A stored  *)
(* quiz is kept as long as it is open: open_quiz alone reads it.            *)
(***************************************************************************)
EXTENDS TurnDecision

CONSTANTS
    QuizSize,   \* questions of a knowledge check
    MaxFaults   \* bound: database failures, each of some of a turn's accesses, and
                \* turns that overlap

ASSUME SizesAreNatural == QuizSize \in Nat \ {0} /\ MaxFaults \in Nat
ASSUME NoneIsNoWord == None \notin {"quiz", "retrieval"}

VARIABLES
    conv,     \* the conversation as stored
    node,     \* the node about to run
    heard,    \* which inputs were read: "all", no label, or nothing
    older,    \* the conversation as a turn under way could load it before the last
              \* one was stored, None if there is no such turn
    seen,     \* the conversation as this turn loaded it
    late,     \* part of that was loaded before another turn was stored
    d,        \* this turn's decision
    hits,     \* the query whose hits are the turn's context, {} for none
    topic,    \* where the plan's topic came from
    out,      \* what the agents of this turn left in the state
    reply,    \* the turn has a response
    faults,   \* failures of the database and turns overtaken so far
    \* What happened, for the properties:
    graded,   \* a grade of the stored pending question was recorded before
    marked,   \* questions of the stored quiz whose marks were recorded
    moved,    \* an agent answered something else since the stored quiz was asked
    strayed    \* "question", "quiz": a turn since it was asked was not stored, or was
              \* stored by one that had loaded the conversation too early

vars == <<conv, node, heard, older, seen, late, d, hits, topic, out, reply,
          faults, graded, marked, moved, strayed>>
loaded == <<older, seen, late>>
material == <<hits, topic>>
history == <<faults, graded, marked, moved, strayed>>

Inputs == {"all", "unlabelled", "nothing"}
\* What the last reply was, for a follow-up on it.
Threads == {None, "problem", "discussion", "quiz", "plan", "explanation", "code"}
Positions == 1..QuizSize
Quizzes == {None} \cup [at : Positions, drill : {TRUE}] \cup [at : {1}, drill : {FALSE}]

\* The questions a quiz waits for: one at a time, or all of them.
Waiting(q) == IF q.drill THEN {q.at} ELSE Positions

Conversations ==
    [active : {None} \cup Subjects, earlier : {None} \cup Subjects,
     pending : {None, "question", "code"}, thread : Threads, quiz : Quizzes, recent : BOOLEAN]

Empty == [active |-> None, earlier |-> None, pending |-> None, thread |-> None, quiz |-> None,
          recent |-> FALSE]

NoDecision == [route |-> "clarify", relation |-> "none", switched |-> FALSE, submitted |-> FALSE,
               holds |-> {}, search |-> FALSE, takes |-> None, exercise |-> FALSE,
               brings |-> "words", label |-> None]

\* practice: the problem set; quiz: asked or moved on; marks: questions marked;
\* closes: the answers matched no question; aboutCode: code was run and the
\* question about it answered; next: the check the turn leaves pending, a new
\* one or one carried on.
NoOutcome == [practice |-> None, quiz |-> None, marks |-> {}, closes |-> FALSE,
              aboutCode |-> FALSE, graded |-> FALSE, handoff |-> FALSE, next |-> None,
              carried |-> FALSE]

Init ==
    /\ conv = Empty
    /\ node = "end"
    /\ heard = "nothing"
    /\ older = None /\ seen = Empty /\ late = FALSE
    /\ d = NoDecision
    /\ hits = {} /\ topic = None
    /\ out = NoOutcome
    /\ reply = FALSE
    /\ faults = 0
    /\ graded = FALSE /\ marked = {} /\ moved = FALSE /\ strayed = {}

-----------------------------------------------------------------------------
(* Reading the message against the conversation *)

\* A message arrives.  Turns of one conversation may overlap: they are taken here
\* in the order in which they are stored, and one may have loaded the
\* conversation before the turn ahead of it was stored (older).
Receive ==
    /\ node = "end"
    /\ node' = "understand_input"
    /\ reply' = FALSE
    /\ UNCHANGED <<conv, heard, loaded, d, material, out, history>>

\* The fallback leaves no structured input.
UnderstandInput ==
    /\ node = "understand_input"
    /\ node' = "load_learner_profile"
    /\ heard' \in {"all", "nothing"}
    /\ UNCHANGED <<conv, loaded, d, material, out, reply, history>>

\* A failure of the database, when some accesses fail.
Fails(some) ==
    /\ faults' = faults + (IF some = {} THEN 0 ELSE 1)
    /\ faults' <= MaxFaults

\* A subject that cannot be read, or no longer reads as one, is none.
ReadActive(stored, failed) == IF "active" \in failed THEN None ELSE stored.active

\* The pending question and the progress, or nothing of them.
ReadTutoring(stored, failed) ==
    [f \in {"pending", "earlier", "thread", "quiz"} |->
        IF "tutoring" \in failed THEN Empty[f] ELSE stored[f]]

ReadRecent(stored, failed) == IF "recent" \in failed THEN FALSE ELSE stored.recent

\* The parts a turn has read when another one is stored; they are read in turn.
ReadBefore == {{}, {"recent"}, {"recent", "active"}, {"recent", "active", "tutoring"}}

\* Nothing is locked between this and the end of the turn.  The fallback is all of
\* the reads failing.
LoadLearnerProfile ==
    /\ node = "load_learner_profile"
    /\ node' = "classify_intent"
    /\ \E failed \in SUBSET {"recent", "active", "tutoring"}, before \in ReadBefore :
         /\ older = None => before = {}
         /\ Fails(failed)
         /\ late' = (before # {})
         /\ LET stored(part) == IF part \in before THEN older ELSE conv
            IN  seen' = [f \in DOMAIN conv |->
                           CASE f = "active" -> ReadActive(stored("active"), failed)
                             [] f = "recent" -> ReadRecent(stored("recent"), failed)
                             [] OTHER -> ReadTutoring(stored("tutoring"), failed)[f]]
    /\ older' = None
    /\ UNCHANGED <<conv, heard, d, material, out, reply, graded, marked, moved, strayed>>

\* The fallback leaves no intent.
ClassifyIntent ==
    /\ node = "classify_intent"
    /\ node' = "decide_turn"
    /\ heard' \in IF heard = "all" THEN {"all", "unlabelled"} ELSE {heard}
    /\ UNCHANGED <<conv, loaded, d, material, out, reply, history>>

\* The ways the message can have been read.
HeardAs(inputs) ==
    CASE inputs = "all" -> {r \in Readings : r.label # None}
      [] inputs = "unlabelled" -> {r \in Readings : r.label = None}
      [] inputs = "nothing" -> {NoInput}

\* route_after, with ROUTE_NODES.
RouteAfter(route) ==
    CASE route = "dsa" -> "dsa_agent"
      [] route = "debug" -> "debug_agent"
      [] route = "explain" -> "explain_agent"
      [] route = "discuss" -> "discuss_agent"
      [] route = "practice" -> "practice_agent"
      [] route = "assess" -> "assess_agent"
      [] route = "grade" -> "grade_answer"
      [] route \in {"clarify", "meta"} -> "clarify"

\* The fallback asks what was meant.
DecideTurn ==
    /\ node = "decide_turn"
    /\ \E r \in HeardAs(heard) :
         \/ d' \in Decisions(seen, r)
         \/ d' = [NoDecision EXCEPT !.holds = Holds(Start(seen, r), r)]
    /\ node' = "retrieve_knowledge"
    /\ heard' = "nothing"
    /\ UNCHANGED <<conv, loaded, material, out, reply, history>>

\* build_retrieval_query; named: names were found in the code.
Query(holds, named) ==
    (IF "problem" \in holds \/ ~named THEN holds \cap {"question"} ELSE {})
    \cup (holds \cap {"problem", "error"})
    \cup (IF named THEN {"names"} ELSE {})

\* What the corpus was searched with, {} if nothing was found: no retriever, no
\* query, or the fallback.
RetrieveKnowledge ==
    /\ node = "retrieve_knowledge"
    /\ node' = "plan_teaching"
    /\ \/ hits' = {}
       \/ /\ d.search
          /\ \E named \in BOOLEAN :
               /\ named => "code" \in d.holds
               /\ hits' = Query(d.holds, named)
    /\ UNCHANGED <<conv, heard, loaded, d, topic, out, reply, history>>

\* What the planner takes the topic from (analyze_problem), in this order: what it
\* is given by the client or by the subject the turn is about; the learner's words
\* or a title, if they name one; the best hit.
TopicSources(given) ==
    IF given THEN {"given"} ELSE {"words"} \cup (IF hits # {} THEN {"retrieval"} ELSE {})

\* A plan of hints alone, without a topic.
PlanFallback == topic' = None

\* Whether the subject was stored with a topic, and the client names one, is not
\* kept.
PlanTeaching ==
    /\ node = "plan_teaching"
    /\ \/ \E hinted, known \in BOOLEAN :
            topic' \in TopicSources(\/ hinted
                                   \/ /\ known
                                      /\ seen.active # None
                                      /\ d.relation \in {"followup", "same"})
       \/ PlanFallback
    /\ node' = RouteAfter(d.route)
    /\ UNCHANGED <<conv, heard, loaded, d, hits, out, reply, history>>

-----------------------------------------------------------------------------
(* The agents; a failing one leaves an apology and nothing else.  The hits   *)
(* and the plan are the agent's.                                           *)

Runs(agent, next) ==
    /\ node = agent
    /\ node' = next
    /\ hits' = {} /\ topic' = None
    /\ UNCHANGED <<conv, heard, loaded, d, reply, history>>

\* A ladder step, a talk, a clarifying question: nothing but words.
DsaAgent == Runs("dsa_agent", "verify") /\ UNCHANGED out
DiscussAgent == Runs("discuss_agent", "final_response") /\ UNCHANGED out
Clarify == Runs("clarify", "final_response") /\ UNCHANGED out

\* Code that came alone and runs clean gets its question answered.
DebugAgent ==
    /\ Runs("debug_agent", "verify")
    /\ \/ UNCHANGED out
       \/ /\ d.brings = "code" /\ d.relation = "none"
          /\ out' = [out EXCEPT !.aboutCode = TRUE]

ExplainAgent ==
    /\ Runs("explain_agent", "verify")
    /\ \/ UNCHANGED out
       \/ /\ "code" \in d.holds /\ d.label # "review"
          /\ out' = [out EXCEPT !.aboutCode = TRUE]

\* A problem from the corpus, or code with a planted bug; or none was found.
PracticeAgent ==
    /\ Runs("practice_agent", "verify")
    /\ \E p \in Problems \cup {None} : out' = [out EXCEPT !.practice = p]

\* The quiz the turn may mark: open, and the message does not ask for another.
Marking == IF d.label = "quiz" THEN None ELSE OpenQuiz(seen)

AskQuiz ==
    \E drill \in BOOLEAN : out' = [out EXCEPT !.quiz = [at |-> 1, drill |-> drill]]

\* One answer is marked, then the next question is asked or the set closed.
MarkOne(q) ==
    out' = [out EXCEPT !.marks = {q.at},
                       !.quiz = IF q.at < QuizSize THEN [q EXCEPT !.at = @ + 1] ELSE None]

\* Every question the reply answers is marked; a reply that answers none of
\* them closes the set.
MarkQuiz ==
    \E answered \in SUBSET Positions :
        out' = [out EXCEPT !.marks = answered, !.closes = (answered = {})]

\* No model to mark with: the answers are asked for again.
AssessAgent ==
    /\ Runs("assess_agent", "verify")
    /\ \/ UNCHANGED out
       \/ Marking = None /\ AskQuiz
       \/ Marking # None /\ Marking.drill /\ MarkOne(Marking)
       \/ Marking # None /\ ~Marking.drill /\ MarkQuiz

\* grade_after.
GradeAfter(handoff) == IF handoff THEN "dsa_agent" ELSE "final_response"

\* What a graded answer leads to (react): another question, the request for
\* the code, nothing, or the next step handed to the solver.
GradeAnswer ==
    /\ node = "grade_answer"
    /\ \/ UNCHANGED out
       \/ \E handoff \in BOOLEAN, next \in {None, "question", "code"} :
            /\ handoff => seen.active # None /\ next = None
            /\ seen.pending = "code" => next = None
            /\ out' = [out EXCEPT !.graded = TRUE, !.handoff = handoff, !.next = next]
    /\ node' = GradeAfter(out'.handoff)
    /\ IF out'.handoff THEN UNCHANGED material ELSE hits' = {} /\ topic' = None
    /\ UNCHANGED <<conv, heard, loaded, d, reply, history>>

-----------------------------------------------------------------------------
(* Running what was written, and the reply *)

\* verify_after, with VERIFY_NODES.
VerifyAfter(verdict) ==
    CASE verdict \in {"pass", "fail", "inconclusive", "skipped"} -> "final_response"

\* execute_code runs what was written; the verdict is unsure when the sandbox or
\* the check of its answer fails.
Verify ==
    /\ \E verdict \in {"pass", "fail", "inconclusive", "skipped"} :
         Runs("verify", VerifyAfter(verdict))
    /\ UNCHANGED out

\* question_for_turn: whether this turn may end with a question of the bank,
\* about the problem, the concept or a mistake in the code just sent.
MayAsk ==
    /\ d.route \in {"dsa", "explain", "practice"} \/ ("code" \in d.holds /\ d.relation # "followup")
    /\ d.route = "practice" => out.practice # None \/ "code" \in d.holds
    /\ ~d.exercise

Questions == IF MayAsk THEN {None, "question"} ELSE {None}

Asked(check) == [check |-> check, carried |-> FALSE]
StillWaiting == [check |-> seen.pending, carried |-> TRUE]

\* A check that still waits: the turn answered nothing.
Carries ==
    \/ d.route \in {"meta", "discuss"}
    \/ /\ seen.pending = "code"
       /\ ~d.submitted
       /\ d.relation # "new"
       /\ d.route \notin {"practice", "grade"}

\* Mutant: a graded question goes on waiting when nothing follows it.
CarriedGraded ==
    IF out.graded /\ out.next # None THEN {Asked(out.next)}
    ELSE {IF q = None THEN StillWaiting ELSE Asked(q) : q \in Questions}

\* What is pending after the reply (_with_tutoring): one question, its own.
NextPending ==
    IF out.graded THEN {Asked(out.next)}
    ELSE {IF q = None /\ Carries THEN StillWaiting ELSE Asked(q) : q \in Questions}

\* The fallback says a safe sentence and leaves what grade_answer left.
FinalResponse ==
    /\ node = "final_response"
    /\ node' = "update_learner_model"
    /\ reply' = TRUE
    /\ \/ \E next \in NextPending :
             out' = [out EXCEPT !.next = next.check, !.carried = next.carried]
       \/ UNCHANGED out
    /\ UNCHANGED <<conv, heard, loaded, d, material, history>>

-----------------------------------------------------------------------------
(* What the turn leaves behind: each part is stored on its own *)

\* active_problem_update; None leaves the stored subject alone.
ActiveUpdate == IF ~d.switched /\ out.practice # None THEN out.practice ELSE d.takes

\* The subject to come back to: the one this turn leaves.
EarlierUpdate ==
    IF d.switched \/ (seen.active # None /\ ActiveUpdate \notin {None, seen.active})
    THEN seen.active ELSE seen.earlier

AssessThread ==
    IF out.quiz # None THEN "quiz"
    ELSE IF out.marks # {} \/ out.closes THEN "explanation"
    ELSE seen.thread

ExplainThread ==
    CASE d.label = "plan" -> "plan"
      [] d.label = "explain" /\ "code" \notin d.holds -> "explanation"
      [] OTHER -> "problem"

\* Mutant: talk leaves the thread as it was.
ThreadButNotOfTalk ==
    IF out.aboutCode THEN "code"
    ELSE CASE d.route = "assess" -> AssessThread
           [] d.route = "explain" -> ExplainThread
           [] d.route \in {"clarify", "meta", "discuss"} -> seen.thread
           [] OTHER -> "problem"

\* What the reply was, for the next turn's follow-up (_thread_of).
ThreadOf ==
    IF out.aboutCode THEN "code"
    ELSE CASE d.route = "assess" -> AssessThread
           [] d.route = "explain" -> ExplainThread
           [] d.route = "discuss" -> IF seen.active # None \/ d.switched THEN "problem" ELSE "discussion"
           [] d.route \in {"clarify", "meta"} -> seen.thread
           [] OTHER -> "problem"

\* A marked quiz is cleared, and so is one that is no longer open.
QuizUpdate ==
    IF out.quiz # None THEN out.quiz
    ELSE IF out.marks # {} \/ ThreadOf # "quiz" THEN None ELSE seen.quiz

\* An agent answered something else.  A question about the chat, a clarifying
\* question and a greeting leave what was said last as it was (_thread_of).
MovesOn == d.route \notin {"assess", "clarify", "meta"} \/ out.closes

\* A set of questions asked afresh, rather than moved on to its next one.
AsksAfresh == out.quiz # None /\ out.marks = {}

\* What of the stored conversation, now after, its history no longer speaks of.
Strays(after, stored) ==
    {x \in {"question", "quiz"} :
        /\ IF x = "question" THEN after.pending # None ELSE after.quiz # None
        /\ \/ ~stored
           \/ /\ IF x = "question" THEN out.carried ELSE ~AsksAfresh
              /\ late \/ x \in strayed}

\* The turn's evidence, message and reply, subject and tutoring state are each
\* stored in a savepoint of their own; any of them may fail.  The next turn to be
\* stored may have loaded the conversation already.
UpdateLearnerModel ==
    /\ node = "update_learner_model"
    /\ node' = "end"
    /\ \E failed \in SUBSET {"events", "turns", "active", "tutoring"}, some \in SUBSET out.marks,
          overtakes \in BOOLEAN :
         /\ IF overtakes THEN failed = {} /\ faults < MaxFaults /\ faults' = faults + 1
            ELSE Fails(failed)
         /\ "events" \notin failed => some = out.marks
         /\ conv' = [active |-> IF "active" \in failed \/ ActiveUpdate = None THEN conv.active
                                ELSE ActiveUpdate,
                     earlier |-> IF "tutoring" \in failed THEN conv.earlier ELSE EarlierUpdate,
                     pending |-> IF "tutoring" \in failed THEN conv.pending ELSE out.next,
                     thread |-> IF "tutoring" \in failed THEN conv.thread ELSE ThreadOf,
                     quiz |-> IF "tutoring" \in failed THEN conv.quiz ELSE QuizUpdate,
                     recent |-> conv.recent \/ "turns" \notin failed]
         /\ older' = IF overtakes THEN conv ELSE None
         /\ strayed' = Strays(conv', "tutoring" \notin failed)
         /\ graded' = /\ conv'.pending # None /\ "question" \notin strayed' /\ out.carried
                      /\ graded \/ (out.graded /\ "events" \notin failed)
         /\ marked' = IF conv'.quiz = None \/ "quiz" \in strayed' \/ AsksAfresh THEN {}
                      ELSE marked \cup some
         /\ moved' = /\ conv'.quiz # None /\ "quiz" \notin strayed' /\ out.quiz = None
                     /\ moved \/ MovesOn
    /\ heard' = "nothing" /\ seen' = Empty /\ late' = FALSE
    /\ d' = NoDecision /\ out' = NoOutcome
    /\ UNCHANGED <<material, reply>>

Next ==
    \/ Receive
    \/ UnderstandInput \/ LoadLearnerProfile \/ ClassifyIntent \/ DecideTurn
    \/ RetrieveKnowledge \/ PlanTeaching
    \/ DsaAgent \/ DebugAgent \/ ExplainAgent \/ DiscussAgent \/ PracticeAgent \/ AssessAgent
    \/ GradeAnswer \/ Clarify
    \/ Verify \/ FinalResponse \/ UpdateLearnerModel

Nodes == {"end", "understand_input", "load_learner_profile", "classify_intent", "decide_turn",
          "retrieve_knowledge", "plan_teaching", "dsa_agent", "debug_agent", "explain_agent", "discuss_agent",
          "practice_agent", "assess_agent", "grade_answer", "clarify", "verify",
          "final_response", "update_learner_model"}

\* The node that is due runs.
Step == node # "end" /\ node' \in Nodes

\* The graph is driven to its end (every step leaves its node, so fairness of
\* Step is fairness of every action but Receive); learners need not write.
Spec == Init /\ [][Next]_vars /\ WF_node(Step)

-----------------------------------------------------------------------------
(* Properties *)

\* The variables keep their types.
TypeOK ==
    /\ {conv, seen} \subseteq Conversations
    /\ older \in {None} \cup Conversations
    /\ node \in Nodes
    /\ heard \in Inputs
    /\ {reply, late, graded, moved} \subseteq BOOLEAN
    /\ marked \subseteq Positions
    /\ strayed \subseteq {"question", "quiz"}

\* What a turn will find: a grade of an answer is recorded and its question taken
\* off the table in separate savepoints, turns apart from when it was asked.  A
\* question that still waits was graded before only if, since it was asked, the
\* tutoring state of a turn was not stored, or was stored by a turn that had
\* loaded the conversation before another one was stored; the same of each
\* question a quiz still waits for.  Two turns that overlap may both grade what
\* both have loaded, and what talk shows while a question waits is recorded
\* besides (_reply_grade), of the words of that turn.
WaitingIsNotGraded ==
    /\ conv.pending # None /\ "question" \notin strayed => ~graded
    /\ conv.quiz # None /\ "quiz" \notin strayed => marked \cap Waiting(conv.quiz) = {}

\* open_quiz: answers are never marked against a quiz once an agent has answered
\* something else, unless since then a turn's state was not stored or turns
\* overlapped.  A question about the chat and a clarifying question in between do
\* not close it, although open_quiz says "the LAST thing the tutor said".
NoMarksAfterAnotherAnswer ==
    out.marks # {} => "quiz" \in strayed \/ late \/ ~moved

\* A step or a bug hunt decided on in a conversation with a subject is about that
\* subject, or about what the message brings: decide_turn sends neither agent in
\* with nothing (a graded answer handed to the solver is no such decision).
\* A follow-up on a statement takes no topic from a search made with its own
\* words alone.
DecisionHasItsSubject ==
    /\ node \in {"dsa_agent", "debug_agent"}
    /\ d.route \in {"dsa", "debug"}
    /\ seen.active # None
    => /\ d.relation # "none" \/ d.brings # "words"
       /\ /\ d.relation = "followup"
          /\ (IF d.switched THEN d.takes ELSE seen.active) \in Problems
          /\ topic = "retrieval"
          => "problem" \in hits

=============================================================================
