----------------------------- MODULE TurnDecision -----------------------------
(***************************************************************************)
(* The one decision of a teaching turn: what the message is about and which *)
(* node answers it (decide_turn of app/graph/nodes.py with select_route of  *)
(* app/graph/routing.py).  Pure operators of what was loaded (v), of how    *)
(* the message was read (r) and of what that makes of the turn (u).         *)
(*                                                                         *)
(* Wording is abstracted to the answers of the phrase lists: a text is      *)
(* small talk, an "I don't know", an outright ask, a question about a named *)
(* concept, a reply, a question about the chat, or none of these.           *)
(***************************************************************************)
EXTENDS Naturals

CONSTANTS
    Problems,   \* subjects that are a statement
    Codes,      \* subjects that are code the learner shared
    None

ASSUME SubjectKinds == Problems \cap Codes = {} /\ None \notin Problems \cup Codes

Subjects == Problems \cup Codes
Anchored(s) == s \in Codes

-----------------------------------------------------------------------------
(* How a message can be read *)

Labels == {"step", "explain", "plan", "debug", "code", "review", "practice", "quiz"}
Spoken == {"plain", "answer", "stuck", "ask", "concept"}

ASSUME NoneIsNoLabel == None \notin Labels

\* What the classifier tied the message to; "unread" when it gave no confident
\* reading, which leaves every flag unset.
Referents == {"new", "active", "last", "earlier", "chat"}

Read(brings, about, labels, of, texts) ==
    [brings: {brings}, about: about, label: labels, sure: {TRUE}, of: of, text: texts]
Unread(brings, about, labels, sure, texts) ==
    [brings: {brings}, about: about, label: labels, sure: sure, of: {"unread"}, text: texts]

\* With no label there is no intent: the classifier failed or had no input.
\* Code can be about the open subject; otherwise it is what it brings.
Readings ==
    Read("words", {None}, Labels, Referents, Spoken)
    \cup Unread("words", {None}, Labels \cup {None}, {FALSE}, Spoken \cup {"chat"})
    \cup Unread("words", {None}, {"plan"}, {FALSE}, {"small"})
    \cup Unread("words", {None}, {"practice", "quiz", "explain"}, {TRUE}, {"plain"})
    \cup Unread("words", {None}, {"practice"}, BOOLEAN, {"buggy"})
    \cup Read("title", Problems, Labels, Referents, {"plain"})
    \cup Unread("title", Problems, Labels \cup {None}, {FALSE}, {"plain"})
    \cup Unread("statement", Problems, Labels, BOOLEAN, {"plain", "bare"})
    \cup Read("code", Codes, Labels, {"new", "active"}, {"plain", "ask", "bare"})
    \cup Unread("code", Codes, Labels \cup {None}, {FALSE}, {"plain", "bare"})
    \cup Unread("error", {None}, Labels, BOOLEAN, {"plain"})

NoInput == [brings |-> "nothing", about |-> None, label |-> None, sure |-> FALSE,
            of |-> "unread", text |-> "bare"]

BringsSubject(r) == r.brings \in {"statement", "code", "error"}
Words(r) == r.brings \in {"words", "title"}
Talks(r) == Words(r) /\ r.text # "small"

\* wants_the_code: the reading where it is sure, a listed phrase where not.
WantsTheCode(r) == r.text = "ask"

\* names_corpus_subject: a subject of its own in the corpus vocabulary.
NamesCorpusSubject(r) == r.text = "concept"

\* _names_active_problem: the title of the statement that is open.
NamesActiveProblem(active, r) == r.brings = "title" /\ r.about = active

\* _is_repaste: the statement that is open, come again.
IsRepaste(active, r) == r.brings = "statement" /\ r.about = active

\* _brings_only_code.
BringsOnlyCode(r) == r.brings = "code"

\* code_first: an unsure label, or one for the ladder or the study plan.
CodeFirst(label, sure) == label = None \/ ~sure \/ label \in {"step", "plan"}

\* meta_followup, of a message that brings nothing: a question about the chat.
AboutTheChat(r, relation, switched) ==
    /\ Words(r)
    /\ relation \notin {"new", "same"}
    /\ ~switched
    /\ r.of = "chat" \/ (r.of = "unread" /\ r.text = "chat")

-----------------------------------------------------------------------------
(* Which subject the turn is about: _problem_update *)

Start(v, r) ==
    [relation |-> "none", key |-> None, active |-> v.active, switched |-> FALSE,
     lastReply |-> FALSE, submitted |-> FALSE, label |-> r.label, sure |-> r.sure,
     code |-> r.brings = "code", problem |-> r.brings = "statement"]

About(u, relation, key) == [u EXCEPT !.relation = relation, !.key = key]
Relabelled(u, label) == [u EXCEPT !.label = label, !.sure = TRUE]
RelabelledIf(u, test, label) == IF test THEN Relabelled(u, label) ELSE u

\* The code the tutor asked for, whatever the message is called.
CodeSubmitted(v, r) == v.pending = "code" /\ v.active # None /\ r.brings = "code"
Submission(v, r) ==
    LET u == [About(Start(v, r), "same", v.active)
                EXCEPT !.submitted = TRUE, !.problem = ~Anchored(v.active)]
    IN  RelabelledIf(u, r.label \notin {"debug", "review"}, "debug")

SwitchesBack(v, r) == r.of = "earlier" /\ v.earlier # None /\ ~BringsSubject(r)

\* A follow-up on the plan or the explanation the tutor's last reply was.
ContinuesLastReply(v, r) ==
    /\ v.thread \in {"plan", "explanation"}
    /\ Talks(r)
    /\ \/ r.of = "last" \/ r.label = None
       \/ r.of = "unread" /\ r.label \in {"step", "plan", "explain"} /\ v.pending = None
LastReply(v, r) ==
    Relabelled([Start(v, r) EXCEPT !.lastReply = TRUE],
               IF v.thread = "plan" THEN "plan" ELSE "explain")

\* A follow-up keeps its own words and takes up its subject: the statement, or
\* the code where that is the subject.
InheritActiveProblem(u, active) ==
    [u EXCEPT !.code = Anchored(active), !.problem = ~Anchored(active)]

\* More about the code the tutor has just answered a question about.
ContinuesCodeAnswer(v, r) ==
    /\ v.thread = "code"
    /\ Anchored(v.active)
    /\ Talks(r)
    /\ \/ ~r.sure
       \/ /\ r.of \notin {"chat", "earlier"}
          /\ r.label \in {"step", "explain", "code"}
          /\ r.text # "ask"
          /\ r.label = "explain" => r.of \in {"active", "last"}
CodeAnswer(v, r) ==
    Relabelled(InheritActiveProblem(About(Start(v, r), "followup", v.active), v.active), "code")

\* Code alone, about the open statement: an attempt at it.
AttemptsProblem(v, r) ==
    /\ v.active \in Problems
    /\ BringsOnlyCode(r)
    /\ r.label # None
    /\ r.of = "active" \/ r.text \in {"bare", "ask"}
Attempt(v, r) ==
    RelabelledIf([About(Start(v, r), "same", v.active) EXCEPT !.problem = TRUE],
                 r.text = "bare" \/ CodeFirst(r.label, r.sure) \/ r.label = "review", "debug")

\* _is_non_problem_turn.
NeverAboutTheProblem(r) ==
    \/ r.label \in {"practice", "quiz"}
    \/ r.label = "plan" /\ r.text \in {"ask", "small"}

\* resolve_problem_relation; answering: the tutor's last message ended on a
\* question and nothing is pending.
FollowsUp(active, r, answering) ==
    /\ active # None
    /\ Words(r) \/ r.brings = "nothing"
    /\ ~NeverAboutTheProblem(r)
    /\ \/ NamesActiveProblem(active, r)
       \/ answering /\ r.text # "ask"
       \/ IF r.of # "unread" /\ r.text # "stuck" THEN r.of = "active" ELSE ~NamesCorpusSubject(r)

\* _continues_active_problem: an answer, or nothing known, or words without a
\* request; but for a question about the chat.
ContinuesActiveProblem(r, answering) ==
    /\ ~AboutTheChat(r, "none", FALSE)
    /\ \/ r.text = "stuck" \/ r.label = "plan"
       \/ answering /\ r.text # "ask"

\* _needs_solution_intent: the code, under a label that does not bear one.
NeedsSolutionIntent(r) == WantsTheCode(r) /\ (~r.sure \/ r.label \notin {"step", "debug"})

\* A follow-up takes the label of what can be done with its subject.
FollowUp(u, active, r, answering) ==
    LET a == InheritActiveProblem(About(u, "followup", active), active)
        step == u.switched \/ NeedsSolutionIntent(r) \/ ContinuesActiveProblem(r, answering)
        b == RelabelledIf(a, step, "step")
    IN  RelabelledIf(b, Anchored(active) /\ (CodeFirst(b.label, b.sure) \/ r.text = "answer"),
                     "debug")

Resolved(v, r, answering) ==
    LET back == SwitchesBack(v, r)
        u == IF back THEN [Start(v, r) EXCEPT !.active = v.earlier, !.switched = TRUE]
             ELSE Start(v, r)
    IN  IF back \/ FollowsUp(v.active, r, answering) THEN FollowUp(u, u.active, r, answering)
        ELSE IF r.brings = "statement"
        THEN About(u, IF IsRepaste(v.active, r) THEN "same" ELSE "new", r.about)
        ELSE RelabelledIf(u, r.brings = "code" /\ CodeFirst(r.label, r.sure), "debug")

ProblemUpdate(v, r, answering) ==
    IF CodeSubmitted(v, r) THEN Submission(v, r)
    ELSE IF ContinuesLastReply(v, r) /\ ~SwitchesBack(v, r) THEN LastReply(v, r)
    ELSE IF ContinuesCodeAnswer(v, r) /\ ~SwitchesBack(v, r) THEN CodeAnswer(v, r)
    ELSE IF AttemptsProblem(v, r) THEN Attempt(v, r)
    ELSE Resolved(v, r, answering)

-----------------------------------------------------------------------------
(* Making sure that the agent has something to work on *)

\* Mutant: the label alone decides.
UnanchoredTurn(v, r, answering) == ProblemUpdate(v, r, answering)

\* _anchor_on_the_conversation: a step or a bug hunt that nothing was tied to is
\* about the conversation's subject, whatever the reading said.
AnchoredTurn(v, r, answering) ==
    LET u == ProblemUpdate(v, r, answering)
        again == ProblemUpdate(v, [r EXCEPT !.of = "active"], answering)
        adrift == /\ v.active # None
                  /\ u.relation = "none" /\ ~u.lastReply /\ ~u.switched
                  /\ Talks(r)
                  /\ r.label # None /\ u.label \in {"step", "debug"}
    IN  IF adrift /\ again.relation = "followup" THEN again ELSE u

\* _settle_unsure_reading: what the message brings says what it is.
SettlesAs(v, u, r) ==
    IF u.label = None \/ u.sure \/ u.lastReply \/ u.relation = "followup"
         \/ r.text = "small" \/ u.code THEN None
    ELSE CASE r.brings = "statement" -> "step"
           [] r.brings = "error" -> "debug"
           [] r.brings = "title" -> "step"
           [] r.text = "concept" /\ u.label = "explain" -> "explain"
           [] OTHER -> IF u.label = "explain" /\ v.active = None /\ ~v.recent
                         /\ r.text # "ask" /\ Words(r)
                       THEN "explain" ELSE None

\* _code_to_explain: with no code to read, it is written or the concept told.
HasNoCodeToExplain(u, r) ==
    u.label = "code" /\ u.sure /\ ~u.code /\ r.brings # "error" /\ r.text \notin {"bare", "small"}

SettledTurn(v, r, answering) ==
    LET u == AnchoredTurn(v, r, answering)
        label == SettlesAs(v, u, r)
    IN  IF label # None THEN Relabelled(u, label)
        ELSE RelabelledIf(u, HasNoCodeToExplain(u, r), IF u.problem THEN "step" ELSE "explain")

-----------------------------------------------------------------------------
(* Which node answers: select_route *)

IntentRoutes(label) ==
    CASE label = "step" -> "dsa"
      [] label = "practice" -> "practice"
      [] label = "quiz" -> "assess"
      [] label = "debug" -> "debug"
      [] OTHER -> "explain"

OpenQuiz(v) == IF v.thread = "quiz" THEN v.quiz ELSE None

AnswersOpenQuiz(v, r) ==
    /\ OpenQuiz(v) # None
    /\ Talks(r)
    /\ ~r.sure \/ r.text = "answer" \/ (r.label = "step" /\ r.text # "ask")

ShouldGrade(v, u, r) ==
    /\ v.pending # None
    /\ Words(r)
    /\ ~u.switched
    /\ IF v.pending = "code" THEN r.text = "stuck"
       ELSE /\ r.text # "ask"
            /\ u.label \in {"practice", "plan", "quiz"} /\ u.sure => r.text = "answer"

\* Code that shows a misconception of the catalog, under an unsure label.
CodeWithKnownMisconception(u, catalog) == u.code /\ (u.label = None \/ ~u.sure) /\ catalog

\* No plan is asked for, and there is nothing to work on.
GuidanceWithoutAsk(u, r) ==
    /\ u.label = "plan"
    /\ ~u.lastReply
    /\ r.text # "ask"
    /\ ~u.problem /\ ~u.code /\ r.brings # "error"

\* catalog: the code shows a misconception of the catalog.  The answers to an
\* open quiz were settled before this is asked.
SelectRoute(v, u, r, catalog) ==
    IF AboutTheChat(r, u.relation, u.switched) THEN "meta"
    ELSE IF ShouldGrade(v, u, r) THEN "grade"
    ELSE IF r.brings = "nothing" /\ u.relation = "none" THEN "clarify"
    ELSE IF u.submitted \/ CodeWithKnownMisconception(u, catalog) THEN "debug"
    ELSE IF u.label = None THEN "clarify"
    ELSE IF ~u.sure THEN IF u.relation = "followup" /\ r.text # "small" THEN "dsa" ELSE "clarify"
    ELSE IF GuidanceWithoutAsk(u, r) THEN "clarify"
    ELSE IntentRoutes(u.label)

\* _is_talk: whether the turn may be talk, and whether it must.  Where the
\* wording decides, both are possible.
MayBeTalk(v, u, r, route) ==
    /\ r.label # None
    /\ Talks(r)
    /\ ~u.switched
    /\ route \notin {"meta", "assess", "practice"}
    /\ route \in {"dsa", "debug"} => r.text # "ask"
    /\ route \in {"dsa", "grade"} => r.text # "stuck"
    /\ route = "grade" => r.text # "answer"
    /\ u.lastReply => r.text = "answer" \/ route = "clarify" \/ u.label = "plan"

MustBeTalk(v, r, route) == route = "clarify" /\ (v.recent \/ r.sure)

-----------------------------------------------------------------------------
(* The decision *)

\* active_problem_update, but for a practice problem: the subject this turn
\* would store; described: the words themselves become a problem.
Takes(v, u, r, route, described) ==
    CASE u.switched -> u.active
      [] ~u.switched /\ u.relation = "new" -> u.key
      [] ~u.switched /\ u.relation = "none" /\ route = "dsa" /\ r.brings = "title" ->
            IF r.about = v.active THEN None ELSE r.about
      [] ~u.switched /\ u.relation = "none" /\ route \in {"dsa", "discuss"} /\ r.brings = "words" ->
            IF v.active = None /\ ~v.recent THEN described ELSE None
      [] ~u.switched /\ u.relation = "none" /\ route \in {"debug", "explain"} /\ r.brings = "code" ->
            IF v.active \in Codes \cup {None} /\ r.about # v.active THEN r.about ELSE None
      [] OTHER -> None

\* The parts of the settled input: what a follow-up says, and what it is about.
Holds(u, r) ==
    {part \in {"question", "problem", "code", "error"} :
        CASE part = "question" -> r.brings # "nothing" /\ r.text # "bare"
          [] part = "problem" -> u.problem
          [] part = "code" -> u.code
          [] part = "error" -> r.brings = "error"}

\* should_retrieve, and a follow-up always.  Under a bug hunt an error may
\* still suppress the search.
MayRetrieve(u, r) ==
    u.relation = "followup" \/ (r.brings # "nothing" /\ u.label # None /\ u.sure)

Decision(u, r, route, takes, exercise) ==
    [route |-> route, relation |-> u.relation, switched |-> u.switched,
     submitted |-> u.submitted, holds |-> Holds(u, r), search |-> MayRetrieve(u, r),
     takes |-> takes, exercise |-> exercise,
     brings |-> IF route \in {"dsa", "debug"} THEN r.brings ELSE "words",
     label |-> IF route \in {"explain", "assess"} THEN u.label ELSE None]

\* _answering_the_tutor: whether the message may answer what the tutor's last
\* message ended on asking, with nothing pending.
MayAnswer(v, r) == v.recent /\ v.active # None /\ v.pending = None /\ Talks(r)

\* The routes of a settled turn, talk among them.
RoutesOf(v, u, r, catalog) ==
    LET route == SelectRoute(v, u, r, catalog)
    IN  IF ~MayBeTalk(v, u, r, route) THEN {route}
        ELSE IF MustBeTalk(v, r, route) THEN {"discuss"}
        ELSE {route, "discuss"}

\* _decide, once the quiz and the bug exercise are out of the way.
Decided(v, r, u) ==
    UNION {{Decision(u, r, route, Takes(v, u, r, route, described), FALSE) :
              route \in RoutesOf(v, u, r, catalog), described \in Problems \cup {None}} :
           catalog \in IF u.code THEN BOOLEAN ELSE {FALSE}}

\* Every decision a message may get, read as r in a conversation loaded as v.
Decisions(v, r) ==
    IF r.text = "buggy" THEN {Decision(Start(v, r), r, "practice", None, TRUE)}
    ELSE IF AnswersOpenQuiz(v, r) THEN {Decision(Start(v, r), r, "assess", None, FALSE)}
    ELSE UNION {Decided(v, r, SettledTurn(v, r, answering)) :
                  answering \in IF MayAnswer(v, r) THEN BOOLEAN ELSE {FALSE}}

=============================================================================
