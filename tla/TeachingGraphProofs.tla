-------------------------- MODULE TeachingGraphProofs --------------------------
(***************************************************************************)
(* Proofs about TeachingGraph and the decision of TurnDecision, for any      *)
(* statements and any code, any size of a quiz and any number of failures.  *)
(***************************************************************************)
EXTENDS TeachingGraph, TLAPS

-----------------------------------------------------------------------------
(* The inductive invariant *)

Routes == {"dsa", "debug", "explain", "discuss", "practice", "assess", "grade", "clarify", "meta"}
Relations == {"none", "followup", "same", "new"}
Brought == {"words", "title", "statement", "code", "error", "nothing"}

DecisionType ==
    [route : Routes, relation : Relations, switched : BOOLEAN, submitted : BOOLEAN,
     holds : SUBSET {"question", "problem", "code", "error"}, search : BOOLEAN,
     takes : {None} \cup Subjects, exercise : BOOLEAN, brings : Brought, label : {None} \cup Labels]

OutcomeType ==
    [practice : {None} \cup Problems, quiz : Quizzes, marks : SUBSET Positions, closes : BOOLEAN,
     aboutCode : BOOLEAN, graded : BOOLEAN, handoff : BOOLEAN,
     next : {None, "question", "code"}, carried : BOOLEAN]

GraphTypes ==
    /\ conv \in Conversations /\ seen \in Conversations
    /\ node \in Nodes
    /\ heard \in Inputs
    /\ d \in DecisionType
    /\ out \in OutcomeType
    /\ reply \in BOOLEAN
    /\ marked \subseteq Positions
    /\ older \in {None} \cup Conversations /\ late \in BOOLEAN
    /\ graded \in BOOLEAN /\ moved \in BOOLEAN /\ strayed \subseteq {"question", "quiz"}

\* The nodes of a turn in which nothing is decided yet, in which it is decided
\* and not worked on, and in which an agent works.
Reading == {"end", "understand_input", "load_learner_profile", "classify_intent", "decide_turn"}
Planning == {"retrieve_knowledge", "plan_teaching"}
Agents == {"dsa_agent", "debug_agent", "explain_agent", "discuss_agent", "practice_agent",
           "assess_agent", "grade_answer", "clarify"}

\* The agent at work is the one the decision named, or the solver a grade was
\* handed to.
WhereTheTurnIs ==
    /\ node \in Reading => d = NoDecision
    /\ node \in Reading \cup Planning \cup (Agents \ {"dsa_agent"}) => out = NoOutcome
    /\ node = "dsa_agent" => d.route = "dsa" \/ out.handoff
    /\ node = "debug_agent" => d.route = "debug"
    /\ node = "assess_agent" => d.route = "assess"
    /\ node \notin Agents \cup {"plan_teaching"} => hits = {} /\ topic = None

\* What the turn loaded is what is stored, or nothing where it could not be read,
\* unless another turn was stored since.
SeenIsStored ==
    /\ node \in {"end", "understand_input", "load_learner_profile"} => seen = Empty /\ ~late
    /\ ~late => /\ seen.thread \in {conv.thread, None}
                /\ seen.quiz \in {conv.quiz, None}
                /\ seen.pending \in {conv.pending, None}

\* What the agents may leave: marks of the open quiz, of its one question or of
\* its set; a check carried on is the one that waited, and was not graded.
OutcomeInOrder ==
    /\ out.closes => d.route = "assess"
    /\ out.marks # {} =>
         /\ seen.thread = "quiz" /\ seen.quiz # None
         /\ seen.quiz.drill =>
              /\ out.marks = {seen.quiz.at}
              /\ out.quiz # None => out.quiz.drill /\ out.quiz.at > seen.quiz.at
         /\ ~seen.quiz.drill => out.quiz = None
    /\ out.carried => ~out.graded /\ out.next = seen.pending

\* An agent has something to work on, and what a follow-up is about is among
\* what the corpus is searched with.
DecisionSound ==
    /\ d.route \in {"dsa", "debug"} /\ seen.active # None
         => d.relation # "none" \/ d.brings # "words"
    /\ d.relation = "followup" /\ (IF d.switched THEN d.takes ELSE seen.active) \in Problems
         => "problem" \in d.holds

HitsAreOfTheTurn ==
    /\ hits # {} /\ "problem" \in d.holds => "problem" \in hits
    /\ topic = "retrieval" => hits # {}

\* As long as every turn since was stored in its place: a question that waits has
\* not been graded, a drill waits for a question after those marked, a set waits as
\* a whole, and once an agent has answered something else the quiz is not the last
\* thing said.
EvidenceInOrder ==
    /\ conv.pending # None /\ "question" \notin strayed => ~graded
    /\ conv.quiz # None /\ "quiz" \notin strayed =>
         /\ conv.quiz.drill => \A i \in marked : i < conv.quiz.at
         /\ ~conv.quiz.drill => marked = {}
         /\ moved => conv.thread # "quiz"

GraphInv ==
    /\ GraphTypes /\ WhereTheTurnIs /\ SeenIsStored /\ OutcomeInOrder
    /\ DecisionSound /\ HitsAreOfTheTurn /\ EvidenceInOrder

-----------------------------------------------------------------------------
(* How a message was read *)

ReadingType ==
    [brings : Brought, about : {None} \cup Subjects, label : {None} \cup Labels, sure : BOOLEAN,
     of : Referents \cup {"unread"}, text : Spoken \cup {"chat", "small", "buggy", "bare"}]

LEMMA ReadingsAreTyped ==
    ASSUME NEW r \in Readings \cup {NoInput}
    PROVE  r \in ReadingType /\ (r.text = "small" => r.label = "plan")
<1>1. CASE r = NoInput
  <2>1. r = [brings |-> "nothing", about |-> None, label |-> None, sure |-> FALSE,
             of |-> "unread", text |-> "bare"]
        BY <1>1 DEF NoInput
  <2> QED BY <2>1 DEF ReadingType, Brought
<1>2. CASE r \in Readings
      BY <1>2 DEF Readings, Read, Unread, ReadingType, Labels, Spoken, Brought, Subjects, Referents
<1> QED BY <1>1, <1>2

-----------------------------------------------------------------------------
(* What the turn is about *)

TurnType ==
    [relation : Relations, key : {None} \cup Subjects, active : {None} \cup Subjects,
     switched : BOOLEAN, lastReply : BOOLEAN, submitted : BOOLEAN, label : {None} \cup Labels,
     sure : BOOLEAN, code : BOOLEAN, problem : BOOLEAN]

\* Which subject a turn takes up: a follow-up on a statement works on it; words
\* bring no code and no statement of their own, and unless they follow up they
\* keep the label the classifier gave them, or get one that needs no subject.
TakenUp(v, r, u) ==
    /\ u \in TurnType
    /\ u.relation = "followup" /\ (IF u.switched THEN u.active ELSE v.active) \in Problems
         => u.problem
    /\ r.brings = "words" =>
         /\ ~u.submitted
         /\ u.code \/ u.problem \/ u.switched => u.relation = "followup"
         /\ u.relation = "none" /\ u.label \in {"step", "debug"} => u.label = r.label /\ ~u.lastReply

LEMMA StartIsTyped ==
    ASSUME NEW v \in Conversations, NEW r \in ReadingType
    PROVE  LET u == Start(v, r) IN
           /\ u \in TurnType /\ u.relation = "none" /\ u.active = v.active /\ ~u.switched
           /\ ~u.lastReply /\ ~u.submitted /\ u.label = r.label /\ u.sure = r.sure
           /\ u.code <=> r.brings = "code"
           /\ u.problem <=> r.brings = "statement"
<1> DEFINE code == (r.brings = "code")
           problem == (r.brings = "statement")
<1>1. code \in BOOLEAN /\ problem \in BOOLEAN
      OBVIOUS
<1>2. /\ v.active \in {None} \cup Subjects
      /\ r.label \in {None} \cup Labels /\ r.sure \in BOOLEAN
      BY DEF Conversations, ReadingType
<1>3. Start(v, r) =
        [relation |-> "none", key |-> None, active |-> v.active, switched |-> FALSE,
         lastReply |-> FALSE, submitted |-> FALSE, label |-> r.label, sure |-> r.sure,
         code |-> code, problem |-> problem]
      BY DEF Start
<1>4. (code <=> r.brings = "code") /\ (problem <=> r.brings = "statement")
      OBVIOUS
<1> HIDE DEF code, problem
<1> QED BY <1>1, <1>2, <1>3, <1>4 DEF TurnType, Relations

LEMMA AboutIsTyped ==
    ASSUME NEW u \in TurnType, NEW relation \in Relations, NEW key \in {None} \cup Subjects
    PROVE  LET w == About(u, relation, key) IN
           /\ w \in TurnType /\ w.relation = relation /\ w.key = key /\ w.active = u.active
           /\ w.switched = u.switched /\ w.lastReply = u.lastReply /\ w.submitted = u.submitted
           /\ w.label = u.label /\ w.sure = u.sure /\ w.code = u.code /\ w.problem = u.problem
BY DEF About, TurnType

LEMMA RelabelledIsTyped ==
    ASSUME NEW u \in TurnType, NEW label \in Labels, NEW test
    PROVE  LET w == RelabelledIf(u, test, label) IN
           /\ w \in TurnType /\ w.relation = u.relation /\ w.key = u.key /\ w.active = u.active
           /\ w.switched = u.switched /\ w.lastReply = u.lastReply /\ w.submitted = u.submitted
           /\ w.code = u.code /\ w.problem = u.problem
           /\ w.label = u.label \/ w.label = label
           /\ ~test => w = u
BY DEF RelabelledIf, Relabelled, TurnType

LEMMA InheritIsTyped ==
    ASSUME NEW u \in TurnType, NEW active \in {None} \cup Subjects
    PROVE  LET w == InheritActiveProblem(u, active) IN
           /\ w \in TurnType /\ w.relation = u.relation /\ w.active = u.active
           /\ w.switched = u.switched /\ w.lastReply = u.lastReply /\ w.submitted = u.submitted
           /\ w.label = u.label /\ w.sure = u.sure
           /\ active \in Problems => w.problem
<1> DEFINE code == Anchored(active)
           problem == ~Anchored(active)
<1>1. code \in BOOLEAN /\ problem \in BOOLEAN
      BY DEF Anchored
<1>2. InheritActiveProblem(u, active) = [u EXCEPT !.code = code, !.problem = problem]
      BY DEF InheritActiveProblem
<1>3. active \in Problems => problem
      BY SubjectKinds DEF Anchored
<1> HIDE DEF code, problem
<1> QED BY <1>1, <1>2, <1>3 DEF TurnType

\* A follow-up on the subject that is open, or on the earlier one come back to.
LEMMA FollowUpTakesUp ==
    ASSUME NEW v \in Conversations, NEW r \in ReadingType, NEW u \in TurnType,
           u.active \in {None} \cup Subjects, ~u.switched => u.active = v.active, ~u.submitted,
           NEW answering
    PROVE  LET w == FollowUp(u, u.active, r, answering) IN
           TakenUp(v, r, w) /\ w.relation = "followup" /\ w.switched = u.switched
           /\ w.active = u.active
<1> DEFINE a == InheritActiveProblem(About(u, "followup", u.active), u.active)
           step == u.switched \/ NeedsSolutionIntent(r) \/ ContinuesActiveProblem(r, answering)
           b == RelabelledIf(a, step, "step")
           w == RelabelledIf(b, Anchored(u.active) /\ (CodeFirst(b.label, b.sure) \/ r.text = "answer"),
                             "debug")
<1>1. FollowUp(u, u.active, r, answering) = w
      BY DEF FollowUp
<1>2. "followup" \in Relations /\ {"step", "debug"} \subseteq Labels
      BY DEF Relations, Labels
<1>3. /\ About(u, "followup", u.active) \in TurnType
      /\ About(u, "followup", u.active).relation = "followup"
      /\ About(u, "followup", u.active).active = u.active
      /\ About(u, "followup", u.active).switched = u.switched
      /\ About(u, "followup", u.active).submitted = u.submitted
      BY <1>2, AboutIsTyped
<1>4. /\ a \in TurnType /\ a.relation = "followup" /\ a.active = u.active
      /\ a.switched = u.switched /\ a.submitted = u.submitted
      /\ u.active \in Problems => a.problem
      BY <1>3, InheritIsTyped
<1> HIDE DEF a, step
<1>5. /\ b \in TurnType /\ b.relation = "followup" /\ b.active = u.active
      /\ b.switched = u.switched /\ b.submitted = u.submitted /\ b.problem = a.problem
      BY <1>2, <1>4, RelabelledIsTyped
<1> HIDE DEF b
<1>6. /\ w \in TurnType /\ w.relation = "followup" /\ w.active = u.active
      /\ w.switched = u.switched /\ w.submitted = u.submitted /\ w.problem = b.problem
      BY <1>2, <1>5, RelabelledIsTyped
<1> HIDE DEF w
<1>7. TakenUp(v, r, w)
      BY <1>4, <1>5, <1>6 DEF TakenUp
<1> QED BY <1>1, <1>6, <1>7

LEMMA ResolvedTakesUp ==
    ASSUME NEW v \in Conversations, NEW r \in ReadingType, NEW answering
    PROVE  /\ TakenUp(v, r, Resolved(v, r, answering))
           /\ FollowsUp(v.active, r, answering)
                => Resolved(v, r, answering).relation = "followup"
<1> DEFINE start == Start(v, r)
           back == SwitchesBack(v, r)
           u == IF back THEN [start EXCEPT !.active = v.earlier, !.switched = TRUE] ELSE start
           new == About(u, IF IsRepaste(v.active, r) THEN "same" ELSE "new", r.about)
           other == RelabelledIf(u, r.brings = "code" /\ CodeFirst(r.label, r.sure), "debug")
<1>1. /\ start \in TurnType /\ start.relation = "none" /\ start.active = v.active /\ ~start.switched
      /\ ~start.lastReply /\ ~start.submitted /\ start.label = r.label
      /\ start.code <=> r.brings = "code"
      /\ start.problem <=> r.brings = "statement"
      BY StartIsTyped
<1>2. v.earlier \in {None} \cup Subjects /\ v.active \in {None} \cup Subjects /\ r.about \in {None} \cup Subjects
      BY DEF Conversations, ReadingType
<1>3. Resolved(v, r, answering) =
        IF back \/ FollowsUp(v.active, r, answering) THEN FollowUp(u, u.active, r, answering)
        ELSE IF r.brings = "statement" THEN new ELSE other
      BY DEF Resolved
<1> HIDE DEF start
<1>4. /\ u \in TurnType /\ u.active \in {None} \cup Subjects /\ ~u.submitted
      /\ ~u.switched => u.active = v.active
      BY <1>1, <1>2 DEF TurnType
<1>5. CASE back \/ FollowsUp(v.active, r, answering)
  <2> HIDE DEF u, back
  <2> QED BY <1>3, <1>4, <1>5, FollowUpTakesUp
<1>6. CASE ~back /\ ~FollowsUp(v.active, r, answering) /\ r.brings = "statement"
  <2> DEFINE relation == IF IsRepaste(v.active, r) THEN "same" ELSE "new"
  <2>0. relation \in {"same", "new"} /\ relation \in Relations /\ new = About(start, relation, r.about)
        BY <1>6 DEF Relations
  <2> HIDE DEF relation
  <2>1. new \in TurnType /\ new.relation \in {"same", "new"}
        BY <1>1, <1>2, <2>0, AboutIsTyped
  <2> HIDE DEF new, u, back, other
  <2>2. TakenUp(v, r, new)
        BY <1>6, <2>1 DEF TakenUp
  <2> QED BY <1>3, <1>6, <2>2
<1>7. CASE ~back /\ ~FollowsUp(v.active, r, answering) /\ r.brings # "statement"
  <2>1. u = start /\ "debug" \in Labels
        BY <1>7 DEF Labels
  <2> DEFINE test == r.brings = "code" /\ CodeFirst(r.label, r.sure)
  <2>0. other = RelabelledIf(start, test, "debug") /\ (r.brings # "code" => ~test)
        BY <2>1
  <2> HIDE DEF u, back, test
  <2>2. /\ other \in TurnType /\ other.relation = "none" /\ ~other.switched /\ ~other.lastReply
        /\ ~other.submitted /\ other.code = start.code /\ other.problem = start.problem
        /\ r.brings # "code" => other = start
        BY <1>1, <2>0, <2>1, RelabelledIsTyped
  <2> HIDE DEF other
  <2>3. TakenUp(v, r, other)
        BY <1>1, <1>7, <2>2 DEF TakenUp
  <2> QED BY <1>3, <1>7, <2>3
<1> QED BY <1>5, <1>6, <1>7

\* The code the tutor asked for, or an attempt at the statement: no words.
LEMMA CodeTakesUp ==
    ASSUME NEW v \in Conversations, NEW r \in ReadingType, r.brings = "code"
    PROVE  TakenUp(v, r, Submission(v, r)) /\ TakenUp(v, r, Attempt(v, r))
<1> DEFINE start == Start(v, r)
           same == About(start, "same", v.active)
           theirs == ~Anchored(v.active)
           sent == [same EXCEPT !.submitted = TRUE, !.problem = theirs]
           tried == [same EXCEPT !.problem = TRUE]
           first == r.label \notin {"debug", "review"}
           second == r.text = "bare" \/ CodeFirst(r.label, r.sure) \/ r.label = "review"
<1>1. v.active \in {None} \cup Subjects /\ "same" \in Relations /\ "debug" \in Labels /\ theirs \in BOOLEAN
      BY DEF Conversations, Relations, Labels, Anchored
<1>2. /\ Submission(v, r) = RelabelledIf(sent, first, "debug")
      /\ Attempt(v, r) = RelabelledIf(tried, second, "debug")
      BY DEF Submission, Attempt
<1>3. start \in TurnType
      BY StartIsTyped
<1> HIDE DEF start, theirs, first, second
<1>4. same \in TurnType /\ same.relation = "same"
      BY <1>1, <1>3, AboutIsTyped
<1> HIDE DEF same
<1>5. sent \in TurnType /\ sent.relation = "same" /\ tried \in TurnType /\ tried.relation = "same"
      BY <1>1, <1>4 DEF TurnType
<1> HIDE DEF sent, tried
<1>6. /\ Submission(v, r) \in TurnType /\ Submission(v, r).relation = "same"
      /\ Attempt(v, r) \in TurnType /\ Attempt(v, r).relation = "same"
      BY <1>1, <1>2, <1>5, RelabelledIsTyped
<1> QED BY <1>6 DEF TakenUp

LEMMA LastReplyTakesUp ==
    ASSUME NEW v \in Conversations, NEW r \in ReadingType
    PROVE  TakenUp(v, r, LastReply(v, r))
<1> DEFINE start == Start(v, r)
           u == [start EXCEPT !.lastReply = TRUE]
           label == IF v.thread = "plan" THEN "plan" ELSE "explain"
<1>1. /\ start \in TurnType /\ start.relation = "none" /\ ~start.switched /\ ~start.submitted
      /\ start.code <=> r.brings = "code"
      /\ start.problem <=> r.brings = "statement"
      BY StartIsTyped
<1>2. label \in {"plan", "explain"} /\ LastReply(v, r) = Relabelled(u, label)
      BY DEF LastReply
<1> HIDE DEF start, label
<1>3. LastReply(v, r) = [u EXCEPT !.label = label, !.sure = TRUE]
      BY <1>2 DEF Relabelled
<1>4. /\ LastReply(v, r) \in TurnType /\ LastReply(v, r).relation = "none"
      /\ LastReply(v, r).label = label /\ ~LastReply(v, r).submitted /\ ~LastReply(v, r).switched
      /\ LastReply(v, r).code = start.code /\ LastReply(v, r).problem = start.problem
      BY <1>1, <1>2, <1>3 DEF TurnType, Labels
<1> QED BY <1>1, <1>2, <1>4 DEF TakenUp

LEMMA CodeAnswerTakesUp ==
    ASSUME NEW v \in Conversations, NEW r \in ReadingType
    PROVE  TakenUp(v, r, CodeAnswer(v, r)) /\ CodeAnswer(v, r).relation = "followup"
<1> DEFINE start == Start(v, r)
           about == About(start, "followup", v.active)
           u == InheritActiveProblem(about, v.active)
           test == u = u
<1>1. /\ v.active \in {None} \cup Subjects /\ "followup" \in Relations /\ "code" \in Labels
      BY DEF Conversations, Relations, Labels
<1>2. CodeAnswer(v, r) = RelabelledIf(u, test, "code")
      BY DEF CodeAnswer, RelabelledIf
<1>3. start \in TurnType /\ ~start.switched /\ ~start.submitted
      BY StartIsTyped
<1> HIDE DEF start
<1>4. about \in TurnType /\ about.relation = "followup" /\ ~about.switched /\ ~about.submitted
      BY <1>1, <1>3, AboutIsTyped
<1> HIDE DEF about, test
<1>5. /\ u \in TurnType /\ u.relation = "followup" /\ ~u.switched /\ ~u.submitted
      /\ v.active \in Problems => u.problem
      BY <1>1, <1>4, InheritIsTyped
<1> HIDE DEF u
<1>6. /\ CodeAnswer(v, r) \in TurnType /\ CodeAnswer(v, r).relation = "followup"
      /\ ~CodeAnswer(v, r).switched /\ ~CodeAnswer(v, r).submitted
      /\ CodeAnswer(v, r).problem = u.problem
      BY <1>1, <1>2, <1>5, RelabelledIsTyped
<1> QED BY <1>5, <1>6 DEF TakenUp

LEMMA UpdateTakesUp ==
    ASSUME NEW v \in Conversations, NEW r \in ReadingType, NEW answering
    PROVE  TakenUp(v, r, ProblemUpdate(v, r, answering))
<1> DEFINE u == ProblemUpdate(v, r, answering)
<1>1. CASE CodeSubmitted(v, r)
  <2>1. r.brings = "code"
        BY <1>1 DEF CodeSubmitted
  <2> QED BY <1>1, <2>1, CodeTakesUp DEF ProblemUpdate
<1>2. CASE ~CodeSubmitted(v, r) /\ ContinuesLastReply(v, r) /\ ~SwitchesBack(v, r)
      BY <1>2, LastReplyTakesUp DEF ProblemUpdate
<1>3. CASE ~CodeSubmitted(v, r) /\ ~(ContinuesLastReply(v, r) /\ ~SwitchesBack(v, r))
  <2>1. CASE ContinuesCodeAnswer(v, r) /\ ~SwitchesBack(v, r)
        BY <1>3, <2>1, CodeAnswerTakesUp DEF ProblemUpdate
  <2>2. CASE ~(ContinuesCodeAnswer(v, r) /\ ~SwitchesBack(v, r)) /\ AttemptsProblem(v, r)
    <3>1. r.brings = "code"
          BY <2>2 DEF AttemptsProblem, BringsOnlyCode
    <3> QED BY <1>3, <2>2, <3>1, CodeTakesUp DEF ProblemUpdate
  <2>3. CASE ~(ContinuesCodeAnswer(v, r) /\ ~SwitchesBack(v, r)) /\ ~AttemptsProblem(v, r)
        BY <1>3, <2>3, ResolvedTakesUp DEF ProblemUpdate
  <2> QED BY <2>1, <2>2, <2>3
<1> QED BY <1>1, <1>2, <1>3

\* Words that call for a step or a bug hunt follow up once they are read as being
\* about the open subject.
LEMMA AskedAgainItFollowsUp ==
    ASSUME NEW v \in Conversations, NEW r \in ReadingType, NEW answering,
           v.active # None, r.brings = "words", r.label \in {"step", "debug"}, r.of = "active"
    PROVE  ProblemUpdate(v, r, answering).relation = "followup"
<1>1. /\ ~CodeSubmitted(v, r) /\ ~SwitchesBack(v, r) /\ ~AttemptsProblem(v, r)
      BY DEF CodeSubmitted, SwitchesBack, AttemptsProblem, BringsOnlyCode
<1>2. ~ContinuesLastReply(v, r)
  <2>1. r.label # None
        BY NoneIsNoLabel DEF Labels
  <2> QED BY <2>1 DEF ContinuesLastReply
<1>3. FollowsUp(v.active, r, answering)
      BY DEF FollowsUp, NamesCorpusSubject, Words, NeverAboutTheProblem
<1>4. CASE ContinuesCodeAnswer(v, r)
      BY <1>1, <1>2, <1>4, CodeAnswerTakesUp DEF ProblemUpdate
<1>5. CASE ~ContinuesCodeAnswer(v, r)
      BY <1>1, <1>2, <1>3, <1>5, ResolvedTakesUp DEF ProblemUpdate
<1> QED BY <1>4, <1>5

-----------------------------------------------------------------------------
(* Which agent answers *)

\* Words that nothing ties to the open subject call for no step and no bug hunt.
NotAdrift(v, r, u) ==
    v.active # None /\ r.brings = "words" /\ u.relation = "none" => u.label \notin {"step", "debug"}

LEMMA AnchoredTakesUp ==
    ASSUME NEW v \in Conversations, NEW r \in ReadingType, NEW answering,
           r.text = "small" => r.label = "plan"
    PROVE  LET u == AnchoredTurn(v, r, answering) IN TakenUp(v, r, u) /\ NotAdrift(v, r, u)
<1> DEFINE u == ProblemUpdate(v, r, answering)
           s == [r EXCEPT !.of = "active"]
           again == ProblemUpdate(v, s, answering)
           adrift == /\ v.active # None
                     /\ u.relation = "none" /\ ~u.lastReply /\ ~u.switched
                     /\ Talks(r)
                     /\ r.label # None /\ u.label \in {"step", "debug"}
<1>1. AnchoredTurn(v, r, answering) = IF adrift /\ again.relation = "followup" THEN again ELSE u
      BY DEF AnchoredTurn
<1>2. /\ s \in ReadingType /\ s.brings = r.brings /\ s.label = r.label /\ s.of = "active"
      BY DEF ReadingType, Referents
<1> HIDE DEF s
<1>3. TakenUp(v, r, u) /\ TakenUp(v, s, again)
      BY <1>2, UpdateTakesUp
<1>4. /\ v.active # None /\ r.brings = "words" /\ r.label \in {"step", "debug"}
         => again.relation = "followup"
      BY <1>2, AskedAgainItFollowsUp
<1> HIDE DEF u, again
<1>5. TakenUp(v, r, again)
      BY <1>2, <1>3 DEF TakenUp
<1>6. CASE adrift /\ again.relation = "followup"
      BY <1>1, <1>5, <1>6 DEF NotAdrift
<1>7. CASE ~(adrift /\ again.relation = "followup")
  <2>1. ASSUME v.active # None, r.brings = "words", u.relation = "none", u.label \in {"step", "debug"}
        PROVE  FALSE
    <3>1. u.label = r.label /\ ~u.lastReply /\ ~u.switched
          BY <1>3, <2>1 DEF TakenUp
    <3>2. Talks(r)
          BY <2>1, <3>1 DEF Talks, Words
    <3>3. r.label # None
          BY <2>1, <3>1, NoneIsNoLabel DEF Labels
    <3> QED BY <1>4, <1>7, <2>1, <3>1, <3>2, <3>3
  <2> HIDE DEF adrift
  <2> QED BY <1>1, <1>3, <1>7, <2>1 DEF NotAdrift
<1> QED BY <1>6, <1>7

\* A label that needs a subject is given to words only where they follow up.
LEMMA RelabelledTakesUp ==
    ASSUME NEW v, NEW r, NEW u, TakenUp(v, r, u), NotAdrift(v, r, u), NEW label \in Labels, NEW test,
           test /\ r.brings = "words" /\ label \in {"step", "debug"} => u.relation = "followup"
    PROVE  LET w == RelabelledIf(u, test, label) IN TakenUp(v, r, w) /\ NotAdrift(v, r, w)
<1> DEFINE w == RelabelledIf(u, test, label)
<1>1. /\ w \in TurnType /\ w.relation = u.relation /\ w.key = u.key /\ w.active = u.active
      /\ w.switched = u.switched /\ w.lastReply = u.lastReply /\ w.submitted = u.submitted
      /\ w.code = u.code /\ w.problem = u.problem
      /\ w.label = u.label \/ w.label = label
      /\ ~test => w = u
      BY RelabelledIsTyped DEF TakenUp
<1> HIDE DEF w
<1>2. ASSUME test PROVE TakenUp(v, r, w) /\ NotAdrift(v, r, w)
      BY <1>1, <1>2 DEF TakenUp, NotAdrift
<1>3. ASSUME ~test PROVE TakenUp(v, r, w) /\ NotAdrift(v, r, w)
      BY <1>1, <1>3
<1> QED BY <1>2, <1>3 DEF w

LEMMA SettledTakesUp ==
    ASSUME NEW v \in Conversations, NEW r \in ReadingType, NEW answering,
           r.text = "small" => r.label = "plan"
    PROVE  LET u == SettledTurn(v, r, answering) IN TakenUp(v, r, u) /\ NotAdrift(v, r, u)
<1> DEFINE u == AnchoredTurn(v, r, answering)
           label == SettlesAs(v, u, r)
           settles == label # None
           without == HasNoCodeToExplain(u, r)
           told == IF u.problem THEN "step" ELSE "explain"
<1>1. SettledTurn(v, r, answering) =
        IF settles THEN RelabelledIf(u, settles, label) ELSE RelabelledIf(u, without, told)
      BY DEF SettledTurn, RelabelledIf
<1>2. TakenUp(v, r, u) /\ NotAdrift(v, r, u)
      BY AnchoredTakesUp
<1> HIDE DEF u
<1>3. /\ settles => label \in Labels
      /\ r.brings = "words" => label \notin {"step", "debug"}
  <2>1. label \in {None, "step", "debug", "explain"}
        BY DEF SettlesAs
  <2>2. r.brings = "words" => label \in {None, "explain"}
        BY DEF SettlesAs
  <2> HIDE DEF label
  <2> QED BY <2>1, <2>2, NoneIsNoLabel DEF Labels
<1>4. /\ told \in Labels
      /\ r.brings = "words" /\ told \in {"step", "debug"} => u.relation = "followup"
      BY <1>2 DEF Labels, TakenUp
<1> HIDE DEF settles, label, without, told
<1>5. CASE settles
      BY <1>1, <1>2, <1>3, <1>5, RelabelledTakesUp
<1>6. CASE ~settles
      BY <1>1, <1>2, <1>4, <1>6, RelabelledTakesUp
<1> QED BY <1>5, <1>6

LEMMA RouteSuits ==
    ASSUME NEW v \in Conversations, NEW r \in ReadingType, NEW u, TakenUp(v, r, u),
           NotAdrift(v, r, u), NEW catalog, NEW route, route = SelectRoute(v, u, r, catalog)
    PROVE  /\ route \in Routes
           /\ v.active # None /\ r.brings = "words" /\ route \in {"dsa", "debug"}
                => u.relation # "none"
<1>1. IntentRoutes(u.label) \in {"dsa", "practice", "assess", "debug", "explain"}
      BY DEF IntentRoutes
<1>2. u.label \notin {"step", "debug"} => IntentRoutes(u.label) \notin {"dsa", "debug"}
      BY DEF IntentRoutes
<1>3. route \in Routes
      BY <1>1 DEF SelectRoute, Routes, GuidanceWithoutAsk, CodeWithKnownMisconception
<1>4. ASSUME v.active # None, r.brings = "words", u.relation = "none"
      PROVE  route \notin {"dsa", "debug"}
  <2>1. u.label \notin {"step", "debug"} /\ ~u.submitted /\ ~u.code
        BY <1>4 DEF NotAdrift, TakenUp
  <2>2. IntentRoutes(u.label) \notin {"dsa", "debug"}
        BY <1>2, <2>1
  <2> QED BY <1>4, <2>1, <2>2 DEF SelectRoute, GuidanceWithoutAsk, CodeWithKnownMisconception
<1> QED BY <1>3, <1>4

LEMMA TakesASubject ==
    ASSUME NEW v \in Conversations, NEW r \in ReadingType, NEW u \in TurnType, NEW route,
           NEW described \in Problems \cup {None}
    PROVE  /\ Takes(v, u, r, route, described) \in {None} \cup Subjects
           /\ u.switched => Takes(v, u, r, route, described) = u.active
<1>1. /\ u.active \in {None} \cup Subjects /\ u.key \in {None} \cup Subjects
      /\ r.about \in {None} \cup Subjects /\ described \in {None} \cup Subjects
      BY DEF TurnType, ReadingType, Subjects
<1> QED BY <1>1 DEF Takes

LEMMA HeldParts ==
    ASSUME NEW u, NEW r
    PROVE  /\ Holds(u, r) \in SUBSET {"question", "problem", "code", "error"}
           /\ u.problem => "problem" \in Holds(u, r)
BY DEF Holds

\* What a turn is about and the agent that answers it, put together.
LEMMA DecisionIsSound ==
    ASSUME NEW v \in Conversations, NEW r \in ReadingType, NEW u, TakenUp(v, r, u),
           NEW route \in Routes, NEW takes \in {None} \cup Subjects, NEW exercise \in BOOLEAN,
           u.switched => takes = u.active,
           v.active # None /\ r.brings = "words" /\ route \in {"dsa", "debug"} => u.relation # "none"
    PROVE  LET x == Decision(u, r, route, takes, exercise) IN
           /\ x \in DecisionType
           /\ x.route \in {"dsa", "debug"} /\ v.active # None
                => x.relation # "none" \/ x.brings # "words"
           /\ x.relation = "followup" /\ (IF x.switched THEN x.takes ELSE v.active) \in Problems
                => "problem" \in x.holds
<1> DEFINE holds == Holds(u, r)
           search == MayRetrieve(u, r)
           brings == IF route \in {"dsa", "debug"} THEN r.brings ELSE "words"
           label == IF route \in {"explain", "assess"} THEN u.label ELSE None
           x == Decision(u, r, route, takes, exercise)
<1>1. /\ u \in TurnType
      /\ u.relation = "followup" /\ (IF u.switched THEN u.active ELSE v.active) \in Problems
           => u.problem
      BY DEF TakenUp
<1>2. /\ holds \in SUBSET {"question", "problem", "code", "error"}
      /\ u.problem => "problem" \in holds
      BY HeldParts
<1>3. search \in BOOLEAN
      BY DEF MayRetrieve
<1>4. /\ brings \in Brought /\ label \in {None} \cup Labels
      /\ route \in {"dsa", "debug"} => brings = r.brings
      BY <1>1 DEF ReadingType, TurnType, Brought
<1>5. x = [route |-> route, relation |-> u.relation, switched |-> u.switched,
           submitted |-> u.submitted, holds |-> holds, search |-> search,
           takes |-> takes, exercise |-> exercise, brings |-> brings, label |-> label]
      BY DEF Decision
<1> HIDE DEF holds, search, brings, label
<1>6. x \in DecisionType
      BY <1>1, <1>2, <1>3, <1>4, <1>5 DEF DecisionType, TurnType
<1>7. /\ x.route = route /\ x.relation = u.relation /\ x.switched = u.switched
      /\ x.takes = takes /\ x.brings = brings /\ x.holds = holds
      BY <1>5
<1> HIDE DEF x
<1>8. x.route \in {"dsa", "debug"} /\ v.active # None => x.relation # "none" \/ x.brings # "words"
      BY <1>4, <1>7
<1>9. x.relation = "followup" /\ (IF x.switched THEN x.takes ELSE v.active) \in Problems
        => "problem" \in x.holds
      BY <1>1, <1>2, <1>7
<1> QED BY <1>6, <1>8, <1>9 DEF x

\* What Decisions puts together, taken apart.
LEMMA DecisionsAreMade ==
    ASSUME NEW v, NEW r, NEW x \in Decisions(v, r)
    PROVE  \/ \E route \in {"practice", "assess"}, exercise \in BOOLEAN :
                x = Decision(Start(v, r), r, route, None, exercise)
           \/ \E answering \in BOOLEAN, described \in Problems \cup {None}, catalog \in BOOLEAN : \E route :
                LET u == SettledTurn(v, r, answering) IN
                /\ route = SelectRoute(v, u, r, catalog) \/ route = "discuss"
                /\ x = Decision(u, r, route, Takes(v, u, r, route, described), FALSE)
<1>1. CASE r.text = "buggy"
      BY <1>1 DEF Decisions
<1>2. CASE r.text # "buggy" /\ AnswersOpenQuiz(v, r)
      BY <1>2 DEF Decisions
<1>3. CASE r.text # "buggy" /\ ~AnswersOpenQuiz(v, r)
  <2>1. PICK answering \in BOOLEAN : x \in Decided(v, r, SettledTurn(v, r, answering))
        BY <1>3 DEF Decisions
  <2> DEFINE u == SettledTurn(v, r, answering)
  <2> DEFINE one(route, described) == Decision(u, r, route, Takes(v, u, r, route, described), FALSE)
             made(catalog) == {one(route, described) :
                                 route \in RoutesOf(v, u, r, catalog), described \in Problems \cup {None}}
             catalogs == IF u.code THEN BOOLEAN ELSE {FALSE}
  <2>4. Decided(v, r, u) = UNION {made(catalog) : catalog \in catalogs}
        BY DEF Decided
  <2>6. catalogs \subseteq BOOLEAN
        OBVIOUS
  <2> HIDE DEF u, one
  <2>5. PICK catalog \in catalogs : x \in made(catalog)
    <3> HIDE DEF made, catalogs
    <3> QED BY <2>1, <2>4 DEF u
  <2>2. PICK route \in RoutesOf(v, u, r, catalog), described \in Problems \cup {None} :
           x = one(route, described)
        BY <2>5
  <2>3. route = SelectRoute(v, u, r, catalog) \/ route = "discuss"
        BY <2>2 DEF RoutesOf
  <2> QED BY <2>2, <2>3, <2>5, <2>6 DEF u, one
<1> QED BY <1>1, <1>2, <1>3

\* Every decision the graph can take suits the conversation it is taken in.
LEMMA DecisionsAreSound ==
    ASSUME NEW v \in Conversations, NEW r \in Readings \cup {NoInput}, NEW x \in Decisions(v, r)
    PROVE  /\ x \in DecisionType
           /\ x.route \in {"dsa", "debug"} /\ v.active # None
                => x.relation # "none" \/ x.brings # "words"
           /\ x.relation = "followup" /\ (IF x.switched THEN x.takes ELSE v.active) \in Problems
                => "problem" \in x.holds
<1> DEFINE early ==
           \E route \in {"practice", "assess"}, exercise \in BOOLEAN :
               x = Decision(Start(v, r), r, route, None, exercise)
         settled ==
           \E answering \in BOOLEAN, described \in Problems \cup {None}, catalog \in BOOLEAN : \E route :
             LET u == SettledTurn(v, r, answering) IN
             /\ route = SelectRoute(v, u, r, catalog) \/ route = "discuss"
             /\ x = Decision(u, r, route, Takes(v, u, r, route, described), FALSE)
<1>4. early \/ settled
      BY DecisionsAreMade
<1>1. r \in ReadingType /\ (r.text = "small" => r.label = "plan")
      BY ReadingsAreTyped
<1>2. CASE early
  <2>1. PICK route \in {"practice", "assess"}, exercise \in BOOLEAN :
               x = Decision(Start(v, r), r, route, None, exercise)
        BY <1>2
  <2> DEFINE u == Start(v, r)
  <2>2. u \in TurnType /\ u.relation = "none" /\ ~u.switched /\ ~u.submitted /\ ~u.lastReply
        /\ u.label = r.label /\ (u.code <=> r.brings = "code") /\ (u.problem <=> r.brings = "statement")
        BY <1>1, StartIsTyped
  <2> HIDE DEF u
  <2>3. TakenUp(v, r, u)
        BY <2>2 DEF TakenUp
  <2>4. route \in Routes /\ None \in {None} \cup Subjects /\ route \notin {"dsa", "debug"}
        BY DEF Routes
  <2> QED BY <1>1, <2>1, <2>2, <2>3, <2>4, DecisionIsSound DEF u
<1>3. CASE settled
  <2>1. PICK answering \in BOOLEAN, described \in Problems \cup {None}, catalog \in BOOLEAN : \E route :
             LET u == SettledTurn(v, r, answering) IN
             /\ route = SelectRoute(v, u, r, catalog) \/ route = "discuss"
             /\ x = Decision(u, r, route, Takes(v, u, r, route, described), FALSE)
        BY <1>3
  <2>6. PICK route :
             /\ route = SelectRoute(v, SettledTurn(v, r, answering), r, catalog) \/ route = "discuss"
             /\ x = Decision(SettledTurn(v, r, answering), r, route,
                             Takes(v, SettledTurn(v, r, answering), r, route, described), FALSE)
        BY <2>1
  <2> DEFINE u == SettledTurn(v, r, answering)
             takes == Takes(v, u, r, route, described)
  <2>2. TakenUp(v, r, u) /\ NotAdrift(v, r, u)
        BY <1>1, SettledTakesUp
  <2>3. /\ route = SelectRoute(v, u, r, catalog) \/ route = "discuss"
        /\ x = Decision(u, r, route, takes, FALSE)
        BY <2>6
  <2> HIDE DEF u
  <2>4. /\ route \in Routes
        /\ v.active # None /\ r.brings = "words" /\ route \in {"dsa", "debug"} => u.relation # "none"
    <3>1. CASE route = SelectRoute(v, u, r, catalog)
          BY <1>1, <2>2, <3>1, RouteSuits
    <3>2. CASE route = "discuss"
          BY <3>2 DEF Routes
    <3> QED BY <2>3, <3>1, <3>2
  <2>5. takes \in {None} \cup Subjects /\ (u.switched => takes = u.active)
    <3>1. u \in TurnType
          BY <2>2 DEF TakenUp
    <3> QED BY <1>1, <2>1, <3>1, TakesASubject
  <2> HIDE DEF takes
  <2> QED BY <1>1, <2>2, <2>3, <2>4, <2>5, DecisionIsSound
<1> HIDE DEF early, settled
<1> QED BY <1>2, <1>3, <1>4

-----------------------------------------------------------------------------
(* Every node keeps the invariant *)

LEMMA NothingDecidedIsTyped ==
    NoDecision \in DecisionType /\ NoOutcome \in OutcomeType /\ Empty \in Conversations
<1>1. NoDecision \in DecisionType
      BY DEF NoDecision, DecisionType, Routes, Relations, Brought
<1>2. NoOutcome \in OutcomeType
      BY DEF NoOutcome, OutcomeType, Quizzes
<1>3. Empty \in Conversations
      BY DEF Empty, Conversations, Threads, Quizzes
<1> QED BY <1>1, <1>2, <1>3

LEMMA RoutesLeadToAgents ==
    ASSUME NEW route \in Routes
    PROVE  /\ RouteAfter(route) \in Agents
           /\ RouteAfter(route) = "dsa_agent" => route = "dsa"
           /\ RouteAfter(route) = "debug_agent" => route = "debug"
           /\ RouteAfter(route) = "assess_agent" => route = "assess"
BY DEF Routes, RouteAfter, Agents

\* A step that changes neither what is stored nor the history keeps what is said
\* of them.
Kept == UNCHANGED <<conv, graded, marked, moved, strayed>>

LEMMA EvidenceIsKept ==
    ASSUME EvidenceInOrder, Kept
    PROVE  EvidenceInOrder'
BY DEF EvidenceInOrder, Kept

LEMMA ReceiveKeeps == GraphInv /\ Receive => GraphInv'
<1> SUFFICES ASSUME GraphInv, Receive PROVE GraphInv'
    OBVIOUS
<1>1. /\ node = "end" /\ node' = "understand_input" /\ reply' = FALSE
      /\ UNCHANGED <<conv, heard, older, seen, late, d, hits, topic, out>> /\ Kept
      BY DEF Receive, loaded, material, history, Kept
<1>2. GraphTypes'
      BY <1>1 DEF GraphInv, GraphTypes, Kept, Nodes
<1>3. WhereTheTurnIs'
      BY <1>1 DEF GraphInv, WhereTheTurnIs, Reading, Planning, Agents
<1>4. SeenIsStored' /\ OutcomeInOrder' /\ DecisionSound' /\ HitsAreOfTheTurn'
      BY <1>1 DEF GraphInv, SeenIsStored, OutcomeInOrder, DecisionSound, HitsAreOfTheTurn
<1> QED BY <1>1, <1>2, <1>3, <1>4, EvidenceIsKept DEF GraphInv

LEMMA UnderstandInputKeeps == GraphInv /\ UnderstandInput => GraphInv'
<1> SUFFICES ASSUME GraphInv, UnderstandInput PROVE GraphInv'
    OBVIOUS
<1>1. /\ node = "understand_input" /\ node' = "load_learner_profile" /\ heard' \in Inputs
      /\ UNCHANGED <<conv, older, seen, late, d, hits, topic, out, reply>> /\ Kept
      BY DEF UnderstandInput, loaded, material, history, Kept, Inputs
<1>2. GraphTypes'
      BY <1>1 DEF GraphInv, GraphTypes, Kept, Nodes
<1>3. WhereTheTurnIs'
      BY <1>1 DEF GraphInv, WhereTheTurnIs, Reading, Planning, Agents
<1>4. SeenIsStored' /\ OutcomeInOrder' /\ DecisionSound' /\ HitsAreOfTheTurn'
      BY <1>1 DEF GraphInv, SeenIsStored, OutcomeInOrder, DecisionSound, HitsAreOfTheTurn
<1> QED BY <1>1, <1>2, <1>3, <1>4, EvidenceIsKept DEF GraphInv

LEMMA ClassifyIntentKeeps == GraphInv /\ ClassifyIntent => GraphInv'
<1> SUFFICES ASSUME GraphInv, ClassifyIntent PROVE GraphInv'
    OBVIOUS
<1>1. /\ node = "classify_intent" /\ node' = "decide_turn" /\ heard' \in Inputs
      /\ UNCHANGED <<conv, older, seen, late, d, hits, topic, out, reply>> /\ Kept
      BY DEF ClassifyIntent, loaded, material, history, Kept, Inputs, GraphInv, GraphTypes
<1>2. GraphTypes'
      BY <1>1 DEF GraphInv, GraphTypes, Kept, Nodes
<1>3. WhereTheTurnIs'
      BY <1>1 DEF GraphInv, WhereTheTurnIs, Reading, Planning, Agents
<1>4. SeenIsStored' /\ OutcomeInOrder' /\ DecisionSound' /\ HitsAreOfTheTurn'
      BY <1>1 DEF GraphInv, SeenIsStored, OutcomeInOrder, DecisionSound, HitsAreOfTheTurn
<1> QED BY <1>1, <1>2, <1>3, <1>4, EvidenceIsKept DEF GraphInv

\* What is loaded is typed, and every part of it is stored or nothing.
LEMMA LoadLearnerProfileKeeps == GraphInv /\ LoadLearnerProfile => GraphInv'
<1> SUFFICES ASSUME GraphInv, LoadLearnerProfile PROVE GraphInv'
    OBVIOUS
<1>1. /\ node = "load_learner_profile" /\ node' = "classify_intent"
      /\ UNCHANGED <<conv, heard, d, hits, topic, out, reply>> /\ older' = None /\ Kept
      BY DEF LoadLearnerProfile, material, Kept
<1>2. PICK failed \in SUBSET {"recent", "active", "tutoring"}, before \in ReadBefore :
         /\ older = None => before = {}
         /\ late' = (before # {})
         /\ LET stored(part) == IF part \in before THEN older ELSE conv
            IN  seen' = [f \in DOMAIN conv |->
                           CASE f = "active" -> ReadActive(stored("active"), failed)
                             [] f = "recent" -> ReadRecent(stored("recent"), failed)
                             [] OTHER -> ReadTutoring(stored("tutoring"), failed)[f]]
      BY DEF LoadLearnerProfile
<1> DEFINE a == IF "active" \in before THEN older ELSE conv
           h == IF "recent" \in before THEN older ELSE conv
           t == IF "tutoring" \in before THEN older ELSE conv
<1>3. PICK s : s = seen'
      OBVIOUS
<1>4. /\ conv \in Conversations
      /\ DOMAIN conv = {"active", "earlier", "pending", "thread", "quiz", "recent"}
      /\ older \in {None} \cup Conversations
      BY DEF GraphInv, GraphTypes, Conversations
<1>5. a \in Conversations /\ h \in Conversations /\ t \in Conversations
      BY <1>2, <1>4
<1>6. s = [f \in DOMAIN conv |-> CASE f = "active" -> ReadActive(a, failed)
                                   [] f = "recent" -> ReadRecent(h, failed)
                                   [] OTHER -> ReadTutoring(t, failed)[f]]
      BY <1>2, <1>3
<1>7. before = {} => t = conv
      OBVIOUS
<1> HIDE DEF a, h, t
<1>8. s \in Conversations /\ (~late' => /\ s.thread \in {conv.thread, None}
                                       /\ s.quiz \in {conv.quiz, None}
                                       /\ s.pending \in {conv.pending, None})
  <2>1. /\ ReadTutoring(t, failed)["pending"] \in {t.pending, None}
        /\ ReadTutoring(t, failed)["earlier"] \in {t.earlier, None}
        /\ ReadTutoring(t, failed)["thread"] \in {t.thread, None}
        /\ ReadTutoring(t, failed)["quiz"] \in {t.quiz, None}
        BY DEF ReadTutoring, Empty
  <2>2. ReadActive(a, failed) \in {a.active, None} /\ ReadRecent(h, failed) \in {h.recent, FALSE}
        BY DEF ReadActive, ReadRecent
  <2>3. /\ DOMAIN s = {"active", "earlier", "pending", "thread", "quiz", "recent"}
        /\ s = [f \in DOMAIN s |-> s[f]]
        /\ s["active"] = ReadActive(a, failed) /\ s["recent"] = ReadRecent(h, failed)
        /\ s["pending"] = ReadTutoring(t, failed)["pending"]
        /\ s["earlier"] = ReadTutoring(t, failed)["earlier"]
        /\ s["thread"] = ReadTutoring(t, failed)["thread"]
        /\ s["quiz"] = ReadTutoring(t, failed)["quiz"]
        BY <1>4, <1>6
  <2>4. /\ a.active \in {None} \cup Subjects /\ h.recent \in BOOLEAN
        /\ t.earlier \in {None} \cup Subjects /\ t.pending \in {None, "question", "code"}
        /\ t.thread \in Threads /\ t.quiz \in Quizzes
        BY <1>5 DEF Conversations
  <2>5. s \in Conversations
        BY <2>1, <2>2, <2>3, <2>4 DEF Conversations, Threads, Quizzes
  <2> QED BY <1>2, <1>7, <2>1, <2>3, <2>5
<1>9. late' \in BOOLEAN
      BY <1>2
<1>10. GraphTypes'
      BY <1>1, <1>3, <1>8, <1>9 DEF GraphInv, GraphTypes, Kept, Nodes
<1>11. WhereTheTurnIs'
      BY <1>1 DEF GraphInv, WhereTheTurnIs, Reading, Planning, Agents
<1>12. SeenIsStored'
      BY <1>1, <1>3, <1>8 DEF SeenIsStored
<1>13. d = NoDecision /\ out = NoOutcome
      BY <1>1 DEF GraphInv, WhereTheTurnIs, Reading
<1>14. OutcomeInOrder' /\ DecisionSound' /\ HitsAreOfTheTurn'
      BY <1>1, <1>13 DEF GraphInv, OutcomeInOrder, NoOutcome, DecisionSound, NoDecision, HitsAreOfTheTurn
<1> QED BY <1>1, <1>10, <1>11, <1>12, <1>14, EvidenceIsKept DEF GraphInv

LEMMA DecideTurnKeeps == GraphInv /\ DecideTurn => GraphInv'
<1> SUFFICES ASSUME GraphInv, DecideTurn PROVE GraphInv'
    OBVIOUS
<1>1. /\ node = "decide_turn" /\ node' = "retrieve_knowledge" /\ heard' = "nothing"
      /\ UNCHANGED <<conv, older, seen, late, hits, topic, out, reply>> /\ Kept
      BY DEF DecideTurn, loaded, material, history, Kept
<1>2. PICK r \in HeardAs(heard) :
         d' \in Decisions(seen, r) \/ d' = [NoDecision EXCEPT !.holds = Holds(Start(seen, r), r)]
      BY DEF DecideTurn
<1>3. seen \in Conversations /\ out = NoOutcome /\ heard \in Inputs
      BY <1>1 DEF GraphInv, GraphTypes, WhereTheTurnIs, Reading
<1>4. r \in Readings \cup {NoInput}
      BY <1>2, <1>3 DEF HeardAs, Inputs
<1>5. PICK x : x = d'
      OBVIOUS
<1>6. /\ x \in DecisionType
      /\ x.route \in {"dsa", "debug"} /\ seen.active # None
           => x.relation # "none" \/ x.brings # "words"
      /\ x.relation = "followup" /\ (IF x.switched THEN x.takes ELSE seen.active) \in Problems
           => "problem" \in x.holds
  <2>1. CASE x \in Decisions(seen, r)
        BY <1>3, <1>4, <2>1, DecisionsAreSound
  <2>2. CASE x = [NoDecision EXCEPT !.holds = Holds(Start(seen, r), r)]
    <3>1. Holds(Start(seen, r), r) \in SUBSET {"question", "problem", "code", "error"}
          BY HeldParts
    <3>2. x \in DecisionType /\ x.route = "clarify" /\ x.relation = "none"
          BY <2>2, <3>1, NothingDecidedIsTyped DEF NoDecision, DecisionType
    <3> QED BY <3>2
  <2> QED BY <1>2, <1>5, <2>1, <2>2
<1>7. GraphTypes'
      BY <1>1, <1>5, <1>6 DEF GraphInv, GraphTypes, Kept, Nodes, Inputs
<1>8. WhereTheTurnIs'
      BY <1>1 DEF GraphInv, WhereTheTurnIs, Reading, Planning, Agents
<1>9. SeenIsStored'
      BY <1>1 DEF GraphInv, SeenIsStored
<1>10. OutcomeInOrder'
      BY <1>1, <1>3 DEF OutcomeInOrder, NoOutcome
<1>11. DecisionSound'
      BY <1>1, <1>5, <1>6 DEF DecisionSound
<1>12. hits = {} /\ topic = None
      BY <1>1 DEF GraphInv, WhereTheTurnIs, Agents
<1>13. (hits' = {} /\ topic' # "retrieval") \/ HitsAreOfTheTurn'
      BY <1>1, <1>12 DEF GraphInv, HitsAreOfTheTurn
<1>14. HitsAreOfTheTurn'
      BY <1>1, <1>13 DEF HitsAreOfTheTurn
<1> QED BY <1>1, <1>7, <1>8, <1>9, <1>10, <1>11, <1>14, EvidenceIsKept DEF GraphInv

\* A search that finds something was made with the statement, if the turn holds one.
LEMMA RetrieveKnowledgeKeeps == GraphInv /\ RetrieveKnowledge => GraphInv'
<1> SUFFICES ASSUME GraphInv, RetrieveKnowledge PROVE GraphInv'
    OBVIOUS
<1>1. /\ node = "retrieve_knowledge" /\ node' = "plan_teaching"
      /\ UNCHANGED <<conv, heard, older, seen, late, d, topic, out, reply>> /\ Kept
      BY DEF RetrieveKnowledge, loaded, history, Kept
<1>2. hits' = {} \/ \E named : hits' = Query(d.holds, named)
      BY DEF RetrieveKnowledge
<1>3. hits' # {} /\ "problem" \in d.holds => "problem" \in hits'
      BY <1>2 DEF Query
<1>4. topic # "retrieval"
      BY <1>1 DEF GraphInv, WhereTheTurnIs, HitsAreOfTheTurn, Agents
<1>5. GraphTypes'
      BY <1>1 DEF GraphInv, GraphTypes, Kept, Nodes
<1>6. WhereTheTurnIs'
      BY <1>1 DEF GraphInv, WhereTheTurnIs, Reading, Planning, Agents
<1>7. SeenIsStored' /\ OutcomeInOrder' /\ DecisionSound'
      BY <1>1 DEF GraphInv, SeenIsStored, OutcomeInOrder, DecisionSound
<1>8. HitsAreOfTheTurn'
      BY <1>1, <1>3, <1>4 DEF HitsAreOfTheTurn
<1> QED BY <1>1, <1>5, <1>6, <1>7, <1>8, EvidenceIsKept DEF GraphInv

\* The topic is a hit's only where there are hits.
LEMMA PlanTeachingKeeps == GraphInv /\ PlanTeaching => GraphInv'
<1> SUFFICES ASSUME GraphInv, PlanTeaching PROVE GraphInv'
    OBVIOUS
<1>1. /\ node = "plan_teaching" /\ node' = RouteAfter(d.route)
      /\ UNCHANGED <<conv, heard, older, seen, late, d, hits, out, reply>> /\ Kept
      BY DEF PlanTeaching, loaded, history, Kept
<1>2. topic' = None \/ \E given \in BOOLEAN : topic' \in TopicSources(given)
  <2>1. CASE PlanFallback
        BY <2>1 DEF PlanFallback
  <2>2. CASE \E hinted, known \in BOOLEAN :
            topic' \in TopicSources(\/ hinted
                                   \/ /\ known
                                      /\ seen.active # None
                                      /\ d.relation \in {"followup", "same"})
        BY <2>2
  <2> QED BY <2>1, <2>2 DEF PlanTeaching
<1>3. topic' = "retrieval" => hits # {}
  <2>1. CASE topic' = None
        BY <2>1, NoneIsNoWord
  <2>2. CASE \E given \in BOOLEAN : topic' \in TopicSources(given)
        BY <2>2 DEF TopicSources
  <2> QED BY <1>2, <2>1, <2>2
<1>4. d.route \in Routes
      BY DEF GraphInv, GraphTypes, DecisionType
<1>5. /\ node' \in Agents
      /\ node' = "dsa_agent" => d.route = "dsa"
      /\ node' = "debug_agent" => d.route = "debug"
      /\ node' = "assess_agent" => d.route = "assess"
      BY <1>1, <1>4, RoutesLeadToAgents
<1>6. GraphTypes'
      BY <1>1, <1>5 DEF GraphInv, GraphTypes, Kept, Nodes, Agents
<1>7. WhereTheTurnIs'
      BY <1>1, <1>5 DEF GraphInv, WhereTheTurnIs, Reading, Planning, Agents
<1>8. SeenIsStored' /\ OutcomeInOrder' /\ DecisionSound'
      BY <1>1, <1>5 DEF GraphInv, SeenIsStored, OutcomeInOrder, DecisionSound, Agents
<1>9. HitsAreOfTheTurn'
      BY <1>1, <1>3 DEF GraphInv, HitsAreOfTheTurn
<1> QED BY <1>1, <1>6, <1>7, <1>8, <1>9, EvidenceIsKept DEF GraphInv

-----------------------------------------------------------------------------
(* The agents *)

\* An agent that ran: what it left in the outcome is all there is to see to.
LEMMA RunKeeps ==
    ASSUME GraphInv, NEW agent \in Agents \cup {"verify"},
           NEW next \in {"verify", "final_response"}, Runs(agent, next),
           out' \in OutcomeType, OutcomeInOrder'
    PROVE  GraphInv'
<1>1. /\ node = agent /\ node' = next /\ hits' = {} /\ topic' = None
      /\ UNCHANGED <<conv, heard, older, seen, late, d, reply>> /\ Kept
      BY DEF Runs, loaded, history, Kept
<1>2. node' \in {"verify", "final_response"} /\ node \notin Reading
      BY <1>1 DEF Reading, Agents
<1>3. GraphTypes'
      BY <1>1, <1>2 DEF GraphInv, GraphTypes, Kept, Nodes
<1>4. WhereTheTurnIs'
      BY <1>1, <1>2 DEF WhereTheTurnIs, Reading, Planning, Agents
<1>5. SeenIsStored' /\ DecisionSound'
      BY <1>1, <1>2 DEF GraphInv, SeenIsStored, DecisionSound
<1>6. topic' # "retrieval"
      BY <1>1, NoneIsNoWord
<1>7. HitsAreOfTheTurn'
      BY <1>1, <1>6 DEF HitsAreOfTheTurn
<1> QED BY <1>1, <1>3, <1>4, <1>5, <1>7, EvidenceIsKept DEF GraphInv

\* An outcome without marks, or one that is kept, is in order.
LEMMA UnmarkedIsInOrder ==
    ASSUME NEW agent, NEW next, Runs(agent, next),
           out'.marks = {}, ~out'.closes, ~out'.carried
    PROVE  OutcomeInOrder'
BY DEF OutcomeInOrder, Runs

LEMMA SameOutcomeIsInOrder ==
    ASSUME GraphInv, NEW agent, NEW next, Runs(agent, next), UNCHANGED out
    PROVE  OutcomeInOrder' /\ out' \in OutcomeType
BY DEF OutcomeInOrder, Runs, loaded, GraphInv, GraphTypes

LEMMA TalkersKeep ==
    GraphInv /\ (DsaAgent \/ DiscussAgent \/ Clarify \/ Verify) => GraphInv'
<1> SUFFICES ASSUME GraphInv, DsaAgent \/ DiscussAgent \/ Clarify \/ Verify PROVE GraphInv'
    OBVIOUS
<1>1. CASE DsaAgent
  <2>1. Runs("dsa_agent", "verify") /\ UNCHANGED out
        BY <1>1 DEF DsaAgent
  <2> QED BY <2>1, RunKeeps, SameOutcomeIsInOrder DEF Agents
<1>2. CASE DiscussAgent
  <2>1. Runs("discuss_agent", "final_response") /\ UNCHANGED out
        BY <1>2 DEF DiscussAgent
  <2> QED BY <2>1, RunKeeps, SameOutcomeIsInOrder DEF Agents
<1>3. CASE Clarify
  <2>1. Runs("clarify", "final_response") /\ UNCHANGED out
        BY <1>3 DEF Clarify
  <2> QED BY <2>1, RunKeeps, SameOutcomeIsInOrder DEF Agents
<1>4. CASE Verify
  <2>1. PICK verdict \in {"pass", "fail", "inconclusive", "skipped"} :
               Runs("verify", VerifyAfter(verdict))
        BY <1>4 DEF Verify
  <2>2. VerifyAfter(verdict) = "final_response" /\ UNCHANGED out
        BY <1>4 DEF Verify, VerifyAfter
  <2>3. Runs("verify", "final_response")
        BY <2>1, <2>2
  <2> QED BY <2>2, <2>3, RunKeeps, SameOutcomeIsInOrder DEF Agents
<1> QED BY <1>1, <1>2, <1>3, <1>4

\* The agents that leave more than words, but no marks.
LEMMA CodeAgentsKeep ==
    GraphInv /\ (DebugAgent \/ ExplainAgent \/ PracticeAgent) => GraphInv'
<1> SUFFICES ASSUME GraphInv, DebugAgent \/ ExplainAgent \/ PracticeAgent PROVE GraphInv'
    OBVIOUS
<1>1. PICK agent \in {"debug_agent", "explain_agent", "practice_agent"} :
         /\ Runs(agent, "verify")
         /\ \/ UNCHANGED out
            \/ out' = [out EXCEPT !.aboutCode = TRUE]
            \/ \E p \in Problems \cup {None} : out' = [out EXCEPT !.practice = p]
      BY DEF DebugAgent, ExplainAgent, PracticeAgent
<1>2. out = NoOutcome
      BY <1>1 DEF GraphInv, WhereTheTurnIs, Runs, Agents
<1>3. CASE UNCHANGED out
      BY <1>1, <1>3, RunKeeps, SameOutcomeIsInOrder DEF Agents
<1>4. CASE out' = [out EXCEPT !.aboutCode = TRUE]
  <2>1. out' \in OutcomeType /\ out'.marks = {} /\ ~out'.closes /\ ~out'.carried
        BY <1>2, <1>4, NothingDecidedIsTyped DEF NoOutcome, OutcomeType
  <2> QED BY <1>1, <2>1, RunKeeps, UnmarkedIsInOrder DEF Agents
<1>5. CASE \E p \in Problems \cup {None} : out' = [out EXCEPT !.practice = p]
  <2>1. out' \in OutcomeType /\ out'.marks = {} /\ ~out'.closes /\ ~out'.carried
        BY <1>2, <1>5, NothingDecidedIsTyped DEF NoOutcome, OutcomeType
  <2> QED BY <1>1, <2>1, RunKeeps, UnmarkedIsInOrder DEF Agents
<1> QED BY <1>1, <1>3, <1>4, <1>5

LEMMA QuizParts ==
    ASSUME NEW q \in Quizzes, q # None
    PROVE  /\ q.at \in Positions /\ q.drill \in BOOLEAN
           /\ q = [at |-> q.at, drill |-> q.drill]
<1>1. 1 \in Positions
      BY SizesAreNatural DEF Positions
<1>2. q \in [at : Positions, drill : BOOLEAN]
      BY <1>1 DEF Quizzes
<1> QED BY <1>2

\* Marks are of the quiz that is open, and move a drill past the question marked.
LEMMA AssessAgentKeeps == GraphInv /\ AssessAgent => GraphInv'
<1> SUFFICES ASSUME GraphInv, AssessAgent PROVE GraphInv'
    OBVIOUS
<1>1. Runs("assess_agent", "verify") /\ seen' = seen /\ d' = d
      BY DEF AssessAgent, Runs, loaded
<1>2. out = NoOutcome /\ d.route = "assess" /\ seen \in Conversations
      BY <1>1 DEF GraphInv, GraphTypes, WhereTheTurnIs, Runs, Agents
<1>3. Marking # None => Marking = seen.quiz /\ seen.thread = "quiz" /\ seen.quiz # None
      BY DEF Marking, OpenQuiz
<1>4. seen.quiz # None => /\ seen.quiz.at \in Positions /\ seen.quiz.drill \in BOOLEAN
                          /\ seen.quiz = [at |-> seen.quiz.at, drill |-> seen.quiz.drill]
  <2>1. seen.quiz \in Quizzes
        BY <1>2 DEF Conversations
  <2> QED BY <2>1, SizesAreNatural, QuizParts
<1>5. Positions = 1..QuizSize /\ QuizSize \in Nat \ {0}
      BY SizesAreNatural DEF Positions
<1>6. CASE UNCHANGED out
      BY <1>1, <1>6, RunKeeps, SameOutcomeIsInOrder DEF Agents
<1>7. CASE AskQuiz
  <2>1. PICK drill \in BOOLEAN : out' = [out EXCEPT !.quiz = [at |-> 1, drill |-> drill]]
        BY <1>7 DEF AskQuiz
  <2>2. [at |-> 1, drill |-> drill] \in Quizzes
    <3>1. 1 \in Positions
          BY <1>5
    <3>2. CASE drill = TRUE
          BY <3>1, <3>2 DEF Quizzes
    <3>3. CASE drill = FALSE
          BY <3>1, <3>3 DEF Quizzes
    <3> QED BY <3>2, <3>3
  <2>3. out' \in OutcomeType /\ out'.marks = {} /\ ~out'.closes /\ ~out'.carried
        BY <1>2, <2>1, <2>2, NothingDecidedIsTyped DEF NoOutcome, OutcomeType
  <2> QED BY <1>1, <2>3, RunKeeps, UnmarkedIsInOrder DEF Agents
<1>8. CASE Marking # None /\ Marking.drill /\ MarkOne(Marking)
  <2> DEFINE at == seen.quiz.at
             next == IF at < QuizSize THEN [seen.quiz EXCEPT !.at = at + 1] ELSE None
  <2>1. Marking = seen.quiz /\ seen.thread = "quiz" /\ seen.quiz # None /\ seen.quiz.drill
        BY <1>3, <1>8
  <2>2. at \in Positions /\ at \in Nat
        BY <1>4, <1>5, <2>1
  <2>3. out' = [out EXCEPT !.marks = {at}, !.quiz = next]
        BY <1>8, <2>1 DEF MarkOne
  <2>4. next # None => next = [at |-> at + 1, drill |-> TRUE] /\ at + 1 \in Positions
    <3>1. PICK q : q = seen.quiz
          OBVIOUS
    <3>2. q = [at |-> q.at, drill |-> q.drill] /\ q.drill = TRUE
          BY <1>4, <2>1, <3>1
    <3>3. [q EXCEPT !.at = at + 1] = [at |-> at + 1, drill |-> TRUE]
      <4> DEFINE following == at + 1
                 drill == q.drill
      <4> HIDE DEF following, drill
      <4>1. q = [at |-> q.at, drill |-> drill]
            BY <3>2 DEF drill
      <4>2. [q EXCEPT !.at = following] = [at |-> following, drill |-> drill]
            BY <4>1
      <4>3. drill = TRUE
            BY <3>2 DEF drill
      <4> HIDE DEF at
      <4> QED BY <4>2, <4>3 DEF following
    <3>4. at < QuizSize => at + 1 \in Positions
          BY <1>5, <2>2
    <3> QED BY <3>1, <3>3, <3>4 DEF at
  <2>5. next \in Quizzes
        BY <2>4 DEF Quizzes
  <2>6. next # None => next.drill /\ next.at > at
        BY <2>2, <2>4
  <2> HIDE DEF next, at
  <2>7. /\ out' \in OutcomeType
        /\ out'.marks = {at} /\ out'.quiz = next /\ ~out'.closes /\ ~out'.carried
        BY <1>2, <2>2, <2>3, <2>5, NothingDecidedIsTyped DEF NoOutcome, OutcomeType
  <2>8. OutcomeInOrder'
        BY <1>1, <2>1, <2>6, <2>7 DEF OutcomeInOrder, at
  <2> QED BY <1>1, <2>7, <2>8, RunKeeps DEF Agents
<1>9. CASE Marking # None /\ ~Marking.drill /\ MarkQuiz
  <2>1. PICK answered \in SUBSET Positions, closes \in BOOLEAN :
               out' = [out EXCEPT !.marks = answered, !.closes = closes]
        BY <1>9 DEF MarkQuiz
  <2>2. /\ out' \in OutcomeType
        /\ out'.quiz = None /\ ~out'.carried
        BY <1>2, <2>1, NothingDecidedIsTyped DEF NoOutcome, OutcomeType
  <2>3. seen.thread = "quiz" /\ seen.quiz # None /\ ~seen.quiz.drill
        BY <1>3, <1>9
  <2>4. OutcomeInOrder'
        BY <1>1, <1>2, <2>2, <2>3 DEF OutcomeInOrder
  <2> QED BY <1>1, <2>2, <2>4, RunKeeps DEF Agents
<1> QED BY <1>6, <1>7, <1>8, <1>9 DEF AssessAgent

\* A grade marks no quiz and carries no check on.
LEMMA GradeAnswerKeeps == GraphInv /\ GradeAnswer => GraphInv'
<1> SUFFICES ASSUME GraphInv, GradeAnswer PROVE GraphInv'
    OBVIOUS
<1>1. /\ node = "grade_answer"
      /\ UNCHANGED <<conv, heard, older, seen, late, d, reply>> /\ Kept
      BY DEF GradeAnswer, loaded, history, Kept
<1>2. out = NoOutcome
      BY <1>1 DEF GraphInv, WhereTheTurnIs, Agents
<1>3. PICK o : o = out'
      OBVIOUS
<1>4. o \in OutcomeType /\ o.marks = {} /\ ~o.closes /\ ~o.carried
  <2>1. CASE UNCHANGED out
        BY <1>2, <1>3, <2>1, NothingDecidedIsTyped DEF NoOutcome
  <2>2. CASE \E handoff \in BOOLEAN, next \in {None, "question", "code"} :
                out' = [out EXCEPT !.graded = TRUE, !.handoff = handoff, !.next = next]
    <3>1. PICK handoff \in BOOLEAN, next \in {None, "question", "code"} :
                 o = [out EXCEPT !.graded = TRUE, !.handoff = handoff, !.next = next]
          BY <1>3, <2>2
    <3> QED BY <1>2, <3>1, NothingDecidedIsTyped DEF NoOutcome, OutcomeType
  <2> QED BY <2>1, <2>2 DEF GradeAnswer
<1>5. /\ node' = (IF o.handoff THEN "dsa_agent" ELSE "final_response")
      /\ o.handoff => UNCHANGED <<hits, topic>>
      /\ ~o.handoff => hits' = {} /\ topic' = None
      BY <1>3 DEF GradeAnswer, GradeAfter, material
<1>6. GraphTypes'
      BY <1>1, <1>3, <1>4, <1>5 DEF GraphInv, GraphTypes, Kept, Nodes
<1>7. WhereTheTurnIs'
      BY <1>3, <1>5 DEF WhereTheTurnIs, Reading, Planning, Agents
<1>8. SeenIsStored' /\ DecisionSound'
      BY <1>1, <1>5 DEF GraphInv, SeenIsStored, DecisionSound
<1>9. OutcomeInOrder'
      BY <1>3, <1>4 DEF OutcomeInOrder
<1>10. HitsAreOfTheTurn'
      BY <1>1, <1>5, NoneIsNoWord DEF GraphInv, HitsAreOfTheTurn
<1> QED BY <1>1, <1>6, <1>7, <1>8, <1>9, <1>10, EvidenceIsKept DEF GraphInv

\* The check a reply leaves pending: one carried on is the one that waited, and was
\* not graded.
LEMMA NextPendingIsItsOwn ==
    ASSUME GraphInv, NEW next \in NextPending
    PROVE  /\ next.check \in {None, "question", "code"} /\ next.carried \in BOOLEAN
           /\ next.carried => ~out.graded /\ next.check = seen.pending
<1>1. seen.pending \in {None, "question", "code"} /\ out.next \in {None, "question", "code"}
      BY DEF GraphInv, GraphTypes, Conversations, OutcomeType
<1>2. ASSUME NEW check \in {None, "question", "code"}, next = Asked(check)
      PROVE  next.check = check /\ ~next.carried /\ next.carried \in BOOLEAN
      BY <1>2 DEF Asked
<1>3. CASE out.graded
      BY <1>1, <1>2, <1>3 DEF NextPending
<1>4. CASE ~out.graded
  <2>1. PICK q \in {None, "question"} :
               next = IF q = None /\ Carries THEN StillWaiting ELSE Asked(q)
        BY <1>4 DEF NextPending, Questions
  <2>2. CASE next = StillWaiting
    <3>1. next.check = seen.pending /\ next.carried = TRUE
          BY <2>2 DEF StillWaiting
    <3> QED BY <1>1, <1>4, <3>1
  <2>3. CASE next = Asked(q)
        BY <1>2, <2>3
  <2> QED BY <2>1, <2>2, <2>3
<1> QED BY <1>3, <1>4

LEMMA FinalResponseKeeps == GraphInv /\ FinalResponse => GraphInv'
<1> SUFFICES ASSUME GraphInv, FinalResponse PROVE GraphInv'
    OBVIOUS
<1>1. /\ node = "final_response" /\ node' = "update_learner_model" /\ reply' = TRUE
      /\ UNCHANGED <<conv, heard, older, seen, late, d, hits, topic>> /\ Kept
      BY DEF FinalResponse, loaded, material, history, Kept
<1>2. out \in OutcomeType
      BY DEF GraphInv, GraphTypes
<1>3. PICK o : o = out'
      OBVIOUS
<1>4. /\ o \in OutcomeType
      /\ o.marks = out.marks /\ o.quiz = out.quiz /\ o.closes = out.closes
      /\ o.carried => ~o.graded /\ o.next = seen.pending
  <2>1. CASE UNCHANGED out
        BY <1>2, <1>3, <2>1 DEF GraphInv, OutcomeInOrder
  <2>2. CASE \E next \in NextPending :
                out' = [out EXCEPT !.next = next.check, !.carried = next.carried]
    <3>1. PICK next \in NextPending : o = [out EXCEPT !.next = next.check, !.carried = next.carried]
          BY <1>3, <2>2
    <3>2. /\ next.check \in {None, "question", "code"} /\ next.carried \in BOOLEAN
          /\ next.carried => ~out.graded /\ next.check = seen.pending
          BY NextPendingIsItsOwn
    <3>3. PICK check \in {None, "question", "code"}, carried \in BOOLEAN :
                 check = next.check /\ carried = next.carried
          BY <3>2
    <3>4. o = [out EXCEPT !.next = check, !.carried = carried]
          BY <3>1, <3>3
    <3>5. /\ o \in OutcomeType /\ o.next = check /\ o.carried = carried /\ o.graded = out.graded
          /\ o.marks = out.marks /\ o.quiz = out.quiz /\ o.closes = out.closes
          BY <1>2, <3>4 DEF OutcomeType
    <3> QED BY <3>2, <3>3, <3>5
  <2> QED BY <2>1, <2>2 DEF FinalResponse
<1>5. GraphTypes'
      BY <1>1, <1>3, <1>4 DEF GraphInv, GraphTypes, Kept, Nodes
<1>6. WhereTheTurnIs'
      BY <1>1 DEF GraphInv, WhereTheTurnIs, Reading, Planning, Agents
<1>7. SeenIsStored' /\ DecisionSound' /\ HitsAreOfTheTurn'
      BY <1>1 DEF GraphInv, SeenIsStored, DecisionSound, HitsAreOfTheTurn
<1>8. OutcomeInOrder'
      BY <1>1, <1>3, <1>4 DEF GraphInv, OutcomeInOrder
<1> QED BY <1>1, <1>5, <1>6, <1>7, <1>8, EvidenceIsKept DEF GraphInv

-----------------------------------------------------------------------------
(* What the turn leaves behind *)

LEMMA WhatIsLeftIsTyped ==
    ASSUME GraphInv
    PROVE  /\ ActiveUpdate \in {None} \cup Subjects /\ EarlierUpdate \in {None} \cup Subjects
           /\ ThreadOf \in Threads /\ QuizUpdate \in Quizzes
           /\ out.next \in {None, "question", "code"} /\ out.marks \subseteq Positions
<1>1. /\ seen.active \in {None} \cup Subjects /\ seen.earlier \in {None} \cup Subjects
      /\ seen.thread \in Threads /\ seen.quiz \in Quizzes
      /\ out.practice \in {None} \cup Problems /\ out.quiz \in Quizzes
      /\ out.next \in {None, "question", "code"} /\ out.marks \in SUBSET Positions
      /\ d.takes \in {None} \cup Subjects /\ d.route \in Routes
      BY DEF GraphInv, GraphTypes, Conversations, OutcomeType, DecisionType
<1>2. ActiveUpdate \in {None} \cup Subjects /\ EarlierUpdate \in {None} \cup Subjects
      BY <1>1 DEF ActiveUpdate, EarlierUpdate, Subjects
<1>3. AssessThread \in Threads /\ ExplainThread \in Threads
      BY <1>1 DEF AssessThread, ExplainThread, Threads
<1>4. ThreadOf \in Threads
      BY <1>1, <1>3 DEF ThreadOf, Threads
<1>5. QuizUpdate \in Quizzes
      BY <1>1 DEF QuizUpdate, Quizzes
<1> QED BY <1>1, <1>2, <1>4, <1>5

\* The thread is the quiz's after a question of it, or where the last reply was
\* and this one is of no other kind.
LEMMA TheThreadOfAQuiz ==
    ASSUME GraphInv, ThreadOf = "quiz", out.quiz = None
    PROVE  seen.thread = "quiz" /\ ~MovesOn
<1>1. d.route \in Routes /\ (out.closes => d.route = "assess")
      BY DEF GraphInv, GraphTypes, DecisionType, OutcomeInOrder
<1>2. ~out.aboutCode
      BY DEF ThreadOf
<1>3. ExplainThread # "quiz"
      BY DEF ExplainThread
<1>4. CASE d.route = "assess"
  <2>1. AssessThread = "quiz"
        BY <1>2, <1>4 DEF ThreadOf
  <2> QED BY <1>4, <2>1 DEF AssessThread, MovesOn
<1>5. CASE d.route \in {"clarify", "meta"}
  <2>1. ThreadOf = seen.thread
        BY <1>2, <1>5 DEF ThreadOf
  <2> QED BY <1>1, <1>5, <2>1 DEF MovesOn
<1>6. CASE d.route \notin {"assess", "clarify", "meta"}
      BY <1>2, <1>3, <1>6 DEF ThreadOf
<1> QED BY <1>4, <1>5, <1>6

\* A quiz still waiting after the turn is the one that waited, untouched; or a set
\* asked afresh; or a drill moved on past the question it marked.
LEMMA TheQuizThatWaits ==
    ASSUME GraphInv, ~late, QuizUpdate # None
    PROVE  \/ AsksAfresh
           \/ out.marks = {} /\ out.quiz = None /\ QuizUpdate = conv.quiz /\ ThreadOf = "quiz"
           \/ /\ out.quiz # None /\ QuizUpdate = out.quiz /\ conv.quiz # None
              /\ conv.quiz.drill /\ out.quiz.drill
              /\ out.marks = {conv.quiz.at} /\ out.quiz.at > conv.quiz.at
<1>1. seen.quiz # None => seen.quiz = conv.quiz
      BY DEF GraphInv, SeenIsStored
<1>2. CASE out.quiz # None /\ out.marks # {}
  <2>1. seen.quiz # None /\ seen.quiz.drill
        BY <1>2 DEF GraphInv, OutcomeInOrder
  <2>2. out.marks = {seen.quiz.at} /\ out.quiz.drill /\ out.quiz.at > seen.quiz.at
        BY <1>2, <2>1 DEF GraphInv, OutcomeInOrder
  <2> QED BY <1>1, <1>2, <2>1, <2>2 DEF QuizUpdate
<1>3. CASE out.quiz # None /\ out.marks = {}
      BY <1>3 DEF AsksAfresh
<1>4. CASE out.quiz = None
      BY <1>1, <1>4 DEF QuizUpdate
<1> QED BY <1>2, <1>3, <1>4

LEMMA UpdateLearnerModelKeeps == GraphInv /\ UpdateLearnerModel => GraphInv'
<1> SUFFICES ASSUME GraphInv, UpdateLearnerModel PROVE GraphInv'
    OBVIOUS
<1>1. /\ node = "update_learner_model" /\ node' = "end"
      /\ heard' = "nothing" /\ seen' = Empty /\ late' = FALSE /\ d' = NoDecision /\ out' = NoOutcome
      /\ UNCHANGED <<hits, topic, reply>>
      BY DEF UpdateLearnerModel, material
<1>2. PICK failed \in SUBSET {"events", "turns", "active", "tutoring"}, some \in SUBSET out.marks,
           overtakes \in BOOLEAN :
         /\ conv' = [active |-> IF "active" \in failed \/ ActiveUpdate = None THEN conv.active
                                ELSE ActiveUpdate,
                     earlier |-> IF "tutoring" \in failed THEN conv.earlier ELSE EarlierUpdate,
                     pending |-> IF "tutoring" \in failed THEN conv.pending ELSE out.next,
                     thread |-> IF "tutoring" \in failed THEN conv.thread ELSE ThreadOf,
                     quiz |-> IF "tutoring" \in failed THEN conv.quiz ELSE QuizUpdate,
                     recent |-> conv.recent \/ "turns" \notin failed]
         /\ older' = IF overtakes THEN conv ELSE None
         /\ strayed' = Strays(conv', "tutoring" \notin failed)
         /\ graded' = /\ conv'.pending # None /\ "question" \notin strayed' /\ out.carried
                      /\ graded \/ (out.graded /\ "events" \notin failed)
         /\ marked' = IF conv'.quiz = None \/ "quiz" \in strayed' \/ AsksAfresh THEN {}
                      ELSE marked \cup some
         /\ moved' = /\ conv'.quiz # None /\ "quiz" \notin strayed' /\ out.quiz = None
                     /\ moved \/ MovesOn
      BY DEF UpdateLearnerModel
<1>3. PICK c : c = conv'
      OBVIOUS
<1> DEFINE said == conv.recent \/ "turns" \notin failed
<1> HIDE DEF said
<1>4. /\ conv \in Conversations
      /\ ActiveUpdate \in {None} \cup Subjects /\ EarlierUpdate \in {None} \cup Subjects
      /\ ThreadOf \in Threads /\ QuizUpdate \in Quizzes
      /\ out.next \in {None, "question", "code"} /\ out.marks \subseteq Positions
      BY WhatIsLeftIsTyped DEF GraphInv, GraphTypes
<1>5. c = [active |-> IF "active" \in failed \/ ActiveUpdate = None THEN conv.active ELSE ActiveUpdate,
           earlier |-> IF "tutoring" \in failed THEN conv.earlier ELSE EarlierUpdate,
           pending |-> IF "tutoring" \in failed THEN conv.pending ELSE out.next,
           thread |-> IF "tutoring" \in failed THEN conv.thread ELSE ThreadOf,
           quiz |-> IF "tutoring" \in failed THEN conv.quiz ELSE QuizUpdate,
           recent |-> said]
      BY <1>2, <1>3 DEF said
<1>6. said \in BOOLEAN
      BY DEF said
<1>7. c \in Conversations
  <2>1. /\ conv.active \in {None} \cup Subjects /\ conv.earlier \in {None} \cup Subjects
        /\ conv.pending \in {None, "question", "code"} /\ conv.thread \in Threads /\ conv.quiz \in Quizzes
        BY <1>4 DEF Conversations
  <2> QED BY <1>4, <1>5, <1>6, <2>1 DEF Conversations
<1>8. /\ older' \in {None} \cup Conversations /\ strayed' \subseteq {"question", "quiz"}
      /\ graded' \in BOOLEAN /\ moved' \in BOOLEAN /\ marked' \subseteq Positions
  <2>1. older' \in {None} \cup Conversations
        BY <1>2, <1>4
  <2>2. strayed' \subseteq {"question", "quiz"}
        BY <1>2 DEF Strays
  <2>3. graded' \in BOOLEAN
        BY <1>2
  <2>4. moved' \in BOOLEAN
        BY <1>2
  <2>5. marked' \subseteq Positions
        BY <1>2, <1>4 DEF GraphInv, GraphTypes
  <2> QED BY <2>1, <2>2, <2>3, <2>4, <2>5
<1>9. GraphTypes'
      BY <1>1, <1>3, <1>7, <1>8, NothingDecidedIsTyped DEF GraphInv, GraphTypes, Nodes, Inputs
<1>10. WhereTheTurnIs'
      BY <1>1 DEF GraphInv, WhereTheTurnIs, Reading, Planning, Agents
<1>11. SeenIsStored'
      BY <1>1 DEF SeenIsStored, Empty
<1>12. OutcomeInOrder' /\ DecisionSound'
      BY <1>1 DEF OutcomeInOrder, NoOutcome, DecisionSound, NoDecision
<1>13. HitsAreOfTheTurn'
      BY <1>1, NoneIsNoWord DEF GraphInv, WhereTheTurnIs, HitsAreOfTheTurn, Agents
<1>14. EvidenceInOrder'
  <2>1. strayed' = Strays(c, "tutoring" \notin failed)
        BY <1>2, <1>3
  <2>2. /\ conv.pending # None /\ "question" \notin strayed => ~graded
        /\ conv.quiz # None /\ "quiz" \notin strayed =>
             /\ conv.quiz.drill => \A i \in marked : i < conv.quiz.at
             /\ ~conv.quiz.drill => marked = {}
             /\ moved => conv.thread # "quiz"
        BY DEF GraphInv, EvidenceInOrder
  <2>3. "tutoring" \notin failed => c.pending = out.next /\ c.thread = ThreadOf /\ c.quiz = QuizUpdate
        BY <1>5
  <2>4. c.pending # None /\ "question" \notin strayed' => ~graded'
    <3> SUFFICES ASSUME c.pending # None, "question" \notin strayed', graded' PROVE FALSE
        OBVIOUS
    <3>1. out.carried /\ (graded \/ out.graded)
          BY <1>2
    <3>2. "tutoring" \notin failed /\ ~late /\ "question" \notin strayed
          BY <2>1, <3>1 DEF Strays
    <3>3. ~out.graded /\ out.next = seen.pending
          BY <3>1 DEF GraphInv, OutcomeInOrder
    <3>4. seen.pending \in {conv.pending, None}
          BY <3>2 DEF GraphInv, SeenIsStored
    <3> QED BY <2>2, <2>3, <3>1, <3>2, <3>3, <3>4
  <2> SUFFICES ASSUME c.quiz # None, "quiz" \notin strayed'
               PROVE  /\ c.quiz.drill => \A i \in marked' : i < c.quiz.at
                      /\ ~c.quiz.drill => marked' = {}
                      /\ moved' => c.thread # "quiz"
      BY <1>3, <2>4 DEF EvidenceInOrder
  <2>a. /\ "tutoring" \notin failed
        /\ AsksAfresh \/ (~late /\ "quiz" \notin strayed)
        BY <2>1 DEF Strays
  <2>5. \/ marked' = {}
        \/ /\ "quiz" \notin strayed
           /\ \/ /\ out.marks = {} /\ c.quiz = conv.quiz /\ marked' = marked
              \/ /\ conv.quiz # None /\ conv.quiz.drill /\ c.quiz.drill
                 /\ c.quiz.at > conv.quiz.at /\ marked' \subseteq marked \cup {conv.quiz.at}
    <3>1. CASE AsksAfresh
          BY <1>2, <3>1
    <3>2. CASE ~AsksAfresh
      <4>1. ~late /\ "quiz" \notin strayed /\ c.quiz = QuizUpdate
            BY <2>3, <2>a, <3>2
      <4>2. marked' = {} \/ marked' = marked \cup some
            BY <1>2
      <4> QED BY <1>2, <3>2, <4>1, <4>2, TheQuizThatWaits
    <3> QED BY <3>1, <3>2
  <2>6. c.quiz.drill => \A i \in marked' : i < c.quiz.at
    <3> SUFFICES ASSUME c.quiz.drill, NEW i \in marked' PROVE i < c.quiz.at
        OBVIOUS
    <3>1. i \in Positions /\ c.quiz.at \in Positions
          BY <1>7, <1>8, QuizParts DEF Conversations
    <3>2. conv.quiz # None => conv.quiz.at \in Positions
          BY <1>4, QuizParts DEF Conversations
    <3>3. CASE "quiz" \notin strayed /\ c.quiz = conv.quiz /\ marked' = marked
          BY <2>2, <3>3
    <3>4. CASE /\ "quiz" \notin strayed /\ conv.quiz # None /\ conv.quiz.drill
               /\ c.quiz.at > conv.quiz.at /\ marked' \subseteq marked \cup {conv.quiz.at}
      <4>1. i < conv.quiz.at \/ i = conv.quiz.at
            BY <2>2, <3>4
      <4> QED BY <3>1, <3>2, <3>4, <4>1, SizesAreNatural DEF Positions
    <3> QED BY <2>5, <3>3, <3>4
  <2>7. ~c.quiz.drill => marked' = {}
        BY <2>2, <2>5
  <2>8. moved' => c.thread # "quiz"
    <3> SUFFICES ASSUME moved', c.thread = "quiz" PROVE FALSE
        OBVIOUS
    <3>1. out.quiz = None /\ (moved \/ MovesOn)
          BY <1>2
    <3>2. seen.thread = "quiz" /\ ~MovesOn
          BY <2>3, <2>a, <3>1, TheThreadOfAQuiz
    <3>3. ~late /\ "quiz" \notin strayed
          BY <2>a, <3>1 DEF AsksAfresh
    <3>4. conv.thread = "quiz"
          BY <3>2, <3>3, NoneIsNoWord DEF GraphInv, SeenIsStored
    <3>5. conv.quiz # None
      <4>1. QuizUpdate # None
            BY <2>3, <2>a
      <4>2. QuizUpdate = seen.quiz
            BY <3>1, <4>1 DEF QuizUpdate
      <4> QED BY <3>3, <4>1, <4>2 DEF GraphInv, SeenIsStored
    <3> QED BY <2>2, <3>1, <3>2, <3>3, <3>4, <3>5
  <2> QED BY <2>6, <2>7, <2>8
<1> QED BY <1>9, <1>10, <1>11, <1>12, <1>13, <1>14 DEF GraphInv

-----------------------------------------------------------------------------
(* The theorems *)

LEMMA InitIsGraphInv == Init => GraphInv
<1> SUFFICES ASSUME Init PROVE GraphInv
    OBVIOUS
<1>1. GraphTypes
      BY NothingDecidedIsTyped DEF Init, GraphTypes, Nodes, Inputs
<1>2. WhereTheTurnIs /\ SeenIsStored
      BY DEF Init, WhereTheTurnIs, Reading, Planning, Agents, SeenIsStored, Empty
<1>3. OutcomeInOrder /\ DecisionSound
      BY DEF Init, OutcomeInOrder, DecisionSound, NoOutcome, NoDecision
<1>4. HitsAreOfTheTurn
      BY NoneIsNoWord DEF Init, HitsAreOfTheTurn
<1>5. EvidenceInOrder
      BY DEF Init, EvidenceInOrder, Empty
<1> QED BY <1>1, <1>2, <1>3, <1>4, <1>5 DEF GraphInv

LEMMA NextKeepsGraphInv == GraphInv /\ [Next]_vars => GraphInv'
<1> SUFFICES ASSUME GraphInv, [Next]_vars PROVE GraphInv'
    OBVIOUS
<1>1. CASE UNCHANGED vars
      BY <1>1 DEF vars, GraphInv, GraphTypes, WhereTheTurnIs, SeenIsStored, OutcomeInOrder,
                  DecisionSound, HitsAreOfTheTurn, EvidenceInOrder
<1>2. CASE Next
      BY <1>2, ReceiveKeeps, UnderstandInputKeeps, LoadLearnerProfileKeeps, ClassifyIntentKeeps,
         DecideTurnKeeps, RetrieveKnowledgeKeeps, PlanTeachingKeeps, TalkersKeep, CodeAgentsKeep,
         AssessAgentKeeps, GradeAnswerKeeps, FinalResponseKeeps, UpdateLearnerModelKeeps DEF Next
<1> QED BY <1>1, <1>2

\* Every reachable state of the graph satisfies the inductive invariant: the types
\* of what is stored, loaded, decided and left by the agents, where the turn is,
\* and what relates them (run_turn of app/graph/build.py over any turns).
THEOREM GraphInvariant == Spec => []GraphInv
<1>1. Init => GraphInv
      BY InitIsGraphInv
<1>2. GraphInv /\ [Next]_vars => GraphInv'
      BY NextKeepsGraphInv
<1> QED BY <1>1, <1>2, PTL DEF Spec

\* The variables of the graph keep their types.
THEOREM GraphTypesOK == Spec => []TypeOK
<1>1. GraphInv => TypeOK
  <2> SUFFICES ASSUME GraphInv PROVE TypeOK
      OBVIOUS
  <2> QED BY DEF GraphInv, GraphTypes, TypeOK
<1> QED BY <1>1, GraphInvariant, PTL

\* A question that still waits has not been graded, and no question that a quiz
\* still waits for has been marked: the savepoints of update_learner_model may fail
\* one by one, nodes may fail and turns may overlap, as long as since the question
\* was asked every turn's tutoring state was stored, by a turn that had loaded the
\* conversation after the one before it was stored.
THEOREM NoQuestionIsGradedTwice == Spec => []WaitingIsNotGraded
<1>1. GraphInv => WaitingIsNotGraded
  <2> SUFFICES ASSUME GraphInv, conv.quiz # None, "quiz" \notin strayed
               PROVE  marked \cap Waiting(conv.quiz) = {}
      BY DEF WaitingIsNotGraded, GraphInv, EvidenceInOrder
  <2>1. /\ conv.quiz.drill => \A i \in marked : i < conv.quiz.at
        /\ ~conv.quiz.drill => marked = {}
        BY DEF GraphInv, EvidenceInOrder
  <2>2. ASSUME conv.quiz.drill
        PROVE  marked \cap Waiting(conv.quiz) = {}
    <3>1. Waiting(conv.quiz) = {conv.quiz.at} /\ conv.quiz.at \in Positions
          BY <2>2, QuizParts DEF Waiting, GraphInv, GraphTypes, Conversations
    <3>2. ~(conv.quiz.at < conv.quiz.at)
          BY <3>1, SizesAreNatural DEF Positions
    <3> QED BY <2>1, <2>2, <3>1, <3>2
  <2> QED BY <2>1, <2>2
<1> QED BY <1>1, GraphInvariant, PTL

\* open_quiz: answers are marked only against a quiz since which no agent has
\* answered something else, as long as since it was asked every turn's state was
\* stored and none overlapped.
THEOREM MarksAreOfTheOpenQuiz == Spec => []NoMarksAfterAnotherAnswer
<1>1. GraphInv => NoMarksAfterAnotherAnswer
  <2> SUFFICES ASSUME GraphInv, out.marks # {}, "quiz" \notin strayed, ~late, moved PROVE FALSE
      BY DEF NoMarksAfterAnotherAnswer
  <2>1. seen.thread = "quiz" /\ seen.quiz # None
        BY DEF GraphInv, OutcomeInOrder
  <2>2. conv.thread = "quiz" /\ conv.quiz # None
        BY <2>1, NoneIsNoWord DEF GraphInv, SeenIsStored
  <2> QED BY <2>2 DEF GraphInv, EvidenceInOrder
<1> QED BY <1>1, GraphInvariant, PTL

\* decide_turn sends neither the ladder nor the debugger in with nothing: a step or
\* a bug hunt it decides on in a conversation with a subject is about it or about
\* what the message brings, and a follow-up on a statement searches with the
\* statement.
THEOREM DecisionsHaveTheirSubject == Spec => []DecisionHasItsSubject
<1>1. GraphInv => DecisionHasItsSubject
  <2> SUFFICES ASSUME GraphInv, d.route \in {"dsa", "debug"}, seen.active # None
               PROVE  /\ d.relation # "none" \/ d.brings # "words"
                      /\ /\ d.relation = "followup"
                         /\ (IF d.switched THEN d.takes ELSE seen.active) \in Problems
                         /\ topic = "retrieval"
                         => "problem" \in hits
      BY DEF DecisionHasItsSubject
  <2>1. d.relation # "none" \/ d.brings # "words"
        BY DEF GraphInv, DecisionSound
  <2>2. ASSUME d.relation = "followup", (IF d.switched THEN d.takes ELSE seen.active) \in Problems,
               topic = "retrieval"
        PROVE  "problem" \in hits
    <3>1. "problem" \in d.holds
          BY <2>2 DEF GraphInv, DecisionSound
    <3>2. hits # {}
          BY <2>2 DEF GraphInv, HitsAreOfTheTurn
    <3> QED BY <3>1, <3>2 DEF GraphInv, HitsAreOfTheTurn
  <2> QED BY <2>1, <2>2
<1> QED BY <1>1, GraphInvariant, PTL
=============================================================================
