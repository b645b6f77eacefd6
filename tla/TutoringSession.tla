---------------------------- MODULE TutoringSession ----------------------------
(***************************************************************************)
(* A tutoring session from turn to turn (app/tutoring): which question a    *)
(* turn ends with and what a graded reply to it leads to (turn.py, bank.py, *)
(* grader.py), how hard the next practice problem is (progression.py), and  *)
(* what the learner is told was changed because of them (adaptation.py), as *)
(* grade_answer, practice_agent and _with_tutoring of app/graph/nodes.py    *)
(* put them together.  How much help a turn gives is HintLadder's subject,  *)
(* which agent takes it is TurnDecision's.                                  *)
(***************************************************************************)
EXTENDS Integers, SequencesExt, Grading

CONSTANTS
    Problems,       \* subjects; Nothing before the first
    Handed,         \* those the corpus has as practice problems
    LevelOf,        \* Handed -> 1..3: easy, medium, hard
    Questions,      \* the bank
    Recognition,    \* the question "which technique fits?"
    MistakeCheck,   \* the question of a catalogued misconception
    MultipleChoice,       \* questions to be answered with an option
    ChainStart,     \* Problems -> the question its curated chain starts with
    Successor,      \* Questions -> the question after it, Code or Nothing
    FollowUp,       \* questions with a narrower one for each idea in them
    Reframe,        \* Questions -> an easier one on the same idea, or itself
    Asked,          \* the kinds of practice request made
    Code,           \* the request for the learner's own code
    MaxGrades,      \* MAX_GRADES: 30 in the code
    MaxLog,         \* _MAX_EVIDENCE_LOG: 8 in the code
    MaxTurns,       \* bound
    Nothing

ASSUME SomeProblems ==
    /\ Handed \subseteq Problems /\ Cardinality(Handed) >= 2
    /\ LevelOf \in [Handed -> 1..3]
ASSUME SomeBank ==
    /\ {Recognition, MistakeCheck} \subseteq Questions
    /\ MultipleChoice \subseteq Questions \ {Recognition}
    /\ ChainStart \in [Problems -> Questions \cup {Nothing}]
    /\ Successor \in [Questions -> Questions \cup {Code, Nothing}]
    /\ \A q \in Questions : Successor[q] # q
    /\ Reframe \in [Questions -> Questions]
    /\ Code \notin Questions
ASSUME SomeRequests == Asked \subseteq {"none", "easy", "medium", "hard", "harder", "easier"}

\* What waits: a question, or the request for the code, on a problem.
Checks == [q : Questions \cup {Code}, narrow : BOOLEAN, key : Problems]
ASSUME NothingIsNoCheck == Nothing \notin Questions \cup Problems \cup Checks \cup {Code}
ASSUME SomeLimits == MaxGrades \in Nat \ {0} /\ MaxLog \in Nat \ {0} /\ MaxTurns \in Nat

VARIABLES
    pending,    \* pending_check
    grades,     \* SessionProgress.grades, cut to the last MaxGrades
    since,      \* SessionProgress.grades_at_practice
    asked,      \* SessionProgress.asked
    practice,   \* SessionProgress.last_practice
    active,     \* the active problem
    log,        \* SessionProgress.evidence_log, cut to the last MaxLog
    logKey,     \* SessionProgress.evidence_key
    told,       \* what the last reply claims, and what kind of reply it was, or Nothing
    turns,
    recent,     \* history: the grades since a problem was handed out
    graded,     \* history: replies graded so far
    streak,     \* history: misses and right answers in a row on logKey
    answered    \* history: replies graded so far, for each question

progress == <<grades, since, asked, practice>>
tutoringVars == <<pending, grades, since, asked, practice, active, log, logKey, told, turns,
          recent, graded, streak, answered>>

Min2(a, b) == IF a < b THEN a ELSE b
LastOf(s, n) == SubSeq(s, Len(s) - Min2(n, Len(s)) + 1, Len(s))

\* What the learner showed: the labels of STRUGGLE, of SUCCESS, the others, and
\* nothing, for a request.
Evidence == {"miss", "right", "other", "none"}

-----------------------------------------------------------------------------
(* Questions *)

\* The mutant of Attempts: a narrowed question counts as another one.
AttemptsAtThisWording(check) ==
    Cardinality({i \in DOMAIN grades :
        grades[i].q = check.q /\ grades[i].narrow = check.narrow})

Attempts(check) == Cardinality({i \in DOMAIN grades : grades[i].q = check.q})

MaxAttempts == 2

\* What a question is made of, put about problem p; the code of one.
Ask(q, p) == [q |-> q, narrow |-> FALSE, key |-> p]
AskTechnique(p) == Ask(Recognition, p)
AskForCode(p) == Ask(Code, p)

\* The question after this one, or the code, or nothing more.
AfterCorrect(check) ==
    CASE Successor[check.q] = Nothing -> Nothing
      [] Successor[check.q] = Code -> AskForCode(check.key)
      [] OTHER -> Ask(Successor[check.q], check.key)

\* Said not to know, or no code where code was asked for.
NotKnown(check, grade) == grade = "dont_know" \/ check.q = Code

\* On a problem that hands the next step to the solver.
HandedOver(check, grade) ==
    /\ NotKnown(check, grade)
    /\ active # Nothing
    /\ check.q \in {Code, Recognition}

\* A repeated miss, or a wrong technique, is taught and the lesson moves on.
Taught(check, grade) ==
    /\ grade \in {"partial", "incorrect"}
    /\ \/ Attempts(check) + 1 >= MaxAttempts
       \/ grade = "incorrect" /\ check.q = Recognition

React(check, grade) ==
    IF HandedOver(check, grade) THEN Nothing
    ELSE IF NotKnown(check, grade)
         THEN IF check.q # Code /\ Attempts(check) + 1 < MaxAttempts THEN check ELSE Nothing
    ELSE IF grade = "correct" \/ Taught(check, grade) THEN AfterCorrect(check)
    ELSE IF grade = "partial" THEN [check EXCEPT !.narrow = @ \/ check.q \in FollowUp]
    ELSE [check EXCEPT !.q = Reframe[check.q],
                       !.narrow = check.narrow /\ Reframe[check.q] = check.q]

Unasked(q, p) == q # Nothing /\ <<q, p>> \notin asked

\* The question a turn that grades nothing ends with.
QuestionForTurn(route, p, mistake, opening, trusted) ==
    IF mistake THEN Ask(MistakeCheck, p)
    ELSE IF route = "practice"
         THEN IF ChainStart[p] # Nothing THEN Ask(ChainStart[p], p) ELSE AskTechnique(p)
    ELSE IF route \notin {"dsa", "explain"} THEN Nothing
    ELSE IF Unasked(ChainStart[p], p) THEN Ask(ChainStart[p], p)
    ELSE IF route = "dsa" /\ opening /\ trusted /\ Unasked(Recognition, p)
         THEN AskTechnique(p)
    ELSE Nothing

\* The code that was asked for is still waited for, on the same problem.
StillWaits(question, opening) ==
    question = Nothing /\ pending # Nothing /\ pending.q = Code /\ ~opening

\* The tutor's own step ends with a question of its own.
OneQuestion(question, guided, p, mistake) ==
    IF question # Nothing /\ guided /\ ~mistake /\ question.q # ChainStart[p]
    THEN Nothing ELSE question

Remember(question) ==
    asked' = IF question = Nothing \/ question.q = Code THEN asked
             ELSE asked \cup {<<question.q, question.key>>}

-----------------------------------------------------------------------------
(* Practice *)

Step(level, delta) == IF level + delta < 1 THEN 1 ELSE Min2(3, level + delta)

\* The mutant of SinceLastPractice: an answer counts for every later problem.
SinceTheStart == grades

SinceLastPractice == SubSeq(grades, since + 1, Len(grades))

Struggled ==
    \E i \in DOMAIN LastOf(SinceLastPractice, 2) :
        LastOf(SinceLastPractice, 2)[i].grade \in {"incorrect", "dont_know"}

Succeeded ==
    /\ ~Struggled
    /\ \E i \in DOMAIN SinceLastPractice : SinceLastPractice[i].grade = "correct"

\* The level of the next problem and why; base is the planner's level.
SessionDifficulty(base, request) ==
    LET last == IF practice = Nothing THEN base ELSE practice.level
        answer(level, reason) == [level |-> level, reason |-> reason]
    IN  CASE request = "easy" -> answer(1, "requested")
          [] request = "medium" -> answer(2, "requested")
          [] request = "hard" -> answer(3, "requested")
          [] request = "harder" /\ Struggled -> answer(last, "harder_denied_struggle")
          [] request = "harder" /\ ~Struggled ->
                answer(Step(last, 1), IF Succeeded THEN "harder_after_success" ELSE "harder")
          [] request = "easier" -> answer(Step(last, -1), "easier")
          [] OTHER ->
                IF practice = Nothing THEN answer(base, "skill")
                ELSE IF Succeeded THEN answer(Step(last, 1), "up_after_success")
                ELSE answer(last, IF Struggled THEN "same_after_struggle" ELSE "same")

Distance(p, level) == IF LevelOf[p] < level THEN level - LevelOf[p] ELSE LevelOf[p] - level

\* The nearest level the corpus has, never the problem handed out last.
Selected(level) ==
    LET others == {p \in Handed : practice = Nothing \/ practice.title # p}
    IN  {p \in others : \A o \in others : Distance(p, level) <= Distance(o, level)}

-----------------------------------------------------------------------------
(* Adaptation *)

\* How many of the latest entries, with what this turn shows, are this one.
Streak(label, now, history) ==
    LET all == IF now = "none" THEN history ELSE Append(history, now)
    IN  Cardinality({i \in DOMAIN all : \A j \in i..Len(all) : all[j] = label})

\* What was shown before on the subject of this turn; an opening has nothing.
ShownOn(p, opening) == IF logKey = p /\ ~opening THEN log ELSE <<>>

Ladder == <<"worked_example", "diagram", "simpler_question">>
Representation(struggles) == Ladder[Min2(struggles, 3)]

\* The notes of a turn whose message reads as evidence; tutoring: the move is a
\* step, a grade, an explanation or talk, and the code was not asked for.
Adapt(p, evidence, opening, tutoring) ==
    LET now == IF opening THEN "none" ELSE evidence
        struggles == Streak("miss", now, ShownOn(p, opening))
        successes == Streak("right", now, ShownOn(p, opening))
    IN  (IF tutoring /\ struggles > 0 THEN {Representation(struggles)} ELSE {})
            \cup (IF tutoring /\ successes >= 2 THEN {"skip_ahead"} ELSE {})

IfStuck(p, opening) == Representation(Streak("miss", "none", ShownOn(p, opening)) + 1)

\* The mutant of AsDelivered: what was planned is what is claimed.
AsPlanned(notes, by) == notes

\* The presentation is carried out by the tutor's own step; a written reply to a
\* graded answer changes its presentation but skips nothing.
AsDelivered(notes, by) ==
    CASE by = "step" -> notes
      [] by = "written" -> notes \ {"skip_ahead"}
      [] OTHER -> notes \ {"skip_ahead", "worked_example", "diagram", "simpler_question"}

\* The agent that read the message found a miss that the first reading had not.
AfterAMiss(notes, final, by, p, opening) ==
    IF by = "step" /\ final = "miss" /\ ~opening /\ notes \cap Range(Ladder) = {}
    THEN notes \cup {IfStuck(p, opening)} ELSE notes

-----------------------------------------------------------------------------
TutoringInit ==
    /\ pending = Nothing
    /\ grades = <<>>
    /\ since = 0
    /\ asked = {}
    /\ practice = Nothing
    /\ active = Nothing
    /\ log = <<>>
    /\ logKey = Nothing
    /\ told = Nothing
    /\ turns = 0
    /\ recent = <<>>
    /\ graded = 0
    /\ streak = [miss |-> 0, right |-> 0]
    /\ answered = [q \in Questions \cup {Code} |-> 0]

\* _log_evidence: what the agent that looked says was shown; a request is not
\* logged, nor is an opening.
LogEvidence(p, final, opening) ==
    LET before == ShownOn(p, opening)
        shown == IF opening THEN "none" ELSE final
        fresh == p # logKey \/ opening
        run(label) == IF shown = label
                      THEN Min2(3, 1 + IF fresh THEN 0 ELSE streak[label])
                      ELSE IF shown = "none" /\ ~fresh THEN streak[label] ELSE 0
    IN  /\ log' = LastOf(IF shown = "none" THEN before ELSE Append(before, shown), MaxLog)
        /\ logKey' = p
        /\ streak' = [miss |-> run("miss"), right |-> run("right")]

\* The labels that claims still rest on when the reading that chose them (first)
\* was followed by the agent's own.
Firm(first, final) == {label \in {"miss", "right"} : final \in {first, label}}

Say(p, first, final, opening, tutoring, by) ==
    LET notes == AfterAMiss(AsDelivered(Adapt(p, first, opening, tutoring), by),
                            final, by, p, opening)
    IN  told' = IF notes = {} THEN Nothing
                ELSE [notes |-> notes, by |-> by, firm |-> Firm(first, final)]

\* The question this turn ends with becomes the pending one.
Put(question) == pending' = question

NextTurn == turns < MaxTurns /\ turns' = turns + 1

Nearest(request, base) == Selected(SessionDifficulty(base, request).level)

\* practice_agent; held: a debugging exercise, or a challenge to be met alone.
\* The planner's level is read for the first problem only.
PracticeAgent(request, base, p, held, mistake) ==
    /\ practice # Nothing => base = 1
    /\ held => ~mistake
    /\ p \in Nearest(request, base)
    /\ practice' = [title |-> p, level |-> LevelOf[p],
                    reason |-> SessionDifficulty(base, request).reason]
    /\ since' = Len(grades)
    /\ active' = p
    /\ LET question == IF held THEN Nothing
                       ELSE QuestionForTurn("practice", p, mistake, TRUE, TRUE)
       IN  Put(question) /\ Remember(question)
    /\ told' = Nothing
    /\ recent' = <<>>
    /\ UNCHANGED <<grades, log, logKey, graded, streak, answered>>

\* dsa_agent and explain_agent on a subject.  A request for the code shows
\* nothing, nor is an opening read; the tutor's own step, or a lesson, may be read with more care.
Tutor(route, p, first, final, asksCode, guided, reveals, mistake, trusted) ==
    LET opening == p # active
        by == IF reveals THEN "code" ELSE IF guided \/ route = "explain" THEN "step" ELSE "bank"
        question == IF reveals THEN Nothing
                    ELSE OneQuestion(QuestionForTurn(route, p, mistake, opening, trusted),
                                     guided, p, mistake)
    IN  /\ asksCode \/ opening => first = "none"
        /\ opening => final = "none"
        /\ trusted => opening /\ route = "dsa"
        /\ route = "explain" => ~guided /\ ~reveals /\ final = first
        /\ reveals => asksCode /\ ~guided
        /\ active' = p
        /\ IF StillWaits(question, opening) THEN UNCHANGED pending ELSE Put(question)
        /\ Remember(question)
        /\ LogEvidence(p, final, opening)
        /\ Say(p, first, final, opening, ~asksCode, by)
        /\ UNCHANGED <<grades, since, practice, recent, graded, answered>>

\* debug_agent on the learner's own code, which they brought now or before: the
\* sandbox says what it shows.
DebugAgent(final, brought, mistake) ==
    LET question == QuestionForTurn("debug", active, mistake, FALSE, FALSE)
    IN  /\ active # Nothing
        /\ mistake => brought
        /\ IF ~brought /\ StillWaits(question, FALSE)
           THEN UNCHANGED pending ELSE Put(question)
        /\ Remember(question)
        /\ LogEvidence(active, final, FALSE)
        /\ told' = Nothing
        /\ UNCHANGED <<grades, since, practice, active, recent, graded, answered>>

\* discuss_agent, meta_agent: the open question still waits, unless the message
\* brought code with a catalogued mistake.
DiscussAgent(first, final, mistake) ==
    LET question == QuestionForTurn("discuss", active, mistake, FALSE, FALSE)
    IN  /\ active # Nothing
        /\ IF question = Nothing THEN UNCHANGED pending ELSE Put(question)
        /\ Remember(question)
        /\ LogEvidence(active, final, FALSE)
        /\ Say(active, first, final, FALSE, TRUE, "talk")
        /\ UNCHANGED <<grades, since, practice, active, recent, graded, answered>>

\* The grades a reply to a kind of question can get.
GradesOf ==
    [kind \in Kinds |->
        UNION {{GradeReply(question, reply, judgement) : reply \in Replies(question)} :
                  question \in Shapes(kind), judgement \in Judgements}]

KindOf(check) ==
    CASE check.q = Code -> "code"
      [] check.q = Recognition -> "recognition"
      [] check.q \in MultipleChoice -> "choice"
      [] OTHER -> "open"

GradesFor(check) == GradesOf[KindOf(check)]

Showed(grade) ==
    CASE grade = "correct" -> "right"
      [] grade = "partial" -> "other"
      [] OTHER -> "miss"

\* grade_answer and the reply.  A changed presentation is the solver's to make:
\* the bank's next question is dropped.  read: what the solver then reads.
GradeAnswer(grade, written, guided, read) ==
    LET first == Showed(grade)
        planned == Adapt(active, first, FALSE, TRUE)
        handoff == \/ HandedOver(pending, grade)
                   \/ active # Nothing /\ planned \cap Range(Ladder) # {}
        next == IF handoff THEN Nothing ELSE React(pending, grade)
        by == IF handoff THEN IF guided THEN "step" ELSE "bank"
              ELSE IF written THEN "written" ELSE "bank"
        final == IF handoff /\ guided THEN read ELSE first
    IN  /\ pending # Nothing
        /\ grade \in GradesFor(pending)
        /\ ~handoff => ~guided
        /\ handoff => ~written
        /\ grades' = LastOf(Append(grades,
                        [q |-> pending.q, narrow |-> pending.narrow, grade |-> grade]), MaxGrades)
        /\ Put(next)
        /\ answered' = [answered EXCEPT ![pending.q] = @ + 1]
        /\ Remember(next)
        /\ LogEvidence(active, final, FALSE)
        /\ Say(active, first, final, FALSE, TRUE, by)
        /\ recent' = Append(recent, grade)
        /\ graded' = Min2(MaxGrades + 1, graded + 1)
        /\ UNCHANGED <<since, practice, active>>

Turn ==
    /\ NextTurn
    /\ \/ \E request \in Asked, base \in 1..3, p \in Handed, held, mistake \in BOOLEAN :
             PracticeAgent(request, base, p, held, mistake)
       \/ \E route \in {"dsa", "explain"}, p \in Problems, first, final \in Evidence,
             asksCode, guided, reveals, mistake, trusted \in BOOLEAN :
             Tutor(route, p, first, final, asksCode, guided, reveals, mistake, trusted)
       \/ \E final \in Evidence, brought, mistake \in BOOLEAN :
             DebugAgent(final, brought, mistake)
       \/ \E first, final \in Evidence, mistake \in BOOLEAN :
             DiscussAgent(first, final, mistake)
       \/ \E grade \in Grades, written, guided \in BOOLEAN, read \in Evidence \ {"none"} :
             GradeAnswer(grade, written, guided, read)

TutoringSpec == TutoringInit /\ [][Turn]_tutoringVars

-----------------------------------------------------------------------------
(* Properties *)

TutoringTypeOK ==
    /\ pending \in Checks \cup {Nothing}
    /\ grades \in Seq([q : Questions \cup {Code}, narrow : BOOLEAN, grade : Grades])
    /\ Len(grades) <= MaxGrades /\ since \in 0..MaxGrades
    /\ asked \subseteq Questions \X Problems
    /\ active \in Problems \cup {Nothing} /\ logKey \in Problems \cup {Nothing}
    /\ log \in Seq(Evidence \ {"none"}) /\ Len(log) <= MaxLog
    /\ turns \in 0..MaxTurns /\ graded \in Nat
    /\ answered \in [Questions \cup {Code} -> Nat]
    /\ recent \in Seq(Grades) /\ streak \in [{"miss", "right"} -> 0..3]

Missed(grade) == grade \in {"incorrect", "dont_know"}

\* While the log of grades still holds all of them, a step up follows no miss
\* among the last two answers on the last problem, and one that was not asked for
\* follows a right answer given since that problem: an answer raises the level
\* once ("success -> one level up, struggle -> stay", progression.py).
HarderIsEarned ==
    [][practice' # practice /\ graded <= MaxGrades =>
        /\ practice'.reason \in {"harder", "harder_after_success", "up_after_success"} =>
              \A i \in DOMAIN LastOf(recent, 2) : ~Missed(LastOf(recent, 2)[i])
        /\ practice'.reason \in {"harder_after_success", "up_after_success"} =>
              \E i \in DOMAIN recent : recent[i] = "correct"]_tutoringVars

\* What a reply claims to have changed because of the learner is true of this
\* subject, and was done by the reply that claims it: a worked example after a
\* miss, a drawing after two in a row, a smaller question after three, skipped
\* steps after two right answers in a row -- unless the agent's own reading went
\* against the one the claim was chosen by (adaptation.py: notes "says ... which of those actually applied").
NotesAreTrue == told # Nothing =>
    /\ told.by \in {"step", "written"}
    /\ "miss" \in told.firm =>
        \A i \in DOMAIN Ladder : Ladder[i] \in told.notes => streak.miss >= i
    /\ "right" \in told.firm =>
        ("skip_ahead" \in told.notes => streak.right >= 2 /\ told.by = "step")

\* However a question came back -- narrowed, asked again, after another question, a
\* detour or another problem -- a reply that is at least the second one graded to it
\* is not followed by the same question, in any wording, while the log of grades
\* still holds all of them (MAX_ATTEMPTS: "After this many graded attempts at one
\* question, stop re-asking it").  A later turn may put it again: that is not this
\* limit's concern, in the code either.
TheLessonMovesOn ==
    [][\A q \in Questions \cup {Code} :
          answered'[q] > answered[q] /\ answered'[q] >= MaxAttempts /\ graded <= MaxGrades
              => pending' = Nothing \/ pending'.q # q]_tutoringVars

\* Whatever question waits, no reply to it gets more than it has earned: neither
\* one that addresses the grader, nor one that leaves an idea out (grader.py).
GradesAreEarned == pending # Nothing => EarnedFor[KindOf(pending)]
=============================================================================
