------------------------------- MODULE Grading -------------------------------
(***************************************************************************)
(* How a reply to the tutor's own question is graded                        *)
(* (app/tutoring/grader.py): the rules, in the order the code tries them,   *)
(* and the model that judges what none of them settles.  A reply is what    *)
(* the patterns find in it, a question what is looked for.                  *)
(***************************************************************************)
EXTENDS Naturals, Sequences, FiniteSets

Grades == {"correct", "partial", "incorrect", "dont_know"}

\* A recognition question asks for a technique and its reason, or, narrowed, for
\* one of them; a choice has two options and perhaps one for either, with a grade
\* of its own; any other names the ideas an answer should show. A request for
\* code names nothing, and is answered only by "I don't know" (should_grade).
Kinds == {"recognition", "choice", "open", "code"}

Expects(kind) ==
    CASE kind = "recognition" -> {{"technique", "reason"}, {"technique"}, {"reason"}}
      [] kind = "open" -> {{"one", "two"}, {"one"}}
      [] OTHER -> {{}}

Shapes(kind) ==
    [kind : {kind}, expects : Expects(kind),
     either : IF kind = "choice" THEN Grades \cup {"none"} ELSE {"none"}]

Options(question) ==
    IF question.kind # "choice" THEN {}
    ELSE {"right", "wrong"} \cup IF question.either = "none" THEN {} ELSE {"either"}

\* How a listed phrase occurs in a reply: as the whole of it, as a token or an
\* expression in it, only within a stricter expression (>= for >), or in a text.
Occurrences == {"no", "whole", "token", "stricter", "inside"}

\* words: how many are left without the names of techniques: few, a reason's worth,
\* a description's (_MIN_DESCRIPTION_WORDS).  other: a technique not expected.
Replies(question) ==
    [blank : BOOLEAN, injects : BOOLEAN,
     unsure : IF question.kind = "code" THEN {TRUE} ELSE BOOLEAN,
     accepted : IF question.kind = "code" THEN {"no"} ELSE Occurrences,
     wrong : IF question.kind = "code" THEN {"no"} ELSE Occurrences \ {"stricter"},
     options : SUBSET Options(question), ideas : SUBSET question.expects,
     other : IF question.kind = "recognition" THEN BOOLEAN ELSE {FALSE},
     words : IF question.kind = "recognition" THEN {0, 2, 4} ELSE {0}]

\* What the model makes of it, sure or not (MIN_CORRECT_CONFIDENCE), or nothing
\* that can be read.
NoJudgement == [grade |-> "none", sure |-> FALSE]
Judgements == [grade : Grades, sure : BOOLEAN] \cup {NoJudgement}

-----------------------------------------------------------------------------
Accepted(reply) == reply.accepted \in {"whole", "token"}

Wrong(reply) == reply.wrong \in {"whole", "token"}

\* The option meant, if one is: either, if it or both of the others are named.
Chosen(question, reply) ==
    LET singles == reply.options \ {"either"} IN
    CASE "either" \in reply.options -> "either"
      [] "either" \notin reply.options /\ Cardinality(singles) = 1 ->
            CHOOSE option \in singles : TRUE
      [] Cardinality(singles) = 2 /\ question.either # "none" -> "either"
      [] OTHER -> "none"

OptionGrade(question, reply) ==
    CASE Chosen(question, reply) = "right" -> "correct"
      [] Chosen(question, reply) = "wrong" -> "incorrect"
      [] Chosen(question, reply) = "either" -> question.either
      [] OTHER -> "none"

NamesOtherTechnique(question, reply) ==
    reply.other /\ "technique" \in question.expects \ reply.ideas

Describes(reply) == reply.words >= 4

\* The technique itself, with its reason if that is asked too, or a bare guess at
\* another one.
RecognitionGrade(question, reply) ==
    IF question.kind # "recognition" \/ "technique" \notin question.expects THEN "none"
    ELSE IF "technique" \notin reply.ideas
         THEN IF NamesOtherTechnique(question, reply) /\ ~Describes(reply)
              THEN "incorrect" ELSE "none"
    ELSE IF "reason" \notin question.expects \/ "reason" \in reply.ideas \/ reply.words >= 2
         THEN "correct" ELSE "partial"

\* What keywords cannot tell: the right mechanics under another technique's name,
\* a wrong phrase in a text that shows none of the ideas.
ForTheJudge(question, reply) ==
    \/ NamesOtherTechnique(question, reply) /\ Describes(reply)
    \/ reply.wrong = "inside" /\ reply.ideas = {}

ConceptsGrade(question, reply) ==
    CASE reply.ideas = {} -> "none"
      [] reply.ideas = question.expects /\ reply.ideas # {} -> "correct"
      [] OTHER -> "partial"

\* The grade of the first rule that gives one.
FirstGrade(rules) ==
    LET gives == {i \in DOMAIN rules : rules[i] # "none"}
    IN  IF gives = {} THEN "none" ELSE rules[CHOOSE i \in gives : \A j \in gives : i <= j]

When(condition, grade) == IF condition THEN grade ELSE "none"

GradeDeterministic(question, reply) ==
    FirstGrade(<<
        When(reply.blank, "dont_know"),
        When(reply.injects, "incorrect"),
        When(Accepted(reply), "correct"),
        When(Wrong(reply) /\ OptionGrade(question, reply) # "correct", "incorrect"),
        OptionGrade(question, reply),
        When(reply.unsure, "dont_know"),
        RecognitionGrade(question, reply),
        When(~ForTheJudge(question, reply), ConceptsGrade(question, reply))>>)

\* The mutant of Judged: any confidence will do.
JudgedAnyhow(judgement) == IF judgement = NoJudgement THEN "partial" ELSE judgement.grade

Judged(judgement) ==
    CASE judgement = NoJudgement -> "partial"
      [] judgement.grade = "correct" /\ ~judgement.sure -> "partial"
      [] OTHER -> judgement.grade

GradeReply(question, reply, judgement) ==
    LET decided == GradeDeterministic(question, reply)
    IN  IF decided # "none" THEN decided
        ELSE IF Judged(judgement) = "correct" /\ reply.injects THEN "incorrect"
        ELSE Judged(judgement)

-----------------------------------------------------------------------------
Worth(grade) == CASE grade = "correct" -> 2 [] grade = "partial" -> 1 [] OTHER -> 0

\* Every question of a kind and every reply: a reply that shapes the grader's
\* instructions is not correct, whatever else it holds; "correct" is an accepted
\* answer, the right option, every idea asked for or a confident judge; and where
\* the rules decide, a reply that shows one more of the ideas is not graded worse.
EarnedFor ==
    [kind \in Kinds |-> \A question \in Shapes(kind) : \A reply \in Replies(question) :
        LET decided == GradeDeterministic(question, reply) IN
        /\ \A judgement \in Judgements :
              GradeReply(question, reply, judgement) = "correct" =>
                /\ ~reply.injects
                /\ \/ Accepted(reply)
                   \/ OptionGrade(question, reply) = "correct"
                   \/ reply.ideas = question.expects /\ ~reply.blank
                   \/ "technique" \in reply.ideas /\ reply.words >= 2
                   \/ decided = "none" /\ judgement.sure
        /\ \A idea \in question.expects \ reply.ideas :
              LET more == GradeDeterministic(question, [reply EXCEPT !.ideas = @ \cup {idea}])
              IN  decided # "none" /\ more # "none" => Worth(decided) <= Worth(more)]
=============================================================================
