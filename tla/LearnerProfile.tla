----------------------------- MODULE LearnerProfile -----------------------------
(***************************************************************************)
(* What a learner is thought to be able to do (app/memory/profile.py):      *)
(* skill levels per topic and per family of topics, moved by the events     *)
(* that turns record (app/memory/events.py), fading with time, planned with *)
(* (skill_for, difficulty_for of app/agents/planner.py) and reported to the *)
(* learner (_skill_deltas of app/graph/nodes.py).  Turns may overlap.       *)
(*                                                                         *)
(* Levels are counted in millionths, the precision the code rounds to; a    *)
(* tie may be rounded the other way.  Time is counted in half-lives of      *)
(* evidence and passes between turns: within a turn nothing ages.           *)
(***************************************************************************)
EXTENDS Integers, Sequences

CONSTANTS
    Topics,         \* topics of events
    FamilyTopics,   \* those of the one family here; the others have none
    Family,         \* the key of that family's estimate
    Turns,          \* turns that may be under way at once
    HintsUsed,      \* hints taken before a solution (bound)
    Grades,         \* grades of answers (bound)
    MaxEvents,      \* bound: events recorded
    Pause,          \* half-lives between turns (bound)
    MaxClock,       \* bound: half-lives passed
    Halvings,       \* Halvings[n]: what n half-lives divide a level's distance by
    None

ASSUME KnownFamily == FamilyTopics \subseteq Topics /\ Family \notin Topics
ASSUME SomeHints == HintsUsed \subseteq Nat
ASSUME SomeGrades == Grades \subseteq {"correct", "partial", "incorrect", "dont_know"}
ASSUME SomeBounds == MaxEvents \in Nat /\ Pause \in Nat /\ MaxClock \in Nat
ASSUME Fading ==
    /\ Halvings \in [0..MaxClock -> Nat \ {0}]
    /\ Halvings[0] = 1
    /\ \A m, n \in 0..MaxClock : m <= n => Halvings[m] <= Halvings[n]
ASSUME NoneIsNone == None \notin Int \cup BOOLEAN

VARIABLES
    skills,     \* LearnerProfile.skill_levels
    seen,       \* LearnerProfile.skill_seen: when a key last had evidence
    clock,      \* clock.now(), in half-lives
    events,     \* events that turns tried to record
    before,     \* the view a turn under way was loaded with, None for no turn
    stale,      \* history: turns whose view was not read, or is out of date
    told,       \* skill_deltas of the turn that has just ended, None for none
    last,       \* history: the events that turn stored
    lows        \* history: evidence below the prior by group of topics, to 2

profileVars == <<skills, seen, clock, events, before, stale, told, last, lows>>

Keys == Topics \cup {Family}

-----------------------------------------------------------------------------
(* Scores *)

Most == 1000000
Prior == 500000
MinSolvedScore == 400000
HintPenalty == 150000
FullSolutionScore == 300000
UnsolvedScore == 250000
ConceptCeiling == 670000
WeakSkill == 420000
HardSkill == 680000

ConceptScores == [correct |-> 850000, partial |-> 550000,
                  incorrect |-> 200000, dont_know |-> 250000]

Smaller(a, b) == IF a < b THEN a ELSE b
Larger(a, b) == IF a < b THEN b ELSE a

\* The weight of the new score is given in tenths: 3 is ALPHA, 1 CONCEPT_ALPHA.
Smooth(old, score, tenths) == ((10 - tenths) * old + tenths * score + 5) \div 10

HelpUpdate(old) == Smaller(old, Smooth(old, FullSolutionScore, 1))

\* Mutant: an answer may lift a skill as far as it goes.
ConceptUpdateUncapped(old, grade) == Smooth(old, ConceptScores[grade], 1)

ConceptUpdate(old, grade) ==
    LET new == Smooth(old, ConceptScores[grade], 1)
    IN  IF new > old THEN Smaller(new, Larger(old, ConceptCeiling)) ELSE new

-----------------------------------------------------------------------------
(* Events *)

Event(topic, solved, hints, full, source, grade) ==
    [topic |-> topic, solved |-> solved, hints |-> hints, full |-> full,
     source |-> source, grade |-> grade]

Solutions(topic) ==
    {Event(topic, TRUE, h, FALSE, "suite", None) : h \in HintsUsed}
        \cup {Event(topic, TRUE, 0, TRUE, "suite", None)}

Failure(topic) == Event(topic, FALSE, 0, FALSE, "suite", None)

Graded(topic, source, grades) == {Event(topic, None, 0, FALSE, source, g) : g \in grades}

QuizEvents == UNION {Graded(t, "quiz", Grades) : t \in Topics}

\* What a reply on a problem, or to the tutor's own question, showed is the grade
\* it counts as; one that showed nothing counts as none.
EvidenceGrade ==
    [correct |-> "correct", terminology_error |-> "correct",
     partially_correct |-> "partial", incomplete |-> "partial",
     incorrect |-> "incorrect", conceptual_misconception |-> "incorrect",
     stuck |-> "dont_know"]

Replies(topic) ==
    Graded(topic, "tutor_reply",
           Grades \cap {EvidenceGrade[shown] : shown \in DOMAIN EvidenceGrade})

\* What one turn about one topic may record: an outcome, a graded reply, help
\* that was needed, or that the topic was met.
TurnEvents ==
    UNION {Solutions(t) \cup {Failure(t)} \cup Replies(t)
              \cup {Event(t, None, 0, FALSE, s, None) : s \in {"help_needed", "none"}}
           : t \in Topics}

Soft(e) == e.solved = None /\ e.source # "none"

\* Mutant: a failed run counts as much as it did once (UNSOLVED_SCORE = 0.10).
OutcomeScoreHarsh(e) ==
    IF ~e.solved THEN 100000
    ELSE IF e.full THEN FullSolutionScore
    ELSE Larger(MinSolvedScore, Most - HintPenalty * e.hints)

OutcomeScore(e) ==
    IF ~e.solved THEN UnsolvedScore
    ELSE IF e.full THEN FullSolutionScore
    ELSE Larger(MinSolvedScore, Most - HintPenalty * e.hints)

SoftStep(e, old) ==
    IF e.source = "help_needed" THEN HelpUpdate(old) ELSE ConceptUpdate(old, e.grade)

SkillKeys(e) == {e.topic} \cup (IF e.topic \in FamilyTopics THEN {Family} ELSE {})

-----------------------------------------------------------------------------
(* Folding an event *)

Level(levels, key) == IF levels[key] = None THEN Prior ELSE levels[key]

\* A quiz question is asked on its topic; a topic without a family has nowhere
\* else to keep its estimate.
Direct(e) == e.source = "quiz" \/ SkillKeys(e) = {e.topic}

\* A topic that has not moved starts from its family's estimate.
Start(levels, e) ==
    IF e.topic \in FamilyTopics THEN Level(levels, Family) ELSE Prior

SoftLevel(levels, e, key) ==
    IF key = Family \/ Level(levels, key) # Prior THEN SoftStep(e, Level(levels, key))
    ELSE IF Direct(e) THEN SoftStep(e, Start(levels, e))
    ELSE Prior

ApplyEvent(levels, e) ==
    [key \in Keys |->
        IF key \notin SkillKeys(e) THEN levels[key]
        ELSE IF Soft(e) THEN SoftLevel(levels, e, key)
        ELSE IF e.solved = None THEN Level(levels, key)
        ELSE Smooth(Level(levels, key), OutcomeScore(e), 3)]

\* gap / weight, rounded to the nearest.
Shrunk(gap, weight) ==
    IF gap < 0 THEN -((weight - 2 * gap) \div (2 * weight))
    ELSE (2 * gap + weight) \div (2 * weight)

Decayed(level, at, now) ==
    IF level = None \/ at = None THEN level
    ELSE Prior + Shrunk(level - Prior, Halvings[now - at])

\* to_view: every level as it is shown and planned with.
View(levels, at, now) == [key \in Keys |-> Decayed(levels[key], at[key], now)]

\* Evidence is blended into what the learner was shown; exposure moves nothing.
DecayForOutcome(levels, at, e, now) ==
    [key \in Keys |->
        IF key \in SkillKeys(e) /\ (e.solved # None \/ Soft(e))
        THEN Decayed(levels[key], at[key], now)
        ELSE levels[key]]

\* The keys an event is evidence on.
Moved(baseline, e) ==
    IF e.solved # None THEN SkillKeys(e)
    ELSE {key \in SkillKeys(e) : ApplyEvent(baseline, e)[key] # Level(baseline, key)}

\* A key that did not move keeps its stored value and its time.
FoldEvent(profile, e) ==
    LET baseline == DecayForOutcome(profile.skills, profile.seen, e, clock)
    IN  [skills |-> [key \in Keys |->
                        IF key \notin Moved(baseline, e) /\ profile.skills[key] # None
                        THEN profile.skills[key]
                        ELSE ApplyEvent(baseline, e)[key]],
         seen |-> [key \in Keys |->
                        IF key \in Moved(baseline, e) THEN clock ELSE profile.seen[key]]]

Shown == View(skills, seen, clock)

-----------------------------------------------------------------------------
(* Planning *)

SkillFor(view, topic) ==
    IF Level(view, topic) # Prior THEN view[topic]
    ELSE IF topic \in FamilyTopics THEN Level(view, Family)
    ELSE Prior

DifficultyFor(skill) ==
    CASE skill < WeakSkill -> "easy"
      [] skill >= HardSkill -> "hard"
      [] OTHER -> "medium"

Planned(topic) == SkillFor(Shown, topic)

-----------------------------------------------------------------------------
(* What a turn reports *)

Nothing == [key \in Keys |-> None]

Difference(view, after) == [topic \in Topics |-> Level(after, topic) - Level(view, topic)]

SkillDeltas(view, e) ==
    LET topics == [view EXCEPT ![Family] = None]
    IN  Difference(topics, ApplyEvent(topics, e))

\* Mutant: a quiz is reported without the families' estimates.
QuizSkillDeltasTopicsOnly(view, first, second) ==
    LET topics == [view EXCEPT ![Family] = None]
    IN  Difference(topics, ApplyEvent(ApplyEvent(topics, first), second))

QuizSkillDeltas(view, first, second) ==
    Difference(view, ApplyEvent(ApplyEvent(view, first), second))

-----------------------------------------------------------------------------
Groups == {Family} \cup (Topics \ FamilyTopics)
Group(topic) == IF topic \in FamilyTopics THEN Family ELSE topic

ProfileInit ==
    /\ skills = Nothing
    /\ seen = Nothing
    /\ clock = 0
    /\ events = 0
    /\ before = [t \in Turns |-> None]
    /\ stale = {}
    /\ told = None
    /\ last = <<>>
    /\ lows = [g \in Groups |-> 0]

\* A read that fails leaves an empty profile, and the turn goes on.
LoadLearnerProfile(t, readable) ==
    /\ before[t] = None
    /\ events < MaxEvents
    /\ before' = [before EXCEPT ![t] = IF readable THEN Shown ELSE Nothing]
    /\ stale' = IF readable THEN stale \ {t} ELSE stale \cup {t}
    /\ told' = None
    /\ last' = <<>>
    /\ UNCHANGED <<skills, seen, clock, events, lows>>

Low(e) ==
    \/ e.solved # None /\ OutcomeScore(e) < Prior
    \/ e.source = "help_needed"
    \/ e.grade \in {"incorrect", "dont_know"}

Counted(counts, e) ==
    [g \in Groups |-> IF Low(e) /\ Group(e.topic) = g THEN Smaller(2, counts[g] + 1)
                      ELSE counts[g]]

Stored == [profile |-> [skills |-> skills, seen |-> seen], lows |-> lows, events |-> <<>>]

\* record_event, its savepoint held: the profile row is locked before it is read,
\* so an event is folded into what the one before it left.
RecordEvent(record, e) ==
    [profile |-> FoldEvent(record.profile, e),
     lows |-> Counted(record.lows, e),
     events |-> Append(record.events, e)]

Commit(t, record) ==
    /\ skills' = record.profile.skills
    /\ seen' = record.profile.seen
    /\ lows' = record.lows
    /\ last' = record.events
    /\ stale' = IF record.events = <<>> THEN stale
                ELSE stale \cup {u \in Turns \ {t} : before[u] # None}

EndTurn(t) ==
    /\ before' = [before EXCEPT ![t] = None]
    /\ UNCHANGED clock

UpdateLearnerModel(t, e, kept) ==
    /\ before[t] # None
    /\ events < MaxEvents
    /\ events' = events + 1
    /\ Commit(t, IF kept THEN RecordEvent(Stored, e) ELSE Stored)
    /\ told' = IF kept THEN SkillDeltas(before[t], e) ELSE None
    /\ EndTurn(t)

\* One event per marked answer; the report is of all of them, when any is kept.
UpdateAfterQuiz(t, first, second, kept) ==
    /\ before[t] # None
    /\ events + 2 <= MaxEvents
    /\ events' = events + 2
    /\ LET one == IF 1 \in kept THEN RecordEvent(Stored, first) ELSE Stored
       IN  Commit(t, IF 2 \in kept THEN RecordEvent(one, second) ELSE one)
    /\ told' = IF kept = {} THEN None ELSE QuizSkillDeltas(before[t], first, second)
    /\ EndTurn(t)

Tick ==
    /\ clock + Pause <= MaxClock
    /\ \A t \in Turns : before[t] = None
    /\ clock' = clock + Pause
    /\ told' = None
    /\ last' = <<>>
    /\ UNCHANGED <<skills, seen, events, before, stale, lows>>

TurnStep(t) ==
    \/ \E readable \in BOOLEAN : LoadLearnerProfile(t, readable)
    \/ \E e \in TurnEvents, kept \in BOOLEAN : UpdateLearnerModel(t, e, kept)
    \/ \E first, second \in QuizEvents, kept \in SUBSET {1, 2} :
          UpdateAfterQuiz(t, first, second, kept)

ProfileNext == Tick \/ \E t \in Turns : TurnStep(t)

ProfileSpec == ProfileInit /\ [][ProfileNext]_profileVars

-----------------------------------------------------------------------------
(* Properties *)

Hard(view, topic) == DifficultyFor(SkillFor(view, topic)) = "hard"

Scale == 0..Most

ProfileTypeOK ==
    /\ skills \in [Keys -> Scale \cup {None}]
    /\ seen \in [Keys -> 0..MaxClock \cup {None}]
    /\ clock \in 0..MaxClock
    /\ events \in 0..MaxEvents
    /\ before \in [Turns -> [Keys -> Scale \cup {None}] \cup {None}]
    /\ stale \subseteq Turns
    /\ lows \in [Groups -> 0..2]

\* What a step must show that takes a topic into the hard band: a solution, or
\* the topic's family there before it.
AHardTopicIsEarned ==
    \A topic \in Topics :
        Hard(Shown', topic) /\ ~Hard(Shown, topic) =>
            \/ \E i \in DOMAIN last' :
                 /\ last'[i].solved = TRUE
                 /\ Group(last'[i].topic) = Group(topic)
            \/ topic \in FamilyTopics /\ Level(Shown, Family) >= HardSkill

\* Only a solution that the sandbox passed takes a family, or a topic, into the
\* hard band: answers, quizzes, other turns and the passing of time do not, from
\* whatever level (CONCEPT_CEILING, SOFT_SOURCES).  A topic may still follow its
\* family there: skill_for reads an estimate that comes to rest on the prior as
\* no estimate, and plans with the family's.
HardIsEarned == [][AHardTopicIsEarned]_profileVars

\* One failed run, one wrong answer or one request for the code never labels a
\* learner weak on a topic (UNSOLVED_SCORE: "one failed run is one bug"; from the
\* prior two of them do, although HELP_ALPHA's comment says one).
EasyIsEarned ==
    \A topic \in Topics :
        DifficultyFor(Planned(topic)) = "easy" => lows[Group(topic)] >= 2

\* A report of a turn whose events were all stored, and whose view was current.
TheReportIsTrue ==
    told = None /\ told' # None /\ events' = events + Len(last') =>
        \A t \in Turns \ stale : before[t] # None /\ before'[t] = None =>
            told' = Difference(Shown, Shown')

\* What a turn reports is what its events did to the levels that are shown, when
\* all of them were stored and the profile it had read was still the profile
\* (_skill_deltas, _quiz_skill_deltas).
DeltasAreWritten == [][TheReportIsTrue]_profileVars
=============================================================================
