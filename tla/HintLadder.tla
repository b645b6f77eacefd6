------------------------------ MODULE HintLadder ------------------------------
(***************************************************************************)
(* The hint ladder of one conversation, one turn after another: what        *)
(* decide_turn, plan_teaching, dsa_agent, grade_answer, final_response and  *)
(* update_learner_model (app/graph/nodes.py) do to the help a learner has   *)
(* earned on each problem.  A turn is one step; turns that overlap are the  *)
(* subject of ConversationTurns.                                           *)
(*                                                                         *)
(* A turn keeps its effects in three stores, each written in a savepoint    *)
(* of its own: the hint_progress row, the tutoring state (pending check and *)
(* session progress), the active problem.  A savepoint may fail without     *)
(* failing the turn.                                                       *)
(***************************************************************************)
EXTENDS HintPolicy

CONSTANTS
    Problems,       \* the problems the learner brings to the conversation
    NoProblem,      \* a Python None where a problem key could be
    NoCheck,        \* no pending check
    TurnModes,      \* the teaching modes the client may choose
    TurnCaps,       \* the assistance caps it may send; Full stands for none
    TurnLearners,   \* how the planner may read the learner
    SaveFailures    \* the sets of stores whose savepoint may fail in one turn

Stores == {"hint", "tutoring", "active"}

ASSUME NoProblemIsNoProblem == NoProblem \notin Problems
ASSUME ModesAreModes == TurnModes \subseteq Modes
ASSUME CapsAreLevels == TurnCaps \subseteq Assistance
ASSUME LearnersAreLearners == TurnLearners \subseteq Learners
ASSUME FailuresAreStores == SaveFailures \subseteq SUBSET Stores

VARIABLES
    ladder,       \* the hint_progress rows
    floor,        \* session_progress.assistance_floor
    withholdKey,  \* session_progress.withhold_key
    earlier,      \* session_progress.earlier_problem
    active,       \* conversations.active_problem
    pending,      \* conversations.pending_check
    turn,         \* what the last turn was asked and what it served
    attempted,    \* problems a sandbox has run the learner's code on
    granted,      \* problems whose full level was granted outside Challenge mode
    doors         \* problems the learner asked the code of, or gave up on

vars == <<ladder, floor, withholdKey, earlier, active, pending, turn,
          attempted, granted, doors>>
progress == <<floor, withholdKey, earlier>>
history == <<attempted, granted, doors>>

\* The kinds of pending check: a bank question, the pattern-recognition
\* question that opens a problem, the request for the learner's own code.
Check == [kind : {"question", "recognition", "code"},
          problem : Problems,
          assistance : Assistance]

Outcomes == {"none", "rung", "missing", "shown"}

Turn == [kind : {"start", "dsa", "grade", "code"},
         problem : Problems \cup {NoProblem},
         mode : Modes,
         cap : Assistance,
         asked : BOOLEAN,
         withheld : BOOLEAN,
         outcome : Outcomes,
         level : HintLevel \cup {Unset},
         ceiling : HintLevel \cup {Unset},
         reveals : BOOLEAN]

\* No rung was served: the route was another, or dsa_agent failed and
\* safe_node answered in its place.
NoRung == [outcome |-> "none", level |-> Unset, ceiling |-> Unset,
           reveals |-> FALSE]

Served(kind, p, mode, cap, asked, withheld, rung) ==
    [kind |-> kind, problem |-> p, mode |-> mode, cap |-> cap,
     asked |-> asked, withheld |-> withheld, outcome |-> rung.outcome,
     level |-> rung.level, ceiling |-> rung.ceiling, reveals |-> rung.reveals]

Init ==
    /\ ladder = [p \in Problems |-> NoRow]
    /\ floor = [p \in Problems |-> Unset]
    /\ withholdKey = NoProblem
    /\ earlier = NoProblem
    /\ active = NoProblem
    /\ pending = NoCheck
    /\ turn = Served("start", NoProblem, "balanced", Full, FALSE, FALSE, NoRung)
    /\ attempted = {}
    /\ granted = {}
    /\ doors = {}

-----------------------------------------------------------------------------
(* The decision about the message *)

\* resolve_problem_relation, with "go back to the earlier one".
Relation(p, switched) ==
    IF switched THEN "followup" ELSE IF p = active THEN "same" ELSE "new"

\* The learner said earlier "don't give me the answer" to this subject.
HeldBack(p, relation) == withholdKey = p /\ relation # "new"

\* Whether the answer is held back this turn, over the messages that decline it
\* and those that do not; an ask for the code lifts the hold.  (While it is held
\* back only a listed phrase counts as an ask, not a model's reading of one.)
Withhold(asked, p, relation) ==
    {~asked /\ (declines \/ HeldBack(p, relation)) : declines \in BOOLEAN}

\* _log_evidence: the hold lasts while the conversation stays on its subject
\* and ends with an ask for the code.
NextWithholdKey(withheld, asked, p) ==
    IF withheld \/ (withholdKey = p /\ ~asked) THEN p ELSE NoProblem

-----------------------------------------------------------------------------
(* The three stores *)

SaveLadder(lost, p, row) ==
    ladder' = IF "hint" \in lost THEN ladder ELSE [ladder EXCEPT ![p] = row]

SaveActive(lost, p) ==
    active' = IF "active" \in lost THEN active ELSE p

\* A new subject remembers the one it replaces; going back swaps the two.
SaveTutoring(lost, p, withheld, asked, nextFloor, nextPending) ==
    IF "tutoring" \in lost
    THEN UNCHANGED <<progress, pending>>
    ELSE /\ floor' = nextFloor
         /\ withholdKey' = NextWithholdKey(withheld, asked, p)
         /\ earlier' = IF active \in {p, NoProblem} THEN earlier ELSE active
         /\ pending' = nextPending

-----------------------------------------------------------------------------
(* Turns *)

\* The question a turn that does not grade may end with; a request for code
\* that is still open is carried when nothing else is asked.
NextQuestions(p, relation, assistance, reveals) ==
    (IF relation # "new" /\ pending # NoCheck /\ pending.kind = "code"
     THEN {pending} ELSE {NoCheck})
    \cup
    (IF reveals THEN {}
     ELSE {[kind |-> kind, problem |-> p, assistance |-> assistance] :
             kind \in {"question"} \cup
                      (IF relation = "new" THEN {"recognition"} ELSE {})})

\* What a node reads of the ladder of p: a read that fails in its savepoint is
\* answered by a fresh HintProgress.
ResolveHintProgress(p) == {ladder[p], NoRow}

\* The plans a message may get, over the readings of it and of the learner.
Plans(p, intents, asked, withheld, mode, cap) ==
    {PlanTeaching(BuildPlan(intent, learner, mode, asked, row),
                  floor[p], cap, withheld) :
       intent \in intents, learner \in TurnLearners, row \in ResolveHintProgress(p)}

\* What dsa_agent may make of a plan: it finds a solution, it finds none, or it
\* fails as a whole and safe_node answers without it.
DsaAgent(plan, row) ==
    {RunDsa(plan, row, found) : found \in BOOLEAN} \cup {NoRung}

SaveRung(lost, p, read, plan, rung, ran) ==
    IF rung = NoRung
    THEN UNCHANGED ladder
    ELSE SaveLadder(lost, p, SaveHintProgress(ladder[p], read, plan, rung, ran))

\* The history of a message about p: the code asked of it, in which mode, and
\* the attempt that came with it and ran.
RecordTurn(p, asked, ran, mode) ==
    /\ attempted' = IF ran THEN attempted \cup {p} ELSE attempted
    /\ doors' = IF asked THEN doors \cup {p} ELSE doors
    /\ granted' = IF asked /\ mode # "challenge" THEN granted \cup {p} ELSE granted

\* A message about problem p on the DSA route: an ask for help or for the
\* code, perhaps with an attempt that a sandbox runs.
DsaTurn(p, switched) ==
    /\ switched => p = earlier
    /\ \E asked, ran \in BOOLEAN, mode \in TurnModes, cap \in TurnCaps,
         lost \in SaveFailures :
         LET relation == Relation(p, switched)
             \* An unsure reading reaches this route only as a follow-up.
             intents  == IF asked \/ relation = "new" THEN {"hint", "solve"}
                                                     ELSE Intents
         IN  /\ \E withheld \in Withhold(asked, p, relation),
                  read \in ResolveHintProgress(p) :
                \E plan \in Plans(p, intents, asked, withheld, mode, cap) :
                \E rung \in DsaAgent(plan, read) :
                \E question \in NextQuestions(p, relation, plan.assistance,
                                              rung.outcome = "shown") :
                  /\ rung = NoRung => ~ran
                  /\ SaveRung(lost, p, read, plan, rung, ran)
                  /\ SaveTutoring(lost, p, withheld, asked, floor, question)
                  /\ turn' = Served("dsa", p, mode, cap, asked, withheld, rung)
             /\ SaveActive(lost, p)
             /\ RecordTurn(p, asked, ran, mode)

\* The learner's code for the active problem, on the debug or review route: a
\* sandbox verdict is recorded as a demonstrated attempt.  The ask, if any, is
\* for the fix.
CodeTurn ==
    /\ active # NoProblem
    /\ \E asked, ran \in BOOLEAN, mode \in TurnModes, cap \in TurnCaps,
         default \in {Hint, Concept}, lost \in SaveFailures :
         LET p     == active
             built == BuildDebugPlan(default, mode, asked)
         IN  /\ IF ran
                THEN SaveLadder(lost, p, RecordVerifiedAttempt(ladder[p]))
                ELSE UNCHANGED ladder
             /\ \E withheld \in Withhold(asked, p, "same") :
                LET plan == PlanTeaching(built, floor[p], cap, withheld) IN
                \E question \in {NoCheck,
                                 [kind |-> "question", problem |-> p,
                                  assistance |-> plan.assistance]} :
                  /\ SaveTutoring(lost, p, withheld, asked, floor, question)
                  /\ turn' = Served("code", p, mode, cap, asked, withheld, NoRung)
             /\ RecordTurn(p, asked, ran, mode)
             /\ UNCHANGED active

\* What a grade leads to: on to the next link of the chain (correct); the answer
\* told, and on (a repeated miss, or a wrong technique named); the question again
\* (partial, incorrect); more help ("I don't know").  A request for code is
\* graded only for an "I don't know".
Reactions(kind) == IF kind = "code" THEN {"gives_up"}
                   ELSE {"advance", "taught", "again", "gives_up"}

\* The check left pending when the reply is not handed to dsa_agent.
NextChecks(reaction, after) ==
    {NoCheck,
     [pending EXCEPT !.kind = "question", !.assistance = after],
     IF reaction \in {"advance", "taught"}
     THEN [pending EXCEPT !.kind = "code", !.assistance = after]
     ELSE [pending EXCEPT !.assistance = after]}

\* A reply to the pending check while a problem is active.  The plan made for
\* the message gives way to the level the grade leads to; a reply given up on,
\* or one that calls for another representation, is handed to dsa_agent.
GradeTurn ==
    /\ pending # NoCheck
    /\ active # NoProblem
    /\ \E reaction \in Reactions(pending.kind), redrawn \in BOOLEAN,
         mode \in TurnModes, cap \in TurnCaps, lost \in SaveFailures :
         LET p       == active
             givesUp == reaction = "gives_up"
             after   == AssistanceAfter(pending.kind, pending.assistance, givesUp,
                                        mode, cap)
             handoff == \/ redrawn
                        \/ givesUp /\ pending.kind \in {"code", "recognition"}
             checks  == IF handoff THEN {NoCheck} ELSE NextChecks(reaction, after)
             raised  == IF reaction \in {"gives_up", "taught"}
                        THEN [floor EXCEPT ![pending.problem] = after]
                        ELSE floor
         IN  /\ \E withheld \in Withhold(FALSE, p, "followup"),
                  read \in ResolveHintProgress(p) :
                \E plan \in {[planned EXCEPT !.assistance = after] : planned \in
                              Plans(p, Intents, FALSE, withheld, mode, cap)} :
                \E rung \in IF handoff THEN DsaAgent(plan, read) ELSE {NoRung},
                  check \in checks :
                  /\ SaveRung(lost, p, read, plan, rung, FALSE)
                  /\ SaveTutoring(lost, p, withheld, FALSE, raised, check)
                  /\ turn' = Served("grade", p, mode, cap, FALSE, withheld, rung)
             /\ doors' = IF givesUp THEN doors \cup {p, pending.problem} ELSE doors
             /\ granted' = IF givesUp /\ pending.kind = "code" /\ mode = "guidance"
                           THEN granted \cup {pending.problem}
                           ELSE granted
             /\ UNCHANGED <<active, attempted>>

Next ==
    \/ \E p \in Problems, switched \in BOOLEAN : DsaTurn(p, switched)
    \/ CodeTurn
    \/ GradeTurn

Spec == Init /\ [][Next]_vars

-----------------------------------------------------------------------------
(* Properties *)

TypeOK ==
    /\ ladder \in [Problems -> Row]
    /\ floor \in [Problems -> Assistance \cup {Unset}]
    /\ withholdKey \in Problems \cup {NoProblem}
    /\ earlier \in Problems \cup {NoProblem}
    /\ active \in Problems \cup {NoProblem}
    /\ pending \in Check \cup {NoCheck}
    /\ turn \in Turn
    /\ attempted \subseteq Problems
    /\ granted \subseteq Problems
    /\ doors \subseteq Problems

\* No code without a door: the solution of a problem is shown only if the
\* learner has asked for the code, or said "I don't know", on that problem or
\* on the problem of the check this turn grades.
DoorSubjects == {turn'.problem} \cup
                (IF turn'.kind = "grade" THEN {pending.problem} ELSE {})

OpenedByADoor ==
    turn'.outcome = "shown" =>
       DoorSubjects \cap doors' # {}

RevealHasADoor == [][OpenedByADoor]_vars

\* The code is not given away in Challenge mode, on any kind of turn, unless an
\* EARLIER turn earned it on that problem (or on the problem of the check this
\* turn grades): a sandbox ran an attempt of the learner's, or the full level was
\* granted in another mode, where asking for the code, or giving up on writing it,
\* is enough.  A level stored there outlives the mode it was granted in.
EarnedReveal ==
    turn'.outcome = "shown" /\ turn'.mode = "challenge"
       => DoorSubjects \cap (attempted \cup granted) # {}

ChallengeEarned == [][EarnedReveal]_vars

\* "An explicit ask for the code is never refused outside Challenge mode": an
\* uncapped ask ends in the code, in an apology for having none, or in the
\* fallback of a failed agent, never in one more rung.
AnsweredAsk ==
    turn'.kind = "dsa" /\ turn'.asked /\ turn'.mode # "challenge"
       /\ turn'.cap = Full => turn'.outcome # "rung"

AskAnswered == [][AnsweredAsk]_vars

\* What the learner sees of a rung agrees with itself, although model_copy
\* skips the validators of HintResult: "hint k of N" has k <= N, and code is
\* marked as revealed only from L5.
WellFormedResult ==
    turn'.outcome # "none" =>
       /\ turn'.level <= turn'.ceiling
       /\ turn'.reveals => turn'.level >= 5
       /\ turn'.outcome = "shown" => turn'.reveals /\ turn'.level = FullReveal

ResultWellFormed == [][WellFormedResult]_vars

\* The evidence of effort is the learner's own: it is stored only for a problem
\* on which a sandbox ran code the learner had sent.
AttemptHonest == \A p \in Problems : ladder[p].verified => p \in attempted

\* The planner's limits hold on the DSA route: neither a client cap below full
\* nor the learner's own "don't give me the code yet" lets code through.
WithinTheLimits ==
    turn'.kind = "dsa" /\ (turn'.withheld \/ turn'.cap < Full)
       => turn'.outcome # "shown"

PlannerHonoursLearner == [][WithinTheLimits]_vars

\* The inductive invariant behind them: help stored at the full level, as a
\* floor or in a pending check, is on a problem that has a door.
FloorHasADoor == \A p \in Problems : floor[p] = Full => p \in doors

CheckHasADoor ==
    pending # NoCheck /\ pending.assistance = Full => pending.problem \in doors

\* ... and one that was earned: by an attempt, or by a grant outside Challenge.
Earned == attempted \cup granted

FloorIsEarned == \A p \in Problems : floor[p] = Full => p \in Earned

CheckIsEarned ==
    pending # NoCheck /\ pending.assistance = Full => pending.problem \in Earned

LadderInv ==
    /\ TypeOK /\ AttemptHonest
    /\ FloorHasADoor /\ CheckHasADoor
    /\ FloorIsEarned /\ CheckIsEarned
=============================================================================
