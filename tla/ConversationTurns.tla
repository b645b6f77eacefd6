-------------------------- MODULE ConversationTurns --------------------------
(***************************************************************************)
(* Turns of one learner that overlap on one conversation and one problem,   *)
(* and requests that rename or delete the conversation meanwhile.           *)
(*                                                                         *)
(* A turn (app/graph/api.py: chat) is one database transaction at READ      *)
(* COMMITTED: it reads before the model is called, writes after, holds the  *)
(* row locks its writes took until its single commit, and does each write   *)
(* in a savepoint whose failure costs the turn that write only.  What the   *)
(* database does (row locks, waits, deadlock detection) is modelled from    *)
(* the statements app/memory issues.                                        *)
(***************************************************************************)
EXTENDS Integers, Sequences, FiniteSets

CONSTANTS
    Turns,      \* the requests that run a turn
    Editors,    \* the requests that rename or delete the conversation
    None,       \* nothing written, nothing wanted
    TopLevel,   \* bound: the highest hint level a turn stores
    Ceilings,   \* the ladder ceilings a turn may be the first to store
    MaxMarks    \* bound: the quiz answers a turn marks, each an event

Procs == Turns \cup Editors

ASSUME TurnsAreNotEditors == Turns \cap Editors = {} /\ None \notin Procs
ASSUME TopLevelIsALevel == TopLevel \in Nat
ASSUME CeilingsAreLevels == Ceilings \subseteq Nat
ASSUME MaxMarksIsSome == MaxMarks \in Nat \ {0}

VARIABLES
    exists,     \* the conversations row
    messages,   \* the messages rows of the conversation
    tutoring,   \* the turns that last stored the active problem and the progress
    ladder,     \* the hint_progress row of the problem
    events,     \* the learning_events rows of the learner
    profile,    \* the events folded into learner_profile, in the order folded
    counter,    \* the identity sequence behind learning_events.seq
    pc,         \* where each request is
    held,       \* the row locks each transaction holds
    read,       \* the hint_progress row each turn's agent has read
    draft       \* what each transaction has written and not committed

committed == <<exists, messages, tutoring, ladder, events, profile>>
vars == <<committed, counter, pc, held, read, draft>>

Unset == -1

NoRow == [level |-> Unset, verified |-> FALSE, ceiling |-> Unset]

\* A hint_progress row, or none.
Row == {NoRow} \cup [level : 0 .. TopLevel,
                     verified : BOOLEAN,
                     ceiling : {Unset} \cup Ceilings]

\* row: the upserted ladder row (NoRow deletes it); base: the highest seq found
\* when the two messages were inserted; recorded and folded: the events inserted
\* and the profile they were folded into; left: the events still to record;
\* state: what was stored of the tutoring state; gone: the conversation is deleted.
NoDraft == [row |-> None, base |-> None, recorded |-> {}, folded |-> None, left |-> 1,
            state |-> {}, gone |-> FALSE]

Init ==
    /\ exists = TRUE
    /\ messages = {}
    /\ tutoring = [problem |-> None, progress |-> None]
    /\ ladder = NoRow
    /\ events = {}
    /\ profile = <<>>
    /\ counter = 1
    /\ pc = [p \in Procs |-> "start"]
    /\ held = [p \in Procs |-> {}]
    /\ read = [t \in Turns |-> NoRow]
    /\ draft = [p \in Procs |-> NoDraft]

-----------------------------------------------------------------------------
(* Row locks *)

\* FOR UPDATE, a plain UPDATE (FOR NO KEY UPDATE) and a foreign-key check (FOR
\* KEY SHARE) of the conversations row; the hint_progress row of an upsert; the
\* learner_profile row FOR UPDATE.
Locks == {"update", "write", "key", "hint", "profile"}

ASSUME NoneIsNoValue == None \notin Nat /\ None \notin Seq(Turns) /\ None \notin Locks

Conflicts == {{"update"}, {"update", "write"}, {"update", "key"}, {"write"},
              {"hint"}, {"profile"}}

\* Mutant: the profile is read without FOR UPDATE.
WantsNoProfile(p) ==
    CASE pc[p] \in {"rung", "attempt"} -> "hint"
      [] pc[p] = "insert" -> "key"
      [] pc[p] = "turns"  -> "update"
      [] pc[p] \in {"problem", "state"} -> "write"
      [] pc[p] = "delete" -> IF ladder = NoRow THEN None ELSE "hint"
      [] pc[p] = "start" /\ p \in Editors -> "update"
      [] OTHER -> None

\* Mutant: the messages are numbered without locking the conversation.
WantsNoConversation(p) ==
    CASE pc[p] \in {"rung", "attempt"} -> "hint"
      [] pc[p] = "event"  -> "profile"
      [] pc[p] = "insert" -> "key"
      [] pc[p] \in {"problem", "state"} -> "write"
      [] pc[p] = "delete" -> IF ladder = NoRow THEN None ELSE "hint"
      [] pc[p] = "start" /\ p \in Editors -> "update"
      [] OTHER -> None

\* The lock the next step of p takes.  A DELETE sees only committed ladder rows.
Wants(p) ==
    CASE pc[p] \in {"rung", "attempt"} -> "hint"
      [] pc[p] = "event"  -> "profile"
      [] pc[p] = "insert" -> "key"
      [] pc[p] = "turns"  -> "update"
      [] pc[p] \in {"problem", "state"} -> "write"
      [] pc[p] = "delete" -> IF ladder = NoRow THEN None ELSE "hint"
      [] pc[p] = "start" /\ p \in Editors -> "update"
      [] OTHER -> None

Waits(p, q) ==
    /\ p # q
    /\ \E lock \in held[q] : {Wants(p), lock} \in Conflicts

Blocked(p) == \E q \in Procs : Waits(p, q)

Take(p) ==
    /\ ~Blocked(p)
    /\ held' = [held EXCEPT ![p] = IF Wants(p) = None THEN @ ELSE @ \cup {Wants(p)}]

\* The database breaks a cycle of waits by failing one statement in it.
Deadlocked(p) ==
    \E q, r \in Procs :
       /\ Waits(p, q)
       /\ Waits(q, p) \/ (Waits(q, r) /\ Waits(r, p))

Goto(p, label) == pc' = [pc EXCEPT ![p] = label]
Write(p, changes) == draft' = [draft EXCEPT ![p] = changes]

-----------------------------------------------------------------------------
(* A turn *)

\* _ensure_conversation: a conversation that is not there is a 404.
Begin(t) ==
    /\ pc[t] = "start"
    /\ Goto(t, IF exists THEN "agent" ELSE "rejected")
    /\ UNCHANGED <<committed, counter, held, read, draft>>

\* The last steps every turn takes: with a topic it records a learning event.
AfterTheAgent == {"event", "turns"}

\* The agent reads the ladder row and works on: dsa_agent until its rung is
\* made, the debug and review agents until they record a demonstrated attempt.
\* Other agents leave the ladder alone; the one that marks a quiz records an event
\* for each answer.
RunAgent(t) ==
    /\ pc[t] = "agent"
    /\ \/ /\ read' = [read EXCEPT ![t] = ladder]
          /\ \E label \in {"rung"} \cup
                          (IF ladder.verified THEN {} ELSE {"attempt"}) :
                Goto(t, label)
          /\ UNCHANGED draft
       \/ Goto(t, "turns") /\ UNCHANGED <<read, draft>>
       \/ /\ Goto(t, "event")
          /\ \E marks \in 1 .. MaxMarks : Write(t, [draft[t] EXCEPT !.left = marks])
          /\ UNCHANGED read
    /\ UNCHANGED <<committed, counter, held>>

\* save_hint_progress: every column as passed, the ceiling only the first time.
Upsert(level, verified, ceiling) ==
    [level |-> level, verified |-> verified,
     ceiling |-> IF ladder.ceiling # Unset THEN ladder.ceiling ELSE ceiling]

Lower(a, b) == IF a <= b THEN a ELSE b
Higher(a, b) == IF a >= b THEN a ELSE b

\* The upsert of dsa_agent, from the row it read: the next rung, and an attempt
\* if a sandbox ran the learner's code this turn.  A capped turn stores no
\* ceiling.
SaveRung(t) ==
    /\ pc[t] = "rung"
    /\ Take(t)
    /\ \E ran \in BOOLEAN, ceiling \in Ceilings \cup {Unset} :
         Write(t, [draft[t] EXCEPT !.row =
                     Upsert(Lower(read[t].level + 1, TopLevel),
                            read[t].verified \/ ran, ceiling)])
    /\ \E label \in AfterTheAgent : Goto(t, label)
    /\ UNCHANGED <<committed, counter, read>>

\* The upsert of _record_verified_attempt.
SaveAttempt(t) ==
    /\ pc[t] = "attempt"
    /\ Take(t)
    /\ Write(t, [draft[t] EXCEPT !.row = Upsert(Higher(read[t].level, 0), TRUE, Unset)])
    /\ \E label \in AfterTheAgent : Goto(t, label)
    /\ UNCHANGED <<committed, counter, read>>

\* The next answer of the quiz, or the messages.
AfterAnEvent(t) == IF draft[t].left > 1 THEN "event" ELSE "turns"

\* record_event, first half: the conversation is there, and the profile is
\* locked before the event is inserted.
LockProfile(t) ==
    /\ pc[t] = "event"
    /\ exists
    /\ Take(t)
    /\ Write(t, [draft[t] EXCEPT !.folded = IF @ = None THEN profile ELSE @])
    /\ Goto(t, "insert")
    /\ UNCHANGED <<committed, counter, read>>

\* record_event, second half: the insert draws the event's seq, and the event
\* is folded into the profile as it was when it was locked.
InsertEvent(t) ==
    /\ pc[t] = "insert"
    /\ exists
    /\ Take(t)
    /\ Write(t, [draft[t] EXCEPT !.recorded = @ \cup {[seq |-> counter, turn |-> t]},
                                 !.folded = Append(@, t), !.left = @ - 1])
    /\ counter' = counter + 1
    /\ Goto(t, AfterAnEvent(t))
    /\ UNCHANGED <<committed, read>>

\* A turn that sets no problem writes none.
AfterTheMessages == {"problem", "state"}

LastSeq == Cardinality(messages)

\* _persist_turns: both messages under the lock of the conversation, numbered
\* on from the highest seq.
AddTurns(t) ==
    /\ pc[t] = "turns"
    /\ exists
    /\ Take(t)
    /\ Write(t, [draft[t] EXCEPT !.base = LastSeq])
    /\ \E label \in AfterTheMessages : Goto(t, label)
    /\ UNCHANGED <<committed, counter, read>>

\* _persist_active_problem, in a savepoint of its own.
SaveProblem(t) ==
    /\ pc[t] = "problem"
    /\ exists
    /\ Take(t)
    /\ Write(t, [draft[t] EXCEPT !.state = @ \cup {"problem"}])
    /\ Goto(t, "state")
    /\ UNCHANGED <<committed, counter, read>>

\* _persist_tutoring_state: the pending check and the progress.
SaveState(t) ==
    /\ pc[t] = "state"
    /\ exists
    /\ Take(t)
    /\ Write(t, [draft[t] EXCEPT !.state = @ \cup {"progress"}])
    /\ Goto(t, "commit")
    /\ UNCHANGED <<committed, counter, read>>

\* The steps that write in a savepoint of their own, and those after each.
AfterTheStore(t) ==
    CASE pc[t] \in {"rung", "attempt"} -> AfterTheAgent
      [] pc[t] \in {"event", "insert"} -> {AfterAnEvent(t)}
      [] pc[t] = "turns"               -> AfterTheMessages
      [] pc[t] = "problem"             -> {"state"}
      [] OTHER                         -> {"commit"}

\* What is left of the profile's fold when the savepoint of an event fails.
FoldedBefore(t) == IF draft[t].recorded = {} THEN None ELSE draft[t].folded

\* A savepoint fails: on a conversation that is gone, as the victim of a
\* deadlock, or on any other database error.  What it wrote and the locks it
\* took go; the turn goes on to its next store.
LoseStore(t) ==
    /\ pc[t] \in {"rung", "attempt", "event", "insert", "turns", "problem", "state"}
    /\ held' = [held EXCEPT ![t] =
                   IF pc[t] = "insert" /\ FoldedBefore(t) = None THEN @ \ {"profile"} ELSE @]
    /\ Write(t, CASE pc[t] = "insert" ->
                        [draft[t] EXCEPT !.folded = FoldedBefore(t), !.left = @ - 1]
                  [] pc[t] = "event" -> [draft[t] EXCEPT !.left = @ - 1]
                  [] OTHER -> draft[t])
    /\ \E label \in AfterTheStore(t) : Goto(t, label)
    /\ UNCHANGED <<committed, counter, read>>

\* The turn's statement that cannot go on: the conversation is gone, or the
\* database names it the victim of a deadlock.
CannotGoOn(t) ==
    \/ Deadlocked(t)
    \/ pc[t] \in {"event", "insert", "turns", "problem", "state"} /\ ~exists

NewMessages(t) ==
    {[seq |-> draft[t].base + 1, turn |-> t, role |-> "user"],
     [seq |-> draft[t].base + 2, turn |-> t, role |-> "assistant"]}

\* Mutant: a failed request keeps its transaction open.
KeepLocks(p) == UNCHANGED held

\* The end of a transaction, committed or rolled back.
Release(p) == held' = [held EXCEPT ![p] = {}]

\* The single commit of the turn.
Commit(t) ==
    /\ pc[t] = "commit"
    /\ ladder' = IF draft[t].row = None THEN ladder ELSE draft[t].row
    /\ messages' = IF draft[t].base = None THEN messages
                   ELSE messages \cup NewMessages(t)
    /\ tutoring' = [part \in DOMAIN tutoring |->
                       IF part \in draft[t].state THEN t ELSE tutoring[part]]
    /\ events' = events \cup draft[t].recorded
    /\ profile' = IF draft[t].folded = None THEN profile ELSE draft[t].folded
    /\ Write(t, NoDraft)
    /\ Release(t)
    /\ Goto(t, "done")
    /\ UNCHANGED <<exists, counter, read>>

\* The client goes away, or the process dies, before the commit: get_session
\* and the stream's own session roll everything back.
Abort(p) ==
    /\ pc[p] \notin {"start", "done", "rejected", "aborted"}
    /\ Write(p, NoDraft)
    /\ Release(p)
    /\ Goto(p, "aborted")
    /\ UNCHANGED <<committed, counter, read>>

-----------------------------------------------------------------------------
(* Renaming and deleting the conversation *)

\* Both requests lock the row first; a row that is gone is a 404.
LockConversation(e) ==
    /\ pc[e] = "start"
    /\ IF exists
       THEN /\ Take(e)
            /\ \E label \in {"rename", "delete"} : Goto(e, label)
       ELSE /\ Goto(e, "rejected")
            /\ UNCHANGED held
    /\ UNCHANGED <<committed, counter, read, draft>>

\* delete_conversation: the ladder rows it can see, then the conversation.
DeleteLadder(e) ==
    /\ pc[e] = "delete"
    /\ Take(e)
    /\ Write(e, [draft[e] EXCEPT !.row = IF ladder = NoRow THEN None ELSE NoRow,
                                 !.gone = TRUE])
    /\ Goto(e, "commit")
    /\ UNCHANGED <<committed, counter, read>>

\* The commit.  The messages go with the conversation (ON DELETE CASCADE), the
\* learner's events stay.
CommitEdit(e) ==
    /\ pc[e] \in {"rename", "commit"}
    /\ ladder' = IF draft[e].row = None THEN ladder ELSE draft[e].row
    /\ exists' = (exists /\ ~draft[e].gone)
    /\ messages' = IF draft[e].gone THEN {} ELSE messages
    /\ tutoring' = IF draft[e].gone THEN [problem |-> None, progress |-> None] ELSE tutoring
    /\ Write(e, NoDraft)
    /\ Release(e)
    /\ Goto(e, "done")
    /\ UNCHANGED <<events, profile, counter, read>>

\* An editor named the victim of a deadlock fails as a whole.
Victim(e) == Deadlocked(e) /\ Abort(e)

-----------------------------------------------------------------------------

\* What a turn does when nothing goes wrong.
Progress(t) ==
    \/ Begin(t) \/ RunAgent(t) \/ SaveRung(t) \/ SaveAttempt(t)
    \/ LockProfile(t) \/ InsertEvent(t) \/ AddTurns(t) \/ SaveProblem(t)
    \/ SaveState(t) \/ Commit(t)

Edit(e) == LockConversation(e) \/ DeleteLadder(e) \/ CommitEdit(e)

Finished == \A p \in Procs : pc[p] \in {"done", "rejected", "aborted"}

Next ==
    \/ \E t \in Turns : Progress(t) \/ LoseStore(t)
    \/ \E e \in Editors : Edit(e)
    \/ \E p \in Procs : Abort(p)
    \/ Finished /\ UNCHANGED vars

\* Every call a turn makes is bounded in time (model and sandbox calls by
\* timeouts), and the database serves, refuses or breaks every wait.
Fairness ==
    /\ \A t \in Turns : /\ WF_vars(Progress(t))
                        /\ WF_vars(CannotGoOn(t) /\ LoseStore(t))
    /\ \A e \in Editors : WF_vars(Edit(e)) /\ WF_vars(Victim(e))

Spec == Init /\ [][Next]_vars /\ Fairness

-----------------------------------------------------------------------------
(* Properties *)

Message == [seq : Nat, turn : Turns, role : {"user", "assistant"}]

Event == [seq : Nat, turn : Turns]

Parts == {"problem", "progress"}

Draft == [row : {None} \cup Row, base : {None} \cup Nat, recorded : SUBSET Event,
          folded : {None} \cup Seq(Turns), left : Int, state : SUBSET Parts, gone : BOOLEAN]

Labels == {"start", "agent", "rung", "attempt", "event", "insert", "turns", "problem", "state",
           "commit", "rename", "delete", "done", "rejected", "aborted"}

TypeOK ==
    /\ exists \in BOOLEAN
    /\ messages \subseteq Message
    /\ tutoring \in [Parts -> Turns \cup {None}]
    /\ ladder \in Row
    /\ events \subseteq Event
    /\ profile \in Seq(Turns)
    /\ counter \in Nat
    /\ pc \in [Procs -> Labels]
    /\ held \in [Procs -> SUBSET Locks]
    /\ read \in [Turns -> Row]
    /\ draft \in [Procs -> Draft]

\* How many rows a listing by seq has up to this one.
Rank(m, stored) == Cardinality({o \in stored : o.seq <= m.seq})

\* A fold that has taken each of these events once, in the order of their numbers.
Follows(fold, stored) ==
    /\ Len(fold) = Cardinality(stored)
    /\ \A n \in DOMAIN fold :
         \E e \in stored : e.turn = fold[n] /\ Rank(e, stored) = n

\* "The order in which concurrent events are folded into the profile must match
\* their seq order": the n-th event folded is the n-th by seq, and none is
\* folded twice or left out.
ProfileFollowsEvents == Follows(profile, events)

\* The messages in the order list_messages returns them; messages that share a
\* number have no order.
LogOf(stored) ==
    [n \in 1 .. Cardinality(stored) |->
        IF \E m \in stored : Rank(m, stored) = n
        THEN LET m == CHOOSE m \in stored : Rank(m, stored) = n
             IN  [turn |-> m.turn, role |-> m.role]
        ELSE [turn |-> None, role |-> None]]

Log == INSTANCE TurnLog WITH open <- exists, log <- LogOf(messages)

\* The transactions, locks, retries and failures above show a reader nothing but
\* whole turns entering a log one after another.
IsATurnLog == Log!Spec

\* Turns and edits lock in opposite orders, and still every request ends.
EveryRequestEnds == <>[]Finished
=============================================================================
