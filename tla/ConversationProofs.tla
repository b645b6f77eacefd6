-------------------------- MODULE ConversationProofs --------------------------
(***************************************************************************)
(* Theorems about what a conversation keeps from turn to turn.              *)
(*                                                                         *)
(* ConversationTurns: the profile is the learner's events in the order of   *)
(* their numbers, and a reader sees a log of whole turns, however many      *)
(* turns and edits overlap.                                                 *)
(*                                                                         *)
(* TutoringSession: no second answer loops on its question, a harder problem*)
(* was earned, what a reply claims was shown is so, and no reply to a       *)
(* question gets more than it has earned.                                   *)
(***************************************************************************)
EXTENDS ConversationTurns, TutoringSession, FiniteSetTheorems, FunctionTheorems, SequenceTheorems, TLAPS

\* One transaction at a time holds the lock.
Exclusive(lock) == \A p, q \in Procs : lock \in held[p] /\ lock \in held[q] => p = q

\* Numbers are drawn upwards, whatever becomes of the event.
EventsAreNumbered == IsFiniteSet(events) /\ \A e \in events : e.seq < counter

\* What a turn has folded is the stored events in order and its own last, and it
\* holds the profile until it commits.
FoldsTheProfile(t) ==
    /\ pc[t] \in {"start", "agent", "rung", "attempt"} => draft[t].folded = None
    /\ pc[t] = "insert" => draft[t].folded # None
    /\ draft[t].folded = None => draft[t].recorded = {}
    /\ draft[t].folded # None =>
          /\ "profile" \in held[t]
          /\ Follows(draft[t].folded, events \cup draft[t].recorded)
    /\ IsFiniteSet(draft[t].recorded)
    /\ \A e \in draft[t].recorded :
          e.seq < counter /\ \A stored \in events : stored.seq < e.seq

\* The messages are numbered from 1 without gaps.
Numbered(stored) ==
    /\ IsFiniteSet(stored)
    /\ \A m \in stored : m.seq \in 1 .. Cardinality(stored)
    /\ \A n \in 1 .. Cardinality(stored) : \E m \in stored : m.seq = n
    /\ \A m, o \in stored : m.seq = o.seq => m = o

\* A turn that has numbered its messages holds the conversation until it commits,
\* and numbered them after the last one.
NumbersOn(t) ==
    draft[t].base # None =>
        "update" \in held[t] /\ draft[t].base = Cardinality(messages) /\ exists

\* An edit holds the conversation from its first statement on.
HoldsTheConversation(e) ==
    /\ pc[e] \in {"rename", "delete", "commit"} => "update" \in held[e] /\ exists
    /\ draft[e].gone => pc[e] = "commit"

ConversationInv ==
    /\ TypeOK
    /\ Exclusive("profile") /\ Exclusive("update")
    /\ EventsAreNumbered
    /\ \A t \in Turns : FoldsTheProfile(t)
    /\ ProfileFollowsEvents
    /\ Numbered(messages)
    /\ \A m \in messages : pc[m.turn] = "done"
    /\ \A t \in Turns : NumbersOn(t)
    /\ \A e \in Editors : HoldsTheConversation(e)

-----------------------------------------------------------------------------
(* What one step does *)

\* The parts of the model's actions that the lemmas below speak of.
LEMMA TakeIsTyped ==
    ASSUME TypeOK, NEW p \in Procs, Take(p)
    PROVE  /\ held' \in [Procs -> SUBSET Locks]
           /\ \A q \in Procs : q # p => held'[q] = held[q]
           /\ \A lock \in held[p] : lock \in held'[p]
           /\ Wants(p) # None => Wants(p) \in held'[p]
<1>1. Wants(p) \in Locks \cup {None}
      BY DEF Wants, Locks
<1>2. held \in [Procs -> SUBSET Locks]
      BY DEF TypeOK
<1> QED BY <1>1, <1>2 DEF Take

LEMMA TakeIsExclusive ==
    ASSUME TypeOK, NEW p \in Procs, Take(p), NEW lock, {lock} \in Conflicts, Exclusive(lock)
    PROVE  Exclusive(lock)'
<1> SUFFICES ASSUME NEW a \in Procs, NEW b \in Procs, lock \in held'[a], lock \in held'[b]
             PROVE  a = b
    BY DEF Exclusive
<1>1. held \in [Procs -> SUBSET Locks]
      BY DEF TypeOK
<1>2. \A q \in Procs : q # p => held'[q] = held[q]
      BY TakeIsTyped
<1>3. \A q \in Procs : lock \in held[q] /\ lock \notin held[p] => q = p \/ Wants(p) # lock
      BY DEF Take, Blocked, Waits
<1>4. lock \in held'[p] /\ lock \notin held[p] => Wants(p) = lock
      BY <1>1 DEF Take
<1> QED BY <1>2, <1>3, <1>4 DEF Exclusive

LEMMA ReleaseIsExclusive ==
    ASSUME TypeOK, NEW p \in Procs, Release(p), NEW lock, Exclusive(lock)
    PROVE  /\ Exclusive(lock)'
           /\ held' \in [Procs -> SUBSET Locks]
           /\ \A q \in Procs : q # p => held'[q] = held[q]
<1>1. held \in [Procs -> SUBSET Locks]
      BY DEF TypeOK
<1> QED BY <1>1 DEF Release, Exclusive
LEMMA WriteIsTyped ==
    ASSUME TypeOK, NEW p \in Procs, NEW changes \in Draft, Write(p, changes)
    PROVE  /\ draft' \in [Procs -> Draft]
           /\ draft'[p] = changes
           /\ \A q \in Procs : q # p => draft'[q] = draft[q]
BY DEF TypeOK, Write

LEMMA GotoIsTyped ==
    ASSUME TypeOK, NEW p \in Procs, NEW label \in Labels, Goto(p, label)
    PROVE  /\ pc' \in [Procs -> Labels]
           /\ pc'[p] = label
           /\ \A q \in Procs : q # p => pc'[q] = pc[q]
BY DEF TypeOK, Goto

LEMMA DraftsAreDrafts ==
    /\ NoDraft \in Draft
    /\ NoDraft.row = None /\ NoDraft.base = None /\ NoDraft.recorded = {}
    /\ NoDraft.folded = None /\ ~NoDraft.gone
BY DEF NoDraft, Draft

LEMMA AChangedDraft ==
    ASSUME NEW d \in Draft, NEW recorded \in SUBSET Event, NEW folded \in {None} \cup Seq(Turns),
           NEW left \in Int
    PROVE  /\ [d EXCEPT !.left = left] \in Draft
           /\ [d EXCEPT !.folded = folded, !.left = left] \in Draft
           /\ [d EXCEPT !.recorded = recorded, !.folded = folded, !.left = left] \in Draft
<1> DEFINE folds == {None} \cup Seq(Turns)
           kept == SUBSET Event
<1>1. folded \in folds /\ recorded \in kept
      OBVIOUS
<1>2. d \in [row : {None} \cup Row, base : {None} \cup Nat, recorded : kept,
              folded : folds, left : Int, state : SUBSET Parts, gone : BOOLEAN]
      BY DEF Draft
<1>3. Draft = [row : {None} \cup Row, base : {None} \cup Nat, recorded : kept,
               folded : folds, left : Int, state : SUBSET Parts, gone : BOOLEAN]
      BY DEF Draft
<1> HIDE DEF folds, kept
<1> QED BY <1>1, <1>2, <1>3

LEMMA UpsertIsARow ==
    ASSUME TypeOK, NEW level \in 0 .. TopLevel, NEW verified \in BOOLEAN,
           NEW ceiling \in Ceilings \cup {Unset}
    PROVE  Upsert(level, verified, ceiling) \in Row
<1>1. ladder \in Row /\ ladder.ceiling \in Ceilings \cup {Unset}
      BY DEF TypeOK, Row, NoRow
<1> QED BY <1>1 DEF Upsert, Row

LEMMA TypeIsKept ==
    ASSUME TypeOK, [Next]_vars, \A t \in Turns : FoldsTheProfile(t),
           Numbered(messages)
    PROVE  TypeOK'
<1> USE DEF Procs
<1>1. ASSUME NEW t \in Turns, Begin(t)
      PROVE  TypeOK'
  <2>1. pc' \in [Procs -> Labels]
        BY <1>1, GotoIsTyped DEF Begin, Labels
  <2> QED BY <1>1, <2>1 DEF Begin, committed, TypeOK
<1>2. ASSUME NEW t \in Turns, RunAgent(t)
      PROVE  TypeOK'
  <2>1. PICK label \in Labels : Goto(t, label)
        BY <1>2 DEF RunAgent, AfterTheAgent, Labels
  <2>2. pc' \in [Procs -> Labels]
        BY <2>1, GotoIsTyped
  <2>3. read' \in [Turns -> Row]
        BY <1>2 DEF RunAgent, TypeOK
  <2>4. draft' \in [Procs -> Draft]
    <3>1. CASE UNCHANGED draft
          BY <3>1 DEF TypeOK
    <3>2. ASSUME NEW marks \in 1 .. MaxMarks, Write(t, [draft[t] EXCEPT !.left = marks])
          PROVE  draft' \in [Procs -> Draft]
      <4>1. draft[t] \in Draft /\ marks \in Int
            BY MaxMarksIsSome DEF TypeOK
      <4>2. [draft[t] EXCEPT !.left = marks] \in Draft
            BY <4>1, AChangedDraft DEF Draft
      <4> QED BY <3>2, <4>2, WriteIsTyped
    <3> QED BY <1>2, <3>1, <3>2 DEF RunAgent
  <2> QED BY <1>2, <2>2, <2>3, <2>4 DEF RunAgent, committed, TypeOK
<1>3. ASSUME NEW t \in Turns, SaveRung(t)
      PROVE  TypeOK'
  <2>1. PICK label \in Labels : Goto(t, label)
        BY <1>3 DEF SaveRung, AfterTheAgent, Labels
  <2>2. PICK ran \in BOOLEAN, ceiling \in Ceilings \cup {Unset} :
          Write(t, [draft[t] EXCEPT !.row =
                      Upsert(Lower(read[t].level + 1, TopLevel),
                             read[t].verified \/ ran, ceiling)])
        BY <1>3 DEF SaveRung
  <2>3. read[t].level \in Int /\ read[t].level >= -1
        BY TopLevelIsALevel DEF TypeOK, Row, NoRow, Unset
  <2>4. Lower(read[t].level + 1, TopLevel) \in 0 .. TopLevel
        BY <2>3, TopLevelIsALevel DEF Lower
  <2>5. (read[t].verified \/ ran) \in BOOLEAN
        BY Zenon
  <2>6. Upsert(Lower(read[t].level + 1, TopLevel), read[t].verified \/ ran, ceiling) \in Row
        BY <2>4, <2>5, UpsertIsARow
  <2>7. [draft[t] EXCEPT !.row = Upsert(Lower(read[t].level + 1, TopLevel),
                                        read[t].verified \/ ran, ceiling)] \in Draft
        BY <2>6 DEF TypeOK, Draft
  <2> QED BY <1>3, <2>1, <2>2, <2>7, WriteIsTyped, GotoIsTyped, TakeIsTyped
          DEF SaveRung, committed, TypeOK
<1>4. ASSUME NEW t \in Turns, SaveAttempt(t)
      PROVE  TypeOK'
  <2>1. PICK label \in Labels : Goto(t, label)
        BY <1>4 DEF SaveAttempt, AfterTheAgent, Labels
  <2>2. Higher(read[t].level, 0) \in 0 .. TopLevel
        BY TopLevelIsALevel DEF TypeOK, Row, NoRow, Unset, Higher
  <2>3. [draft[t] EXCEPT !.row = Upsert(Higher(read[t].level, 0), TRUE, Unset)] \in Draft
        BY <2>2, UpsertIsARow DEF TypeOK, Draft
  <2> QED BY <1>4, <2>1, <2>3, WriteIsTyped, GotoIsTyped, TakeIsTyped
          DEF SaveAttempt, committed, TypeOK
<1>5. ASSUME NEW t \in Turns, LockProfile(t)
      PROVE  TypeOK'
  <2>1. [draft[t] EXCEPT !.folded = IF @ = None THEN profile ELSE @] \in Draft
        BY DEF TypeOK, Draft
  <2> QED BY <1>5, <2>1, WriteIsTyped, GotoIsTyped, TakeIsTyped
          DEF LockProfile, Labels, committed, TypeOK
<1>6. ASSUME NEW t \in Turns, InsertEvent(t)
      PROVE  TypeOK'
  <2>1. draft[t].folded \in Seq(Turns) /\ draft[t] \in Draft
        BY <1>6 DEF InsertEvent, FoldsTheProfile, TypeOK, Draft
  <2>2. /\ Append(draft[t].folded, t) \in Seq(Turns)
        /\ [seq |-> counter, turn |-> t] \in Event
        BY <2>1 DEF TypeOK, Event
  <2> DEFINE event == [seq |-> counter, turn |-> t]
  <2>3. [draft[t] EXCEPT !.recorded = @ \cup {event},
                         !.folded = Append(@, t), !.left = @ - 1] \in Draft
    <3>1. draft[t].left - 1 \in Int /\ draft[t].recorded \cup {event} \in SUBSET Event
          BY <2>1, <2>2 DEF Draft
    <3>2. Append(draft[t].folded, t) \in {None} \cup Seq(Turns)
          BY <2>2
    <3> HIDE DEF event
    <3> QED BY <2>1, <3>1, <3>2, AChangedDraft
  <2>4. counter' \in Nat
        BY <1>6 DEF InsertEvent, TypeOK
  <2>5. AfterAnEvent(t) \in Labels
        BY DEF AfterAnEvent, Labels
  <2> QED BY <1>6, <2>3, <2>4, <2>5, WriteIsTyped, GotoIsTyped, TakeIsTyped
          DEF InsertEvent, committed, TypeOK
<1>7. ASSUME NEW t \in Turns, AddTurns(t)
      PROVE  TypeOK'
  <2>1. LastSeq \in Nat
        BY FS_CardinalityType DEF LastSeq, Numbered
  <2>2. [draft[t] EXCEPT !.base = LastSeq] \in Draft
        BY <2>1 DEF TypeOK, Draft
  <2>3. PICK label \in Labels : Goto(t, label)
        BY <1>7 DEF AddTurns, AfterTheMessages, Labels
  <2> QED BY <1>7, <2>2, <2>3, WriteIsTyped, GotoIsTyped, TakeIsTyped
          DEF AddTurns, committed, TypeOK
<1>8. ASSUME NEW t \in Turns, SaveProblem(t) \/ SaveState(t)
      PROVE  TypeOK'
  <2>1. \A part \in Parts : [draft[t] EXCEPT !.state = @ \cup {part}] \in Draft
        BY DEF TypeOK, Draft
  <2>2. "problem" \in Parts /\ "progress" \in Parts
        BY DEF Parts
  <2> QED BY <1>8, <2>1, <2>2, WriteIsTyped, GotoIsTyped, TakeIsTyped
          DEF SaveProblem, SaveState, Labels, committed, TypeOK
<1>9. ASSUME NEW t \in Turns, LoseStore(t)
      PROVE  TypeOK'
  <2>1. PICK label \in Labels : Goto(t, label)
        BY <1>9 DEF LoseStore, AfterTheStore, AfterTheAgent, AfterAnEvent, AfterTheMessages, Labels
  <2>2. PICK changes \in Draft : Write(t, changes)
    <3>1. draft[t] \in Draft
          BY DEF TypeOK
    <3>4. /\ draft[t].left - 1 \in Int /\ draft[t].recorded \in SUBSET Event
          /\ FoldedBefore(t) \in {None} \cup Seq(Turns)
          BY <3>1 DEF Draft, FoldedBefore
    <3>2. [draft[t] EXCEPT !.folded = FoldedBefore(t), !.left = @ - 1] \in Draft
          BY <3>1, <3>4, AChangedDraft
    <3>3. [draft[t] EXCEPT !.left = @ - 1] \in Draft
          BY <3>1, <3>4, AChangedDraft
    <3> QED BY <1>9, <3>1, <3>2, <3>3 DEF LoseStore
  <2>3. held' \in [Procs -> SUBSET Locks]
        BY <1>9 DEF LoseStore, TypeOK
  <2> QED BY <1>9, <2>1, <2>2, <2>3, WriteIsTyped, GotoIsTyped DEF LoseStore, committed, TypeOK
<1>10. ASSUME NEW t \in Turns, Commit(t)
       PROVE  TypeOK'
  <2>1. draft[t] \in Draft
        BY DEF TypeOK
  <2>2. /\ ladder' \in Row /\ profile' \in Seq(Turns)
        /\ tutoring' \in [Parts -> Turns \cup {None}]
    <3>1. ladder' \in Row /\ profile' \in Seq(Turns)
          BY <1>10, <2>1 DEF Commit, TypeOK, Draft
    <3>2. tutoring' = [part \in Parts |-> IF part \in draft[t].state THEN t ELSE tutoring[part]]
          BY <1>10 DEF Commit, TypeOK
    <3>3. \A part \in Parts : tutoring[part] \in Turns \cup {None}
          BY DEF TypeOK
    <3> QED BY <3>1, <3>2, <3>3
  <2>3. events' \subseteq Event
        BY <1>10, <2>1 DEF Commit, TypeOK, Draft
  <2>4. messages' \subseteq Message
    <3>1. draft[t].base # None => draft[t].base \in Nat
          BY <2>1 DEF Draft
    <3>2. draft[t].base # None => NewMessages(t) \subseteq Message
          BY <3>1 DEF NewMessages, Message
    <3> QED BY <1>10, <3>2 DEF Commit, TypeOK
  <2>5. /\ draft' \in [Procs -> Draft] /\ pc' \in [Procs -> Labels]
        /\ held' \in [Procs -> SUBSET Locks]
    <3>1. draft' \in [Procs -> Draft]
          BY <1>10, WriteIsTyped, DraftsAreDrafts DEF Commit
    <3>2. pc' \in [Procs -> Labels]
          BY <1>10, GotoIsTyped DEF Commit, Labels
    <3>3. held' \in [Procs -> SUBSET Locks]
          BY <1>10 DEF Commit, Release, TypeOK
    <3> QED BY <3>1, <3>2, <3>3
  <2> QED BY <1>10, <2>2, <2>3, <2>4, <2>5 DEF Commit, TypeOK
<1>11. ASSUME NEW p \in Procs, Abort(p)
       PROVE  TypeOK'
  <2>1. draft' \in [Procs -> Draft]
        BY <1>11, WriteIsTyped, DraftsAreDrafts DEF Abort
  <2>2. pc' \in [Procs -> Labels]
        BY <1>11, GotoIsTyped DEF Abort, Labels
  <2>3. held' \in [Procs -> SUBSET Locks]
        BY <1>11 DEF Abort, Release, TypeOK
  <2> QED BY <1>11, <2>1, <2>2, <2>3 DEF Abort, committed, TypeOK
<1>12. ASSUME NEW e \in Editors, LockConversation(e)
       PROVE  TypeOK'
  <2>1. PICK label \in Labels : Goto(e, label)
        BY <1>12 DEF LockConversation, Labels
  <2>2. held' \in [Procs -> SUBSET Locks]
        BY <1>12, TakeIsTyped DEF LockConversation, TypeOK
  <2> QED BY <1>12, <2>1, <2>2, GotoIsTyped DEF LockConversation, committed, TypeOK
<1>13. ASSUME NEW e \in Editors, DeleteLadder(e)
       PROVE  TypeOK'
  <2> DEFINE gone == IF ladder = NoRow THEN None ELSE NoRow
  <2>1. PICK changes \in Draft : Write(e, changes)
    <3>1. gone \in {None} \cup Row
          BY DEF Row
    <3>2. draft[e] \in Draft
          BY DEF TypeOK
    <3>3. [draft[e] EXCEPT !.row = gone, !.gone = TRUE] \in Draft
          BY <3>1, <3>2 DEF Draft
    <3> QED BY <1>13, <3>3 DEF DeleteLadder
  <2> QED BY <1>13, <2>1, WriteIsTyped, GotoIsTyped, TakeIsTyped
          DEF DeleteLadder, Labels, committed, TypeOK
<1>14. ASSUME NEW e \in Editors, CommitEdit(e)
       PROVE  TypeOK'
  <2>1. draft[e] \in Draft
        BY DEF TypeOK
  <2>2. ladder' \in Row /\ exists' \in BOOLEAN /\ messages' \subseteq Message
        BY <1>14, <2>1 DEF CommitEdit, TypeOK, Draft
  <2>6. tutoring' \in [Parts -> Turns \cup {None}]
        BY <1>14 DEF CommitEdit, TypeOK, Parts
  <2>3. draft' \in [Procs -> Draft]
        BY <1>14, WriteIsTyped, DraftsAreDrafts DEF CommitEdit
  <2>4. pc' \in [Procs -> Labels]
        BY <1>14, GotoIsTyped DEF CommitEdit, Labels
  <2>5. held' \in [Procs -> SUBSET Locks]
        BY <1>14 DEF CommitEdit, Release, TypeOK
  <2> QED BY <1>14, <2>2, <2>3, <2>4, <2>5, <2>6 DEF CommitEdit, TypeOK
<1>15. CASE UNCHANGED vars
       BY <1>15 DEF vars, committed, TypeOK
<1> QED BY <1>1, <1>2, <1>3, <1>4, <1>5, <1>6, <1>7, <1>8, <1>9, <1>10, <1>11,
           <1>12, <1>13, <1>14, <1>15 DEF Next, Progress, Edit
-----------------------------------------------------------------------------
(* The profile and the events *)

LEMMA LocksStayExclusive ==
    ASSUME TypeOK, [Next]_vars, NEW lock \in {"profile", "update"}, Exclusive(lock)
    PROVE  Exclusive(lock)'
<1> USE DEF Procs
<1>1. {lock} \in Conflicts
      BY DEF Conflicts
<1>2. ASSUME NEW p \in Procs, Take(p)
      PROVE  Exclusive(lock)'
      BY <1>1, <1>2, TakeIsExclusive
<1>3. ASSUME NEW p \in Procs, Release(p)
      PROVE  Exclusive(lock)'
      BY <1>3, ReleaseIsExclusive
<1>4. ASSUME UNCHANGED held
      PROVE  Exclusive(lock)'
      BY <1>4 DEF Exclusive
<1>5. ASSUME NEW t \in Turns, LoseStore(t)
      PROVE  Exclusive(lock)'
  <2>1. \A p \in Procs : held'[p] \subseteq held[p]
        BY <1>5 DEF LoseStore, TypeOK
  <2> QED BY <2>1 DEF Exclusive
<1>6. ASSUME NEW t \in Turns, Progress(t)
      PROVE  Exclusive(lock)'
      BY <1>2, <1>3, <1>4, <1>6 DEF Progress, Begin, RunAgent, SaveRung, SaveAttempt,
         LockProfile, InsertEvent, AddTurns, SaveProblem, SaveState, Commit
<1>7. ASSUME NEW e \in Editors, Edit(e)
      PROVE  Exclusive(lock)'
      BY <1>2, <1>3, <1>4, <1>7 DEF Edit, LockConversation, DeleteLadder, CommitEdit
<1>8. ASSUME NEW p \in Procs, Abort(p)
      PROVE  Exclusive(lock)'
      BY <1>3, <1>8 DEF Abort
<1> QED BY <1>4, <1>5, <1>6, <1>7, <1>8 DEF Next, vars

\* A turn's steps leave the pc, the draft and the locks of the others alone.
LEMMA OthersStandStill ==
    ASSUME TypeOK, [Next]_vars, NEW q \in Procs
    PROVE  \/ pc'[q] = pc[q] /\ draft'[q] = draft[q] /\ held'[q] = held[q]
           \/ q \in Turns /\ (Progress(q) \/ LoseStore(q))
           \/ q \in Editors /\ Edit(q)
           \/ Abort(q)
<1> USE DEF Procs
<1> DEFINE Still == pc'[q] = pc[q] /\ draft'[q] = draft[q] /\ held'[q] = held[q]
<1>1. /\ pc \in [Procs -> Labels] /\ held \in [Procs -> SUBSET Locks]
      /\ draft \in [Procs -> Draft]
      BY DEF TypeOK
<1>2. ASSUME NEW t \in Turns, t # q, Progress(t)
      PROVE  Still
      BY <1>1, <1>2, TakeIsTyped
         DEF Progress, Begin, RunAgent, SaveRung, SaveAttempt, LockProfile, InsertEvent,
             AddTurns, SaveProblem, SaveState, Commit, Goto, Write, Release
<1>3. ASSUME NEW t \in Turns, t # q, LoseStore(t)
      PROVE  Still
      BY <1>1, <1>3 DEF LoseStore, Goto, Write
<1>4. ASSUME NEW e \in Editors, e # q, Edit(e)
      PROVE  Still
      BY <1>1, <1>4, TakeIsTyped
         DEF Edit, LockConversation, DeleteLadder, CommitEdit, Goto, Write, Release
<1>5. ASSUME NEW p \in Procs, p # q, Abort(p)
      PROVE  Still
      BY <1>1, <1>5 DEF Abort, Goto, Write, Release
<1>6. UNCHANGED vars => Still
      BY DEF vars
<1> QED BY <1>2, <1>3, <1>4, <1>5, <1>6 DEF Next
\* Only a commit changes the events and the profile, and only an insert draws a
\* number.
LEMMA OnlyCommitsWrite ==
    ASSUME TypeOK, [Next]_vars
    PROVE  /\ (\E t \in Turns : Commit(t)) \/ UNCHANGED <<events, profile>>
           /\ (\E t \in Turns : InsertEvent(t)) \/ UNCHANGED counter
           /\ counter' \in Nat /\ counter' >= counter
<1>1. ASSUME NEW t \in Turns, InsertEvent(t)
      PROVE  counter' = counter + 1
      BY <1>1 DEF InsertEvent
<1>2. (\E t \in Turns : InsertEvent(t)) \/ UNCHANGED counter
      BY DEF Next, Progress, Edit, Begin, RunAgent, SaveRung, SaveAttempt, LockProfile,
             AddTurns, SaveProblem, SaveState, LoseStore, Commit, Abort, LockConversation, DeleteLadder,
             CommitEdit, vars
<1>3. (\E t \in Turns : Commit(t)) \/ UNCHANGED <<events, profile>>
      BY DEF Next, Progress, Edit, Begin, RunAgent, SaveRung, SaveAttempt, LockProfile,
             InsertEvent, AddTurns, SaveProblem, SaveState, LoseStore, Abort, LockConversation,
             DeleteLadder, CommitEdit, vars, committed
<1> QED BY <1>1, <1>2, <1>3 DEF TypeOK

LEMMA EventsStayNumbered ==
    ASSUME TypeOK, [Next]_vars, EventsAreNumbered, \A t \in Turns : FoldsTheProfile(t)
    PROVE  EventsAreNumbered'
<1>1. counter \in Nat /\ counter' \in Nat /\ counter' >= counter
      BY OnlyCommitsWrite DEF TypeOK
<1>2. \A e \in events : e.seq \in Nat
      BY DEF TypeOK, Event
<1>3. CASE UNCHANGED events
      BY <1>1, <1>2, <1>3 DEF EventsAreNumbered
<1>4. ASSUME NEW t \in Turns, Commit(t)
      PROVE  EventsAreNumbered'
  <2>1. counter' = counter /\ events' = events \cup draft[t].recorded
        BY <1>4 DEF Commit
  <2>2. IsFiniteSet(draft[t].recorded) /\ \A e \in draft[t].recorded : e.seq < counter
        BY DEF FoldsTheProfile
  <2>3. IsFiniteSet(events')
        BY <2>1, <2>2, FS_Union DEF EventsAreNumbered
  <2> QED BY <2>1, <2>2, <2>3 DEF EventsAreNumbered
<1> QED BY <1>3, <1>4, OnlyCommitsWrite

\* The rank of an event, when one with a higher number than all is added.
LEMMA RankOfOld ==
    ASSUME NEW S, NEW n \in Nat, NEW x, x.seq = n, NEW m \in S,
           \A o \in S : o.seq \in Nat /\ o.seq < n
    PROVE  Rank(m, S \cup {x}) = Rank(m, S)
<1>1. {o \in S \cup {x} : o.seq <= m.seq} = {o \in S : o.seq <= m.seq}
      OBVIOUS
<1> QED BY <1>1 DEF Rank

LEMMA RankOfNew ==
    ASSUME NEW S, IsFiniteSet(S), NEW n \in Nat, NEW x, x.seq = n,
           \A o \in S : o.seq \in Nat /\ o.seq < n
    PROVE  /\ Rank(x, S \cup {x}) = Cardinality(S) + 1
           /\ Cardinality(S \cup {x}) = Cardinality(S) + 1
<1>1. {o \in S \cup {x} : o.seq <= x.seq} = S \cup {x}
      OBVIOUS
<1>2. x \notin S
      OBVIOUS
<1> QED BY <1>1, <1>2, FS_AddElement DEF Rank

\* A fold that takes one more event, numbered after all it has taken.
LEMMA TheFoldGrows ==
    ASSUME NEW S \in SUBSET Event, IsFiniteSet(S), NEW fold \in Seq(Turns), Follows(fold, S),
           NEW n \in Nat, \A o \in S : o.seq < n, NEW t \in Turns,
           NEW x, x = [seq |-> n, turn |-> t]
    PROVE  Follows(Append(fold, t), S \cup {x})
<1>1. \A o \in S : o.seq \in Nat /\ o.seq < n
      BY DEF Event
<1>2. x.seq = n /\ x.turn = t /\ Len(fold) = Cardinality(S) /\ Len(fold) \in Nat
      BY DEF Follows
<1>3. Rank(x, S \cup {x}) = Len(fold) + 1 /\ Cardinality(S \cup {x}) = Len(fold) + 1
      BY <1>1, <1>2, RankOfNew
<1>4. /\ Len(Append(fold, t)) = Len(fold) + 1
      /\ Append(fold, t)[Len(fold) + 1] = t
      /\ \A i \in 1 .. Len(fold) : Append(fold, t)[i] = fold[i]
      /\ DOMAIN Append(fold, t) = 1 .. Len(fold) + 1
      OBVIOUS
<1>5. ASSUME NEW i \in 1 .. Len(fold) + 1
      PROVE  \E e \in S \cup {x} : e.turn = Append(fold, t)[i] /\ Rank(e, S \cup {x}) = i
  <2>1. CASE i = Len(fold) + 1
        BY <1>2, <1>3, <1>4, <2>1
  <2>2. CASE i \in 1 .. Len(fold)
    <3>1. PICK e \in S : e.turn = fold[i] /\ Rank(e, S) = i
          BY <2>2 DEF Follows
    <3>2. Rank(e, S \cup {x}) = i
          BY <1>1, <1>2, <3>1, RankOfOld
    <3> QED BY <1>4, <2>2, <3>1, <3>2
  <2>3. i = Len(fold) + 1 \/ i \in 1 .. Len(fold)
        BY <1>2
  <2> QED BY <2>1, <2>2, <2>3, Zenon
<1> QED BY <1>3, <1>4, <1>5 DEF Follows

LEMMA TheFoldStays ==
    ASSUME NEW q \in Turns, UNCHANGED events, draft'[q].folded = draft[q].folded,
           draft'[q].recorded = draft[q].recorded,
           Follows(draft[q].folded, events \cup draft[q].recorded)
    PROVE  Follows(draft[q].folded, events \cup draft[q].recorded)'
<1>1. (events \cup draft[q].recorded)' = events \cup draft[q].recorded
      OBVIOUS
<1> QED BY <1>1 DEF Follows, Rank

LEMMA FoldsStay ==
    ASSUME TypeOK, [Next]_vars, Exclusive("profile"), EventsAreNumbered,
           ProfileFollowsEvents,
           \A t \in Turns : FoldsTheProfile(t), NEW q \in Turns
    PROVE  FoldsTheProfile(q)'
<1> USE DEF Procs
<1>1. /\ pc \in [Procs -> Labels] /\ held \in [Procs -> SUBSET Locks]
      /\ draft \in [Procs -> Draft] /\ counter \in Nat
      /\ counter' \in Nat /\ counter' >= counter
      BY OnlyCommitsWrite DEF TypeOK
<1>2. \A e \in draft[q].recorded : e.seq \in Nat
      BY <1>1 DEF Draft, Event
<1>3. CASE pc'[q] = pc[q] /\ draft'[q] = draft[q] /\ held'[q] = held[q]
  <2>1. CASE draft[q].folded = None
        BY <1>3, <2>1 DEF FoldsTheProfile
  <2>2. CASE draft[q].folded # None
    <3>1. ASSUME NEW t \in Turns, Commit(t)
          PROVE  UNCHANGED <<events, profile>>
      <4>1. t # q
            BY <1>3, <3>1, <1>1, GotoIsTyped DEF Commit, Goto
      <4>2. "profile" \in held[q]
            BY <2>2 DEF FoldsTheProfile
      <4>3. draft[t].folded = None
            BY <4>1, <4>2 DEF FoldsTheProfile, Exclusive
      <4>4. draft[t].recorded = {}
            BY <4>3 DEF FoldsTheProfile
      <4> QED BY <3>1, <4>3, <4>4 DEF Commit
    <3>2. UNCHANGED <<events, profile>>
          BY <3>1, OnlyCommitsWrite
    <3>3. Follows(draft[q].folded, events \cup draft[q].recorded)'
          BY <1>3, <2>2, <3>2, TheFoldStays DEF FoldsTheProfile
    <3>4. FoldsTheProfile(q)
          OBVIOUS
    <3>5. ASSUME NEW e \in draft[q].recorded
          PROVE  e.seq < counter' /\ \A stored \in events : stored.seq < e.seq
      <4>1. e.seq < counter /\ \A stored \in events : stored.seq < e.seq
            BY <3>4 DEF FoldsTheProfile
      <4> QED BY <1>1, <1>2, <4>1
    <3>6. (\A e \in draft[q].recorded :
              e.seq < counter /\ \A stored \in events : stored.seq < e.seq)'
          BY <1>3, <3>2, <3>5
    <3>7. "profile" \in held'[q] /\ draft'[q].folded # None /\ IsFiniteSet(draft'[q].recorded)
          BY <1>3, <2>2, <3>4 DEF FoldsTheProfile
    <3>8. (pc[q] \in {"start", "agent", "rung", "attempt"} => draft[q].folded = None)'
          BY <1>3, <3>4 DEF FoldsTheProfile
    <3> QED BY <3>3, <3>6, <3>7, <3>8 DEF FoldsTheProfile
  <2> QED BY <2>1, <2>2
<1>4. ASSUME UNCHANGED <<events, profile, counter>>,
             draft'[q].folded = draft[q].folded, draft'[q].recorded = draft[q].recorded,
             held[q] \subseteq held'[q], pc'[q] # "insert",
             pc[q] \in {"start", "agent", "rung", "attempt"}
                 \/ pc'[q] \notin {"start", "agent", "rung", "attempt"}
      PROVE  FoldsTheProfile(q)'
  <2>1. FoldsTheProfile(q)
        OBVIOUS
  <2>2. draft[q].folded # None => Follows(draft[q].folded, events \cup draft[q].recorded)
        BY <2>1 DEF FoldsTheProfile
  <2>3. draft[q].folded # None => Follows(draft[q].folded, events \cup draft[q].recorded)'
        BY <1>4, <2>2, TheFoldStays
  <2>4. pc'[q] \in {"start", "agent", "rung", "attempt"} => draft[q].folded = None
        BY <1>4, <2>1 DEF FoldsTheProfile
  <2> QED BY <1>4, <2>1, <2>3, <2>4 DEF FoldsTheProfile
<1>5. CASE Begin(q)
  <2>1. pc'[q] \in {"agent", "rejected"}
        BY <1>5, <1>1 DEF Begin, Goto
  <2> QED BY <1>4, <1>5, <2>1 DEF Begin, committed
<1>6. CASE RunAgent(q)
  <2>1. pc'[q] \in {"rung", "attempt", "event", "turns"}
        BY <1>6, <1>1 DEF RunAgent, Goto, AfterTheAgent
  <2>2. draft'[q].folded = draft[q].folded /\ draft'[q].recorded = draft[q].recorded
        BY <1>6, <1>1 DEF RunAgent, Write, Draft
  <2> QED BY <1>4, <1>6, <2>1, <2>2 DEF RunAgent, committed
<1>7. CASE SaveRung(q) \/ SaveAttempt(q)
  <2>1. pc'[q] \in {"event", "turns"} /\ pc[q] \in {"rung", "attempt"}
        BY <1>7, <1>1 DEF SaveRung, SaveAttempt, Goto, AfterTheAgent
  <2>2. draft'[q].folded = draft[q].folded /\ draft'[q].recorded = draft[q].recorded
    <3>1. PICK row : Write(q, [draft[q] EXCEPT !.row = row])
          BY <1>7 DEF SaveRung, SaveAttempt
    <3>2. draft'[q] = [draft[q] EXCEPT !.row = row]
          BY <3>1, <1>1 DEF Write
    <3> QED BY <3>2, <1>1 DEF Draft
  <2>3. held[q] \subseteq held'[q] /\ UNCHANGED <<events, profile, counter>>
        BY <1>7, TakeIsTyped DEF SaveRung, SaveAttempt, committed
  <2> QED BY <1>4, <2>1, <2>2, <2>3
<1>8. CASE AddTurns(q) \/ SaveProblem(q) \/ SaveState(q)
  <2>1. pc'[q] \in {"problem", "state", "commit"}
        BY <1>8, <1>1 DEF AddTurns, SaveProblem, SaveState, Goto, AfterTheMessages
  <2>2. draft'[q].folded = draft[q].folded /\ draft'[q].recorded = draft[q].recorded
        BY <1>8, <1>1 DEF AddTurns, SaveProblem, SaveState, Write, Draft
  <2>3. held[q] \subseteq held'[q] /\ UNCHANGED <<events, profile, counter>>
        BY <1>8, TakeIsTyped DEF AddTurns, SaveProblem, SaveState, committed
  <2> QED BY <1>4, <2>1, <2>2, <2>3
<1>9. CASE LockProfile(q)
  <2>1. pc'[q] = "insert" /\ UNCHANGED <<events, profile, counter>>
        BY <1>9, <1>1 DEF LockProfile, Goto, committed
  <2>2. draft'[q].folded = (IF draft[q].folded = None THEN profile ELSE draft[q].folded)
        /\ draft'[q].recorded = draft[q].recorded
        BY <1>9, <1>1 DEF LockProfile, Write, Draft
  <2>3. "profile" \in held'[q]
    <3>1. Wants(q) = "profile"
          BY <1>9 DEF LockProfile, Wants
    <3>2. Wants(q) # None => Wants(q) \in held'[q]
          BY <1>9, TakeIsTyped DEF LockProfile
    <3> QED BY <3>1, <3>2, NoneIsNoValue DEF Locks
  <2>4. draft'[q].folded # None
        BY <2>2, NoneIsNoValue DEF TypeOK
  <2>5. Follows(draft'[q].folded, events \cup draft[q].recorded)
    <3>1. CASE draft[q].folded = None
      <4>1. draft[q].recorded = {} /\ draft'[q].folded = profile
            BY <2>2, <3>1 DEF FoldsTheProfile
      <4>2. events \cup draft[q].recorded = events
            BY <4>1
      <4> QED BY <4>1, <4>2 DEF ProfileFollowsEvents
    <3>2. CASE draft[q].folded # None
          BY <2>2, <3>2 DEF FoldsTheProfile
    <3> QED BY <3>1, <3>2
  <2>6. (events \cup draft[q].recorded)' = events \cup draft[q].recorded
        BY <2>1, <2>2
  <2>7. Follows(draft[q].folded, events \cup draft[q].recorded)'
        BY <2>5, <2>6 DEF Follows, Rank
  <2>8. IsFiniteSet(draft[q].recorded) /\ \A e \in draft[q].recorded :
          e.seq < counter /\ \A stored \in events : stored.seq < e.seq
        BY DEF FoldsTheProfile
  <2> QED BY <2>1, <2>2, <2>3, <2>4, <2>7, <2>8 DEF FoldsTheProfile
<1>10. CASE InsertEvent(q)
  <2> DEFINE event == [seq |-> counter, turn |-> q]
             before == events \cup draft[q].recorded
  <2>1. pc[q] = "insert" /\ pc'[q] \in {"event", "turns"} /\ UNCHANGED <<events, profile>>
        /\ counter' = counter + 1
        BY <1>10, <1>1 DEF InsertEvent, Goto, committed, AfterAnEvent
  <2>2. draft[q].folded # None /\ "profile" \in held[q] /\ Follows(draft[q].folded, before)
        BY <2>1 DEF FoldsTheProfile
  <2>3. draft'[q].folded = Append(draft[q].folded, q)
        /\ draft'[q].recorded = draft[q].recorded \cup {event}
        BY <1>10, <1>1, <2>2 DEF InsertEvent, Write, Draft
  <2>4. "profile" \in held'[q]
        BY <1>10, <2>2, TakeIsTyped DEF InsertEvent
  <2>5. draft[q].folded \in Seq(Turns)
        BY <1>1, <2>2 DEF Draft
  <2>6. before \in SUBSET Event /\ IsFiniteSet(before) /\ \A o \in before : o.seq < counter
    <3>1. draft[q].recorded \subseteq Event /\ events \subseteq Event
          BY <1>1 DEF TypeOK, Draft
    <3>2. IsFiniteSet(draft[q].recorded) /\ IsFiniteSet(events)
          BY DEF FoldsTheProfile, EventsAreNumbered
    <3>3. IsFiniteSet(events \cup draft[q].recorded)
          BY <3>2, FS_Union
    <3>4. \A o \in events \cup draft[q].recorded : o.seq < counter
          BY DEF FoldsTheProfile, EventsAreNumbered
    <3> QED BY <3>1, <3>3, <3>4
  <2>7. Follows(Append(draft[q].folded, q), before \cup {event})
    <3> HIDE DEF before, event
    <3>1. counter \in Nat /\ event = [seq |-> counter, turn |-> q]
          BY <1>1 DEF event
    <3> QED BY <2>2, <2>5, <2>6, <3>1, TheFoldGrows
  <2>8. (events \cup draft[q].recorded)' = before \cup {event}
        BY <2>1, <2>3
  <2>9. Follows(draft[q].folded, events \cup draft[q].recorded)'
        BY <2>3, <2>7, <2>8 DEF Follows, Rank
  <2>10. draft'[q].folded # None
    <3>1. Append(draft[q].folded, q) \in Seq(Turns)
          BY <2>5
    <3> QED BY <2>3, <3>1, NoneIsNoValue
  <2>11. IsFiniteSet(draft'[q].recorded)
    <3>1. IsFiniteSet(draft[q].recorded)
          BY DEF FoldsTheProfile
    <3> QED BY <2>3, <3>1, FS_AddElement
  <2>12. ASSUME NEW e \in draft'[q].recorded
         PROVE  e.seq < counter' /\ \A stored \in events' : stored.seq < e.seq
    <3>1. CASE e \in draft[q].recorded
      <4>1. e.seq < counter /\ \A stored \in events : stored.seq < e.seq
            BY <3>1 DEF FoldsTheProfile
      <4> QED BY <1>1, <1>2, <2>1, <3>1, <4>1
    <3>2. CASE e = event
          BY <1>1, <2>1, <3>2 DEF EventsAreNumbered
    <3> QED BY <2>3, <3>1, <3>2
  <2> QED BY <2>1, <2>4, <2>9, <2>10, <2>11, <2>12 DEF FoldsTheProfile
<1>11. CASE LoseStore(q)
  <2>1. UNCHANGED <<events, profile, counter>>
        BY <1>11 DEF LoseStore, committed
  <2>2. CASE pc[q] = "insert"
    <3>1. pc'[q] \in {"event", "turns"}
          BY <1>1, <1>11, <2>2 DEF LoseStore, AfterTheStore, AfterAnEvent, Goto
    <3>2. draft'[q].folded = FoldedBefore(q) /\ draft'[q].recorded = draft[q].recorded
          BY <1>1, <1>11, <2>2 DEF LoseStore, Write, Draft
    <3>3. CASE draft[q].recorded = {}
      <4>1. draft'[q].folded = None /\ draft'[q].recorded = {}
            BY <3>2, <3>3 DEF FoldedBefore
      <4>2. IsFiniteSet({})
            BY FS_EmptySet
      <4> QED BY <3>1, <4>1, <4>2 DEF FoldsTheProfile
    <3>4. CASE draft[q].recorded # {}
      <4>1. draft'[q].folded = draft[q].folded /\ draft[q].folded # None
            BY <2>2, <3>2, <3>4 DEF FoldedBefore, FoldsTheProfile
      <4>2. held'[q] = held[q]
            BY <1>1, <1>11, <3>4, <4>1 DEF LoseStore, FoldedBefore
      <4> QED BY <1>4, <2>1, <3>1, <3>2, <4>1, <4>2
    <3> QED BY <3>3, <3>4
  <2>3. CASE pc[q] # "insert"
    <3>1. pc'[q] \in {"event", "turns", "problem", "state", "commit"}
          BY <1>1, <1>11, <2>3 DEF LoseStore, AfterTheStore, AfterTheAgent, AfterAnEvent,
             AfterTheMessages, Goto
    <3>2. /\ draft'[q].folded = draft[q].folded /\ draft'[q].recorded = draft[q].recorded
          /\ held'[q] = held[q]
          BY <1>1, <1>11, <2>3 DEF LoseStore, Write, Draft
    <3> QED BY <1>4, <2>1, <3>1, <3>2
  <2> QED BY <2>2, <2>3
<1>12. CASE Commit(q) \/ Abort(q)
  <2>1. draft'[q].folded = None /\ draft'[q].recorded = {}
        BY <1>12, <1>1, WriteIsTyped, DraftsAreDrafts DEF Commit, Abort
  <2>2. pc'[q] \in {"done", "aborted"}
        BY <1>12, <1>1 DEF Commit, Abort, Goto
  <2>3. IsFiniteSet({})
        BY FS_EmptySet
  <2> QED BY <2>1, <2>2, <2>3 DEF FoldsTheProfile
<1>13. q \notin Editors
       BY TurnsAreNotEditors
<1> QED BY <1>3, <1>5, <1>6, <1>7, <1>8, <1>9, <1>10, <1>11, <1>12, <1>13,
           OthersStandStill DEF Progress

LEMMA TheProfileStays ==
    ASSUME TypeOK, [Next]_vars, ProfileFollowsEvents, \A t \in Turns : FoldsTheProfile(t)
    PROVE  ProfileFollowsEvents'
<1>1. CASE UNCHANGED <<events, profile>>
      BY <1>1 DEF ProfileFollowsEvents, Follows, Rank
<1>2. ASSUME NEW t \in Turns, Commit(t)
      PROVE  ProfileFollowsEvents'
  <2>1. CASE draft[t].folded = None
    <3>1. draft[t].recorded = {}
          BY <2>1 DEF FoldsTheProfile
    <3> QED BY <1>1, <1>2, <2>1, <3>1 DEF Commit
  <2>2. CASE draft[t].folded # None
    <3>1. profile' = draft[t].folded /\ events' = events \cup draft[t].recorded
          BY <1>2, <2>2 DEF Commit
    <3>2. Follows(draft[t].folded, events \cup draft[t].recorded)
          BY <2>2 DEF FoldsTheProfile
    <3> QED BY <3>1, <3>2 DEF ProfileFollowsEvents, Follows, Rank
  <2> QED BY <2>1, <2>2
<1> QED BY <1>1, <1>2, OnlyCommitsWrite
-----------------------------------------------------------------------------
(* The log *)

\* Among messages numbered without gaps, the n-th is the one numbered n.
LEMMA RankIsTheNumber ==
    ASSUME NEW S, Numbered(S), NEW m \in S
    PROVE  Rank(m, S) = m.seq
<1> DEFINE T == {o \in S : o.seq <= m.seq}
           f == [o \in T |-> o.seq]
<1>1. Cardinality(S) \in Nat /\ m.seq \in 1 .. Cardinality(S)
      BY FS_CardinalityType DEF Numbered
<1>2. f \in Bijection(T, 1 .. m.seq)
  <2>1. \A o \in T : f[o] \in 1 .. m.seq
        BY <1>1 DEF Numbered
  <2>2. \A o, r \in T : f[o] = f[r] => o = r
        BY DEF Numbered
  <2>3. \A n \in 1 .. m.seq : \E o \in T : f[o] = n
        BY <1>1 DEF Numbered
  <2> QED BY <2>1, <2>2, <2>3, Fun_IsBij
<1>3. IsFiniteSet(T)
      BY FS_Subset DEF Numbered
<1>4. Cardinality(1 .. m.seq) = m.seq
  <2>1. 1 \in Int /\ m.seq \in Int /\ m.seq >= 1
        BY <1>1
  <2>2. Cardinality(1 .. m.seq) = IF 1 > m.seq THEN 0 ELSE m.seq - 1 + 1
        BY <2>1, FS_Interval, Zenon
  <2> QED BY <2>1, <2>2
<1> QED BY <1>2, <1>3, <1>4, FS_Bijection DEF ExistsBijection, Rank

Said == [turn : Turns, role : {"user", "assistant"}]

LEMMA LogOfNumbered ==
    ASSUME NEW S \in SUBSET Message, Numbered(S)
    PROVE  /\ LogOf(S) \in Seq(Said)
           /\ Len(LogOf(S)) = Cardinality(S)
           /\ \A m \in S : m.seq \in 1 .. Cardinality(S)
                           /\ LogOf(S)[m.seq] = [turn |-> m.turn, role |-> m.role]
<1>1. Cardinality(S) \in Nat
      BY FS_CardinalityType DEF Numbered
<1>2. ASSUME NEW m \in S
      PROVE  /\ m.seq \in 1 .. Cardinality(S)
             /\ LogOf(S)[m.seq] = [turn |-> m.turn, role |-> m.role]
  <2>1. m.seq \in 1 .. Cardinality(S) /\ Rank(m, S) = m.seq
        BY RankIsTheNumber DEF Numbered
  <2>2. \A o \in S : Rank(o, S) = m.seq => o = m
        BY RankIsTheNumber DEF Numbered
  <2> QED BY <2>1, <2>2 DEF LogOf
<1>3. ASSUME NEW n \in 1 .. Cardinality(S)
      PROVE  LogOf(S)[n] \in Said
  <2>1. PICK m \in S : m.seq = n
        BY DEF Numbered
  <2>2. m.turn \in Turns /\ m.role \in {"user", "assistant"}
        BY DEF Message
  <2>3. LogOf(S)[n] = [turn |-> m.turn, role |-> m.role]
        BY <1>2, <2>1
  <2> QED BY <2>2, <2>3 DEF Said
<1>4. DOMAIN LogOf(S) = 1 .. Cardinality(S) /\ LogOf(S) \in [1 .. Cardinality(S) -> Said]
      BY <1>3 DEF LogOf
<1>5. LogOf(S) \in Seq(Said) /\ Len(LogOf(S)) = Cardinality(S)
      BY <1>1, <1>4
<1> QED BY <1>2, <1>5
\* Two messages numbered on from the last one are two more at the end of the log.
LEMMA LogGrowsAtTheEnd ==
    ASSUME NEW S \in SUBSET Message, Numbered(S), NEW t \in Turns, NEW N, N = Cardinality(S),
           NEW R, R = S \cup {[seq |-> N + 1, turn |-> t, role |-> "user"],
                              [seq |-> N + 2, turn |-> t, role |-> "assistant"]}
    PROVE  /\ Numbered(R)
           /\ LogOf(R) = LogOf(S) \o Log!MessagesOf(t)
<1> DEFINE a == [seq |-> N + 1, turn |-> t, role |-> "user"]
           b == [seq |-> N + 2, turn |-> t, role |-> "assistant"]
<1>1. N \in Nat /\ IsFiniteSet(S) /\ \A m \in S : m.seq \in 1 .. N
      BY FS_CardinalityType DEF Numbered
<1>2. R = (S \cup {a}) \cup {b} /\ a \notin S /\ b \notin S \cup {a}
      BY <1>1
<1>3. IsFiniteSet(R) /\ Cardinality(R) = N + 2
  <2>1. IsFiniteSet(S \cup {a}) /\ Cardinality(S \cup {a}) = N + 1
        BY <1>1, <1>2, FS_AddElement
  <2>2. /\ IsFiniteSet((S \cup {a}) \cup {b})
        /\ Cardinality((S \cup {a}) \cup {b}) = Cardinality(S \cup {a}) + 1
        BY <1>2, <2>1, FS_AddElement, Zenon
  <2>3. (N + 1) + 1 = N + 2
        BY <1>1
  <2> QED BY <1>2, <2>1, <2>2, <2>3
<1>4. R \in SUBSET Message
      BY <1>1 DEF Message
<1>5. Numbered(R)
  <2>1. \A m \in R : m.seq \in 1 .. N + 2
        BY <1>1
  <2>2. \A n \in 1 .. N + 2 : \E m \in R : m.seq = n
    <3>1. ASSUME NEW n \in 1 .. N
          PROVE  \E m \in R : m.seq = n
          BY DEF Numbered
    <3>2. (\E m \in R : m.seq = N + 1) /\ (\E m \in R : m.seq = N + 2)
          BY <1>2
    <3>3. \A n \in 1 .. N + 2 : n \in 1 .. N \/ n = N + 1 \/ n = N + 2
          BY <1>1
    <3> QED BY <3>1, <3>2, <3>3
  <2>3. \A m, o \in R : m.seq = o.seq => m = o
    <3>1. \A m, o \in S : m.seq = o.seq => m = o
          BY DEF Numbered
    <3> QED BY <1>1, <1>2, <3>1
  <2> QED BY <1>3, <2>1, <2>2, <2>3 DEF Numbered
<1>6. /\ LogOf(S) \in Seq(Said) /\ Len(LogOf(S)) = N
      /\ LogOf(R) \in Seq(Said) /\ Len(LogOf(R)) = N + 2
      BY <1>3, <1>4, <1>5, LogOfNumbered
<1>7. Log!MessagesOf(t) \in Seq(Said) /\ Len(Log!MessagesOf(t)) = 2
      /\ Log!MessagesOf(t)[1] = [turn |-> t, role |-> "user"]
      /\ Log!MessagesOf(t)[2] = [turn |-> t, role |-> "assistant"]
      BY DEF Log!MessagesOf, Said
<1> DEFINE both == LogOf(S) \o Log!MessagesOf(t)
<1>8. both \in Seq(Said) /\ Len(both) = N + 2
  <2>1. both \in Seq(Said) /\ Len(both) = Len(LogOf(S)) + Len(Log!MessagesOf(t))
        BY <1>6, <1>7, ConcatProperties, Zenon
  <2> QED BY <1>1, <1>6, <1>7, <2>1
<1>9. ASSUME NEW i \in 1 .. N + 2
      PROVE  LogOf(R)[i] = both[i]
  <2>1. both[i] = IF i <= N THEN LogOf(S)[i] ELSE Log!MessagesOf(t)[i - N]
    <3>1. \A j \in 1 .. Len(LogOf(S)) + Len(Log!MessagesOf(t)) :
            both[j] = IF j <= Len(LogOf(S)) THEN LogOf(S)[j]
                      ELSE Log!MessagesOf(t)[j - Len(LogOf(S))]
          BY <1>6, <1>7, ConcatProperties, Zenon
    <3> QED BY <1>1, <1>6, <1>7, <3>1
  <2>2. CASE i \in 1 .. N
    <3>1. PICK m \in S : m.seq = i
          BY <2>2 DEF Numbered
    <3>2. LogOf(S)[i] = [turn |-> m.turn, role |-> m.role]
          BY <3>1, LogOfNumbered
    <3>3. LogOf(R)[i] = [turn |-> m.turn, role |-> m.role]
          BY <3>1, <1>2, <1>4, <1>5, LogOfNumbered
    <3> QED BY <1>1, <2>1, <2>2, <3>2, <3>3
  <2>3. CASE i = N + 1
    <3>1. LogOf(R)[a.seq] = [turn |-> a.turn, role |-> a.role]
          BY <1>2, <1>4, <1>5, LogOfNumbered
    <3> QED BY <1>1, <1>7, <2>1, <2>3, <3>1
  <2>4. CASE i = N + 2
    <3>1. b \in R
          BY <1>2
    <3>2. LogOf(R)[b.seq] = [turn |-> b.turn, role |-> b.role]
          BY <3>1, <1>4, <1>5, LogOfNumbered
    <3> QED BY <1>1, <1>7, <2>1, <2>4, <3>2
  <2>5. i \in 1 .. N \/ i = N + 1 \/ i = N + 2
        BY <1>1
  <2> QED BY <2>2, <2>3, <2>4, <2>5
<1> QED BY <1>5, <1>6, <1>8, <1>9, SeqEqual
\* Only a turn's commit and an edit's change what is stored of the conversation.
LEMMA OnlyCommitsShow ==
    ASSUME TypeOK, [Next]_vars
    PROVE  \/ UNCHANGED <<exists, messages>>
           \/ \E t \in Turns : Commit(t)
           \/ \E e \in Editors : CommitEdit(e)
BY DEF Next, Progress, Edit, Begin, RunAgent, SaveRung, SaveAttempt, LockProfile,
       InsertEvent, AddTurns, SaveProblem, SaveState, LoseStore, Abort, LockConversation,
       DeleteLadder, vars, committed

LEMMA DoneIsDone ==
    ASSUME TypeOK, [Next]_vars, NEW q \in Procs, pc[q] = "done"
    PROVE  pc'[q] = "done"
<1>1. q \in Turns => ~Progress(q) /\ ~LoseStore(q)
      BY DEF Progress, Begin, RunAgent, SaveRung, SaveAttempt, LockProfile, InsertEvent,
             AddTurns, SaveProblem, SaveState, Commit, LoseStore
<1>2. q \in Editors => ~Edit(q)
      BY DEF Edit, LockConversation, DeleteLadder, CommitEdit
<1>3. ~Abort(q)
      BY DEF Abort
<1> QED BY <1>1, <1>2, <1>3, OthersStandStill

\* One who commits a change to the log holds the conversation, so no one else does.
LEMMA WritersHoldTheConversation ==
    ASSUME TypeOK, [Next]_vars, \A t \in Turns : NumbersOn(t),
           \A e \in Editors : HoldsTheConversation(e), Exclusive("update"),
           NEW q \in Procs, "update" \in held[q], pc'[q] = pc[q]
    PROVE  UNCHANGED <<exists, messages>>
<1> USE DEF Procs
<1>1. pc \in [Procs -> Labels] /\ exists \in BOOLEAN
      BY DEF TypeOK
<1>2. ASSUME NEW t \in Turns, Commit(t)
      PROVE  UNCHANGED <<exists, messages>>
  <2>1. t # q
        BY <1>1, <1>2 DEF Commit, Goto
  <2>2. draft[t].base = None
        BY <2>1 DEF NumbersOn, Exclusive
  <2> QED BY <1>2, <2>2 DEF Commit
<1>3. ASSUME NEW e \in Editors, CommitEdit(e)
      PROVE  UNCHANGED <<exists, messages>>
  <2>1. e # q
        BY <1>1, <1>3 DEF CommitEdit, Goto
  <2>2. ~draft[e].gone
        BY <2>1 DEF HoldsTheConversation, Exclusive
  <2> QED BY <1>1, <1>3, <2>2 DEF CommitEdit
<1> QED BY <1>2, <1>3, OnlyCommitsShow

LEMMA NumbersStay ==
    ASSUME TypeOK, [Next]_vars, \A t \in Turns : NumbersOn(t),
           \A e \in Editors : HoldsTheConversation(e), Exclusive("update"), NEW q \in Turns
    PROVE  NumbersOn(q)'
<1> USE DEF Procs
<1>1. /\ pc \in [Procs -> Labels] /\ held \in [Procs -> SUBSET Locks]
      /\ draft \in [Procs -> Draft]
      BY DEF TypeOK
<1>2. CASE pc'[q] = pc[q] /\ draft'[q] = draft[q] /\ held'[q] = held[q]
  <2>1. draft[q].base # None => UNCHANGED <<exists, messages>>
        BY <1>2, WritersHoldTheConversation DEF NumbersOn
  <2> QED BY <1>2, <2>1 DEF NumbersOn
<1>3. ASSUME draft'[q].base = draft[q].base, held[q] \cap {"update"} \subseteq held'[q],
             UNCHANGED <<exists, messages>>
      PROVE  NumbersOn(q)'
      BY <1>3 DEF NumbersOn
<1>4. CASE Begin(q) \/ RunAgent(q)
  <2>1. draft'[q].base = draft[q].base
        BY <1>1, <1>4 DEF Begin, RunAgent, Write, Draft
  <2> QED BY <1>3, <1>4, <2>1 DEF Begin, RunAgent, committed
<1>5. CASE SaveRung(q) \/ SaveAttempt(q)
  <2>1. PICK row : Write(q, [draft[q] EXCEPT !.row = row])
        BY <1>5 DEF SaveRung, SaveAttempt
  <2>2. draft'[q] = [draft[q] EXCEPT !.row = row]
        BY <2>1, <1>1 DEF Write
  <2>3. draft'[q].base = draft[q].base
        BY <2>2, <1>1 DEF Draft
  <2> QED BY <1>3, <1>5, <2>3, TakeIsTyped DEF SaveRung, SaveAttempt, committed
<1>6. CASE LockProfile(q)
  <2>1. draft'[q].base = draft[q].base
        BY <1>1, <1>6 DEF LockProfile, Write, Draft
  <2> QED BY <1>3, <1>6, <2>1, TakeIsTyped DEF LockProfile, committed
<1>7. CASE InsertEvent(q)
  <2>1. draft'[q].base = draft[q].base
        BY <1>1, <1>7 DEF InsertEvent, Write, Draft
  <2> QED BY <1>3, <1>7, <2>1, TakeIsTyped DEF InsertEvent, committed
<1>8. CASE SaveProblem(q) \/ SaveState(q)
  <2>1. draft'[q].base = draft[q].base
        BY <1>1, <1>8 DEF SaveProblem, SaveState, Write, Draft
  <2> QED BY <1>3, <1>8, <2>1, TakeIsTyped DEF SaveProblem, SaveState, committed
<1>9. CASE LoseStore(q)
  <2>1. draft'[q].base = draft[q].base
        BY <1>1, <1>9 DEF LoseStore, Write, Draft
  <2>2. held[q] \cap {"update"} \subseteq held'[q]
        BY <1>1, <1>9 DEF LoseStore
  <2> QED BY <1>3, <1>9, <2>1, <2>2 DEF LoseStore, committed
<1>10. CASE AddTurns(q)
  <2>1. draft'[q].base = Cardinality(messages)
        BY <1>1, <1>10 DEF AddTurns, Write, Draft, LastSeq
  <2>2. "update" \in held'[q]
    <3>1. Wants(q) = "update"
          BY <1>10 DEF AddTurns, Wants
    <3>2. Wants(q) # None => Wants(q) \in held'[q]
          BY <1>10, TakeIsTyped DEF AddTurns
    <3> QED BY <3>1, <3>2, NoneIsNoValue DEF Locks
  <2> QED BY <1>10, <2>1, <2>2 DEF AddTurns, committed, NumbersOn
<1>11. CASE Commit(q) \/ Abort(q)
  <2>1. draft'[q].base = None
        BY <1>11, WriteIsTyped, DraftsAreDrafts DEF Commit, Abort
  <2> QED BY <2>1 DEF NumbersOn
<1>12. q \notin Editors
       BY TurnsAreNotEditors
<1> QED BY <1>2, <1>4, <1>5, <1>6, <1>7, <1>8, <1>9, <1>10, <1>11, <1>12,
           OthersStandStill DEF Progress

LEMMA EditsStay ==
    ASSUME TypeOK, [Next]_vars, \A t \in Turns : NumbersOn(t),
           \A e \in Editors : HoldsTheConversation(e), Exclusive("update"), NEW q \in Editors
    PROVE  HoldsTheConversation(q)'
<1> USE DEF Procs
<1>1. /\ pc \in [Procs -> Labels] /\ held \in [Procs -> SUBSET Locks]
      /\ draft \in [Procs -> Draft]
      BY DEF TypeOK
<1>2. CASE pc'[q] = pc[q] /\ draft'[q] = draft[q] /\ held'[q] = held[q]
  <2>1. pc[q] \in {"rename", "delete", "commit"} => UNCHANGED <<exists, messages>>
        BY <1>2, WritersHoldTheConversation DEF HoldsTheConversation
  <2> QED BY <1>2, <2>1 DEF HoldsTheConversation
<1>3. CASE LockConversation(q)
  <2>1. pc[q] = "start" /\ UNCHANGED <<exists, draft>>
        BY <1>3 DEF LockConversation, committed
  <2>2. CASE exists
    <3>1. Wants(q) = "update"
          BY <2>1 DEF Wants
    <3>2. Wants(q) # None => Wants(q) \in held'[q]
          BY <1>3, <2>2, TakeIsTyped DEF LockConversation
    <3>3. "update" \in held'[q]
          BY <3>1, <3>2, NoneIsNoValue DEF Locks
    <3> QED BY <2>1, <2>2, <3>3 DEF HoldsTheConversation
  <2>3. CASE ~exists
    <3>1. pc'[q] = "rejected"
          BY <1>1, <1>3, <2>3 DEF LockConversation, Goto
    <3> QED BY <2>1, <3>1 DEF HoldsTheConversation
  <2> QED BY <2>2, <2>3
<1>4. CASE DeleteLadder(q)
  <2>1. pc'[q] = "commit" /\ UNCHANGED exists
        BY <1>1, <1>4 DEF DeleteLadder, Goto, committed
  <2>2. held[q] \subseteq held'[q]
        BY <1>4, TakeIsTyped DEF DeleteLadder
  <2>3. "update" \in held[q] /\ exists
        BY <1>4 DEF DeleteLadder, HoldsTheConversation
  <2> QED BY <2>1, <2>2, <2>3 DEF HoldsTheConversation
<1>5. CASE CommitEdit(q) \/ Abort(q)
  <2>1. pc'[q] \in {"done", "aborted"}
        BY <1>1, <1>5 DEF CommitEdit, Abort, Goto
  <2>2. ~draft'[q].gone
        BY <1>5, WriteIsTyped, DraftsAreDrafts DEF CommitEdit, Abort
  <2> QED BY <2>1, <2>2 DEF HoldsTheConversation
<1>6. q \notin Turns
      BY TurnsAreNotEditors
<1> QED BY <1>2, <1>3, <1>4, <1>5, <1>6, OthersStandStill DEF Edit
\* A step shows a reader one turn entering, the conversation closing, or nothing.
LEMMA StepOfTheLog ==
    ASSUME ConversationInv, [Next]_vars
    PROVE  /\ Numbered(messages')
           /\ \A m \in messages' : pc'[m.turn] = "done"
           /\ [Log!Next]_(Log!vars)
<1> USE DEF Procs
<1>1. /\ TypeOK /\ Numbered(messages) /\ messages \in SUBSET Message /\ exists \in BOOLEAN
      /\ pc \in [Procs -> Labels]
      BY DEF ConversationInv, TypeOK
<1>2. \A m \in messages : m.turn \in Turns /\ pc[m.turn] = "done" /\ pc'[m.turn] = "done"
      BY <1>1, DoneIsDone DEF ConversationInv, Message
<1>3. CASE UNCHANGED <<exists, messages>>
  <2>1. UNCHANGED Log!vars
        BY <1>3 DEF Log!vars
  <2> QED BY <1>1, <1>2, <1>3, <2>1
<1>4. ASSUME NEW t \in Turns, Commit(t)
      PROVE  /\ Numbered(messages')
             /\ \A m \in messages' : pc'[m.turn] = "done"
             /\ [Log!Next]_(Log!vars)
  <2>1. CASE draft[t].base = None
        BY <1>3, <1>4, <2>1 DEF Commit
  <2>2. CASE draft[t].base # None
    <3> DEFINE N == Cardinality(messages)
    <3>1. draft[t].base = N /\ exists
          BY <2>2 DEF ConversationInv, NumbersOn
    <3>2. messages' = messages \cup {[seq |-> N + 1, turn |-> t, role |-> "user"],
                                     [seq |-> N + 2, turn |-> t, role |-> "assistant"]}
          BY <1>4, <2>2, <3>1 DEF Commit, NewMessages
    <3>3. Numbered(messages') /\ LogOf(messages') = LogOf(messages) \o Log!MessagesOf(t)
          BY <1>1, <3>2, LogGrowsAtTheEnd
    <3>4. pc'[t] = "done" /\ pc[t] = "commit" /\ UNCHANGED exists
          BY <1>1, <1>4 DEF Commit, Goto
    <3>5. ASSUME NEW i \in DOMAIN LogOf(messages)
          PROVE  LogOf(messages)[i].turn # t
      <4>1. i \in 1 .. Cardinality(messages)
            BY DEF LogOf
      <4>2. PICK m \in messages : m.seq = i
            BY <1>1, <4>1 DEF Numbered
      <4>3. LogOf(messages)[i] = [turn |-> m.turn, role |-> m.role]
            BY <1>1, <4>2, LogOfNumbered
      <4> QED BY <1>2, <3>4, <4>3
    <3>6. Log!Enter(t)
          BY <3>1, <3>3, <3>4, <3>5 DEF Log!Enter
    <3>7. \A m \in messages' : pc'[m.turn] = "done"
          BY <1>2, <3>2, <3>4
    <3> QED BY <3>3, <3>6, <3>7 DEF Log!Next
  <2> QED BY <2>1, <2>2
<1>5. ASSUME NEW e \in Editors, CommitEdit(e)
      PROVE  /\ Numbered(messages')
             /\ \A m \in messages' : pc'[m.turn] = "done"
             /\ [Log!Next]_(Log!vars)
  <2>1. CASE ~draft[e].gone
        BY <1>1, <1>3, <1>5, <2>1 DEF CommitEdit
  <2>2. CASE draft[e].gone
    <3>1. exists
          BY <2>2 DEF ConversationInv, HoldsTheConversation
    <3>2. messages' = {} /\ exists' = FALSE
          BY <1>5, <2>2 DEF CommitEdit
    <3>3. IsFiniteSet({}) /\ Cardinality({}) = 0
          BY FS_EmptySet
    <3>4. Numbered(messages')
          BY <3>2, <3>3 DEF Numbered
    <3>5. LogOf(messages') = <<>>
          BY <3>2, <3>3 DEF LogOf
    <3>6. Log!Close
          BY <3>1, <3>2, <3>5 DEF Log!Close
    <3> QED BY <3>2, <3>4, <3>6 DEF Log!Next
  <2> QED BY <2>1, <2>2
<1> QED BY <1>3, <1>4, <1>5, <1>1, OnlyCommitsShow

-----------------------------------------------------------------------------
(* Theorems *)

LEMMA InitHasTheInvariant == Init => ConversationInv
<1> SUFFICES ASSUME Init PROVE ConversationInv
    OBVIOUS
<1> USE DEF Procs
<1>1. IsFiniteSet({}) /\ Cardinality({}) = 0
      BY FS_EmptySet
<1>2. TypeOK
  <2>1. draft \in [Procs -> Draft]
        BY DraftsAreDrafts DEF Init
  <2> QED BY <2>1 DEF Init, TypeOK, Row, Labels, Locks, Parts
<1>3. Exclusive("profile") /\ Exclusive("update")
      BY DEF Init, Exclusive
<1>4. \A t \in Turns : FoldsTheProfile(t) /\ NumbersOn(t)
      BY <1>1, DraftsAreDrafts DEF Init, FoldsTheProfile, NumbersOn
<1>5. \A e \in Editors : HoldsTheConversation(e)
      BY DraftsAreDrafts DEF Init, HoldsTheConversation
<1>6. EventsAreNumbered /\ ProfileFollowsEvents
      BY <1>1 DEF Init, EventsAreNumbered, ProfileFollowsEvents, Follows
<1>7. Numbered(messages) /\ \A m \in messages : pc[m.turn] = "done"
      BY <1>1 DEF Init, Numbered
<1> QED BY <1>2, <1>3, <1>4, <1>5, <1>6, <1>7 DEF ConversationInv

LEMMA StepKeepsTheInvariant == ConversationInv /\ [Next]_vars => ConversationInv'
<1> SUFFICES ASSUME ConversationInv, [Next]_vars PROVE ConversationInv'
    OBVIOUS
<1> USE DEF ConversationInv
<1>1. TypeOK'
      BY TypeIsKept
<1>2. Exclusive("profile")' /\ Exclusive("update")'
      BY LocksStayExclusive
<1>3. EventsAreNumbered' /\ ProfileFollowsEvents'
      BY EventsStayNumbered, TheProfileStays
<1>4. \A t \in Turns : FoldsTheProfile(t)'
      BY FoldsStay
<1>5. Numbered(messages)' /\ \A m \in messages' : pc'[m.turn] = "done"
      BY StepOfTheLog DEF Numbered
<1>6. \A t \in Turns : NumbersOn(t)'
      BY NumbersStay
<1>7. \A e \in Editors : HoldsTheConversation(e)'
      BY EditsStay
<1> QED BY <1>1, <1>2, <1>3, <1>4, <1>5, <1>6, <1>7

THEOREM TheInvariantHolds == Spec => []ConversationInv
BY InitHasTheInvariant, StepKeepsTheInvariant, PTL DEF Spec

\* However many turns overlap, and whichever of them fail or are given up, the
\* profile is the learner's committed events, each folded once, in the order of
\* their numbers: the row lock of record_event (app/memory/events.py).
THEOREM TheProfileFollowsTheEvents == Spec => []ProfileFollowsEvents
BY TheInvariantHolds, PTL DEF ConversationInv

\* The log of list_messages is a list of whole turns that only grows until the
\* conversation is deleted: the transactions, savepoints and row locks of
\* _persist_turns and delete_conversation implement TurnLog.
THEOREM TheConversationIsATurnLog == Spec => IsATurnLog
<1>1. Init => Log!Init
  <2>1. Cardinality({}) = 0
        BY FS_EmptySet
  <2> QED BY <2>1 DEF Init, Log!Init, LogOf
<1>2. ConversationInv /\ [Next]_vars => [Log!Next]_(Log!vars)
      BY StepOfTheLog
<1> QED BY <1>1, <1>2, TheInvariantHolds, PTL DEF Spec, IsATurnLog, Log!Spec

-----------------------------------------------------------------------------
(* The logs *)

LEMMA ALogIsFinite ==
    ASSUME NEW S, NEW s \in Seq(S)
    PROVE  IsFiniteSet(DOMAIN s) /\ Cardinality(DOMAIN s) = Len(s)
<1>1. Len(s) \in Nat /\ DOMAIN s = 1..Len(s)
  OBVIOUS
<1>2. 1 \in Int /\ Len(s) \in Int
  BY <1>1
<1>3. IsFiniteSet(1..Len(s)) /\ Cardinality(1..Len(s)) = IF 1 > Len(s) THEN 0 ELSE Len(s) - 1 + 1
  BY <1>2, FS_Interval, Zenon
<1>4. IsFiniteSet(DOMAIN s) /\ Cardinality(DOMAIN s) = IF 1 > Len(s) THEN 0 ELSE Len(s) - 1 + 1
  BY <1>1, <1>3, Zenon
<1> QED
  BY <1>1, <1>4

\* A log cut to its last n entries is no longer than n, keeps its end, and is
\* whole while it is short enough.
LEMMA TheLastOfALog ==
    ASSUME NEW S, NEW s \in Seq(S), NEW n \in Nat \ {0}
    PROVE  /\ LastOf(s, n) \in Seq(S)
           /\ Len(LastOf(s, n)) = Min2(n, Len(s))
           /\ Len(LastOf(s, n)) <= n /\ Len(LastOf(s, n)) <= Len(s)
           /\ \A i \in 1..Len(LastOf(s, n)) :
                 LastOf(s, n)[i] = s[Len(s) - Len(LastOf(s, n)) + i]
           /\ Len(s) <= n => LastOf(s, n) = s
<1>1. CASE Len(s) <= n
  <2>1. LastOf(s, n) = SubSeq(s, 1, Len(s))
    <3>1. Min2(n, Len(s)) = Len(s) /\ Len(s) - Len(s) + 1 = 1
      BY <1>1 DEF Min2
    <3> QED
      BY <3>1, Zenon DEF LastOf
  <2>2. LastOf(s, n) = s
    <3>1. SubSeq(s, 1, Len(s)) \in Seq(S) /\ Len(SubSeq(s, 1, Len(s))) = Len(s)
          /\ \A i \in 1..Len(s) : SubSeq(s, 1, Len(s))[i] = s[i]
      OBVIOUS
    <3>2. SubSeq(s, 1, Len(s)) = s
      BY <3>1, SeqEqual, Zenon
    <3> QED
      BY <2>1, <3>2
  <2> QED
    BY <1>1, <2>2 DEF Min2
<1>2. CASE Len(s) > n
  <2>1. LastOf(s, n) = SubSeq(s, Len(s) - n + 1, Len(s))
    BY <1>2 DEF LastOf, Min2
  <2>2. Len(LastOf(s, n)) = n /\ LastOf(s, n) \in Seq(S)
    BY <1>2, <2>1
  <2>3. \A i \in 1..n : LastOf(s, n)[i] = s[Len(s) - n + i]
    BY <1>2, <2>1
  <2> QED
    BY <1>2, <2>2, <2>3 DEF Min2
<1> QED
  BY <1>1, <1>2

-----------------------------------------------------------------------------
(* Types *)

LEMMA QuestionsAreChecks ==
    ASSUME NEW q \in Questions \cup {Code}, NEW p \in Problems
    PROVE  Ask(q, p) \in Checks /\ Ask(q, p) # Nothing
           /\ Ask(q, p).q = q
<1>1. Ask(q, p) \in Checks
  BY DEF Ask, Checks
<1>2. Ask(q, p).q = q
  BY DEF Ask
<1> QED
  BY <1>1, <1>2, NothingIsNoCheck

LEMMA TheQuestionOfATurn ==
    ASSUME NEW route, NEW p \in Problems, NEW mistake, NEW opening, NEW trusted
    PROVE  LET question == QuestionForTurn(route, p, mistake, opening, trusted) IN
           question \in Checks \cup {Nothing} /\ (question # Nothing => question.q \in Questions)
<1>1. \A q \in Questions : Ask(q, p) \in Checks /\ Ask(q, p).q = q
  BY QuestionsAreChecks
<1>2. ChainStart[p] # Nothing => ChainStart[p] \in Questions
  BY SomeBank
<1>3. Recognition \in Questions /\ MistakeCheck \in Questions
  BY SomeBank
<1> QED
  BY <1>1, <1>2, <1>3 DEF QuestionForTurn, AskTechnique, Unasked

\* What a graded reply leads to: another question, or one of the same name after
\* its first miss.
LEMMA TheReactionToAGrade ==
    ASSUME TutoringTypeOK, pending # Nothing, NEW grade \in Grades,
           NEW next, next = React(pending, grade)
    PROVE  /\ next \in Checks \cup {Nothing}
           /\ next # Nothing /\ next.q = pending.q => grade # "correct" /\ Attempts(pending) + 1 < MaxAttempts
<1> DEFINE q == pending.q
<1>1. pending \in Checks /\ q \in Questions \cup {Code} /\ pending.key \in Problems
  BY DEF TutoringTypeOK, Checks
<1>2. \A n \in Questions \cup {Code} : Ask(n, pending.key) \in Checks /\ Ask(n, pending.key).q = n
  BY <1>1, QuestionsAreChecks
<1>3. q \in Questions => Successor[q] \in Questions \cup {Code, Nothing} /\ Successor[q] # q /\ Reframe[q] \in Questions
  BY SomeBank
<1>4. q \in Questions => AfterCorrect(pending) \in Checks \cup {Nothing}
                         /\ (AfterCorrect(pending) # Nothing => AfterCorrect(pending).q # q)
  <2>1. CASE q \in Questions /\ Successor[q] = Nothing
    BY <2>1, NothingIsNoCheck DEF AfterCorrect
  <2>2. CASE q \in Questions /\ Successor[q] # Nothing /\ Successor[q] = Code
    <3>1. AfterCorrect(pending) = Ask(Code, pending.key)
      BY <2>2, NothingIsNoCheck DEF AfterCorrect, AskForCode
    <3> QED
      BY <1>2, <2>2, <3>1, SomeBank
  <2>3. CASE q \in Questions /\ Successor[q] # Nothing /\ Successor[q] # Code
    <3>1. AfterCorrect(pending) = Ask(Successor[q], pending.key)
      BY <2>3 DEF AfterCorrect
    <3> QED
      BY <1>2, <1>3, <2>3, <3>1
  <2> QED
    BY <2>1, <2>2, <2>3
<1>5. CASE NotKnown(pending, grade)
  <2>1. next = IF ~HandedOver(pending, grade) /\ q # Code /\ Attempts(pending) + 1 < MaxAttempts
               THEN pending ELSE Nothing
    BY <1>5 DEF React
  <2>2. grade = "dont_know" \/ q = Code
    BY <1>5 DEF NotKnown
  <2> QED
    BY <1>1, <2>1, <2>2
<1>6. CASE ~NotKnown(pending, grade)
  <2>1. q \in Questions /\ ~HandedOver(pending, grade) /\ grade # "dont_know"
    BY <1>1, <1>6 DEF NotKnown, HandedOver
  <2>2. CASE grade = "correct" \/ Taught(pending, grade)
    BY <1>4, <1>6, <2>1, <2>2 DEF React
  <2>3. CASE grade # "correct" /\ ~Taught(pending, grade)
    <3>1. grade \in {"partial", "incorrect"} /\ Attempts(pending) + 1 < MaxAttempts
      <4>1. grade \in {"partial", "incorrect"}
        BY <2>1, <2>3 DEF Grades
      <4>2. Attempts(pending) \in Nat
        <5>1. IsFiniteSet(DOMAIN grades)
          BY ALogIsFinite DEF TutoringTypeOK
        <5> QED
          BY <5>1, FS_Subset, FS_CardinalityType DEF Attempts
      <4> QED
        BY <4>1, <4>2, <2>3 DEF Taught, MaxAttempts
    <3>2. next = IF grade = "partial" THEN [pending EXCEPT !.narrow = @ \/ pending.q \in FollowUp]
                 ELSE [pending EXCEPT !.q = Reframe[pending.q],
                                !.narrow = pending.narrow /\ Reframe[pending.q] = pending.q]
      BY <1>6, <2>1, <2>3 DEF React
    <3>3. next \in Checks
      <4>1. (pending.narrow \/ pending.q \in FollowUp) \in BOOLEAN
            /\ (pending.narrow /\ Reframe[pending.q] = pending.q) \in BOOLEAN
        OBVIOUS
      <4> QED
        BY <1>1, <1>3, <2>1, <3>2, <4>1 DEF Checks
    <3> QED
      BY <3>1, <3>3
  <2> QED
    BY <2>2, <2>3
<1> QED
  BY <1>5, <1>6

LEMMA PutIsTyped ==
    ASSUME TutoringTypeOK, NEW question \in Checks \cup {Nothing}, Put(question)
    PROVE  pending' \in Checks \cup {Nothing}
BY DEF TutoringTypeOK, Put

LEMMA RememberIsTyped ==
    ASSUME TutoringTypeOK, NEW question \in Checks \cup {Nothing}, Remember(question)
    PROVE  asked' \subseteq Questions \X Problems
<1>1. CASE question = Nothing \/ question.q = Code
  BY <1>1 DEF TutoringTypeOK, Remember
<1>2. CASE question # Nothing /\ question.q # Code
  <2>1. question.q \in Questions /\ question.key \in Problems
    BY <1>2 DEF Checks
  <2> QED
    BY <1>2, <2>1 DEF TutoringTypeOK, Remember
<1> QED
  BY <1>1, <1>2

LEMMA LogEvidenceIsTyped ==
    ASSUME TutoringTypeOK, NEW p \in Problems \cup {Nothing}, NEW final \in Evidence, NEW opening \in BOOLEAN,
           LogEvidence(p, final, opening)
    PROVE  /\ log' \in Seq(Evidence \ {"none"}) /\ Len(log') <= MaxLog
           /\ logKey' \in Problems \cup {Nothing}
           /\ streak' \in [{"miss", "right"} -> 0..3]
<1> DEFINE shown == IF opening THEN "none" ELSE final
           all == IF shown = "none" THEN ShownOn(p, opening) ELSE Append(ShownOn(p, opening), shown)
           fresh == p # logKey \/ opening
           run(label) == IF shown = label
                         THEN Min2(3, 1 + IF fresh THEN 0 ELSE streak[label])
                         ELSE IF shown = "none" /\ ~fresh THEN streak[label] ELSE 0
<1>1. ShownOn(p, opening) \in Seq(Evidence \ {"none"})
  BY DEF ShownOn, TutoringTypeOK
<1>2. all \in Seq(Evidence \ {"none"})
  <2>1. shown \in Evidence
    BY DEF Evidence
  <2> HIDE DEF shown
  <2>2. CASE shown = "none"
    BY <1>1, <2>2
  <2>3. CASE shown # "none"
    <3>1. shown \in Evidence \ {"none"}
      BY <2>1, <2>3
    <3> QED
      BY <1>1, <2>3, <3>1
  <2> QED
    BY <2>2, <2>3
<1>3. log' = LastOf(all, MaxLog) /\ logKey' = p
      /\ streak' = [miss |-> run("miss"), right |-> run("right")]
  BY DEF LogEvidence
<1>4. \A label \in {"miss", "right"} : run(label) \in 0..3
  <2>1. \A label \in {"miss", "right"} : streak[label] \in 0..3
    BY DEF TutoringTypeOK
  <2> QED
    BY <2>1 DEF Min2
<1> HIDE DEF all, shown, fresh, run
<1>5. log' \in Seq(Evidence \ {"none"}) /\ Len(log') <= MaxLog
  BY <1>2, <1>3, TheLastOfALog, SomeLimits
<1>6. streak' \in [{"miss", "right"} -> 0..3]
  BY <1>3, <1>4
<1> QED
  BY <1>3, <1>5, <1>6

-----------------------------------------------------------------------------
(* What one turn does *)

\* A question is put, or the one that waits is kept, and nothing is graded.
OnlyAsks ==
    /\ \E question \in Checks \cup {Nothing} :
          Remember(question) /\ (UNCHANGED pending \/ Put(question))
    /\ UNCHANGED <<grades, graded, answered>>

GradesTheReply ==
    /\ pending # Nothing
    /\ \E grade \in Grades :
          /\ \E next \in {Nothing, React(pending, grade)} : Remember(next) /\ Put(next)
          /\ grades' = LastOf(Append(grades,
                         [q |-> pending.q, narrow |-> pending.narrow, grade |-> grade]), MaxGrades)
          /\ recent' = Append(recent, grade)
          /\ graded' = Min2(MaxGrades + 1, graded + 1)
          /\ answered' = [answered EXCEPT ![pending.q] = @ + 1]

\* What was shown is logged, and what is claimed rests on it.
Reads ==
    \E p \in Problems \cup {Nothing}, first, final \in Evidence, opening, teaching \in BOOLEAN,
      by \in {"code", "step", "bank", "talk", "written"} :
        /\ opening => final = "none"
        /\ LogEvidence(p, final, opening)
        /\ told' = Nothing \/ Say(p, first, final, opening, teaching, by)

HandsOut ==
    \E request \in Asked, base \in 1..3, p \in Handed, alone, mistake \in BOOLEAN :
        PracticeAgent(request, base, p, alone, mistake)

LEMMA HandingOutOnlyAsks ==
    ASSUME HandsOut
    PROVE  OnlyAsks /\ UNCHANGED <<log, logKey, streak>> /\ told' = Nothing
           /\ active' \in Problems /\ since' = Len(grades) /\ recent' = <<>>
<1>1. PICK request \in Asked, base \in 1..3, p \in Handed, alone \in BOOLEAN, mistake \in BOOLEAN :
             PracticeAgent(request, base, p, alone, mistake)
  BY DEF HandsOut
<1> DEFINE question == IF alone THEN Nothing ELSE QuestionForTurn("practice", p, mistake, TRUE, TRUE)
<1>2. p \in Problems
  BY SomeProblems
<1>3. question \in Checks \cup {Nothing}
  BY <1>2, TheQuestionOfATurn, Zenon
<1>4. Remember(question) /\ Put(question)
  BY <1>1, Zenon DEF PracticeAgent
<1> HIDE DEF question
<1>5. since' = Len(grades) /\ recent' = <<>> /\ active' = p /\ told' = Nothing
      /\ UNCHANGED <<grades, log, logKey, graded, streak, answered>>
  BY <1>1 DEF PracticeAgent
<1> QED
  BY <1>2, <1>3, <1>4, <1>5 DEF OnlyAsks

LEMMA WhatATurnDoes ==
    ASSUME TutoringTypeOK, Turn
    PROVE  /\ turns' \in 0..MaxTurns /\ active' \in Problems \cup {Nothing}
           /\ \/ HandsOut
              \/ OnlyAsks /\ Reads /\ UNCHANGED <<since, practice, recent>>
              \/ GradesTheReply /\ Reads /\ UNCHANGED <<since, practice>>
<1> DEFINE Goal == /\ active' \in Problems \cup {Nothing}
                   /\ \/ HandsOut
                      \/ OnlyAsks /\ Reads /\ UNCHANGED <<since, practice, recent>>
                      \/ GradesTheReply /\ Reads /\ UNCHANGED <<since, practice>>
<1>1. turns' \in 0..MaxTurns
  BY SomeLimits DEF Turn, NextTurn, TutoringTypeOK
<1>2. active \in Problems \cup {Nothing} /\ pending \in Checks \cup {Nothing}
  BY DEF TutoringTypeOK
<1>3. HandsOut => Goal
  BY HandingOutOnlyAsks
<1>4. ASSUME NEW route \in {"dsa", "explain"}, NEW p \in Problems, NEW first \in Evidence,
             NEW final \in Evidence, NEW asksCode \in BOOLEAN, NEW guided \in BOOLEAN,
             NEW reveals \in BOOLEAN, NEW mistake \in BOOLEAN, NEW trusted \in BOOLEAN,
             Tutor(route, p, first, final, asksCode, guided, reveals, mistake, trusted)
      PROVE  Goal
  <2> DEFINE opening == p # active
             by == IF reveals THEN "code" ELSE IF guided \/ route = "explain" THEN "step" ELSE "bank"
             question == IF reveals THEN Nothing
                         ELSE OneQuestion(QuestionForTurn(route, p, mistake, opening, trusted),
                                     guided, p, mistake)
  <2>1. question \in Checks \cup {Nothing}
    <3>1. QuestionForTurn(route, p, mistake, opening, trusted) \in Checks \cup {Nothing}
      BY TheQuestionOfATurn, Zenon
    <3> QED
      BY <3>1, Zenon DEF OneQuestion
  <2>2. UNCHANGED pending \/ Put(question)
    BY <1>4, Zenon DEF Tutor
  <2>3. Remember(question) /\ UNCHANGED <<grades, graded, answered>>
    BY <1>4, Zenon DEF Tutor
  <2>4. /\ opening => final = "none"
        /\ LogEvidence(p, final, opening)
        /\ Say(p, first, final, opening, ~asksCode, by)
    BY <1>4, Zenon DEF Tutor
  <2>5. active' = p /\ UNCHANGED <<since, practice, recent>>
    BY <1>4, Zenon DEF Tutor
  <2>6. opening \in BOOLEAN /\ (~asksCode) \in BOOLEAN /\ by \in {"code", "step", "bank", "talk", "written"}
    OBVIOUS
  <2> HIDE DEF question, opening, by
  <2>7. OnlyAsks
    BY <2>1, <2>2, <2>3 DEF OnlyAsks
  <2>8. \E teaching \in BOOLEAN : /\ opening => final = "none"
                                  /\ LogEvidence(p, final, opening)
                                  /\ Say(p, first, final, opening, teaching, by)
    BY <2>4, <2>6, Zenon
  <2>9. \E open, teaching \in BOOLEAN : /\ open => final = "none"
                                        /\ LogEvidence(p, final, open)
                                        /\ Say(p, first, final, open, teaching, by)
    BY <2>6, <2>8, Zenon
  <2>10. Reads
    BY <2>6, <2>9 DEF Reads
  <2> QED
    BY <2>5, <2>7, <2>10
<1>5. ASSUME NEW final \in Evidence, NEW brought \in BOOLEAN, NEW mistake \in BOOLEAN,
             DebugAgent(final, brought, mistake)
      PROVE  Goal
  <2> DEFINE question == QuestionForTurn("debug", active, mistake, FALSE, FALSE)
  <2>1. question \in Checks \cup {Nothing}
    <3>1. active \in Problems
      BY <1>2, <1>5 DEF DebugAgent
    <3> QED
      BY <3>1, TheQuestionOfATurn, Zenon
  <2>2. UNCHANGED pending \/ Put(question)
    BY <1>5, Zenon DEF DebugAgent
  <2>3. /\ Remember(question) /\ LogEvidence(active, final, FALSE) /\ told' = Nothing
        /\ UNCHANGED <<grades, since, practice, active, recent, graded, answered>>
    BY <1>5, Zenon DEF DebugAgent
  <2> HIDE DEF question
  <2>4. OnlyAsks
    BY <2>1, <2>2, <2>3 DEF OnlyAsks
  <2>5. Reads
    BY <1>2, <2>3, Zenon DEF Reads
  <2> QED
    BY <1>2, <2>3, <2>4, <2>5
<1>6. ASSUME NEW first \in Evidence, NEW final \in Evidence, NEW mistake \in BOOLEAN,
             DiscussAgent(first, final, mistake)
      PROVE  Goal
  <2> DEFINE question == QuestionForTurn("discuss", active, mistake, FALSE, FALSE)
  <2>1. question \in Checks \cup {Nothing}
    <3>1. active \in Problems
      BY <1>2, <1>6 DEF DiscussAgent
    <3> QED
      BY <3>1, TheQuestionOfATurn, Zenon
  <2>2. UNCHANGED pending \/ Put(question)
    BY <1>6, Zenon DEF DiscussAgent
  <2>3. /\ Remember(question) /\ LogEvidence(active, final, FALSE)
        /\ Say(active, first, final, FALSE, TRUE, "talk")
        /\ UNCHANGED <<grades, since, practice, active, recent, graded, answered>>
    BY <1>6, Zenon DEF DiscussAgent
  <2> HIDE DEF question
  <2>4. OnlyAsks
    BY <2>1, <2>2, <2>3 DEF OnlyAsks
  <2>5. Reads
    BY <1>2, <2>3, Zenon DEF Reads
  <2> QED
    BY <1>2, <2>3, <2>4, <2>5
<1>7. ASSUME NEW grade \in Grades, NEW written \in BOOLEAN, NEW guided \in BOOLEAN,
             NEW reading \in Evidence \ {"none"}, GradeAnswer(grade, written, guided, reading)
      PROVE  Goal
  <2>1. GradesTheReply
    BY <1>7 DEF GradeAnswer, GradesTheReply
  <2>2. PICK final \in Evidence, by \in {"step", "bank", "written"} :
               LogEvidence(active, final, FALSE) /\ Say(active, Showed(grade), final, FALSE, TRUE, by)
    BY <1>7 DEF GradeAnswer, Showed, Evidence
  <2>3. Showed(grade) \in Evidence
    BY DEF Showed, Evidence
  <2>4. Reads
    BY <1>2, <2>2, <2>3 DEF Reads
  <2>5. UNCHANGED <<since, practice, active>>
    BY <1>7 DEF GradeAnswer
  <2> QED
    BY <1>2, <2>1, <2>4, <2>5
<1> HIDE DEF Goal
<1>8. Goal
  <2>1. CASE \E route \in {"dsa", "explain"}, p \in Problems, first, final \in Evidence,
                asksCode, guided, reveals, mistake, trusted \in BOOLEAN :
                Tutor(route, p, first, final, asksCode, guided, reveals, mistake, trusted)
    BY <1>4, <2>1
  <2>2. CASE \E final \in Evidence, brought, mistake \in BOOLEAN :
                DebugAgent(final, brought, mistake)
    BY <1>5, <2>2
  <2>3. CASE \E first, final \in Evidence, mistake \in BOOLEAN :
                DiscussAgent(first, final, mistake)
    BY <1>6, <2>3
  <2>4. CASE \E grade \in Grades, written, guided \in BOOLEAN, reading \in Evidence \ {"none"} :
                GradeAnswer(grade, written, guided, reading)
    BY <1>7, <2>4
  <2> QED
    BY <1>3, <2>1, <2>2, <2>3, <2>4 DEF Turn, HandsOut
<1> QED
  BY <1>1, <1>8 DEF Goal

LEMMA TypesHold ==
    ASSUME TutoringTypeOK, Turn
    PROVE  TutoringTypeOK'
<1>1. turns' \in 0..MaxTurns /\ active' \in Problems \cup {Nothing}
  BY WhatATurnDoes
<1>2. OnlyAsks => pending' \in Checks \cup {Nothing}
                  /\ asked' \subseteq Questions \X Problems
                  /\ UNCHANGED <<grades, graded, answered>>
  <2> SUFFICES ASSUME OnlyAsks PROVE pending' \in Checks \cup {Nothing}
                                     /\ asked' \subseteq Questions \X Problems
    BY DEF OnlyAsks
  <2>1. PICK question \in Checks \cup {Nothing} :
               Remember(question) /\ (UNCHANGED pending \/ Put(question))
    BY DEF OnlyAsks
  <2>2. asked' \subseteq Questions \X Problems
    BY <2>1, RememberIsTyped
  <2>3. pending' \in Checks \cup {Nothing}
    BY <2>1, PutIsTyped DEF TutoringTypeOK
  <2> QED
    BY <2>2, <2>3
<1>3. Reads => /\ log' \in Seq(Evidence \ {"none"}) /\ Len(log') <= MaxLog
               /\ logKey' \in Problems \cup {Nothing}
               /\ streak' \in [{"miss", "right"} -> 0..3]
  BY LogEvidenceIsTyped, Zenon DEF Reads
<1>4. GradesTheReply =>
          /\ pending' \in Checks \cup {Nothing}
          /\ asked' \subseteq Questions \X Problems
          /\ grades' \in Seq([q : Questions \cup {Code}, narrow : BOOLEAN, grade : Grades])
          /\ Len(grades') <= MaxGrades
          /\ recent' \in Seq(Grades) /\ graded' \in Nat
          /\ answered' \in [Questions \cup {Code} -> Nat]
  <2> SUFFICES ASSUME GradesTheReply
               PROVE  /\ pending' \in Checks \cup {Nothing}
                      /\ asked' \subseteq Questions \X Problems
                      /\ grades' \in Seq([q : Questions \cup {Code}, narrow : BOOLEAN, grade : Grades])
                      /\ Len(grades') <= MaxGrades
                      /\ recent' \in Seq(Grades) /\ graded' \in Nat
                      /\ answered' \in [Questions \cup {Code} -> Nat]
    OBVIOUS
  <2>1. PICK grade \in Grades :
             /\ \E next \in {Nothing, React(pending, grade)} : Remember(next) /\ Put(next)
             /\ grades' = LastOf(Append(grades,
                            [q |-> pending.q, narrow |-> pending.narrow, grade |-> grade]), MaxGrades)
             /\ recent' = Append(recent, grade)
             /\ graded' = Min2(MaxGrades + 1, graded + 1)
             /\ answered' = [answered EXCEPT ![pending.q] = @ + 1]
    BY DEF GradesTheReply
  <2>2. PICK next \in {Nothing, React(pending, grade)} : Remember(next) /\ Put(next)
    BY <2>1
  <2>3. next \in Checks \cup {Nothing}
    BY TheReactionToAGrade DEF GradesTheReply
  <2>4. pending' \in Checks \cup {Nothing} /\ asked' \subseteq Questions \X Problems
    BY <2>2, <2>3, PutIsTyped, RememberIsTyped
  <2>5. /\ grades' \in Seq([q : Questions \cup {Code}, narrow : BOOLEAN, grade : Grades])
        /\ Len(grades') <= MaxGrades
    <3> DEFINE reply == [q |-> pending.q, narrow |-> pending.narrow, grade |-> grade]
    <3>1. reply \in [q : Questions \cup {Code}, narrow : BOOLEAN, grade : Grades]
      BY DEF TutoringTypeOK, GradesTheReply, Checks
    <3>2. grades' = LastOf(Append(grades, reply), MaxGrades)
      BY <2>1
    <3> HIDE DEF reply
    <3>3. Append(grades, reply) \in Seq([q : Questions \cup {Code}, narrow : BOOLEAN, grade : Grades])
      BY <3>1 DEF TutoringTypeOK
    <3> QED
      BY <3>2, <3>3, TheLastOfALog, SomeLimits
  <2>6. recent' \in Seq(Grades) /\ graded' \in Nat
    BY <2>1, SomeLimits DEF TutoringTypeOK, Min2
  <2>7. answered' \in [Questions \cup {Code} -> Nat]
    <3>1. pending.q \in Questions \cup {Code} /\ answered \in [Questions \cup {Code} -> Nat]
      BY DEF TutoringTypeOK, GradesTheReply, Checks
    <3> QED
      BY <2>1, <3>1
  <2> QED
    BY <2>4, <2>5, <2>6, <2>7
<1>5. CASE HandsOut
  <2>1. Len(grades) \in 0..MaxGrades /\ <<>> \in Seq(Grades)
    BY SomeLimits DEF TutoringTypeOK
  <2> QED
    BY <1>1, <1>2, <1>5, <2>1, HandingOutOnlyAsks DEF TutoringTypeOK
<1>6. CASE OnlyAsks /\ Reads /\ UNCHANGED <<since, practice, recent>>
  BY <1>1, <1>2, <1>3, <1>6 DEF TutoringTypeOK
<1>7. CASE GradesTheReply /\ Reads /\ UNCHANGED <<since, practice>>
  BY <1>1, <1>3, <1>4, <1>7 DEF TutoringTypeOK
<1> QED
  BY <1>5, <1>6, <1>7, WhatATurnDoes

-----------------------------------------------------------------------------
(* Practice *)

\* While the grades are all there, those given since the last problem are the ones
\* after its position.
RecentGradesAreLogged ==
    graded <= MaxGrades =>
        /\ Len(grades) = graded
        /\ since + Len(recent) = Len(grades)
        /\ \A i \in 1..Len(recent) : grades[since + i].grade = recent[i]

LEMMA RecentGradesStayLogged ==
    ASSUME TutoringTypeOK, RecentGradesAreLogged, Turn
    PROVE  RecentGradesAreLogged'
<1>1. CASE HandsOut
  <2>1. since' = Len(grades) /\ recent' = <<>> /\ UNCHANGED <<grades, graded>>
    BY <1>1, HandingOutOnlyAsks DEF OnlyAsks
  <2> QED
    BY <2>1 DEF RecentGradesAreLogged, TutoringTypeOK
<1>2. CASE OnlyAsks /\ UNCHANGED <<since, recent>>
  BY <1>2 DEF RecentGradesAreLogged, OnlyAsks
<1>3. CASE GradesTheReply /\ UNCHANGED since
  <2>1. PICK grade \in Grades :
             /\ grades' = LastOf(Append(grades,
                            [q |-> pending.q, narrow |-> pending.narrow, grade |-> grade]), MaxGrades)
             /\ recent' = Append(recent, grade)
             /\ graded' = Min2(MaxGrades + 1, graded + 1)
    BY <1>3 DEF GradesTheReply
  <2>2. SUFFICES ASSUME graded' <= MaxGrades
                 PROVE  /\ Len(grades') = graded'
                        /\ since + Len(recent') = Len(grades')
                        /\ \A i \in 1..Len(recent') : grades'[since + i].grade = recent'[i]
    BY <1>3 DEF RecentGradesAreLogged
  <2>3. graded < MaxGrades /\ graded' = graded + 1
    BY <2>1, <2>2, SomeLimits DEF Min2, TutoringTypeOK
  <2> DEFINE reply == [q |-> pending.q, narrow |-> pending.narrow, grade |-> grade]
             S == [q : Questions \cup {Code}, narrow : BOOLEAN, grade : Grades]
  <2>4. reply \in S /\ reply.grade = grade
    BY <1>3 DEF TutoringTypeOK, GradesTheReply, Checks
  <2>5. grades' = LastOf(Append(grades, reply), MaxGrades)
    BY <2>1
  <2>6. grades \in Seq(S)
    BY DEF TutoringTypeOK
  <2> HIDE DEF reply, S
  <2>7. /\ Len(grades) = graded /\ since + Len(recent) = Len(grades)
        /\ \A i \in 1..Len(recent) : grades[since + i].grade = recent[i]
    BY <2>3, SomeLimits DEF RecentGradesAreLogged, TutoringTypeOK
  <2>8. grades' = Append(grades, reply)
    <3>1. Append(grades, reply) \in Seq(S) /\ Len(Append(grades, reply)) <= MaxGrades
      BY <2>3, <2>4, <2>6, <2>7, SomeLimits DEF TutoringTypeOK
    <3> QED
      BY <2>5, <3>1, TheLastOfALog, SomeLimits
  <2>9. recent \in Seq(Grades) /\ since \in Nat
    BY DEF TutoringTypeOK
  <2>10. Len(grades') = Len(grades) + 1 /\ Len(recent') = Len(recent) + 1
    BY <2>1, <2>4, <2>6, <2>8, <2>9
  <2>11. ASSUME NEW i \in 1..Len(recent')
         PROVE  grades'[since + i].grade = recent'[i]
    <3>1. CASE i = Len(recent) + 1
      BY <2>1, <2>4, <2>6, <2>7, <2>8, <2>9, <3>1
    <3>2. CASE i \in 1..Len(recent)
      <4>1. since + i \in 1..Len(grades)
        BY <2>7, <2>9, <3>2
      <4>2. grades'[since + i] = grades[since + i]
        BY <2>4, <2>6, <2>8, <4>1
      <4>3. recent'[i] = recent[i]
        BY <2>1, <2>9, <3>2
      <4> QED
        BY <2>7, <3>2, <4>2, <4>3
    <3> QED
      BY <2>9, <2>10, <2>11, <3>1, <3>2
  <2>12. Len(grades') = graded' /\ since + Len(recent') = Len(grades')
    BY <2>3, <2>7, <2>9, <2>10
  <2> QED
    BY <2>11, <2>12, Zenon
<1> QED
  BY <1>1, <1>2, <1>3, WhatATurnDoes

\* Until it is full, the log of grades keeps the grades of every reply.
LEMMA TheLogGrows ==
    ASSUME TutoringTypeOK, RecentGradesAreLogged, GradesTheReply, graded' <= MaxGrades
    PROVE  \E reply \in [q : Questions \cup {Code}, narrow : BOOLEAN, grade : Grades] :
              reply.q = pending.q /\ grades' = Append(grades, reply)
<1>1. PICK grade \in Grades :
             grades' = LastOf(Append(grades,
                          [q |-> pending.q, narrow |-> pending.narrow, grade |-> grade]), MaxGrades)
  BY DEF GradesTheReply
<1>2. graded < MaxGrades
  BY SomeLimits DEF GradesTheReply, Min2, TutoringTypeOK
<1> DEFINE reply == [q |-> pending.q, narrow |-> pending.narrow, grade |-> grade]
           S == [q : Questions \cup {Code}, narrow : BOOLEAN, grade : Grades]
<1>3. reply \in S /\ reply.q = pending.q
  BY DEF TutoringTypeOK, GradesTheReply, Checks
<1>4. grades' = LastOf(Append(grades, reply), MaxGrades)
  BY <1>1
<1>5. grades \in Seq(S)
  BY DEF TutoringTypeOK
<1> HIDE DEF reply
<1>6. Len(grades) = graded
  BY <1>2, SomeLimits DEF RecentGradesAreLogged, TutoringTypeOK
<1>7. \E r \in S : r.q = pending.q /\ grades' = Append(grades, r)
  <2> HIDE DEF S
  <2>1. Append(grades, reply) \in Seq(S) /\ Len(Append(grades, reply)) <= MaxGrades
    BY <1>2, <1>3, <1>5, <1>6, SomeLimits DEF TutoringTypeOK
  <2>2. grades' = Append(grades, reply)
    BY <1>4, <2>1, TheLastOfALog, SomeLimits
  <2> QED
    BY <1>3, <2>2
<1> QED
  BY <1>7

\* While the grades are all there, a question that was answered is among them.
AnswersAreLogged ==
    graded <= MaxGrades =>
        \A q \in Questions \cup {Code} :
            answered[q] >= 1 => \E i \in DOMAIN grades : grades[i].q = q

LEMMA ARecordIsAnAttempt ==
    ASSUME TutoringTypeOK, NEW i \in DOMAIN grades, grades[i].q = pending.q
    PROVE  Attempts(pending) \in Nat /\ Attempts(pending) >= 1
<1> DEFINE T == {j \in DOMAIN grades : grades[j].q = pending.q}
<1>1. IsFiniteSet(DOMAIN grades)
  BY ALogIsFinite DEF TutoringTypeOK
<1>2. IsFiniteSet(T) /\ i \in T
  BY <1>1, FS_Subset
<1>3. Cardinality(T) \in Nat /\ Cardinality(T) # 0
  BY <1>2, FS_CardinalityType, FS_EmptySet
<1>4. Attempts(pending) = Cardinality(T)
  BY DEF Attempts
<1> QED
  BY <1>3, <1>4

LEMMA AnswersStayLogged ==
    ASSUME TutoringTypeOK, RecentGradesAreLogged, AnswersAreLogged, Turn
    PROVE  AnswersAreLogged'
<1>1. CASE OnlyAsks
  BY <1>1 DEF OnlyAsks, AnswersAreLogged
<1>2. CASE GradesTheReply
  <2> SUFFICES ASSUME graded' <= MaxGrades, NEW q \in Questions \cup {Code}, answered'[q] >= 1
               PROVE  \E i \in DOMAIN grades' : grades'[i].q = q
    BY DEF AnswersAreLogged
  <2>1. PICK reply \in [q : Questions \cup {Code}, narrow : BOOLEAN, grade : Grades] :
             reply.q = pending.q /\ grades' = Append(grades, reply)
    BY <1>2, TheLogGrows
  <2>2. graded <= MaxGrades /\ answered' = [answered EXCEPT ![pending.q] = @ + 1]
    BY <1>2, SomeLimits DEF GradesTheReply, Min2, TutoringTypeOK
  <2>3. CASE q = pending.q
    <3>1. Len(grades) + 1 \in DOMAIN grades' /\ grades'[Len(grades) + 1] = reply
      BY <2>1 DEF TutoringTypeOK
    <3>2. grades'[Len(grades) + 1].q = q
      BY <2>1, <2>3, <3>1
    <3> QED
      BY <3>1, <3>2, Zenon
  <2>4. CASE q # pending.q
    <3>1. answered'[q] = answered[q]
      BY <2>2, <2>4 DEF TutoringTypeOK
    <3>2. PICK i \in DOMAIN grades : grades[i].q = q
      BY <2>2, <3>1 DEF AnswersAreLogged
    <3>3. i \in DOMAIN grades' /\ grades'[i] = grades[i]
      BY <2>1 DEF TutoringTypeOK
    <3> QED
      BY <3>2, <3>3
  <2> QED
    BY <2>3, <2>4
<1> QED
  BY <1>1, <1>2, WhatATurnDoes, HandingOutOnlyAsks

\* A second answer to a question moves on.
LEMMA ASecondAnswerMovesOn ==
    ASSUME TutoringTypeOK, AnswersAreLogged, Turn, graded <= MaxGrades,
           NEW q \in Questions \cup {Code}, answered'[q] > answered[q], answered'[q] >= MaxAttempts
    PROVE  pending' = Nothing \/ pending'.q # q
<1>1. GradesTheReply
  <2>1. OnlyAsks => answered' = answered
    BY DEF OnlyAsks
  <2>2. ~(answered[q] > answered[q])
    <3>1. answered[q] \in Nat
      BY DEF TutoringTypeOK
    <3> QED
      BY <3>1
  <2> QED
    BY <2>1, <2>2, WhatATurnDoes, HandingOutOnlyAsks
<1>2. answered' = [answered EXCEPT ![pending.q] = @ + 1]
  BY <1>1 DEF GradesTheReply
<1>3. pending.q = q /\ answered[q] >= 1
  BY <1>2 DEF TutoringTypeOK, MaxAttempts
<1>4. PICK i \in DOMAIN grades : grades[i].q = pending.q
  BY <1>3 DEF AnswersAreLogged
<1>5. Attempts(pending) \in Nat /\ Attempts(pending) >= 1
  BY <1>4, ARecordIsAnAttempt
<1>6. PICK grade \in Grades : \E next \in {Nothing, React(pending, grade)} : Put(next)
  BY <1>1 DEF GradesTheReply
<1>7. PICK next \in {Nothing, React(pending, grade)} : pending' = next
  BY <1>6 DEF Put
<1>8. next # Nothing => next.q # pending.q
  BY <1>1, <1>5, TheReactionToAGrade DEF GradesTheReply, MaxAttempts
<1> QED
  BY <1>3, <1>7, <1>8

LEMMA SinceThenAreTheRecent ==
    ASSUME TutoringTypeOK, RecentGradesAreLogged, graded <= MaxGrades
    PROVE  /\ Len(SinceLastPractice) = Len(recent)
           /\ \A i \in 1..Len(recent) : SinceLastPractice[i].grade = recent[i]
           /\ ~Struggled => \A i \in DOMAIN LastOf(recent, 2) : ~Missed(LastOf(recent, 2)[i])
           /\ Succeeded => \E i \in DOMAIN recent : recent[i] = "correct"
<1> DEFINE S == [q : Questions \cup {Code}, narrow : BOOLEAN, grade : Grades]
           those == SinceLastPractice
<1>1. grades \in Seq(S) /\ recent \in Seq(Grades) /\ since \in Nat
  BY DEF TutoringTypeOK
<1>2. /\ since + Len(recent) = Len(grades)
      /\ \A i \in 1..Len(recent) : grades[since + i].grade = recent[i]
  BY DEF RecentGradesAreLogged
<1> HIDE DEF S
<1>3. those \in Seq(S) /\ Len(those) = Len(recent)
      /\ \A i \in 1..Len(recent) : those[i] = grades[since + i]
  BY <1>1, <1>2 DEF SinceLastPractice
<1>4. \A i \in 1..Len(recent) : those[i].grade = recent[i]
  BY <1>2, <1>3
<1> HIDE DEF those
<1>5. /\ LastOf(those, 2) \in Seq(S) /\ LastOf(recent, 2) \in Seq(Grades)
      /\ Len(LastOf(those, 2)) = Len(LastOf(recent, 2))
      /\ Len(LastOf(recent, 2)) <= Len(recent)
      /\ \A i \in 1..Len(LastOf(those, 2)) : LastOf(those, 2)[i] = those[Len(those) - Len(LastOf(those, 2)) + i]
      /\ \A i \in 1..Len(LastOf(recent, 2)) :
             LastOf(recent, 2)[i] = recent[Len(recent) - Len(LastOf(recent, 2)) + i]
  <2>1. /\ LastOf(those, 2) \in Seq(S) /\ Len(LastOf(those, 2)) = Min2(2, Len(those))
        /\ \A i \in 1..Len(LastOf(those, 2)) :
              LastOf(those, 2)[i] = those[Len(those) - Len(LastOf(those, 2)) + i]
    BY <1>3, TheLastOfALog
  <2>2. /\ LastOf(recent, 2) \in Seq(Grades) /\ Len(LastOf(recent, 2)) = Min2(2, Len(recent))
        /\ Len(LastOf(recent, 2)) <= Len(recent)
        /\ \A i \in 1..Len(LastOf(recent, 2)) :
              LastOf(recent, 2)[i] = recent[Len(recent) - Len(LastOf(recent, 2)) + i]
    BY <1>1, TheLastOfALog
  <2> QED
    BY <1>3, <2>1, <2>2, Zenon
<1>6. ASSUME NEW i \in DOMAIN LastOf(recent, 2)
      PROVE  LastOf(those, 2)[i].grade = LastOf(recent, 2)[i] /\ i \in DOMAIN LastOf(those, 2)
  <2>1. i \in 1..Len(LastOf(recent, 2)) /\ Len(recent) - Len(LastOf(recent, 2)) + i \in 1..Len(recent)
    BY <1>1, <1>5
  <2> DEFINE j == Len(recent) - Len(LastOf(recent, 2)) + i
  <2>2. i \in DOMAIN LastOf(those, 2)
    BY <1>5, <2>1
  <2>3. LastOf(those, 2)[i] = those[j] /\ LastOf(recent, 2)[i] = recent[j]
    BY <1>3, <1>5, <2>1
  <2> QED
    BY <1>4, <2>1, <2>2, <2>3
<1>7. ~Struggled => \A i \in DOMAIN LastOf(recent, 2) : ~Missed(LastOf(recent, 2)[i])
  BY <1>6 DEF Struggled, Missed, those
<1>8. Succeeded => \E i \in DOMAIN recent : recent[i] = "correct"
  BY <1>1, <1>3, <1>4 DEF Succeeded, those
<1> QED
  BY <1>3, <1>4, <1>7, <1>8 DEF those

\* What a step up rests on.
LEMMA TheReasonForALevel ==
    ASSUME NEW base, NEW request, NEW reason, reason = SessionDifficulty(base, request).reason
    PROVE  /\ reason = "harder" => ~Struggled
           /\ reason \in {"harder_after_success", "up_after_success"} => Succeeded /\ ~Struggled
BY DEF SessionDifficulty, Succeeded

LEMMA AHarderProblemIsEarned ==
    ASSUME TutoringTypeOK, RecentGradesAreLogged, Turn, practice' # practice, graded <= MaxGrades
    PROVE  /\ practice'.reason \in {"harder", "harder_after_success", "up_after_success"} =>
                 \A i \in DOMAIN LastOf(recent, 2) : ~Missed(LastOf(recent, 2)[i])
           /\ practice'.reason \in {"harder_after_success", "up_after_success"} =>
                 \E i \in DOMAIN recent : recent[i] = "correct"
<1>1. HandsOut
  BY WhatATurnDoes
<1>2. PICK request, base : practice'.reason = SessionDifficulty(base, request).reason
  BY <1>1 DEF HandsOut, PracticeAgent
<1> QED
  BY <1>2, TheReasonForALevel, SinceThenAreTheRecent

-----------------------------------------------------------------------------
(* What was shown *)

\* The last k entries of a log are this label.
EndsWith(label, k, s) == k <= Len(s) /\ \A i \in (Len(s) - k + 1)..Len(s) : s[i] = label

\* What the log shows of the end of a run of misses, or of right answers, was so.
StreaksAreTrue ==
    \A label \in {"miss", "right"} : \A k \in 1..3 : EndsWith(label, k, log) => streak[label] >= k

LEMMA AStreakEndsTheLog ==
    ASSUME NEW label, NEW now, NEW S, NEW all \in Seq(S), NEW h, NEW k \in Nat \ {0},
           all = IF now = "none" THEN h ELSE Append(h, now),
           Streak(label, now, h) >= k
    PROVE  EndsWith(label, k, all)
<1> DEFINE run == {i \in DOMAIN all : \A j \in i..Len(all) : all[j] = label}
<1>1. Streak(label, now, h) = Cardinality(run)
  BY DEF Streak
<1>2. Len(all) \in Nat /\ DOMAIN all = 1..Len(all) /\ IsFiniteSet(DOMAIN all)
      /\ Cardinality(DOMAIN all) = Len(all)
  <2>1. Len(all) \in Nat /\ DOMAIN all = 1..Len(all)
    OBVIOUS
  <2> QED
    BY <2>1, ALogIsFinite
<1>3. IsFiniteSet(run) /\ Cardinality(run) \in Nat
  BY <1>2, FS_Subset, FS_CardinalityType
<1>4. k <= Len(all)
  <2>1. Cardinality(run) <= Cardinality(DOMAIN all)
    BY <1>2, FS_Subset
  <2> HIDE DEF run
  <2> QED
    BY <1>1, <1>2, <1>3, <2>1
<1>5. ASSUME NEW i \in (Len(all) - k + 1)..Len(all), all[i] # label
      PROVE  FALSE
  <2> DEFINE above == (i + 1)..Len(all)
  <2>1. i \in 1..Len(all)
    BY <1>2, <1>4, <1>5
  <2>2. run \subseteq above
    BY <1>2, <1>5, <2>1
  <2>3. IsFiniteSet(above) /\ Cardinality(above) = Len(all) - i
    <3>1. i + 1 \in Int /\ Len(all) \in Int
      BY <1>2, <2>1
    <3>2. IsFiniteSet(above) /\ Cardinality(above) = IF i + 1 > Len(all) THEN 0 ELSE Len(all) - (i + 1) + 1
      BY <3>1, FS_Interval
    <3> QED
      BY <1>2, <2>1, <3>2
  <2>4. Cardinality(run) <= Len(all) - i
    <3> HIDE DEF above, run
    <3> QED
      BY <2>2, <2>3, FS_Subset
  <2> HIDE DEF run, above
  <2> QED
    BY <1>1, <1>2, <1>3, <1>5, <2>1, <2>4
<1> QED
  BY <1>4, <1>5 DEF EndsWith

LEMMA TheStreakIsANumber ==
    ASSUME NEW label, NEW now, NEW S, NEW all \in Seq(S), NEW h,
           all = IF now = "none" THEN h ELSE Append(h, now)
    PROVE  Streak(label, now, h) \in Nat
<1> DEFINE run == {i \in DOMAIN all : \A j \in i..Len(all) : all[j] = label}
<1>1. Streak(label, now, h) = Cardinality(run)
  BY DEF Streak
<1>2. IsFiniteSet(DOMAIN all)
  BY ALogIsFinite
<1>3. Cardinality(run) \in Nat
  BY <1>2, FS_Subset, FS_CardinalityType
<1> QED
  BY <1>1, <1>3

LEMMA TheEndOfTheLast ==
    ASSUME NEW S, NEW s \in Seq(S), NEW n \in Nat \ {0}, NEW label, NEW k \in Nat \ {0},
           EndsWith(label, k, LastOf(s, n))
    PROVE  EndsWith(label, k, s)
<1> DEFINE kept == LastOf(s, n)
<1>1. /\ Len(kept) \in Nat /\ Len(s) \in Nat /\ Len(kept) <= Len(s)
      /\ \A i \in 1..Len(kept) : kept[i] = s[Len(s) - Len(kept) + i]
  BY TheLastOfALog
<1>2. k <= Len(kept) /\ \A i \in (Len(kept) - k + 1)..Len(kept) : kept[i] = label
  BY DEF EndsWith
<1> HIDE DEF kept
<1>3. ASSUME NEW i \in (Len(s) - k + 1)..Len(s)
      PROVE  s[i] = label
  <2> DEFINE j == i - (Len(s) - Len(kept))
  <2>1. j \in 1..Len(kept) /\ j \in (Len(kept) - k + 1)..Len(kept) /\ Len(s) - Len(kept) + j = i
    BY <1>1, <1>2, <1>3
  <2> QED
    BY <1>1, <1>2, <2>1
<1> QED
  BY <1>1, <1>2, <1>3 DEF EndsWith

\* The log of a turn: what was shown before on its subject, and now.
TheWholeLog(p, final, opening) ==
    IF opening \/ final = "none" THEN ShownOn(p, opening) ELSE Append(ShownOn(p, opening), final)

\* What a turn adds to the log is added to the run of misses or of right answers.
LEMMA TheStreakGrowsWithTheLog ==
    ASSUME TutoringTypeOK, StreaksAreTrue, NEW p, NEW final \in Evidence, NEW opening \in BOOLEAN,
           LogEvidence(p, final, opening),
           NEW label \in {"miss", "right"}, NEW k \in 1..3,
           EndsWith(label, k, TheWholeLog(p, final, opening))
    PROVE  streak'[label] >= k
<1> DEFINE before == ShownOn(p, opening)
           shown == IF opening THEN "none" ELSE final
           fresh == p # logKey \/ opening
<1>1. streak'[label] = IF shown = label
                       THEN Min2(3, 1 + IF fresh THEN 0 ELSE streak[label])
                       ELSE IF shown = "none" /\ ~fresh THEN streak[label] ELSE 0
  BY DEF LogEvidence
<1>2. before \in Seq(Evidence \ {"none"}) /\ before = IF fresh THEN <<>> ELSE log
  BY DEF TutoringTypeOK, ShownOn
<1>3. streak[label] \in Nat
  BY DEF TutoringTypeOK
<1>4. CASE shown = "none"
  <2>1. EndsWith(label, k, before)
    BY <1>4 DEF TheWholeLog
  <2>2. ~fresh
    BY <1>2, <2>1 DEF EndsWith
  <2>3. streak'[label] = streak[label] /\ before = log
    BY <1>1, <1>2, <1>4, <2>2
  <2> QED
    BY <2>1, <2>3 DEF StreaksAreTrue
<1>5. CASE shown # "none"
  <2>1. ~opening /\ shown = final
    BY <1>5
  <2>2. EndsWith(label, k, Append(before, final))
    BY <1>5, <2>1 DEF TheWholeLog
  <2>3. final \in Evidence \ {"none"}
    BY <1>5, <2>1
  <2> HIDE DEF before
  <2>4. /\ final = label
        /\ k - 1 <= Len(before) /\ Len(before) \in Nat
        /\ \A i \in (Len(before) - k + 2)..Len(before) : before[i] = label
    <3>1. Len(Append(before, final)) = Len(before) + 1 /\ Len(before) \in Nat
          /\ Append(before, final)[Len(before) + 1] = final
          /\ \A i \in 1..Len(before) : Append(before, final)[i] = before[i]
      BY <1>2, <2>3
    <3>2. k <= Len(before) + 1 /\ \A i \in (Len(before) - k + 2)..(Len(before) + 1) : Append(before, final)[i] = label
      BY <2>2, <3>1 DEF EndsWith
    <3> QED
      BY <3>1, <3>2
  <2>5. streak'[label] = Min2(3, 1 + IF fresh THEN 0 ELSE streak[label])
    BY <1>1, <2>1, <2>4
  <2>6. CASE k = 1
    BY <1>3, <2>5, <2>6 DEF Min2
  <2>7. CASE k > 1
    <3>1. ~fresh
      BY <1>2, <2>4, <2>7
    <3>2. EndsWith(label, k - 1, log) /\ k - 1 \in 1..3
      BY <1>2, <2>4, <2>7, <3>1 DEF EndsWith
    <3>3. streak[label] >= k - 1
      BY <3>2 DEF StreaksAreTrue
    <3>4. streak'[label] = Min2(3, 1 + streak[label])
      BY <2>5, <3>1
    <3> QED
      BY <1>3, <3>3, <3>4 DEF Min2
  <2> QED
    BY <2>6, <2>7
<1> QED
  BY <1>4, <1>5

LEMMA StreaksStayTrue ==
    ASSUME TutoringTypeOK, StreaksAreTrue, NEW p, NEW final \in Evidence, NEW opening \in BOOLEAN,
           LogEvidence(p, final, opening)
    PROVE  StreaksAreTrue'
<1> SUFFICES ASSUME NEW label \in {"miss", "right"}, NEW k \in 1..3, EndsWith(label, k, log)'
             PROVE  streak'[label] >= k
  BY DEF StreaksAreTrue
<1> DEFINE all == TheWholeLog(p, final, opening)
<1>1. log' = LastOf(all, MaxLog)
  BY DEF LogEvidence, TheWholeLog
<1>2. all \in Seq(Evidence \ {"none"})
  <2>1. ShownOn(p, opening) \in Seq(Evidence \ {"none"})
    BY DEF TutoringTypeOK, ShownOn
  <2> QED
    BY <2>1 DEF TheWholeLog
<1> HIDE DEF all
<1>3. EndsWith(label, k, LastOf(all, MaxLog))
  BY <1>1 DEF EndsWith
<1>4. EndsWith(label, k, all)
  BY <1>2, <1>3, TheEndOfTheLast, SomeLimits
<1> QED
  BY <1>4, TheStreakGrowsWithTheLog DEF all

-----------------------------------------------------------------------------
(* What is claimed *)

LEMMA OneMore ==
    ASSUME NEW S, NEW h \in Seq(S), NEW label \in S, NEW k \in Nat, EndsWith(label, k, h)
    PROVE  /\ EndsWith(label, k + 1, Append(h, label))
           /\ \A n \in Nat : n <= k => EndsWith(label, n, h)
<1>1. /\ Len(h) \in Nat /\ Len(Append(h, label)) = Len(h) + 1
      /\ Append(h, label)[Len(h) + 1] = label
      /\ \A i \in 1..Len(h) : Append(h, label)[i] = h[i]
  OBVIOUS
<1>2. k <= Len(h) /\ \A i \in (Len(h) - k + 1)..Len(h) : h[i] = label
  BY DEF EndsWith
<1> QED
  BY <1>1, <1>2 DEF EndsWith

LEMMA TheLogIsTyped ==
    ASSUME TutoringTypeOK, NEW p, NEW opening, NEW final \in Evidence
    PROVE  /\ ShownOn(p, opening) \in Seq(Evidence)
           /\ (IF final = "none" THEN ShownOn(p, opening) ELSE Append(ShownOn(p, opening), final)) \in Seq(Evidence)
<1>1. ShownOn(p, opening) \in Seq(Evidence)
  BY DEF TutoringTypeOK, ShownOn
<1> QED
  BY <1>1

\* A run that a claim was chosen by, and that the agent's own reading did not go
\* against, is the learner's.
LEMMA AFirmRunIsTrue ==
    ASSUME TutoringTypeOK, StreaksAreTrue, NEW p, NEW first \in Evidence, NEW final \in Evidence,
           NEW opening \in BOOLEAN, opening => final = "none", LogEvidence(p, final, opening),
           NEW label \in {"miss", "right"}, final \in {first, label},
           NEW now, now = IF opening THEN "none" ELSE first,
           NEW k \in 1..3, Streak(label, now, ShownOn(p, opening)) >= k
    PROVE  streak'[label] >= k
<1> DEFINE h == ShownOn(p, opening)
           all == IF now = "none" THEN h ELSE Append(h, now)
<1>1. now \in Evidence /\ label \in Evidence
  BY DEF Evidence
<1>2. h \in Seq(Evidence) /\ all \in Seq(Evidence)
  BY <1>1, TheLogIsTyped
<1>3. Streak(label, now, h) >= k /\ k \in Nat \ {0} /\ k \in Nat
  OBVIOUS
<1> HIDE DEF h
<1>4. EndsWith(label, k, all)
  BY <1>2, <1>3, AStreakEndsTheLog
<1>5. TheWholeLog(p, final, opening) = IF opening \/ final = "none" THEN h ELSE Append(h, final)
  BY DEF TheWholeLog, h
<1>6. EndsWith(label, k, TheWholeLog(p, final, opening))
  <2>1. CASE opening \/ final = first
    BY <1>4, <1>5, <2>1
  <2>2. CASE ~opening /\ final # first
    <3>1. final = label /\ final # "none" /\ now = first
      BY <2>2
    <3>2. CASE first = "none"
      <4>1. EndsWith(label, k, h)
        BY <1>4, <3>1, <3>2
      <4>2. EndsWith(label, k + 1, Append(h, label)) /\ Append(h, label) \in Seq(Evidence)
        BY <1>1, <1>2, <1>3, <4>1, OneMore
      <4>3. EndsWith(label, k, Append(h, label))
        <5>1. k + 1 \in Nat /\ k <= k + 1
          BY <1>3
        <5> DEFINE more == Append(h, label)
        <5>2. more \in Seq(Evidence) /\ EndsWith(label, k + 1, more)
          BY <4>2
        <5> HIDE DEF more
        <5>3. \A n \in Nat : n <= k + 1 => EndsWith(label, n, more)
          BY <1>1, <5>1, <5>2, OneMore
        <5>4. EndsWith(label, k, more)
          BY <1>3, <5>1, <5>3
        <5> QED
          BY <5>4 DEF more
      <4> QED
        BY <1>5, <2>2, <3>1, <4>3
    <3>3. CASE first # "none"
      <4>1. all = Append(h, first) /\ Len(all) = Len(h) + 1 /\ Len(h) \in Nat /\ all[Len(h) + 1] = first
        BY <1>2, <3>1, <3>3
      <4> HIDE DEF all
      <4>2. all[Len(h) + 1] = label
        BY <1>3, <1>4, <4>1 DEF EndsWith
      <4> QED
        BY <2>2, <3>1, <4>1, <4>2
    <3> QED
      BY <3>2, <3>3
  <2> QED
    BY <2>1, <2>2
<1> QED
  BY <1>6, TheStreakGrowsWithTheLog

\* A miss that only the agent found is one more than the log had.
LEMMA AMissFoundLater ==
    ASSUME TutoringTypeOK, StreaksAreTrue, NEW p, LogEvidence(p, "miss", FALSE),
           NEW k \in 1..3, Streak("miss", "none", ShownOn(p, FALSE)) + 1 >= k
    PROVE  streak'["miss"] >= k
<1> DEFINE h == ShownOn(p, FALSE)
           s == Streak("miss", "none", h)
<1>1. h \in Seq(Evidence) /\ "miss" \in Evidence
  <2>1. "miss" \in Evidence
    BY DEF Evidence
  <2>2. h \in Seq(Evidence)
    BY DEF TutoringTypeOK, ShownOn
  <2> QED
    BY <2>1, <2>2
<1>2. s \in Nat
  <2>1. h = IF "none" = "none" THEN h ELSE Append(h, "none")
    OBVIOUS
  <2> HIDE DEF h
  <2> QED
    BY <1>1, <2>1, TheStreakIsANumber, Zenon
<1>3. s >= k - 1 /\ k - 1 \in Nat
  <2>1. s + 1 >= k
    BY Zenon
  <2> HIDE DEF s
  <2> QED
    BY <1>2, <2>1
<1>4. EndsWith("miss", k - 1, h)
  <2>1. CASE k = 1
    <3> HIDE DEF h
    <3>1. Len(h) \in Nat /\ k - 1 = 0
      BY <1>1, <2>1
    <3> QED
      BY <3>1 DEF EndsWith
  <2>2. CASE k # 1
    <3>1. k - 1 \in Nat \ {0}
      BY <2>2
    <3> HIDE DEF h
    <3> QED
      BY <1>1, <1>3, <3>1, AStreakEndsTheLog
  <2> QED
    BY <2>1, <2>2
<1>5. TheWholeLog(p, "miss", FALSE) = Append(h, "miss")
  BY DEF TheWholeLog
<1> HIDE DEF h
<1>6. EndsWith("miss", k - 1 + 1, Append(h, "miss"))
  BY <1>1, <1>3, <1>4, OneMore
<1>7. k - 1 + 1 = k
  OBVIOUS
<1> QED
  BY <1>1, <1>5, <1>6, <1>7, TheStreakGrowsWithTheLog

LEMMA TheLadder ==
    ASSUME NEW n \in Nat \ {0}, NEW i \in DOMAIN Ladder, Ladder[i] = Representation(n)
    PROVE  i \in 1..3 /\ i <= n
<1>1. Min2(n, 3) \in 1..3 /\ Min2(n, 3) <= n
  BY DEF Min2
<1>2. Ladder[i] = Ladder[Min2(n, 3)] /\ i \in 1..3
  BY DEF Representation, Ladder
<1>3. \A j, k \in 1..3 : Ladder[j] = Ladder[k] => j = k
  BY DEF Ladder
<1> QED
  BY <1>1, <1>2, <1>3

LEMMA TheRungs ==
    ASSUME NEW n \in Nat \ {0}
    PROVE  Representation(n) \in {"worked_example", "diagram", "simpler_question"}
           /\ \A i \in DOMAIN Ladder : Ladder[i] \in {"worked_example", "diagram", "simpler_question"}
<1>1. Min2(n, 3) \in 1..3
  BY DEF Min2
<1> QED
  BY <1>1 DEF Representation, Ladder

LEMMA WhatIsSaidIsTrue ==
    ASSUME TutoringTypeOK, StreaksAreTrue, NEW p, NEW first \in Evidence, NEW final \in Evidence,
           NEW opening \in BOOLEAN, NEW teaching \in BOOLEAN,
           NEW by \in {"code", "step", "bank", "talk", "written"},
           opening => final = "none", LogEvidence(p, final, opening),
           Say(p, first, final, opening, teaching, by)
    PROVE  NotesAreTrue'
<1> DEFINE h == ShownOn(p, opening)
           now == IF opening THEN "none" ELSE first
           struggles == Streak("miss", now, h)
           successes == Streak("right", now, h)
           planned == Adapt(p, first, opening, teaching)
           notes == AfterAMiss(AsDelivered(planned, by), final, by, p, opening)
<1>1. told' = IF notes = {} THEN Nothing ELSE [notes |-> notes, by |-> by, firm |-> Firm(first, final)]
  BY Zenon DEF Say
<1>2. struggles \in Nat /\ successes \in Nat /\ Streak("miss", "none", h) \in Nat
  <2>1. now \in Evidence /\ "none" \in Evidence
    BY DEF Evidence
  <2>2. h \in Seq(Evidence) /\ (IF now = "none" THEN h ELSE Append(h, now)) \in Seq(Evidence)
    BY <2>1, TheLogIsTyped
  <2> HIDE DEF h, now
  <2> QED
    BY <2>2, TheStreakIsANumber
<1>3. planned = (IF teaching /\ struggles > 0 THEN {Representation(struggles)} ELSE {})
                   \cup (IF teaching /\ successes >= 2 THEN {"skip_ahead"} ELSE {})
  BY DEF Adapt
<1>4. planned \subseteq {"skip_ahead", "worked_example", "diagram", "simpler_question"}
  BY <1>2, <1>3, TheRungs
<1>5. AsDelivered(planned, by) \subseteq planned
      /\ (by \notin {"step", "written"} => AsDelivered(planned, by) = {})
      /\ (by # "step" => "skip_ahead" \notin AsDelivered(planned, by))
  BY <1>4 DEF AsDelivered
<1>6. IfStuck(p, opening) = Representation(Streak("miss", "none", h) + 1)
  BY DEF IfStuck
<1>7. \/ notes = AsDelivered(planned, by)
      \/ /\ by = "step" /\ final = "miss" /\ ~opening
         /\ notes = AsDelivered(planned, by) \cup {IfStuck(p, opening)}
  BY DEF AfterAMiss
<1>8. LogEvidence(p, final, opening) /\ (~opening => h = ShownOn(p, FALSE))
  BY DEF ShownOn
<1> HIDE DEF notes, planned, struggles, successes
<1>9. SUFFICES ASSUME notes # {}, told' = [notes |-> notes, by |-> by, firm |-> Firm(first, final)]
               PROVE  NotesAreTrue'
  BY <1>1 DEF NotesAreTrue
<1>10. by \in {"step", "written"}
  BY <1>5, <1>7, <1>9
<1>11. ASSUME "miss" \in Firm(first, final), NEW i \in DOMAIN Ladder, Ladder[i] \in notes
       PROVE  streak'["miss"] >= i
  <2>1. final \in {first, "miss"}
    BY <1>11 DEF Firm
  <2>2. CASE Ladder[i] \in planned
    <3>1. struggles > 0 /\ Ladder[i] = Representation(struggles)
      BY <1>3, <2>2, TheRungs DEF Ladder
    <3>2. i \in 1..3 /\ struggles >= i
      BY <1>2, <3>1, TheLadder
    <3> QED
      BY <2>1, <3>2, AFirmRunIsTrue DEF struggles
  <2>3. CASE Ladder[i] \notin planned
    <3>1. final = "miss" /\ ~opening /\ Ladder[i] = Representation(Streak("miss", "none", h) + 1)
      BY <1>5, <1>6, <1>7, <1>11, <2>3
    <3>2. i \in 1..3 /\ Streak("miss", "none", h) + 1 >= i
      BY <1>2, <3>1, TheLadder
    <3>3. LogEvidence(p, "miss", FALSE) /\ h = ShownOn(p, FALSE)
      BY <1>8, <3>1
    <3> HIDE DEF h
    <3> QED
      BY <3>2, <3>3, AMissFoundLater
  <2> QED
    BY <2>2, <2>3
<1>12. ASSUME "right" \in Firm(first, final), "skip_ahead" \in notes
       PROVE  streak'["right"] >= 2 /\ by = "step"
  <2>1. final \in {first, "right"}
    BY <1>12 DEF Firm
  <2>2. "skip_ahead" \in AsDelivered(planned, by)
    <3>1. IfStuck(p, opening) # "skip_ahead"
      BY <1>2, <1>6, TheRungs
    <3> QED
      BY <1>7, <1>12, <3>1
  <2>3. by = "step" /\ successes >= 2
    <3>1. \A n \in Nat \ {0} : Representation(n) # "skip_ahead"
      BY TheRungs
    <3> QED
      BY <1>2, <1>3, <1>5, <2>2, <3>1
  <2> QED
    BY <2>1, <2>3, AFirmRunIsTrue DEF successes
<1> QED
  BY <1>9, <1>10, <1>11, <1>12 DEF NotesAreTrue

LEMMA WhatIsReadIsTrue ==
    ASSUME TutoringTypeOK, StreaksAreTrue, Reads
    PROVE  StreaksAreTrue' /\ NotesAreTrue'
<1>1. PICK p \in Problems \cup {Nothing}, first \in Evidence, final \in Evidence,
           opening \in BOOLEAN, teaching \in BOOLEAN,
           by \in {"code", "step", "bank", "talk", "written"} :
             /\ opening => final = "none"
             /\ LogEvidence(p, final, opening)
             /\ told' = Nothing \/ Say(p, first, final, opening, teaching, by)
  BY DEF Reads
<1>2. StreaksAreTrue'
  BY <1>1, StreaksStayTrue
<1>3. NotesAreTrue'
  <2>1. CASE told' = Nothing
    BY <2>1 DEF NotesAreTrue
  <2>2. CASE Say(p, first, final, opening, teaching, by)
    BY <1>1, <2>2, WhatIsSaidIsTrue
  <2> QED
    BY <1>1, <2>1, <2>2
<1> QED
  BY <1>2, <1>3

-----------------------------------------------------------------------------
(* Grading *)

LEMMA TheFirstRuleDecides ==
    ASSUME NEW rules, DOMAIN rules \subseteq Nat, NEW m \in DOMAIN rules, rules[m] # "none",
           \A j \in DOMAIN rules : j < m => rules[j] = "none"
    PROVE  FirstGrade(rules) = rules[m]
<1> DEFINE gives == {i \in DOMAIN rules : rules[i] # "none"}
           first == CHOOSE i \in gives : \A j \in gives : i <= j
<1>1. m \in gives /\ \A j \in gives : m <= j
  OBVIOUS
<1>2. first \in gives /\ \A j \in gives : first <= j
  BY <1>1
<1>3. first = m
  BY <1>1, <1>2
<1>4. FirstGrade(rules) = IF gives = {} THEN "none" ELSE rules[first]
  BY DEF FirstGrade
<1> HIDE DEF first
<1> QED
  BY <1>1, <1>3, <1>4

\* What the first six rules say of a reply, whatever ideas it shows.
ByHowItReads(question, reply) ==
    IF reply.blank THEN "dont_know"
    ELSE IF reply.injects THEN "incorrect"
    ELSE IF Accepted(reply) THEN "correct"
    ELSE IF Wrong(reply) /\ OptionGrade(question, reply) # "correct" THEN "incorrect"
    ELSE IF OptionGrade(question, reply) # "none" THEN OptionGrade(question, reply)
    ELSE IF reply.unsure THEN "dont_know" ELSE "none"

\* And the last two, of the ideas.
ByWhatItShows(question, reply) ==
    IF RecognitionGrade(question, reply) # "none" THEN RecognitionGrade(question, reply)
    ELSE IF ForTheJudge(question, reply) THEN "none" ELSE ConceptsGrade(question, reply)

LEMMA TheRulesInOrder ==
    ASSUME NEW question, NEW reply
    PROVE  GradeDeterministic(question, reply) =
               IF ByHowItReads(question, reply) # "none" THEN ByHowItReads(question, reply)
               ELSE ByWhatItShows(question, reply)
<1> DEFINE r1 == When(reply.blank, "dont_know")
           r2 == When(reply.injects, "incorrect")
           r3 == When(Accepted(reply), "correct")
           r4 == When(Wrong(reply) /\ OptionGrade(question, reply) # "correct", "incorrect")
           r5 == OptionGrade(question, reply)
           r6 == When(reply.unsure, "dont_know")
           r7 == RecognitionGrade(question, reply)
           r8 == When(~ForTheJudge(question, reply), ConceptsGrade(question, reply))
           rules == <<r1, r2, r3, r4, r5, r6, r7, r8>>
<1>1. GradeDeterministic(question, reply) = FirstGrade(rules)
  BY Zenon DEF GradeDeterministic
<1>2. ByHowItReads(question, reply) =
          IF r1 # "none" THEN r1 ELSE IF r2 # "none" THEN r2 ELSE IF r3 # "none" THEN r3
          ELSE IF r4 # "none" THEN r4 ELSE IF r5 # "none" THEN r5 ELSE r6
  BY DEF ByHowItReads, When
<1>3. ByWhatItShows(question, reply) = IF r7 # "none" THEN r7 ELSE r8
  BY DEF ByWhatItShows, When
<1> HIDE DEF r1, r2, r3, r4, r5, r6, r7, r8
<1>4. /\ DOMAIN rules = 1..8
      /\ rules[1] = r1 /\ rules[2] = r2 /\ rules[3] = r3 /\ rules[4] = r4
      /\ rules[5] = r5 /\ rules[6] = r6 /\ rules[7] = r7 /\ rules[8] = r8
  OBVIOUS
<1> HIDE DEF rules
<1>5. \A m \in 1..8 : rules[m] # "none" /\ (\A j \in 1..8 : j < m => rules[j] = "none")
                        => FirstGrade(rules) = rules[m]
  BY <1>4, TheFirstRuleDecides
<1>6. FirstGrade(rules) =
          IF r1 # "none" THEN r1 ELSE IF r2 # "none" THEN r2 ELSE IF r3 # "none" THEN r3
          ELSE IF r4 # "none" THEN r4 ELSE IF r5 # "none" THEN r5 ELSE IF r6 # "none" THEN r6
          ELSE IF r7 # "none" THEN r7 ELSE r8
  <2>1. CASE \E i \in 1..8 : rules[i] # "none"
    <3>1. \A j \in 1..8 : j \in {1, 2, 3, 4, 5, 6, 7, 8}
      OBVIOUS
    <3>2. r1 # "none" => FirstGrade(rules) = r1
      BY <1>4, <1>5
    <3>3. r1 = "none" /\ r2 # "none" => FirstGrade(rules) = r2
      BY <1>4, <1>5
    <3>4. r1 = "none" /\ r2 = "none" /\ r3 # "none" => FirstGrade(rules) = r3
      BY <1>4, <1>5
    <3>5. r1 = "none" /\ r2 = "none" /\ r3 = "none" /\ r4 # "none" => FirstGrade(rules) = r4
      BY <1>4, <1>5
    <3>6. r1 = "none" /\ r2 = "none" /\ r3 = "none" /\ r4 = "none" /\ r5 # "none"
          => FirstGrade(rules) = r5
      BY <1>4, <1>5
    <3>7. r1 = "none" /\ r2 = "none" /\ r3 = "none" /\ r4 = "none" /\ r5 = "none" /\ r6 # "none"
          => FirstGrade(rules) = r6
      BY <1>4, <1>5
    <3>8. r1 = "none" /\ r2 = "none" /\ r3 = "none" /\ r4 = "none" /\ r5 = "none" /\ r6 = "none"
          /\ r7 # "none" => FirstGrade(rules) = r7
      BY <1>4, <1>5
    <3>9. r1 = "none" /\ r2 = "none" /\ r3 = "none" /\ r4 = "none" /\ r5 = "none" /\ r6 = "none"
          /\ r7 = "none" /\ r8 # "none" => FirstGrade(rules) = r8
      BY <1>4, <1>5
    <3>10. r1 # "none" \/ r2 # "none" \/ r3 # "none" \/ r4 # "none" \/ r5 # "none" \/ r6 # "none"
           \/ r7 # "none" \/ r8 # "none"
      BY <1>4, <2>1, <3>1
    <3> QED
      BY <3>2, <3>3, <3>4, <3>5, <3>6, <3>7, <3>8, <3>9, <3>10
  <2>2. CASE \A i \in 1..8 : rules[i] = "none"
    <3>1. FirstGrade(rules) = "none"
      BY <1>4, <2>2 DEF FirstGrade
    <3> QED
      BY <1>4, <2>2, <3>1
  <2> QED
    BY <2>1, <2>2
<1> QED
  BY <1>1, <1>2, <1>3, <1>6

\* What the patterns can find in a reply to a question of a kind.
LEMMA TheRepliesToAQuestion ==
    ASSUME NEW kind \in Kinds, NEW question \in Shapes(kind), NEW reply \in Replies(question)
    PROVE  /\ question.kind = kind /\ question.expects \in Expects(kind)
           /\ question.either \in Grades \cup {"none"}
           /\ reply.blank \in BOOLEAN /\ reply.injects \in BOOLEAN /\ reply.unsure \in BOOLEAN
           /\ reply.other \in BOOLEAN /\ (kind # "recognition" => ~reply.other)
           /\ reply.ideas \subseteq question.expects /\ reply.words \in {0, 2, 4}
           /\ reply.options \subseteq Options(question)
BY DEF Shapes, Replies

LEMMA ACorrectReplyIsEarned ==
    ASSUME NEW kind \in Kinds, NEW question \in Shapes(kind), NEW reply \in Replies(question),
           NEW judgement \in Judgements, GradeReply(question, reply, judgement) = "correct"
    PROVE  /\ ~reply.injects
           /\ \/ Accepted(reply)
              \/ OptionGrade(question, reply) = "correct"
              \/ reply.ideas = question.expects /\ ~reply.blank
              \/ "technique" \in reply.ideas /\ reply.words >= 2
              \/ GradeDeterministic(question, reply) = "none" /\ judgement.sure
<1>1. CASE GradeDeterministic(question, reply) # "none"
  <2>1. GradeDeterministic(question, reply) = "correct"
    BY <1>1 DEF GradeReply
  <2>2. CASE ByHowItReads(question, reply) # "none"
    <3>1. ByHowItReads(question, reply) = "correct"
      BY <2>1, <2>2, TheRulesInOrder
    <3> QED
      BY <3>1 DEF ByHowItReads
  <2>3. CASE ByHowItReads(question, reply) = "none"
    <3>1. ByWhatItShows(question, reply) = "correct"
      BY <2>1, <2>3, TheRulesInOrder
    <3>2. ~reply.blank /\ ~reply.injects
      BY <2>3 DEF ByHowItReads
    <3>3. CASE RecognitionGrade(question, reply) = "correct"
      <4>1. /\ question.kind = "recognition" /\ "technique" \in reply.ideas
            /\ "reason" \notin question.expects \/ "reason" \in reply.ideas \/ reply.words >= 2
        BY <3>3 DEF RecognitionGrade
      <4>2. /\ question.expects \in {{"technique", "reason"}, {"technique"}, {"reason"}}
            /\ reply.ideas \subseteq question.expects
        BY <4>1, TheRepliesToAQuestion DEF Expects
      <4> QED
        BY <3>2, <4>1, <4>2
    <3>4. CASE RecognitionGrade(question, reply) # "correct"
      <4>1. ConceptsGrade(question, reply) = "correct"
        BY <3>1, <3>4 DEF ByWhatItShows
      <4>2. reply.ideas = question.expects
        BY <4>1 DEF ConceptsGrade
      <4> QED
        BY <3>2, <4>2
    <3> QED
      BY <3>3, <3>4
  <2> QED
    BY <2>2, <2>3
<1>2. CASE GradeDeterministic(question, reply) = "none"
  <2>1. Judged(judgement) = "correct" /\ ~reply.injects
    BY <1>2 DEF GradeReply
  <2>2. judgement # NoJudgement /\ judgement.sure
    BY <2>1 DEF Judged, NoJudgement
  <2> QED
    BY <1>2, <2>1, <2>2
<1> QED
  BY <1>1, <1>2

LEMMA OneIdeaMoreIsNoWorse ==
    ASSUME NEW kind \in Kinds, NEW question \in Shapes(kind), NEW reply \in Replies(question),
           NEW idea \in question.expects \ reply.ideas,
           NEW more, more = [reply EXCEPT !.ideas = @ \cup {idea}],
           GradeDeterministic(question, reply) # "none", GradeDeterministic(question, more) # "none"
    PROVE  Worth(GradeDeterministic(question, reply)) <= Worth(GradeDeterministic(question, more))
<1>1. /\ more.blank = reply.blank /\ more.injects = reply.injects /\ more.unsure = reply.unsure
      /\ more.accepted = reply.accepted /\ more.wrong = reply.wrong /\ more.options = reply.options
      /\ more.other = reply.other /\ more.words = reply.words
      /\ more.ideas = reply.ideas \cup {idea}
  BY DEF Replies
<1>2. ByHowItReads(question, more) = ByHowItReads(question, reply)
  BY <1>1 DEF ByHowItReads, Accepted, Wrong, OptionGrade, Chosen
<1>3. \A grade : Worth(grade) \in 0..2
  BY DEF Worth
<1>4. CASE ByHowItReads(question, reply) # "none"
  BY <1>2, <1>3, <1>4, TheRulesInOrder
<1>5. CASE ByHowItReads(question, reply) = "none"
  <2>1. /\ GradeDeterministic(question, reply) = ByWhatItShows(question, reply)
        /\ GradeDeterministic(question, more) = ByWhatItShows(question, more)
    BY <1>2, <1>5, TheRulesInOrder
  <2>2. /\ question.kind = kind /\ question.expects \in Expects(kind) /\ reply.ideas \subseteq question.expects
        /\ reply.words \in {0, 2, 4} /\ (kind # "recognition" => ~reply.other)
    BY TheRepliesToAQuestion
  <2>3. kind \in {"recognition", "open"}
    BY <2>2 DEF Expects, Kinds
  <2>4. CASE kind = "open"
    <3>1. RecognitionGrade(question, reply) = "none" /\ RecognitionGrade(question, more) = "none"
      BY <2>2, <2>4 DEF RecognitionGrade
    <3>2. ConceptsGrade(question, reply) = "partial"
      <4>1. ConceptsGrade(question, reply) # "none"
        BY <2>1, <3>1 DEF ByWhatItShows
      <4> QED
        BY <4>1 DEF ConceptsGrade
    <3>3. ConceptsGrade(question, more) \in {"partial", "correct"}
      BY <1>1 DEF ConceptsGrade
    <3>4. ByWhatItShows(question, reply) = "partial" /\ ByWhatItShows(question, more) \in {"partial", "correct"}
      BY <2>1, <3>1, <3>2, <3>3 DEF ByWhatItShows
    <3> QED
      BY <2>1, <3>4 DEF Worth
  <2>5. CASE kind = "recognition" /\ "technique" \in reply.ideas
    <3>1. "technique" \in question.expects /\ "technique" \in more.ideas
      BY <1>1, <2>2, <2>5
    <3>2. RecognitionGrade(question, reply) \in {"partial", "correct"}
      BY <2>2, <2>5, <3>1 DEF RecognitionGrade
    <3>3. RecognitionGrade(question, more) \in {"partial", "correct"}
      BY <2>2, <2>5, <3>1 DEF RecognitionGrade
    <3>4. RecognitionGrade(question, reply) = "correct" => RecognitionGrade(question, more) = "correct"
      BY <1>1, <2>2, <2>5, <3>1 DEF RecognitionGrade
    <3> QED
      BY <2>1, <3>2, <3>3, <3>4 DEF ByWhatItShows, Worth
  <2>6. CASE kind = "recognition" /\ "technique" \notin reply.ideas
    <3>1. CASE RecognitionGrade(question, reply) # "none"
      <4>1. RecognitionGrade(question, reply) = "incorrect"
        BY <2>6, <3>1 DEF RecognitionGrade
      <4>2. Worth(GradeDeterministic(question, reply)) = 0
        BY <2>1, <4>1 DEF ByWhatItShows, Worth
      <4> QED
        BY <1>3, <4>2
    <3>2. CASE RecognitionGrade(question, reply) = "none"
      <4>1. ~ForTheJudge(question, reply) /\ ConceptsGrade(question, reply) # "none"
        BY <2>1, <3>2 DEF ByWhatItShows
      <4>2. reply.ideas # {}
        BY <4>1 DEF ConceptsGrade
      <4>3. question.expects = {"technique", "reason"} /\ reply.ideas = {"reason"} /\ idea = "technique"
        BY <2>2, <2>6, <4>2 DEF Expects
      <4>4. "technique" \in more.ideas /\ "reason" \in more.ideas
        BY <1>1, <4>3
      <4>5. RecognitionGrade(question, more) = "correct"
        BY <2>2, <2>6, <4>3, <4>4 DEF RecognitionGrade
      <4>6. Worth(GradeDeterministic(question, more)) = 2
        BY <2>1, <4>5 DEF ByWhatItShows, Worth
      <4> QED
        BY <1>3, <4>6
    <3> QED
      BY <3>1, <3>2
  <2> QED
    BY <2>3, <2>4, <2>5, <2>6
<1> QED
  BY <1>4, <1>5

LEMMA EveryKindIsEarned ==
    ASSUME NEW kind \in Kinds
    PROVE  EarnedFor[kind]
<1>1. ASSUME NEW question \in Shapes(kind), NEW reply \in Replies(question)
      PROVE  LET decided == GradeDeterministic(question, reply) IN
        /\ \A judgement \in Judgements :
              GradeReply(question, reply, judgement) = "correct" =>
                /\ ~reply.injects
                /\ \/ Accepted(reply)
                   \/ OptionGrade(question, reply) = "correct"
                   \/ reply.ideas = question.expects /\ ~reply.blank
                   \/ "technique" \in reply.ideas /\ reply.words >= 2
                   \/ decided = "none" /\ judgement.sure
        /\ \A idea \in question.expects \ reply.ideas :
              LET more == GradeDeterministic(question, [reply EXCEPT !.ideas = @ \cup {idea}])
              IN  decided # "none" /\ more # "none" => Worth(decided) <= Worth(more)
  BY ACorrectReplyIsEarned, OneIdeaMoreIsNoWorse, Zenon
<1> QED
  BY <1>1, Zenon DEF EarnedFor

LEMMA TheQuestionThatWaits ==
    ASSUME NEW check
    PROVE  KindOf(check) \in Kinds
BY DEF KindOf, Kinds

-----------------------------------------------------------------------------
(* The session *)

TutoringInv ==
    /\ TutoringTypeOK
    /\ AnswersAreLogged
    /\ RecentGradesAreLogged
    /\ StreaksAreTrue
    /\ NotesAreTrue

LEMMA TheSessionStarts ==
    ASSUME TutoringInit
    PROVE  TutoringInv
<1>1. TutoringTypeOK
  <2>1. <<>> \in Seq([q : Questions \cup {Code}, narrow : BOOLEAN, grade : Grades])
        /\ <<>> \in Seq(Evidence \ {"none"}) /\ <<>> \in Seq(Grades)
    OBVIOUS
  <2> QED
    BY <2>1, SomeLimits DEF TutoringInit, TutoringTypeOK
<1>2. AnswersAreLogged
  BY DEF TutoringInit, AnswersAreLogged
<1>3. RecentGradesAreLogged
  BY DEF TutoringInit, RecentGradesAreLogged
<1>4. StreaksAreTrue
  BY DEF TutoringInit, StreaksAreTrue, EndsWith
<1>5. NotesAreTrue
  BY DEF TutoringInit, NotesAreTrue
<1> QED
  BY <1>1, <1>2, <1>3, <1>4, <1>5 DEF TutoringInv

LEMMA TheSessionGoesOn ==
    ASSUME TutoringInv, [Turn]_tutoringVars
    PROVE  TutoringInv'
<1> USE DEF TutoringInv
<1>1. CASE Turn
  <2>1. StreaksAreTrue' /\ NotesAreTrue'
    <3>1. CASE HandsOut
      BY <3>1, HandingOutOnlyAsks DEF StreaksAreTrue, EndsWith, NotesAreTrue
    <3>2. CASE Reads
      BY <3>2, WhatIsReadIsTrue
    <3> QED
      BY <1>1, <3>1, <3>2, WhatATurnDoes
  <2> QED
    BY <1>1, <2>1, TypesHold, AnswersStayLogged, RecentGradesStayLogged
<1>2. CASE UNCHANGED tutoringVars
  BY <1>2 DEF tutoringVars, progress, TutoringTypeOK, AnswersAreLogged, RecentGradesAreLogged, StreaksAreTrue,
              EndsWith, NotesAreTrue
<1> QED
  BY <1>1, <1>2

THEOREM TheTutoringInvariantHolds == TutoringSpec => []TutoringInv
<1>1. TutoringInit => TutoringInv
  BY TheSessionStarts
<1>2. TutoringInv /\ [Turn]_tutoringVars => TutoringInv'
  BY TheSessionGoesOn
<1> QED
  BY <1>1, <1>2, PTL DEF TutoringSpec

\* Whatever a reply claims to have changed because of the learner, the learner
\* showed on this subject, and this reply did it.
THEOREM NotesAreAlwaysTrue == TutoringSpec => []NotesAreTrue
<1>1. TutoringInv => NotesAreTrue
  BY DEF TutoringInv
<1> QED
  BY <1>1, TheTutoringInvariantHolds, PTL

\* Whatever the bank chains, narrows or reframes and whatever came in between, a
\* question answered for the second time or later is not what the reply to that
\* answer ends with, while the log holds every grade.
THEOREM NoAnswerLoops == TutoringSpec => TheLessonMovesOn
<1>1. TutoringInv /\ [Turn]_tutoringVars =>
        [\A q \in Questions \cup {Code} :
            answered'[q] > answered[q] /\ answered'[q] >= MaxAttempts /\ graded <= MaxGrades
                => pending' = Nothing \/ pending'.q # q]_tutoringVars
  BY ASecondAnswerMovesOn DEF TutoringInv
<1> QED
  BY <1>1, TheTutoringInvariantHolds, PTL DEF TutoringSpec, TheLessonMovesOn

\* No reply to the question that waits is graded higher than it has earned.
THEOREM EveryGradeIsEarned == TutoringSpec => []GradesAreEarned
<1>1. GradesAreEarned
  BY EveryKindIsEarned, TheQuestionThatWaits DEF GradesAreEarned
<1> QED
  BY <1>1, PTL

\* The level of practice goes up on the strength of the answers since the last
\* problem alone.
THEOREM EveryHarderProblemIsEarned == TutoringSpec => HarderIsEarned
<1>1. TutoringInv /\ [Turn]_tutoringVars =>
        [practice' # practice /\ graded <= MaxGrades =>
            /\ practice'.reason \in {"harder", "harder_after_success", "up_after_success"} =>
                  \A i \in DOMAIN LastOf(recent, 2) : ~Missed(LastOf(recent, 2)[i])
            /\ practice'.reason \in {"harder_after_success", "up_after_success"} =>
                  \E i \in DOMAIN recent : recent[i] = "correct"]_tutoringVars
  BY AHarderProblemIsEarned DEF TutoringInv
<1> QED
  BY <1>1, TheTutoringInvariantHolds, PTL DEF TutoringSpec, HarderIsEarned
===============================================================================
