---------------------------- MODULE WorkspaceProofs ----------------------------
(***************************************************************************)
(* Proofs about Workspace and the streams of ChatStream it is composed with, *)
(* for any number of requests, conversations and stages.                    *)
(***************************************************************************)
EXTENDS Workspace, TLAPS

-----------------------------------------------------------------------------
(* The inductive invariant *)

\* The turn was committed, with its messages or without.
IsCommitted(r) == \E stored \in BOOLEAN : CommittedTurn(r, stored) \in committed

\* How the generator, the task, the queue and the session of a request fit: the
\* task runs only while its generator is at the queue, whatever ends the stream
\* is put there by a task that has ended, and the session stays open until the
\* generator is over.  A done frame follows the commit.
StreamInOrder(r) ==
    /\ phase[r] = "unused" => task[r] = "none"
    /\ phase[r] = "streaming" => task[r] \in {"running", "ended"}
    /\ phase[r] \in {"committing", "answering", "over"} => task[r] = "ended"
    /\ phase[r] = "closing" => task[r] \in {"cancelled", "ended"}
    /\ Active(r) => session[r] = "open"
    /\ (\E i \in DOMAIN queue[r] : queue[r][i] # "stage") => task[r] = "ended"
    /\ phase[r] = "answering" => IsCommitted(r)
    /\ "done" \in Range(sent[r]) => IsCommitted(r)

StreamInv == StreamTypeOK /\ \A r \in Requests : StreamInOrder(r)

PageTypes ==
    /\ conv \in [Requests -> {None} \cup Conversations]
    /\ titled \subseteq Conversations
    /\ active \in Conversations
    /\ untitled \in BOOLEAN
    /\ listed \subseteq Conversations
    /\ messages \subseteq Requests
    /\ loads \subseteq Conversations
    /\ turn # None => turn \in Turn

\* The turn that gives a conversation its title knows which.
TitlesAreAimed == At("renaming") \/ At("renamed") => turn.target \in Conversations

\* The page shows the replies of committed turns.
ShownAreCommitted == \A r \in messages : IsCommitted(r)

WorkspaceInv == StreamInv /\ PageTypes /\ TitlesAreAimed /\ ShownAreCommitted

-----------------------------------------------------------------------------
(* Queues and frames *)

LEMMA QueueGrows ==
    ASSUME NEW q \in Seq(Items), NEW items \in Seq(Items)
    PROVE  /\ q \o items \in Seq(Items)
           /\ \A i \in DOMAIN (q \o items) :
                \/ i \in DOMAIN q /\ (q \o items)[i] = q[i]
                \/ \E j \in DOMAIN items : (q \o items)[i] = items[j]
<1>1. /\ Len(q) \in Nat /\ DOMAIN q = 1 .. Len(q)
      /\ Len(items) \in Nat /\ DOMAIN items = 1 .. Len(items)
      OBVIOUS
<1>2. /\ q \o items \in Seq(Items) /\ DOMAIN (q \o items) = 1 .. (Len(q) + Len(items))
      /\ \A i \in 1 .. (Len(q) + Len(items)) :
           (q \o items)[i] = IF i <= Len(q) THEN q[i] ELSE items[i - Len(q)]
      OBVIOUS
<1>3. ASSUME NEW i \in 1 .. (Len(q) + Len(items)), ~(i <= Len(q))
      PROVE  i - Len(q) \in DOMAIN items
      BY <1>1, <1>3
<1> QED BY <1>1, <1>2, <1>3

LEMMA QueueShrinks ==
    ASSUME NEW q \in Seq(Items), q # <<>>
    PROVE  /\ Tail(q) \in Seq(Items)
           /\ \A i \in DOMAIN Tail(q) : \E j \in DOMAIN q : Tail(q)[i] = q[j]
           /\ \E j \in DOMAIN q : Head(q) = q[j]
<1>1. Len(q) \in Nat /\ Len(q) > 0 /\ DOMAIN q = 1 .. Len(q)
      OBVIOUS
<1>2. /\ Tail(q) \in Seq(Items) /\ DOMAIN Tail(q) = 1 .. (Len(q) - 1)
      /\ \A i \in 1 .. (Len(q) - 1) : Tail(q)[i] = q[i + 1]
      BY <1>1
<1>3. \A i \in 1 .. (Len(q) - 1) : i + 1 \in DOMAIN q
      BY <1>1
<1>4. 1 \in DOMAIN q /\ Head(q) = q[1]
      BY <1>1
<1> QED BY <1>2, <1>3, <1>4

\* What is sent is the frame, to a client that is there.
LEMMA FramesSent ==
    ASSUME StreamTypeOK, NEW r \in Requests, NEW frame \in Frames, Send(r, frame)
    PROVE  /\ sent' \in [Requests -> Seq(Frames)]
           /\ \A q \in Requests \ {r} : sent'[q] = sent[q]
           /\ "done" \in Range(sent'[r]) => "done" \in Range(sent[r]) \/ frame = "done"
<1>1. sent[r] \in Seq(Frames) /\ sent \in [Requests -> Seq(Frames)]
      BY DEF StreamTypeOK
<1>2. /\ Append(sent[r], frame) \in Seq(Frames)
      /\ \A i \in DOMAIN Append(sent[r], frame) :
           \/ i \in DOMAIN sent[r] /\ Append(sent[r], frame)[i] = sent[r][i]
           \/ Append(sent[r], frame)[i] = frame
      BY <1>1
<1>3. CASE online[r]
  <2>1. sent' = [sent EXCEPT ![r] = Append(sent[r], frame)]
        BY <1>3 DEF Send
  <2>2. sent'[r] = Append(sent[r], frame)
        BY <1>1, <2>1
  <2> QED BY <1>1, <1>2, <2>1, <2>2 DEF Range
<1>4. CASE ~online[r]
      BY <1>1, <1>4 DEF Send
<1> QED BY <1>3, <1>4

-----------------------------------------------------------------------------
(* The steps of a stream *)

\* A request's stream leaves the others' alone, and what is stored stays stored.
LEMMA OneStreamMoves ==
    ASSUME StreamInv, NEW r \in Requests, StreamTypeOK', StreamInOrder(r)',
           committed \subseteq committed',
           \A q \in Requests \ {r} : /\ phase'[q] = phase[q] /\ task'[q] = task[q]
                                     /\ queue'[q] = queue[q] /\ session'[q] = session[q]
                                     /\ sent'[q] = sent[q]
    PROVE  StreamInv'
<1>1. ASSUME NEW q \in Requests \ {r} PROVE StreamInOrder(q)'
  <2>1. StreamInOrder(q)
        BY DEF StreamInv
  <2> QED BY <2>1 DEF StreamInOrder, Active, IsCommitted
<1> QED BY <1>1 DEF StreamInv

LEMMA OpenKeepsInv == ASSUME StreamInv, NEW r \in Requests, Open(r) PROVE StreamInv'
<1>1. /\ phase[r] = "unused" /\ phase'[r] = "streaming" /\ task'[r] = "running"
      /\ session'[r] = "open" /\ UNCHANGED <<queue, sent, committed>> /\ StreamTypeOK'
      /\ \A q \in Requests \ {r} : /\ phase'[q] = phase[q] /\ task'[q] = task[q]
                                   /\ session'[q] = session[q]
      BY DEF Open, StreamInv, StreamTypeOK, Phases
<1>2. StreamInOrder(r)'
      BY <1>1 DEF StreamInv, StreamInOrder, Active, IsCommitted
<1> QED BY <1>1, <1>2, OneStreamMoves

LEMMA StageKeepsInv == ASSUME StreamInv, NEW r \in Requests, Stage(r) PROVE StreamInv'
<1>1. queue[r] \in Seq(Items) /\ queue \in [Requests -> Seq(Items)] /\ <<"stage">> \in Seq(Items)
      BY DEF StreamInv, StreamTypeOK, Items
<1>2. /\ task[r] = "running" /\ UNCHANGED <<phase, task, result, session, sent, online, committed>>
      /\ queue' = [queue EXCEPT ![r] = queue[r] \o <<"stage">>]
      BY DEF Stage, Put
<1>3. /\ queue' \in [Requests -> Seq(Items)]
      /\ \A i \in DOMAIN queue'[r] :
           queue'[r][i] = "stage" \/ \E j \in DOMAIN queue[r] : queue'[r][i] = queue[r][j]
  <2>1. queue'[r] = queue[r] \o <<"stage">>
        BY <1>1, <1>2
  <2>2. \A j \in DOMAIN <<"stage">> : <<"stage">>[j] = "stage"
        OBVIOUS
  <2> QED BY <1>1, <1>2, <2>1, <2>2, QueueGrows
<1>4. StreamTypeOK' /\ \A q \in Requests \ {r} : queue'[q] = queue[q]
      BY <1>1, <1>2, <1>3 DEF StreamInv, StreamTypeOK
<1>5. StreamInOrder(r)'
      BY <1>2, <1>3 DEF StreamInv, StreamInOrder, Active, IsCommitted
<1> QED BY <1>2, <1>4, <1>5, OneStreamMoves

LEMMA TaskEndsKeepsInv == ASSUME StreamInv, NEW r \in Requests, TaskEnds(r) PROVE StreamInv'
<1>1. /\ task[r] \in {"running", "cancelled"} /\ task' = [task EXCEPT ![r] = "ended"]
      /\ UNCHANGED <<phase, result, session, sent, online, committed>>
      BY DEF TaskEnds
<1>2. /\ queue' \in [Requests -> Seq(Items)]
      /\ \A q \in Requests \ {r} : queue'[q] = queue[q]
  <2>1. queue \in [Requests -> Seq(Items)] /\ queue[r] \in Seq(Items)
        BY DEF StreamInv, StreamTypeOK
  <2>2. ASSUME NEW item \in {"result", "error"}, Put(r, <<item, "end">>)
        PROVE  queue' \in [Requests -> Seq(Items)] /\ \A q \in Requests \ {r} : queue'[q] = queue[q]
    <3>1. <<item, "end">> \in Seq(Items)
          BY DEF Items
    <3>2. queue[r] \o <<item, "end">> \in Seq(Items)
          BY <2>1, <3>1, QueueGrows
    <3> QED BY <2>1, <2>2, <3>2 DEF Put
  <2> QED BY <2>1, <2>2 DEF TaskEnds
<1>3. StreamTypeOK' /\ task'[r] = "ended" /\ \A q \in Requests \ {r} : task'[q] = task[q]
      BY <1>1, <1>2 DEF StreamInv, StreamTypeOK
<1>4. StreamInOrder(r)'
      BY <1>1, <1>3 DEF StreamInv, StreamInOrder, Active, IsCommitted
<1> QED BY <1>1, <1>2, <1>3, <1>4, OneStreamMoves

\* What taking an event off the queue leaves, and what the event tells.
LEMMA ItemTaken ==
    ASSUME StreamInv, NEW r \in Requests, NEW item, NextItem(r, item)
    PROVE  /\ phase[r] = "streaming" /\ session[r] = "open"
           /\ queue' \in [Requests -> Seq(Items)]
           /\ \A q \in Requests \ {r} : queue'[q] = queue[q]
           /\ (\E i \in DOMAIN queue'[r] : queue'[r][i] # "stage") => task[r] = "ended"
           /\ item # "stage" => task[r] = "ended"
<1>1. /\ phase[r] = "streaming" /\ queue[r] # <<>> /\ Head(queue[r]) = item
      /\ queue' = [queue EXCEPT ![r] = Tail(queue[r])]
      BY DEF NextItem
<1>2. queue \in [Requests -> Seq(Items)] /\ queue[r] \in Seq(Items)
      BY DEF StreamInv, StreamTypeOK
<1>3. queue'[r] = Tail(queue[r])
      BY <1>1, <1>2
<1>4. /\ session[r] = "open"
      /\ (\E i \in DOMAIN queue[r] : queue[r][i] # "stage") => task[r] = "ended"
      BY <1>1 DEF StreamInv, StreamInOrder, Active, IsCommitted
<1>5. /\ Tail(queue[r]) \in Seq(Items)
      /\ \A i \in DOMAIN Tail(queue[r]) : \E j \in DOMAIN queue[r] : Tail(queue[r])[i] = queue[r][j]
      /\ \E j \in DOMAIN queue[r] : Head(queue[r]) = queue[r][j]
      BY <1>1, <1>2, QueueShrinks
<1>6. (\E i \in DOMAIN queue'[r] : queue'[r][i] # "stage") => task[r] = "ended"
      BY <1>3, <1>4, <1>5
<1>7. item # "stage" => task[r] = "ended"
      BY <1>1, <1>4, <1>5
<1> QED BY <1>1, <1>2, <1>4, <1>5, <1>6, <1>7

LEMMA ForwardKeepsInv == ASSUME StreamInv, NEW r \in Requests, Forward(r) PROVE StreamInv'
<1>1. /\ NextItem(r, "stage") /\ Send(r, "stage") /\ "stage" \in Frames
      /\ UNCHANGED <<phase, task, result, session, online, committed>>
      BY DEF Forward, Frames
<1>2. /\ sent' \in [Requests -> Seq(Frames)]
      /\ \A q \in Requests \ {r} : sent'[q] = sent[q]
      /\ "done" \in Range(sent'[r]) => "done" \in Range(sent[r])
      BY <1>1, FramesSent DEF StreamInv
<1>3. StreamTypeOK'
      BY <1>1, <1>2, ItemTaken DEF StreamInv, StreamTypeOK
<1>4. StreamInOrder(r)'
      BY <1>1, <1>2, ItemTaken DEF StreamInv, StreamInOrder, Active, IsCommitted
<1> QED BY <1>1, <1>2, <1>3, <1>4, ItemTaken, OneStreamMoves

LEMMA TakeResultKeepsInv == ASSUME StreamInv, NEW r \in Requests, TakeResult(r) PROVE StreamInv'
<1>1. /\ NextItem(r, "result") /\ result' = [result EXCEPT ![r] = TRUE]
      /\ UNCHANGED <<phase, task, session, sent, online, committed>>
      BY DEF TakeResult
<1>2. StreamTypeOK'
  <2>1. result' \in [Requests -> BOOLEAN]
        BY <1>1 DEF StreamInv, StreamTypeOK
  <2> QED BY <1>1, <2>1, ItemTaken DEF StreamInv, StreamTypeOK
<1>3. StreamInOrder(r)'
      BY <1>1, ItemTaken DEF StreamInv, StreamInOrder, Active, IsCommitted
<1> QED BY <1>1, <1>2, <1>3, ItemTaken, OneStreamMoves

\* A generator that returns once its task has ended.
LEMMA ClosedInOrder ==
    ASSUME StreamInv, NEW r \in Requests, Close(r), task'[r] = "ended"
    PROVE  /\ phase' \in [Requests -> Phases] /\ session' \in [Requests -> {"closed", "open"}]
           /\ phase'[r] = "over"
           /\ \A q \in Requests \ {r} : phase'[q] = phase[q] /\ session'[q] = session[q]
BY DEF Close, StreamInv, StreamTypeOK, Phases

LEMMA ReraiseKeepsInv == ASSUME StreamInv, NEW r \in Requests, Reraise(r) PROVE StreamInv'
<1>1. /\ NextItem(r, "error") /\ Send(r, "error") /\ "error" \in Frames /\ Close(r)
      /\ UNCHANGED <<task, result, online, committed>>
      BY DEF Reraise, Frames
<1>2. /\ sent' \in [Requests -> Seq(Frames)]
      /\ \A q \in Requests \ {r} : sent'[q] = sent[q]
      /\ "done" \in Range(sent'[r]) => "done" \in Range(sent[r])
      BY <1>1, FramesSent DEF StreamInv
<1>3. task'[r] = "ended"
      BY <1>1, ItemTaken
<1>4. StreamTypeOK'
      BY <1>1, <1>2, <1>3, ItemTaken, ClosedInOrder DEF StreamInv, StreamTypeOK
<1>5. StreamInOrder(r)'
      BY <1>1, <1>2, <1>3, ClosedInOrder DEF StreamInv, StreamInOrder, Active, IsCommitted
<1> QED BY <1>1, <1>2, <1>3, <1>4, <1>5, ItemTaken, ClosedInOrder, OneStreamMoves

LEMMA EndKeepsInv == ASSUME StreamInv, NEW r \in Requests, EndOfQueue(r) PROVE StreamInv'
<1>1. /\ NextItem(r, "end") /\ phase' = [phase EXCEPT ![r] = "committing"]
      /\ UNCHANGED <<task, result, session, sent, online, committed>>
      BY DEF EndOfQueue
<1>2. StreamTypeOK' /\ phase'[r] = "committing" /\ \A q \in Requests \ {r} : phase'[q] = phase[q]
      BY <1>1, ItemTaken DEF StreamInv, StreamTypeOK, Phases
<1>3. StreamInOrder(r)'
      BY <1>1, <1>2, ItemTaken DEF StreamInv, StreamInOrder, Active, IsCommitted
<1> QED BY <1>1, <1>2, <1>3, ItemTaken, OneStreamMoves

\* What a commit adds to what is stored.
LEMMA StoredByCommit ==
    ASSUME StreamInv, NEW r \in Requests,
           \E stored \in BOOLEAN : committed' = committed \cup {CommittedTurn(r, stored)}
    PROVE  /\ committed' \subseteq [request : Requests, stored : BOOLEAN]
           /\ IsCommitted(r)' /\ committed \subseteq committed'
BY DEF StreamInv, StreamTypeOK, CommittedTurn, IsCommitted

LEMMA CommitKeepsInv == ASSUME StreamInv, NEW r \in Requests, Commit(r) PROVE StreamInv'
<1>1. /\ phase[r] = "committing" /\ task[r] = "ended" /\ session[r] = "open"
      /\ UNCHANGED <<task, queue, result, online>>
      BY DEF Commit, StreamInv, StreamInOrder, Active, IsCommitted
<1>2. CASE /\ \E stored \in BOOLEAN : committed' = committed \cup {CommittedTurn(r, stored)}
           /\ phase' = [phase EXCEPT ![r] = "answering"] /\ UNCHANGED <<sent, session>>
  <2>1. StreamTypeOK' /\ phase'[r] = "answering" /\ \A q \in Requests \ {r} : phase'[q] = phase[q]
        BY <1>1, <1>2, StoredByCommit DEF StreamInv, StreamTypeOK, Phases
  <2>2. StreamInOrder(r)'
        BY <1>1, <1>2, <2>1, StoredByCommit DEF StreamInv, StreamInOrder, Active, IsCommitted
  <2> QED BY <1>1, <1>2, <2>1, <2>2, StoredByCommit, OneStreamMoves
<1>3. CASE Send(r, "error") /\ Close(r) /\ UNCHANGED committed
  <2>1. /\ sent' \in [Requests -> Seq(Frames)]
        /\ \A q \in Requests \ {r} : sent'[q] = sent[q]
        /\ "done" \in Range(sent'[r]) => "done" \in Range(sent[r])
        BY <1>3, FramesSent DEF StreamInv, Frames
  <2>2. StreamTypeOK'
        BY <1>1, <1>3, <2>1, ClosedInOrder DEF StreamInv, StreamTypeOK
  <2>3. StreamInOrder(r)'
        BY <1>1, <1>3, <2>1, ClosedInOrder DEF StreamInv, StreamInOrder, Active, IsCommitted
  <2> QED BY <1>1, <1>3, <2>1, <2>2, <2>3, ClosedInOrder, OneStreamMoves
<1> QED BY <1>2, <1>3 DEF Commit

LEMMA AnswerKeepsInv == ASSUME StreamInv, NEW r \in Requests, Answer(r) PROVE StreamInv'
<1>1. /\ phase[r] = "answering" /\ task[r] = "ended" /\ IsCommitted(r)
      /\ Close(r) /\ UNCHANGED <<task, queue, result, online, committed>>
      BY DEF Answer, StreamInv, StreamInOrder
<1>2. sent' \in [Requests -> Seq(Frames)] /\ \A q \in Requests \ {r} : sent'[q] = sent[q]
      BY FramesSent DEF Answer, StreamInv, Frames
<1>3. StreamTypeOK'
      BY <1>1, <1>2, ClosedInOrder DEF StreamInv, StreamTypeOK
<1>4. StreamInOrder(r)'
      BY <1>1, ClosedInOrder DEF StreamInv, StreamInOrder, Active, IsCommitted
<1> QED BY <1>1, <1>2, <1>3, <1>4, ClosedInOrder, OneStreamMoves

LEMMA LoseKeepsInv == ASSUME StreamInv, NEW r \in Requests, Lose(r) PROVE StreamInv'
<1>1. /\ sent' = [sent EXCEPT ![r] = <<>>] /\ online' = [online EXCEPT ![r] = FALSE]
      /\ UNCHANGED <<phase, task, queue, result, session, committed>>
      BY DEF Lose
<1>2. /\ StreamTypeOK' /\ \A q \in Requests \ {r} : sent'[q] = sent[q]
      /\ "done" \notin Range(sent'[r])
      BY <1>1 DEF StreamInv, StreamTypeOK, Range
<1>3. StreamInOrder(r)'
      BY <1>1, <1>2 DEF StreamInv, StreamInOrder, Active, IsCommitted
<1> QED BY <1>1, <1>2, <1>3, OneStreamMoves

\* A client that left: the task is stopped first, and the session closed after.
LEMMA AbandonKeepsInv == ASSUME StreamInv, NEW r \in Requests, Abandon(r) PROVE StreamInv'
<1>1. /\ Active(r) /\ phase[r] # "closing" /\ session[r] = "open"
      /\ queue' = [queue EXCEPT ![r] = <<>>] /\ UNCHANGED <<result, sent, online, committed>>
      BY DEF Abandon, StreamInv, StreamInOrder
<1>2. /\ queue' \in [Requests -> Seq(Items)] /\ queue'[r] = <<>>
      /\ \A q \in Requests \ {r} : queue'[q] = queue[q]
  <2>1. queue \in [Requests -> Seq(Items)]
        BY DEF StreamInv, StreamTypeOK
  <2> QED BY <1>1, <2>1
<1>3. CASE /\ task' = [task EXCEPT ![r] = "cancelled"] /\ phase' = [phase EXCEPT ![r] = "closing"]
           /\ UNCHANGED session
  <2>1. /\ StreamTypeOK' /\ phase'[r] = "closing" /\ task'[r] = "cancelled"
        /\ \A q \in Requests \ {r} : phase'[q] = phase[q] /\ task'[q] = task[q]
        BY <1>1, <1>2, <1>3 DEF StreamInv, StreamTypeOK, Phases
  <2>2. StreamInOrder(r)'
        BY <1>1, <1>2, <1>3, <2>1 DEF StreamInv, StreamInOrder, Active, IsCommitted
  <2> QED BY <1>1, <1>2, <1>3, <2>1, <2>2, OneStreamMoves
<1>4. CASE task[r] # "running" /\ Close(r) /\ UNCHANGED task
  <2>1. task'[r] = "ended"
        BY <1>1, <1>4 DEF StreamInv, StreamInOrder, StreamTypeOK, Phases, Active
  <2>2. StreamTypeOK'
        BY <1>1, <1>2, <1>4, <2>1, ClosedInOrder DEF StreamInv, StreamTypeOK
  <2>3. StreamInOrder(r)'
        BY <1>1, <1>2, <1>4, <2>1, ClosedInOrder DEF StreamInv, StreamInOrder, Active, IsCommitted
  <2> QED BY <1>1, <1>2, <1>4, <2>1, <2>2, <2>3, ClosedInOrder, OneStreamMoves
<1> QED BY <1>3, <1>4 DEF Abandon

LEMMA AwaitedKeepsInv == ASSUME StreamInv, NEW r \in Requests, TaskAwaited(r) PROVE StreamInv'
<1>1. /\ task[r] = "ended" /\ Close(r) /\ UNCHANGED <<task, queue, result, sent, online, committed>>
      BY DEF TaskAwaited
<1>2. StreamTypeOK'
      BY <1>1, ClosedInOrder DEF StreamInv, StreamTypeOK
<1>3. StreamInOrder(r)'
      BY <1>1, ClosedInOrder DEF StreamInv, StreamInOrder, Active, IsCommitted
<1> QED BY <1>1, <1>2, <1>3, ClosedInOrder, OneStreamMoves

\* A crash ends the tasks together with their sessions.
LEMMA CrashKeepsInv == ASSUME StreamInv, Crash PROVE StreamInv'
<1> DEFINE dying == {r \in Requests : Active(r)}
<1>1. /\ phase' = [r \in Requests |-> IF r \in dying THEN "over" ELSE phase[r]]
      /\ task' = [r \in Requests |-> IF r \in dying THEN "ended" ELSE task[r]]
      /\ session' = [r \in Requests |-> "closed"]
      /\ online' = [r \in Requests |-> online[r] /\ r \notin dying]
      /\ queue' = [r \in Requests |-> IF r \in dying THEN <<>> ELSE queue[r]]
      /\ sent' = [r \in Requests |-> IF r \in dying THEN <<>> ELSE sent[r]]
      /\ UNCHANGED <<result, committed>>
      BY DEF Crash
<1>2. StreamTypeOK'
  <2>1. phase' \in [Requests -> Phases] /\ task' \in [Requests -> {"none", "running", "cancelled", "ended"}]
        BY <1>1 DEF StreamInv, StreamTypeOK, Phases
  <2>2. queue' \in [Requests -> Seq(Items)] /\ sent' \in [Requests -> Seq(Frames)]
        BY <1>1 DEF StreamInv, StreamTypeOK
  <2>3. session' \in [Requests -> {"closed", "open"}] /\ online' \in [Requests -> BOOLEAN]
    <3> HIDE DEF dying
    <3> QED BY <1>1
  <2> QED BY <1>1, <2>1, <2>2, <2>3 DEF StreamInv, StreamTypeOK
<1>3. ASSUME NEW r \in Requests PROVE StreamInOrder(r)'
  <2>1. StreamInOrder(r)
        BY DEF StreamInv
  <2>2. CASE Active(r)
    <3>1. /\ phase'[r] = "over" /\ task'[r] = "ended" /\ queue'[r] = <<>> /\ sent'[r] = <<>>
          /\ "done" \notin Range(sent'[r])
          BY <1>1, <2>2 DEF Range
    <3> QED BY <3>1 DEF StreamInOrder, Active, IsCommitted
  <2>3. CASE ~Active(r)
    <3>1. phase'[r] = phase[r] /\ task'[r] = task[r] /\ queue'[r] = queue[r] /\ sent'[r] = sent[r]
          BY <1>1, <2>3
    <3> QED BY <1>1, <2>1, <2>3, <3>1 DEF StreamInOrder, Active, IsCommitted
  <2> QED BY <2>2, <2>3
<1> QED BY <1>2, <1>3 DEF StreamInv

\* Serving a stream, or giving it up.
LEMMA StreamKeepsInv ==
    ASSUME StreamInv, NEW r \in Requests, Serve(r) \/ Abandon(r)
    PROVE  StreamInv' /\ committed \subseteq committed'
<1>1. StreamInv'
      BY StageKeepsInv, TaskEndsKeepsInv, ForwardKeepsInv, TakeResultKeepsInv, ReraiseKeepsInv,
         EndKeepsInv, CommitKeepsInv, AnswerKeepsInv, AwaitedKeepsInv, AbandonKeepsInv
         DEF Serve, Generate
<1>2. \/ committed' = committed
      \/ \E stored \in BOOLEAN : committed' = committed \cup {CommittedTurn(r, stored)}
      BY DEF Serve, Generate, Stage, TaskEnds, Forward, TakeResult, Reraise, EndOfQueue, Commit,
             Answer, TaskAwaited, Abandon
<1> QED BY <1>1, <1>2, StoredByCommit

-----------------------------------------------------------------------------
(* The steps of the page *)

\* The page stays as it was and no stored turn is lost.
LEMMA PageStands ==
    ASSUME WorkspaceInv, StreamInv', committed \subseteq committed',
           UNCHANGED <<conv, pageVars>>
    PROVE  WorkspaceInv'
<1>1. PageTypes' /\ TitlesAreAimed'
      BY DEF WorkspaceInv, PageTypes, pageVars, TitlesAreAimed, At
<1>2. ShownAreCommitted'
      BY DEF WorkspaceInv, ShownAreCommitted, IsCommitted, pageVars
<1> QED BY <1>1, <1>2 DEF WorkspaceInv

\* The page moves and the streams stand still.
LEMMA StreamsStand ==
    ASSUME WorkspaceInv, UNCHANGED streamVars
    PROVE  StreamInv' /\ committed' = committed
<1>1. StreamTypeOK'
      BY DEF streamVars, WorkspaceInv, StreamInv, StreamTypeOK
<1>2. ASSUME NEW r \in Requests PROVE StreamInOrder(r)'
  <2>1. StreamInOrder(r)
        BY DEF WorkspaceInv, StreamInv
  <2> QED BY <2>1 DEF streamVars, StreamInOrder, Active, IsCommitted
<1> QED BY <1>1, <1>2 DEF streamVars, StreamInv

LEMMA HistoryIsStored ==
    ASSUME StreamTypeOK, NEW c
    PROVE  History(c) \subseteq Requests /\ \A r \in History(c) : IsCommitted(r)
<1> SUFFICES ASSUME NEW t \in committed, t.stored
             PROVE  t.request \in Requests /\ IsCommitted(t.request)
    BY DEF History
<1>1. t \in [request : Requests, stored : BOOLEAN]
      BY DEF StreamTypeOK
<1>2. t = CommittedTurn(t.request, t.stored)
      BY <1>1 DEF CommittedTurn
<1> QED BY <1>1, <1>2 DEF IsCommitted

\* A turn keeps its request whatever step it goes to.
LEMMA TurnGoesOn ==
    ASSUME WorkspaceInv, turn # None, NEW step, NEW target, Goto(step, target),
           step \in {"renaming", "renamed", "listing"},
           target \in {None} \cup Conversations, step # "listing" => target \in Conversations
    PROVE  (turn # None => turn \in Turn)' /\ TitlesAreAimed'
<1>1. turn \in Turn /\ turn' = [turn EXCEPT !.step = step, !.target = target]
      BY DEF WorkspaceInv, PageTypes, Goto
<1>2. turn' \in Turn /\ turn'.step = step /\ turn'.target = target
      BY <1>1 DEF Turn
<1> QED BY <1>2 DEF TitlesAreAimed, At

LEMMA ClickKeepsInv ==
    ASSUME WorkspaceInv, NEW c \in Conversations, Select(c) \/ Load(c) \/ LearnerRenames(c)
    PROVE  WorkspaceInv'
<1>1. UNCHANGED streamVars /\ UNCHANGED <<conv, turn, listed>>
      BY DEF Select, Load, LearnerRenames
<1>2. StreamInv' /\ committed' = committed
      BY <1>1, StreamsStand
<1>3. messages' = messages \/ messages' = History(c)
      BY DEF Select, Load, LearnerRenames
<1>4. ShownAreCommitted'
      BY <1>2, <1>3, HistoryIsStored DEF WorkspaceInv, StreamInv, ShownAreCommitted, IsCommitted
<1>5. messages' \subseteq Requests
      BY <1>3, HistoryIsStored DEF WorkspaceInv, StreamInv, PageTypes
<1>6. /\ titled' \subseteq Conversations /\ active' \in Conversations
      /\ untitled' \in BOOLEAN /\ loads' \subseteq Conversations
  <2>1. untitled \in BOOLEAN /\ titled \subseteq Conversations
        BY DEF WorkspaceInv, PageTypes
  <2>2. untitled' = untitled \/ untitled' = (c \in listed)
        BY DEF Select, Load, LearnerRenames
  <2>3. untitled' \in BOOLEAN
    <3>1. CASE untitled' = untitled
          BY <2>1, <3>1
    <3>2. CASE untitled' = (c \in listed)
          BY <3>2
    <3> QED BY <2>2, <3>1, <3>2
  <2>4. titled' = titled \/ titled' = titled \cup {c}
        BY DEF Select, Load, LearnerRenames
  <2>5. titled' \subseteq Conversations
        BY <2>1, <2>4
  <2> QED BY <2>3, <2>5 DEF Select, Load, LearnerRenames, WorkspaceInv, PageTypes
<1>7. PageTypes' /\ TitlesAreAimed'
      BY <1>1, <1>5, <1>6 DEF WorkspaceInv, PageTypes, TitlesAreAimed, At
<1> QED BY <1>2, <1>4, <1>7 DEF WorkspaceInv

LEMMA SendKeepsInv ==
    ASSUME WorkspaceInv, NEW r \in Requests, SendMessage(r) PROVE WorkspaceInv'
<1>1. /\ Open(r) /\ conv' = [conv EXCEPT ![r] = active]
      /\ UNCHANGED <<titled, active, untitled, listed, messages, loads>>
      /\ turn' = [request |-> r, untitled |-> untitled, target |-> None, step |-> "reading"]
      BY DEF SendMessage
<1>2. StreamInv' /\ committed' = committed
      BY <1>1, OpenKeepsInv DEF WorkspaceInv, Open
<1>3. turn'.step = "reading" /\ turn' \in Turn
      BY <1>1 DEF Turn, WorkspaceInv, PageTypes
<1>4. PageTypes' /\ TitlesAreAimed'
      BY <1>1, <1>3 DEF WorkspaceInv, PageTypes, TitlesAreAimed, At
<1>5. ShownAreCommitted'
      BY <1>1, <1>2 DEF WorkspaceInv, ShownAreCommitted, IsCommitted
<1> QED BY <1>2, <1>4, <1>5 DEF WorkspaceInv

\* The reply that is shown was read to its done frame, which follows the commit.
LEMMA ShowKeepsInv == ASSUME WorkspaceInv, ShowReply PROVE WorkspaceInv'
<1>1. /\ turn # None /\ "done" \in Range(sent[turn.request])
      /\ messages' = messages \cup {turn.request}
      /\ UNCHANGED <<streamVars, conv, titled, active, untitled, listed, loads>>
      BY DEF ShowReply, Read, At
<1>2. turn.request \in Requests /\ IsCommitted(turn.request)
  <2>1. turn.request \in Requests
        BY <1>1 DEF WorkspaceInv, PageTypes, Turn
  <2> QED BY <1>1, <2>1 DEF WorkspaceInv, StreamInv, StreamInOrder
<1>3. StreamInv' /\ committed' = committed
      BY <1>1, StreamsStand
<1>4. ShownAreCommitted'
      BY <1>1, <1>2, <1>3 DEF WorkspaceInv, ShownAreCommitted, IsCommitted
<1>5. (turn # None => turn \in Turn)' /\ TitlesAreAimed'
  <2>1. active \in Conversations /\ (Goto("renaming", active) \/ Goto("listing", None))
        BY DEF ShowReply, WorkspaceInv, PageTypes
  <2> QED BY <1>1, <2>1, TurnGoesOn
<1>6. PageTypes'
      BY <1>1, <1>2, <1>5 DEF WorkspaceInv, PageTypes
<1> QED BY <1>3, <1>4, <1>5, <1>6 DEF WorkspaceInv

LEMMA TitleKeepsInv == ASSUME WorkspaceInv, AutoTitle \/ TitleReturned PROVE WorkspaceInv'
<1>1. /\ turn # None /\ turn.target \in Conversations /\ turn \in Turn
      /\ UNCHANGED <<streamVars, conv, listed, messages, loads>>
      BY DEF AutoTitle, TitleReturned, At, WorkspaceInv, TitlesAreAimed, PageTypes
<1>2. StreamInv' /\ committed' = committed
      BY <1>1, StreamsStand
<1>3. ShownAreCommitted'
      BY <1>1, <1>2 DEF WorkspaceInv, ShownAreCommitted, IsCommitted
<1>4. (turn # None => turn \in Turn)' /\ TitlesAreAimed'
  <2>1. Goto("renamed", turn.target) \/ Goto("listing", None)
        BY DEF AutoTitle, TitleReturned
  <2> QED BY <1>1, <2>1, TurnGoesOn
<1>5. /\ titled' \subseteq Conversations /\ active' \in Conversations
      /\ untitled' \in BOOLEAN
  <2>1. turn.request \in Requests
        BY <1>1 DEF Turn
  <2>2. \/ titled' = titled \cup {turn.target} /\ UNCHANGED <<active, untitled>>
        \/ active' = turn.target /\ untitled' = FALSE /\ UNCHANGED titled
        BY DEF AutoTitle, TitleReturned
  <2> QED BY <1>1, <2>1, <2>2 DEF WorkspaceInv, PageTypes
<1>6. PageTypes'
      BY <1>1, <1>4, <1>5 DEF WorkspaceInv, PageTypes
<1> QED BY <1>2, <1>3, <1>4, <1>6 DEF WorkspaceInv

LEMMA ProcessedKeepsInv ==
    ASSUME WorkspaceInv, ShowFailure \/ Refresh \/ RefreshFails PROVE WorkspaceInv'
<1>1. turn' = None /\ UNCHANGED <<streamVars, conv, titled, active, messages, loads>>
      BY DEF ShowFailure, Refresh, RefreshFails, Processed
<1>2. listed' \subseteq Conversations /\ untitled' \in BOOLEAN
  <2>1. untitled \in BOOLEAN /\ listed \subseteq Conversations
        BY DEF WorkspaceInv, PageTypes
  <2>2. untitled' = untitled \/ untitled' = (active \in listed')
        BY DEF ShowFailure, Refresh, RefreshFails
  <2>3. untitled' \in BOOLEAN
    <3>1. CASE untitled' = untitled
          BY <2>1, <3>1
    <3>2. CASE untitled' = (active \in listed')
          BY <3>2
    <3> QED BY <2>2, <3>1, <3>2
  <2> QED BY <2>1, <2>3 DEF ShowFailure, Refresh, RefreshFails
<1>3. StreamInv' /\ committed' = committed
      BY <1>1, StreamsStand
<1>4. ShownAreCommitted'
      BY <1>1, <1>3 DEF WorkspaceInv, ShownAreCommitted, IsCommitted
<1>5. PageTypes' /\ TitlesAreAimed'
      BY <1>1, <1>2 DEF WorkspaceInv, PageTypes, TitlesAreAimed, At
<1> QED BY <1>3, <1>4, <1>5 DEF WorkspaceInv

LEMMA StepKeepsWorkspaceInv == WorkspaceInv /\ [Next]_vars => WorkspaceInv'
<1> SUFFICES ASSUME WorkspaceInv, [Next]_vars PROVE WorkspaceInv'
    OBVIOUS
<1>1. ASSUME NEW c \in Conversations, Select(c) \/ Load(c) \/ LearnerRenames(c)
      PROVE  WorkspaceInv'
      BY <1>1, ClickKeepsInv
<1>2. ASSUME NEW r \in Requests, SendMessage(r) PROVE WorkspaceInv'
      BY <1>2, SendKeepsInv
<1>3. CASE Process
      BY <1>3, ShowKeepsInv, TitleKeepsInv, ProcessedKeepsInv DEF Process
<1>4. ASSUME NEW r \in Requests, Serve(r) \/ Abandon(r), UNCHANGED <<conv, pageVars>>
      PROVE  WorkspaceInv'
      BY <1>4, StreamKeepsInv, PageStands DEF WorkspaceInv
<1>5. CASE At("reading") /\ Lose(turn.request) /\ UNCHANGED <<conv, pageVars>>
  <2>1. turn.request \in Requests
        BY <1>5 DEF At, WorkspaceInv, PageTypes, Turn
  <2>2. StreamInv' /\ committed' = committed
        BY <1>5, <2>1, LoseKeepsInv DEF WorkspaceInv, Lose
  <2> QED BY <1>5, <2>2, PageStands
<1>6. CASE Crash /\ UNCHANGED <<conv, pageVars>>
  <2>1. StreamInv' /\ committed' = committed
        BY <1>6, CrashKeepsInv DEF WorkspaceInv, Crash
  <2> QED BY <1>6, <2>1, PageStands
<1>7. CASE UNCHANGED vars
      BY <1>7, StreamsStand, PageStands DEF vars
<1> QED BY <1>1, <1>2, <1>3, <1>4, <1>5, <1>6, <1>7 DEF Next

LEMMA PageOpens == Init => WorkspaceInv
<1> SUFFICES ASSUME Init PROVE WorkspaceInv
    OBVIOUS
<1>1. StreamTypeOK
      BY DEF Init, StreamInit, StreamTypeOK, Phases
<1>2. ASSUME NEW r \in Requests PROVE StreamInOrder(r)
      BY DEF Init, StreamInit, StreamInOrder, Active, IsCommitted, Range
<1>3. PageTypes /\ TitlesAreAimed /\ ShownAreCommitted
      BY FirstIsOne DEF Init, PageTypes, TitlesAreAimed, At, ShownAreCommitted
<1> QED BY <1>1, <1>2, <1>3 DEF WorkspaceInv, StreamInv

-----------------------------------------------------------------------------
(* What a learner is promised *)

\* Streams and page stay in order whatever the learner clicks, whatever fails and
\* whoever is lost.
THEOREM WorkspaceInvariant == Spec => []WorkspaceInv
BY PageOpens, StepKeepsWorkspaceInv, PTL DEF Spec

\* Every variable of the streams and of the page keeps its type.
THEOREM WorkspaceTypes == Spec => []TypeOK
<1>1. WorkspaceInv => TypeOK
      BY DEF WorkspaceInv, StreamInv, PageTypes, TypeOK
<1> QED BY <1>1, WorkspaceInvariant, PTL

\* The database session of a request is open as long as the task that runs its
\* graph, cancelled or not.
THEOREM NoWorkOnAClosedSession == Spec => []SessionOutlivesTask
<1>1. WorkspaceInv => SessionOutlivesTask
  <2> SUFFICES ASSUME WorkspaceInv, NEW r \in Requests, task[r] \in {"running", "cancelled"}
               PROVE  session[r] = "open"
      BY DEF SessionOutlivesTask
  <2>1. StreamInOrder(r) /\ phase[r] \in Phases
        BY DEF WorkspaceInv, StreamInv, StreamTypeOK
  <2> QED BY <2>1 DEF StreamInOrder, Active, IsCommitted, Phases
<1> QED BY <1>1, WorkspaceInvariant, PTL

\* A reply on the page is in the stored history of the conversation it was asked
\* in, unless the savepoint of its own messages failed.
THEOREM RepliesAreStored == Spec => []ShownIsStored
<1>1. WorkspaceInv => ShownIsStored
  <2> SUFFICES ASSUME WorkspaceInv, NEW r \in messages
               PROVE  r \in History(conv[r]) \/ CommittedTurn(r, FALSE) \in committed
      BY DEF ShownIsStored
  <2>1. CommittedTurn(r, TRUE) \in committed \/ CommittedTurn(r, FALSE) \in committed
        BY DEF WorkspaceInv, ShownAreCommitted, IsCommitted
  <2>2. ASSUME CommittedTurn(r, TRUE) \in committed PROVE r \in History(conv[r])
        BY <2>2 DEF History, CommittedTurn
  <2> QED BY <2>1, <2>2
<1> QED BY <1>1, WorkspaceInvariant, PTL
=============================================================================
