------------------------------ MODULE ChatStream ------------------------------
(***************************************************************************)
(* The server side of POST /chat/stream: every request runs the graph in a  *)
(* task of its own (stream_graph of app/graph/build.py), which hands its     *)
(* events through a queue to the generator that writes the frames and owns   *)
(* the database session (_chat_stream_events of app/graph/api.py).           *)
(* Connections are lost, the process dies, the graph, the commit or the       *)
(* savepoint of a turn's messages fails.                                     *)
(***************************************************************************)
EXTENDS Naturals, Sequences

CONSTANTS
    Requests,   \* the requests ever made
    MaxStages   \* bound: the stage events of one run of the graph

ASSUME StagesAreCounted == MaxStages \in Nat

VARIABLES
    phase,      \* where the generator of a request is
    task,       \* the task that runs the graph
    queue,      \* the events it has handed over
    result,     \* whether the generator has seen the result
    session,    \* the database session of the request
    sent,       \* the frames written to a response that was not cut off
    online,     \* whether the client is still connected
    committed   \* the turns committed, each with or without its messages

streamVars == <<phase, task, queue, result, session, sent, online, committed>>

StreamInit ==
    /\ phase = [r \in Requests |-> "unused"]
    /\ task = [r \in Requests |-> "none"]
    /\ queue = [r \in Requests |-> <<>>]
    /\ result = [r \in Requests |-> FALSE]
    /\ session = [r \in Requests |-> "closed"]
    /\ sent = [r \in Requests |-> <<>>]
    /\ online = [r \in Requests |-> TRUE]
    /\ committed = {}

-----------------------------------------------------------------------------
(* The task *)

\* The conversation was found, the response starts, the graph runs.
Open(r) ==
    /\ phase[r] = "unused"
    /\ phase' = [phase EXCEPT ![r] = "streaming"]
    /\ task' = [task EXCEPT ![r] = "running"]
    /\ session' = [session EXCEPT ![r] = "open"]
    /\ UNCHANGED <<queue, result, sent, online, committed>>

Put(r, items) == queue' = [queue EXCEPT ![r] = @ \o items]

\* A node of the graph has done its work.
Stage(r) ==
    /\ task[r] = "running"
    /\ Len(queue[r]) + Len(sent[r]) < MaxStages
    /\ Put(r, <<"stage">>)
    /\ UNCHANGED <<phase, task, result, session, sent, online, committed>>

\* The run ends with a result or an exception, and the sentinel in any case;
\* what a cancelled run still puts nobody takes.
TaskEnds(r) ==
    /\ \/ task[r] = "running" /\ \E item \in {"result", "error"} : Put(r, <<item, "end">>)
       \/ task[r] = "cancelled" /\ UNCHANGED queue
    /\ task' = [task EXCEPT ![r] = "ended"]
    /\ UNCHANGED <<phase, result, session, sent, online, committed>>

-----------------------------------------------------------------------------
(* The generator *)

\* A frame reaches the client while it is connected.
Send(r, frame) ==
    sent' = IF online[r] THEN [sent EXCEPT ![r] = Append(@, frame)] ELSE sent

\* The generator returns; what the session has not committed is rolled back.
Close(r) ==
    /\ phase' = [phase EXCEPT ![r] = "over"]
    /\ session' = [session EXCEPT ![r] = "closed"]

NextItem(r, item) ==
    /\ phase[r] = "streaming"
    /\ queue[r] # <<>>
    /\ Head(queue[r]) = item
    /\ queue' = [queue EXCEPT ![r] = Tail(@)]

Forward(r) ==
    /\ NextItem(r, "stage")
    /\ Send(r, "stage")
    /\ UNCHANGED <<phase, task, result, session, online, committed>>

TakeResult(r) ==
    /\ NextItem(r, "result")
    /\ result' = [result EXCEPT ![r] = TRUE]
    /\ UNCHANGED <<phase, task, session, sent, online, committed>>

\* The task's exception is raised again: rollback, and the error frame.
Reraise(r) ==
    /\ NextItem(r, "error")
    /\ Send(r, "error")
    /\ Close(r)
    /\ UNCHANGED <<task, result, online, committed>>

EndOfQueue(r) ==
    /\ NextItem(r, "end")
    /\ result[r]
    /\ phase' = [phase EXCEPT ![r] = "committing"]
    /\ UNCHANGED <<task, result, session, sent, online, committed>>

\* A turn as the database has it.  Its messages were written in a savepoint of
\* their own (_persist_turns), whose failure is recorded and costs the turn nothing.
CommittedTurn(r, stored) == [request |-> r, stored |-> stored]

\* Mutant: the commit is left to the end of the request, and its failure to nobody.
CommitUnseen(r) ==
    /\ phase[r] = "committing"
    /\ phase' = [phase EXCEPT ![r] = "answering"]
    /\ \/ UNCHANGED committed
       \/ \E stored \in BOOLEAN : committed' = committed \cup {CommittedTurn(r, stored)}
    /\ UNCHANGED <<task, queue, result, session, sent, online>>

\* session.commit, of what the run's savepoints have left; a failure rolls back
\* and ends in the error frame.
Commit(r) ==
    /\ phase[r] = "committing"
    /\ \/ /\ \E stored \in BOOLEAN : committed' = committed \cup {CommittedTurn(r, stored)}
          /\ phase' = [phase EXCEPT ![r] = "answering"]
          /\ UNCHANGED <<sent, session>>
       \/ /\ Send(r, "error")
          /\ Close(r)
          /\ UNCHANGED committed
    /\ UNCHANGED <<task, queue, result, online>>

\* The done frame, or the error frame when the body cannot be built.
Answer(r) ==
    /\ phase[r] = "answering"
    /\ \E frame \in {"done", "error"} : Send(r, frame)
    /\ Close(r)
    /\ UNCHANGED <<task, queue, result, online, committed>>

-----------------------------------------------------------------------------
(* Failures *)

Active(r) == phase[r] \notin {"unused", "over"}

\* The connection is lost before the client has read the response to its end.
Lose(r) ==
    /\ phase[r] # "unused"
    /\ online[r]
    /\ online' = [online EXCEPT ![r] = FALSE]
    /\ sent' = [sent EXCEPT ![r] = <<>>]
    /\ UNCHANGED <<phase, task, queue, result, session, committed>>

\* Mutant: the session is closed without waiting for the cancelled task.
AbandonAtOnce(r) ==
    /\ ~online[r] /\ Active(r) /\ phase[r] # "closing"
    /\ Close(r)
    /\ task' = IF task[r] = "running" THEN [task EXCEPT ![r] = "cancelled"] ELSE task
    /\ queue' = [queue EXCEPT ![r] = <<>>]
    /\ UNCHANGED <<result, sent, online, committed>>

\* The server notices and closes the generator: the task is cancelled and
\* waited for before the session closes.  (A commit interrupted after it reached
\* the database is Commit and then this.)
Abandon(r) ==
    /\ ~online[r] /\ Active(r) /\ phase[r] # "closing"
    /\ IF task[r] = "running"
       THEN /\ task' = [task EXCEPT ![r] = "cancelled"]
            /\ phase' = [phase EXCEPT ![r] = "closing"]
            /\ UNCHANGED session
       ELSE Close(r) /\ UNCHANGED task
    /\ queue' = [queue EXCEPT ![r] = <<>>]
    /\ UNCHANGED <<result, sent, online, committed>>

\* Mutant: nobody closes the session of a request that was given up.
LeftOpen(r) == phase[r] = "closing" /\ task[r] = "ended" /\ UNCHANGED streamVars

TaskAwaited(r) ==
    /\ phase[r] = "closing"
    /\ task[r] = "ended"
    /\ Close(r)
    /\ UNCHANGED <<task, queue, result, sent, online, committed>>

\* The process dies, and with it every request it was serving.
Crash ==
    LET dying == {r \in Requests : Active(r)} IN
    /\ dying # {}
    /\ phase' = [r \in Requests |-> IF r \in dying THEN "over" ELSE phase[r]]
    /\ task' = [r \in Requests |-> IF r \in dying THEN "ended" ELSE task[r]]
    /\ session' = [r \in Requests |-> "closed"]
    /\ online' = [r \in Requests |-> online[r] /\ r \notin dying]
    /\ queue' = [r \in Requests |-> IF r \in dying THEN <<>> ELSE queue[r]]
    /\ sent' = [r \in Requests |-> IF r \in dying THEN <<>> ELSE sent[r]]
    /\ UNCHANGED <<result, committed>>

Generate(r) ==
    \/ Forward(r) \/ TakeResult(r) \/ Reraise(r) \/ EndOfQueue(r)
    \/ Commit(r) \/ Answer(r) \/ TaskAwaited(r)

Serve(r) == Stage(r) \/ TaskEnds(r) \/ Generate(r)

\* The graph ends (its recursion limit and the timeouts of its calls) and the
\* event loop runs what is ready; whether a lost client is noticed is left open.
StreamFairness ==
    \A r \in Requests : /\ WF_streamVars(TaskEnds(r))
                         /\ WF_streamVars(Generate(r) \/ Abandon(r))

-----------------------------------------------------------------------------
(* Properties *)

Phases == {"unused", "streaming", "committing", "answering", "closing", "over"}
Items == {"stage", "result", "error", "end"}
Frames == {"stage", "done", "error"}

StreamTypeOK ==
    /\ phase \in [Requests -> Phases]
    /\ task \in [Requests -> {"none", "running", "cancelled", "ended"}]
    /\ queue \in [Requests -> Seq(Items)]
    /\ result \in [Requests -> BOOLEAN]
    /\ session \in [Requests -> {"closed", "open"}]
    /\ sent \in [Requests -> Seq(Frames)]
    /\ online \in [Requests -> BOOLEAN]
    /\ committed \subseteq [request : Requests, stored : BOOLEAN]

\* The graph never works on a session that is closed: a client that leaves
\* stops the task before the session it writes to goes back to the pool.
SessionOutlivesTask ==
    \A r \in Requests : task[r] \in {"running", "cancelled"} => session[r] = "open"

\* Every request is over at last and gives its session back.
StreamsClose == \A r \in Requests : Active(r) ~> session[r] = "closed"
=============================================================================
