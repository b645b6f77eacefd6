------------------------------- MODULE Sandbox -------------------------------
(***************************************************************************)
(* The containers code runs in: DockerSandbox and SandboxRunner of          *)
(* app/execution, in server processes that share one Docker daemon.  A run  *)
(* waits for a slot, creates, starts and waits for its container, and       *)
(* removes it, whatever was cancelled or refused on the way; a process that *)
(* starts sweeps up what others have left.                                  *)
(*                                                                         *)
(* Every call of the daemon is made in a thread: it may be answered with an *)
(* error although it took effect, and may take effect after the run that    *)
(* made it has been cancelled.                                              *)
(***************************************************************************)
EXTENDS Naturals, FiniteSets

CONSTANTS
    Runs,           \* the runs ever asked for; a container is named by its run
    Processes,      \* the server processes
    Serving,        \* bound: those that are asked for runs
    None,
    MaxConcurrent   \* sandbox_max_concurrent

ASSUME SomeSlots == MaxConcurrent \in Nat \ {0}
ASSUME ServingIsProcesses == Serving \subseteq Processes
ASSUME NoneIsNeither == None \notin Processes \cup {"sandbox_error", "timeout", "ran"}

VARIABLES
    server,     \* whether each process is down, sweeping or up
    listed,     \* the containers a starting process has found to sweep
    home,       \* the process each run was asked of
    pc,         \* where each run is
    outcome,    \* what it will answer
    container,  \* the daemon's state of its container
    stray,      \* calls in a thread whose run no longer waits for them
    cleanup,    \* the attempt _remove is making
    fault       \* what kept a run from removing its container in its own time

vars == <<server, listed, home, pc, outcome, container, stray, cleanup, fault>>

Calling == {"starting", "waiting", "killing", "inspecting", "reading"}
Holding == {"creating", "abandoning", "discarding", "removing"} \cup Calling
Faults == {"none", "unanswered", "refused", "interrupted", "died", "hurried"}

Init ==
    /\ server = [p \in Processes |-> "down"]
    /\ listed = [p \in Processes |-> {}]
    /\ home = [r \in Runs |-> None]
    /\ pc = [r \in Runs |-> "idle"]
    /\ outcome = [r \in Runs |-> None]
    /\ container = [r \in Runs |-> "none"]
    /\ stray = [r \in Runs |-> {}]
    /\ cleanup = [r \in Runs |-> "none"]
    /\ fault = [r \in Runs |-> "none"]

Goto(r, label) == pc' = [pc EXCEPT ![r] = label]
Becomes(r, state) == container' = [container EXCEPT ![r] = state]
Answer(r, answer) == outcome' = [outcome EXCEPT ![r] = answer]
Blame(r, cause) ==
    fault' = [fault EXCEPT ![r] = IF @ \in {"none", "hurried"} THEN cause ELSE @]

\* A call in a thread that nobody waits for takes effect yet, or never does.
Leave(r, call) == \E left \in {{}, {call}} : stray' = [stray EXCEPT ![r] = left]

Exists(r) == container[r] \in {"created", "running", "stale", "exited"}
Running(r) == container[r] \in {"running", "stale"}

InFlight(r) == pc[r] \in Holding

-----------------------------------------------------------------------------
(* A process starts *)

\* What _is_running and the age of the container leave to be removed.
Sweepable == {r \in Runs : Exists(r) /\ container[r] # "running"}

\* sweep_orphans lists the containers, or fails to and sweeps nothing.
Boot(p) ==
    /\ server[p] = "down"
    /\ server' = [server EXCEPT ![p] = "sweeping"]
    /\ \E found \in {Sweepable, {}} : listed' = [listed EXCEPT ![p] = found]
    /\ UNCHANGED <<home, pc, outcome, container, stray, cleanup, fault>>

\* A listed container is removed, or its removal is refused twice.
SweepOne(p) ==
    /\ \E r \in listed[p] :
         /\ listed' = [listed EXCEPT ![p] = @ \ {r}]
         /\ \E state \in {"gone", container[r]} : Becomes(r, state)
    /\ UNCHANGED <<server, home, pc, outcome, stray, cleanup, fault>>

Ready(p) ==
    /\ server[p] = "sweeping"
    /\ listed[p] = {}
    /\ server' = [server EXCEPT ![p] = "up"]
    /\ UNCHANGED <<listed, home, pc, outcome, container, stray, cleanup, fault>>

-----------------------------------------------------------------------------
(* A run *)

Submit(r, p) ==
    /\ pc[r] = "idle"
    /\ p \in Serving
    /\ server[p] = "up"
    /\ home' = [home EXCEPT ![r] = p]
    /\ Goto(r, "queued")
    /\ UNCHANGED <<server, listed, outcome, container, stray, cleanup, fault>>

Slots(p) == {r \in Runs : InFlight(r) /\ home[r] = p}
SlotFree(p) == Cardinality(Slots(p)) < MaxConcurrent

Acquire(r) ==
    /\ pc[r] = "queued"
    /\ SlotFree(home[r])
    /\ Goto(r, "creating")
    /\ UNCHANGED <<server, listed, home, outcome, container, stray, cleanup, fault>>

\* The queue timed out: SandboxBusy.
Refuse(r) ==
    /\ pc[r] = "queued"
    /\ ~SlotFree(home[r])
    /\ Answer(r, "sandbox_error")
    /\ Goto(r, "over")
    /\ UNCHANGED <<server, listed, home, container, stray, cleanup, fault>>

\* The container is created: for the run, or for one that has been cancelled
\* meanwhile and only removes it.
Created(r) ==
    /\ pc[r] \in {"creating", "abandoning"}
    /\ Becomes(r, "created")
    /\ IF pc[r] = "creating"
       THEN Goto(r, "starting") /\ UNCHANGED cleanup
       ELSE Goto(r, "discarding") /\ cleanup' = [cleanup EXCEPT ![r] = "first"]
    /\ UNCHANGED <<server, listed, home, outcome, stray, fault>>

\* An error, perhaps of a creation that takes effect all the same: nobody knows
\* of it.
CreateFails(r) ==
    /\ pc[r] \in {"creating", "abandoning"}
    /\ Answer(r, IF pc[r] = "creating" THEN "sandbox_error" ELSE None)
    /\ Goto(r, "over")
    /\ \/ UNCHANGED <<stray, fault>>
       \/ Leave(r, "create") /\ Blame(r, "unanswered")
    /\ UNCHANGED <<server, listed, home, container, cleanup>>

\* Mutant: the slot is given back while the container is being removed.
FinallyUnawaited(r) ==
    /\ Goto(r, "over")
    /\ cleanup' = [cleanup EXCEPT ![r] = "first"]

\* The finally clause of run.
Finally(r) ==
    /\ Goto(r, "removing")
    /\ cleanup' = [cleanup EXCEPT ![r] = "first"]

Started(r) ==
    /\ pc[r] = "starting"
    /\ container[r] = "created"
    /\ Becomes(r, "running")
    /\ Goto(r, "waiting")
    /\ UNCHANGED <<server, listed, home, outcome, stray, cleanup, fault>>

\* Mutant: the wait takes a timeout of its own for the end of the code.
WaitedNotLong(r) ==
    /\ pc[r] = "waiting"
    /\ Goto(r, "inspecting")
    /\ UNCHANGED <<server, listed, home, outcome, container, stray, cleanup, fault>>

Waited(r) ==
    /\ pc[r] = "waiting"
    /\ ~Running(r)
    /\ Goto(r, "inspecting")
    /\ UNCHANGED <<server, listed, home, outcome, container, stray, cleanup, fault>>

TimesOut(r) ==
    /\ pc[r] = "waiting"
    /\ Answer(r, "timeout")
    /\ Goto(r, "killing")
    /\ UNCHANGED <<server, listed, home, container, stray, cleanup, fault>>

\* _kill and the wait after it, whose failures are only logged.
Kill(r) ==
    /\ pc[r] = "killing"
    /\ \/ UNCHANGED container
       \/ Running(r) /\ Becomes(r, "exited")
    /\ Goto(r, "inspecting")
    /\ UNCHANGED <<server, listed, home, outcome, stray, cleanup, fault>>

Inspected(r) ==
    /\ pc[r] = "inspecting"
    /\ Exists(r)
    /\ Goto(r, "reading")
    /\ UNCHANGED <<server, listed, home, outcome, container, stray, cleanup, fault>>

\* The logs, and with them the result.
LogsRead(r) ==
    /\ pc[r] = "reading"
    /\ Exists(r)
    /\ Answer(r, IF outcome[r] = "timeout" THEN "timeout" ELSE "ran")
    /\ Finally(r)
    /\ UNCHANGED <<server, listed, home, container, stray, fault>>

\* The daemon answers with an error, for one that the container is gone: a
\* SandboxError.
CallFails(r) ==
    /\ pc[r] \in Calling \ {"killing"}
    /\ Answer(r, "sandbox_error")
    /\ Finally(r)
    /\ IF pc[r] = "starting" THEN Leave(r, "start") ELSE UNCHANGED stray
    /\ UNCHANGED <<server, listed, home, container, fault>>

\* Mutant: the run waits until its container is gone.
EndWhenGone(r) ==
    /\ pc[r] \in {"removing", "discarding"}
    /\ container[r] = "gone"
    /\ Goto(r, "over")
    /\ UNCHANGED <<server, listed, home, outcome, container, stray, cleanup, fault>>

\* The run ends when its container has been removed, or given up on.
End(r) ==
    /\ pc[r] \in {"removing", "discarding"}
    /\ cleanup[r] = "none"
    /\ Goto(r, "over")
    /\ UNCHANGED <<server, listed, home, outcome, container, stray, cleanup, fault>>

-----------------------------------------------------------------------------
(* _remove, which run shields and so may outlive it *)

Removed(r) ==
    /\ cleanup[r] # "none"
    /\ cleanup' = [cleanup EXCEPT ![r] = "none"]
    /\ Becomes(r, "gone")
    /\ UNCHANGED <<server, listed, home, pc, outcome, stray, fault>>

\* The first refusal is followed by another attempt, the second by none.
RemoveRefused(r) ==
    /\ \/ /\ cleanup[r] = "first"
          /\ cleanup' = [cleanup EXCEPT ![r] = "second"]
          /\ UNCHANGED fault
       \/ /\ cleanup[r] = "second"
          /\ cleanup' = [cleanup EXCEPT ![r] = "none"]
          /\ Blame(r, "refused")
    /\ UNCHANGED <<server, listed, home, pc, outcome, container, stray>>

-----------------------------------------------------------------------------
(* Cancellation *)

\* Mutant: the creation is not shielded.
CancelCreationUnshielded(r) ==
    /\ pc[r] = "creating"
    /\ Goto(r, "over")
    /\ Leave(r, "create")
    /\ UNCHANGED <<cleanup, container, fault>>

\* The first cancellation waits for the creation; a second one does not.
CancelCreation(r) ==
    \/ /\ pc[r] = "creating"
       /\ Goto(r, "abandoning")
       /\ UNCHANGED <<stray, cleanup, container, fault>>
    \/ /\ pc[r] = "abandoning"
       /\ Goto(r, "over")
       /\ Leave(r, "create")
       /\ Blame(r, "interrupted")
       /\ UNCHANGED <<cleanup, container>>

\* The removal of an abandoned creation is not shielded.
CancelDiscard(r) ==
    /\ pc[r] = "discarding"
    /\ Goto(r, "over")
    /\ cleanup' = [cleanup EXCEPT ![r] = "none"]
    /\ Blame(r, "interrupted")
    /\ \E state \in {"gone", container[r]} : Becomes(r, state)
    /\ UNCHANGED stray

CancelCall(r) ==
    /\ pc[r] \in Calling
    /\ Finally(r)
    /\ IF pc[r] = "starting" THEN Leave(r, "start") ELSE UNCHANGED stray
    /\ UNCHANGED <<container, fault>>

\* The shielded removal goes on without the run.
CancelRemoval(r) ==
    /\ pc[r] = "removing"
    /\ Goto(r, "over")
    /\ Blame(r, "hurried")
    /\ UNCHANGED <<stray, cleanup, container>>

CancelWait(r) ==
    /\ pc[r] = "queued"
    /\ Goto(r, "over")
    /\ UNCHANGED <<stray, cleanup, container, fault>>

Cancel(r) ==
    /\ \/ CancelWait(r) \/ CancelCreation(r) \/ CancelDiscard(r)
       \/ CancelCall(r) \/ CancelRemoval(r)
    /\ Answer(r, None)
    /\ UNCHANGED <<server, listed, home>>

-----------------------------------------------------------------------------
(* The daemon and the machine *)

\* A call that nobody waits for takes effect.
StrayCall(r) ==
    /\ stray[r] # {}
    /\ stray' = [stray EXCEPT ![r] = {}]
    /\ IF stray[r] = {"create"} THEN Becomes(r, "created")
       ELSE IF container[r] = "created" THEN Becomes(r, "running")
       ELSE UNCHANGED container
    /\ UNCHANGED <<server, listed, home, pc, outcome, cleanup, fault>>

\* The code ends, or the harness's own limits end it.
Exit(r) ==
    /\ Running(r)
    /\ Becomes(r, "exited")
    /\ UNCHANGED <<server, listed, home, pc, outcome, stray, cleanup, fault>>

\* A run has given its container up long before it is that old: the timeouts of
\* all its calls add up to less than DEFAULT_STALE_AFTER_S.
Age(r) ==
    /\ container[r] = "running"
    /\ ~InFlight(r)
    /\ Becomes(r, "stale")
    /\ UNCHANGED <<server, listed, home, pc, outcome, stray, cleanup, fault>>

\* A process dies; a call it had sent may still take effect.
Crash(p) ==
    LET dying == {r \in Runs : home[r] = p /\ (pc[r] # "over" \/ cleanup[r] # "none")}
        sent(r) == CASE pc[r] \in {"creating", "abandoning"} -> {{}, {"create"}}
                     [] pc[r] = "starting" -> {{}, {"start"}}
                     [] OTHER -> {stray[r]}
    IN
    /\ server[p] # "down"
    /\ server' = [server EXCEPT ![p] = "down"]
    /\ listed' = [listed EXCEPT ![p] = {}]
    /\ pc' = [r \in Runs |-> IF r \in dying THEN "over" ELSE pc[r]]
    /\ cleanup' = [r \in Runs |-> IF r \in dying THEN "none" ELSE cleanup[r]]
    /\ fault' = [r \in Runs |-> IF r \in dying THEN "died" ELSE fault[r]]
    /\ stray' \in {calls \in [Runs -> SUBSET {"create", "start"}] :
                     \A r \in Runs : IF r \in dying THEN calls[r] \in sent(r)
                                                    ELSE calls[r] = stray[r]}
    /\ UNCHANGED <<home, outcome, container>>

-----------------------------------------------------------------------------

Proceed(r) ==
    \/ Acquire(r) \/ Refuse(r) \/ Created(r) \/ CreateFails(r)
    \/ Started(r) \/ Waited(r) \/ TimesOut(r) \/ Kill(r)
    \/ Inspected(r) \/ LogsRead(r) \/ CallFails(r) \/ End(r)

Remove(r) == Removed(r) \/ RemoveRefused(r)

Next ==
    \/ \E p \in Processes : Boot(p) \/ SweepOne(p) \/ Ready(p) \/ Crash(p)
    \/ \E r \in Runs, p \in Processes : Submit(r, p)
    \/ \E r \in Runs : Proceed(r) \/ Remove(r) \/ Cancel(r)
    \/ \E r \in Runs : StrayCall(r) \/ Exit(r) \/ Age(r)

\* Every call of the daemon has a timeout, and so has the queue.
Fairness == \A r \in Runs : WF_vars(Proceed(r)) /\ WF_vars(Remove(r))

Spec == Init /\ [][Next]_vars /\ Fairness

-----------------------------------------------------------------------------
(* Properties *)

TypeOK ==
    /\ server \in [Processes -> {"down", "sweeping", "up"}]
    /\ listed \in [Processes -> SUBSET Runs]
    /\ home \in [Runs -> Processes \cup {None}]
    /\ pc \in [Runs -> {"idle", "queued", "over"} \cup Holding]
    /\ outcome \in [Runs -> {None, "sandbox_error", "timeout", "ran"}]
    /\ container \in [Runs -> {"none", "created", "running", "stale", "exited", "gone"}]
    /\ stray \in [Runs -> SUBSET {"create", "start"}]
    /\ cleanup \in [Runs -> {"none", "first", "second"}]
    /\ fault \in [Runs -> Faults]

\* "Containers are always removed, even on timeout, cancellation, or infra
\* failure": what a run leaves behind is due to a removal refused twice, a
\* creation answered with an error, a second cancellation before the container
\* was the run's own, or the death of the process, never to one cancellation,
\* a timeout or a failed call.
LeaksHaveACause ==
    \A r \in Runs :
       pc[r] = "over" /\ cleanup[r] = "none" /\ Exists(r)
          => fault[r] \notin {"none", "hurried"}

\* sandbox_max_concurrent is the "Max sandbox containers running at once": the
\* slot of a run that was not disturbed twice is free only when its container
\* has stopped, also when the run timed out, failed or was cancelled.
RunningWithinLimit ==
    \A p \in Processes :
       Cardinality({r \in Runs : /\ home[r] = p
                                 /\ Running(r)
                                 /\ fault[r] = "none"}) <= MaxConcurrent

\* A result is read only from a container whose code has ended: one that was
\* swept away or killed meanwhile is a timeout or an error, never an answer.
ReadsWhatEnded ==
    \A r \in Runs : outcome'[r] = "ran" /\ outcome[r] # "ran" => container[r] = "exited"

ResultsAreWhole == [][ReadsWhatEnded]_vars

\* Every run ends, whatever the daemon refuses and whoever is cancelled.
EveryRunEnds == \A r \in Runs : pc[r] # "idle" ~> pc[r] = "over"

\* The inductive invariant behind them.  Before its creation a run has nothing;
\* what is listed for the sweep was created; a creation nobody waits for belongs
\* to a run that is over and had a cause; a run that has passed its finally
\* clause has removed its container or is to blame; and what a run waits for has
\* been started and, unless it timed out, is read only when it has stopped.
BeforeCreation ==
    \A r \in Runs : pc[r] \in {"idle", "queued", "creating", "abandoning"} =>
       container[r] = "none" /\ cleanup[r] = "none" /\ fault[r] = "none"

ListedWasCreated ==
    \A p \in Processes : \A r \in listed[p] : container[r] # "none"

StraysAreForsaken ==
    \A r \in Runs : "create" \in stray[r] =>
       pc[r] = "over" /\ fault[r] \in {"unanswered", "interrupted", "died"}

NothingForgotten ==
    \A r \in Runs :
       /\ pc[r] \in {"discarding", "removing", "over"} /\ cleanup[r] = "none"
            => ~Exists(r) \/ fault[r] \notin {"none", "hurried"}
       /\ pc[r] = "over" /\ cleanup[r] # "none" => fault[r] # "none"

WaitsForStarted ==
    \A r \in Runs :
       /\ pc[r] = "waiting" => container[r] \in {"running", "stale", "exited", "gone"}
       /\ pc[r] = "killing" => outcome[r] = "timeout"
       /\ pc[r] \in {"inspecting", "reading"} /\ outcome[r] # "timeout"
            => container[r] \in {"exited", "gone"}

SandboxInv ==
    /\ TypeOK
    /\ BeforeCreation
    /\ ListedWasCreated
    /\ StraysAreForsaken
    /\ NothingForgotten
    /\ WaitsForStarted

=============================================================================
