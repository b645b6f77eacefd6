---------------------------- MODULE ServiceProofs ----------------------------
(***************************************************************************)
(* Proofs about what a turn calls on: the sandbox its code runs in, for any *)
(* sets of runs and of processes and any limit of containers, and the       *)
(* models it asks, for any number of turns, of calls and of credentials in  *)
(* either chain.                                                            *)
(***************************************************************************)
EXTENDS Sandbox, Failover, FiniteSetTheorems, TLAPS

-----------------------------------------------------------------------------
(* The sandbox: the inductive invariant *)

\* A server process that starts has created nothing.
LEMMA InitSetsUp == Init => SandboxInv
BY DEF Init, SandboxInv, TypeOK, BeforeCreation, ListedWasCreated, StraysAreForsaken,
       NothingForgotten, WaitsForStarted, Exists, Holding, Calling, Faults

\* Starting, sweeping and dying: the sweep removes only what was created, and the
\* runs of a process that dies are to blame for what they leave.
LEMMA ProcessKeepsInv ==
    ASSUME SandboxInv, NEW p \in Processes, Boot(p) \/ SweepOne(p) \/ Ready(p) \/ Crash(p)
    PROVE  SandboxInv'
<1> USE DEF SandboxInv, TypeOK, BeforeCreation, ListedWasCreated, StraysAreForsaken,
            NothingForgotten, WaitsForStarted, Exists, Holding, Calling, Faults
<1>1. ASSUME Boot(p) PROVE SandboxInv'
      BY <1>1 DEF Boot, Sweepable
<1>2. ASSUME SweepOne(p) PROVE SandboxInv'
      BY <1>2 DEF SweepOne, Becomes
<1>3. ASSUME Ready(p) PROVE SandboxInv'
      BY <1>3 DEF Ready
<1>4. ASSUME Crash(p) PROVE SandboxInv'
      BY <1>4 DEF Crash
<1> QED BY <1>1, <1>2, <1>3, <1>4

\* What a run does by itself.
LEMMA ProceedKeepsInv ==
    ASSUME SandboxInv, NEW r \in Runs, Proceed(r)
    PROVE  SandboxInv'
<1> USE DEF SandboxInv, TypeOK, BeforeCreation, ListedWasCreated, StraysAreForsaken,
            NothingForgotten, WaitsForStarted, Exists, Holding, Calling, Faults
<1>1. ASSUME Acquire(r) PROVE SandboxInv'
      BY <1>1 DEF Acquire, Goto
<1>2. ASSUME Refuse(r) PROVE SandboxInv'
      BY <1>2 DEF Refuse, Goto, Answer
<1>3. ASSUME Created(r) PROVE SandboxInv'
      BY <1>3 DEF Created, Goto, Becomes
<1>4. ASSUME CreateFails(r) PROVE SandboxInv'
      BY <1>4 DEF CreateFails, Goto, Leave, Answer, Blame
<1>5. ASSUME Started(r) PROVE SandboxInv'
      BY <1>5 DEF Started, Goto, Becomes
<1>6. ASSUME Waited(r) PROVE SandboxInv'
      BY <1>6 DEF Waited, Goto, Running
<1>7. ASSUME TimesOut(r) PROVE SandboxInv'
      BY <1>7 DEF TimesOut, Goto, Answer
<1>8. ASSUME Kill(r) PROVE SandboxInv'
      BY <1>8 DEF Kill, Goto, Becomes, Running
<1>9. ASSUME Inspected(r) PROVE SandboxInv'
      BY <1>9 DEF Inspected, Goto
<1>10. ASSUME LogsRead(r) PROVE SandboxInv'
      BY <1>10 DEF LogsRead, Goto, Answer, Finally
<1>11. ASSUME CallFails(r) PROVE SandboxInv'
      BY <1>11 DEF CallFails, Goto, Answer, Finally, Leave
<1>12. ASSUME End(r) PROVE SandboxInv'
      BY <1>12 DEF End, Goto
<1> QED BY <1>1, <1>2, <1>3, <1>4, <1>5, <1>6, <1>7, <1>8, <1>9, <1>10, <1>11, <1>12 DEF Proceed

\* The removal, which a second refusal ends with the container in place.
LEMMA RemoveKeepsInv ==
    ASSUME SandboxInv, NEW r \in Runs, Remove(r)
    PROVE  SandboxInv'
<1> USE DEF SandboxInv, TypeOK, BeforeCreation, ListedWasCreated, StraysAreForsaken,
            NothingForgotten, WaitsForStarted, Exists, Holding, Calling, Faults
<1>1. ASSUME Removed(r) PROVE SandboxInv'
      BY <1>1 DEF Removed, Becomes
<1>2. ASSUME RemoveRefused(r) PROVE SandboxInv'
      BY <1>2 DEF RemoveRefused, Blame
<1> QED BY <1>1, <1>2 DEF Remove

\* A cancellation at any await: what it leaves is in the hands of the removal, or
\* is the second one.
LEMMA CancelKeepsInv ==
    ASSUME SandboxInv, NEW r \in Runs, Cancel(r)
    PROVE  SandboxInv'
<1> USE DEF SandboxInv, TypeOK, BeforeCreation, ListedWasCreated, StraysAreForsaken,
            NothingForgotten, WaitsForStarted, Exists, Holding, Calling, Faults,
            Cancel, Goto, Answer
<1>1. ASSUME CancelWait(r) PROVE SandboxInv'
      BY <1>1 DEF CancelWait
<1>2. ASSUME CancelCreation(r) PROVE SandboxInv'
      BY <1>2 DEF CancelCreation, Leave, Blame
<1>3. ASSUME CancelDiscard(r) PROVE SandboxInv'
      BY <1>3 DEF CancelDiscard, Blame, Becomes
<1>4. ASSUME CancelCall(r) PROVE SandboxInv'
      BY <1>4 DEF CancelCall, Finally, Leave
<1>5. ASSUME CancelRemoval(r) PROVE SandboxInv'
      BY <1>5 DEF CancelRemoval, Blame
<1> QED BY <1>1, <1>2, <1>3, <1>4, <1>5

\* A call nobody waits for takes effect late: the container it creates belongs to
\* a run that is over and had a cause.
LEMMA StrayCallKeepsInv ==
    ASSUME SandboxInv, NEW r \in Runs, StrayCall(r)
    PROVE  SandboxInv'
<1> USE DEF SandboxInv, StrayCall
<1>1. stray[r] \in SUBSET {"create", "start"}
      BY DEF TypeOK
<1>2. CASE "create" \in stray[r]
  <2>1. pc[r] = "over" /\ fault[r] \in {"unanswered", "interrupted", "died"}
        BY <1>2 DEF StraysAreForsaken
  <2> QED BY <1>2, <2>1 DEF TypeOK, BeforeCreation, ListedWasCreated, StraysAreForsaken,
             NothingForgotten, WaitsForStarted, Exists, Holding, Calling, Faults, Becomes
<1>3. CASE stray[r] = {"start"}
  <2>1. \/ container[r] = "created" /\ Becomes(r, "running")
        \/ UNCHANGED container
        BY <1>3
  <2> QED BY <1>3, <2>1 DEF TypeOK, BeforeCreation, ListedWasCreated, StraysAreForsaken,
             NothingForgotten, WaitsForStarted, Exists, Holding, Calling, Faults, Becomes
<1> QED BY <1>1, <1>2, <1>3

\* What the daemon does by itself.
LEMMA DaemonKeepsInv ==
    ASSUME SandboxInv, NEW r \in Runs, StrayCall(r) \/ Exit(r) \/ Age(r)
    PROVE  SandboxInv'
<1>1. ASSUME Exit(r) \/ Age(r) PROVE SandboxInv'
      BY <1>1 DEF SandboxInv, TypeOK, BeforeCreation, ListedWasCreated, StraysAreForsaken,
                  NothingForgotten, WaitsForStarted, Exists, Holding, Calling, Faults,
                  Exit, Age, Running, InFlight, Becomes
<1> QED BY <1>1, StrayCallKeepsInv

\* A run is asked of a process: it has nothing yet.
LEMMA SubmitKeepsInv ==
    ASSUME SandboxInv, NEW r \in Runs, NEW p \in Processes, Submit(r, p)
    PROVE  SandboxInv'
BY DEF SandboxInv, TypeOK, BeforeCreation, ListedWasCreated, StraysAreForsaken,
       NothingForgotten, WaitsForStarted, Exists, Holding, Calling, Faults, Submit, Goto

\* Every step keeps the invariant.
LEMMA StepKeepsInv == SandboxInv /\ [Next]_vars => SandboxInv'
<1> SUFFICES ASSUME SandboxInv, [Next]_vars PROVE SandboxInv'
    OBVIOUS
<1>1. CASE \E p \in Processes : Boot(p) \/ SweepOne(p) \/ Ready(p) \/ Crash(p)
      BY <1>1, ProcessKeepsInv
<1>2. CASE \E r \in Runs, p \in Processes : Submit(r, p)
      BY <1>2, SubmitKeepsInv
<1>3. CASE \E r \in Runs : Proceed(r) \/ Remove(r) \/ Cancel(r)
      BY <1>3, ProceedKeepsInv, RemoveKeepsInv, CancelKeepsInv
<1>4. CASE \E r \in Runs : StrayCall(r) \/ Exit(r) \/ Age(r)
      BY <1>4, DaemonKeepsInv
<1>5. CASE UNCHANGED vars
      BY <1>5 DEF vars, SandboxInv, TypeOK, BeforeCreation, ListedWasCreated,
                  StraysAreForsaken, NothingForgotten, WaitsForStarted, Exists
<1> QED BY <1>1, <1>2, <1>3, <1>4, <1>5 DEF Next

-----------------------------------------------------------------------------
(* Theorems *)

\* Whatever is cancelled, refused, killed or swept, the invariant holds.
THEOREM SandboxInvariant == Spec => []SandboxInv
<1> QED BY InitSetsUp, StepKeepsInv, PTL DEF Spec

\* Every variable keeps its type.
THEOREM SandboxTypes == Spec => []TypeOK
<1>1. SandboxInv => TypeOK
      BY DEF SandboxInv
<1> QED BY <1>1, SandboxInvariant, PTL

\* run's "Containers are always removed": a container that outlives its run
\* outlives it because its removal was refused twice, its creation was answered
\* with an error or cancelled a second time, or the process died.
THEOREM LeaksAreCaused == Spec => []LeaksHaveACause
<1>1. SandboxInv => LeaksHaveACause
      BY DEF SandboxInv, NothingForgotten, LeaksHaveACause
<1> QED BY <1>1, SandboxInvariant, PTL

\* Only reading the logs makes a result, and only of a container that has ended.
LEMMA OnlyEndedIsRead == SandboxInv /\ [Next]_vars => ReadsWhatEnded
<1> SUFFICES ASSUME SandboxInv, [Next]_vars,
                    NEW r \in Runs, outcome'[r] = "ran", outcome[r] # "ran"
             PROVE  container[r] = "exited"
    BY DEF ReadsWhatEnded
<1> USE DEF SandboxInv, TypeOK
<1>1. ASSUME NEW s \in Runs, LogsRead(s) PROVE container[r] = "exited"
  <2>1. s = r /\ outcome[r] # "timeout"
        BY <1>1 DEF LogsRead, Answer
  <2> QED BY <1>1, <2>1 DEF LogsRead, WaitsForStarted, Exists
<1>2. ASSUME NEW s \in Runs, Proceed(s) PROVE LogsRead(s)
      BY <1>2, NoneIsNeither DEF Proceed, Acquire, Refuse, Created, CreateFails, Started, Waited,
               TimesOut, Kill, Inspected, CallFails, End, Answer
<1>3. ASSUME NEW s \in Runs, Cancel(s) PROVE FALSE
      BY <1>3, NoneIsNeither DEF Cancel, Answer
<1>4. UNCHANGED outcome => FALSE
      OBVIOUS
<1>5. ASSUME NEW s \in Runs, Remove(s) \/ StrayCall(s) \/ Exit(s) \/ Age(s)
      PROVE  UNCHANGED outcome
      BY <1>5 DEF Remove, Removed, RemoveRefused, StrayCall, Exit, Age
<1>6. ASSUME NEW p \in Processes, Boot(p) \/ SweepOne(p) \/ Ready(p) \/ Crash(p)
      PROVE  UNCHANGED outcome
      BY <1>6 DEF Boot, SweepOne, Ready, Crash
<1>7. ASSUME NEW s \in Runs, NEW p \in Processes, Submit(s, p) PROVE UNCHANGED outcome
      BY <1>7 DEF Submit
<1> QED BY <1>1, <1>2, <1>3, <1>4, <1>5, <1>6, <1>7 DEF Next, vars

\* A run that was swept away, killed or timed out meanwhile is never answered as
\* one that ran.
THEOREM ReadsAreWhole == Spec => ResultsAreWhole
<1> QED BY SandboxInvariant, OnlyEndedIsRead, PTL DEF Spec, ResultsAreWhole
-----------------------------------------------------------------------------
(* The limit *)

SlotsWithinLimit ==
    \A p \in Processes : IsFiniteSet(Slots(p)) /\ Cardinality(Slots(p)) <= MaxConcurrent

\* Only the semaphore lets a run in.
LEMMA OnlyAcquireTakes ==
    ASSUME SandboxInv, [Next]_vars, \A r \in Runs : ~Acquire(r), NEW p \in Processes
    PROVE  Slots(p)' \subseteq Slots(p)
<1> USE DEF SandboxInv, TypeOK, Slots, InFlight, Holding, Calling
<1>1. ASSUME NEW s \in Runs, Proceed(s) \/ Cancel(s)
      PROVE  \A r \in Runs : InFlight(r)' => InFlight(r) /\ home'[r] = home[r]
      BY <1>1 DEF Proceed, Refuse, Created, CreateFails, Started, Waited, TimesOut, Kill,
               Inspected, LogsRead, CallFails, End, Goto, Finally, Cancel, CancelWait,
               CancelCreation, CancelDiscard, CancelCall, CancelRemoval
<1>2. ASSUME NEW s \in Runs, Remove(s) \/ StrayCall(s) \/ Exit(s) \/ Age(s)
      PROVE  UNCHANGED <<pc, home>>
      BY <1>2 DEF Remove, Removed, RemoveRefused, StrayCall, Exit, Age
<1>3. ASSUME NEW q \in Processes, Boot(q) \/ SweepOne(q) \/ Ready(q)
      PROVE  UNCHANGED <<pc, home>>
      BY <1>3 DEF Boot, SweepOne, Ready
<1>4. ASSUME NEW q \in Processes, Crash(q)
      PROVE  \A r \in Runs : InFlight(r)' => InFlight(r) /\ home'[r] = home[r]
      BY <1>4 DEF Crash
<1>5. ASSUME NEW s \in Runs, NEW q \in Processes, Submit(s, q)
      PROVE  \A r \in Runs : InFlight(r)' => InFlight(r) /\ home'[r] = home[r]
      BY <1>5 DEF Submit, Goto
<1> QED BY <1>1, <1>2, <1>3, <1>4, <1>5 DEF Next, vars

\* The semaphore lets a run in only beside fewer than the limit.
LEMMA StepKeepsSlots ==
    SandboxInv /\ SlotsWithinLimit /\ [Next]_vars => SlotsWithinLimit'
<1> SUFFICES ASSUME SandboxInv, SlotsWithinLimit, [Next]_vars, NEW p \in Processes
             PROVE  IsFiniteSet(Slots(p)') /\ Cardinality(Slots(p)') <= MaxConcurrent
    BY DEF SlotsWithinLimit
<1>1. IsFiniteSet(Slots(p)) /\ Cardinality(Slots(p)) <= MaxConcurrent
      BY DEF SlotsWithinLimit
<1>2. CASE \A r \in Runs : ~Acquire(r)
  <2>1. Slots(p)' \subseteq Slots(p)
        BY <1>2, OnlyAcquireTakes
  <2>2. /\ IsFiniteSet(Slots(p)')
        /\ Cardinality(Slots(p)') <= Cardinality(Slots(p))
        BY <1>1, <2>1, FS_Subset
  <2> QED BY <1>1, <2>2, FS_CardinalityType, SomeSlots
<1>3. ASSUME NEW r \in Runs, Acquire(r)
      PROVE  IsFiniteSet(Slots(p)') /\ Cardinality(Slots(p)') <= MaxConcurrent
  <2>1. CASE home[r] = p
    <3>1. Slots(p)' \subseteq Slots(p) \cup {r}
          BY <1>3 DEF Acquire, Goto, Slots, InFlight, Holding, Calling, SandboxInv, TypeOK
    <3>2. Cardinality(Slots(p)) < MaxConcurrent
          BY <1>3, <2>1 DEF Acquire, SlotFree
    <3>3. /\ IsFiniteSet(Slots(p) \cup {r})
          /\ Cardinality(Slots(p) \cup {r}) <= Cardinality(Slots(p)) + 1
      <4> DEFINE taken == Slots(p)
      <4>1. IsFiniteSet(taken)
            BY <1>1
      <4> HIDE DEF taken
      <4>2. Cardinality(taken) \in Nat
            BY <4>1, FS_CardinalityType
      <4>3. /\ IsFiniteSet(taken \cup {r})
            /\ Cardinality(taken \cup {r}) =
                 IF r \in taken THEN Cardinality(taken) ELSE Cardinality(taken) + 1
            BY <4>1, FS_AddElement
      <4>4. Cardinality(taken \cup {r}) <= Cardinality(taken) + 1
            BY <4>2, <4>3
      <4> QED BY <4>3, <4>4 DEF taken
    <3>4. /\ IsFiniteSet(Slots(p)')
          /\ Cardinality(Slots(p)') <= Cardinality(Slots(p) \cup {r})
          BY <3>1, <3>3, FS_Subset
    <3> QED BY <1>1, <3>2, <3>3, <3>4, FS_CardinalityType, SomeSlots
  <2>2. CASE home[r] # p
    <3>1. Slots(p)' = Slots(p)
          BY <1>3, <2>2 DEF Acquire, Goto, Slots, InFlight, SandboxInv, TypeOK
    <3> QED BY <1>1, <3>1
  <2> QED BY <2>1, <2>2
<1> QED BY <1>2, <1>3

\* No process runs more containers than sandbox_max_concurrent, whatever times
\* out, fails or is cancelled once.
THEOREM LimitIsKept == Spec => []RunningWithinLimit
<1>1. Init => SlotsWithinLimit
  <2> SUFFICES ASSUME Init, NEW p \in Processes
               PROVE  IsFiniteSet(Slots(p)) /\ Cardinality(Slots(p)) <= MaxConcurrent
      BY DEF SlotsWithinLimit
  <2>1. Slots(p) = {}
        BY DEF Init, Slots, InFlight, Holding, Calling
  <2> QED BY <2>1, FS_EmptySet, SomeSlots
<1>2. SandboxInv /\ SlotsWithinLimit => RunningWithinLimit
  <2> SUFFICES ASSUME SandboxInv, SlotsWithinLimit, NEW p \in Processes
               PROVE  Cardinality({r \in Runs : /\ home[r] = p
                                                /\ Running(r)
                                                /\ fault[r] = "none"}) <= MaxConcurrent
      BY DEF RunningWithinLimit
  <2> DEFINE running == {r \in Runs : home[r] = p /\ Running(r) /\ fault[r] = "none"}
  <2>1. \A r \in Runs : Running(r) /\ fault[r] = "none" => InFlight(r)
        BY DEF SandboxInv, TypeOK, BeforeCreation, NothingForgotten, Exists, Running,
               InFlight, Holding, Calling
  <2>2. running \subseteq Slots(p)
        BY <2>1 DEF Slots
  <2>3. IsFiniteSet(Slots(p)) /\ Cardinality(Slots(p)) <= MaxConcurrent
        BY DEF SlotsWithinLimit
  <2>4. IsFiniteSet(running) /\ Cardinality(running) <= Cardinality(Slots(p))
        BY <2>2, <2>3, FS_Subset
  <2> QED BY <2>3, <2>4, FS_CardinalityType, SomeSlots
<1> QED BY <1>1, <1>2, SandboxInvariant, StepKeepsSlots, PTL DEF Spec

-----------------------------------------------------------------------------
(* The models: the inductive invariant *)

\* The cursor, the client a call began with and the one it asks are its chain's.
WithinChain ==
    /\ \A ch \in Chains : cursor[ch] < Size(ch)
    /\ \A t \in Turns : stage[t] \in InCall => index[t] < Size(chain[t]) /\ start[t] < Size(chain[t])

\* What a call has asked so far.  Before its wait it has asked the clients from
\* the one it began with to the one it asks now, once each.  While it waits, it
\* still has; after that, those past the one it asks now have been asked once at
\* most.  Its second pass goes over the clients before the one it began with.
AskedOnTheWay(t) ==
    /\ start[t] <= index[t]
    /\ \A c \in Clients : c < start[t] => tried[t][c] = 0
    /\ \A c \in Clients : c > index[t] => tried[t][c] <= 1 /\ (~waited[t] => tried[t][c] = 0)

AskedBeforeWaking(t) ==
    /\ waited[t]
    /\ start[t] <= index[t]
    /\ \A c \in Clients : tried[t][c] <= 1 /\ (c < start[t] => tried[t][c] = 0)

AskedInSecondPass(t) ==
    /\ index[t] < start[t]
    /\ \A c \in Clients : c > index[t] /\ c < start[t] => tried[t][c] = 0

CallInOrder(t) ==
    /\ \A c \in brief[t] : start[t] <= c /\ c < Primary(chain[t])
    /\ stage[t] = "asking" => AskedOnTheWay(t)
    /\ stage[t] = "waiting" => AskedBeforeWaking(t)
    /\ stage[t] = "asking again" => AskedInSecondPass(t)

AskedInOrder == \A t \in Turns : CallInOrder(t)

FailoverInv == CallsTypeOK /\ WithinChain /\ AskedInOrder /\ OneMoreTry

-----------------------------------------------------------------------------
(* The chains *)

LEMMA ClientsAreClients ==
    /\ Clients \subseteq Nat
    /\ \A ch \in Chains : /\ Size(ch) \in Nat \ {0}
                          /\ Primary(ch) \in Nat
                          /\ Primary(ch) <= Size(ch)
    /\ \A ch \in Chains : \A c \in Nat : c < Size(ch) => c \in Clients
BY SomeClients, PrimaryIsPart DEF Clients, Chains, Size, Primary

LEMMA ClientsAreNumbers == \A c \in Clients : c \in Nat
BY ClientsAreClients

\* One more request to c is counted, up to Many.
LEMMA AskCounts ==
    ASSUME NEW t \in Turns, NEW c \in Clients, NEW counts \in [Clients -> 0..Many],
           tried \in [Turns -> [Clients -> 0..Many]], Ask(t, c, counts)
    PROVE  /\ tried' \in [Turns -> [Clients -> 0..Many]]
           /\ tried'[t][c] = IF counts[c] < Many THEN counts[c] + 1 ELSE counts[c]
           /\ \A e \in Clients : e # c => tried'[t][e] = counts[e]
           /\ \A u \in Turns : u # t => tried'[u] = tried[u]
BY DEF Ask, Many

-----------------------------------------------------------------------------
(* The steps *)

\* The variables of the other calls are their own: a step of one call touches
\* nothing of theirs but the cursor, which they read when they begin.
Unchanged(t) ==
    /\ stage'[t] = stage[t] /\ chain'[t] = chain[t]
    /\ index'[t] = index[t] /\ start'[t] = start[t]
    /\ brief'[t] = brief[t] /\ waited'[t] = waited[t] /\ tried'[t] = tried[t]

\* What is to be shown of a step of t.
AskedTwiceAtMost(t) ==
    \A c \in Clients :
        /\ tried[t][c] <= 2
        /\ tried[t][c] = 2 /\ stage[t] \in InCall => waited[t] /\ c >= start[t]

LEMMA OneCallMoves ==
    ASSUME FailoverInv, NEW t \in Turns, \A u \in Turns : u # t => Unchanged(u),
           CallInOrder(t)', AskedTwiceAtMost(t)'
    PROVE  AskedInOrder' /\ OneMoreTry'
<1>1. ASSUME NEW u \in Turns, u # t
      PROVE  CallInOrder(u)' /\ AskedTwiceAtMost(u)'
  <2>1. Unchanged(u) /\ CallInOrder(u) /\ AskedTwiceAtMost(u)
        BY <1>1 DEF FailoverInv, AskedInOrder, OneMoreTry, AskedTwiceAtMost
  <2>2. CallInOrder(u)'
        BY <2>1 DEF Unchanged, CallInOrder, AskedOnTheWay, AskedBeforeWaking, AskedInSecondPass
  <2>3. AskedTwiceAtMost(u)'
        BY <2>1 DEF Unchanged, AskedTwiceAtMost
  <2> QED BY <2>2, <2>3
<1> QED BY <1>1 DEF AskedInOrder, OneMoreTry, AskedTwiceAtMost

\* A call that begins on a chain has asked one client once.
LEMMA EnterKeepsInv ==
    ASSUME FailoverInv, NEW t \in Turns, NEW ch \in Chains,
           NEW cur \in [Chains -> Clients], \A x \in Chains : cur[x] < Size(x),
           NEW mov \in [Chains -> 0..Window \cup {Unset}],
           Enter(t, ch, cur, mov), spent' \in [Turns -> 0..MaxCalls]
    PROVE  FailoverInv'
<1> DEFINE from == IF Rewinds(ch, cur, mov) THEN 0 ELSE cur[ch]
<1>1. from \in Clients /\ from < Size(ch)
      BY ClientsAreClients DEF Rewinds
<1>2. Untried \in [Clients -> 0..Many] /\ \A c \in Clients : Untried[c] = 0
      BY DEF Untried, Many
<1>3. /\ tried' \in [Turns -> [Clients -> 0..Many]]
      /\ tried'[t][from] = 1
      /\ \A c \in Clients : c # from => tried'[t][c] = 0
  <2>1. Ask(t, from, Untried)
        BY DEF Enter
  <2>2. tried \in [Turns -> [Clients -> 0..Many]]
        BY DEF FailoverInv, CallsTypeOK
  <2> HIDE DEF from
  <2> QED BY <1>1, <1>2, <2>1, <2>2, AskCounts DEF Many
<1>4. \A u \in Turns : u # t => Unchanged(u)
      BY AskCounts, <1>1, <1>2 DEF Enter, Move, Ask, Unchanged, FailoverInv, CallsTypeOK
<1>5. CallsTypeOK'
      BY <1>1, <1>3, ClientsAreClients DEF Enter, Move, Ask, FailoverInv, CallsTypeOK, InCall, Asking
<1>6. /\ stage'[t] = "asking" /\ chain'[t] = ch /\ index'[t] = from /\ start'[t] = from
      /\ brief'[t] = {} /\ waited'[t] = FALSE
      BY DEF Enter, Move, Ask, FailoverInv, CallsTypeOK
<1>7. WithinChain'
      BY <1>1, <1>4, <1>6, ClientsAreClients
      DEF Enter, WithinChain, FailoverInv, Unchanged, CallsTypeOK, Rewinds
<1> HIDE DEF from
<1>8. CallInOrder(t)'
  <2>1. AskedOnTheWay(t)'
        BY <1>1, <1>3, <1>6, ClientsAreClients DEF AskedOnTheWay
  <2> QED BY <2>1, <1>6 DEF CallInOrder
<1>9. AskedTwiceAtMost(t)'
      BY <1>1, <1>3, <1>6 DEF AskedTwiceAtMost
<1> QED BY <1>4, <1>5, <1>7, <1>8, <1>9, OneCallMoves DEF FailoverInv

\* A call that is over asks nobody.
LEMMA ReturnKeepsInv ==
    ASSUME FailoverInv, NEW t \in Turns, NEW result \in Over, Return(t, result),
           cursor' \in [Chains -> Clients], \A x \in Chains : cursor'[x] < Size(x),
           moved' \in [Chains -> 0..Window \cup {Unset}],
           spent' \in [Turns -> 0..MaxCalls]
    PROVE  FailoverInv'
<1>1. /\ stage'[t] = result /\ result \notin InCall
      /\ brief'[t] = {}
      /\ \A c \in Clients : tried'[t][c] \in 0..Many /\ tried'[t][c] <= 2
  <2>1. \A c \in Clients : tried[t][c] \in 0..Many /\ tried[t][c] <= 2
        BY DEF FailoverInv, CallsTypeOK, OneMoreTry
  <2>2. tried'[t] = tried[t] \/ tried'[t] = Untried
        BY DEF Return, FailoverInv, CallsTypeOK
  <2>3. \A c \in Clients : tried'[t][c] \in 0..Many /\ tried'[t][c] <= 2
        BY <2>1, <2>2 DEF Untried, Many
  <2>4. stage'[t] = result /\ brief'[t] = {}
        BY DEF Return, Move, FailoverInv, CallsTypeOK
  <2>5. result \notin InCall
        BY DEF Over, InCall, Asking
  <2> QED BY <2>3, <2>4, <2>5
<1>2. \A u \in Turns : u # t => Unchanged(u)
      BY DEF Return, Move, Unchanged, FailoverInv, CallsTypeOK
<1>3. CallsTypeOK'
  <2>1. 0 \in Clients
        BY ClientsAreClients DEF Chains
  <2>2. tried' \in [Turns -> [Clients -> 0..Many]]
        BY DEF Return, FailoverInv, CallsTypeOK, Untried, Many
  <2> QED BY <2>1, <2>2 DEF Return, Move, FailoverInv, CallsTypeOK, Chains
<1>4. WithinChain'
      BY <1>1, <1>2 DEF FailoverInv, WithinChain, Unchanged, CallsTypeOK
<1>5. CallInOrder(t)'
      BY <1>1 DEF CallInOrder, InCall, Asking
<1>6. AskedTwiceAtMost(t)'
      BY <1>1 DEF AskedTwiceAtMost
<1> QED BY <1>2, <1>3, <1>4, <1>5, <1>6, OneCallMoves DEF FailoverInv

\* The chain has no answer.
LEMMA GiveUpKeepsInv ==
    ASSUME FailoverInv, NEW t \in Turns, NEW why \in Over,
           NEW cur \in [Chains -> Clients], \A x \in Chains : cur[x] < Size(x),
           NEW mov \in [Chains -> 0..Window \cup {Unset}],
           GiveUp(t, why, cur, mov), UNCHANGED spent
    PROVE  FailoverInv'
<1>1. spent' \in [Turns -> 0..MaxCalls]
      BY DEF FailoverInv, CallsTypeOK
<1>2. CASE chain[t] = "small"
      BY <1>1, <1>2, EnterKeepsInv DEF GiveUp, Chains
<1>3. CASE chain[t] # "small"
      BY <1>1, <1>3, ReturnKeepsInv DEF GiveUp
<1> QED BY <1>2, <1>3

\* The cursor past a refused client is still one of the chain.
LEMMA PastIsWithin ==
    ASSUME FailoverInv, NEW t \in Turns, stage[t] \in InCall
    PROVE  /\ PastCursor(t) \in [Chains -> Clients]
           /\ \A x \in Chains : PastCursor(t)[x] < Size(x)
           /\ PastMoved(t) \in [Chains -> 0..Window \cup {Unset}]
<1>1. chain[t] \in Chains /\ index[t] \in Nat /\ index[t] < Size(chain[t])
      BY ClientsAreClients DEF FailoverInv, CallsTypeOK, WithinChain
<1>2. Past(t) \in Clients /\ Past(t) < Size(chain[t])
      BY <1>1, ClientsAreClients DEF Past, Last
<1>3. PastCursor(t) \in [Chains -> Clients] /\ \A x \in Chains : PastCursor(t)[x] < Size(x)
      BY <1>1, <1>2 DEF PastCursor, FailoverInv, CallsTypeOK, WithinChain
<1>4. PastMoved(t) \in [Chains -> 0..Window \cup {Unset}]
      BY SomeWindow DEF PastMoved, FailoverInv, CallsTypeOK
<1> QED BY <1>3, <1>4

\* A call begins, within the budget of its turn.
LEMMA CallKeepsInv ==
    ASSUME FailoverInv, NEW t \in Turns, Call(t) PROVE FailoverInv'
<1>1. spent' \in [Turns -> 0..MaxCalls]
      BY SomeBudget DEF Call, FailoverInv, CallsTypeOK
<1>2. PICK ch \in Chains : Enter(t, ch, cursor, moved)
      BY DEF Call
<1>3. /\ cursor \in [Chains -> Clients] /\ \A x \in Chains : cursor[x] < Size(x)
      /\ moved \in [Chains -> 0..Window \cup {Unset}]
      BY DEF FailoverInv, CallsTypeOK, WithinChain
<1> QED BY <1>1, <1>2, <1>3, EnterKeepsInv

\* The turn ends.
LEMMA NextTurnKeepsInv ==
    ASSUME FailoverInv, NEW t \in Turns, NextTurn(t) PROVE FailoverInv'
<1>1. spent' \in [Turns -> 0..MaxCalls]
      BY SomeBudget DEF NextTurn, FailoverInv, CallsTypeOK
<1>2. /\ cursor' \in [Chains -> Clients] /\ \A x \in Chains : cursor'[x] < Size(x)
      /\ moved' \in [Chains -> 0..Window \cup {Unset}]
      BY DEF NextTurn, FailoverInv, CallsTypeOK, WithinChain
<1>3. Return(t, "idle") /\ "idle" \in Over
      BY DEF NextTurn, Over
<1> QED BY <1>1, <1>2, <1>3, ReturnKeepsInv

\* The request in the air is answered, fails, or was the last there is.
LEMMA EndKeepsInv ==
    ASSUME FailoverInv, NEW t \in Turns, Answered(t) \/ Failed(t) \/ Exhausted(t)
    PROVE  FailoverInv'
<1>1. /\ cursor \in [Chains -> Clients] /\ \A x \in Chains : cursor[x] < Size(x)
      /\ moved \in [Chains -> 0..Window \cup {Unset}]
      /\ spent \in [Turns -> 0..MaxCalls]
      /\ chain[t] \in Chains /\ index[t] \in Clients
      BY DEF FailoverInv, CallsTypeOK, WithinChain
<1>2. {"answered", "limited", "failed"} \subseteq Over
      BY DEF Over
<1>3. CASE Answered(t)
  <2>1. index[t] < Size(chain[t])
        BY <1>3 DEF Answered, FailoverInv, WithinChain, InCall
  <2>2. cursor' \in [Chains -> Clients] /\ \A x \in Chains : cursor'[x] < Size(x)
        BY <1>1, <1>3, <2>1 DEF Answered
  <2>3. moved' \in [Chains -> 0..Window \cup {Unset}]
        BY <1>1, <1>3, SomeWindow DEF Answered, AnsweredAgain
  <2> QED BY <1>1, <1>2, <1>3, <2>2, <2>3, ReturnKeepsInv DEF Answered
<1>4. CASE Failed(t)
      BY <1>1, <1>2, <1>4, GiveUpKeepsInv DEF Failed
<1>5. CASE Exhausted(t)
  <2>1. stage[t] \in InCall
        BY <1>5 DEF Exhausted, LastLimited, InCall, Asking
  <2>2. \/ GiveUp(t, "limited", PastCursor(t), PastMoved(t))
        \/ GiveUp(t, "limited", cursor, moved)
        BY <1>5 DEF Exhausted
  <2>3. UNCHANGED spent
        BY <1>5 DEF Exhausted
  <2> QED BY <1>1, <1>2, <2>1, <2>2, <2>3, PastIsWithin, GiveUpKeepsInv
<1> QED BY <1>3, <1>4, <1>5

\* What stays as it is while a call goes on.
LEMMA GoingOn ==
    ASSUME FailoverInv, NEW t \in Turns, stage[t] \in InCall, UNCHANGED <<spent, chain, start>>,
           cursor' \in [Chains -> Clients], \A x \in Chains : cursor'[x] < Size(x),
           moved' \in [Chains -> 0..Window \cup {Unset}],
           index' \in [Turns -> Clients], index'[t] < Size(chain[t]),
           stage' \in [Turns -> InCall \cup Over], brief' \in [Turns -> SUBSET Clients],
           waited' \in [Turns -> BOOLEAN], tried' \in [Turns -> [Clients -> 0..Many]],
           \A u \in Turns : u # t => Unchanged(u),
           CallInOrder(t)', AskedTwiceAtMost(t)'
    PROVE  FailoverInv'
<1>1. CallsTypeOK'
      BY DEF FailoverInv, CallsTypeOK
<1>2. WithinChain'
      BY DEF FailoverInv, WithinChain, Unchanged, CallsTypeOK
<1> QED BY <1>1, <1>2, OneCallMoves DEF FailoverInv

\* The wait: nothing is asked.
LEMMA WaitKeepsInv ==
    ASSUME FailoverInv, NEW t \in Turns, LimitedWait(t) PROVE FailoverInv'
<1>1. PICK soonest \in brief[t] \cup {index[t]} :
        /\ index' = [index EXCEPT ![t] = soonest]
        /\ ~waited[t]
        /\ soonest # index[t] => soonest \in brief[t]
        /\ soonest < Primary(chain[t])
  <2>1. PICK named \in BOOLEAN : /\ WorthWaiting(t, named)
                                 /\ \E s \in Brief(t, named) : index' = [index EXCEPT ![t] = s]
        BY DEF LimitedWait
  <2>2. PICK s \in Brief(t, named) : index' = [index EXCEPT ![t] = s]
        BY <2>1
  <2>3. \A c \in brief[t] : c < Primary(chain[t])
        BY DEF FailoverInv, AskedInOrder, CallInOrder
  <2> QED BY <2>1, <2>2, <2>3 DEF WorthWaiting, Brief
<1>2. /\ stage[t] = "asking" /\ stage[t] \in InCall /\ chain[t] \in Chains /\ start[t] \in Nat /\ index[t] \in Nat
      /\ brief[t] \subseteq Clients /\ index[t] < Size(chain[t])
      /\ AskedOnTheWay(t)
      /\ \A c \in brief[t] : start[t] <= c
      /\ AskedTwiceAtMost(t)
      BY ClientsAreClients DEF LimitedWait, FailoverInv, CallsTypeOK, WithinChain, AskedInOrder,
         CallInOrder, InCall, Asking, OneMoreTry, AskedTwiceAtMost
<1>3. soonest \in Clients /\ soonest < Size(chain[t]) /\ start[t] <= soonest
  <2>1. soonest \in Clients
        BY <1>1, <1>2, ClientsAreClients
  <2>2. soonest < Size(chain[t])
        BY <1>1, <1>2, <2>1, ClientsAreClients
  <2> QED BY <1>1, <1>2, <2>1, <2>2 DEF AskedOnTheWay
<1>4. \A c \in Clients : tried[t][c] \in 0..Many /\ tried[t][c] <= 1
                         /\ (c < start[t] => tried[t][c] = 0)
  <2> TAKE c \in Clients
  <2>1. c \in Nat /\ tried[t][c] \in 0..Many /\ tried[t][c] \in Nat
        BY ClientsAreClients DEF FailoverInv, CallsTypeOK, Many
  <2>2. tried[t][c] <= 2 /\ tried[t][c] # 2
        BY <1>1, <1>2 DEF AskedTwiceAtMost, InCall, Asking
  <2> QED BY <1>2, <2>1, <2>2 DEF AskedOnTheWay
<1>5. /\ stage'[t] = "waiting" /\ index'[t] = soonest /\ start'[t] = start[t] /\ brief'[t] = {}
      /\ waited'[t] /\ tried'[t] = tried[t] /\ chain'[t] = chain[t]
      BY <1>1 DEF LimitedWait, Move, FailoverInv, CallsTypeOK
<1>6. CallInOrder(t)'
      BY <1>3, <1>4, <1>5 DEF CallInOrder, AskedBeforeWaking
<1>7. AskedTwiceAtMost(t)'
      BY <1>4, <1>5 DEF AskedTwiceAtMost, Many
<1>8. \A u \in Turns : u # t => Unchanged(u)
      BY <1>1 DEF LimitedWait, Move, Unchanged, FailoverInv, CallsTypeOK
<1>9. /\ index' \in [Turns -> Clients] /\ stage' \in [Turns -> InCall \cup Over]
      /\ brief' \in [Turns -> SUBSET Clients] /\ waited' \in [Turns -> BOOLEAN]
      /\ tried' \in [Turns -> [Clients -> 0..Many]]
      BY <1>1, <1>3 DEF LimitedWait, Move, FailoverInv, CallsTypeOK, InCall
<1>10. /\ UNCHANGED <<spent, chain, start>>
       /\ cursor' \in [Chains -> Clients] /\ \A x \in Chains : cursor'[x] < Size(x)
       /\ moved' \in [Chains -> 0..Window \cup {Unset}]
       BY DEF LimitedWait, FailoverInv, CallsTypeOK, WithinChain
<1> QED BY <1>2, <1>3, <1>5, <1>6, <1>7, <1>8, <1>9, <1>10, GoingOn

\* The wait is over: the client is asked once more.
LEMMA WakeKeepsInv ==
    ASSUME FailoverInv, NEW t \in Turns, Wake(t) PROVE FailoverInv'
<1>1. /\ AskedBeforeWaking(t) /\ index[t] \in Clients /\ start[t] \in Clients
      /\ index[t] \in Nat /\ start[t] \in Nat
      /\ index[t] < Size(chain[t]) /\ stage[t] \in InCall
      /\ tried \in [Turns -> [Clients -> 0..Many]]
      /\ tried[t] \in [Clients -> 0..Many]
      /\ \A c \in brief[t] : start[t] <= c /\ c < Primary(chain[t])
      BY ClientsAreNumbers DEF Wake, FailoverInv, CallsTypeOK, WithinChain, AskedInOrder, CallInOrder, InCall
<1>2. Ask(t, index[t], tried[t])
      BY DEF Wake
<1>3. /\ tried' \in [Turns -> [Clients -> 0..Many]]
      /\ tried'[t][index[t]] <= 2
      /\ \A e \in Clients : e # index[t] => tried'[t][e] = tried[t][e]
  <2>1. tried[t][index[t]] \in 0..Many /\ tried[t][index[t]] <= 1
        BY <1>1 DEF AskedBeforeWaking
  <2> QED BY <1>1, <1>2, <2>1, AskCounts DEF Many
<1>4. /\ stage'[t] = "asking" /\ index'[t] = index[t] /\ start'[t] = start[t]
      /\ brief'[t] = brief[t] /\ waited'[t] = waited[t] /\ chain'[t] = chain[t]
      BY DEF Wake, Move, Ask, FailoverInv, CallsTypeOK
<1>5. CallInOrder(t)'
  <2>1. AskedOnTheWay(t)'
    <3>1. \A c \in Clients : /\ c \in Nat
                             /\ c < start[t] => c # index[t] /\ tried[t][c] = 0
                             /\ c > index[t] => c # index[t] /\ tried[t][c] <= 1
          BY <1>1, ClientsAreNumbers DEF AskedBeforeWaking
    <3>2. waited'[t] /\ start'[t] <= index'[t]
          BY <1>1, <1>4 DEF AskedBeforeWaking
    <3> QED BY <3>1, <3>2, <1>3, <1>4 DEF AskedOnTheWay
  <2> QED BY <2>1, <1>1, <1>4 DEF CallInOrder
<1>6. AskedTwiceAtMost(t)'
  <2> SUFFICES ASSUME NEW c \in Clients
               PROVE  tried'[t][c] <= 2 /\ (tried'[t][c] = 2 => c >= start[t])
      BY <1>1, <1>4 DEF AskedTwiceAtMost, AskedBeforeWaking
  <2>1. tried[t][c] \in Nat /\ tried[t][c] <= 1 /\ start[t] <= index[t]
        BY <1>1 DEF AskedBeforeWaking, Many
  <2>2. CASE c = index[t]
        BY <1>1, <1>3, <2>1, <2>2, ClientsAreClients
  <2>3. CASE c # index[t]
        BY <1>3, <2>1, <2>3
  <2> QED BY <2>2, <2>3
<1>7. \A u \in Turns : u # t => Unchanged(u)
      BY <1>1, <1>2, AskCounts DEF Wake, Move, Ask, Unchanged, FailoverInv, CallsTypeOK
<1>8. /\ index' \in [Turns -> Clients] /\ stage' \in [Turns -> InCall \cup Over]
      /\ brief' \in [Turns -> SUBSET Clients] /\ waited' \in [Turns -> BOOLEAN]
      BY <1>1 DEF Wake, Move, Ask, FailoverInv, CallsTypeOK, InCall, Asking
<1>9. /\ UNCHANGED <<spent, chain, start>>
      /\ cursor' \in [Chains -> Clients] /\ \A x \in Chains : cursor'[x] < Size(x)
      /\ moved' \in [Chains -> 0..Window \cup {Unset}]
      BY DEF Wake, FailoverInv, CallsTypeOK, WithinChain
<1> QED BY <1>1, <1>3, <1>4, <1>5, <1>6, <1>7, <1>8, <1>9, GoingOn

\* The first pass goes on to the next client.
LEMMA NextKeepsInv ==
    ASSUME FailoverInv, NEW t \in Turns, LimitedNext(t) PROVE FailoverInv'
<1> DEFINE next == index[t] + 1
<1>1. /\ AskedOnTheWay(t) /\ index[t] \in Clients /\ index[t] \in Nat /\ start[t] \in Clients
      /\ start[t] \in Nat /\ chain[t] \in Chains /\ stage[t] = "asking" /\ stage[t] \in InCall
      /\ tried \in [Turns -> [Clients -> 0..Many]] /\ tried[t] \in [Clients -> 0..Many]
      /\ \A c \in brief[t] : start[t] <= c /\ c < Primary(chain[t])
      /\ AskedTwiceAtMost(t)
      BY ClientsAreClients DEF LimitedNext, FailoverInv, CallsTypeOK, WithinChain, AskedInOrder,
         CallInOrder, InCall, Asking, OneMoreTry, AskedTwiceAtMost
<1>2. next \in Clients /\ next < Size(chain[t]) /\ next > index[t]
      BY <1>1, ClientsAreClients DEF LimitedNext, Last
<1>3. Ask(t, next, tried[t])
      BY DEF LimitedNext
<1>4. PICK named \in BOOLEAN : brief' = [brief EXCEPT ![t] = Brief(t, named)]
      BY DEF LimitedNext
<1>5. /\ brief' \in [Turns -> SUBSET Clients]
      /\ \A c \in brief'[t] : start[t] <= c /\ c < Primary(chain[t])
      BY <1>1, <1>4, ClientsAreClients DEF Brief, FailoverInv, CallsTypeOK, AskedOnTheWay
<1> HIDE DEF next
<1>6. tried[t][next] \in Nat /\ tried[t][next] <= 1 /\ (~waited[t] => tried[t][next] = 0)
      BY <1>1, <1>2 DEF AskedOnTheWay, Many
<1>7. /\ tried' \in [Turns -> [Clients -> 0..Many]]
      /\ tried'[t][next] = tried[t][next] + 1
      /\ \A e \in Clients : e # next => tried'[t][e] = tried[t][e]
      BY <1>1, <1>2, <1>3, <1>6, AskCounts DEF Many
<1>8. /\ stage'[t] = "asking" /\ index'[t] = next /\ start'[t] = start[t]
      /\ waited'[t] = waited[t] /\ chain'[t] = chain[t]
      BY <1>1, <1>3 DEF LimitedNext, Ask, FailoverInv, CallsTypeOK
<1>9. AskedOnTheWay(t)'
  <2>1. \A c \in Clients :
          /\ c < start[t] => c # next
          /\ c > next => c # next /\ c > index[t]
        BY <1>1, <1>2, ClientsAreClients DEF AskedOnTheWay
  <2>2. start[t] <= next
        BY <1>1, <1>2, ClientsAreClients DEF AskedOnTheWay
  <2> QED BY <1>1, <1>7, <1>8, <2>1, <2>2 DEF AskedOnTheWay
<1>10. AskedTwiceAtMost(t)'
  <2> SUFFICES ASSUME NEW c \in Clients
               PROVE  tried'[t][c] <= 2 /\ (tried'[t][c] = 2 => waited[t] /\ c >= start[t])
      BY <1>8 DEF AskedTwiceAtMost
  <2>1. CASE c = next
        BY <1>1, <1>2, <1>6, <1>7, <2>1, ClientsAreClients DEF AskedOnTheWay
  <2>2. CASE c # next
        BY <1>1, <1>7, <2>2 DEF AskedTwiceAtMost
  <2> QED BY <2>1, <2>2
<1>11. CallInOrder(t)'
      BY <1>5, <1>8, <1>9 DEF CallInOrder
<1>12. \A u \in Turns : u # t => Unchanged(u)
      BY <1>1, <1>2, <1>3, <1>4, AskCounts DEF LimitedNext, Ask, Unchanged, FailoverInv, CallsTypeOK
<1>13. /\ index' \in [Turns -> Clients] /\ stage' \in [Turns -> InCall \cup Over]
       /\ waited' \in [Turns -> BOOLEAN] /\ UNCHANGED <<spent, chain, start>>
       BY <1>2, <1>3 DEF LimitedNext, Ask, FailoverInv, CallsTypeOK
<1>14. /\ cursor' \in [Chains -> Clients] /\ \A x \in Chains : cursor'[x] < Size(x)
       /\ moved' \in [Chains -> 0..Window \cup {Unset}]
       BY <1>1, PastIsWithin DEF LimitedNext
<1> QED BY <1>1, <1>2, <1>5, <1>7, <1>8, <1>10, <1>11, <1>12, <1>13, <1>14, GoingOn

\* The second pass begins.
LEMMA AgainKeepsInv ==
    ASSUME FailoverInv, NEW t \in Turns, AskAgain(t) PROVE FailoverInv'
<1>1. /\ AskedOnTheWay(t) /\ start[t] \in Nat /\ start[t] > 0 /\ chain[t] \in Chains
      /\ stage[t] \in InCall
      /\ tried \in [Turns -> [Clients -> 0..Many]] /\ tried[t] \in [Clients -> 0..Many]
      /\ \A c \in brief[t] : start[t] <= c /\ c < Primary(chain[t])
      /\ AskedTwiceAtMost(t)
      BY ClientsAreClients DEF AskAgain, LastLimited, FailoverInv, CallsTypeOK, AskedInOrder,
         CallInOrder, InCall, Asking, OneMoreTry, AskedTwiceAtMost
<1>2. 0 \in Clients /\ 0 < Size(chain[t])
      BY <1>1, ClientsAreClients
<1>3. Ask(t, 0, tried[t]) /\ tried[t][0] = 0
      BY <1>1, <1>2 DEF AskAgain, AskedOnTheWay
<1>4. /\ tried' \in [Turns -> [Clients -> 0..Many]]
      /\ tried'[t][0] = 1
      /\ \A e \in Clients : e # 0 => tried'[t][e] = tried[t][e]
      BY <1>1, <1>2, <1>3, AskCounts DEF Many
<1>5. /\ stage'[t] = "asking again" /\ index'[t] = 0 /\ start'[t] = start[t]
      /\ brief'[t] = brief[t] /\ waited'[t] = waited[t] /\ chain'[t] = chain[t]
      BY <1>3 DEF AskAgain, Move, Ask, FailoverInv, CallsTypeOK
<1>6. CallInOrder(t)'
  <2>1. AskedInSecondPass(t)'
    <3>1. \A c \in Clients : c > 0 => c # 0
          BY ClientsAreNumbers
    <3> QED BY <1>1, <1>4, <1>5, <3>1 DEF AskedInSecondPass, AskedOnTheWay
  <2> QED BY <1>1, <1>5, <2>1 DEF CallInOrder
<1>7. AskedTwiceAtMost(t)'
  <2> SUFFICES ASSUME NEW c \in Clients
               PROVE  tried'[t][c] <= 2 /\ (tried'[t][c] = 2 => waited[t] /\ c >= start[t])
      BY <1>5 DEF AskedTwiceAtMost
  <2>1. CASE c = 0
        BY <1>4, <2>1
  <2>2. CASE c # 0
        BY <1>1, <1>4, <2>2 DEF AskedTwiceAtMost
  <2> QED BY <2>1, <2>2
<1>8. \A u \in Turns : u # t => Unchanged(u)
      BY <1>1, <1>2, <1>3, AskCounts DEF AskAgain, Move, Ask, Unchanged, FailoverInv, CallsTypeOK
<1>9. /\ index' \in [Turns -> Clients] /\ stage' \in [Turns -> InCall \cup Over]
      /\ brief' \in [Turns -> SUBSET Clients] /\ waited' \in [Turns -> BOOLEAN]
      /\ UNCHANGED <<spent, chain, start>>
  <2>1. index' \in [Turns -> Clients]
        BY <1>2, <1>3 DEF Ask, FailoverInv, CallsTypeOK
  <2>2. stage' \in [Turns -> InCall \cup Over]
        BY DEF AskAgain, Move, InCall, Asking, FailoverInv, CallsTypeOK
  <2> QED BY <2>1, <2>2 DEF AskAgain, FailoverInv, CallsTypeOK
<1>10. /\ cursor' \in [Chains -> Clients] /\ \A x \in Chains : cursor'[x] < Size(x)
       /\ moved' \in [Chains -> 0..Window \cup {Unset}]
       BY <1>1, PastIsWithin DEF AskAgain
<1> QED BY <1>1, <1>2, <1>4, <1>5, <1>6, <1>7, <1>8, <1>9, <1>10, GoingOn

\* The second pass goes on, up to the client before the one it began with.
LEMMA NextAgainKeepsInv ==
    ASSUME FailoverInv, NEW t \in Turns, LimitedAgain(t) PROVE FailoverInv'
<1> DEFINE next == index[t] + 1
<1>1. /\ AskedInSecondPass(t) /\ index[t] \in Nat /\ start[t] \in Clients /\ start[t] \in Nat
      /\ chain[t] \in Chains /\ next < start[t]
      /\ tried \in [Turns -> [Clients -> 0..Many]] /\ tried[t] \in [Clients -> 0..Many]
      /\ \A c \in brief[t] : start[t] <= c /\ c < Primary(chain[t])
      /\ AskedTwiceAtMost(t) /\ stage[t] \in InCall /\ stage[t] = "asking again"
      BY ClientsAreClients DEF LimitedAgain, FailoverInv, CallsTypeOK, AskedInOrder,
         CallInOrder, InCall, Asking, OneMoreTry, AskedTwiceAtMost
<1>2. next \in Nat /\ index[t] < next /\ next < start[t]
  <2>1. index[t] \in Nat /\ start[t] \in Nat
        BY <1>1
  <2>2. index[t] + 1 < start[t]
        BY DEF LimitedAgain
  <2> QED BY <2>1, <2>2
<1> HIDE DEF next
<1>3. next \in Clients /\ next < Size(chain[t])
  <2>1. start[t] < Size(chain[t]) /\ chain[t] \in Chains /\ start[t] \in Nat
        BY <1>1 DEF FailoverInv, WithinChain
  <2>2. Size(chain[t]) \in Nat
        BY <2>1, ClientsAreClients
  <2>3. next < Size(chain[t])
        BY <1>2, <2>1, <2>2
  <2> QED BY <1>2, <2>1, <2>3, ClientsAreClients
<1>4. Ask(t, next, tried[t]) /\ tried[t][next] = 0
  <2>1. Ask(t, next, tried[t])
        BY DEF LimitedAgain, next
  <2>2. tried[t][next] = 0
        BY <1>1, <1>2, <1>3 DEF AskedInSecondPass
  <2> QED BY <2>1, <2>2
<1>5. /\ tried' \in [Turns -> [Clients -> 0..Many]]
      /\ tried'[t][next] = 1
      /\ \A e \in Clients : e # next => tried'[t][e] = tried[t][e]
  <2>1. tried \in [Turns -> [Clients -> 0..Many]] /\ tried[t] \in [Clients -> 0..Many]
        BY <1>1
  <2> QED BY <1>3, <1>4, <2>1, AskCounts DEF Many
<1>6. /\ stage'[t] = "asking again" /\ index'[t] = next /\ start'[t] = start[t]
      /\ brief'[t] = brief[t] /\ waited'[t] = waited[t] /\ chain'[t] = chain[t]
      BY <1>1, <1>4 DEF LimitedAgain, Ask, FailoverInv, CallsTypeOK
<1>7. CallInOrder(t)'
  <2>1. \A c \in Clients : c > next => c > index[t] /\ c # next
    <3>1. index[t] \in Nat
          BY <1>1
    <3> QED BY <1>2, <3>1, ClientsAreNumbers
  <2>2. AskedInSecondPass(t)'
        BY <1>1, <1>2, <1>5, <1>6, <2>1 DEF AskedInSecondPass
  <2> QED BY <1>1, <1>6, <2>2 DEF CallInOrder
<1>8. AskedTwiceAtMost(t)'
  <2> SUFFICES ASSUME NEW c \in Clients
               PROVE  tried'[t][c] <= 2 /\ (tried'[t][c] = 2 => waited[t] /\ c >= start[t])
      BY <1>6 DEF AskedTwiceAtMost
  <2>1. CASE c = next
        BY <1>5, <2>1
  <2>2. CASE c # next
        BY <1>1, <1>5, <2>2 DEF AskedTwiceAtMost
  <2> QED BY <2>1, <2>2
<1>9. \A u \in Turns : u # t => Unchanged(u)
      BY <1>1, <1>3, <1>4, AskCounts DEF LimitedAgain, Ask, Unchanged, FailoverInv, CallsTypeOK
<1>10. /\ index' \in [Turns -> Clients] /\ stage' \in [Turns -> InCall \cup Over]
       /\ brief' \in [Turns -> SUBSET Clients] /\ waited' \in [Turns -> BOOLEAN]
       /\ UNCHANGED <<spent, chain, start>>
  <2>1. index' \in [Turns -> Clients]
        BY <1>3, <1>4 DEF Ask, FailoverInv, CallsTypeOK
  <2> QED BY <2>1 DEF LimitedAgain, FailoverInv, CallsTypeOK
<1>11. /\ cursor' \in [Chains -> Clients] /\ \A x \in Chains : cursor'[x] < Size(x)
       /\ moved' \in [Chains -> 0..Window \cup {Unset}]
       BY DEF LimitedAgain, FailoverInv, CallsTypeOK, WithinChain
<1> QED BY <1>1, <1>3, <1>5, <1>6, <1>7, <1>8, <1>9, <1>10, <1>11, GoingOn

\* Time passes.
LEMMA TickKeepsInv == ASSUME FailoverInv, Tick PROVE FailoverInv'
<1>1. moved' \in [Chains -> 0..Window \cup {Unset}]
      BY SomeWindow, UnsetIsNoTime DEF Tick, FailoverInv, CallsTypeOK
<1>2. CallsTypeOK'
      BY <1>1 DEF Tick, FailoverInv, CallsTypeOK
<1> QED BY <1>2 DEF Tick, FailoverInv, WithinChain, AskedInOrder, CallInOrder, AskedOnTheWay,
           AskedBeforeWaking, AskedInSecondPass, OneMoreTry

LEMMA StepKeepsFailoverInv == FailoverInv /\ [CallsNext]_callVars => FailoverInv'
<1> SUFFICES ASSUME FailoverInv, [CallsNext]_callVars PROVE FailoverInv'
    OBVIOUS
<1>1. ASSUME NEW t \in Turns, Call(t) \/ NextTurn(t) \/ Resume(t)
      PROVE  FailoverInv'
      BY <1>1, CallKeepsInv, NextTurnKeepsInv, EndKeepsInv, WaitKeepsInv, WakeKeepsInv,
         NextKeepsInv, AgainKeepsInv, NextAgainKeepsInv DEF Resume
<1>2. CASE UNCHANGED callVars
      BY <1>2 DEF callVars, FailoverInv, CallsTypeOK, WithinChain, AskedInOrder, CallInOrder,
         AskedOnTheWay, AskedBeforeWaking, AskedInSecondPass, OneMoreTry
<1> QED BY <1>1, <1>2, TickKeepsInv DEF CallsNext

-----------------------------------------------------------------------------
(* The models: the theorems *)

\* The clients of every call are those of its chain, asked in the order of
\* _attempt and its second pass.
THEOREM FailoverInvariant == CallsSpec => []FailoverInv
<1>1. CallsInit => FailoverInv
  <2>1. 0 \in Clients /\ \A ch \in Chains : 0 < Size(ch)
        BY ClientsAreClients DEF Chains
  <2> QED BY <2>1, SomeBudget DEF CallsInit, Untried, Many, FailoverInv, CallsTypeOK, WithinChain,
             AskedInOrder, CallInOrder, OneMoreTry, Chains, Over, InCall, Asking
<1> QED BY <1>1, StepKeepsFailoverInv, PTL DEF CallsSpec

\* However calls overlap on the chains, one call makes at most two requests to a
\* credential, and two only after its wait.
THEOREM AskedOnceMore == CallsSpec => []OneMoreTry
BY FailoverInvariant, PTL DEF FailoverInv

\* No request goes past the end of its chain, wherever other calls have left the
\* cursor (_clients[_index]).
THEOREM ChainsAreKept == CallsSpec => []WithinChain
BY FailoverInvariant, PTL DEF FailoverInv
=============================================================================
