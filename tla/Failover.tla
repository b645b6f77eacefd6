------------------------------- MODULE Failover -------------------------------
(***************************************************************************)
(* The model calls of the turns in progress: each turn spends its own       *)
(* budget (app/llm/budget.py), and all of them share the failover chains of *)
(* app/llm/client.py, whose cursor every call reads before its first        *)
(* request and writes after each answer.  Another call may move the cursor  *)
(* while a request is in the air.                                           *)
(*                                                                         *)
(* A retry-after counts only as brief enough to wait for or not, and the    *)
(* clock only as the time since the cursor moved, up to the rewind window.  *)
(***************************************************************************)
EXTENDS Naturals, FiniteSets

CONSTANTS
    Turns,          \* the turns in progress
    MaxCalls,       \* DEFAULT_MAX_LLM_CALLS
    MainClients,    \* the credentials of llm_failover_chain
    PrimaryCount,   \* those of the main model's own provider
    SmallClients,   \* the credentials of the classifier's small model
    Window,         \* DEFAULT_REWIND_AFTER_S, in steps of the clock
    Unset

ASSUME SomeClients == MainClients \in Nat \ {0} /\ SmallClients \in Nat \ {0}
ASSUME PrimaryIsPart == PrimaryCount \in 1..MainClients
ASSUME SomeBudget == MaxCalls \in Nat
ASSUME SomeWindow == Window \in Nat \ {0}
ASSUME UnsetIsNoTime == Unset \notin Nat

VARIABLES
    \* shared by every turn
    cursor,     \* _index of each chain
    moved,      \* time since _advanced_at of each chain, Unset until it first moves
    \* of each turn
    stage,      \* where its current call is
    spent,      \* calls counted against its budget
    chain,      \* the chain the call is on
    index,      \* the client it asks
    start,      \* the client it began with
    brief,      \* primary clients that named a retry-after worth waiting for
    waited,     \* whether it has waited once
    \* history
    tried       \* requests the call has made to each client of the chain

callVars == <<cursor, moved, stage, spent, chain, index, start, brief, waited, tried>>

Chains == {"main", "small"}
Size(ch) == IF ch = "main" THEN MainClients ELSE SmallClients
Primary(ch) == IF ch = "main" THEN PrimaryCount ELSE 0
\* One client per credential of a chain. An ask of a client is one request of
\* this project's; with another credential to go to, Groq's client is built not
\* to repeat it (sdk_retries), OpenRouter's is left as its SDK has it.
Clients == 0..(IF MainClients > SmallClients THEN MainClients ELSE SmallClients) - 1

Asking == {"asking", "asking again"}
InCall == Asking \cup {"waiting"}
Over == {"idle", "answered", "limited", "failed"}

Untried == [c \in Clients |-> 0]

CallsInit ==
    /\ cursor = [ch \in Chains |-> 0]
    /\ moved = [ch \in Chains |-> Unset]
    /\ stage = [t \in Turns |-> "idle"]
    /\ spent = [t \in Turns |-> 0]
    /\ chain = [t \in Turns |-> "main"]
    /\ index = [t \in Turns |-> 0]
    /\ start = [t \in Turns |-> 0]
    /\ brief = [t \in Turns |-> {}]
    /\ waited = [t \in Turns |-> FALSE]
    /\ tried = [t \in Turns |-> Untried]

Move(t, label) == stage' = [stage EXCEPT ![t] = label]

\* The call returns or raises: its variables are gone, the history of a
\* refusal is kept until the next call.
Return(t, result) ==
    /\ Move(t, result)
    /\ chain' = [chain EXCEPT ![t] = "main"]
    /\ index' = [index EXCEPT ![t] = 0]
    /\ start' = [start EXCEPT ![t] = 0]
    /\ brief' = [brief EXCEPT ![t] = {}]
    /\ waited' = [waited EXCEPT ![t] = FALSE]
    /\ tried' = [tried EXCEPT ![t] = IF result = "limited" THEN @ ELSE Untried]

\* The request about to be made. The history counts to Many, one more than
\* any call should make.
Many == 3

Ask(t, c, counts) ==
    /\ index' = [index EXCEPT ![t] = c]
    /\ tried' = [tried EXCEPT ![t] = [counts EXCEPT ![c] = IF @ < Many THEN @ + 1 ELSE @]]

-----------------------------------------------------------------------------
(* A call begins *)

\* Enough time has passed on a later client to go back to the first.
Rewinds(ch, cur, mov) == cur[ch] > 0 /\ mov[ch] # Unset /\ mov[ch] >= Window

\* _attempt up to its first request, from the chains as cur and mov have them.
Enter(t, ch, cur, mov) ==
    LET from == IF Rewinds(ch, cur, mov) THEN 0 ELSE cur[ch] IN
    /\ cursor' = [cur EXCEPT ![ch] = from]
    /\ moved' = [mov EXCEPT ![ch] = IF Rewinds(ch, cur, mov) THEN Unset ELSE @]
    /\ chain' = [chain EXCEPT ![t] = ch]
    /\ start' = [start EXCEPT ![t] = from]
    /\ brief' = [brief EXCEPT ![t] = {}]
    /\ waited' = [waited EXCEPT ![t] = FALSE]
    /\ Move(t, "asking")
    /\ Ask(t, from, Untried)

\* The classifier's prompt goes to the small model, every other to the main one.
Call(t) ==
    /\ stage[t] \in Over
    /\ spent[t] < MaxCalls
    /\ spent' = [spent EXCEPT ![t] = @ + 1]
    /\ \E ch \in Chains : Enter(t, ch, cursor, moved)

\* A call that would exceed the budget is refused before any client is asked;
\* it changes nothing, and the turn goes on. The next turn has its own budget.
NextTurn(t) ==
    /\ stage[t] \in Over
    /\ spent[t] > 0
    /\ spent' = [spent EXCEPT ![t] = 0]
    /\ Return(t, "idle")
    /\ UNCHANGED <<cursor, moved>>

-----------------------------------------------------------------------------
(* A client answers, or fails *)

\* An answer of the second pass: a window runs while the cursor is off the
\* first client.
AnsweredAgain(t) == moved' = [moved EXCEPT ![chain[t]] = IF index[t] > 0 THEN 0 ELSE Unset]

Answered(t) ==
    /\ stage[t] \in Asking
    /\ cursor' = [cursor EXCEPT ![chain[t]] = index[t]]
    /\ IF stage[t] = "asking" THEN UNCHANGED moved ELSE AnsweredAgain(t)
    /\ Return(t, "answered")
    /\ UNCHANGED spent

\* The chain has no answer: the main model serves what the small one could
\* not, within the same call of the budget.
GiveUp(t, why, cur, mov) ==
    IF chain[t] = "small"
    THEN Enter(t, "main", cur, mov)
    ELSE /\ cursor' = cur
         /\ moved' = mov
         /\ Return(t, why)

\* Any other failure is not repeated on another credential.
Failed(t) ==
    /\ stage[t] \in Asking
    /\ GiveUp(t, "failed", cursor, moved)
    /\ UNCHANGED spent

-----------------------------------------------------------------------------
(* A client is rate limited *)

\* The primary clients worth waiting for, the refused one among them if it
\* named a brief retry-after.
Brief(t, named) ==
    IF named /\ index[t] < Primary(chain[t]) THEN brief[t] \cup {index[t]} ELSE brief[t]

\* Mutant: the wait may be taken again and again.
WaitsAgain(t, named) == index[t] + 1 = Primary(chain[t]) /\ Brief(t, named) # {}

\* Every primary client from the start is limited, and one of them briefly.
WorthWaiting(t, named) ==
    /\ index[t] + 1 = Primary(chain[t])
    /\ ~waited[t]
    /\ Brief(t, named) # {}

\* The soonest of the brief waits: whichever of them.
LimitedWait(t) ==
    /\ stage[t] = "asking"
    /\ \E named \in BOOLEAN :
         /\ WorthWaiting(t, named)
         /\ \E soonest \in Brief(t, named) : index' = [index EXCEPT ![t] = soonest]
    /\ brief' = [brief EXCEPT ![t] = {}]
    /\ waited' = [waited EXCEPT ![t] = TRUE]
    /\ Move(t, "waiting")
    /\ UNCHANGED <<cursor, moved, spent, chain, start, tried>>

Wake(t) ==
    /\ stage[t] = "waiting"
    /\ Ask(t, index[t], tried[t])
    /\ Move(t, "asking")
    /\ UNCHANGED <<cursor, moved, spent, chain, start, brief, waited>>

\* The cursor goes past the refused client, but never past the last one, and
\* only an actual move of it starts the window.
Last(ch) == Size(ch) - 1

Past(t) == IF index[t] < Last(chain[t]) THEN index[t] + 1 ELSE Last(chain[t])
PastCursor(t) == [cursor EXCEPT ![chain[t]] = Past(t)]
PastMoved(t) == [moved EXCEPT ![chain[t]] = IF cursor[chain[t]] # Past(t) THEN 0 ELSE @]

LimitedNext(t) ==
    /\ stage[t] = "asking"
    /\ index[t] < Last(chain[t])
    /\ \E named \in BOOLEAN :
         /\ ~WorthWaiting(t, named)
         /\ brief' = [brief EXCEPT ![t] = Brief(t, named)]
    /\ cursor' = PastCursor(t)
    /\ moved' = PastMoved(t)
    /\ Ask(t, index[t] + 1, tried[t])
    /\ UNCHANGED <<stage, spent, chain, start, waited>>

\* The last client is limited: the earlier ones are asked once more, in order.
LastLimited(t) ==
    /\ stage[t] = "asking"
    /\ index[t] = Last(chain[t])
    /\ \E named \in BOOLEAN : ~WorthWaiting(t, named)

AskAgain(t) ==
    /\ LastLimited(t)
    /\ start[t] > 0
    /\ cursor' = PastCursor(t)
    /\ moved' = PastMoved(t)
    /\ Ask(t, 0, tried[t])
    /\ Move(t, "asking again")
    /\ UNCHANGED <<spent, chain, start, brief, waited>>

LimitedAgain(t) ==
    /\ stage[t] = "asking again"
    /\ index[t] + 1 < start[t]
    /\ Ask(t, index[t] + 1, tried[t])
    /\ UNCHANGED <<cursor, moved, stage, spent, chain, start, brief, waited>>

\* Nobody is left to ask.
Exhausted(t) ==
    /\ \/ LastLimited(t) /\ start[t] = 0 /\ GiveUp(t, "limited", PastCursor(t), PastMoved(t))
       \/ /\ stage[t] = "asking again"
          /\ index[t] + 1 = start[t]
          /\ GiveUp(t, "limited", cursor, moved)
    /\ UNCHANGED spent

-----------------------------------------------------------------------------
(* The specification *)

Tick ==
    /\ \E ch \in Chains :
         /\ moved[ch] # Unset
         /\ moved[ch] < Window
         /\ moved' = [moved EXCEPT ![ch] = @ + 1]
    /\ UNCHANGED <<cursor, stage, spent, chain, index, start, brief, waited, tried>>

\* What ends a request or a wait.
Resume(t) ==
    \/ Answered(t) \/ Failed(t)
    \/ LimitedWait(t) \/ Wake(t) \/ LimitedNext(t)
    \/ AskAgain(t) \/ LimitedAgain(t) \/ Exhausted(t)

CallsNext ==
    \/ \E t \in Turns : Call(t) \/ NextTurn(t) \/ Resume(t)
    \/ Tick

\* The HTTP client of every credential has a timeout, and asyncio.sleep ends.
CallsFairness == \A t \in Turns : WF_callVars(Resume(t))

CallsSpec == CallsInit /\ [][CallsNext]_callVars /\ CallsFairness

-----------------------------------------------------------------------------
(* Properties *)

\* The types of the variables.
CallsTypeOK ==
    /\ cursor \in [Chains -> Clients]
    /\ moved \in [Chains -> 0..Window \cup {Unset}]
    /\ stage \in [Turns -> InCall \cup Over]
    /\ spent \in [Turns -> 0..MaxCalls]
    /\ chain \in [Turns -> Chains]
    /\ index \in [Turns -> Clients]
    /\ start \in [Turns -> Clients]
    /\ brief \in [Turns -> SUBSET Clients]
    /\ waited \in [Turns -> BOOLEAN]
    /\ tried \in [Turns -> [Clients -> 0..Many]]

\* One call makes at most two requests to a credential, however the first
\* pass, the wait and the second pass follow one another; two only after the
\* wait, and then to none of those it asks again for want of any other.
OneMoreTry ==
    \A t \in Turns : \A c \in Clients :
        /\ tried[t][c] <= 2
        /\ tried[t][c] = 2 /\ stage[t] \in InCall => waited[t] /\ c >= start[t]

\* Every call ends, whatever its clients answer and whatever the other calls
\* do to the cursor meanwhile.
EveryCallEnds == \A t \in Turns : stage[t] \in InCall ~> stage[t] \in Over

=============================================================================
