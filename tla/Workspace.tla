------------------------------ MODULE Workspace ------------------------------
(***************************************************************************)
(* The learner's page (frontend/js/chat.js, sessions.js, streaming.js): the  *)
(* conversation it shows, the turn it waits for, and the requests that come  *)
(* back after the learner has gone elsewhere.  Each turn it sends is a       *)
(* request of ChatStream.  The learner keeps clicking: every await of the    *)
(* page is a place where another conversation can be selected or renamed.    *)
(***************************************************************************)
EXTENDS ChatStream, Functions

CONSTANTS
    Conversations,
    First,      \* the conversation the page opens with
    None,
    Fresh       \* those without a title at first; bound: those the learner renames

ASSUME FirstIsOne == First \in Conversations /\ Fresh \subseteq Conversations
ASSUME RequestsAreNumbered == Requests \subseteq Nat
ASSUME NoneIsNone == None \notin Requests \cup Conversations

VARIABLES
    conv,       \* the conversation each request was sent to
    titled,     \* the conversations the server has a title of
    active,     \* state.activeConversation
    untitled,   \* whether the page takes it for untitled
    listed,     \* the conversations the page's list shows as untitled
    messages,   \* state.messages: the turns whose replies it holds
    loads,      \* the histories that have been asked for
    turn        \* the turn sendMessage is processing

pageVars == <<titled, active, untitled, listed, messages, loads, turn>>
vars == <<streamVars, conv, pageVars>>

Turn == [request : Requests, untitled : BOOLEAN, target : {None} \cup Conversations,
         step : {"reading", "renaming", "renamed", "listing"}]

\* The turns whose messages the server has stored of a conversation.
History(c) == {t.request : t \in {s \in committed : s.stored /\ conv[s.request] = c}}

Init ==
    /\ StreamInit
    /\ conv = [r \in Requests |-> None]
    /\ titled = Conversations \ Fresh
    /\ active = First
    /\ untitled = (First \in Fresh)
    /\ listed = Fresh
    /\ messages = {}
    /\ loads = {First}
    /\ turn = None

-----------------------------------------------------------------------------
(* The conversations *)

\* selectConversation, up to its await: the old messages stay until then.
Select(c) ==
    /\ c # active
    /\ active' = c
    /\ untitled' = (c \in listed)
    /\ loads' = loads \cup {c}
    /\ UNCHANGED <<streamVars, conv, titled, listed, messages, turn>>

\* A history arrives, whichever conversation is active by now; or it fails.
Load(c) ==
    /\ c \in loads
    /\ loads' = loads \ {c}
    /\ messages' \in {messages, History(c)}
    /\ UNCHANGED <<streamVars, conv, titled, active, untitled, listed, turn>>

\* SessionManager.rename, which changes the title in the list and no more.
LearnerRenames(c) ==
    /\ c \in Fresh
    /\ titled' = titled \cup {c}
    /\ UNCHANGED <<streamVars, conv, active, untitled, listed, messages, loads, turn>>

-----------------------------------------------------------------------------
(* A turn *)

\* sendMessage, up to the request.
SendMessage(r) ==
    /\ turn = None
    /\ \A q \in Requests : q < r => phase[q] # "unused"
    /\ Open(r)
    /\ conv' = [conv EXCEPT ![r] = active]
    /\ turn' = [request |-> r, untitled |-> untitled, target |-> None, step |-> "reading"]
    /\ UNCHANGED <<titled, active, untitled, listed, messages, loads>>

At(step) == turn # None /\ turn.step = step

\* The turn the page was processing is over, answered or not.
Processed == turn' = None

\* The response was read to its end.
Read == At("reading") /\ online[turn.request] /\ phase[turn.request] = "over"

Goto(step, target) == turn' = [turn EXCEPT !.step = step, !.target = target]

\* The whole answer is there; the list it is added to and the conversation that
\* is titled are the active ones of this moment.
ShowReply ==
    /\ Read
    /\ "done" \in Range(sent[turn.request])
    /\ messages' = messages \cup {turn.request}
    /\ IF turn.untitled /\ untitled THEN Goto("renaming", active) ELSE Goto("listing", None)
    /\ UNCHANGED <<streamVars, conv, titled, active, untitled, listed, loads>>

\* Mutant: a failed turn leaves the composer disabled.
ShowFailureStuck ==
    /\ Read /\ ~"done" \in Range(sent[turn.request])
    /\ Processed
    /\ UNCHANGED <<streamVars, conv, titled, active, untitled, listed, messages, loads>>

\* "Message failed to send", and a button that sends it again as a new turn.
ShowFailure ==
    /\ \/ Read /\ ~"done" \in Range(sent[turn.request])
       \/ At("reading") /\ ~online[turn.request]
    /\ Processed
    /\ UNCHANGED <<streamVars, conv, titled, active, untitled, listed, messages, loads>>

\* refreshAfterTurn: the title is stored, and then the page learns of it.
AutoTitle ==
    /\ At("renaming")
    /\ titled' = titled \cup {turn.target}
    /\ Goto("renamed", turn.target)
    /\ UNCHANGED <<streamVars, conv, active, untitled, listed, messages, loads>>

\* The answer replaces the active conversation, whatever was selected meanwhile.
TitleReturned ==
    /\ At("renamed")
    /\ active' = turn.target
    /\ untitled' = FALSE
    /\ Goto("listing", None)
    /\ UNCHANGED <<streamVars, conv, titled, listed, messages, loads>>

\* The list is refreshed and with it the active conversation.
Refresh ==
    /\ At("listing")
    /\ listed' = Conversations \ titled
    /\ untitled' = (active \in listed')
    /\ Processed
    /\ UNCHANGED <<streamVars, conv, titled, active, messages, loads>>

\* A failure of any of them is a toast; the answer stays.
RefreshFails ==
    /\ At("renaming") \/ At("renamed") \/ At("listing")
    /\ Processed
    /\ UNCHANGED <<streamVars, conv, titled, active, untitled, listed, messages, loads>>

Process ==
    ShowReply \/ ShowFailure \/ AutoTitle \/ TitleReturned \/ Refresh \/ RefreshFails

Next ==
    \/ \E c \in Conversations : Select(c) \/ Load(c) \/ LearnerRenames(c)
    \/ \E r \in Requests : SendMessage(r)
    \/ Process
    \/ (\E r \in Requests : Serve(r) \/ Abandon(r)) /\ UNCHANGED <<conv, pageVars>>
    \/ At("reading") /\ Lose(turn.request) /\ UNCHANGED <<conv, pageVars>>
    \/ Crash /\ UNCHANGED <<conv, pageVars>>

\* A fetch of the page returns or fails.
Fairness == StreamFairness /\ WF_vars(Process)

Spec == Init /\ [][Next]_vars /\ Fairness

-----------------------------------------------------------------------------
(* Properties *)

TypeOK ==
    /\ StreamTypeOK
    /\ conv \in [Requests -> {None} \cup Conversations]
    /\ titled \subseteq Conversations
    /\ active \in Conversations
    /\ untitled \in BOOLEAN
    /\ listed \subseteq Conversations
    /\ messages \subseteq Requests
    /\ loads \subseteq Conversations
    /\ turn \in {None} \cup Turn

\* Every reply the page shows was committed, and is in the stored history of the
\* conversation it was asked in (not always the one that shows it): loading that
\* conversation brings back an answer the learner has read, however the turn, the
\* connection or a later history raced.  Only a turn whose own messages failed in
\* their savepoint is shown and not stored.
ShownIsStored ==
    \A r \in messages : r \in History(conv[r]) \/ CommittedTurn(r, FALSE) \in committed

\* The composer always comes back: a turn is processed to an end.
ComposerComesBack == turn # None ~> turn = None

=============================================================================
