------------------------------- MODULE TurnLog -------------------------------
(***************************************************************************)
(* What a conversation promises its readers: a list of turns that only      *)
(* grows, each turn entering whole (the learner's message, then the         *)
(* tutor's), at most once, until the conversation is deleted.               *)
(***************************************************************************)
EXTENDS Sequences

CONSTANT Turns

VARIABLES
    open,   \* the conversation has not been deleted
    log     \* its messages, in the order a reader sees them

vars == <<open, log>>

MessagesOf(t) == <<[turn |-> t, role |-> "user"], [turn |-> t, role |-> "assistant"]>>

Init == open = TRUE /\ log = <<>>

Enter(t) ==
    /\ open
    /\ \A i \in DOMAIN log : log[i].turn # t
    /\ log' = log \o MessagesOf(t)
    /\ UNCHANGED open

Close ==
    /\ open
    /\ open' = FALSE
    /\ log' = <<>>

Next == Close \/ \E t \in Turns : Enter(t)

Spec == Init /\ [][Next]_vars
=============================================================================
