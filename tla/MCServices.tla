------------------------------ MODULE MCServices ------------------------------
(***************************************************************************)
(* The two services a turn waits for outside the database: the sandbox that *)
(* runs a learner's code and the model clients that answer a call.  They    *)
(* share no state, so a behaviour uses one of them and leaves the other     *)
(* where it began: the interleavings of both would show nothing more.       *)
(***************************************************************************)
EXTENDS Sandbox, Failover

VARIABLE used   \* the service that moves

ServicesInit == Init /\ CallsInit /\ used \in {"sandbox", "models"}

ServicesNext ==
    /\ UNCHANGED used
    /\ \/ used = "sandbox" /\ Next /\ UNCHANGED callVars
       \/ used = "models" /\ CallsNext /\ UNCHANGED vars

\* What is fair of either service asks nothing of the one at rest: its runs and
\* calls have not begun.
ServicesSpec ==
    /\ ServicesInit
    /\ [][ServicesNext]_<<vars, callVars, used>>
    /\ Fairness
    /\ CallsFairness
=============================================================================
