----------------------------- MODULE LoginSession -----------------------------
(***************************************************************************)
(* What a login promises: a session lives from its login until it is ended, *)
(* by itself (a logout) or with every other session of the learner (a       *)
(* refresh token presented again), and an ended session never lives again.  *)
(***************************************************************************)
CONSTANT Sessions

VARIABLE status

Init == status = [s \in Sessions |-> "unused"]

Start(s) ==
    /\ status[s] = "unused"
    /\ status' = [status EXCEPT ![s] = "live"]

End(s) ==
    /\ status[s] = "live"
    /\ status' = [status EXCEPT ![s] = "ended"]

EndAll ==
    status' = [s \in Sessions |-> IF status[s] = "live" THEN "ended" ELSE status[s]]

Next == EndAll \/ \E s \in Sessions : Start(s) \/ End(s)

Spec == Init /\ [][Next]_status
=============================================================================
