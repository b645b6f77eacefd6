---------------------------- MODULE MCMessageReading ----------------------------
(* Instances of MessageReading for TLC. *)
EXTENDS MessageReading

MCTyped == Kinds
MCImages == {{"problem", "question"}, {"code", "error", "constraints"}}
=============================================================================
