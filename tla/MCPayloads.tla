------------------------------ MODULE MCPayloads ------------------------------
(* An instance of Payloads for TLC: one cause; every payload there is. *)
EXTENDS Payloads

===============================================================================
