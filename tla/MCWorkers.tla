------------------------------ MODULE MCWorkers ------------------------------
(* Workers with three client threads. *)
EXTENDS Workers
=============================================================================
