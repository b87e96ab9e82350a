----------------------------- MODULE MCWaitQueue -----------------------------
(* WaitQueue with two readers that read twice each. *)
EXTENDS WaitQueue
=============================================================================
