---------------------------- MODULE MCWaitGroup ----------------------------
(* WaitGroup on a small instance: three tasks, so that the last Done can   *)
(* race with an Add and with another Done, and two waiters.                *)
EXTENDS WaitGroup
=============================================================================
