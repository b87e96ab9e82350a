------------------------------ MODULE MCSpooler ------------------------------
(* Spooler with two submissions, two job numbers and a daemon that may     *)
(* stop once.                                                              *)
EXTENDS Spooler
=============================================================================
