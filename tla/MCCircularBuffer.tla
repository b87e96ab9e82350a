-------------------------- MODULE MCCircularBuffer --------------------------
(* CircularBuffer with three slots, so that both indices wrap, meet full   *)
(* and meet empty, and two threads.                                        *)
EXTENDS CircularBuffer
=============================================================================
