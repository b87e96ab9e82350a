---------------------------- MODULE MCPollServer ----------------------------
(* PollServer with three clients and entries for two connections, so that  *)
(* entries are reused and run out.  One line comes in two segments, so     *)
(* that a reset can overtake a write.                                      *)
EXTENDS PollServer

CONSTANTS c1, c2, c3

MCClients == {c1, c2, c3}
MCLines == [c \in MCClients |-> IF c = c3 THEN 0 ELSE 1]
MCSegs == [c \in MCClients |-> IF c = c1 THEN 2 ELSE 1]
MCKillable == {c1}
=============================================================================
