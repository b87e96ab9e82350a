--------------------------- MODULE MCMtEpollServer ---------------------------
(* MtEpollServer with two threads, two clients and descriptors for their   *)
(* two connections.  A line of c1 is longer than the buffer of a read.     *)
EXTENDS MtEpollServer

CONSTANTS c1, c2

MCClients == {c1, c2}
MCLines == [c \in MCClients |-> 1]
MCSegs == [c \in MCClients |-> IF c = c1 THEN 2 ELSE 1]
MCKillable == {c1}
=============================================================================
