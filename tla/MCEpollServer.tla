---------------------------- MODULE MCEpollServer ----------------------------
(* EpollServer with three clients and descriptors for two connections, so  *)
(* that descriptors are reused and run out.                                *)
EXTENDS EpollServer

CONSTANTS c1, c2, c3

MCClients == {c1, c2, c3}
MCLines == [c \in MCClients |-> IF c = c3 THEN 0 ELSE 1]
MCSegs == [c \in MCClients |-> IF c = c1 THEN 2 ELSE 1]
MCKillable == {c1}
=============================================================================
