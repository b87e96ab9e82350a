--------------------------- MODULE MCSelectServer ---------------------------
(* SelectServer with three clients and descriptors for two, so that slots  *)
(* and descriptors are reused and accept runs out of them.  One line comes *)
(* in two segments, so that a reset can overtake a write.                  *)
EXTENDS SelectServer

CONSTANTS c1, c2, c3

MCClients == {c1, c2, c3}
MCLines == [c \in MCClients |-> IF c = c3 THEN 0 ELSE 1]
MCSegs == [c \in MCClients |-> IF c = c1 THEN 2 ELSE 1]
MCKillable == {c1}
=============================================================================
