----------------------------- MODULE MCDatabase -----------------------------
EXTENDS Database

CONSTANTS p1, p2, s1, k1, k2, k3, a, b, c

(* k1 and k2 share a chain; c is longer than a and b; all keys are equally *)
(* long.                                                                   *)
MCHash == [k \in {k1, k2, k3} |-> IF k = k3 THEN 2 ELSE 1]
MCKLen == [k \in {k1, k2, k3} |-> 1]
MCVLen == [v \in {a, b, c} |-> IF v = c THEN 2 ELSE 1]

MCPreload == <<<<k1, a>>, <<k2, a>>>>
MCQuota == [p \in {p1, p2} |-> IF p = p1 THEN 2 ELSE 1]

Fetch(k) == [kind |-> "fetch", key |-> k, val |-> None, flag |-> None]
Delete(k) == [kind |-> "delete", key |-> k, val |-> None, flag |-> None]
Store(k, v, f) == [kind |-> "store", key |-> k, val |-> v, flag |-> f]

(* p1 makes two calls that move records about, p2 one call. *)
MCOps == [p \in {p1, p2} |->
            {Delete(k1), Store(k3, b, "insert")} \cup
              IF p = p1 THEN {Store(k1, c, "store")} ELSE {Fetch(k1), Store(k1, b, "replace")}]
=============================================================================
