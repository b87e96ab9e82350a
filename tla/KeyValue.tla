------------------------------ MODULE KeyValue ------------------------------
(***************************************************************************)
(* What the record database (db/db.c of the APUE exercise tree) promises   *)
(* to the processes that share it: a map from keys to values, on which     *)
(* db_fetch, db_store and db_delete act one at a time, each at some moment *)
(* between its call and its return.                                        *)
(***************************************************************************)
EXTENDS Integers

CONSTANTS
  Procs,   \* the processes
  Keys,
  Ops,     \* calls: [kind, key, val, flag]
  None     \* no value

VARIABLES
  map,     \* the value of each key, or None
  call,    \* the call each process is in, or None
  ret      \* what its last call returned

Init == call = [p \in Procs |-> None] /\ ret = [p \in Procs |-> None]

Missing(m, o) == m[o.key] = None

(* The return value of a call on m, and what the call makes of m. *)
Result(m, o) ==
  CASE o.kind = "fetch" -> m[o.key]
    [] o.kind = "delete" -> IF Missing(m, o) THEN -1 ELSE 0
    [] o.kind = "store" -> IF Missing(m, o) /\ o.flag = "replace" THEN -1
                           ELSE IF ~Missing(m, o) /\ o.flag = "insert" THEN 1
                           ELSE 0

After(m, o) ==
  CASE o.kind = "fetch" -> m
    [] o.kind = "delete" -> [m EXCEPT ![o.key] = None]
    [] o.kind = "store" -> IF Result(m, o) = 0 THEN [m EXCEPT ![o.key] = o.val] ELSE m

Call(p, o) ==
  /\ call[p] = None
  /\ call' = [call EXCEPT ![p] = o]
  /\ UNCHANGED <<map, ret>>

Return(p) ==
  /\ call[p] # None
  /\ ret' = [ret EXCEPT ![p] = Result(map, call[p])]
  /\ map' = After(map, call[p])
  /\ call' = [call EXCEPT ![p] = None]

Next == \E p \in Procs : Return(p) \/ \E o \in Ops : Call(p, o)

Spec == Init /\ [][Next]_<<map, call, ret>>
=============================================================================
