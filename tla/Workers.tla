------------------------------- MODULE Workers -------------------------------
(***************************************************************************)
(* The list of client threads that printd.c keeps (printer/printd.c of the *)
(* APUE exercise tree), so that SIGTERM can cancel them: add_worker,       *)
(* client_cleanup and kill_workers, each one step under workerlock.  A     *)
(* node is named by its thread.  It concerns none of the state of module   *)
(* Spooler.                                                                *)
(***************************************************************************)
EXTENDS Naturals, FiniteSets

CONSTANTS
  Threads,   \* client threads (a finite set)
  NULL

VARIABLES
  workers,     \* the head of the list
  next, prev,  \* the links of the nodes
  state,       \* of each thread: new, listed (its node is allocated), ended
  open,        \* threads whose connection is open
  cancelled,   \* threads kill_workers has cancelled
  killed       \* kill_workers has run

vars == <<workers, next, prev, state, open, cancelled, killed>>

Init ==
  /\ workers = NULL
  /\ next = [t \in Threads |-> NULL]
  /\ prev = [t \in Threads |-> NULL]
  /\ state = [t \in Threads |-> "new"]
  /\ open = {}
  /\ cancelled = {}
  /\ killed = FALSE

(* The nodes a walk from `workers' meets. *)
Reached ==
  LET steps == Cardinality(Threads)
      walk[k \in 0..steps] ==
        IF k = 0 THEN {workers} \ {NULL}
        ELSE walk[k - 1] \cup ({next[t] : t \in walk[k - 1]} \ {NULL})
  IN  walk[steps]

(* Every node of the walk is allocated; what a walk through freed memory   *)
(* does is not modelled.                                                   *)
Sound == \A t \in Reached : state[t] = "listed"

(* client_thread starts: add_worker. *)
AddWorker(t) ==
  /\ state[t] = "new" /\ ~killed
  /\ workers # NULL => state[workers] = "listed"
  /\ IF workers = NULL
     THEN /\ workers' = t
          /\ prev' = [prev EXCEPT ![t] = NULL]
     ELSE /\ prev' = [prev EXCEPT ![t] = NULL, ![workers] = t]
          /\ UNCHANGED workers
  /\ next' = [next EXCEPT ![t] = workers]
  /\ state' = [state EXCEPT ![t] = "listed"]
  /\ open' = open \cup {t}
  /\ UNCHANGED <<cancelled, killed>>

(* A thread ends or was cancelled: client_cleanup unlinks, closes and      *)
(* frees its node if the walk finds it.                                    *)
ClientCleanup(t) ==
  /\ state[t] = "listed"
  /\ Sound
  /\ IF t \in Reached
     THEN /\ prev' = [u \in Threads |-> IF u = next[t] THEN prev[t] ELSE prev[u]]
          /\ next' = [u \in Threads |-> IF u = prev[t] THEN next[t] ELSE next[u]]
          /\ workers' = IF prev[t] = NULL THEN next[t] ELSE workers
          /\ open' = open \ {t}
     ELSE UNCHANGED <<prev, next, workers, open>>
  /\ state' = [state EXCEPT ![t] = "ended"]
  /\ UNCHANGED <<cancelled, killed>>

(* SIGTERM: kill_workers. *)
KillWorkers ==
  /\ ~killed
  /\ Sound
  /\ killed' = TRUE
  /\ cancelled' = Reached
  /\ UNCHANGED <<workers, next, prev, state, open>>

Next == (\E t \in Threads : AddWorker(t) \/ ClientCleanup(t)) \/ KillWorkers

Spec == Init /\ [][Next]_vars

-----------------------------------------------------------------------------
(* "Cancel (kill) all outstanding workers": a thread that has listed       *)
(* itself and not ended is cancelled when kill_workers runs.               *)
KillReachesAll ==
  killed => \A t \in Threads : state[t] = "listed" => t \in cancelled
=============================================================================
