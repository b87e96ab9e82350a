------------------------------ MODULE WaitGroup ------------------------------
(***************************************************************************)
(* utils/waitgroup/wait_group.cpp: a counter that threads raise (Add) and  *)
(* lower (Done) and on whose return to zero other threads block (Wait).    *)
(* The counter is atomic and is changed OUTSIDE the mutex; only the        *)
(* notification and the waiter's test are made under it, so whether a      *)
(* waiter can sleep through the last Done depends on the order of the      *)
(* steps below.                                                            *)
(*                                                                         *)
(* The counter counts tasks.  The constructor's initialCount and           *)
(* Add(count) announce a set of tasks of that size, Done(count) retires    *)
(* one.  Each task is announced once, possibly while a waiter is blocked,  *)
(* so the number of calls is bounded by Tasks.  Every step between two     *)
(* accesses to shared memory is an action of its own.                      *)
(***************************************************************************)
EXTENDS Integers, FiniteSets

CONSTANTS
  Tasks,        \* units of work the counter counts (bounds the calls)
  Workers,      \* threads that call Done
  Waiters,      \* threads that call Wait
  NoOwner,      \* the mutex is free
  MaxSpurious   \* spurious wakeups of the condition variable in a run (bound)

ASSUME WGAssumption ==
  /\ IsFiniteSet(Tasks)
  /\ Workers \cap Waiters = {}
  /\ NoOwner \notin Workers \cup Waiters
  /\ MaxSpurious \in Nat

Callers == Workers \cup Waiters

VARIABLES
  count,     \* Data::count_
  mux,       \* owner of Data::mux_, or NoOwner
  asleep,    \* threads blocked inside Data::cv_
  point,     \* where each thread is
  todo,      \* tasks not yet announced
  open,      \* tasks announced and not yet retired
  spurious   \* spurious wakeups left

wgVars == <<count, mux, asleep, point, todo, open, spurious>>

(* The constructor: initialCount is the number of tasks open from the start. *)
WGInit ==
  /\ open \in SUBSET Tasks
  /\ todo = Tasks \ open
  /\ count = Cardinality(open)
  /\ mux = NoOwner
  /\ asleep = {}
  /\ point = [t \in Callers |-> "idle"]
  /\ spurious = MaxSpurious

-----------------------------------------------------------------------------
(* Add(count): one atomic addition, no lock. *)
Add(S) ==
  /\ S \subseteq todo
  /\ count' = count + Cardinality(S)
  /\ todo' = todo \ S
  /\ open' = open \cup S
  /\ UNCHANGED <<mux, asleep, point, spurious>>

(* Mutant: Done takes one more than it was asked to. *)
DoneDecrement_OffByOne(w, S) ==
  /\ point[w] = "idle"
  /\ S \subseteq open
  /\ count' = count - (Cardinality(S) + 1)
  /\ open' = open \ S
  /\ point' = [point EXCEPT ![w] = "test"]
  /\ UNCHANGED <<mux, asleep, todo, spurious>>

(* Done(count), first statement: the atomic subtraction, no lock. *)
DoneDecrement(w, S) ==
  /\ point[w] = "idle"
  /\ S \subseteq open
  /\ count' = count - Cardinality(S)
  /\ open' = open \ S
  /\ point' = [point EXCEPT ![w] = "test"]
  /\ UNCHANGED <<mux, asleep, todo, spurious>>

(* Mutant: Done compares with < 0 in place of <= 0. *)
DoneTest_Strict(w) ==
  /\ point[w] = "test"
  /\ point' = [point EXCEPT ![w] = IF count < 0 THEN "lock" ELSE "idle"]
  /\ UNCHANGED <<count, mux, asleep, todo, open, spurious>>

(* Done(count), the if: a second, separate load of the counter. *)
DoneTest(w) ==
  /\ point[w] = "test"
  /\ point' = [point EXCEPT ![w] = IF count <= 0 THEN "lock" ELSE "idle"]
  /\ UNCHANGED <<count, mux, asleep, todo, open, spurious>>

(* notify_all moves every sleeper to the mutex; w continues at next. *)
WakeAll(w, next) ==
  /\ point' = [t \in Callers |-> IF t = w THEN next
                                 ELSE IF t \in asleep THEN "relock" ELSE point[t]]
  /\ asleep' = {}

(* Mutant: Done notifies without taking the mutex. *)
DoneLock_NoLock(w) ==
  /\ point[w] = "lock"
  /\ WakeAll(w, "idle")
  /\ UNCHANGED <<count, mux, todo, open, spurious>>

(* Done(count): the unique_lock's constructor. *)
DoneLock(w) ==
  /\ point[w] = "lock"
  /\ mux = NoOwner
  /\ mux' = w
  /\ point' = [point EXCEPT ![w] = "notify"]
  /\ UNCHANGED <<count, asleep, todo, open, spurious>>

(* Mutant: Done waits on the condition variable in place of notifying it. *)
DoneNotify_Waits(w) ==
  /\ point[w] = "notify"
  /\ mux' = NoOwner
  /\ asleep' = asleep \cup {w}
  /\ point' = [point EXCEPT ![w] = "asleep"]
  /\ UNCHANGED <<count, todo, open, spurious>>

(* Done(count): notify_all, under the mutex. *)
DoneNotify(w) ==
  /\ point[w] = "notify"
  /\ WakeAll(w, "unlock")
  /\ UNCHANGED <<count, mux, todo, open, spurious>>

(* Done(count): the unique_lock's destructor. *)
DoneUnlock(w) ==
  /\ point[w] = "unlock"
  /\ mux' = NoOwner
  /\ point' = [point EXCEPT ![w] = "idle"]
  /\ UNCHANGED <<count, asleep, todo, open, spurious>>

-----------------------------------------------------------------------------
(* Wait(): the unique_lock's constructor, and the relock inside cv_.wait. *)
WaitLock(v) ==
  /\ point[v] \in {"idle", "relock"}
  /\ mux = NoOwner
  /\ mux' = v
  /\ point' = [point EXCEPT ![v] = "pred"]
  /\ UNCHANGED <<count, asleep, todo, open, spurious>>

(* The predicate of cv_.wait, evaluated under the mutex. *)
WaitPredicate(v) ==
  /\ point[v] = "pred"
  /\ point' = [point EXCEPT ![v] = IF count <= 0 THEN "leave" ELSE "block"]
  /\ UNCHANGED <<count, mux, asleep, todo, open, spurious>>

(* cv_.wait releases the mutex and blocks in one step. *)
WaitBlock(v) ==
  /\ point[v] = "block"
  /\ mux' = NoOwner
  /\ asleep' = asleep \cup {v}
  /\ point' = [point EXCEPT ![v] = "asleep"]
  /\ UNCHANGED <<count, todo, open, spurious>>

(* Mutant: Wait returns without releasing the mutex. *)
WaitReturn_KeepsLock(v) ==
  /\ point[v] = "leave"
  /\ point' = [point EXCEPT ![v] = "returned"]
  /\ UNCHANGED <<count, mux, asleep, todo, open, spurious>>

(* Wait(): the unique_lock's destructor. *)
WaitReturn(v) ==
  /\ point[v] = "leave"
  /\ mux' = NoOwner
  /\ point' = [point EXCEPT ![v] = "returned"]
  /\ UNCHANGED <<count, asleep, todo, open, spurious>>

(* The condition variable may wake a sleeper nobody notified. *)
SpuriousWakeup(v) ==
  /\ v \in asleep
  /\ spurious > 0
  /\ spurious' = spurious - 1
  /\ asleep' = asleep \ {v}
  /\ point' = [point EXCEPT ![v] = "relock"]
  /\ UNCHANGED <<count, mux, todo, open>>

-----------------------------------------------------------------------------
DoneStep(w) ==
  DoneTest(w) \/ DoneLock(w) \/ DoneNotify(w) \/ DoneUnlock(w)

WaiterStep(v) ==
  WaitLock(v) \/ WaitPredicate(v) \/ WaitBlock(v) \/ WaitReturn(v)

Retire(w) == \E S \in (SUBSET open) \ {{}} : DoneDecrement(w, S)

Terminated ==
  /\ todo = {} /\ open = {}
  /\ \A w \in Workers : point[w] = "idle"
  /\ \A v \in Waiters : point[v] = "returned"

WGNext ==
  \/ \E S \in (SUBSET todo) \ {{}} : Add(S)
  \/ \E w \in Workers : Retire(w) \/ DoneStep(w)
  \/ \E v \in Waiters : WaiterStep(v) \/ SpuriousWakeup(v)
  \/ Terminated /\ UNCHANGED wgVars

(* The scheduler runs every runnable thread and every open task is retired *)
(* in the end; nothing forces an Add or a spurious wakeup.  The mutex is   *)
(* taken a bounded number of times in a run, so weak fairness is enough    *)
(* for a thread that waits for it.                                         *)
WGFairness ==
  /\ \A w \in Workers : WF_wgVars(Retire(w)) /\ WF_wgVars(DoneStep(w))
  /\ \A v \in Waiters : WF_wgVars(WaiterStep(v))

WGSpec == WGInit /\ [][WGNext]_wgVars
WGFairSpec == WGSpec /\ WGFairness

-----------------------------------------------------------------------------
WorkerPoints == {"idle", "test", "lock", "notify", "unlock"}
WaiterPoints == {"idle", "pred", "block", "leave", "asleep", "relock", "returned"}

(* The types of the members of WaitGroup::Data and of the control points. *)
WGTypeOK ==
  /\ count \in Int
  /\ mux \in Callers \cup {NoOwner}
  /\ asleep \subseteq Waiters
  /\ point \in [Callers -> WorkerPoints \cup WaiterPoints]
  /\ \A w \in Workers : point[w] \in WorkerPoints
  /\ \A v \in Waiters : point[v] \in WaiterPoints
  /\ open \subseteq Tasks
  /\ todo \subseteq Tasks
  /\ spurious \in 0..MaxSpurious

(* The mutex discipline of Done and Wait: whoever is between lock and      *)
(* unlock is the owner, hence alone, and exactly the threads in cv_ sleep. *)
MutexOK ==
  /\ \A t \in Callers :
       point[t] \in {"notify", "unlock", "pred", "block", "leave"} <=> mux = t
  /\ asleep = {v \in Waiters : point[v] = "asleep"}

(* The counter is the number of announced and unretired tasks. *)
CountOK == count = Cardinality(open) /\ open \cap todo = {}

(* No lost wakeup (Done, Wait): when the counter is down at zero while a   *)
(* waiter sleeps, or is about to sleep on a test that has gone stale, some *)
(* thread has lowered the counter and has not notified yet.                *)
NoLostWakeup ==
  (count <= 0 /\ \E v \in Waiters : point[v] \in {"block", "asleep"})
    => \E w \in Workers : point[w] \in {"test", "lock", "notify"}

(* The inductive invariant behind NoLostWakeup and LeaveOnlyWhenDone. *)
WGInv == WGTypeOK /\ MutexOK /\ CountOK /\ NoLostWakeup

(* Wait returns only when the work is over: the test on which a waiter     *)
(* leaves is made in a state where every announced task has been retired.  *)
LeaveOnlyWhenDone ==
  [][\A v \in Waiters : (point[v] = "pred" /\ point'[v] = "leave") => open = {}]_wgVars

(* Every Wait returns, whatever the order of the Adds and Dones. *)
WaitReturns == <>[](\A v \in Waiters : point[v] = "returned")
=============================================================================
