------------------------------ MODULE WaitQueue ------------------------------
(***************************************************************************)
(* linux/wait_queue/exp1/wait_queue_proc.c: a kernel module whose thread   *)
(* sleeps on a wait queue until wait_queue_flag is raised.  Every read of  *)
(* /proc/test_wait_queue raises it to 1 and wakes the queue; module exit   *)
(* raises it to 2 and wakes the queue.  The flag is a plain int: no lock   *)
(* orders the readers, the exit function and the thread.                   *)
(*                                                                         *)
(* Of the kernel, what the code relies on is modelled: wait_event puts the *)
(* thread on the queue before it tests the condition again, a wake_up      *)
(* takes it off and makes it runnable, and remove_proc_entry waits for the *)
(* show calls in progress and admits no others.                            *)
(***************************************************************************)
EXTENDS Integers, FiniteSets

CONSTANTS
  Readers,   \* processes that read /proc/test_wait_queue
  MaxReads   \* reads each of them makes (bound)

ASSUME WQAssumption == MaxReads \in Nat

VARIABLES
  flag,       \* wait_queue_flag
  read_count, \* read_count
  events,     \* times a reader stored 1 in wait_queue_flag
  queued,     \* the thread is on test_waitqueue and not woken
  thread,     \* next step of MyWaitThread
  reader,     \* next step of each reader's show
  reads,      \* reads each reader has left
  module      \* next step of init and exit

wqVars == <<flag, read_count, events, queued, thread, reader, reads, module>>

WQInit ==
  /\ flag = 0
  /\ read_count = 0
  /\ events = 0
  /\ queued = FALSE
  /\ thread = "none"
  /\ reader = [r \in Readers |-> "idle"]
  /\ reads = [r \in Readers |-> MaxReads]
  /\ module = "init"

(* /proc/test_wait_queue exists. *)
Registered == module \in {"thread", "oops", "loaded", "wake", "remove"}

-----------------------------------------------------------------------------
(* mywaitqueue_init: proc_create, or -ENOMEM. *)
InitProc ==
  /\ module = "init"
  /\ module' \in {"thread", "failed"}
  /\ UNCHANGED <<flag, read_count, events, queued, thread, reader, reads>>

(* mywaitqueue_init: kthread_create and wake_up_process.  A failed         *)
(* kthread_create returns an error pointer, which passes the null test, so *)
(* wake_up_process is called on it.                                        *)
InitThread ==
  /\ module = "thread"
  /\ \/ module' = "loaded" /\ thread' = "wait"
     \/ module' = "oops" /\ UNCHANGED thread
  /\ UNCHANGED <<flag, read_count, events, queued, reader, reads>>

(* wake_up_interruptible: the thread, if it is on the queue, becomes       *)
(* runnable and goes round the loop of wait_event again.                   *)
WakeUp ==
  /\ queued' = FALSE
  /\ thread' = IF thread = "asleep" THEN "prepare" ELSE thread

(* Mutant: exit announces itself before it raises the flag. *)
ExitFlag_Late ==
  /\ module = "loaded"
  /\ module' = "wake"
  /\ WakeUp
  /\ UNCHANGED <<flag, read_count, events, reader, reads>>

(* mywaitqueue_exit *)
ExitFlag ==
  /\ module = "loaded"
  /\ flag' = 2
  /\ module' = "wake"
  /\ UNCHANGED <<read_count, events, queued, thread, reader, reads>>

ExitWake ==
  /\ module = "wake"
  /\ WakeUp
  /\ module' = "remove"
  /\ UNCHANGED <<flag, read_count, events, reader, reads>>

(* remove_proc_entry drains the shows; then the module is freed, its code, *)
(* its flag and its wait queue, whether or not its thread is gone.         *)
ExitRemove ==
  /\ module = "remove"
  /\ \A r \in Readers : reader[r] = "idle"
  /\ module' = "unloaded"
  /\ UNCHANGED <<flag, read_count, events, queued, thread, reader, reads>>

-----------------------------------------------------------------------------
(* my_waitqueue_show: seq_printf of read_count. *)
ShowPrint(r) ==
  /\ Registered
  /\ reader[r] = "idle"
  /\ reads[r] > 0
  /\ reads' = [reads EXCEPT ![r] = @ - 1]
  /\ reader' = [reader EXCEPT ![r] = "flag"]
  /\ UNCHANGED <<flag, read_count, events, queued, thread, module>>

(* Mutant: the flag counts the reads. *)
ShowFlag_Increments(r) ==
  /\ reader[r] = "flag"
  /\ flag' = flag + 1
  /\ events' = events + 1
  /\ reader' = [reader EXCEPT ![r] = "wake"]
  /\ UNCHANGED <<read_count, queued, thread, reads, module>>

(* my_waitqueue_show: wait_queue_flag = 1, over whatever it was. *)
ShowFlag(r) ==
  /\ reader[r] = "flag"
  /\ flag' = 1
  /\ events' = events + 1
  /\ reader' = [reader EXCEPT ![r] = "wake"]
  /\ UNCHANGED <<read_count, queued, thread, reads, module>>

(* Mutant: the show returns without the wake-up. *)
ShowWake_None(r) ==
  /\ reader[r] = "wake"
  /\ reader' = [reader EXCEPT ![r] = "idle"]
  /\ UNCHANGED <<flag, read_count, events, queued, thread, reads, module>>

ShowWake(r) ==
  /\ reader[r] = "wake"
  /\ WakeUp
  /\ reader' = [reader EXCEPT ![r] = "idle"]
  /\ UNCHANGED <<flag, read_count, events, reads, module>>

-----------------------------------------------------------------------------
(* wait_event_interruptible: the first test, then onto the queue, the test *)
(* again, and off the CPU unless a wake-up has come in between.            *)
WaitTest ==
  /\ thread = "wait"
  /\ thread' = IF flag # 0 THEN "check" ELSE "prepare"
  /\ UNCHANGED <<flag, read_count, events, queued, reader, reads, module>>

(* Mutant: the thread sleeps on its first test. *)
WaitPrepare_NoRetest ==
  /\ thread = "prepare"
  /\ queued' = TRUE
  /\ thread' = "schedule"
  /\ UNCHANGED <<flag, read_count, events, reader, reads, module>>

WaitPrepare ==
  /\ thread = "prepare"
  /\ queued' = TRUE
  /\ thread' = "retest"
  /\ UNCHANGED <<flag, read_count, events, reader, reads, module>>

WaitRetest ==
  /\ thread = "retest"
  /\ IF flag # 0 THEN thread' = "check" /\ queued' = FALSE
                 ELSE thread' = "schedule" /\ UNCHANGED queued
  /\ UNCHANGED <<flag, read_count, events, reader, reads, module>>

WaitSchedule ==
  /\ thread = "schedule"
  /\ thread' = IF queued THEN "asleep" ELSE "prepare"
  /\ UNCHANGED <<flag, read_count, events, queued, reader, reads, module>>

(* wait_function: was it the exit function? *)
CheckExit ==
  /\ thread = "check"
  /\ thread' = IF flag = 2 THEN "returned" ELSE "count"
  /\ UNCHANGED <<flag, read_count, events, queued, reader, reads, module>>

CountRead ==
  /\ thread = "count"
  /\ read_count' = read_count + 1
  /\ thread' = "clear"
  /\ UNCHANGED <<flag, events, queued, reader, reads, module>>

(* Mutant: the flag is left raised. *)
ClearFlag_Keep ==
  /\ thread = "clear"
  /\ thread' = "wait"
  /\ UNCHANGED <<flag, read_count, events, queued, reader, reads, module>>

ClearFlag ==
  /\ thread = "clear"
  /\ flag' = 0
  /\ thread' = "wait"
  /\ UNCHANGED <<read_count, events, queued, reader, reads, module>>

(* mywaitqueue_exit does not wait for the thread.  Once the module is      *)
(* freed, the thread faults at its next instruction in wait_function, or   *)
(* in the kernel at its next access to the wait queue.                     *)
ThreadFaults ==
  /\ module = "unloaded"
  /\ thread \in {"wait", "prepare", "retest", "check", "count", "clear"}
  /\ thread' = "faulted"
  /\ UNCHANGED <<flag, read_count, events, queued, reader, reads, module>>

-----------------------------------------------------------------------------
ModuleStep == InitProc \/ InitThread \/ ExitWake \/ ExitRemove
ShowStep(r) == ShowFlag(r) \/ ShowWake(r)

(* Going to sleep is the kernel's code; the rest of the loop needs the     *)
(* module in memory.                                                       *)
ThreadStep ==
  \/ WaitSchedule
  \/ /\ module # "unloaded"
     /\ WaitTest \/ WaitPrepare \/ WaitRetest \/ CheckExit \/ CountRead \/ ClearFlag
  \/ ThreadFaults

(* Nobody reads and the thread sleeps, or has never been or is gone: the   *)
(* system may stop there.                                                  *)
WQNext ==
  \/ ModuleStep \/ ExitFlag
  \/ \E r \in Readers : ShowPrint(r) \/ ShowStep(r)
  \/ ThreadStep

(* A runnable thread, a show and an exit in progress get the processor;    *)
(* nothing forces a read or an rmmod.                                      *)
WQFairness ==
  /\ WF_wqVars(ModuleStep)
  /\ \A r \in Readers : WF_wqVars(ShowStep(r))
  /\ WF_wqVars(ThreadStep)

WQSpec == WQInit /\ [][WQNext]_wqVars
WQFairSpec == WQSpec /\ WQFairness

-----------------------------------------------------------------------------
ThreadPoints == {"none", "wait", "prepare", "retest", "schedule", "asleep",
                 "check", "count", "clear", "returned", "faulted"}

(* The types of the module's variables and control points. *)
WQTypeOK ==
  /\ flag \in 0..2
  /\ read_count \in Nat
  /\ events \in Nat
  /\ queued \in BOOLEAN
  /\ thread \in ThreadPoints
  /\ reader \in [Readers -> {"idle", "flag", "wake"}]
  /\ reads \in [Readers -> 0..MaxReads]
  /\ module \in {"init", "thread", "loaded", "wake", "remove", "unloaded",
                 "failed", "oops"}

(* No missed wake-up (show, exit, wait_event): while the flag is up and    *)
(* the thread is on the queue, about to sleep or asleep, somebody who      *)
(* raised the flag has not called wake_up yet.                             *)
NoMissedWake ==
  (flag # 0 /\ queued /\ thread \in {"schedule", "asleep"})
    => module = "wake" \/ \E r \in Readers : reader[r] = "wake"

(* read_count never runs ahead of the reads: every pass of the thread's    *)
(* loop that is counted as a read consumed at least one raising of the     *)
(* flag by a show, whatever exit and other shows stored in between.        *)
CountedReadsHappened ==
  read_count <= events

(* The inductive invariant behind CountedReadsHappened: a flag at 1 that   *)
(* the thread has not counted yet, and a pass it is about to count, each   *)
(* stand for a raising it has not counted; only the thread lowers the flag.*)
PassOwed ==
  /\ flag = 1 /\ thread \notin {"clear", "faulted"} => read_count < events
  /\ thread = "count" => read_count < events
  /\ thread = "check" => flag # 0
  /\ module \in {"init", "thread"} => thread = "none"

WQInv == WQTypeOK /\ NoMissedWake /\ CountedReadsHappened /\ PassOwed

(* A raised flag is noticed: the thread wakes up and clears it or returns, *)
(* unless mywaitqueue_exit has freed the module before it got that far,    *)
(* and then the thread faults (or the module never got a thread).  It does *)
(* not sleep on while the flag is up.                                      *)
RaisedFlagAnswered ==
  (flag # 0) ~> (flag = 0 \/ thread \in {"returned", "faulted", "none"})

(* What the branch for flag 2 announces, "Event Came From Exit Function":  *)
(* once exit has raised the flag, the thread takes that branch (a thread   *)
(* under which the module is freed first is not held against it).          *)
ExitReachesThread ==
  (module = "wake") ~> (thread \in {"returned", "faulted"})
=============================================================================
