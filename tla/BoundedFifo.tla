---------------------------- MODULE BoundedFifo ----------------------------
(***************************************************************************)
(* What dsaax/ringbuffer/main.cpp promises of a circular_buffer: a queue   *)
(* of at most Max items whose put never blocks and drops the oldest item   *)
(* of a full queue, whose get never blocks and hands out the default item  *)
(* when the queue is empty, and whose reset forgets everything.            *)
(***************************************************************************)
EXTENDS Integers, Sequences

CONSTANTS
  Threads,   \* callers
  Items,     \* values of type T
  Default,   \* T()
  Max        \* the capacity

VARIABLES
  queue,     \* the items, oldest first
  got        \* what each thread's last get handed out

fifoVars == <<queue, got>>

FifoInit ==
  /\ queue = <<>>
  /\ got = [t \in Threads |-> Default]

FifoPut(x) ==
  /\ queue' = IF Len(queue) = Max THEN Append(Tail(queue), x) ELSE Append(queue, x)
  /\ UNCHANGED got

FifoGet(t) ==
  \/ /\ queue = <<>>
     /\ got' = [got EXCEPT ![t] = Default]
     /\ UNCHANGED queue
  \/ /\ queue # <<>>
     /\ got' = [got EXCEPT ![t] = Head(queue)]
     /\ queue' = Tail(queue)

FifoReset ==
  /\ queue' = <<>>
  /\ UNCHANGED got

FifoNext ==
  \/ \E x \in Items : FifoPut(x)
  \/ \E t \in Threads : FifoGet(t)
  \/ FifoReset

FifoSpec == FifoInit /\ [][FifoNext]_fifoVars
=============================================================================
