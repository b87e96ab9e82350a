--------------------------- MODULE CircularBuffer ---------------------------
(***************************************************************************)
(* dsaax/ringbuffer/main.cpp: circular_buffer<T>, an array of Max slots    *)
(* with a write index head, a read index tail and a flag that tells a full *)
(* buffer from an empty one.  put, get and reset run under one mutex; each *)
(* of their stores is an action here, because empty, full and size read    *)
(* the same fields without the mutex.                                      *)
(***************************************************************************)
EXTENDS Integers, Sequences

CONSTANTS
  Threads,    \* callers of put, get and reset
  Items,      \* values of type T that callers put
  Default,    \* T()
  Garbage,    \* content of a slot nobody has written
  NoThread,   \* the mutex is free
  Max         \* max_size_

ASSUME CBAssumption ==
  /\ Max \in Nat \ {0}
  /\ Default \notin Items
  /\ Garbage \notin Items \cup {Default}
  /\ NoThread \notin Threads

Slots == 0..(Max - 1)

VARIABLES
  buf,     \* buf_
  head,    \* head_
  tail,    \* tail_
  full,    \* full_
  mutex,   \* owner of mutex_, or NoThread
  pc,      \* next statement of each thread
  item,    \* the argument of each thread's put
  val      \* what each thread's get returns

vars == <<buf, head, tail, full, mutex, pc, item, val>>
fields == <<buf, head, tail, full>>

Init ==
  /\ buf = [s \in Slots |-> Garbage]
  /\ head = 0
  /\ tail = 0
  /\ full = FALSE
  /\ mutex = NoThread
  /\ pc = [t \in Threads |-> "idle"]
  /\ item = [t \in Threads |-> Default]
  /\ val = [t \in Threads |-> Default]

(* empty() *)
Empty == ~full /\ head = tail

(* size(), of an undisturbed buffer *)
Size(h, t, f) ==
  IF f THEN Max ELSE IF h >= t THEN h - t ELSE Max + h - t

(* Mutant: the index runs one slot too far before it wraps. *)
Advance_Late(i) == (i + 1) % (Max + 1)

Advance(i) == (i + 1) % Max

Goto(t, label) == pc' = [pc EXCEPT ![t] = label]

-----------------------------------------------------------------------------
(* The lock_guard of each operation. *)
Acquire(t, label) ==
  /\ pc[t] = "idle"
  /\ mutex = NoThread
  /\ mutex' = t
  /\ Goto(t, label)
  /\ UNCHANGED fields

PutLock(t, x) ==
  /\ Acquire(t, "putStore")
  /\ item' = [item EXCEPT ![t] = x]
  /\ UNCHANGED val

GetLock(t) == Acquire(t, "getTest") /\ UNCHANGED <<item, val>>

ResetLock(t) == Acquire(t, "resetHead") /\ UNCHANGED <<item, val>>

Release(t) ==
  /\ pc[t] = "unlock"
  /\ mutex' = NoThread
  /\ Goto(t, "idle")
  /\ UNCHANGED <<buf, head, tail, full, item, val>>

-----------------------------------------------------------------------------
(* put: buf_[head_] = item *)
PutStore(t) ==
  /\ pc[t] = "putStore"
  /\ buf' = [buf EXCEPT ![head] = item[t]]
  /\ Goto(t, "putTail")
  /\ UNCHANGED <<head, tail, full, mutex, item, val>>

(* Mutant: a put on a full buffer leaves the read index alone. *)
PutTail_Keep(t) ==
  /\ pc[t] = "putTail"
  /\ Goto(t, "putHead")
  /\ UNCHANGED <<buf, head, tail, full, mutex, item, val>>

(* put: if (full_) the oldest item is given up *)
PutTail(t) ==
  /\ pc[t] = "putTail"
  /\ tail' = IF full THEN Advance(tail) ELSE tail
  /\ Goto(t, "putHead")
  /\ UNCHANGED <<buf, head, full, mutex, item, val>>

PutHead(t) ==
  /\ pc[t] = "putHead"
  /\ head' = Advance(head)
  /\ Goto(t, "putFull")
  /\ UNCHANGED <<buf, tail, full, mutex, item, val>>

PutFull(t) ==
  /\ pc[t] = "putFull"
  /\ full' = (head = tail)
  /\ Goto(t, "unlock")
  /\ UNCHANGED <<buf, head, tail, mutex, item, val>>

-----------------------------------------------------------------------------
(* get: if (empty()) return T() *)
GetTest(t) ==
  /\ pc[t] = "getTest"
  /\ IF Empty
     THEN Goto(t, "unlock") /\ val' = [val EXCEPT ![t] = Default]
     ELSE Goto(t, "getRead") /\ UNCHANGED val
  /\ UNCHANGED <<buf, head, tail, full, mutex, item>>

GetRead(t) ==
  /\ pc[t] = "getRead"
  /\ val' = [val EXCEPT ![t] = buf[tail]]
  /\ Goto(t, "getFull")
  /\ UNCHANGED <<buf, head, tail, full, mutex, item>>

GetFull(t) ==
  /\ pc[t] = "getFull"
  /\ full' = FALSE
  /\ Goto(t, "getTail")
  /\ UNCHANGED <<buf, head, tail, mutex, item, val>>

GetTail(t) ==
  /\ pc[t] = "getTail"
  /\ tail' = Advance(tail)
  /\ Goto(t, "unlock")
  /\ UNCHANGED <<buf, head, full, mutex, item, val>>

-----------------------------------------------------------------------------
(* reset: head_ = tail_; full_ = false *)
ResetHead(t) ==
  /\ pc[t] = "resetHead"
  /\ head' = tail
  /\ Goto(t, "resetFull")
  /\ UNCHANGED <<buf, tail, full, mutex, item, val>>

ResetFull(t) ==
  /\ pc[t] = "resetFull"
  /\ full' = FALSE
  /\ Goto(t, "unlock")
  /\ UNCHANGED <<buf, head, tail, mutex, item, val>>

Put(t) == PutStore(t) \/ PutTail(t) \/ PutHead(t) \/ PutFull(t)
Get(t) == GetTest(t) \/ GetRead(t) \/ GetFull(t) \/ GetTail(t)
Reset(t) == ResetHead(t) \/ ResetFull(t)

Next ==
  \E t \in Threads :
    \/ \E x \in Items : PutLock(t, x)
    \/ GetLock(t) \/ ResetLock(t) \/ Release(t)
    \/ Put(t) \/ Get(t) \/ Reset(t)

Spec == Init /\ [][Next]_vars

-----------------------------------------------------------------------------
(***************************************************************************)
(* The refinement.  An operation takes effect when it takes the mutex: the *)
(* queue a state stands for is the one its fields will hold when the owner *)
(* of the mutex releases it, so each remaining store is applied here.      *)
(***************************************************************************)
Slot(t, k) == IF t + k < Max THEN t + k ELSE t + k - Max

(* n items from slot t on, and all the items of a buffer *)
Segment(b, t, n) == [i \in 1..n |-> b[Slot(t, i - 1)]]
Contents(b, h, t, f) == Segment(b, t, Size(h, t, f))

AfterPutFull(b, h, t) == Contents(b, h, t, h = t)
AfterPutHead(b, h, t) == AfterPutFull(b, Advance(h), t)
AfterPutTail(b, h, t, f) == AfterPutHead(b, h, IF f THEN Advance(t) ELSE t)
AfterPutStore(b, h, t, f, x) == AfterPutTail([b EXCEPT ![h] = x], h, t, f)
AfterGetTail(b, h, t, f) == Contents(b, h, Advance(t), f)

Where == IF mutex = NoThread THEN "idle" ELSE pc[mutex]

Queue ==
  CASE Where = "putStore" -> AfterPutStore(buf, head, tail, full, item[mutex])
    [] Where = "putTail" -> AfterPutTail(buf, head, tail, full)
    [] Where = "putHead" -> AfterPutHead(buf, head, tail)
    [] Where = "putFull" -> AfterPutFull(buf, head, tail)
    [] Where = "getTest" -> IF Empty THEN <<>> ELSE AfterGetTail(buf, head, tail, FALSE)
    [] Where \in {"getRead", "getFull"} -> AfterGetTail(buf, head, tail, FALSE)
    [] Where = "getTail" -> AfterGetTail(buf, head, tail, full)
    [] Where \in {"resetHead", "resetFull"} -> <<>>
    [] OTHER -> Contents(buf, head, tail, full)

Got ==
  [t \in Threads |->
     CASE pc[t] = "getTest" -> IF Empty THEN Default ELSE buf[tail]
       [] pc[t] = "getRead" -> buf[tail]
       [] OTHER -> val[t]]

Fifo == INSTANCE BoundedFifo WITH queue <- Queue, got <- Got

(* put, get and reset, interleaved by any threads, behave as one bounded   *)
(* queue that drops its oldest item when full: the indices and full_ never *)
(* lose, repeat or reorder an item and get never returns an unwritten slot.*)
ImplementsBoundedFifo == Fifo!FifoSpec

-----------------------------------------------------------------------------
PutPoints == {"putStore", "putTail", "putHead", "putFull"}
GetPoints == {"getTest", "getRead", "getFull", "getTail"}
Points == PutPoints \cup GetPoints \cup {"idle", "resetHead", "resetFull", "unlock"}

(* The types of the members, and both indices inside the array: no store   *)
(* or load of put and get is out of bounds.                                *)
TypeOK ==
  /\ buf \in [Slots -> Items \cup {Garbage}]
  /\ head \in Slots
  /\ tail \in Slots
  /\ full \in BOOLEAN
  /\ mutex \in Threads \cup {NoThread}
  /\ pc \in [Threads -> Points]
  /\ item \in [Threads -> Items \cup {Default}]
  /\ val \in [Threads -> Items \cup {Default, Garbage}]

(* The thread inside put, get or reset is the owner of the mutex, alone. *)
OwnerOK ==
  /\ \A t \in Threads : pc[t] # "idle" <=> mutex = t
  /\ \A t \in Threads : pc[t] = "putStore" => item[t] \in Items

(* full_ is raised only while the indices meet, except between the stores  *)
(* of a put; get has lowered it before it moves tail_, and reset has made  *)
(* the indices meet before it lowers it.                                   *)
FieldsOK ==
  /\ full => \/ head = tail
             \/ \E t \in Threads : pc[t] \in {"putHead", "putFull"}
  /\ \A t \in Threads : pc[t] = "getTail" => ~full
  /\ \A t \in Threads : pc[t] = "resetFull" => head = tail

(* The inductive invariant behind the refinement. *)
IInv == TypeOK /\ OwnerOK /\ FieldsOK
=============================================================================
