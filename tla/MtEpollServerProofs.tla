------------------------- MODULE MtEpollServerProofs -------------------------
(***************************************************************************)
(* Proofs about the multi-threaded epoll server: descriptors are closed,   *)
(* handed out again and deregistered by different threads, and still every *)
(* connection is served by the thread that accepted it, no edge is lost    *)
(* but to a read that is too short, no thread blocks in read, and every    *)
(* client gets its own lines back.                                         *)
(***************************************************************************)
EXTENDS MtEpollServer, EchoNetProofs

Watched == Fds \cup {ListenFd}

MtTypes ==
  /\ reg \in [Threads -> SUBSET Watched]
  /\ rdlist \in [Threads -> SUBSET Watched]
  /\ batch \in [Threads -> Seq(Watched)]
  /\ buf \in [Threads -> Seq(Segments)]
  /\ del \in [Threads -> {NoFd} \cup Fds]
  /\ cut \subseteq Clients /\ crowded \in BOOLEAN

(* The events a thread has still to act on: those behind the first of its  *)
(* batch, and the first too unless it has already been read.               *)
Idle(t) == buf[t] = <<>> /\ del[t] = NoFd
Todo(t) == {batch[t][k] : k \in {j \in DOMAIN batch[t] : j > 1 \/ Idle(t)}}

(* The registrations: an open connection is in exactly one instance, and a *)
(* closed one in none, even before its thread gets to deregister it.       *)
RegInv ==
  /\ up => \A t \in Threads : ListenFd \in reg[t]
  /\ \A t \in Threads : rdlist[t] \subseteq reg[t]
  /\ \A t \in Threads : reg[t] \subseteq OpenFds \cup {ListenFd}
  /\ \A t, u \in Threads : \A f \in reg[t] : f \in reg[u] /\ f # ListenFd => t = u
  /\ \A f \in OpenFds : \E t \in Threads : f \in reg[t]

(* The batches.  A number in del may belong to another thread by now.      *)
BatchInv ==
  /\ \A t \in Threads : \A j, k \in DOMAIN batch[t] : batch[t][j] = batch[t][k] => j = k
  /\ \A t \in Threads : Todo(t) \subseteq reg[t]
  /\ \A t \in Threads : buf[t] # <<>> =>
       /\ batch[t] # <<>> /\ del[t] = NoFd
       /\ Head(batch[t]) \in reg[t] /\ Head(batch[t]) # ListenFd
  /\ \A t \in Threads : del[t] # NoFd =>
       batch[t] # <<>> /\ Head(batch[t]) = del[t] /\ del[t] \notin reg[t]

(* The edges: what a thread is going to read is readable, and what is      *)
(* readable is known to its thread.                                        *)
EdgeInv ==
  /\ \A c \in reset : fd[c] # NoFd
  /\ \A t \in Threads : \A c \in Clients : fd[c] \in Todo(t) => Readable(c)
  /\ \A c \in Clients : Readable(c) /\ c \notin cut =>
       \E t \in Threads : fd[c] \in reg[t] /\ fd[c] \in rdlist[t] \cup Todo(t)

(* The threads that are going to accept, and those that will be told to.   *)
Accepting == {t \in Threads : ListenFd \in Todo(t)}
Alerted == {t \in Threads : ListenFd \in rdlist[t]}
CountInv == ~crowded => Len(backlog) <= Cardinality(Accepting) + Cardinality(Alerted)

IInv == NetInv /\ MtTypes /\ RegInv /\ BatchInv /\ EdgeInv /\ CountInv

-----------------------------------------------------------------------------
LEMMA WatchedBounds ==
  /\ FdLimit \in Nat /\ NoFd \notin Watched /\ ListenFd \in Watched /\ ListenFd \notin Fds
  /\ Fds \subseteq Watched /\ Watched \subseteq 0..FdLimit /\ Fds \subseteq Nat /\ IsFiniteSet(Threads)
  BY NetAssumption, MtAssumption DEF NetAssumption, MtAssumption, Watched, Fds, ListenFd, NoFd

LEMMA OpenFdsWatched ==
  ASSUME NetInv
  PROVE  OpenFds \subseteq Fds /\ FreeFds \subseteq Fds /\ FreeFds \cap OpenFds = {}
  BY DEF NetInv, NetTypes, OpenFds, FreeFds, Fds

-----------------------------------------------------------------------------
(* What the steps of a thread make of its batch. *)
LEMMA TodoIdle ==
  ASSUME MtTypes, NEW t \in Threads, Idle(t), batch[t] # <<>>
  PROVE  Head(batch[t]) \in Todo(t)
<1>1. batch[t] \in Seq(Watched)
  BY DEF MtTypes
<1> QED
  BY <1>1, TailIndex DEF Todo

LEMMA TodoBusy ==
  ASSUME MtTypes, BatchInv, NEW t \in Threads, ~Idle(t)
  PROVE  batch[t] # <<>> /\ Head(batch[t]) \in Watched /\ Head(batch[t]) \notin Todo(t)
<1>1. batch[t] \in Seq(Watched) /\ Distinct(batch[t]) /\ batch[t] # <<>>
  BY DEF MtTypes, BatchInv, Distinct, Idle
<1>2. PICK b \in Seq(Watched) : b = batch[t]
  BY <1>1
<1>3. /\ 1 \in DOMAIN b /\ Head(b) = b[1] /\ Head(b) \in Watched /\ DOMAIN b \subseteq Nat
  BY <1>1, <1>2, TailIndex
<1>4. \A k \in DOMAIN b : k > 1 => b[k] # b[1]
  BY <1>1, <1>2, <1>3 DEF Distinct
<1> QED
  BY <1>1, <1>2, <1>3, <1>4 DEF Todo

(* The first event is done with. *)
LEMMA TodoNext ==
  ASSUME MtTypes, BatchInv, NEW t \in Threads, batch[t] # <<>>, NextEvent(t), Idle(t)'
  PROVE  /\ Todo(t)' = Todo(t) \ {Head(batch[t])}
         /\ batch' \in [Threads -> Seq(Watched)] /\ \A u \in Threads : Distinct(batch'[u])
         /\ \A u \in Threads : u # t => batch'[u] = batch[u]
<1>1. PICK b \in Seq(Watched) : b = batch[t] /\ Distinct(b) /\ b # <<>>
  BY DEF MtTypes, BatchInv, Distinct
<1>2. /\ 1 \in DOMAIN b /\ Head(b) = b[1] /\ Tail(b) \in Seq(Watched)
      /\ DOMAIN b \subseteq Nat \ {0} /\ DOMAIN Tail(b) \subseteq Nat \ {0}
      /\ \A k \in DOMAIN Tail(b) : k + 1 \in DOMAIN b /\ Tail(b)[k] = b[k + 1]
      /\ \A k \in DOMAIN b : k > 1 => k - 1 \in DOMAIN Tail(b) /\ Tail(b)[k - 1] = b[k]
  BY <1>1, TailIndex
<1>3. PICK r \in Seq(Watched) : r = Tail(b)
  BY <1>2
<1>4. /\ batch \in [Threads -> Seq(Watched)] /\ batch' = [batch EXCEPT ![t] = r]
      /\ \A u \in Threads : Distinct(batch[u])
  BY <1>1, <1>3 DEF NextEvent, MtTypes, BatchInv, Distinct
<1>5. batch' \in [Threads -> Seq(Watched)] /\ batch'[t] = r /\ \A u \in Threads : u # t => batch'[u] = batch[u]
  BY <1>4
<1>6. Distinct(r)
  <2>1. ASSUME NEW j \in DOMAIN r, NEW k \in DOMAIN r, r[j] = r[k] PROVE j = k
    <3>1. j + 1 = k + 1 /\ j \in Nat /\ k \in Nat
      BY <1>1, <1>2, <1>3, <2>1 DEF Distinct
    <3> QED
      BY <3>1
  <2> QED
    BY <2>1 DEF Distinct
<1>7. \A u \in Threads : Distinct(batch'[u])
  BY <1>4, <1>5, <1>6
<1>8. Todo(t)' = {r[k] : k \in DOMAIN r}
  BY <1>5 DEF Todo
<1>9. ASSUME NEW x \in Todo(t)' PROVE x \in Todo(t) \ {Head(b)}
  <2>1. PICK k \in DOMAIN r : x = r[k]
    BY <1>8
  <2>2. k + 1 \in DOMAIN b /\ x = b[k + 1] /\ k + 1 > 1 /\ k + 1 # 1
    BY <1>2, <1>3, <2>1
  <2>3. x # b[1]
    BY <1>1, <1>2, <2>2 DEF Distinct
  <2> QED
    BY <1>1, <1>2, <2>2, <2>3 DEF Todo
<1>10. ASSUME NEW x \in Todo(t), x # Head(b) PROVE x \in Todo(t)'
  <2>1. PICK k \in DOMAIN b : x = b[k]
    BY <1>1 DEF Todo
  <2>2. k \in Nat /\ k # 0 /\ k # 1
    BY <1>2, <1>10, <2>1
  <2>3. k > 1
    BY <2>2
  <2> QED
    BY <1>2, <1>3, <1>8, <2>1, <2>3
<1> QED
  BY <1>1, <1>5, <1>7, <1>9, <1>10

(* The first event has been read, and stays at the head of the batch. *)
LEMMA TodoRead ==
  ASSUME MtTypes, BatchInv, NEW t \in Threads, batch[t] # <<>>, Idle(t), ~Idle(t)', batch'[t] = batch[t]
  PROVE  Todo(t)' = Todo(t) \ {Head(batch[t])}
<1>1. PICK b \in Seq(Watched) : b = batch[t] /\ Distinct(b) /\ b # <<>>
  BY DEF MtTypes, BatchInv, Distinct
<1>2. /\ 1 \in DOMAIN b /\ Head(b) = b[1] /\ DOMAIN b \subseteq Nat \ {0}
  BY <1>1, TailIndex
<1>3. Todo(t) = {b[k] : k \in DOMAIN b} /\ Todo(t)' = {b[k] : k \in {j \in DOMAIN b : j > 1}}
  BY <1>1 DEF Todo
<1>4. \A k \in DOMAIN b : k > 1 <=> k # 1
  BY <1>2
<1>5. \A k \in DOMAIN b : k # 1 <=> b[k] # b[1]
  BY <1>1, <1>2 DEF Distinct
<1> QED
  BY <1>1, <1>2, <1>3, <1>4, <1>5

LEMMA TodoStill ==
  ASSUME NEW t, batch'[t] = batch[t], buf'[t] = buf[t], del'[t] = del[t]
  PROVE  Todo(t)' = Todo(t) /\ (Idle(t)' <=> Idle(t))
  BY DEF Todo, Idle

(* Threads that a descriptor belongs to, and clients. *)
LEMMA PeerOf ==
  ASSUME NetInv, MtTypes, RegInv, NEW t \in Threads, NEW f \in reg[t], f # ListenFd
  PROVE  /\ f \in OpenFds /\ f \in Fds /\ Owner(f) \in Clients /\ fd[Owner(f)] = f
         /\ client[Owner(f)] # "new"
<1>1. f \in OpenFds
  BY DEF RegInv
<1>2. PICK c \in Clients : fd[c] = f /\ fd[c] # NoFd
  BY <1>1 DEF OpenFds
<1>3. Owner(f) = c
  BY <1>2, OwnerOf
<1> QED
  BY <1>1, <1>2, <1>3, OpenFdsWatched DEF NetInv, Connections

-----------------------------------------------------------------------------
(* The steps keep the invariant. *)
LEMMA CountTypes ==
  /\ IsFiniteSet(Accepting) /\ IsFiniteSet(Alerted)
  /\ Cardinality(Accepting) \in Nat /\ Cardinality(Alerted) \in Nat
  /\ IsFiniteSet(Accepting') /\ IsFiniteSet(Alerted')
  /\ Cardinality(Accepting') \in Nat /\ Cardinality(Alerted') \in Nat
<1>1. /\ Accepting \subseteq Threads /\ Alerted \subseteq Threads
      /\ Accepting' \subseteq Threads /\ Alerted' \subseteq Threads
  BY DEF Accepting, Alerted
<1>2. /\ IsFiniteSet(Accepting) /\ IsFiniteSet(Alerted)
      /\ IsFiniteSet(Accepting') /\ IsFiniteSet(Alerted')
  BY <1>1, WatchedBounds, FS_Subset
<1> QED
  BY <1>2, FS_CardinalityType

LEMMA NetEffect ==
  ASSUME NEW c \in Clients, NetStep(c)
  PROVE  /\ reset' = reset \/ (reset' = reset \cup {c} /\ fd[c] # NoFd)
         /\ backlog' = backlog \/ (backlog' = Append(backlog, c) /\ up)
  BY DEF NetStep, Connect, SendLine, ReadLine, Quit, ServerTerminated, Kill, Leave, Arrive, ResetArrives

(* A client or the network: the instance of the connection is told. *)
LEMMA StepNet ==
  ASSUME IInv, NEW c \in Clients, NetworkStep(c)
  PROVE  IInv'
<1>1. /\ NetInv /\ MtTypes /\ RegInv /\ BatchInv /\ EdgeInv /\ CountInv /\ NetTypes
  BY DEF IInv, NetInv
<1>2. /\ NetInv' /\ fd' = fd /\ up' = up /\ \A d \in Clients : Readable(d) => Readable(d)'
      /\ NetTypes'
  BY <1>1, NetStepKeeps DEF NetworkStep, NetInv
<1>3. /\ reset' = reset \/ (reset' = reset \cup {c} /\ fd[c] # NoFd)
      /\ backlog' = backlog \/ (backlog' = Append(backlog, c) /\ up)
  BY NetEffect DEF NetworkStep
<1>4. /\ reg' = reg /\ batch' = batch /\ buf' = buf /\ del' = del /\ cut' = cut
      /\ crowded' = (crowded \/ Len(backlog') > Cardinality(Threads))
  BY DEF NetworkStep
<1> DEFINE new == Len(backlog') > Len(backlog)
<1>6. PICK hit : hit = {fd[x] : x \in {d \in Clients : inbox'[d] # inbox[d] \/ d \in reset' \ reset}} \ {NoFd}
  OBVIOUS
<1>7. rdlist' = [t \in Threads |-> rdlist[t] \cup (hit \cap reg[t]) \cup (IF new THEN {ListenFd} ELSE {})]
  BY <1>6 DEF NetworkStep, Edge
<1>8. \A t \in Threads : rdlist'[t] = rdlist[t] \cup (hit \cap reg[t]) \cup (IF new THEN {ListenFd} ELSE {})
  BY <1>7
<1>9. /\ Len(backlog) \in Nat /\ new <=> backlog' # backlog
      /\ new => up /\ Len(backlog') = Len(backlog) + 1
  <2>1. Len(backlog) \in Nat /\ Len(Append(backlog, c)) = Len(backlog) + 1
    BY <1>1, LenProperties, AppendProperties DEF NetTypes
  <2>2. CASE backlog' = backlog
    BY <2>1, <2>2
  <2>3. CASE backlog' = Append(backlog, c) /\ up
    <3>1. Len(backlog') = Len(backlog) + 1
      BY <2>1, <2>3
    <3> QED
      BY <2>1, <2>3, <3>1
  <2> QED
    BY <1>3, <2>2, <2>3
<1> HIDE DEF new
<1>10. \A t \in Threads : Todo(t)' = Todo(t)
  BY <1>4, TodoStill
<1>11. MtTypes'
  <2>1. \A t \in Threads : rdlist[t] \subseteq Watched /\ reg[t] \subseteq Watched
    BY <1>1 DEF MtTypes
  <2>2. rdlist' \in [Threads -> SUBSET Watched]
    BY <1>7, <2>1, WatchedBounds
  <2> QED
    BY <1>1, <1>4, <2>2 DEF MtTypes
<1>12. RegInv'
  <2>1. OpenFds' = OpenFds
    BY <1>2 DEF OpenFds
  <2> QED
    BY <1>1, <1>2, <1>4, <1>8, <1>9, <2>1 DEF RegInv
<1>13. BatchInv'
  BY <1>1, <1>4, <1>10 DEF BatchInv
<1>14. EdgeInv'
  <2>1. \A d \in reset' : fd'[d] # NoFd
    BY <1>1, <1>2, <1>3 DEF EdgeInv
  <2>2. ASSUME NEW d \in Clients, Readable(d)', d \notin cut'
        PROVE  \E t \in Threads : fd'[d] \in reg'[t] /\ fd'[d] \in rdlist'[t] \cup Todo(t)'
    <3>1. fd[d] # NoFd
      BY <1>2, <2>2 DEF Readable
    <3>2. CASE Readable(d)
      BY <1>1, <1>2, <1>4, <1>8, <1>10, <2>2, <3>2 DEF EdgeInv
    <3>3. CASE ~Readable(d)
      <4>1. inbox'[d] # inbox[d] \/ d \in reset' \ reset
        BY <1>2, <2>2, <3>3 DEF Readable
      <4>2. fd[d] \in hit
        BY <1>6, <3>1, <4>1
      <4>3. PICK t \in Threads : fd[d] \in reg[t]
        BY <1>1, <3>1 DEF RegInv, OpenFds
      <4> QED
        BY <1>2, <1>4, <1>8, <4>2, <4>3
    <3> QED
      BY <3>2, <3>3
  <2>3. \A t \in Threads : \A d \in Clients : fd'[d] \in Todo(t)' => Readable(d)'
    BY <1>1, <1>2, <1>10 DEF EdgeInv
  <2> QED
    BY <2>1, <2>2, <2>3 DEF EdgeInv
<1>15. CountInv'
  <2>1. Accepting' = Accepting
    BY <1>10 DEF Accepting
  <2>2. CASE ~new
    <3>1. Alerted \subseteq Alerted'
      BY <1>8 DEF Alerted
    <3>2. Cardinality(Alerted) <= Cardinality(Alerted')
      BY <3>1, CountTypes, FS_Subset
    <3>3. backlog' = backlog /\ (~crowded' => ~crowded)
      BY <1>4, <1>9, <2>2
    <3> QED
      BY <1>1, <1>9, <2>1, <3>2, <3>3, CountTypes DEF CountInv
  <2>3. CASE new
    <3>1. Alerted' = Threads
      BY <1>8, <2>3 DEF Alerted
    <3>2. Cardinality(Threads) \in Nat /\ Len(backlog') \in Nat
      BY <1>9, <2>3, WatchedBounds, FS_CardinalityType
    <3>3. ~crowded' => Len(backlog') <= Cardinality(Threads)
      <4>1. ~crowded' => ~(Len(backlog') > Cardinality(Threads))
        BY <1>4
      <4> QED
        BY <3>2, <4>1
    <3> QED
      BY <3>1, <3>2, <3>3, CountTypes DEF CountInv
  <2> QED
    BY <2>2, <2>3
<1> QED
  BY <1>2, <1>11, <1>12, <1>13, <1>14, <1>15 DEF IInv

(* A thread is done with an event it has read, or with an accept that      *)
(* failed.                                                                 *)
LEMMA StepSkips ==
  ASSUME IInv, NetInv', NEW t \in Threads, batch[t] # <<>>, NextEvent(t),
         buf' \in [Threads -> Seq(Segments)], del' \in [Threads -> {NoFd} \cup Fds],
         buf'[t] = <<>>, del'[t] = NoFd,
         \A u \in Threads : u # t => buf'[u] = buf[u] /\ del'[u] = del[u],
         UNCHANGED <<fd, inbox, reset, backlog, up, reg, rdlist, cut>>,
         crowded' \in BOOLEAN, crowded => crowded',
         ~Idle(t) \/ (Head(batch[t]) = ListenFd /\ crowded')
  PROVE  IInv'
<1>1. /\ NetInv /\ MtTypes /\ RegInv /\ BatchInv /\ EdgeInv /\ CountInv
  BY DEF IInv
<1>2. /\ Todo(t)' = Todo(t) \ {Head(batch[t])}
      /\ batch' \in [Threads -> Seq(Watched)] /\ \A u \in Threads : Distinct(batch'[u])
      /\ \A u \in Threads : u # t => batch'[u] = batch[u]
  <2>1. Idle(t)'
    BY DEF Idle
  <2> QED
    BY <1>1, <2>1, TodoNext
<1>3. \A u \in Threads : u # t => Todo(u)' = Todo(u)
  BY <1>2, TodoStill
<1>4. ~Idle(t) => Todo(t)' = Todo(t)
  BY <1>1, <1>2, TodoBusy
<1>5. \A u \in Threads : Todo(u)' \subseteq Todo(u) /\ Todo(u) \subseteq Todo(u)' \cup {ListenFd}
  BY <1>2, <1>3, <1>4
<1>6. MtTypes'
  BY <1>1, <1>2 DEF MtTypes
<1>7. RegInv'
  BY <1>1 DEF RegInv, OpenFds
<1>8. BatchInv'
  <2>1. \A u \in Threads : \A j, k \in DOMAIN batch'[u] : batch'[u][j] = batch'[u][k] => j = k
    BY <1>2 DEF Distinct
  <2>2. \A u \in Threads : Todo(u)' \subseteq reg'[u]
    BY <1>1, <1>5 DEF BatchInv
  <2>3. ASSUME NEW u \in Threads
        PROVE  /\ buf'[u] # <<>> => /\ batch'[u] # <<>> /\ del'[u] = NoFd
                                    /\ Head(batch'[u]) \in reg'[u] /\ Head(batch'[u]) # ListenFd
               /\ del'[u] # NoFd => batch'[u] # <<>> /\ Head(batch'[u]) = del'[u] /\ del'[u] \notin reg'[u]
    <3>1. CASE u = t
      BY <3>1
    <3>2. CASE u # t
      BY <1>1, <1>2, <3>2 DEF BatchInv
    <3> QED
      BY <3>1, <3>2
  <2> QED
    BY <2>1, <2>2, <2>3 DEF BatchInv
<1>9. EdgeInv'
  <2>1. \A d \in Clients : Readable(d)' = Readable(d)
    BY DEF Readable
  <2>2. \A d \in Clients : fd[d] # ListenFd
    BY <1>1, WatchedBounds DEF NetInv, NetTypes, ListenFd, NoFd
  <2>3. \A d \in reset' : fd'[d] # NoFd
    BY <1>1 DEF EdgeInv
  <2>4. \A u \in Threads : \A d \in Clients : fd'[d] \in Todo(u)' => Readable(d)'
    BY <1>1, <1>5, <2>1 DEF EdgeInv
  <2>5. ASSUME NEW d \in Clients, Readable(d)', d \notin cut'
        PROVE  \E u \in Threads : fd'[d] \in reg'[u] /\ fd'[d] \in rdlist'[u] \cup Todo(u)'
    <3>1. PICK u \in Threads : fd[d] \in reg[u] /\ fd[d] \in rdlist[u] \cup Todo(u)
      BY <1>1, <2>1, <2>5 DEF EdgeInv
    <3> QED
      BY <1>5, <2>2, <3>1
  <2> QED
    BY <2>3, <2>4, <2>5 DEF EdgeInv
<1>10. CountInv'
  <2>1. CASE crowded'
    BY <2>1 DEF CountInv
  <2>2. CASE ~crowded'
    <3>1. \A u \in Threads : Todo(u)' = Todo(u)
      BY <1>3, <1>4, <2>2
    <3>2. Accepting' = Accepting /\ Alerted' = Alerted
      BY <3>1 DEF Accepting, Alerted
    <3> QED
      BY <1>1, <2>2, <3>2 DEF CountInv
  <2> QED
    BY <2>1, <2>2
<1> QED
  BY <1>6, <1>7, <1>8, <1>9, <1>10 DEF IInv

(* epoll_wait: the batch was empty, and everything ready is in the new one. *)
LEMMA StepWait ==
  ASSUME IInv, NEW t \in Threads, EpollWait(t)
  PROVE  IInv'
<1>1. /\ NetInv /\ MtTypes /\ RegInv /\ BatchInv /\ EdgeInv /\ CountInv /\ NetTypes
  BY DEF IInv, NetInv
<1>2. PICK S : S = {f \in rdlist[t] : Pending(f)}
  OBVIOUS
<1>3. PICK r \in SetToSeqs(S) : batch' = [batch EXCEPT ![t] = r]
  BY <1>2 DEF EpollWait
<1>4. /\ batch[t] = <<>> /\ rdlist' = [rdlist EXCEPT ![t] = {}]
      /\ UNCHANGED <<client, typed, wire, got, inbox, outbox, reset, backlog, fd, up, reg, buf, del, cut, crowded>>
  BY DEF EpollWait, netVars, clientVars, socketVars
<1>5. S \subseteq rdlist[t] /\ S \subseteq Watched /\ S \subseteq reg[t] /\ IsFiniteSet(S)
  <2>1. S \subseteq rdlist[t] /\ S \subseteq Watched /\ S \subseteq reg[t] /\ S \subseteq 0..FdLimit
    BY <1>1, <1>2, WatchedBounds DEF MtTypes, RegInv
  <2>2. IsFiniteSet(0..FdLimit)
    BY WatchedBounds, FS_Interval
  <2> QED
    BY <2>1, <2>2, FS_Subset
<1>6. r \in Seq(S) /\ {r[k] : k \in DOMAIN r} = S /\ Distinct(r)
  BY <1>5, Enumeration DEF Distinct
<1>7. r \in Seq(Watched)
  <2>1. Len(r) \in Nat /\ r \in [1..Len(r) -> S]
    BY <1>6, LenProperties
  <2>2. r \in [1..Len(r) -> Watched]
    BY <1>5, <2>1
  <2> QED
    BY <2>1, <2>2
<1>8. /\ batch' \in [Threads -> Seq(Watched)] /\ batch'[t] = r
      /\ \A u \in Threads : u # t => batch'[u] = batch[u]
      /\ rdlist'[t] = {} /\ \A u \in Threads : u # t => rdlist'[u] = rdlist[u]
      /\ rdlist' \in [Threads -> SUBSET Watched]
  BY <1>1, <1>3, <1>4, <1>7 DEF MtTypes
<1>9. Idle(t) /\ Idle(t)'
  BY <1>1, <1>4 DEF BatchInv, Idle
<1>10. Todo(t) = {} /\ Todo(t)' = S /\ \A u \in Threads : u # t => Todo(u)' = Todo(u)
  <2>1. Todo(t) = {}
    BY <1>4 DEF Todo
  <2>2. Todo(t)' = {r[k] : k \in DOMAIN r}
    BY <1>8, <1>9 DEF Todo
  <2>3. \A u \in Threads : u # t => Todo(u)' = Todo(u)
    BY <1>4, <1>8, TodoStill
  <2> QED
    BY <1>6, <2>1, <2>2, <2>3
<1>11. NetInv'
  BY <1>1, <1>4 DEF NetInv, NetTypes, Connections
<1>12. MtTypes'
  BY <1>1, <1>4, <1>8 DEF MtTypes
<1>13. RegInv'
  <2>1. \A u \in Threads : rdlist'[u] \subseteq reg[u]
    BY <1>1, <1>8 DEF RegInv
  <2> QED
    BY <1>1, <1>4, <2>1 DEF RegInv, OpenFds
<1>14. BatchInv'
  <2>1. \A u \in Threads : \A j, k \in DOMAIN batch'[u] : batch'[u][j] = batch'[u][k] => j = k
    <3>1. \A j, k \in DOMAIN batch'[t] : batch'[t][j] = batch'[t][k] => j = k
      BY <1>6, <1>8 DEF Distinct
    <3> QED
      BY <1>1, <1>8, <3>1 DEF BatchInv
  <2>2. \A u \in Threads : Todo(u)' \subseteq reg'[u]
    BY <1>1, <1>4, <1>5, <1>10 DEF BatchInv
  <2>3. ASSUME NEW u \in Threads
        PROVE  /\ buf'[u] # <<>> => /\ batch'[u] # <<>> /\ del'[u] = NoFd
                                    /\ Head(batch'[u]) \in reg'[u] /\ Head(batch'[u]) # ListenFd
               /\ del'[u] # NoFd => batch'[u] # <<>> /\ Head(batch'[u]) = del'[u] /\ del'[u] \notin reg'[u]
    <3>1. CASE u = t
      BY <1>9, <3>1 DEF Idle
    <3>2. CASE u # t
      BY <1>1, <1>4, <1>8, <3>2 DEF BatchInv
    <3> QED
      BY <3>1, <3>2
  <2> QED
    BY <2>1, <2>2, <2>3 DEF BatchInv
<1>15. ASSUME NEW d \in Clients, fd[d] # NoFd, fd[d] \in rdlist[t]
       PROVE  fd[d] \in S <=> Readable(d)
  <2>1. Owner(fd[d]) = d /\ fd[d] # ListenFd
    BY <1>1, <1>15, OwnerOf, WatchedBounds DEF NetTypes, ListenFd, NoFd
  <2> QED
    BY <1>2, <1>15, <2>1 DEF Pending
<1>16. EdgeInv'
  <2>1. \A d \in Clients : Readable(d)' = Readable(d)
    BY <1>4 DEF Readable
  <2>2. \A d \in reset' : fd'[d] # NoFd
    BY <1>1, <1>4 DEF EdgeInv
  <2>3. ASSUME NEW u \in Threads, NEW d \in Clients, fd'[d] \in Todo(u)' PROVE Readable(d)'
    <3>1. CASE u = t
      <4>1. fd[d] \in S /\ fd[d] # NoFd /\ fd[d] \in rdlist[t]
        BY <1>4, <1>5, <1>10, <2>3, <3>1, WatchedBounds
      <4> QED
        BY <1>15, <2>1, <4>1
    <3>2. CASE u # t
      BY <1>1, <1>4, <1>10, <2>1, <2>3, <3>2 DEF EdgeInv
    <3> QED
      BY <3>1, <3>2
  <2>4. ASSUME NEW d \in Clients, Readable(d)', d \notin cut'
        PROVE  \E u \in Threads : fd'[d] \in reg'[u] /\ fd'[d] \in rdlist'[u] \cup Todo(u)'
    <3>1. PICK u \in Threads : fd[d] \in reg[u] /\ fd[d] \in rdlist[u] \cup Todo(u)
      BY <1>1, <1>4, <2>1, <2>4 DEF EdgeInv
    <3>2. CASE u = t
      <4>1. fd[d] \in S
        BY <1>10, <1>15, <2>1, <2>4, <3>1, <3>2 DEF Readable
      <4> QED
        BY <1>4, <1>10, <3>1, <3>2, <4>1
    <3>3. CASE u # t
      BY <1>4, <1>8, <1>10, <3>1, <3>3
    <3> QED
      BY <3>2, <3>3
  <2> QED
    BY <2>2, <2>3, <2>4 DEF EdgeInv
<1>17. CountInv'
  <2>1. CASE backlog = <<>>
    <3>1. Len(backlog') = 0
      BY <1>4, <2>1
    <3> QED
      BY <3>1, CountTypes DEF CountInv
  <2>2. CASE backlog # <<>> /\ ListenFd \in rdlist[t]
    <3>1. ListenFd \in S
      BY <1>2, <2>2 DEF Pending
    <3>2. Accepting' = Accepting \cup {t} /\ t \notin Accepting
      BY <1>10, <3>1 DEF Accepting
    <3>3. Alerted' = Alerted \ {t} /\ t \in Alerted
      BY <1>8, <2>2 DEF Alerted
    <3>4. Cardinality(Accepting') = Cardinality(Accepting) + 1 /\ Cardinality(Alerted') = Cardinality(Alerted) - 1
      BY <3>2, <3>3, CountTypes, FS_AddElement, FS_RemoveElement
    <3>5. Cardinality(Accepting') + Cardinality(Alerted') = Cardinality(Accepting) + Cardinality(Alerted)
      BY <3>4, CountTypes
    <3> QED
      BY <1>1, <1>4, <3>5 DEF CountInv
  <2>3. CASE ListenFd \notin rdlist[t]
    <3>1. Accepting' = Accepting /\ Alerted' = Alerted
      BY <1>5, <1>8, <1>10, <2>3 DEF Accepting, Alerted
    <3> QED
      BY <1>1, <1>4, <3>1 DEF CountInv
  <2> QED
    BY <2>1, <2>2, <2>3
<1> QED
  BY <1>11, <1>12, <1>13, <1>14, <1>16, <1>17 DEF IInv

(* accept: a descriptor that is free is in no instance and in no batch,    *)
(* though it may still be in some thread's del.                            *)
LEMMA StepAccept ==
  ASSUME IInv, NEW t \in Threads, Accept(t)
  PROVE  IInv'
<1>1. /\ NetInv /\ MtTypes /\ RegInv /\ BatchInv /\ EdgeInv /\ CountInv /\ NetTypes
  BY DEF IInv, NetInv
<1>2. Min(FreeFds) \in FreeFds
  <2>1. FreeFds \subseteq Nat
    BY <1>1, OpenFdsWatched, WatchedBounds
  <2> QED
    BY <2>1, LeastElement DEF Accept
<1>3. PICK f \in FreeFds : f = Min(FreeFds)
  BY <1>2
<1>4. /\ Accepted(f) /\ backlog # <<>> /\ batch[t] # <<>> /\ Idle(t) /\ Head(batch[t]) = ListenFd
      /\ reg' = [reg EXCEPT ![t] = reg[t] \cup {f}] /\ NextEvent(t)
      /\ rdlist' = IF inbox[Head(backlog)] = <<>> THEN rdlist ELSE [rdlist EXCEPT ![t] = rdlist[t] \cup {f}]
      /\ UNCHANGED <<buf, del, cut, crowded>>
  BY <1>3 DEF Accept, Listening, Working, Idle
<1>5. f \in Fds /\ f \in Watched /\ f \notin OpenFds /\ f # NoFd /\ f # ListenFd
  BY <1>1, OpenFdsWatched, WatchedBounds
<1>6. /\ NetInv' /\ up' = up /\ OpenFds' = OpenFds \cup {f} /\ inbox' = inbox /\ reset' = reset
  BY <1>1, <1>4, AcceptKeeps
<1>7. PICK c \in Clients : fd[c] = NoFd /\ fd' = [fd EXCEPT ![c] = f] /\ c = Head(backlog)
  BY <1>1, <1>4, AcceptKeeps
<1>8. fd'[c] = f /\ \A d \in Clients : d # c => fd'[d] = fd[d]
  BY <1>1, <1>7 DEF NetTypes
<1>9. /\ Todo(t)' = Todo(t) \ {ListenFd}
      /\ batch' \in [Threads -> Seq(Watched)] /\ \A u \in Threads : Distinct(batch'[u])
      /\ \A u \in Threads : u # t => batch'[u] = batch[u]
  <2>1. Idle(t)'
    BY <1>4 DEF Idle
  <2> QED
    BY <1>1, <1>4, <2>1, TodoNext
<1>10. /\ \A u \in Threads : u # t => Todo(u)' = Todo(u)
       /\ \A u \in Threads : Todo(u)' \subseteq Todo(u) /\ Todo(u) \subseteq Todo(u)' \cup {ListenFd}
  <2>1. \A u \in Threads : u # t => Todo(u)' = Todo(u)
    BY <1>4, <1>9, TodoStill
  <2> QED
    BY <1>9, <2>1
<1>11. \A u \in Threads : f \notin reg[u] /\ f \notin Todo(u) /\ f \notin rdlist[u]
  BY <1>1, <1>5 DEF RegInv, BatchInv
<1>12. /\ reg' \in [Threads -> SUBSET Watched]
       /\ \A u \in Threads : reg'[u] = IF u = t THEN reg[u] \cup {f} ELSE reg[u]
  BY <1>1, <1>4, <1>5 DEF MtTypes
<1>13. /\ rdlist' \in [Threads -> SUBSET Watched]
       /\ \A u \in Threads : rdlist[u] \subseteq rdlist'[u] /\ rdlist'[u] \subseteq reg'[u]
       /\ \A u \in Threads : ListenFd \in rdlist'[u] <=> ListenFd \in rdlist[u]
       /\ inbox[c] # <<>> => f \in rdlist'[t]
  <2>1. CASE inbox[c] = <<>>
    <3>1. rdlist' = rdlist
      BY <1>4, <1>7, <2>1
    <3>2. \A u \in Threads : rdlist'[u] \subseteq reg'[u]
      BY <1>1, <1>12, <3>1 DEF RegInv
    <3>3. rdlist' \in [Threads -> SUBSET Watched]
      BY <1>1, <3>1 DEF MtTypes
    <3> QED
      BY <2>1, <3>1, <3>2, <3>3
  <2>2. CASE inbox[c] # <<>>
    <3>1. rdlist' = [rdlist EXCEPT ![t] = rdlist[t] \cup {f}]
      BY <1>4, <1>7, <2>2
    <3>2. \A u \in Threads : rdlist'[u] = IF u = t THEN rdlist[u] \cup {f} ELSE rdlist[u]
      BY <1>1, <3>1 DEF MtTypes
    <3>3. rdlist' \in [Threads -> SUBSET Watched]
      BY <1>1, <1>5, <3>1 DEF MtTypes
    <3>4. \A u \in Threads : rdlist[u] \subseteq reg[u]
      BY <1>1 DEF RegInv
    <3>5. \A u \in Threads : rdlist[u] \subseteq rdlist'[u] /\ rdlist'[u] \subseteq reg'[u]
      BY <1>12, <3>2, <3>4
    <3>6. \A u \in Threads : ListenFd \in rdlist'[u] <=> ListenFd \in rdlist[u]
      BY <1>5, <3>2
    <3>7. f \in rdlist'[t]
      BY <3>2
    <3> QED
      BY <3>3, <3>5, <3>6, <3>7
  <2> QED
    BY <2>1, <2>2
<1>14. MtTypes'
  BY <1>1, <1>4, <1>9, <1>12, <1>13 DEF MtTypes
<1>15. RegInv'
  <2>1. \A u, w \in Threads : \A g \in reg'[u] : g \in reg'[w] /\ g # ListenFd => u = w
    BY <1>1, <1>11, <1>12 DEF RegInv
  <2>2. \A g \in OpenFds' : \E u \in Threads : g \in reg'[u]
    BY <1>1, <1>6, <1>12 DEF RegInv
  <2>3. \A u \in Threads : reg'[u] \subseteq OpenFds' \cup {ListenFd}
    BY <1>1, <1>6, <1>12 DEF RegInv
  <2>4. up' => \A u \in Threads : ListenFd \in reg'[u]
    BY <1>1, <1>6, <1>12 DEF RegInv
  <2> QED
    BY <1>13, <2>1, <2>2, <2>3, <2>4 DEF RegInv
<1>16. BatchInv'
  <2>1. \A u \in Threads : \A j, k \in DOMAIN batch'[u] : batch'[u][j] = batch'[u][k] => j = k
    BY <1>9 DEF Distinct
  <2>2. \A u \in Threads : Todo(u)' \subseteq reg'[u]
    BY <1>1, <1>10, <1>12 DEF BatchInv
  <2>3. ASSUME NEW u \in Threads
        PROVE  /\ buf'[u] # <<>> => /\ batch'[u] # <<>> /\ del'[u] = NoFd
                                    /\ Head(batch'[u]) \in reg'[u] /\ Head(batch'[u]) # ListenFd
               /\ del'[u] # NoFd => batch'[u] # <<>> /\ Head(batch'[u]) = del'[u] /\ del'[u] \notin reg'[u]
    <3>1. CASE u = t
      BY <1>4, <3>1 DEF Idle
    <3>2. CASE u # t
      BY <1>1, <1>4, <1>9, <1>12, <3>2 DEF BatchInv
    <3> QED
      BY <3>1, <3>2
  <2> QED
    BY <2>1, <2>2, <2>3 DEF BatchInv
<1>17. EdgeInv'
  <2>1. \A d \in reset' : fd'[d] # NoFd
    BY <1>1, <1>5, <1>6, <1>8 DEF EdgeInv, NetTypes
  <2>2. \A d \in Clients : d # c => Readable(d)' = Readable(d)
    BY <1>6, <1>8 DEF Readable
  <2>3. ASSUME NEW u \in Threads, NEW d \in Clients, fd'[d] \in Todo(u)' PROVE Readable(d)'
    <3>1. d # c
      BY <1>8, <1>10, <1>11, <2>3
    <3> QED
      BY <1>1, <1>8, <1>10, <2>2, <2>3, <3>1 DEF EdgeInv
  <2>4. ASSUME NEW d \in Clients, Readable(d)', d \notin cut'
        PROVE  \E u \in Threads : fd'[d] \in reg'[u] /\ fd'[d] \in rdlist'[u] \cup Todo(u)'
    <3>1. CASE d = c
      <4>1. c \notin reset
        BY <1>1, <1>7 DEF EdgeInv
      <4>2. inbox[c] # <<>>
        BY <1>6, <2>4, <3>1, <4>1 DEF Readable
      <4> QED
        BY <1>8, <1>12, <1>13, <3>1, <4>2
    <3>2. CASE d # c
      <4>1. PICK u \in Threads : fd[d] \in reg[u] /\ fd[d] \in rdlist[u] \cup Todo(u)
        BY <1>1, <1>4, <2>2, <2>4, <3>2 DEF EdgeInv
      <4>2. fd[d] # ListenFd /\ fd'[d] = fd[d]
        BY <1>1, <1>8, <3>2, WatchedBounds DEF NetTypes, ListenFd, NoFd
      <4> QED
        BY <1>10, <1>12, <1>13, <4>1, <4>2
    <3> QED
      BY <3>1, <3>2
  <2> QED
    BY <2>1, <2>3, <2>4 DEF EdgeInv
<1>18. CountInv'
  <2>1. Accepting' = Accepting \ {t} /\ t \in Accepting
    <3>1. ListenFd \in Todo(t)
      BY <1>1, <1>4, TodoIdle
    <3> QED
      BY <1>9, <1>10, <3>1 DEF Accepting
  <2>2. Alerted' = Alerted
    BY <1>13 DEF Alerted
  <2>3. Cardinality(Accepting') = Cardinality(Accepting) - 1
    BY <2>1, CountTypes, FS_RemoveElement
  <2>4. Len(backlog') = Len(backlog) - 1 /\ Len(backlog) \in Nat
    <3>1. backlog' = Tail(backlog)
      BY <1>4 DEF Accepted
    <3> QED
      BY <1>1, <1>4, <3>1, HeadTailProperties, LenProperties DEF NetTypes
  <2>5. ~crowded' => Len(backlog) <= Cardinality(Accepting) + Cardinality(Alerted)
    BY <1>1, <1>4 DEF CountInv
  <2>6. ~crowded' => Len(backlog') <= Cardinality(Accepting') + Cardinality(Alerted')
    BY <2>2, <2>3, <2>4, <2>5, CountTypes
  <2> QED
    BY <2>6 DEF CountInv
<1> QED
  BY <1>6, <1>14, <1>15, <1>16, <1>17, <1>18 DEF IInv

(* A connection that epoll_ctl cannot register is closed: the instances    *)
(* and the batches of the other threads know nothing of it.                *)
LEMMA StepAcceptUnwatched ==
  ASSUME IInv, NEW t \in Threads, AcceptUnwatched(t)
  PROVE  IInv'
<1>1. /\ NetInv /\ MtTypes /\ RegInv /\ BatchInv /\ EdgeInv /\ CountInv /\ NetTypes
  BY DEF IInv, NetInv
<1>2. /\ Discarded /\ backlog # <<>> /\ batch[t] # <<>> /\ Idle(t) /\ Head(batch[t]) = ListenFd
      /\ NextEvent(t) /\ UNCHANGED <<reg, rdlist, buf, del, cut, crowded>>
  BY DEF AcceptUnwatched, Listening, Working, Idle
<1>3. /\ NetInv' /\ UNCHANGED <<fd, up, reset, OpenFds>>
      /\ Len(backlog) \in Nat /\ Len(backlog') = Len(backlog) - 1
  BY <1>1, <1>2, DiscardKeeps
<1>4. PICK c \in Clients : fd[c] = NoFd /\ inbox' = [inbox EXCEPT ![c] = <<>>]
  BY <1>1, <1>2, DiscardKeeps
<1>5. /\ Todo(t)' = Todo(t) \ {ListenFd}
      /\ batch' \in [Threads -> Seq(Watched)] /\ \A u \in Threads : Distinct(batch'[u])
      /\ \A u \in Threads : u # t => batch'[u] = batch[u]
  <2>1. Idle(t)'
    BY <1>2 DEF Idle
  <2> QED
    BY <1>1, <1>2, <2>1, TodoNext
<1>6. /\ \A u \in Threads : u # t => Todo(u)' = Todo(u)
      /\ \A u \in Threads : Todo(u)' \subseteq Todo(u) /\ Todo(u) \subseteq Todo(u)' \cup {ListenFd}
  <2>1. \A u \in Threads : u # t => Todo(u)' = Todo(u)
    BY <1>2, <1>5, TodoStill
  <2> QED
    BY <1>5, <2>1
<1>7. MtTypes'
  BY <1>1, <1>2, <1>5 DEF MtTypes
<1>8. RegInv'
  BY <1>1, <1>2, <1>3 DEF RegInv
<1>9. BatchInv'
  <2>1. \A u \in Threads : \A j, k \in DOMAIN batch'[u] : batch'[u][j] = batch'[u][k] => j = k
    BY <1>5 DEF Distinct
  <2>2. \A u \in Threads : Todo(u)' \subseteq reg'[u]
    BY <1>1, <1>2, <1>6 DEF BatchInv
  <2>3. ASSUME NEW u \in Threads
        PROVE  /\ buf'[u] # <<>> => /\ batch'[u] # <<>> /\ del'[u] = NoFd
                                    /\ Head(batch'[u]) \in reg'[u] /\ Head(batch'[u]) # ListenFd
               /\ del'[u] # NoFd => batch'[u] # <<>> /\ Head(batch'[u]) = del'[u] /\ del'[u] \notin reg'[u]
    <3>1. CASE u = t
      BY <1>2, <3>1 DEF Idle
    <3>2. CASE u # t
      BY <1>1, <1>2, <1>5, <3>2 DEF BatchInv
    <3> QED
      BY <3>1, <3>2
  <2> QED
    BY <2>1, <2>2, <2>3 DEF BatchInv
<1>10. EdgeInv'
  <2>1. \A d \in Clients : Readable(d)' = Readable(d)
    BY <1>1, <1>3, <1>4 DEF Readable, NetTypes
  <2>2. \A d \in Clients : fd[d] # ListenFd
    BY <1>1, WatchedBounds DEF NetTypes, ListenFd, NoFd
  <2>3. \A d \in reset' : fd'[d] # NoFd
    BY <1>1, <1>3 DEF EdgeInv
  <2>4. \A u \in Threads : \A d \in Clients : fd'[d] \in Todo(u)' => Readable(d)'
    BY <1>1, <1>3, <1>6, <2>1 DEF EdgeInv
  <2>5. ASSUME NEW d \in Clients, Readable(d)', d \notin cut'
        PROVE  \E u \in Threads : fd'[d] \in reg'[u] /\ fd'[d] \in rdlist'[u] \cup Todo(u)'
    <3>1. PICK u \in Threads : fd[d] \in reg[u] /\ fd[d] \in rdlist[u] \cup Todo(u)
      BY <1>1, <1>2, <2>1, <2>5 DEF EdgeInv
    <3> QED
      BY <1>2, <1>3, <1>6, <2>2, <3>1
  <2> QED
    BY <2>3, <2>4, <2>5 DEF EdgeInv
<1>11. CountInv'
  <2>1. Accepting' = Accepting \ {t} /\ t \in Accepting
    <3>1. ListenFd \in Todo(t)
      BY <1>1, <1>2, TodoIdle
    <3> QED
      BY <1>5, <1>6, <3>1 DEF Accepting
  <2>2. Alerted' = Alerted
    BY <1>2 DEF Alerted
  <2>3. Cardinality(Accepting') = Cardinality(Accepting) - 1
    BY <2>1, CountTypes, FS_RemoveElement
  <2>4. ~crowded' => Len(backlog) <= Cardinality(Accepting) + Cardinality(Alerted)
    BY <1>1, <1>2 DEF CountInv
  <2>5. ~crowded' => Len(backlog') <= Cardinality(Accepting') + Cardinality(Alerted')
    BY <1>3, <2>2, <2>3, <2>4, CountTypes
  <2> QED
    BY <2>5 DEF CountInv
<1> QED
  BY <1>3, <1>7, <1>8, <1>9, <1>10, <1>11 DEF IInv

LEMMA StepAcceptFails ==
  ASSUME IInv, NEW t \in Threads, AcceptFails(t)
  PROVE  IInv'
<1>1. /\ NetInv /\ MtTypes
  BY DEF IInv
<1>2. /\ batch[t] # <<>> /\ buf[t] = <<>> /\ del[t] = NoFd /\ Head(batch[t]) = ListenFd /\ NextEvent(t)
      /\ crowded' = TRUE
      /\ UNCHANGED <<client, typed, wire, got, inbox, outbox, reset, backlog, fd, up, reg, rdlist, buf, del, cut>>
  BY DEF AcceptFails, Listening, Working, netVars, clientVars, socketVars
<1>3. NetInv'
  BY <1>1, <1>2 DEF NetInv, NetTypes, Connections
<1> QED
  BY <1>1, <1>2, <1>3, StepSkips DEF MtTypes

(* write, or a write that fails: the event is done with. *)
LEMMA WriteSkips ==
  ASSUME IInv, NEW t \in Threads, buf[t] # <<>>, buf' = [buf EXCEPT ![t] = <<>>], NextEvent(t), NetInv',
         UNCHANGED <<fd, inbox, reset, backlog, up, reg, rdlist, del, cut, crowded>>
  PROVE  IInv'
<1>1. /\ NetInv /\ MtTypes /\ BatchInv
  BY DEF IInv
<1>2. batch[t] # <<>> /\ del[t] = NoFd /\ ~Idle(t)
  BY <1>1 DEF BatchInv, Idle
<1>3. /\ buf' \in [Threads -> Seq(Segments)] /\ buf'[t] = <<>>
      /\ \A u \in Threads : u # t => buf'[u] = buf[u]
  BY <1>1, EmptySeq DEF MtTypes
<1> QED
  BY <1>1, <1>2, <1>3, StepSkips DEF MtTypes

LEMMA StepWrite ==
  ASSUME IInv, NEW t \in Threads, Write(t)
  PROVE  IInv'
<1>1. NetInv' /\ UNCHANGED <<fd, up, backlog, inbox, reset>>
  BY WriteKeeps DEF IInv, Write
<1> QED
  BY <1>1, WriteSkips DEF Write

LEMMA StepWriteFails ==
  ASSUME IInv, NEW t \in Threads, WriteFails(t)
  PROVE  IInv'
<1>1. UNCHANGED <<client, typed, wire, got, inbox, outbox, reset, backlog, fd, up>>
  BY DEF WriteFails, netVars, clientVars, socketVars
<1>2. NetInv'
  BY <1>1 DEF IInv, NetInv, NetTypes, Connections
<1> QED
  BY <1>1, <1>2, WriteSkips DEF WriteFails

(* EPOLL_CTL_DEL: the number is in no set of this thread any more. *)
LEMMA StepDeregister ==
  ASSUME IInv, NEW t \in Threads, Deregister(t)
  PROVE  IInv'
<1>1. /\ NetInv /\ MtTypes /\ BatchInv
  BY DEF IInv
<1>2. /\ del[t] # NoFd /\ reg' = [reg EXCEPT ![t] = reg[t] \ {del[t]}]
      /\ del' = [del EXCEPT ![t] = NoFd] /\ NextEvent(t)
      /\ UNCHANGED <<client, typed, wire, got, inbox, outbox, reset, backlog, fd, up, rdlist, buf, cut, crowded>>
  BY DEF Deregister, netVars, clientVars, socketVars
<1>3. NetInv'
  BY <1>1, <1>2 DEF NetInv, NetTypes, Connections
<1>4. batch[t] # <<>> /\ ~Idle(t) /\ buf[t] = <<>>
  BY <1>1, <1>2 DEF BatchInv, Idle
<1>5. reg' = reg
  <2>1. reg[t] \ {del[t]} = reg[t]
    BY <1>1, <1>2 DEF BatchInv
  <2> QED
    BY <1>1, <1>2, <2>1 DEF MtTypes
<1>6. /\ del' \in [Threads -> {NoFd} \cup Fds] /\ del'[t] = NoFd
      /\ \A u \in Threads : u # t => del'[u] = del[u]
  BY <1>1, <1>2 DEF MtTypes
<1> QED
  BY <1>1, <1>2, <1>3, <1>4, <1>5, <1>6, StepSkips DEF MtTypes

-----------------------------------------------------------------------------
(* read: a part of what has arrived moves to the buffer. *)
LEMMA ReadSplits ==
  ASSUME NetTypes, NEW c \in Clients, NEW n \in 1..Len(Received(c))
  PROVE  /\ SubSeq(Received(c), 1, n) \in Seq(Segments) /\ SubSeq(Received(c), 1, n) # <<>>
         /\ SubSeq(inbox[c], n + 1, Len(inbox[c])) \in Seq(Segments)
         /\ inbox[c] = Cat(SubSeq(Received(c), 1, n), SubSeq(inbox[c], n + 1, Len(inbox[c])))
         /\ Ended(c) => SubSeq(inbox[c], n + 1, Len(inbox[c])) # <<>>
<1>1. PICK s \in Seq(Segments) : s = inbox[c]
  BY DEF NetTypes
<1>2. Len(s) \in Nat
  BY LenProperties
<1>3. \A k \in 1..Len(s) : s[k] \in Segments
  BY ElementOfSeq
<1>4. /\ n \in 1..Len(s) /\ SubSeq(Received(c), 1, n) = SubSeq(s, 1, n)
      /\ Ended(c) => n < Len(s)
  <2>1. CASE Ended(c)
    <3>1. s # <<>> /\ Received(c) = SubSeq(s, 1, Len(s) - 1)
      BY <1>1, <2>1 DEF Ended, Received, Front
    <3>2. Len(s) # 0
      BY <3>1, EmptySeq
    <3>3. \A k \in 1..(Len(s) - 1) : s[k] \in Segments
      BY <1>2, <1>3
    <3>4. Len(Received(c)) = Len(s) - 1
      BY <1>2, <3>1, <3>2, <3>3, SubSeqProperties
    <3>5. n \in 1..(Len(s) - 1) /\ Len(s) - 1 \in 1..Len(s)
      BY <1>2, <3>2, <3>4
    <3>6. SubSeq(SubSeq(s, 1, Len(s) - 1), 1, n) = SubSeq(s, 1, n)
      BY <1>2, <3>5, SubSeqOfSubSeq
    <3> QED
      BY <1>2, <3>1, <3>5, <3>6
  <2>2. CASE ~Ended(c)
    BY <1>1, <1>2, <2>2 DEF Received
  <2> QED
    BY <2>1, <2>2
<1>5. /\ SubSeq(s, 1, n) \in Seq(Segments) /\ Len(SubSeq(s, 1, n)) = n
      /\ SubSeq(s, n + 1, Len(s)) \in Seq(Segments)
      /\ n < Len(s) => Len(SubSeq(s, n + 1, Len(s))) # 0
  <2>1. \A k \in 1..n : s[k] \in Segments
    BY <1>2, <1>3, <1>4
  <2>2. \A k \in (n + 1)..Len(s) : s[k] \in Segments
    BY <1>2, <1>3, <1>4
  <2>3. SubSeq(s, 1, n) \in Seq(Segments) /\ Len(SubSeq(s, 1, n)) = n
    BY <1>2, <1>4, <2>1, SubSeqProperties
  <2>4. /\ SubSeq(s, n + 1, Len(s)) \in Seq(Segments)
        /\ Len(SubSeq(s, n + 1, Len(s))) = IF n + 1 <= Len(s) THEN Len(s) - (n + 1) + 1 ELSE 0
    BY <1>2, <1>4, <2>2, SubSeqProperties
  <2> QED
    BY <1>2, <1>4, <2>3, <2>4
<1>6. SubSeq(s, 1, n) \o SubSeq(s, n + 1, Len(s)) = s
  <2>1. SubSeq(s, 1, n) \o SubSeq(s, n + 1, Len(s)) = SubSeq(s, 1, Len(s))
    BY <1>2, <1>4, ConcatAdjacentSubSeq
  <2> QED
    BY <2>1, SubSeqFull
<1>7. SubSeq(s, 1, n) # <<>> /\ (n < Len(s) => SubSeq(s, n + 1, Len(s)) # <<>>)
  <2>1. PICK x \in Seq(Segments), y \in Seq(Segments) : x = SubSeq(s, 1, n) /\ y = SubSeq(s, n + 1, Len(s))
    BY <1>5
  <2>2. Len(x) # 0 /\ (n < Len(s) => Len(y) # 0)
    BY <1>4, <1>5, <2>1
  <2>3. x # <<>> /\ (n < Len(s) => y # <<>>)
    BY <2>2, EmptySeq
  <2> QED
    BY <2>1, <2>3
<1> QED
  BY <1>1, <1>4, <1>5, <1>6, <1>7 DEF Cat

(* The step of Read, with names for what is taken (x) and what stays (y).  *)
ReadTakes(t, c, x, y) ==
  /\ x # <<>> /\ inbox[c] = Cat(x, y) /\ (Ended(c) => y # <<>>)
  /\ fd[c] = Head(batch[t]) /\ fd[c] \in reg[t] /\ fd[c] # ListenFd /\ fd[c] # NoFd /\ client[c] # "new"
  /\ batch[t] # <<>> /\ Idle(t)
  /\ buf' = [buf EXCEPT ![t] = x] /\ inbox' = [inbox EXCEPT ![c] = y]
  /\ cut' = (IF y = <<>> /\ c \notin reset THEN cut ELSE cut \cup {c})
  /\ UNCHANGED <<client, typed, wire, got, outbox, reset, backlog, fd, up, reg, rdlist, batch, del, crowded>>

LEMMA ReadIs ==
  ASSUME IInv, NEW t \in Threads, Read(t)
  PROVE  \E c \in Clients, x \in Seq(Segments), y \in Seq(Segments) : ReadTakes(t, c, x, y)
<1>1. /\ NetInv /\ MtTypes /\ RegInv /\ BatchInv /\ NetTypes
  BY DEF IInv, NetInv
<1>2. /\ batch[t] # <<>> /\ Idle(t) /\ Head(batch[t]) # ListenFd
  BY DEF Read, Reading, Working, Idle
<1>3. Head(batch[t]) \in Todo(t) /\ Head(batch[t]) \in reg[t]
  BY <1>1, <1>2, TodoIdle DEF BatchInv
<1>4. PICK f \in reg[t] : f = Head(batch[t])
  BY <1>3
<1>5. PICK c \in Clients : c = Peer(t) /\ fd[c] = f /\ f \in Fds /\ client[c] # "new"
  BY <1>1, <1>2, <1>4, PeerOf DEF Peer
<1>6. PICK n : n = Min({BufSegs, Len(Received(c))})
  OBVIOUS
<1>7. PICK r \in Seq(Segments) : r = Received(c) /\ r # <<>>
  BY <1>1, <1>5, ReceivedIs DEF Read
<1>8. n \in 1..Len(Received(c))
  <2>1. Len(r) \in Nat /\ Len(r) # 0 /\ BufSegs \in Nat /\ BufSegs # 0
    BY <1>7, LenProperties, EmptySeq, MtAssumption DEF MtAssumption
  <2>2. PICK S : S = {BufSegs, Len(r)}
    OBVIOUS
  <2>3. S \subseteq Nat /\ S # {}
    BY <2>1, <2>2
  <2>4. Min(S) \in S /\ \A k \in S : Min(S) <= k
    BY <2>3, LeastElement
  <2>5. n = Min(S)
    BY <1>6, <1>7, <2>2
  <2>6. n \in {BufSegs, Len(r)} /\ n <= Len(r)
    BY <2>2, <2>4, <2>5
  <2> QED
    BY <1>7, <2>1, <2>6
<1>9. PICK x \in Seq(Segments) : x = SubSeq(Received(c), 1, n) /\ x # <<>>
  BY <1>1, <1>8, ReadSplits
<1>10. PICK y \in Seq(Segments) : /\ y = SubSeq(inbox[c], n + 1, Len(inbox[c]))
                                  /\ inbox[c] = Cat(x, y) /\ (Ended(c) => y # <<>>)
  BY <1>1, <1>8, <1>9, ReadSplits
<1>11. /\ buf' = [buf EXCEPT ![t] = x] /\ inbox' = [inbox EXCEPT ![c] = y]
       /\ cut' = IF y = <<>> /\ c \notin reset THEN cut ELSE cut \cup {c}
       /\ UNCHANGED <<client, typed, wire, got, outbox, reset, backlog, fd, up, reg, rdlist, batch, del, crowded>>
  BY <1>5, <1>6, <1>9, <1>10 DEF Read, clientVars
<1>12. ReadTakes(t, c, x, y)
  <2>1. f # ListenFd /\ f # NoFd
    BY <1>5, WatchedBounds
  <2>2. x # <<>> /\ inbox[c] = Cat(x, y) /\ (Ended(c) => y # <<>>)
    BY <1>9, <1>10
  <2>3. /\ fd[c] = Head(batch[t]) /\ fd[c] \in reg[t] /\ fd[c] # ListenFd /\ fd[c] # NoFd
        /\ client[c] # "new" /\ batch[t] # <<>> /\ Idle(t)
    BY <1>2, <1>4, <1>5, <2>1
  <2> QED
    BY <1>11, <2>2, <2>3 DEF ReadTakes
<1> QED
  BY <1>12

LEMMA StepRead ==
  ASSUME IInv, NEW t \in Threads, Read(t)
  PROVE  IInv'
<1>1. /\ NetInv /\ MtTypes /\ RegInv /\ BatchInv /\ EdgeInv /\ CountInv /\ NetTypes
  BY DEF IInv, NetInv
<1>2. PICK c \in Clients, x \in Seq(Segments), y \in Seq(Segments) : ReadTakes(t, c, x, y)
  BY ReadIs
<1>3. /\ fd[c] = Head(batch[t]) /\ fd[c] \in reg[t] /\ fd[c] # ListenFd /\ fd[c] # NoFd
      /\ batch[t] # <<>> /\ Idle(t) /\ x # <<>>
      /\ buf' = [buf EXCEPT ![t] = x] /\ inbox' = [inbox EXCEPT ![c] = y]
      /\ cut' = IF y = <<>> /\ c \notin reset THEN cut ELSE cut \cup {c}
      /\ UNCHANGED <<client, typed, wire, got, outbox, reset, backlog, fd, up, reg, rdlist, batch, del, crowded>>
  BY <1>2 DEF ReadTakes
<1>4. /\ buf' \in [Threads -> Seq(Segments)] /\ buf'[t] = x /\ \A u \in Threads : u # t => buf'[u] = buf[u]
      /\ inbox' \in [Clients -> Seq(Segments)] /\ inbox'[c] = y
      /\ \A d \in Clients : d # c => inbox'[d] = inbox[d]
      /\ cut \subseteq cut' /\ cut' \subseteq Clients /\ (y # <<>> \/ c \in reset => c \in cut')
  <2>1. cut \subseteq cut' /\ cut' \subseteq Clients /\ (y # <<>> \/ c \in reset => c \in cut')
    <3>1. CASE y = <<>> /\ c \notin reset
      BY <1>1, <1>3, <3>1 DEF MtTypes
    <3>2. CASE ~(y = <<>> /\ c \notin reset)
      BY <1>1, <1>3, <3>2 DEF MtTypes
    <3> QED
      BY <3>1, <3>2
  <2> QED
    BY <1>1, <1>3, <2>1 DEF MtTypes, NetTypes
<1>5. /\ Todo(t)' = Todo(t) \ {fd[c]} /\ \A u \in Threads : u # t => Todo(u)' = Todo(u)
      /\ fd[c] \in Todo(t)
  <2>1. ~Idle(t)'
    BY <1>3, <1>4 DEF Idle
  <2> QED
    BY <1>1, <1>3, <1>4, <2>1, TodoRead, TodoStill, TodoIdle
<1>6. NetInv'
  BY <1>1, <1>3, <1>4 DEF NetInv, NetTypes, Connections
<1>7. MtTypes'
  BY <1>1, <1>3, <1>4 DEF MtTypes
<1>8. RegInv'
  BY <1>1, <1>3 DEF RegInv, OpenFds
<1>9. BatchInv'
  <2>1. \A u \in Threads : \A j, k \in DOMAIN batch'[u] : batch'[u][j] = batch'[u][k] => j = k
    BY <1>1, <1>3 DEF BatchInv
  <2>2. \A u \in Threads : Todo(u)' \subseteq reg'[u]
    BY <1>1, <1>3, <1>5 DEF BatchInv
  <2>3. ASSUME NEW u \in Threads
        PROVE  /\ buf'[u] # <<>> => /\ batch'[u] # <<>> /\ del'[u] = NoFd
                                    /\ Head(batch'[u]) \in reg'[u] /\ Head(batch'[u]) # ListenFd
               /\ del'[u] # NoFd => batch'[u] # <<>> /\ Head(batch'[u]) = del'[u] /\ del'[u] \notin reg'[u]
    <3>1. CASE u = t
      BY <1>3, <3>1 DEF Idle
    <3>2. CASE u # t
      BY <1>1, <1>3, <1>4, <3>2 DEF BatchInv
    <3> QED
      BY <3>1, <3>2
  <2> QED
    BY <2>1, <2>2, <2>3 DEF BatchInv
<1>10. EdgeInv'
  <2>1. \A d \in reset' : fd'[d] # NoFd
    BY <1>1, <1>3 DEF EdgeInv
  <2>2. \A d \in Clients : d # c => Readable(d)' = Readable(d)
    BY <1>3, <1>4 DEF Readable
  <2>3. ASSUME NEW u \in Threads, NEW d \in Clients, fd'[d] \in Todo(u)' PROVE Readable(d)'
    <3>1. fd[d] \in Todo(u) /\ fd[d] \in reg[u]
      BY <1>1, <1>3, <1>5, <2>3 DEF BatchInv
    <3>2. d # c
      BY <1>1, <1>3, <1>5, <2>3, <3>1 DEF RegInv
    <3> QED
      BY <1>1, <2>2, <3>1, <3>2 DEF EdgeInv
  <2>4. ASSUME NEW d \in Clients, Readable(d)', d \notin cut'
        PROVE  \E u \in Threads : fd'[d] \in reg'[u] /\ fd'[d] \in rdlist'[u] \cup Todo(u)'
    <3>1. d # c
      BY <1>3, <1>4, <2>4 DEF Readable
    <3>2. d \notin cut /\ Readable(d)
      BY <1>4, <2>2, <2>4, <3>1
    <3>3. PICK u \in Threads : fd[d] \in reg[u] /\ fd[d] \in rdlist[u] \cup Todo(u)
      BY <1>1, <3>2 DEF EdgeInv
    <3>4. fd[d] # fd[c]
      BY <1>1, <1>3, <3>1 DEF NetInv, Connections
    <3> QED
      BY <1>3, <1>5, <3>3, <3>4
  <2> QED
    BY <2>1, <2>3, <2>4 DEF EdgeInv
<1>11. CountInv'
  <2>1. Accepting' = Accepting /\ Alerted' = Alerted
    BY <1>3, <1>5 DEF Accepting, Alerted
  <2> QED
    BY <1>1, <1>3, <2>1 DEF CountInv
<1> QED
  BY <1>6, <1>7, <1>8, <1>9, <1>10, <1>11 DEF IInv

(* The end of a connection: close takes the descriptor out of the instance *)
(* and of its ready list before another thread can be given the number.    *)
LEMMA EndIs ==
  ASSUME IInv, NEW t \in Threads, ReadEnd(t)
  PROVE  \E c \in Clients :
           /\ fd[c] = Head(batch[t]) /\ fd[c] \in reg[t] /\ fd[c] \in Fds /\ client[c] # "new"
           /\ Closed(c) /\ c = Peer(t)
<1>1. /\ NetInv /\ MtTypes /\ RegInv /\ BatchInv
  BY DEF IInv
<1>2. /\ batch[t] # <<>> /\ Idle(t) /\ Head(batch[t]) # ListenFd
  BY DEF ReadEnd, Reading, Working, Idle
<1>3. PICK f \in reg[t] : f = Head(batch[t])
  BY <1>1, <1>2, TodoIdle DEF BatchInv
<1>4. PICK c \in Clients : c = Peer(t) /\ fd[c] = f /\ f \in Fds /\ client[c] # "new"
  BY <1>1, <1>2, <1>3, PeerOf DEF Peer
<1> QED
  BY <1>3, <1>4 DEF ReadEnd

LEMMA StepReadEnd ==
  ASSUME IInv, NEW t \in Threads, ReadEnd(t)
  PROVE  IInv'
<1>1. /\ NetInv /\ MtTypes /\ RegInv /\ BatchInv /\ EdgeInv /\ CountInv /\ NetTypes
  BY DEF IInv, NetInv
<1>2. PICK c \in Clients : /\ fd[c] = Head(batch[t]) /\ fd[c] \in reg[t] /\ fd[c] \in Fds
                           /\ client[c] # "new" /\ Closed(c)
  BY EndIs
<1>3. PICK f \in Fds : f = fd[c] /\ f # NoFd /\ f # ListenFd
  BY <1>2, WatchedBounds
<1>4. /\ batch[t] # <<>> /\ Idle(t) /\ buf[t] = <<>>
      /\ reg' = [reg EXCEPT ![t] = reg[t] \ {f}] /\ rdlist' = [rdlist EXCEPT ![t] = rdlist[t] \ {f}]
      /\ del' = [del EXCEPT ![t] = f]
      /\ UNCHANGED <<batch, buf, cut, crowded>>
  BY <1>2, <1>3 DEF ReadEnd, Reading, Working, Idle
<1>5. /\ NetInv' /\ fd' = [fd EXCEPT ![c] = NoFd] /\ up' = up /\ backlog' = backlog
      /\ OpenFds' = OpenFds \ {f}
      /\ \A d \in Clients : d # c => inbox'[d] = inbox[d] /\ (d \in reset' <=> d \in reset)
  BY <1>1, <1>2, <1>3, CloseKeeps
<1>6. fd'[c] = NoFd /\ \A d \in Clients : d # c => fd'[d] = fd[d]
  BY <1>1, <1>5 DEF NetTypes
<1>7. /\ reg' \in [Threads -> SUBSET Watched]
      /\ \A u \in Threads : reg'[u] = IF u = t THEN reg[u] \ {f} ELSE reg[u]
      /\ rdlist' \in [Threads -> SUBSET Watched]
      /\ \A u \in Threads : rdlist'[u] = IF u = t THEN rdlist[u] \ {f} ELSE rdlist[u]
      /\ del' \in [Threads -> {NoFd} \cup Fds] /\ del'[t] = f
      /\ \A u \in Threads : u # t => del'[u] = del[u]
  BY <1>1, <1>4 DEF MtTypes
<1>8. Todo(t)' = Todo(t) \ {f} /\ \A u \in Threads : u # t => Todo(u)' = Todo(u)
  <2>1. ~Idle(t)'
    BY <1>3, <1>7 DEF Idle
  <2> QED
    BY <1>1, <1>2, <1>3, <1>4, <1>7, <2>1, TodoRead, TodoStill
<1>9. \A u \in Threads : u # t => f \notin reg[u]
  BY <1>1, <1>2, <1>3 DEF RegInv
<1>10. MtTypes'
  BY <1>1, <1>4, <1>7 DEF MtTypes
<1>11. RegInv'
  <2>1. \A u \in Threads : rdlist'[u] \subseteq reg'[u]
    BY <1>1, <1>7 DEF RegInv
  <2>2. \A u \in Threads : reg'[u] \subseteq OpenFds' \cup {ListenFd}
    BY <1>1, <1>5, <1>7, <1>9 DEF RegInv
  <2>3. \A u, w \in Threads : \A g \in reg'[u] : g \in reg'[w] /\ g # ListenFd => u = w
    BY <1>1, <1>7 DEF RegInv
  <2>4. \A g \in OpenFds' : \E u \in Threads : g \in reg'[u]
    BY <1>1, <1>5, <1>7 DEF RegInv
  <2>5. up' => \A u \in Threads : ListenFd \in reg'[u]
    BY <1>1, <1>3, <1>5, <1>7 DEF RegInv
  <2> QED
    BY <2>1, <2>2, <2>3, <2>4, <2>5 DEF RegInv
<1>12. BatchInv'
  <2>1. \A u \in Threads : \A j, k \in DOMAIN batch'[u] : batch'[u][j] = batch'[u][k] => j = k
    BY <1>1, <1>4 DEF BatchInv
  <2>2. \A u \in Threads : Todo(u)' \subseteq reg'[u]
    BY <1>1, <1>7, <1>8 DEF BatchInv
  <2>3. ASSUME NEW u \in Threads
        PROVE  /\ buf'[u] # <<>> => /\ batch'[u] # <<>> /\ del'[u] = NoFd
                                    /\ Head(batch'[u]) \in reg'[u] /\ Head(batch'[u]) # ListenFd
               /\ del'[u] # NoFd => batch'[u] # <<>> /\ Head(batch'[u]) = del'[u] /\ del'[u] \notin reg'[u]
    <3>1. CASE u = t
      BY <1>2, <1>3, <1>4, <1>7, <3>1
    <3>2. CASE u # t
      BY <1>1, <1>4, <1>7, <3>2 DEF BatchInv
    <3> QED
      BY <3>1, <3>2
  <2> QED
    BY <2>1, <2>2, <2>3 DEF BatchInv
<1>13. EdgeInv'
  <2>1. \A d \in Clients : d # c => Readable(d)' = Readable(d)
    BY <1>5, <1>6 DEF Readable
  <2>2. ~Readable(c)'
    BY <1>6 DEF Readable
  <2>3. \A d \in reset' : fd'[d] # NoFd
    <3>1. reset' = reset \ {c} /\ reset \subseteq Clients
      BY <1>1, <1>2 DEF Closed, NetTypes
    <3> QED
      BY <1>1, <1>6, <3>1 DEF EdgeInv
  <2>4. ASSUME NEW u \in Threads, NEW d \in Clients, fd'[d] \in Todo(u)' PROVE Readable(d)'
    <3>1. Todo(u)' \subseteq Todo(u) /\ Todo(u) \subseteq reg[u] /\ reg[u] \subseteq Watched
      BY <1>1, <1>8 DEF BatchInv, MtTypes
    <3>2. d # c
      BY <1>6, <2>4, <3>1, WatchedBounds
    <3> QED
      BY <1>1, <1>6, <2>1, <2>4, <3>1, <3>2 DEF EdgeInv
  <2>5. ASSUME NEW d \in Clients, Readable(d)', d \notin cut'
        PROVE  \E u \in Threads : fd'[d] \in reg'[u] /\ fd'[d] \in rdlist'[u] \cup Todo(u)'
    <3>1. d # c /\ Readable(d) /\ d \notin cut
      BY <1>4, <2>1, <2>2, <2>5
    <3>2. PICK u \in Threads : fd[d] \in reg[u] /\ fd[d] \in rdlist[u] \cup Todo(u)
      BY <1>1, <3>1 DEF EdgeInv
    <3>3. fd[d] # f
      BY <1>1, <1>3, <3>1 DEF NetInv, Connections
    <3> QED
      BY <1>6, <1>7, <1>8, <3>1, <3>2, <3>3
  <2> QED
    BY <2>3, <2>4, <2>5 DEF EdgeInv
<1>14. CountInv'
  <2>1. Accepting' = Accepting /\ Alerted' = Alerted
    BY <1>3, <1>7, <1>8 DEF Accepting, Alerted
  <2> QED
    BY <1>1, <1>4, <1>5, <2>1 DEF CountInv
<1> QED
  BY <1>5, <1>10, <1>11, <1>12, <1>13, <1>14 DEF IInv

(* SIGPIPE ends all threads at once. *)
LEMMA StepSigPipe ==
  ASSUME IInv, NEW t \in Threads, SigPipe(t)
  PROVE  IInv'
<1>1. /\ NetInv /\ MtTypes /\ EdgeInv
  BY DEF IInv
<1>2. /\ NetInv' /\ ~up' /\ OpenFds' = {} /\ backlog' = <<>> /\ \A c \in Clients : fd'[c] = NoFd
  BY <1>1, ExitKeeps DEF SigPipe
<1>3. reset' = {}
  BY DEF SigPipe, Exited
<1>4. /\ reg' = [u \in Threads |-> {}] /\ rdlist' = [u \in Threads |-> {}]
      /\ batch' = [u \in Threads |-> <<>>] /\ buf' = [u \in Threads |-> <<>>]
      /\ del' = [u \in Threads |-> NoFd] /\ cut' = cut /\ crowded' = crowded
  BY DEF SigPipe
<1>5. \A u \in Threads : Todo(u)' = {}
  BY <1>4 DEF Todo
<1>6. MtTypes'
  BY <1>1, <1>4, EmptySeq DEF MtTypes
<1>7. RegInv' /\ BatchInv'
  BY <1>2, <1>4, <1>5 DEF RegInv, BatchInv
<1>8. EdgeInv'
  BY <1>2, <1>3, <1>5 DEF EdgeInv, Readable
<1>9. CountInv'
  <2>1. Len(backlog') = 0
    BY <1>2
  <2> QED
    BY <2>1, CountTypes DEF CountInv
<1> QED
  BY <1>2, <1>6, <1>7, <1>8, <1>9 DEF IInv

LEMMA StepStutters ==
  ASSUME IInv, UNCHANGED vars
  PROVE  IInv'
<1>1. /\ UNCHANGED <<client, typed, wire, got, inbox, outbox, reset, backlog, fd, up>>
      /\ UNCHANGED <<reg, rdlist, batch, buf, del, cut, crowded>>
  BY DEF vars, netVars, clientVars, socketVars, threadVars
<1>2. \A t \in Threads : Todo(t)' = Todo(t)
  BY <1>1, TodoStill
<1>3. NetInv' /\ MtTypes'
  BY <1>1 DEF IInv, NetInv, NetTypes, Connections, MtTypes
<1>4. RegInv' /\ BatchInv'
  BY <1>1, <1>2 DEF IInv, RegInv, BatchInv, OpenFds
<1>5. EdgeInv'
  BY <1>1, <1>2 DEF IInv, EdgeInv, Readable
<1>6. CountInv'
  <2>1. Accepting' = Accepting /\ Alerted' = Alerted
    BY <1>1, <1>2 DEF Accepting, Alerted
  <2> QED
    BY <1>1, <2>1 DEF IInv, CountInv
<1> QED
  BY <1>3, <1>4, <1>5, <1>6 DEF IInv

LEMMA InitInv ==
  ASSUME Init
  PROVE  IInv
<1>1. NetInv
  BY NetInvInit DEF Init
<1>2. /\ reg = [t \in Threads |-> {ListenFd}] /\ rdlist = [t \in Threads |-> {}]
      /\ batch = [t \in Threads |-> <<>>] /\ buf = [t \in Threads |-> <<>>]
      /\ del = [t \in Threads |-> NoFd] /\ cut = {} /\ crowded = FALSE
      /\ inbox = [c \in Clients |-> <<>>] /\ reset = {} /\ backlog = <<>> /\ fd = [c \in Clients |-> NoFd]
  BY DEF Init, NetInit
<1>3. \A t \in Threads : Todo(t) = {}
  BY <1>2 DEF Todo
<1>4. MtTypes
  BY <1>2, WatchedBounds, EmptySeq DEF MtTypes
<1>5. OpenFds = {}
  BY <1>2 DEF OpenFds
<1>6. RegInv /\ BatchInv
  BY <1>2, <1>3, <1>5 DEF RegInv, BatchInv
<1>7. EdgeInv
  BY <1>2, <1>3 DEF EdgeInv, Readable
<1>8. CountInv
  <2>1. Len(backlog) = 0
    BY <1>2
  <2> QED
    BY <2>1, CountTypes DEF CountInv
<1> QED
  BY <1>1, <1>4, <1>6, <1>7, <1>8 DEF IInv

(* The inductive invariant, for any number of threads, clients and         *)
(* descriptors and any size of the buffer.                                 *)
THEOREM Invariant == Spec => []IInv
<1>1. ASSUME IInv, [Next]_vars
      PROVE  IInv'
  <2>1. ASSUME NEW c \in Clients, NetworkStep(c) PROVE IInv'
    BY <1>1, <2>1, StepNet
  <2>2. ASSUME NEW t \in Threads, ThreadStep(t) PROVE IInv'
    BY <1>1, <2>2, StepWait, StepAccept, StepAcceptUnwatched, StepAcceptFails, StepRead, StepWrite,
       StepWriteFails, StepSigPipe, StepReadEnd, StepDeregister DEF ThreadStep
  <2>3. UNCHANGED vars => IInv'
    BY <1>1, StepStutters
  <2> QED
    BY <1>1, <2>1, <2>2, <2>3 DEF Next
<1> QED
  BY InitInv, <1>1, PTL DEF Spec

-----------------------------------------------------------------------------
(* What the invariant says of the properties. *)
LEMMA BatchIs ==
  ASSUME MtTypes, NEW t \in Threads
  PROVE  /\ Todo(t) \subseteq ToSet(batch[t])
         /\ Idle(t) => ToSet(batch[t]) \subseteq Todo(t)
         /\ ToSet(batch[t]) \subseteq Todo(t) \cup {Head(batch[t])}
<1>1. PICK b \in Seq(Watched) : b = batch[t]
  BY DEF MtTypes
<1>2. ToSet(b) = {b[k] : k \in DOMAIN b}
  BY LenProperties DEF ToSet
<1>3. Todo(t) \subseteq ToSet(b) /\ (Idle(t) => ToSet(b) \subseteq Todo(t))
  BY <1>1, <1>2 DEF Todo
<1>4. ASSUME NEW x \in ToSet(b) PROVE x \in Todo(t) \cup {Head(b)}
  <2>1. PICK k \in DOMAIN b : x = b[k]
    BY <1>2
  <2>2. b # <<>>
    BY <2>1
  <2>3. Head(b) = b[1] /\ k \in Nat \ {0}
    BY <2>2, TailIndex
  <2>4. CASE k = 1
    BY <2>1, <2>3, <2>4
  <2>5. CASE k > 1
    BY <1>1, <2>1, <2>5 DEF Todo
  <2> QED
    BY <2>3, <2>4, <2>5
<1> QED
  BY <1>1, <1>3, <1>4

(* Every open connection is registered with exactly one instance, though   *)
(* one thread closes a descriptor, a second one is given the number by     *)
(* accept, and the first only then takes it out of its own instance.       *)
THEOREM OneThread == Spec => []ServedByOne
<1>1. ASSUME IInv PROVE ServedByOne
  <2>1. /\ NetInv /\ MtTypes /\ RegInv /\ BatchInv
    BY <1>1 DEF IInv
  <2>2. NetTypeOK
    BY <2>1, NetInvTypes
  <2>3. ASSUME NEW t \in Threads
        PROVE  /\ reg[t] \subseteq ListenFd..(FdLimit - 1) /\ rdlist[t] \subseteq reg[t]
               /\ del[t] \in {NoFd} \cup (ListenFd + 1)..(FdLimit - 1)
    <3>1. Watched \subseteq ListenFd..(FdLimit - 1)
      BY NetAssumption DEF NetAssumption, Watched, Fds, ListenFd
    <3> QED
      BY <2>1, <3>1 DEF MtTypes, RegInv, Fds
  <2>4. ASSUME NEW t \in Threads, del[t] = NoFd PROVE ToSet(batch[t]) \subseteq reg[t]
    <3>1. CASE buf[t] = <<>>
      <4>1. Idle(t)
        BY <2>4, <3>1 DEF Idle
      <4> QED
        BY <2>1, <4>1, BatchIs DEF BatchInv
    <3>2. CASE buf[t] # <<>>
      <4>1. Head(batch[t]) \in reg[t] /\ Todo(t) \subseteq reg[t]
        BY <2>1, <3>2 DEF BatchInv
      <4> QED
        BY <2>1, <4>1, BatchIs
    <3> QED
      BY <3>1, <3>2
  <2>5. TypeOK
    BY <2>1, <2>2, <2>3, <2>4 DEF TypeOK, MtTypes
  <2>6. ASSUME NEW f \in OpenFds PROVE \E t \in Threads : \A u \in Threads : f \in reg[u] <=> u = t
    <3>1. PICK t \in Threads : f \in reg[t]
      BY <2>1 DEF RegInv
    <3>2. f # ListenFd
      BY <2>1, OpenFdsWatched, WatchedBounds
    <3> QED
      BY <2>1, <3>1, <3>2 DEF RegInv
  <2> QED
    BY <2>5, <2>6 DEF ServedByOne
<1> QED
  BY <1>1, Invariant, PTL

(* Unread input is always known to the thread of its connection, in the    *)
(* ready list or in the batch, unless a read has left something behind.    *)
THEOREM EdgesKept == Spec => []NoEdgeLost
<1>1. ASSUME IInv PROVE NoEdgeLost
  <2>1. ASSUME NEW c \in Clients, Readable(c), c \notin cut
        PROVE  \E t \in Threads : fd[c] \in reg[t] /\ Noticed(t, fd[c])
    <3>1. PICK t \in Threads : fd[c] \in reg[t] /\ fd[c] \in rdlist[t] \cup Todo(t)
      BY <1>1, <2>1 DEF IInv, EdgeInv
    <3>2. Todo(t) \subseteq ToSet(batch[t])
      BY <1>1, BatchIs DEF IInv
    <3> QED
      BY <3>1, <3>2 DEF Noticed
  <2> QED
    BY <2>1 DEF NoEdgeLost
<1> QED
  BY <1>1, Invariant, PTL

(* While no more connections than threads have waited at once, each of     *)
(* them has a thread of its own that is going to accept.                   *)
THEOREM BacklogServed == Spec => []BacklogNoticed
<1>1. ASSUME IInv PROVE BacklogNoticed
  <2> DEFINE L == {t \in Threads : Listening(t)}
             B == {t \in Threads : ~Listening(t) /\ ListenFd \in ToSet(batch[t])}
             A == {t \in Threads : ListenFd \in rdlist[t]}
  <2>1. /\ MtTypes /\ BatchInv /\ CountInv /\ NetTypes
    BY <1>1 DEF IInv, NetInv
  <2>2. Accepting \subseteq L \cup B
    BY <2>1, BatchIs DEF Accepting
  <2>3. A = Alerted
    BY DEF Alerted
  <2>4. L \subseteq Threads /\ B \subseteq Threads /\ L \cap B = {}
    OBVIOUS
  <2>5. PICK S \in SUBSET Threads, T \in SUBSET Threads : S = L /\ T = B
    BY <2>4
  <2> HIDE DEF L, B, A
  <2>6. /\ IsFiniteSet(S) /\ IsFiniteSet(T) /\ IsFiniteSet(S \cup T)
        /\ Cardinality(S) \in Nat /\ Cardinality(T) \in Nat
        /\ Cardinality(S \cup T) = Cardinality(S) + Cardinality(T) - Cardinality(S \cap T)
    <3>1. IsFiniteSet(S) /\ IsFiniteSet(T)
      BY WatchedBounds, FS_Subset
    <3> QED
      BY <3>1, FS_Union, FS_CardinalityType
  <2>7. Cardinality(S \cap T) = 0
    BY <2>4, <2>5, FS_EmptySet
  <2>8. Cardinality(Accepting) <= Cardinality(S \cup T)
    <3>1. Accepting \in SUBSET (S \cup T)
      BY <2>2, <2>5
    <3> QED
      BY <2>6, <3>1, FS_Subset
  <2>9. Cardinality(Accepting) <= Cardinality(S) + Cardinality(T)
    BY <2>6, <2>7, <2>8, CountTypes
  <2>10. Len(backlog) \in Nat
    BY <2>1, LenProperties DEF NetTypes
  <2>11. ~crowded => Len(backlog) <= Cardinality(L) + Cardinality(A) + Cardinality(B)
    <3>1. ~crowded => Len(backlog) <= Cardinality(Accepting) + Cardinality(Alerted)
      BY <2>1 DEF CountInv
    <3> QED
      BY <2>3, <2>5, <2>6, <2>9, <2>10, <3>1, CountTypes
  <2> QED
    BY <2>11 DEF L, B, A, BacklogNoticed
<1> QED
  BY <1>1, Invariant, PTL

(* No thread blocks in read, although the connections are blocking and     *)
(* others close, accept and read meanwhile.                                *)
THEOREM ReadsReady == Spec => []NeverBlocksInRead
<1>1. ASSUME IInv PROVE NeverBlocksInRead
  <2>1. ASSUME NEW t \in Threads, Reading(t) PROVE Readable(Peer(t))
    <3>1. /\ batch[t] # <<>> /\ Idle(t) /\ Head(batch[t]) # ListenFd
      BY <2>1 DEF Reading, Working, Idle
    <3>2. Head(batch[t]) \in Todo(t) /\ Head(batch[t]) \in reg[t]
      BY <1>1, <3>1, TodoIdle DEF IInv, BatchInv
    <3>3. PICK f \in reg[t] : f = Head(batch[t])
      BY <3>2
    <3>4. Peer(t) \in Clients /\ fd[Peer(t)] = f
      BY <1>1, <3>1, <3>3, PeerOf DEF Peer, IInv
    <3> QED
      BY <1>1, <3>2, <3>3, <3>4 DEF IInv, EdgeInv
  <2> QED
    BY <2>1 DEF NeverBlocksInRead
<1> QED
  BY <1>1, Invariant, PTL

-----------------------------------------------------------------------------
(* The echo: the buffer of a thread holds data of the connection of its    *)
(* first event, from the read to the write, and nobody else holds any.     *)
Holds(t, c) == buf[t] # <<>> /\ fd[c] = Head(batch[t])

FlowInv ==
  /\ EchoInv
  /\ \A t \in Threads : \A c \in Clients : Holds(t, c) => Flow(c, buf[t])
  /\ \A c \in Clients : (\A t \in Threads : ~Holds(t, c)) => Flow(c, <<>>)

(* A connection is held by one thread, its own. *)
LEMMA HoldsOne ==
  ASSUME IInv, NEW t \in Threads, NEW c \in Clients, Holds(t, c)
  PROVE  /\ fd[c] \in reg[t] /\ fd[c] # NoFd /\ fd[c] # ListenFd /\ Peer(t) = c /\ client[c] # "new"
         /\ batch[t] # <<>>
         /\ \A u \in Threads : Holds(u, c) => u = t
         /\ \A d \in Clients : Holds(t, d) => d = c
<1>1. NetInv /\ MtTypes /\ RegInv /\ BatchInv
  BY DEF IInv
<1>2. \A u \in Threads : Holds(u, c) => fd[c] \in reg[u] /\ fd[c] # ListenFd
  BY <1>1 DEF BatchInv, Holds
<1>3. fd[c] \in reg[t] /\ fd[c] # ListenFd /\ fd[c] = Head(batch[t]) /\ batch[t] # <<>>
  BY <1>1, <1>2 DEF Holds, BatchInv
<1>4. fd[c] # NoFd
  BY <1>1, <1>3, WatchedBounds DEF MtTypes
<1>5. Owner(fd[c]) = c
  BY <1>1, <1>4, OwnerOf
<1>6. client[c] # "new" /\ \A d \in Clients : fd[d] = fd[c] => d = c
  BY <1>1, <1>4 DEF NetInv, Connections
<1>7. \A u \in Threads : Holds(u, c) => u = t
  BY <1>1, <1>2, <1>3 DEF RegInv
<1>8. \A d \in Clients : Holds(t, d) => d = c
  BY <1>3, <1>6 DEF Holds
<1>9. Peer(t) = c
  BY <1>3, <1>5 DEF Peer
<1> QED
  BY <1>2, <1>3, <1>4, <1>6, <1>7, <1>8, <1>9

(* What is held stays held, and the flows of all connections with it. *)
LEMMA HoldsStill ==
  ASSUME NEW t \in Threads, NEW c \in Clients, fd'[c] = fd[c], buf'[t] = buf[t],
         buf[t] # <<>> => batch'[t] = batch[t]
  PROVE  Holds(t, c)' <=> Holds(t, c)
  BY DEF Holds

LEMMA FlowKept ==
  ASSUME FlowInv, EchoInv',
         \A c \in Clients : fd'[c] = fd[c],
         \A t \in Threads : buf'[t] = buf[t] /\ (buf[t] # <<>> => batch'[t] = batch[t]),
         \A c \in Clients : \A t \in Threads : Flow(c, buf[t]) => Flow(c, buf[t])',
         \A c \in Clients : Flow(c, <<>>) => Flow(c, <<>>)'
  PROVE  FlowInv'
<1>1. \A t \in Threads : \A c \in Clients : Holds(t, c)' <=> Holds(t, c)
  BY HoldsStill
<1> QED
  BY <1>1 DEF FlowInv

LEMMA FlowInit ==
  ASSUME Init
  PROVE  FlowInv
<1>1. EchoInv /\ \A c \in Clients : Flow(c, <<>>)
  BY EchoInvInit DEF Init
<1>2. \A t \in Threads : buf[t] = <<>>
  BY DEF Init
<1> QED
  BY <1>1, <1>2 DEF FlowInv, Holds

LEMMA FlowStill ==
  ASSUME IInv, FlowInv, UNCHANGED netVars, buf' = buf,
         \A t \in Threads : buf[t] # <<>> => batch'[t] = batch[t]
  PROVE  FlowInv'
<1>1. UNCHANGED <<client, typed, wire, got, inbox, outbox, reset, backlog, fd, up>>
  BY DEF netVars, clientVars, socketVars
<1>2. EchoInv'
  BY <1>1 DEF FlowInv, EchoInv
<1>3. ASSUME NEW c \in Clients, NEW b, b' = b, Flow(c, b) PROVE Flow(c, b)'
  <2>1. Live(c)' = Live(c)
    BY <1>1 DEF Live, Connected
  <2>2. /\ Typed(c)' = Typed(c) /\ Stream(c)' = Stream(c) /\ EchoesOwn(c)' = EchoesOwn(c)
    BY <1>1 DEF Typed, Stream, EchoesOwn
  <2> QED
    BY <1>1, <1>3, <2>1, <2>2 DEF Flow
<1>4. \A c \in Clients : Flow(c, <<>>) => Flow(c, <<>>)'
  BY <1>3
<1>5. \A c \in Clients : \A t \in Threads : Flow(c, buf[t]) => Flow(c, buf[t])'
  BY <1>3
<1> QED
  BY <1>1, <1>2, <1>4, <1>5, FlowKept

LEMMA FlowNet ==
  ASSUME IInv, FlowInv, NEW c \in Clients, NetworkStep(c)
  PROVE  FlowInv'
<1>1. NetInv /\ EchoInv /\ MtTypes /\ EchoInv' /\ fd' = fd
  BY NetStepKeeps, EchoInvNetStep DEF IInv, FlowInv, NetworkStep
<1>2. UNCHANGED <<batch, buf>>
  BY DEF NetworkStep
<1>3. \A d \in Clients : \A b \in Seq(Segments) : Flow(d, b) => Flow(d, b)'
  BY <1>1, FlowNetStep DEF NetworkStep
<1>4. \A d \in Clients : Flow(d, <<>>) => Flow(d, <<>>)'
  BY <1>3, EmptySeq
<1>5. \A d \in Clients : \A t \in Threads : Flow(d, buf[t]) => Flow(d, buf[t])'
  <2>1. ASSUME NEW d \in Clients, NEW t \in Threads, Flow(d, buf[t]) PROVE Flow(d, buf[t])'
    <3>1. PICK b \in Seq(Segments) : b = buf[t]
      BY <1>1 DEF MtTypes
    <3>2. buf'[t] = b
      BY <1>2, <3>1
    <3>3. Flow(d, b)'
      BY <1>3, <2>1, <3>1
    <3> QED
      BY <3>2, <3>3
  <2> QED
    BY <2>1
<1> QED
  BY <1>1, <1>2, <1>4, <1>5, FlowKept

(* read, write: one thread and one connection, its own, change. *)
LEMMA FlowOne ==
  ASSUME IInv, FlowInv, EchoInv', fd' = fd, NEW t \in Threads, NEW c \in Clients,
         fd[c] = Head(batch[t]), fd[c] \in reg[t], fd[c] # ListenFd, fd[c] # NoFd,
         \A u \in Threads : u # t => buf'[u] = buf[u] /\ batch'[u] = batch[u],
         \A d \in Clients : \A b : d # c /\ Flow(d, b) => Flow(d, b)',
         \/ buf'[t] = <<>> /\ Flow(c, <<>>)'
         \/ buf'[t] # <<>> /\ batch'[t] = batch[t] /\ Flow(c, buf[t])'
  PROVE  FlowInv'
<1>1. NetInv /\ RegInv
  BY DEF IInv
<1>2. \A d \in Clients : fd[d] = fd[c] => d = c
  BY <1>1 DEF NetInv, Connections
<1>3. \A u \in Threads : \A d \in Clients : u # t => (Holds(u, d)' <=> Holds(u, d))
  BY DEF Holds
<1>4. ASSUME NEW u \in Threads, NEW d \in Clients, Holds(u, d)' PROVE Flow(d, buf[u])'
  <2>1. CASE u = t
    <3>1. buf'[t] # <<>> /\ fd[d] = Head(batch'[t])
      BY <1>4, <2>1 DEF Holds
    <3>2. batch'[t] = batch[t] /\ Flow(c, buf[t])'
      BY <3>1
    <3>3. d = c
      BY <1>2, <3>1, <3>2
    <3> QED
      BY <2>1, <3>2, <3>3
  <2>2. CASE u # t
    <3>1. Holds(u, d)
      BY <1>3, <1>4, <2>2
    <3>2. fd[d] \in reg[u] /\ fd[d] # ListenFd
      BY <3>1, HoldsOne
    <3>3. d # c
      BY <1>1, <2>2, <3>2 DEF RegInv
    <3>4. Flow(d, buf[u])
      BY <3>1 DEF FlowInv
    <3>5. PICK b : b = buf[u] /\ b = buf'[u]
      BY <2>2
    <3>6. Flow(d, b)'
      BY <3>3, <3>4, <3>5
    <3> QED
      BY <3>5, <3>6
  <2> QED
    BY <2>1, <2>2
<1>5. ASSUME NEW d \in Clients, \A u \in Threads : ~Holds(u, d)' PROVE Flow(d, <<>>)'
  <2>1. CASE d = c
    <3>1. buf'[t] = <<>> \/ batch'[t] # batch[t]
      BY <1>5, <2>1 DEF Holds
    <3> QED
      BY <2>1, <3>1
  <2>2. CASE d # c
    <3>1. ~Holds(t, d)
      BY <1>2, <2>2 DEF Holds
    <3>2. \A u \in Threads : ~Holds(u, d)
      BY <1>3, <1>5, <3>1
    <3> QED
      BY <2>2, <3>2 DEF FlowInv
  <2> QED
    BY <2>1, <2>2
<1> QED
  BY <1>4, <1>5 DEF FlowInv

(* What is left behind by a read of a part of the input is still to come. *)
LEMMA FlowTake ==
  ASSUME NetInv, EchoInv, NEW c \in Clients, NEW x \in Seq(Segments), NEW y \in Seq(Segments),
         inbox[c] = Cat(x, y), Ended(c) => y # <<>>, inbox'[c] = y, x # <<>>,
         UNCHANGED <<client, typed, wire, got, outbox, reset, backlog, fd, up>>,
         Flow(c, <<>>)
  PROVE  Flow(c, x)'
<1>0. NetTypes /\ <<>> \in Seq(Segments)
  BY EmptySeq DEF NetInv
<1>1. /\ Live(c)' = Live(c) /\ Typed(c)' = Typed(c)
      /\ Stream(c)' = Stream(c) /\ EchoesOwn(c)' = EchoesOwn(c)
  BY DEF Live, Connected, Typed, Stream, EchoesOwn
<1>2. PICK a \in Seq(Segments), w \in Seq(Segments) : a = Cat(got[c], outbox[c]) /\ w = wire[c]
  BY <1>0, FlowTypes
<1>3. PICK n \in Seq(Segments) : n = inbox[c] /\ n = Cat(x, y)
  BY <1>0, FlowTypes
<1>4. PICK u \in Seq(Segments) : u = Cat(n, w) /\ Cat(<<>>, u) = u /\ u = Cat(x, Cat(y, w))
  BY <1>0, <1>3, CatLaws, SMTT(30)
<1>5. PICK z \in Segments, s \in Seq(Segments) : z = Fin(c) /\ s = Typed(c)
  BY <1>0, TypedIs
<1>6. Live(c) => Cat(a, u) = Stream(c) /\ (client[c] = "gone" => u # <<>>)
  BY <1>2, <1>3, <1>4 DEF Flow
<1>7. CASE ~Live(c)
  BY <1>1, <1>7 DEF Flow
<1>8. CASE Live(c)
  <2>1. ASSUME client[c] = "gone", Cat(y, w) = <<>> PROVE FALSE
    <3>1. y = <<>> /\ w = <<>>
      BY <2>1, <1>0, CatLaws
    <3>2. Cat(x, <<>>) = x
      BY CatLaws, <1>0
    <3>3. u = x /\ n = x
      BY <1>3, <1>4, <2>1, <3>1, <3>2
    <3>4. Cat(a, x) = Append(s, z)
      BY <1>5, <1>6, <1>8, <2>1, <3>3 DEF Stream
    <3>5. Last(Cat(a, x)) = Last(x) /\ Last(Append(s, z)) = z
      BY LastOfCat, LastOfAppend
    <3>6. Last(n) = z /\ n # <<>>
      BY <3>3, <3>4, <3>5
    <3> QED
      BY <1>3, <1>5, <3>1, <3>6 DEF Ended
  <2>2. Cat(a, Cat(x, Cat(y, w))) = Stream(c)
    BY <1>4, <1>6, <1>8
  <2>3. inbox'[c] = y /\ wire'[c] = w /\ Cat(got'[c], outbox'[c]) = a /\ client'[c] = client[c]
    BY <1>2
  <2> QED
    BY <1>1, <1>8, <2>1, <2>2, <2>3 DEF Flow
<1> QED
  BY <1>7, <1>8

LEMMA FlowRead ==
  ASSUME IInv, FlowInv, NEW t \in Threads, Read(t)
  PROVE  FlowInv'
<1>1. /\ NetInv /\ EchoInv /\ MtTypes /\ RegInv /\ inbox \in [Clients -> Seq(Segments)]
  BY DEF IInv, FlowInv, NetInv, NetTypes
<1>2. PICK c \in Clients, x \in Seq(Segments), y \in Seq(Segments) : ReadTakes(t, c, x, y)
  BY ReadIs
<1>3. /\ x # <<>> /\ inbox[c] = Cat(x, y) /\ (Ended(c) => y # <<>>)
      /\ fd[c] = Head(batch[t]) /\ fd[c] \in reg[t] /\ fd[c] # ListenFd /\ fd[c] # NoFd /\ client[c] # "new"
      /\ buf[t] = <<>> /\ buf' = [buf EXCEPT ![t] = x] /\ inbox' = [inbox EXCEPT ![c] = y]
      /\ UNCHANGED <<client, typed, wire, got, outbox, reset, backlog, fd, up, batch>>
  BY <1>2 DEF ReadTakes, Idle
<1>4. /\ buf'[t] = x /\ \A u \in Threads : u # t => buf'[u] = buf[u]
      /\ inbox'[c] = y /\ \A d \in Clients : d # c => inbox'[d] = inbox[d]
  BY <1>1, <1>3 DEF MtTypes
<1>5. EchoInv'
  BY <1>1, <1>3, <1>4 DEF EchoInv
<1>6. \A u \in Threads : ~Holds(u, c)
  <2>1. ASSUME NEW u \in Threads, Holds(u, c) PROVE FALSE
    <3>1. fd[c] \in reg[u]
      BY <2>1, HoldsOne
    <3>2. u = t
      BY <1>1, <1>3, <3>1 DEF RegInv
    <3> QED
      BY <1>3, <2>1, <3>2 DEF Holds
  <2> QED
    BY <2>1
<1>7. Flow(c, x)'
  <2>1. Flow(c, <<>>)
    BY <1>6 DEF FlowInv
  <2> QED
    BY <1>1, <1>3, <1>4, <2>1, FlowTake
<1>8. ASSUME NEW d \in Clients, NEW b, d # c, Flow(d, b) PROVE Flow(d, b)'
  <2>1. Live(d)' = Live(d)
    BY <1>3 DEF Live, Connected
  <2> QED
    BY <1>3, <1>4, <1>8, <2>1, FlowFrame
<1>9. buf'[t] # <<>> /\ batch'[t] = batch[t] /\ Flow(c, buf[t])'
  BY <1>3, <1>4, <1>7
<1>10. \A u \in Threads : u # t => buf'[u] = buf[u] /\ batch'[u] = batch[u]
  BY <1>3, <1>4
<1>11. fd' = fd
  BY <1>3
<1> QED
  BY <1>3, <1>5, <1>8, <1>9, <1>10, <1>11, FlowOne

(* What both outcomes of write rely on. *)
LEMMA WriterIs ==
  ASSUME IInv, FlowInv, NEW t \in Threads, buf[t] # <<>>, buf' = [buf EXCEPT ![t] = <<>>], NextEvent(t)
  PROVE  \E c \in Clients, b \in Seq(Segments) :
           /\ c = Peer(t) /\ b = buf[t] /\ Flow(c, b)
           /\ fd[c] = Head(batch[t]) /\ fd[c] \in reg[t] /\ fd[c] # ListenFd /\ fd[c] # NoFd
           /\ buf'[t] = <<>> /\ \A u \in Threads : u # t => buf'[u] = buf[u] /\ batch'[u] = batch[u]
<1>1. /\ NetInv /\ MtTypes /\ RegInv /\ BatchInv
  BY DEF IInv
<1>2. PICK f \in reg[t] : f = Head(batch[t]) /\ f # ListenFd
  BY <1>1 DEF BatchInv
<1>3. PICK c \in Clients : c = Peer(t) /\ fd[c] = f /\ f \in Fds
  BY <1>1, <1>2, PeerOf DEF Peer
<1>4. PICK b \in Seq(Segments) : b = buf[t]
  BY <1>1 DEF MtTypes
<1>5. Flow(c, b)
  BY <1>2, <1>3, <1>4 DEF FlowInv, Holds
<1>6. /\ buf'[t] = <<>> /\ \A u \in Threads : u # t => buf'[u] = buf[u] /\ batch'[u] = batch[u]
  BY <1>1 DEF MtTypes, NextEvent
<1>7. f # NoFd
  BY <1>3, WatchedBounds
<1> QED
  BY <1>2, <1>3, <1>4, <1>5, <1>6, <1>7

LEMMA FlowWrites ==
  ASSUME IInv, FlowInv, NEW t \in Threads, Write(t)
  PROVE  FlowInv'
<1>1. PICK c \in Clients, b \in Seq(Segments) :
           /\ c = Peer(t) /\ b = buf[t] /\ Flow(c, b)
           /\ fd[c] = Head(batch[t]) /\ fd[c] \in reg[t] /\ fd[c] # ListenFd /\ fd[c] # NoFd
           /\ buf'[t] = <<>> /\ \A u \in Threads : u # t => buf'[u] = buf[u] /\ batch'[u] = batch[u]
  BY WriterIs DEF Write
<1>2. NetInv /\ EchoInv /\ Written(c, b) /\ c \notin reset
  BY <1>1 DEF IInv, FlowInv, Write
<1>3. Live(c) /\ fd' = fd
  BY <1>1, <1>2 DEF Live, Connected, Written
<1>4. EchoInv' /\ \A d \in Clients : \A e : d # c /\ Flow(d, e) => Flow(d, e)'
  BY <1>2, WriteFrame
<1>5. Flow(c, <<>>)'
  BY <1>1, <1>2, <1>3, FlowWrite
<1> QED
  BY <1>1, <1>3, <1>4, <1>5, FlowOne

LEMMA FlowWriteFails ==
  ASSUME IInv, FlowInv, NEW t \in Threads, WriteFails(t)
  PROVE  FlowInv'
<1>1. PICK c \in Clients, b \in Seq(Segments) :
           /\ c = Peer(t) /\ b = buf[t] /\ Flow(c, b)
           /\ fd[c] = Head(batch[t]) /\ fd[c] \in reg[t] /\ fd[c] # ListenFd /\ fd[c] # NoFd
           /\ buf'[t] = <<>> /\ \A u \in Threads : u # t => buf'[u] = buf[u] /\ batch'[u] = batch[u]
  BY WriterIs DEF WriteFails
<1>2. /\ NetTypes /\ EchoInv /\ c \in reset
      /\ UNCHANGED <<client, typed, wire, got, inbox, outbox, reset, backlog, fd, up>>
  BY <1>1 DEF IInv, NetInv, FlowInv, WriteFails, netVars, clientVars, socketVars
<1>3. EchoInv' /\ fd' = fd
  BY <1>2 DEF EchoInv
<1>4. ASSUME NEW d \in Clients, NEW e, Flow(d, e) PROVE Flow(d, e)'
  <2>1. Live(d)' = Live(d)
    BY <1>2 DEF Live, Connected
  <2> QED
    BY <1>2, <1>4, <2>1, FlowFrame
<1>5. Flow(c, <<>>)'
  <2>1. ~Live(c)'
    BY <1>2 DEF Live
  <2> QED
    BY <1>1, <1>2, <2>1, FlowBroken
<1> QED
  BY <1>1, <1>3, <1>4, <1>5, FlowOne

(* accept: nobody holds the new connection, whose number was free. *)
LEMMA FlowAccepts ==
  ASSUME IInv, FlowInv, NEW t \in Threads, Accept(t)
  PROVE  FlowInv'
<1>1. NetInv /\ EchoInv /\ MtTypes /\ RegInv /\ BatchInv /\ NetTypes
  BY DEF IInv, FlowInv, NetInv
<1>2. PICK f \in FreeFds : f = Min(FreeFds)
  <2>1. FreeFds \subseteq Nat /\ FreeFds # {}
    BY <1>1, OpenFdsWatched, WatchedBounds DEF Accept
  <2> QED
    BY <2>1, LeastElement
<1>3. /\ buf[t] = <<>> /\ backlog # <<>> /\ Accepted(f) /\ NextEvent(t) /\ buf' = buf
  BY <1>2 DEF Accept, Listening, Working
<1>4. PICK c \in Clients : fd[c] = NoFd /\ fd' = [fd EXCEPT ![c] = f]
  BY <1>1, <1>3, AcceptKeeps
<1>5. fd'[c] = f /\ \A d \in Clients : d # c => fd'[d] = fd[d]
  BY <1>1, <1>4 DEF NetTypes
<1>6. EchoInv' /\ \A d \in Clients : \A b : Flow(d, b) => Flow(d, b)'
  BY <1>1, <1>3, FlowAccept
<1>7. \A u \in Threads : buf[u] # <<>> => batch'[u] = batch[u]
  BY <1>1, <1>3 DEF NextEvent, MtTypes
<1>8. \A u \in Threads : \A d \in Clients : d # c => (Holds(u, d)' <=> Holds(u, d))
  BY <1>3, <1>5, <1>7 DEF Holds
<1>9. ASSUME NEW u \in Threads PROVE ~Holds(u, c) /\ ~Holds(u, c)'
  <2>1. ~Holds(u, c)
    BY <1>4, HoldsOne
  <2>2. ASSUME Holds(u, c)' PROVE FALSE
    <3>1. buf[u] # <<>> /\ f = Head(batch[u])
      BY <1>3, <1>5, <1>7, <2>2 DEF Holds
    <3>2. f \in reg[u] /\ f # ListenFd
      BY <1>1, <3>1 DEF BatchInv
    <3>3. f \in OpenFds
      BY <1>1, <3>2 DEF RegInv
    <3> QED
      BY <1>1, <3>3, OpenFdsWatched
  <2> QED
    BY <2>1, <2>2
<1>10. ASSUME NEW u \in Threads, NEW d \in Clients, Holds(u, d)' PROVE Flow(d, buf[u])'
  <2>1. d # c
    BY <1>9, <1>10
  <2>2. Flow(d, buf[u])
    BY <1>8, <1>10, <2>1 DEF FlowInv
  <2>3. PICK b : b = buf[u] /\ b = buf'[u]
    BY <1>3
  <2>4. Flow(d, b)'
    BY <1>6, <2>2, <2>3
  <2> QED
    BY <2>3, <2>4
<1>11. ASSUME NEW d \in Clients, \A u \in Threads : ~Holds(u, d)' PROVE Flow(d, <<>>)'
  <2>1. \A u \in Threads : ~Holds(u, d)
    BY <1>8, <1>9, <1>11
  <2> QED
    BY <1>6, <2>1 DEF FlowInv
<1> QED
  BY <1>6, <1>10, <1>11 DEF FlowInv

(* A connection that is closed at once: nobody held it. *)
LEMMA FlowAcceptUnwatched ==
  ASSUME IInv, FlowInv, NEW t \in Threads, AcceptUnwatched(t)
  PROVE  FlowInv'
<1>1. NetInv /\ EchoInv /\ MtTypes
  BY DEF IInv, FlowInv
<1>2. /\ buf[t] = <<>> /\ backlog # <<>> /\ Discarded /\ NextEvent(t) /\ buf' = buf /\ fd' = fd
  BY DEF AcceptUnwatched, Listening, Working, Discarded
<1>3. EchoInv' /\ \A d \in Clients : \A b \in Seq(Segments) : Flow(d, b) => Flow(d, b)'
  BY <1>1, <1>2, FlowDiscard
<1>4. \A u \in Threads : buf[u] # <<>> => batch'[u] = batch[u]
  BY <1>1, <1>2 DEF NextEvent, MtTypes
<1>5. ASSUME NEW u \in Threads, NEW d \in Clients, Flow(d, buf[u]) PROVE Flow(d, buf[u])'
  <2>1. PICK b \in Seq(Segments) : b = buf[u] /\ b = buf'[u]
    BY <1>1, <1>2 DEF MtTypes
  <2>2. Flow(d, b)'
    BY <1>3, <1>5, <2>1
  <2> QED
    BY <2>1, <2>2
<1>6. ASSUME NEW d \in Clients, Flow(d, <<>>) PROVE Flow(d, <<>>)'
  <2>1. PICK b \in Seq(Segments) : b = <<>>
    BY EmptySeq
  <2> QED
    BY <1>3, <1>6, <2>1
<1> QED
  BY <1>2, <1>3, <1>4, <1>5, <1>6, FlowKept

(* close: the connection is no longer live, and nobody held it. *)
LEMMA FlowReadEnd ==
  ASSUME IInv, FlowInv, NEW t \in Threads, ReadEnd(t)
  PROVE  FlowInv'
<1>1. NetInv /\ EchoInv /\ MtTypes /\ RegInv /\ BatchInv /\ NetTypes
  BY DEF IInv, FlowInv, NetInv
<1>2. PICK c \in Clients : /\ fd[c] = Head(batch[t]) /\ fd[c] \in reg[t] /\ fd[c] \in Fds /\ Closed(c)
  BY EndIs
<1>3. buf[t] = <<>> /\ buf' = buf /\ batch' = batch
  BY DEF ReadEnd, Reading, Working
<1>4. fd[c] # NoFd /\ fd[c] # ListenFd
  BY <1>2, WatchedBounds
<1>5. fd'[c] = NoFd /\ \A d \in Clients : d # c => fd'[d] = fd[d]
  BY <1>1, <1>2 DEF Closed, NetTypes
<1>6. /\ EchoInv' /\ \A b \in Seq(Segments) : \A e : Flow(c, b) => Flow(c, e)'
      /\ \A d \in Clients : \A b : d # c /\ Flow(d, b) => Flow(d, b)'
  BY <1>1, <1>2, <1>4, FlowClose
<1>7. \A u \in Threads : \A d \in Clients : d # c => (Holds(u, d)' <=> Holds(u, d))
  BY <1>3, <1>5 DEF Holds
<1>8. ASSUME NEW u \in Threads PROVE ~Holds(u, c) /\ ~Holds(u, c)'
  <2>1. ASSUME Holds(u, c) PROVE FALSE
    <3>1. fd[c] \in reg[u]
      BY <2>1, HoldsOne
    <3>2. u = t
      BY <1>1, <1>2, <1>4, <3>1 DEF RegInv
    <3> QED
      BY <1>3, <2>1, <3>2 DEF Holds
  <2>2. ASSUME Holds(u, c)' PROVE FALSE
    <3>1. buf[u] # <<>> /\ Head(batch[u]) = NoFd
      BY <1>3, <1>5, <2>2 DEF Holds
    <3>2. Head(batch[u]) \in Watched
      BY <1>1, <3>1 DEF BatchInv, MtTypes
    <3> QED
      BY <3>1, <3>2, WatchedBounds
  <2> QED
    BY <2>1, <2>2
<1>9. Flow(c, <<>>)'
  <2>1. Flow(c, <<>>) /\ <<>> \in Seq(Segments)
    BY <1>8, EmptySeq DEF FlowInv
  <2> QED
    BY <1>6, <2>1
<1>10. ASSUME NEW u \in Threads, NEW d \in Clients, Holds(u, d)' PROVE Flow(d, buf[u])'
  <2>1. d # c
    BY <1>8, <1>10
  <2>2. Flow(d, buf[u])
    BY <1>7, <1>10, <2>1 DEF FlowInv
  <2>3. PICK b : b = buf[u] /\ b = buf'[u]
    BY <1>3
  <2>4. Flow(d, b)'
    BY <1>6, <2>1, <2>2, <2>3
  <2> QED
    BY <2>3, <2>4
<1>11. ASSUME NEW d \in Clients, \A u \in Threads : ~Holds(u, d)' PROVE Flow(d, <<>>)'
  <2>1. CASE d = c
    BY <1>9, <2>1
  <2>2. CASE d # c
    <3>1. \A u \in Threads : ~Holds(u, d)
      BY <1>7, <1>11, <2>2
    <3> QED
      BY <1>6, <2>2, <3>1 DEF FlowInv
  <2> QED
    BY <2>1, <2>2
<1> QED
  BY <1>6, <1>10, <1>11 DEF FlowInv

(* SIGPIPE: every thread ends, and every connection. *)
LEMMA FlowSigPipe ==
  ASSUME IInv, FlowInv, NEW t \in Threads, SigPipe(t)
  PROVE  FlowInv'
<1>1. NetInv /\ EchoInv /\ MtTypes /\ Exited /\ \A u \in Threads : buf'[u] = <<>>
  BY DEF IInv, FlowInv, SigPipe
<1>2. EchoInv' /\ \A d \in Clients : \A b \in Seq(Segments) : Flow(d, b) =>
                       (IF client[d] = "new" THEN Flow(d, b)' ELSE \A e : Flow(d, e)')
  BY <1>1, FlowExit
<1>3. ASSUME NEW d \in Clients PROVE Flow(d, <<>>)'
  <2>1. CASE \E u \in Threads : Holds(u, d)
    <3>1. PICK u \in Threads : Holds(u, d)
      BY <2>1
    <3>2. client[d] # "new" /\ Flow(d, buf[u])
      BY <3>1, HoldsOne DEF FlowInv
    <3>3. PICK b \in Seq(Segments) : b = buf[u]
      BY <1>1 DEF MtTypes
    <3> QED
      BY <1>2, <3>2, <3>3
  <2>2. CASE \A u \in Threads : ~Holds(u, d)
    <3>1. Flow(d, <<>>) /\ <<>> \in Seq(Segments)
      BY <2>2, EmptySeq DEF FlowInv
    <3>2. IF client[d] = "new" THEN Flow(d, <<>>)' ELSE \A e : Flow(d, e)'
      BY <1>2, <3>1
    <3> QED
      BY <3>2
  <2> QED
    BY <2>1, <2>2
<1>4. \A u \in Threads : \A d \in Clients : ~Holds(u, d)'
  BY <1>1 DEF Holds
<1> QED
  BY <1>2, <1>3, <1>4 DEF FlowInv

LEMMA FlowSteps ==
  ASSUME IInv, FlowInv, [Next]_vars
  PROVE  FlowInv'
<1>1. ASSUME NEW c \in Clients, NetworkStep(c) PROVE FlowInv'
  BY <1>1, FlowNet
<1>2. ASSUME NEW t \in Threads, EpollWait(t) \/ AcceptFails(t) \/ Deregister(t) PROVE FlowInv'
  <2>1. UNCHANGED <<netVars, buf>>
    BY <1>2 DEF EpollWait, AcceptFails, Deregister, threadVars
  <2>2. buf[t] = <<>>
    <3>1. CASE EpollWait(t)
      BY <3>1 DEF EpollWait, IInv, BatchInv
    <3>2. CASE AcceptFails(t)
      BY <3>2 DEF AcceptFails, Listening, Working
    <3>3. CASE Deregister(t)
      BY <3>3 DEF Deregister, IInv, BatchInv
    <3> QED
      BY <1>2, <3>1, <3>2, <3>3
  <2>3. \A u \in Threads : u # t => batch'[u] = batch[u]
    BY <1>2 DEF EpollWait, AcceptFails, Deregister, NextEvent, IInv, MtTypes
  <2> QED
    BY <2>1, <2>2, <2>3, FlowStill
<1>3. ASSUME NEW t \in Threads, ThreadStep(t) PROVE FlowInv'
  BY <1>2, <1>3, FlowAccepts, FlowAcceptUnwatched, FlowRead, FlowWrites, FlowWriteFails,
     FlowSigPipe, FlowReadEnd DEF ThreadStep
<1>4. UNCHANGED vars => FlowInv'
  BY FlowStill DEF vars, threadVars
<1> QED
  BY <1>1, <1>3, <1>4 DEF Next

(* Each client gets its own lines back, in order, however the threads are  *)
(* scheduled and descriptors are handed from one to another.               *)
THEOREM Echoes == Spec => []EchoesOwnLines
<1>1. FlowInv /\ IInv => EchoesOwnLines
  <2>1. ASSUME FlowInv, IInv, NEW c \in Clients PROVE EchoesOwn(c)
    <3>1. NetTypes /\ EchoInv /\ MtTypes
      BY <2>1 DEF FlowInv, IInv, NetInv
    <3>2. CASE \E t \in Threads : Holds(t, c)
      <4>1. PICK t \in Threads : Holds(t, c)
        BY <3>2
      <4>2. PICK b \in Seq(Segments) : b = buf[t]
        BY <3>1 DEF MtTypes
      <4>3. Flow(c, b)
        BY <2>1, <4>1, <4>2 DEF FlowInv
      <4> QED
        BY <3>1, <4>3, FlowEchoes
    <3>3. CASE \A t \in Threads : ~Holds(t, c)
      <4>1. Flow(c, <<>>) /\ <<>> \in Seq(Segments)
        BY <2>1, <3>3, EmptySeq DEF FlowInv
      <4> QED
        BY <3>1, <4>1, FlowEchoes
    <3> QED
      BY <3>2, <3>3
  <2> QED
    BY <2>1 DEF EchoesOwnLines
<1>2. Init => FlowInv
  BY FlowInit
<1>3. IInv /\ FlowInv /\ [Next]_vars => FlowInv'
  BY FlowSteps
<1> QED
  BY <1>1, <1>2, <1>3, Invariant, PTL DEF Spec
=============================================================================
