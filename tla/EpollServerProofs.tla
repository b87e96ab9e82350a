------------------------- MODULE EpollServerProofs -------------------------
(***************************************************************************)
(* Proofs about the epoll server: the instance always watches exactly the  *)
(* open connections, each for the event the server waits for next; no edge *)
(* is lost but to a failed write; and the one buffer gives every client    *)
(* its own lines back as long as the events come one by one.               *)
(***************************************************************************)
EXTENDS EpollServer, EchoNetProofs

Watched == Fds \cup {ListenFd}
Events == [fd : Watched, ev : {"in", "out"}]

EpTypes ==
  /\ DOMAIN mask \subseteq Watched /\ \A f \in DOMAIN mask : mask[f] \in {"in", "out"}
  /\ rdlist \subseteq DOMAIN mask
  /\ batch \in Seq(Events) /\ buf \in Seq(Segments)
  /\ batched \in BOOLEAN /\ broke \in BOOLEAN

(* The registrations: the open connections and the listening socket, which *)
(* is watched for input.                                                   *)
MaskInv ==
  /\ up => DOMAIN mask = OpenFds \cup {ListenFd} /\ mask[ListenFd] = "in"
  /\ ~up => DOMAIN mask = {} /\ batch = <<>> /\ OpenFds = {}

(* The batch: each descriptor once, and still watched for the event that   *)
(* epoll_wait reported -- whatever the events before it did.               *)
BatchInv ==
  /\ \A j, k \in DOMAIN batch : batch[j].fd = batch[k].fd => j = k
  /\ \A k \in DOMAIN batch : batch[k].fd \in DOMAIN mask /\ batch[k].ev = mask[batch[k].fd]

(* A connection that was reset is one the server still has open.           *)
ResetInv == \A c \in reset : fd[c] # NoFd

IInv == NetInv /\ EpTypes /\ MaskInv /\ BatchInv /\ ResetInv /\ NoEdgeLost

-----------------------------------------------------------------------------
LEMMA WatchedBounds ==
  /\ FdLimit \in Nat /\ NoFd \notin Watched /\ ListenFd \in Watched /\ ListenFd \notin Fds
  /\ Fds \subseteq Watched /\ Watched \subseteq 0..FdLimit /\ Fds \subseteq Nat
  BY NetAssumption DEF NetAssumption, Watched, Fds, ListenFd, NoFd

LEMMA OpenFdsWatched ==
  ASSUME NetInv
  PROVE  OpenFds \subseteq Fds /\ FreeFds \subseteq Fds /\ FreeFds \cap OpenFds = {}
  BY DEF NetInv, NetTypes, OpenFds, FreeFds, Fds

(* The event the server is working on, and the ones behind it. *)
LEMMA HeadEvent ==
  ASSUME IInv, batch # <<>>
  PROVE  /\ up /\ Head(batch) \in Events
         /\ Head(batch).fd \in OpenFds \cup {ListenFd} /\ Head(batch).fd \in DOMAIN mask
         /\ Head(batch).ev = mask[Head(batch).fd]
<1>1. batch \in Seq(Events) /\ up /\ DOMAIN mask = OpenFds \cup {ListenFd}
  BY DEF IInv, EpTypes, MaskInv, NetInv, NetTypes
<1>2. 1 \in DOMAIN batch /\ Head(batch) = batch[1] /\ Head(batch) \in Events
  BY <1>1, TailIndex
<1> QED
  BY <1>1, <1>2 DEF IInv, BatchInv

LEMMA NextEvent ==
  ASSUME IInv, batch # <<>>, batch' = Tail(batch)
  PROVE  /\ batch' \in Seq(Events)
         /\ \A j, k \in DOMAIN batch' : batch'[j].fd = batch'[k].fd => j = k
         /\ \A k \in DOMAIN batch' : /\ batch'[k].fd \in DOMAIN mask /\ batch'[k].ev = mask[batch'[k].fd]
                                     /\ batch'[k].fd # Head(batch).fd
         /\ \A f : Noticed(f) /\ f # Head(batch).fd =>
                     f \in rdlist \/ \E k \in DOMAIN batch' : batch'[k].fd = f
<1>1. PICK b \in Seq(Events) : b = batch /\ b # <<>>
  BY DEF IInv, EpTypes
<1>2. /\ \A j, k \in DOMAIN b : b[j].fd = b[k].fd => j = k
      /\ \A k \in DOMAIN b : b[k].fd \in DOMAIN mask /\ b[k].ev = mask[b[k].fd]
  BY <1>1 DEF IInv, BatchInv
<1>3. PICK r \in Seq(Events) : r = Tail(b)
  BY <1>1, TailIndex
<1>4. /\ 1 \in DOMAIN b /\ Head(b) = b[1]
      /\ DOMAIN b \subseteq Nat \ {0} /\ DOMAIN r \subseteq Nat \ {0}
      /\ \A k \in DOMAIN r : k + 1 \in DOMAIN b /\ r[k] = b[k + 1]
      /\ \A k \in DOMAIN b : k > 1 => k - 1 \in DOMAIN r /\ r[k - 1] = b[k]
  BY <1>1, <1>3, TailIndex
<1>5. ASSUME NEW j \in DOMAIN r, NEW k \in DOMAIN r, r[j].fd = r[k].fd PROVE j = k
  <2>1. j + 1 \in DOMAIN b /\ k + 1 \in DOMAIN b /\ b[j + 1].fd = b[k + 1].fd /\ j \in Nat /\ k \in Nat
    BY <1>4, <1>5
  <2>2. j + 1 = k + 1
    BY <1>2, <2>1
  <2> QED
    BY <2>1, <2>2
<1>6. ASSUME NEW k \in DOMAIN r
      PROVE  r[k].fd \in DOMAIN mask /\ r[k].ev = mask[r[k].fd] /\ r[k].fd # Head(b).fd
  <2>1. k + 1 \in DOMAIN b /\ r[k] = b[k + 1] /\ k + 1 # 1
    BY <1>4
  <2> QED
    BY <1>2, <1>4, <2>1
<1>7. ASSUME NEW f, NEW k \in DOMAIN b, b[k].fd = f, f # Head(b).fd
      PROVE  \E j \in DOMAIN r : r[j].fd = f
  <2>1. k \in Nat /\ k # 0 /\ k # 1
    BY <1>4, <1>7
  <2>2. k > 1
    BY <2>1
  <2> QED
    BY <1>4, <1>7, <2>2
<1>8. batch' = r
  BY <1>1, <1>3
<1> QED
  BY <1>1, <1>3, <1>5, <1>6, <1>7, <1>8 DEF Noticed

LEMMA PeerOf ==
  ASSUME IInv, batch # <<>>, Head(batch).fd # ListenFd
  PROVE  /\ Peer \in Clients /\ fd[Peer] = Head(batch).fd /\ fd[Peer] # NoFd
         /\ fd[Peer] \in Fds /\ fd[Peer] \in OpenFds /\ client[Peer] # "new"
         /\ \A d \in Clients : d # Peer => fd[d] # fd[Peer]
<1>1. Head(batch).fd \in OpenFds
  BY HeadEvent
<1>2. PICK c \in Clients : fd[c] = Head(batch).fd /\ fd[c] # NoFd
  BY <1>1 DEF OpenFds
<1>3. Peer = c
  BY <1>2, OwnerOf DEF IInv, Peer
<1>4. client[c] # "new" /\ fd[c] \in Fds /\ \A d \in Clients : d # c => fd[d] # fd[c]
  BY <1>1, <1>2, OpenFdsWatched DEF IInv, NetInv, Connections
<1> QED
  BY <1>1, <1>2, <1>3, <1>4

-----------------------------------------------------------------------------
(* The steps keep the invariant. *)
LEMMA InitInv ==
  ASSUME Init
  PROVE  IInv
<1>1. NetInv
  BY NetInvInit DEF Init
<1>2. OpenFds = {} /\ reset = {} /\ up = TRUE /\ \A c \in Clients : fd[c] = NoFd
  BY DEF Init, NetInit, OpenFds
<1>3. DOMAIN mask = {ListenFd} /\ mask[ListenFd] = "in" /\ rdlist = {} /\ batch = <<>> /\ buf = <<>>
      /\ batched = FALSE /\ broke = FALSE
  BY DEF Init
<1>4. EpTypes
  BY <1>3, WatchedBounds, EmptySeq DEF EpTypes
<1>5. MaskInv /\ BatchInv /\ ResetInv /\ NoEdgeLost
  BY <1>2, <1>3 DEF MaskInv, BatchInv, ResetInv, NoEdgeLost
<1> QED
  BY <1>1, <1>4, <1>5 DEF IInv

LEMMA NetEffect ==
  ASSUME NEW c \in Clients, NetStep(c)
  PROVE  /\ reset' = reset \/ (reset' = reset \cup {c} /\ fd[c] # NoFd)
         /\ backlog' = backlog \/ up
  BY DEF NetStep, Connect, SendLine, ReadLine, Quit, ServerTerminated, Kill, Leave, Arrive, ResetArrives

(* A client or the network: the ready list is told. *)
LEMMA StepNet ==
  ASSUME IInv, NEW c \in Clients, NetStep(c), Edge, UNCHANGED <<mask, batch, buf, batched, broke>>
  PROVE  IInv'
<1>1. NetInv /\ EpTypes /\ MaskInv /\ BatchInv /\ ResetInv /\ NoEdgeLost
  BY DEF IInv
<1>2. /\ NetInv' /\ fd' = fd /\ up' = up /\ OpenFds' = OpenFds
  BY <1>1, NetStepKeeps DEF OpenFds
<1>3. /\ reset' = reset \/ (reset' = reset \cup {c} /\ fd[c] # NoFd)
      /\ backlog' = backlog \/ up
  BY NetEffect
<1>4. PICK hit : hit = {d \in Clients : /\ fd[d] # NoFd
                                        /\ \/ /\ inbox'[d] # inbox[d]
                                              /\ mask[fd[d]] = "in" \/ Last(inbox'[d]) = Fin(d)
                                           \/ d \in reset' \ reset}
  OBVIOUS
<1>5. rdlist' = rdlist \cup (IF Len(backlog') > Len(backlog) THEN {ListenFd} ELSE {}) \cup {fd[d] : d \in hit}
  BY <1>4 DEF Edge
<1>6. Len(backlog') > Len(backlog) => up
  <2>1. Len(backlog) \in Nat
    BY <1>1, LenProperties DEF NetInv, NetTypes
  <2> QED
    BY <1>3, <2>1
<1>7. \A d \in Clients : fd[d] # NoFd => up /\ fd[d] \in DOMAIN mask
  BY <1>1 DEF MaskInv, OpenFds, NetInv, NetTypes
<1>8. EpTypes'
  <2>1. rdlist' \subseteq DOMAIN mask
    BY <1>1, <1>4, <1>5, <1>6, <1>7 DEF EpTypes, MaskInv
  <2> QED
    BY <1>1, <2>1 DEF EpTypes
<1>9. MaskInv' /\ BatchInv'
  BY <1>1, <1>2 DEF MaskInv, BatchInv
<1>10. ResetInv'
  BY <1>1, <1>2, <1>3 DEF ResetInv
<1>11. NoEdgeLost'
  <2>1. ASSUME up, ~broke, NEW d \in Clients, fd[d] # NoFd, mask[fd[d]] = "out" \/ Readable(d)'
        PROVE  Noticed(fd[d])'
    <3>1. CASE mask[fd[d]] = "out" \/ Readable(d)
      <4>1. Noticed(fd[d])
        BY <1>1, <2>1, <3>1 DEF NoEdgeLost
      <4> QED
        BY <1>2, <1>5, <4>1 DEF Noticed
    <3>2. CASE mask[fd[d]] # "out" /\ ~Readable(d)
      <4>1. mask[fd[d]] = "in"
        BY <1>1, <1>7, <2>1, <3>2 DEF EpTypes
      <4>2. inbox'[d] # inbox[d] \/ d \in reset' \ reset
        BY <1>2, <2>1, <3>2 DEF Readable
      <4>3. fd[d] \in rdlist'
        BY <1>4, <1>5, <2>1, <4>1, <4>2
      <4> QED
        BY <1>2, <4>3 DEF Noticed
    <3> QED
      BY <3>1, <3>2
  <2> QED
    BY <1>2, <2>1 DEF NoEdgeLost
<1> QED
  BY <1>2, <1>8, <1>9, <1>10, <1>11 DEF IInv

(* epoll_wait: whoever was in the ready list with something to do is now   *)
(* in the batch.                                                           *)
LEMMA WaitBatch ==
  ASSUME IInv, EpollWait
  PROVE  /\ batch' \in Seq(Events)
         /\ {batch'[k].fd : k \in DOMAIN batch'} = {f \in rdlist : Pending(f)}
         /\ \A j, k \in DOMAIN batch' : batch'[j].fd = batch'[k].fd => j = k
         /\ \A k \in DOMAIN batch' : batch'[k].ev = mask[batch'[k].fd]
         /\ batched' = (batched \/ Len(batch') > 1) /\ batch' # <<>>
<1>1. PICK S : S = {f \in rdlist : Pending(f)}
  OBVIOUS
<1>2. PICK r \in SetToSeqs(S) :
        /\ r # <<>> /\ batch' = [k \in DOMAIN r |-> [fd |-> r[k], ev |-> mask[r[k]]]]
        /\ batched' = (batched \/ Len(r) > 1)
  BY <1>1 DEF EpollWait
<1>3. S \subseteq DOMAIN mask /\ S \subseteq Watched /\ \A f \in DOMAIN mask : mask[f] \in {"in", "out"}
  BY <1>1 DEF IInv, EpTypes
<1>4. IsFiniteSet(S)
  <2>1. IsFiniteSet(0..FdLimit)
    BY WatchedBounds, FS_Interval
  <2>2. IsFiniteSet(Watched)
    BY <2>1, WatchedBounds, FS_Subset
  <2> QED
    BY <1>3, <2>2, FS_Subset
<1>5. r \in Seq(S) /\ {r[k] : k \in DOMAIN r} = S /\ \A j, k \in DOMAIN r : r[j] = r[k] => j = k
  BY <1>4, Enumeration
<1>6. /\ Len(r) \in Nat /\ DOMAIN r = 1..Len(r) /\ Len(r) # 0 /\ \A k \in DOMAIN r : r[k] \in S
  BY <1>2, <1>5, LenProperties, EmptySeq
<1>7. batch' \in [1..Len(r) -> Events]
  BY <1>2, <1>3, <1>6 DEF Events
<1>8. batch' \in Seq(Events) /\ Len(batch') = Len(r) /\ DOMAIN batch' = DOMAIN r /\ batch' # <<>>
  <2>1. batch' \in Seq(Events) /\ DOMAIN batch' = 1..Len(r)
    BY <1>6, <1>7, SeqDef
  <2>2. Len(batch') = Len(r)
    BY <1>6, <2>1, LenProperties
  <2> QED
    BY <1>6, <2>1, <2>2, EmptySeq
<1>9. \A k \in DOMAIN batch' : batch'[k].fd = r[k] /\ batch'[k].ev = mask[r[k]]
  BY <1>2, <1>8
<1> QED
  BY <1>1, <1>2, <1>5, <1>8, <1>9

LEMMA StepWait ==
  ASSUME IInv, EpollWait
  PROVE  IInv'
<1>1. /\ NetInv /\ EpTypes /\ MaskInv /\ ResetInv /\ NoEdgeLost /\ up /\ batch = <<>>
  BY DEF IInv, EpollWait
<1>2. /\ UNCHANGED <<client, typed, wire, got, inbox, outbox, reset, backlog, fd, up>>
      /\ UNCHANGED <<mask, buf, broke>> /\ rdlist' = {}
  BY DEF EpollWait, netVars, clientVars, socketVars
<1>3. /\ batch' \in Seq(Events)
      /\ {batch'[k].fd : k \in DOMAIN batch'} = {f \in rdlist : Pending(f)}
      /\ \A j, k \in DOMAIN batch' : batch'[j].fd = batch'[k].fd => j = k
      /\ \A k \in DOMAIN batch' : batch'[k].ev = mask[batch'[k].fd]
      /\ batched' = (batched \/ Len(batch') > 1)
  BY WaitBatch
<1>4. NetInv' /\ OpenFds' = OpenFds
  BY <1>1, <1>2 DEF NetInv, NetTypes, Connections, OpenFds
<1>5. EpTypes'
  BY <1>1, <1>2, <1>3 DEF EpTypes
<1>6. MaskInv' /\ ResetInv'
  BY <1>1, <1>2, <1>4 DEF MaskInv, ResetInv
<1>7. BatchInv'
  <2>1. \A k \in DOMAIN batch' : batch'[k].fd \in rdlist
    BY <1>3
  <2> QED
    BY <1>1, <1>2, <1>3, <2>1 DEF BatchInv, EpTypes
<1>8. NoEdgeLost'
  <2>1. ASSUME ~broke, NEW d \in Clients, fd[d] # NoFd, mask[fd[d]] = "out" \/ Readable(d)
        PROVE  \E k \in DOMAIN batch' : batch'[k].fd = fd[d]
    <3>1. fd[d] \in rdlist
      BY <1>1, <2>1 DEF NoEdgeLost, Noticed
    <3>2. Owner(fd[d]) = d /\ fd[d] # ListenFd
      BY <1>1, <2>1, OwnerOf, WatchedBounds DEF NetInv, NetTypes
    <3>3. Pending(fd[d])
      BY <2>1, <3>2 DEF Pending
    <3>4. fd[d] \in {batch'[k].fd : k \in DOMAIN batch'}
      BY <1>3, <3>1, <3>3
    <3> QED
      BY <3>4
  <2>2. \A d \in Clients : Readable(d)' = Readable(d)
    BY <1>2 DEF Readable
  <2> QED
    BY <1>2, <2>1, <2>2 DEF NoEdgeLost, Noticed
<1> QED
  BY <1>4, <1>5, <1>6, <1>7, <1>8 DEF IInv

(* The server ends, or is ended: nothing is registered any more. *)
LEMMA StepExit ==
  ASSUME IInv, Exit
  PROVE  IInv'
<1>1. NetInv' /\ ~up' /\ OpenFds' = {} /\ reset' = {}
  BY ExitKeeps DEF IInv, Exit, Exited
<1>2. batch' = <<>> /\ mask' = <<>> /\ rdlist' = {} /\ buf' = <<>> /\ batched' = batched /\ broke' = broke
  BY DEF Exit
<1>3. DOMAIN mask' = {} /\ DOMAIN batch' = {}
  BY <1>2
<1>4. EpTypes'
  BY <1>2, <1>3, EmptySeq DEF IInv, EpTypes
<1>5. MaskInv' /\ BatchInv' /\ ResetInv' /\ NoEdgeLost'
  BY <1>1, <1>2, <1>3 DEF MaskInv, BatchInv, ResetInv, NoEdgeLost
<1> QED
  BY <1>1, <1>4, <1>5 DEF IInv

(* The lowest free descriptor, and what accept makes of it. *)
LEMMA AcceptedAs ==
  ASSUME IInv, Accept
  PROVE  /\ Min(FreeFds) \in FreeFds /\ Min(FreeFds) \in Fds /\ Min(FreeFds) \notin DOMAIN mask
         /\ Head(backlog) \in Clients /\ fd[Head(backlog)] = NoFd
         /\ fd' = [fd EXCEPT ![Head(backlog)] = Min(FreeFds)]
         /\ NetInv' /\ up' = up /\ up /\ inbox' = inbox /\ reset' = reset
         /\ OpenFds' = OpenFds \cup {Min(FreeFds)}
<1>1. NetInv /\ up /\ DOMAIN mask = OpenFds \cup {ListenFd}
  BY HeadEvent DEF IInv, MaskInv, Accept, Is
<1>2. FreeFds \subseteq Nat /\ FreeFds # {}
  BY <1>1, OpenFdsWatched, WatchedBounds DEF Accept
<1>3. PICK f \in FreeFds : f = Min(FreeFds)
  BY <1>2, LeastElement
<1>4. f \in Fds /\ f \notin DOMAIN mask
  BY <1>1, OpenFdsWatched, WatchedBounds
<1>5. Accepted(f) /\ backlog # <<>>
  BY <1>3 DEF Accept
<1>6. /\ NetInv' /\ up' = up /\ OpenFds' = OpenFds \cup {f} /\ UNCHANGED <<inbox, reset>>
      /\ \E c \in Clients : fd[c] = NoFd /\ fd' = [fd EXCEPT ![c] = f] /\ c = Head(backlog)
  BY <1>1, <1>5, AcceptKeeps
<1> QED
  BY <1>1, <1>3, <1>4, <1>6

(* accept: the connection is watched, and in the ready list if something   *)
(* has arrived already.                                                    *)
LEMMA StepAccept ==
  ASSUME IInv, Accept
  PROVE  IInv'
<1>1. /\ NetInv /\ EpTypes /\ MaskInv /\ BatchInv /\ ResetInv /\ NoEdgeLost
      /\ batch # <<>> /\ Head(batch).fd = ListenFd
  BY DEF IInv, Accept, Is
<1>2. PICK f \in Fds, c \in Clients :
        /\ f = Min(FreeFds) /\ c = Head(backlog) /\ f \notin DOMAIN mask /\ fd[c] = NoFd
        /\ fd' = [fd EXCEPT ![c] = f]
  BY AcceptedAs
<1>3. /\ NetInv' /\ up' = up /\ up /\ inbox' = inbox /\ reset' = reset /\ OpenFds' = OpenFds \cup {f}
  BY <1>2, AcceptedAs
<1>4. /\ batch' = Tail(batch) /\ buf' = buf /\ batched' = batched /\ broke' = broke
      /\ Watch(f, "in", inbox[c] # <<>>)
  BY <1>2 DEF Accept
<1>5. /\ DOMAIN mask' = DOMAIN mask \cup {f} /\ mask'[f] = "in"
      /\ \A g \in DOMAIN mask : mask'[g] = mask[g]
  BY <1>2, <1>4 DEF Watch
<1>6. rdlist \subseteq rdlist' /\ rdlist' \subseteq rdlist \cup {f} /\ (inbox[c] # <<>> => f \in rdlist')
  BY <1>4 DEF Watch
<1>7. /\ fd'[c] = f /\ \A d \in Clients : d # c => fd'[d] = fd[d]
      /\ f # ListenFd /\ f # NoFd /\ f \in Watched
  BY <1>1, <1>2, WatchedBounds DEF NetInv, NetTypes
<1>8. /\ batch' \in Seq(Events)
      /\ \A j, k \in DOMAIN batch' : batch'[j].fd = batch'[k].fd => j = k
      /\ \A k \in DOMAIN batch' : batch'[k].fd \in DOMAIN mask /\ batch'[k].ev = mask[batch'[k].fd]
      /\ \A g : Noticed(g) /\ g # ListenFd => g \in rdlist \/ \E k \in DOMAIN batch' : batch'[k].fd = g
  BY <1>1, <1>4, NextEvent
<1>9. EpTypes'
  BY <1>1, <1>4, <1>5, <1>6, <1>7, <1>8 DEF EpTypes
<1>10. MaskInv'
  BY <1>1, <1>3, <1>5, <1>7 DEF MaskInv
<1>11. BatchInv'
  BY <1>5, <1>8 DEF BatchInv
<1>12. ResetInv'
  BY <1>1, <1>3, <1>7, <1>2 DEF ResetInv, NetInv, NetTypes
<1>13. NoEdgeLost'
  <2>1. ASSUME ~broke, NEW d \in Clients, fd'[d] # NoFd, mask'[fd'[d]] = "out" \/ Readable(d)'
        PROVE  fd'[d] \in rdlist' \/ \E k \in DOMAIN batch' : batch'[k].fd = fd'[d]
    <3>1. CASE d = c
      <4>1. Readable(c)' /\ c \notin reset
        BY <1>1, <1>2, <1>5, <1>7, <2>1, <3>1 DEF ResetInv
      <4>2. inbox[c] # <<>>
        BY <1>3, <4>1 DEF Readable
      <4> QED
        BY <1>6, <1>7, <3>1, <4>2
    <3>2. CASE d # c
      <4>1. fd'[d] = fd[d] /\ fd[d] # NoFd /\ fd[d] \in DOMAIN mask /\ fd[d] # ListenFd
        BY <1>1, <1>3, <1>7, <2>1, <3>2, WatchedBounds DEF MaskInv, OpenFds, NetInv, NetTypes
      <4>2. mask[fd[d]] = "out" \/ Readable(d)
        BY <1>3, <1>5, <2>1, <4>1 DEF Readable
      <4>3. Noticed(fd[d])
        BY <1>1, <1>3, <2>1, <4>1, <4>2 DEF NoEdgeLost
      <4> QED
        BY <1>6, <1>8, <4>1, <4>3
    <3> QED
      BY <3>1, <3>2
  <2> QED
    BY <1>4, <2>1 DEF NoEdgeLost, Noticed
<1> QED
  BY <1>3, <1>9, <1>10, <1>11, <1>12, <1>13 DEF IInv

(* The server turns to the next event after it has set what it watches the *)
(* first one for.                                                          *)
LEMMA Rewatched ==
  ASSUME IInv, batch # <<>>, Head(batch).fd # ListenFd, batch' = Tail(batch),
         NEW c \in Clients, c = Peer, NEW ev \in {"in", "out"},
         DOMAIN mask' = DOMAIN mask, mask'[Head(batch).fd] = ev,
         \A g \in DOMAIN mask : g # Head(batch).fd => mask'[g] = mask[g],
         rdlist \subseteq rdlist', rdlist' \subseteq rdlist \cup {Head(batch).fd},
         ev = "out" \/ Readable(c)' => Head(batch).fd \in rdlist',
         NetInv', buf' \in Seq(Segments), batched' = batched, broke' = broke,
         fd' = fd, up' = up, reset' = reset, \A d \in Clients : d # c => inbox'[d] = inbox[d]
  PROVE  IInv'
<1>1. /\ NetInv /\ EpTypes /\ MaskInv /\ BatchInv /\ ResetInv /\ NoEdgeLost
  BY DEF IInv
<1>2. PICK f \in Fds :
         /\ f = Head(batch).fd /\ fd[c] = f
         /\ \A d \in Clients : d # c => fd[d] # f
  BY PeerOf
<1>3. up /\ f \in DOMAIN mask /\ f # ListenFd
  BY <1>2, HeadEvent, WatchedBounds
<1>4. /\ DOMAIN mask' = DOMAIN mask /\ mask'[f] = ev
      /\ \A g \in DOMAIN mask : g # f => mask'[g] = mask[g]
      /\ rdlist \subseteq rdlist' /\ rdlist' \subseteq rdlist \cup {f}
      /\ ev = "out" \/ Readable(c)' => f \in rdlist'
  BY <1>2
<1>5. /\ batch' \in Seq(Events)
      /\ \A j, k \in DOMAIN batch' : batch'[j].fd = batch'[k].fd => j = k
      /\ \A k \in DOMAIN batch' : batch'[k].fd \in DOMAIN mask /\ batch'[k].ev = mask[batch'[k].fd] /\ batch'[k].fd # f
      /\ \A g : Noticed(g) /\ g # f => g \in rdlist \/ \E k \in DOMAIN batch' : batch'[k].fd = g
  BY <1>2, NextEvent
<1>6. OpenFds' = OpenFds
  BY DEF OpenFds
<1>7. EpTypes'
  <2>1. \A g \in DOMAIN mask' : mask'[g] \in {"in", "out"}
    BY <1>1, <1>4 DEF EpTypes
  <2>2. rdlist' \subseteq DOMAIN mask'
    BY <1>1, <1>3, <1>4 DEF EpTypes
  <2> QED
    BY <1>1, <1>4, <1>5, <2>1, <2>2 DEF EpTypes
<1>8. MaskInv'
  BY <1>1, <1>3, <1>4, <1>6 DEF MaskInv
<1>9. BatchInv'
  BY <1>4, <1>5 DEF BatchInv
<1>10. ResetInv'
  BY <1>1 DEF ResetInv
<1>11. NoEdgeLost'
  <2>1. ASSUME ~broke, NEW d \in Clients, fd[d] # NoFd, mask'[fd[d]] = "out" \/ Readable(d)'
        PROVE  fd[d] \in rdlist' \/ \E k \in DOMAIN batch' : batch'[k].fd = fd[d]
    <3>1. CASE d = c
      BY <1>2, <1>4, <2>1, <3>1
    <3>2. CASE d # c
      <4>1. fd[d] # f /\ fd[d] \in DOMAIN mask
        BY <1>1, <1>2, <1>3, <2>1, <3>2 DEF MaskInv, OpenFds
      <4>2. mask[fd[d]] = "out" \/ Readable(d)
        BY <1>2, <1>4, <2>1, <3>2, <4>1 DEF Readable
      <4>3. Noticed(fd[d])
        BY <1>1, <1>3, <2>1, <4>2 DEF NoEdgeLost
      <4> QED
        BY <1>4, <1>5, <4>1, <4>3
    <3> QED
      BY <3>1, <3>2
  <2> QED
    BY <2>1 DEF NoEdgeLost, Noticed
<1> QED
  BY <1>7, <1>8, <1>9, <1>10, <1>11 DEF IInv

LEMMA StepReadData ==
  ASSUME IInv, ReadData
  PROVE  IInv'
<1>1. /\ NetInv /\ NetTypes /\ batch # <<>> /\ Head(batch).fd # ListenFd /\ batch' = Tail(batch)
      /\ Watch(Head(batch).fd, "out", TRUE) /\ batched' = batched /\ broke' = broke
  BY DEF IInv, NetInv, ReadData, Event
<1>2. PICK c \in Clients : c = Peer
  BY <1>1, PeerOf
<1>3. Drained(c) /\ buf' = Received(c)
  BY <1>2 DEF ReadData
<1>4. /\ NetInv' /\ fd' = fd /\ up' = up /\ reset' = reset
      /\ \A d \in Clients : d # c => inbox'[d] = inbox[d]
  BY <1>1, <1>3, DrainKeeps
<1>5. buf' \in Seq(Segments)
  BY <1>1, <1>3, ReceivedIs
<1>6. /\ DOMAIN mask' = DOMAIN mask /\ mask'[Head(batch).fd] = "out"
      /\ \A g \in DOMAIN mask : g # Head(batch).fd => mask'[g] = mask[g]
      /\ rdlist' = rdlist \cup {Head(batch).fd}
  BY <1>1, HeadEvent DEF Watch
<1> QED
  BY <1>1, <1>2, <1>4, <1>5, <1>6, Rewatched

LEMMA StepWriteEcho ==
  ASSUME IInv, WriteEcho
  PROVE  IInv'
<1>1. /\ NetInv /\ batch # <<>> /\ Head(batch).fd # ListenFd /\ batch' = Tail(batch)
      /\ buf' = buf /\ batched' = batched /\ broke' = broke
  BY DEF IInv, WriteEcho, Event
<1>2. PICK c \in Clients : c = Peer
  BY <1>1, PeerOf
<1>3. Written(c, buf) /\ Watch(Head(batch).fd, "in", Readable(c))
  BY <1>2 DEF WriteEcho
<1>4. NetInv' /\ UNCHANGED <<fd, up, inbox, reset>>
  BY <1>1, <1>3, WriteKeeps
<1>5. Readable(c)' <=> Readable(c)
  BY <1>4 DEF Readable
<1>6. /\ DOMAIN mask' = DOMAIN mask /\ mask'[Head(batch).fd] = "in"
      /\ \A g \in DOMAIN mask : g # Head(batch).fd => mask'[g] = mask[g]
      /\ rdlist \subseteq rdlist' /\ rdlist' \subseteq rdlist \cup {Head(batch).fd}
      /\ Readable(c) => Head(batch).fd \in rdlist'
  BY <1>1, <1>3, HeadEvent DEF Watch
<1>7. buf' \in Seq(Segments)
  BY <1>1 DEF IInv, EpTypes
<1> QED
  BY <1>1, <1>2, <1>4, <1>5, <1>6, <1>7, Rewatched

(* The end of a connection: closed and forgotten. *)
LEMMA StepReadEnd ==
  ASSUME IInv, ReadEnd
  PROVE  IInv'
<1>1. /\ NetInv /\ EpTypes /\ MaskInv /\ BatchInv /\ ResetInv /\ NoEdgeLost
      /\ batch # <<>> /\ Head(batch).fd # ListenFd
  BY DEF IInv, ReadEnd, Event
<1>2. PICK f \in Fds, c \in Clients :
         /\ f = Head(batch).fd /\ c = Peer /\ fd[c] = f /\ fd[c] # NoFd
         /\ \A d \in Clients : d # c => fd[d] # f
  BY <1>1, PeerOf
<1>3. /\ Closed(c) /\ buf' = <<>> /\ batched' = batched /\ broke' = broke /\ batch' = Tail(batch)
      /\ mask' = [g \in DOMAIN mask \ {f} |-> mask[g]] /\ rdlist' = rdlist \ {f}
  BY <1>2 DEF ReadEnd
<1>4. /\ NetInv' /\ fd' = [fd EXCEPT ![c] = NoFd] /\ up' = up /\ OpenFds' = OpenFds \ {f}
      /\ \A d \in Clients : d # c => inbox'[d] = inbox[d] /\ (d \in reset' <=> d \in reset)
  BY <1>1, <1>2, <1>3, CloseKeeps
<1>5. /\ up /\ f # ListenFd /\ fd'[c] = NoFd /\ \A d \in Clients : d # c => fd'[d] = fd[d]
  BY <1>1, <1>2, <1>4, HeadEvent, WatchedBounds DEF NetInv, NetTypes
<1>6. DOMAIN mask' = DOMAIN mask \ {f} /\ \A g \in DOMAIN mask' : mask'[g] = mask[g]
  BY <1>3
<1>7. /\ batch' \in Seq(Events)
      /\ \A j, k \in DOMAIN batch' : batch'[j].fd = batch'[k].fd => j = k
      /\ \A k \in DOMAIN batch' : batch'[k].fd \in DOMAIN mask /\ batch'[k].ev = mask[batch'[k].fd] /\ batch'[k].fd # f
      /\ \A g : Noticed(g) /\ g # f => g \in rdlist \/ \E k \in DOMAIN batch' : batch'[k].fd = g
  BY <1>1, <1>2, <1>3, NextEvent
<1>8. EpTypes'
  BY <1>1, <1>3, <1>6, <1>7, EmptySeq DEF EpTypes
<1>9. MaskInv'
  BY <1>1, <1>4, <1>5, <1>6 DEF MaskInv
<1>10. BatchInv'
  BY <1>6, <1>7 DEF BatchInv
<1>11. ResetInv'
  <2>1. reset' \subseteq reset /\ c \notin reset' /\ reset \subseteq Clients
    BY <1>1, <1>3 DEF Closed, NetInv, NetTypes
  <2>2. ASSUME NEW d \in reset' PROVE fd'[d] # NoFd
    <3>1. d \in Clients /\ d # c /\ d \in reset
      BY <2>1, <2>2
    <3> QED
      BY <1>1, <1>5, <3>1 DEF ResetInv
  <2> QED
    BY <2>2 DEF ResetInv
<1>12. NoEdgeLost'
  <2>1. ASSUME ~broke, NEW d \in Clients, fd'[d] # NoFd, mask'[fd'[d]] = "out" \/ Readable(d)'
        PROVE  fd'[d] \in rdlist' \/ \E k \in DOMAIN batch' : batch'[k].fd = fd'[d]
    <3>1. d # c /\ fd'[d] = fd[d] /\ fd[d] # f /\ fd[d] \in DOMAIN mask'
      BY <1>1, <1>2, <1>5, <1>6, <2>1 DEF MaskInv, OpenFds
    <3>2. mask[fd[d]] = "out" \/ Readable(d)
      BY <1>4, <1>6, <2>1, <3>1 DEF Readable
    <3>3. Noticed(fd[d])
      BY <1>1, <1>5, <2>1, <3>1, <3>2 DEF NoEdgeLost
    <3> QED
      BY <1>3, <1>7, <3>1, <3>3
  <2> QED
    BY <1>3, <2>1 DEF NoEdgeLost, Noticed
<1> QED
  BY <1>4, <1>8, <1>9, <1>10, <1>11, <1>12 DEF IInv

(* A write fails: the rest of the batch is dropped, or the server ends. *)
LEMMA StepWriteFails ==
  ASSUME IInv, WriteFails
  PROVE  IInv'
<1>1. CASE Exit
  BY <1>1, StepExit
<1>2. CASE ~Exit
  <2>1. batch' = <<>> /\ broke' = TRUE /\ UNCHANGED <<netVars, mask, rdlist, buf, batched>>
    BY <1>2 DEF WriteFails
  <2>2. UNCHANGED <<client, typed, wire, got, inbox, outbox, reset, backlog, fd, up, OpenFds>>
    BY <2>1 DEF netVars, clientVars, socketVars, OpenFds
  <2>3. NetInv'
    BY <2>2 DEF IInv, NetInv, NetTypes, Connections
  <2>4. DOMAIN batch' = {} /\ batch' \in Seq(Events)
    BY <2>1, EmptySeq
  <2>5. EpTypes' /\ MaskInv' /\ BatchInv' /\ ResetInv' /\ NoEdgeLost'
    BY <2>1, <2>2, <2>4 DEF IInv, EpTypes, MaskInv, BatchInv, ResetInv, NoEdgeLost
  <2> QED
    BY <2>3, <2>5 DEF IInv
<1> QED
  BY <1>1, <1>2

LEMMA StepStutters ==
  ASSUME IInv, UNCHANGED vars
  PROVE  IInv'
<1>1. /\ UNCHANGED <<client, typed, wire, got, inbox, outbox, reset, backlog, fd, up, OpenFds>>
      /\ UNCHANGED <<mask, rdlist, batch, buf, batched, broke>>
  BY DEF vars, netVars, clientVars, socketVars, serverVars, OpenFds
<1>2. NetInv' /\ EpTypes' /\ MaskInv' /\ BatchInv' /\ ResetInv'
  BY <1>1 DEF IInv, NetInv, NetTypes, Connections, EpTypes, MaskInv, BatchInv, ResetInv
<1>3. \A c \in Clients : Readable(c)' = Readable(c)
  BY <1>1 DEF Readable
<1>4. NoEdgeLost'
  BY <1>1, <1>3 DEF IInv, NoEdgeLost, Noticed
<1> QED
  BY <1>2, <1>4 DEF IInv

(* The invariant of the epoll server. *)
THEOREM Invariant == Spec => []IInv
<1>1. ASSUME IInv, [Next]_vars
      PROVE  IInv'
  <2>1. ASSUME NEW c \in Clients, NetStep(c), Edge, UNCHANGED <<mask, batch, buf, batched, broke>> PROVE IInv'
    BY <1>1, <2>1, StepNet
  <2>2. ServerStep => IInv'
    BY <1>1, StepWait, StepAccept, StepExit, StepReadData, StepReadEnd, StepWriteEcho, StepWriteFails
    DEF ServerStep, AcceptFails
  <2>3. UNCHANGED vars => IInv'
    BY <1>1, StepStutters
  <2> QED
    BY <1>1, <2>1, <2>2, <2>3 DEF Next
<1> QED
  BY InitInv, <1>1, PTL DEF Spec

(* The open connections and the listening socket are registered, nothing   *)
(* else is, and neither the ready list nor the batch names a descriptor    *)
(* that is not -- although events of one batch close descriptors that      *)
(* accept hands out again.                                                 *)
THEOREM TypeCorrect == Spec => []TypeOK
<1>1. IInv => TypeOK
  BY NetInvTypes DEF IInv, EpTypes, MaskInv, BatchInv, TypeOK
<1> QED
  BY <1>1, Invariant, PTL

(* Edge triggering forgets nobody, for any number of clients and any       *)
(* batches: what is left to read or to write is in the ready list or in    *)
(* the batch, until a failed write drops a batch.                          *)
THEOREM EdgesKept == Spec => []NoEdgeLost
<1>1. IInv => NoEdgeLost
  BY DEF IInv
<1> QED
  BY <1>1, Invariant, PTL

-----------------------------------------------------------------------------
(* The echo: the connections that the server owes the contents of buf.     *)
Owed(c) == fd[c] # NoFd /\ c \notin reset /\ mask[fd[c]] = "out"
Buffered(c) == IF Owed(c) THEN buf ELSE <<>>

(* As long as the events come one by one, an echo that is owed is the next *)
(* thing the server does: no read can come in between and replace it.      *)
OutInv ==
  /\ Len(batch) <= 1
  /\ \A c \in Clients : Owed(c) =>
       IF batch = <<>> THEN fd[c] \in rdlist ELSE Head(batch).fd = fd[c]

FlowInv ==
  /\ EchoInv
  /\ ~batched => OutInv /\ \A c \in Clients : Flow(c, Buffered(c))

LEMMA BufferedIs ==
  ASSUME IInv
  PROVE  \A c : Buffered(c) \in Seq(Segments)
  BY EmptySeq DEF IInv, EpTypes, Buffered

(* While the server works on an event it owes an echo to nobody but the    *)
(* connection of this event, and there is no further event.                *)
LEMMA OwedOnly ==
  ASSUME IInv, OutInv, batch # <<>>
  PROVE  /\ \A d \in Clients : Owed(d) => d = Peer /\ Head(batch).fd # ListenFd /\ Head(batch).ev = "out"
         /\ Tail(batch) = <<>>
<1>1. ASSUME NEW d \in Clients, Owed(d)
      PROVE  d = Peer /\ Head(batch).fd # ListenFd /\ Head(batch).ev = "out"
  <2>1. Head(batch).fd = fd[d] /\ fd[d] # NoFd /\ mask[fd[d]] = "out"
    BY <1>1 DEF OutInv, Owed
  <2>2. Peer = d
    BY <2>1, OwnerOf DEF IInv, Peer
  <2>3. fd[d] \in Fds
    BY <2>1 DEF IInv, NetInv, NetTypes
  <2> QED
    BY <2>1, <2>2, <2>3, HeadEvent, WatchedBounds
<1>2. Tail(batch) = <<>>
  <2>1. batch \in Seq(Events) /\ Len(batch) \in Nat /\ Len(batch) # 0
    BY LenProperties, EmptySeq DEF IInv, EpTypes
  <2>2. Len(batch) = 1
    <3>1. PICK n \in Nat : n = Len(batch) /\ n # 0
      BY <2>1
    <3>2. n <= 1
      BY <3>1 DEF OutInv
    <3> QED
      BY <3>1, <3>2
  <2>3. Tail(batch) \in Seq(Events) /\ Len(Tail(batch)) = 0
    BY <2>1, <2>2, HeadTailProperties
  <2> QED
    BY <2>3, EmptySeq
<1> QED
  BY <1>1, <1>2

LEMMA NoneLen == Len(<<>>) <= 1
  BY EmptySeq

LEMMA FlowInit ==
  ASSUME Init
  PROVE  FlowInv
<1>1. EchoInv /\ \A c \in Clients : Flow(c, <<>>)
  BY EchoInvInit DEF Init
<1>2. \A c \in Clients : ~Owed(c)
  BY DEF Init, NetInit, Owed
<1>3. \A c \in Clients : Buffered(c) = <<>>
  BY <1>2 DEF Buffered
<1>4. OutInv
  BY <1>2, NoneLen DEF OutInv, Init
<1> QED
  BY <1>1, <1>3, <1>4 DEF FlowInv

(* A connection that is not live any more keeps what it got, whatever is   *)
(* in the buffer.                                                          *)
LEMMA FlowNet ==
  ASSUME IInv, FlowInv, NEW c \in Clients, NetStep(c), Edge, UNCHANGED <<mask, batch, buf, batched, broke>>
  PROVE  FlowInv'
<1>1. NetInv /\ EchoInv /\ EchoInv' /\ fd' = fd /\ \A d \in reset : d \in reset'
  BY NetStepKeeps, EchoInvNetStep DEF IInv, FlowInv
<1>2. rdlist \subseteq rdlist'
  BY DEF Edge
<1>3. \A d : Owed(d)' => Owed(d)
  BY <1>1 DEF Owed
<1>4. ASSUME ~batched, NEW d \in Clients PROVE Flow(d, Buffered(d))'
  <2>1. PICK b \in Seq(Segments) : b = Buffered(d)
    BY BufferedIs
  <2>2. Flow(d, b)
    BY <1>4, <2>1 DEF FlowInv
  <2>3. Flow(d, b)'
    BY <1>1, <2>2, FlowNetStep
  <2>4. CASE Owed(d)' <=> Owed(d)
    <3>1. Buffered(d)' = b
      BY <2>1, <2>4 DEF Buffered
    <3> QED
      BY <2>3, <3>1
  <2>5. CASE Owed(d) /\ ~Owed(d)'
    <3>1. ~Live(d)'
      BY <1>1, <2>5 DEF Owed, Live
    <3> QED
      BY <2>3, <3>1 DEF Flow
  <2> QED
    BY <1>3, <2>4, <2>5
<1>5. ~batched => OutInv'
  BY <1>1, <1>2, <1>3 DEF FlowInv, OutInv
<1> QED
  BY <1>1, <1>4, <1>5 DEF FlowInv

(* epoll_wait, and whatever else leaves the connections, their masks and   *)
(* the buffer alone.                                                       *)
LEMMA FlowStill ==
  ASSUME FlowInv, UNCHANGED netVars, UNCHANGED <<mask, buf>>, ~batched' => ~batched, ~batched' => OutInv'
  PROVE  FlowInv'
<1>1. UNCHANGED <<client, typed, wire, got, inbox, outbox, reset, backlog, fd, up>>
  BY DEF netVars, clientVars, socketVars
<1>2. EchoInv'
  BY <1>1 DEF FlowInv, EchoInv
<1>3. ASSUME ~batched, NEW c \in Clients PROVE Flow(c, Buffered(c))'
  <2>1. PICK b : b = Buffered(c)
    OBVIOUS
  <2>2. Flow(c, b) /\ Buffered(c)' = b /\ Live(c)' = Live(c)
    BY <1>1, <1>3, <2>1 DEF FlowInv, Buffered, Owed, Live, Connected
  <2>3. Flow(c, b)'
    BY <1>1, <2>2, FlowFrame
  <2> QED
    BY <2>2, <2>3
<1> QED
  BY <1>2, <1>3 DEF FlowInv

LEMMA FlowWait ==
  ASSUME IInv, FlowInv, EpollWait
  PROVE  FlowInv'
<1>1. /\ batch = <<>> /\ UNCHANGED netVars /\ UNCHANGED <<mask, buf>> /\ NetInv
  BY DEF EpollWait, IInv
<1>2. /\ batch' \in Seq(Events) /\ batch' # <<>>
      /\ {batch'[k].fd : k \in DOMAIN batch'} = {f \in rdlist : Pending(f)}
      /\ batched' = (batched \/ Len(batch') > 1)
  BY WaitBatch
<1>3. UNCHANGED <<fd, reset>>
  BY <1>1 DEF netVars, socketVars
<1>4. ASSUME ~batched' PROVE OutInv'
  <2>1. OutInv /\ ~(Len(batch') > 1) /\ Len(batch') \in Nat /\ Len(batch') # 0
    BY <1>2, <1>4, LenProperties, EmptySeq DEF FlowInv
  <2>2. Len(batch') = 1 /\ DOMAIN batch' = 1..1 /\ Head(batch') = batch'[1]
    <3>1. PICK n \in Nat : n = Len(batch') /\ n # 0 /\ ~(n > 1)
      BY <2>1
    <3>2. n = 1
      BY <3>1
    <3>3. DOMAIN batch' = 1..n /\ Head(batch') = batch'[1]
      BY <1>2, <3>1, LenProperties, HeadTailProperties
    <3> QED
      BY <3>1, <3>2, <3>3
  <2>3. ASSUME NEW d \in Clients, Owed(d)' PROVE Head(batch').fd = fd[d]
    <3>1. Owed(d) /\ fd[d] \in rdlist /\ fd[d] # NoFd /\ mask[fd[d]] = "out"
      BY <1>1, <1>3, <2>1, <2>3 DEF OutInv, Owed
    <3>2. fd[d] # ListenFd
      BY <1>1, <3>1, WatchedBounds DEF NetInv, NetTypes
    <3>3. Pending(fd[d])
      BY <3>1, <3>2 DEF Pending
    <3>4. PICK k \in DOMAIN batch' : batch'[k].fd = fd[d]
      BY <1>2, <3>1, <3>3
    <3> QED
      BY <2>2, <3>4
  <2> QED
    BY <1>2, <1>3, <2>2, <2>3 DEF OutInv
<1> QED
  BY <1>1, <1>2, <1>4, FlowStill

LEMMA FlowExits ==
  ASSUME IInv, FlowInv, Exit
  PROVE  FlowInv'
<1>1. NetInv /\ EchoInv /\ Exited /\ batch' = <<>> /\ batched' = batched
  BY DEF IInv, FlowInv, Exit
<1>2. EchoInv' /\ \A d \in Clients : \A b \in Seq(Segments) : Flow(d, b) =>
                       (IF client[d] = "new" THEN Flow(d, b)' ELSE \A e : Flow(d, e)')
  BY <1>1, FlowExit
<1>3. \A d \in Clients : ~Owed(d)'
  BY <1>1 DEF Exited, Owed
<1>4. \A d \in Clients : Buffered(d)' = <<>>
  BY <1>3 DEF Buffered
<1>5. ASSUME ~batched, NEW d \in Clients PROVE Flow(d, <<>>)'
  <2>1. PICK b \in Seq(Segments) : b = Buffered(d)
    BY BufferedIs
  <2>2. Flow(d, b)
    BY <1>5, <2>1 DEF FlowInv
  <2>3. client[d] = "new" => b = <<>>
    BY <1>1, <2>1 DEF Buffered, Owed, NetInv, Connections
  <2>4. IF client[d] = "new" THEN Flow(d, b)' ELSE \A e : Flow(d, e)'
    BY <1>2, <2>2
  <2> QED
    BY <2>3, <2>4
<1>6. OutInv'
  BY <1>1, <1>3, NoneLen DEF OutInv
<1> QED
  BY <1>1, <1>2, <1>4, <1>5, <1>6 DEF FlowInv

LEMMA FlowAccepts ==
  ASSUME IInv, FlowInv, Accept
  PROVE  FlowInv'
<1>1. NetInv /\ EchoInv /\ backlog # <<>> /\ batch # <<>> /\ Head(batch).fd = ListenFd
  BY DEF IInv, FlowInv, Accept, Is
<1>2. PICK f \in FreeFds : f = Min(FreeFds)
  BY AcceptedAs
<1>3. PICK c \in Clients : c = Head(backlog) /\ fd' = [fd EXCEPT ![c] = f]
  BY <1>2, AcceptedAs
<1>4. Accepted(f) /\ batch' = Tail(batch) /\ batched' = batched /\ buf' = buf
  BY <1>2 DEF Accept
<1>5. EchoInv' /\ \A d \in Clients : \A b : Flow(d, b) => Flow(d, b)'
  BY <1>1, <1>4, FlowAccept
<1>6. /\ mask'[f] = "in" /\ \A g \in DOMAIN mask : g # f => mask'[g] = mask[g]
  BY <1>2 DEF Accept, Watch
<1>7. /\ fd'[c] = f /\ \A d \in Clients : d # c => fd'[d] = fd[d]
      /\ reset' = reset /\ \A d \in Clients : fd[d] # NoFd => fd[d] \in DOMAIN mask
  BY <1>1, <1>3, AcceptedAs DEF NetInv, NetTypes, IInv, MaskInv, OpenFds
<1>8. \A d \in Clients : Owed(d)' => Owed(d)
  <2>1. ASSUME NEW d \in Clients, Owed(d)' PROVE Owed(d)
    <3>1. d # c
      BY <1>6, <1>7, <2>1 DEF Owed
    <3>2. fd'[d] = fd[d] /\ fd[d] # f /\ fd[d] \in DOMAIN mask
      BY <1>2, <1>7, <2>1, <3>1, AcceptedAs DEF Owed
    <3> QED
      BY <1>6, <1>7, <2>1, <3>2 DEF Owed
  <2> QED
    BY <2>1
<1>9. ASSUME ~batched PROVE OutInv' /\ \A d \in Clients : Flow(d, Buffered(d))'
  <2>1. \A d \in Clients : ~Owed(d) /\ ~Owed(d)'
    BY <1>1, <1>8, <1>9, OwedOnly DEF FlowInv
  <2>2. batch' = <<>>
    BY <1>1, <1>4, <1>9, OwedOnly DEF FlowInv
  <2>3. OutInv'
    BY <2>1, <2>2, NoneLen DEF OutInv
  <2>4. \A d \in Clients : Buffered(d) = <<>> /\ Buffered(d)' = <<>>
    BY <2>1 DEF Buffered
  <2>5. ASSUME NEW d \in Clients PROVE Flow(d, <<>>)'
    <3>1. Flow(d, <<>>)
      BY <1>9, <2>4 DEF FlowInv
    <3> QED
      BY <1>5, <3>1
  <2> QED
    BY <2>3, <2>4, <2>5
<1> QED
  BY <1>4, <1>5, <1>9 DEF FlowInv

LEMMA FlowReadData ==
  ASSUME IInv, FlowInv, ReadData
  PROVE  FlowInv'
<1>1. /\ NetInv /\ NetTypes /\ EchoInv /\ batch # <<>> /\ Head(batch).fd # ListenFd
      /\ Head(batch).ev = "in" /\ batch' = Tail(batch) /\ batched' = batched
      /\ Watch(Head(batch).fd, "out", TRUE)
  BY DEF IInv, NetInv, FlowInv, ReadData, Event
<1>2. PICK c \in Clients : c = Peer
  BY <1>1, PeerOf
<1>3. PICK f : f = Head(batch).fd
  OBVIOUS
<1>4. /\ fd[c] = f /\ f # NoFd /\ client[c] # "new" /\ \A d \in Clients : d # c => fd[d] # f
      /\ f \in DOMAIN mask /\ mask[f] = "in"
  BY <1>1, <1>2, <1>3, PeerOf, HeadEvent
<1>5. PICK r \in Seq(Segments) : r = Received(c)
  BY <1>1, ReceivedIs
<1>6. Drained(c) /\ buf' = r
  BY <1>2, <1>5 DEF ReadData
<1>7. UNCHANGED <<fd, reset>>
  BY <1>6 DEF Drained
<1>8. /\ mask'[f] = "out" /\ \A g \in DOMAIN mask : g # f => mask'[g] = mask[g]
      /\ f \in rdlist'
  BY <1>1, <1>3 DEF Watch
<1>9. EchoInv' /\ \A d \in Clients : \A b : d # c /\ Flow(d, b) => Flow(d, b)'
  BY <1>1, <1>4, <1>6, DrainFrame
<1>10. ASSUME ~batched PROVE OutInv' /\ \A d \in Clients : Flow(d, Buffered(d))'
  <2>1. batch' = <<>> /\ \A d \in Clients : ~Owed(d)
    BY <1>1, <1>10, OwedOnly DEF FlowInv
  <2>2. ASSUME NEW d \in Clients, d # c PROVE ~Owed(d)'
    <3>1. fd[d] # NoFd => fd[d] \in DOMAIN mask
      BY <1>1, HeadEvent DEF IInv, MaskInv, OpenFds
    <3> QED
      BY <1>4, <1>7, <1>8, <2>1, <2>2, <3>1 DEF Owed
  <2>3. OutInv'
    BY <1>4, <1>7, <1>8, <2>1, <2>2, NoneLen DEF OutInv
  <2>4. \A d \in Clients : Flow(d, <<>>)
    BY <1>10, <2>1 DEF FlowInv, Buffered
  <2>5. ASSUME NEW d \in Clients PROVE Flow(d, Buffered(d))'
    <3>1. CASE d # c
      <4>1. Buffered(d)' = <<>>
        BY <2>2, <3>1 DEF Buffered
      <4>2. Flow(d, <<>>)'
        BY <1>9, <2>4, <3>1
      <4> QED
        BY <4>1, <4>2
    <3>2. CASE d = c
      <4>1. Flow(c, r)'
        BY <1>1, <1>5, <1>6, <2>4, FlowDrain
      <4>2. CASE c \in reset
        <5>1. ~Live(c)'
          BY <1>7, <4>2 DEF Live
        <5> QED
          BY <3>2, <4>1, <5>1 DEF Flow
      <4>3. CASE c \notin reset
        <5>1. Buffered(c)' = r
          BY <1>4, <1>6, <1>7, <1>8, <4>3 DEF Buffered, Owed
        <5> QED
          BY <3>2, <4>1, <5>1
      <4> QED
        BY <4>2, <4>3
    <3> QED
      BY <3>1, <3>2
  <2> QED
    BY <2>3, <2>5
<1> QED
  BY <1>1, <1>9, <1>10 DEF FlowInv

LEMMA FlowReadEnd ==
  ASSUME IInv, FlowInv, ReadEnd
  PROVE  FlowInv'
<1>1. /\ NetInv /\ NetTypes /\ EchoInv /\ batch # <<>> /\ Head(batch).fd # ListenFd
      /\ Head(batch).ev = "in" /\ batch' = Tail(batch) /\ batched' = batched /\ buf' = <<>>
  BY DEF IInv, NetInv, FlowInv, ReadEnd, Event
<1>2. PICK c \in Clients, f \in Fds :
        /\ c = Peer /\ f = Head(batch).fd /\ fd[c] = f /\ f # NoFd
        /\ \A d \in Clients : d # c => fd[d] # f
  BY <1>1, PeerOf
<1>3. Closed(c) /\ mask' = [g \in DOMAIN mask \ {f} |-> mask[g]]
  BY <1>2 DEF ReadEnd
<1>4. /\ fd'[c] = NoFd /\ \A d \in Clients : d # c => fd'[d] = fd[d] /\ (d \in reset' <=> d \in reset)
  BY <1>1, <1>3 DEF Closed, NetTypes
<1>5. /\ EchoInv' /\ \A b \in Seq(Segments) : \A e : Flow(c, b) => Flow(c, e)'
      /\ \A d \in Clients : \A b : d # c /\ Flow(d, b) => Flow(d, b)'
  BY <1>1, <1>2, <1>3, FlowClose
<1>6. ASSUME NEW d \in Clients, Owed(d)' PROVE Owed(d)
  <2>1. d # c /\ fd'[d] = fd[d] /\ fd[d] # NoFd /\ d \notin reset /\ fd[d] # f
    BY <1>2, <1>4, <1>6 DEF Owed
  <2>2. fd[d] \in DOMAIN mask \ {f}
    BY <1>1, <2>1, HeadEvent DEF IInv, MaskInv, OpenFds
  <2> QED
    BY <1>3, <1>6, <2>1, <2>2 DEF Owed
<1>7. ASSUME ~batched PROVE OutInv' /\ \A d \in Clients : Flow(d, Buffered(d))'
  <2>1. batch' = <<>> /\ \A d \in Clients : ~Owed(d) /\ ~Owed(d)'
    BY <1>1, <1>6, <1>7, OwedOnly DEF FlowInv
  <2>2. OutInv'
    BY <2>1, NoneLen DEF OutInv
  <2>3. \A d \in Clients : Flow(d, <<>>) /\ Buffered(d)' = <<>>
    BY <1>7, <2>1 DEF FlowInv, Buffered
  <2>4. ASSUME NEW d \in Clients PROVE Flow(d, <<>>)'
    <3>1. Flow(d, <<>>) /\ <<>> \in Seq(Segments)
      BY <2>3, EmptySeq
    <3>2. CASE d = c
      BY <1>5, <3>1, <3>2
    <3>3. CASE d # c
      BY <1>5, <3>1, <3>3
    <3> QED
      BY <3>2, <3>3
  <2> QED
    BY <2>2, <2>3, <2>4
<1> QED
  BY <1>1, <1>5, <1>7 DEF FlowInv

LEMMA FlowWriteEcho ==
  ASSUME IInv, FlowInv, WriteEcho
  PROVE  FlowInv'
<1>1. /\ NetInv /\ NetTypes /\ EchoInv /\ batch # <<>> /\ Head(batch).fd # ListenFd
      /\ Head(batch).ev = "out" /\ batch' = Tail(batch) /\ batched' = batched /\ buf' = buf
  BY DEF IInv, NetInv, FlowInv, WriteEcho, Event
<1>2. PICK c \in Clients, f \in Fds :
        /\ c = Peer /\ f = Head(batch).fd /\ fd[c] = f /\ f # NoFd /\ f \in DOMAIN mask /\ mask[f] = "out"
        /\ \A d \in Clients : d # c => fd[d] # f
  BY <1>1, PeerOf, HeadEvent
<1>3. PICK b \in Seq(Segments) : b = buf
  BY DEF IInv, EpTypes
<1>4. Written(c, b) /\ (c \notin reset \/ b = <<>>) /\ Watch(f, "in", Readable(c))
  BY <1>2, <1>3 DEF WriteEcho
<1>5. UNCHANGED <<fd, reset, client, typed, got>>
  BY <1>4 DEF Written, clientVars
<1>6. mask'[f] = "in" /\ \A g \in DOMAIN mask : g # f => mask'[g] = mask[g]
  BY <1>4 DEF Watch
<1>7. EchoInv' /\ \A d \in Clients : \A e : d # c /\ Flow(d, e) => Flow(d, e)'
  BY <1>1, <1>4, WriteFrame
<1>8. ASSUME ~batched PROVE OutInv' /\ \A d \in Clients : Flow(d, Buffered(d))'
  <2>1. batch' = <<>> /\ \A d \in Clients : d # c => ~Owed(d)
    BY <1>1, <1>2, <1>8, OwedOnly DEF FlowInv
  <2>2. ASSUME NEW d \in Clients PROVE ~Owed(d)'
    <3>1. CASE d = c
      BY <1>2, <1>5, <1>6, <3>1 DEF Owed
    <3>2. CASE d # c
      <4>1. fd[d] # NoFd => fd[d] \in DOMAIN mask /\ fd[d] # f
        BY <1>1, <1>2, <3>2, HeadEvent DEF IInv, MaskInv, OpenFds
      <4> QED
        BY <1>5, <1>6, <2>1, <3>2, <4>1 DEF Owed
    <3> QED
      BY <3>1, <3>2
  <2>3. OutInv'
    BY <2>1, <2>2, NoneLen DEF OutInv
  <2>4. \A d \in Clients : Buffered(d)' = <<>>
    BY <2>2 DEF Buffered
  <2>5. ASSUME NEW d \in Clients PROVE Flow(d, <<>>)'
    <3>1. CASE d # c
      <4>1. Flow(d, <<>>)
        BY <1>8, <2>1, <3>1 DEF FlowInv, Buffered
      <4> QED
        BY <1>7, <3>1, <4>1
    <3>2. CASE d = c /\ c \notin reset
      <4>1. Buffered(c) = b /\ Live(c)
        BY <1>2, <1>3, <3>2 DEF Buffered, Owed, Live, Connected
      <4>2. Flow(c, b)
        BY <1>8, <4>1 DEF FlowInv
      <4> QED
        BY <1>1, <1>4, <3>2, <4>1, <4>2, FlowWrite
    <3>3. CASE d = c /\ c \in reset
      <4>1. b = <<>> /\ Buffered(c) = <<>> /\ <<>> \in Seq(Segments)
        BY <1>3, <1>4, <3>3 DEF Buffered, Owed
      <4>2. Flow(c, <<>>)
        BY <1>8, <4>1 DEF FlowInv
      <4>3. ~Live(c)'
        BY <1>5, <3>3 DEF Live
      <4>4. outbox'[c] = outbox[c]
        <5>1. outbox \in [Clients -> Seq(Segments)]
          BY <1>1 DEF EchoInv
        <5>2. outbox[c] \o <<>> = outbox[c]
          BY <5>1, ConcatEmptySeq
        <5> QED
          BY <1>4, <4>1, <5>1, <5>2 DEF Written
      <4> QED
        BY <1>1, <1>5, <3>3, <4>1, <4>2, <4>3, <4>4, FlowBroken
    <3> QED
      BY <3>1, <3>2, <3>3
  <2> QED
    BY <2>3, <2>4, <2>5
<1> QED
  BY <1>1, <1>7, <1>8 DEF FlowInv

LEMMA FlowWriteFails ==
  ASSUME IInv, FlowInv, WriteFails
  PROVE  FlowInv'
<1>1. CASE Exit
  BY <1>1, FlowExits
<1>2. CASE ~Exit
  <2>1. /\ batch' = <<>> /\ UNCHANGED netVars /\ UNCHANGED <<mask, buf>> /\ batched' = batched
        /\ Peer \in reset /\ batch # <<>>
    BY <1>2 DEF WriteFails, Event
  <2>2. ASSUME ~batched PROVE OutInv'
    <3>1. UNCHANGED <<fd, reset>>
      BY <2>1 DEF netVars, socketVars
    <3>2. \A d \in Clients : ~Owed(d)
      <4>1. ASSUME NEW d \in Clients, Owed(d) PROVE FALSE
        <5>1. d = Peer
          BY <2>1, <2>2, <4>1, OwedOnly DEF FlowInv
        <5> QED
          BY <2>1, <4>1, <5>1 DEF Owed
      <4> QED
        BY <4>1
    <3>3. \A d \in Clients : ~Owed(d)'
      BY <2>1, <3>1, <3>2 DEF Owed
    <3> QED
      BY <2>1, <3>3, NoneLen DEF OutInv
  <2> QED
    BY <2>1, <2>2, FlowStill
<1> QED
  BY <1>1, <1>2

LEMMA FlowSteps ==
  ASSUME IInv, FlowInv, [Next]_vars
  PROVE  FlowInv'
<1>1. ASSUME NEW c \in Clients, NetStep(c), Edge, UNCHANGED <<mask, batch, buf, batched, broke>> PROVE FlowInv'
  BY <1>1, FlowNet
<1>2. CASE UNCHANGED vars
  <2>1. UNCHANGED netVars /\ UNCHANGED <<mask, rdlist, batch, buf, batched, broke>>
    BY <1>2 DEF vars, serverVars
  <2>2. UNCHANGED <<fd, reset>>
    BY <2>1 DEF netVars, socketVars
  <2>3. ~batched => OutInv'
    BY <2>1, <2>2 DEF FlowInv, OutInv, Owed
  <2> QED
    BY <2>1, <2>3, FlowStill
<1>3. ServerStep => FlowInv'
  BY FlowWait, FlowAccepts, FlowExits, FlowReadData, FlowReadEnd, FlowWriteEcho, FlowWriteFails
  DEF ServerStep, AcceptFails
<1> QED
  BY <1>1, <1>2, <1>3 DEF Next

(* A client gets back its own segments, each once and in order, as long as *)
(* every epoll_wait returned a single event: then the write that empties   *)
(* the buffer always comes before the read that refills it.                *)
THEOREM Echoes == Spec => []EchoesOwnUnlessBatched
<1>1. FlowInv /\ IInv => EchoesOwnUnlessBatched
  <2>1. ASSUME FlowInv, IInv, ~batched, NEW c \in Clients PROVE EchoesOwn(c)
    <3>1. PICK b \in Seq(Segments) : b = Buffered(c)
      BY <2>1, BufferedIs
    <3>2. Flow(c, b)
      BY <2>1, <3>1 DEF FlowInv
    <3> QED
      BY <2>1, <3>2, FlowEchoes DEF FlowInv, IInv, NetInv
  <2> QED
    BY <2>1 DEF EchoesOwnUnlessBatched
<1>2. Init => FlowInv
  BY FlowInit
<1>3. IInv /\ FlowInv /\ [Next]_vars => FlowInv'
  BY FlowSteps
<1> QED
  BY <1>1, <1>2, <1>3, Invariant, PTL DEF Spec
=============================================================================
