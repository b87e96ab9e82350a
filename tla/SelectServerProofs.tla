-------------------------- MODULE SelectServerProofs --------------------------
(***************************************************************************)
(* Proofs about the select server: the array of descriptors, allset and    *)
(* the two marks always describe the open connections, and the read of a   *)
(* descriptor that select reported never blocks.                           *)
(***************************************************************************)
EXTENDS SelectServer, EchoNetProofs

(* The table: as TableConsistent, slot by slot. *)
TableInv ==
  /\ \A s, t \in Slots : slot[s] = slot[t] /\ slot[s] # NoFd => s = t
  /\ \A s \in Slots : slot[s] # NoFd => slot[s] \in OpenFds /\ s <= maxi /\ slot[s] <= maxfd
  /\ \A f \in OpenFds : \E s \in Slots : slot[s] = f
  /\ allset = OpenFds \cup {ListenFd}

(* The slots the for loop has still to visit in this round. *)
Ahead ==
  {s \in Slots : pc = "listen" \/ (pc = "scan" /\ s >= i) \/ (pc = "write" /\ s > i)}

(* The round: a descriptor in rset that the loop has still to visit has    *)
(* data to read or an error to report.  It cannot have been refilled: the  *)
(* round accepts before it closes, so the descriptor that accept returns   *)
(* is not in rset.                                                         *)
RoundInv ==
  /\ pc = "listen" => backlog # <<>> /\ rset \subseteq OpenFds \cup {ListenFd}
  /\ pc = "write" => i \in Slots /\ slot[i] # NoFd
  /\ \A s \in Ahead : \A c \in Clients :
       slot[s] = fd[c] /\ fd[c] # NoFd /\ fd[c] \in rset => Readable(c)

SlotTypes ==
  /\ slot \in [Slots -> {NoFd} \cup Fds]
  /\ maxi \in -1..(FDSETSIZE - 1) /\ maxfd \in Slots
  /\ allset \subseteq Slots /\ rset \subseteq Slots
  /\ nready \in 0..FDSETSIZE /\ i \in 0..FDSETSIZE
  /\ pc \in {"select", "listen", "scan", "write", "exit"}
  /\ up <=> pc # "exit"

IInv == NetInv /\ SlotTypes /\ (up => TableInv /\ RoundInv)

-----------------------------------------------------------------------------
LEMMA Bounds ==
  /\ FDSETSIZE \in Nat /\ FdLimit \in Nat /\ ListenFd \in Slots /\ ListenFd + 1 \in Nat
  /\ Fds \subseteq Slots /\ Fds \subseteq Nat /\ Slots \subseteq Nat /\ NoFd \notin Nat /\ ListenFd \notin Fds
  BY NetAssumption, SelectAssumption DEF NetAssumption, SelectAssumption, Slots, Fds, ListenFd, NoFd

LEMMA OpenFdsBounds ==
  ASSUME NetInv
  PROVE  OpenFds \subseteq Fds /\ FreeFds \subseteq Fds /\ FreeFds \cap OpenFds = {}
  BY DEF NetInv, NetTypes, OpenFds, FreeFds, Fds

LEMMA InitInv ==
  ASSUME Init
  PROVE  IInv
<1>1. NetInv
  BY NetInvInit DEF Init
<1>2. SlotTypes
  BY Bounds DEF Init, NetInit, SlotTypes, Slots
<1>3. OpenFds = {}
  BY DEF Init, NetInit, OpenFds
<1>4. TableInv
  BY <1>3 DEF Init, TableInv
<1>5. RoundInv
  BY DEF Init, RoundInv, Ahead
<1> QED
  BY <1>1, <1>2, <1>4, <1>5 DEF IInv

(* Select: what it reports is readable, whichever slot it is in. *)
LEMMA StepSelect ==
  ASSUME IInv, Select
  PROVE  IInv'
<1>1. /\ NetInv /\ SlotTypes /\ pc = "select" /\ up /\ TableInv /\ RoundInv
  BY DEF IInv, SlotTypes, Select
<1>2. /\ rset' = ReadyFds /\ nready' = Cardinality(ReadyFds)
      /\ pc' = IF ListenFd \in ReadyFds THEN "listen" ELSE "scan"
      /\ UNCHANGED <<client, typed, wire, got, inbox, outbox, reset, backlog, fd, up, slot, maxi, maxfd, allset, i>>
  BY DEF Select, netVars, clientVars, socketVars
<1>3. NetInv'
  BY <1>1, <1>2 DEF NetInv, NetTypes, Connections
<1>4. ReadyFds \subseteq allset /\ \A c \in Clients : fd[c] # NoFd /\ fd[c] \in ReadyFds => Readable(c)
  <2>1. ASSUME NEW c \in Clients, fd[c] # NoFd, fd[c] \in ReadyFds PROVE Readable(c)
    <3>1. Owner(fd[c]) = c /\ fd[c] \in Fds
      BY <1>1, <2>1, OwnerOf DEF NetInv, NetTypes
    <3> QED
      BY <2>1, <3>1, Bounds DEF ReadyFds
  <2> QED
    BY <2>1 DEF ReadyFds
<1>5. Cardinality(ReadyFds) \in 0..FDSETSIZE
  <2>1. ReadyFds \subseteq 0..(FDSETSIZE - 1)
    BY <1>1, <1>4 DEF SlotTypes, Slots
  <2>2. IsFiniteSet(0..(FDSETSIZE - 1)) /\ Cardinality(0..(FDSETSIZE - 1)) = FDSETSIZE
    <3>1. CASE FDSETSIZE = 0
      BY <3>1, Bounds DEF Slots
    <3>2. CASE FDSETSIZE # 0
      BY <3>2, FS_Interval, Bounds, SMTT(30)
    <3> QED
      BY <3>1, <3>2
  <2>3. Cardinality(ReadyFds) \in Nat /\ Cardinality(ReadyFds) <= FDSETSIZE
    BY <2>1, <2>2, FS_Subset, FS_CardinalityType
  <2> QED
    BY <2>3, Bounds
<1>6. SlotTypes'
  BY <1>1, <1>2, <1>4, <1>5 DEF SlotTypes
<1>7. TableInv'
  BY <1>1, <1>2 DEF TableInv, OpenFds
<1>8. RoundInv'
  <2>1. ListenFd \in ReadyFds => backlog # <<>>
    BY DEF ReadyFds
  <2>2. ReadyFds \subseteq OpenFds \cup {ListenFd}
    BY <1>1, <1>4 DEF TableInv
  <2>3. \A c \in Clients : Readable(c)' = Readable(c)
    BY <1>2 DEF Readable
  <2> QED
    BY <1>1, <1>2, <1>4, <2>1, <2>2, <2>3 DEF RoundInv, OpenFds
<1> QED
  BY <1>3, <1>6, <1>7, <1>8 DEF IInv

(* A client or the network. *)
LEMMA StepNet ==
  ASSUME IInv, NEW c \in Clients, NetStep(c), UNCHANGED serverVars
  PROVE  IInv'
<1>1. /\ NetInv' /\ fd' = fd /\ up' = up
      /\ \A d \in Clients : Readable(d) => Readable(d)'
      /\ backlog # <<>> => backlog' # <<>>
  BY NetStepKeeps DEF IInv
<1>2. UNCHANGED <<slot, maxi, maxfd, allset, rset, nready, pc, i, buf>>
  BY DEF serverVars
<1>3. SlotTypes'
  BY <1>1, <1>2 DEF IInv, SlotTypes
<1>4. ASSUME up' PROVE TableInv' /\ RoundInv'
  <2>1. TableInv /\ RoundInv
    BY <1>1, <1>4 DEF IInv
  <2>2. OpenFds' = OpenFds
    BY <1>1 DEF OpenFds
  <2>3. TableInv'
    BY <1>2, <2>1, <2>2 DEF TableInv
  <2>4. Ahead' = Ahead
    BY <1>2 DEF Ahead
  <2>5. RoundInv'
    BY <1>1, <1>2, <2>1, <2>2, <2>4 DEF RoundInv
  <2> QED
    BY <2>3, <2>5
<1> QED
  BY <1>1, <1>3, <1>4 DEF IInv

LEMMA StepExit ==
  ASSUME IInv, Exit
  PROVE  IInv'
<1>1. NetInv' /\ ~up'
  BY ExitKeeps DEF IInv, Exit
<1>2. pc' = "exit" /\ UNCHANGED <<slot, maxi, maxfd, allset, rset, nready, i>>
  BY DEF Exit
<1>3. SlotTypes'
  BY <1>1, <1>2 DEF IInv, SlotTypes
<1> QED
  BY <1>1, <1>3 DEF IInv

(* accept: the new connection gets a slot and a descriptor that are free,  *)
(* and the descriptor is not one that select has reported.                 *)
LEMMA StepAccept ==
  ASSUME IInv, Accept
  PROVE  IInv'
<1> DEFINE f == Min(FreeFds)
           z == Min(FreeSlots)
<1>1. /\ NetInv /\ SlotTypes /\ pc = "listen" /\ up /\ TableInv /\ RoundInv
  BY DEF IInv, SlotTypes, Accept
<1>2. f \in FreeFds /\ f \in Fds /\ f \notin OpenFds /\ f # NoFd /\ f # ListenFd
  <2>1. FreeFds \subseteq Nat
    BY <1>1, OpenFdsBounds, Bounds
  <2>2. f \in FreeFds
    BY <2>1, LeastElement DEF Accept
  <2> QED
    BY <1>1, <2>2, OpenFdsBounds, Bounds
<1>3. z \in Slots /\ slot[z] = NoFd
  <2>1. FreeSlots \subseteq Nat
    BY Bounds DEF FreeSlots
  <2>2. z \in FreeSlots
    BY <2>1, LeastElement DEF Accept
  <2> QED
    BY <2>2 DEF FreeSlots
<1>4. PICK f0 \in Fds : f0 = f
  BY <1>2
<1>5. PICK z0 \in Slots : z0 = z
  BY <1>3
<1>6. /\ Accepted(f0) /\ slot' = [slot EXCEPT ![z0] = f0] /\ allset' = allset \cup {f0}
      /\ maxfd' = Max({maxfd, f0}) /\ maxi' = Max({maxi, z0})
      /\ \/ pc' = "select" /\ rset' = {} /\ nready' = 0 /\ i' = 0
         \/ pc' = "scan" /\ nready - 1 >= 0 /\ nready' = nready - 1 /\ rset' = rset /\ i' = i
  <2>1. nready \in Int
    BY <1>1 DEF SlotTypes
  <2>2. /\ Register(z0, f0) /\ maxi' = Max({maxi, z0})
        /\ IF nready - 1 < 0 THEN Again ELSE pc' = "scan" /\ nready' = nready - 1 /\ rset' = rset /\ i' = i
    BY <1>4, <1>5 DEF Accept
  <2> QED
    BY <2>1, <2>2 DEF Register, Again
<1> HIDE DEF f, z
<1>7. /\ f0 \in FreeFds /\ f0 \notin OpenFds /\ f0 # NoFd /\ f0 # ListenFd /\ slot[z0] = NoFd
      /\ f0 \in Slots /\ f0 \in Nat /\ z0 \in Nat /\ z0 <= FDSETSIZE - 1
  BY <1>2, <1>3, <1>4, <1>5, Bounds DEF Slots
<1>8. /\ NetInv' /\ up' = up /\ OpenFds' = OpenFds \cup {f0} /\ inbox' = inbox /\ reset' = reset
  BY <1>1, <1>6, <1>7, AcceptKeeps DEF RoundInv
<1>9. PICK c \in Clients : fd[c] = NoFd /\ fd' = [fd EXCEPT ![c] = f0]
  BY <1>1, <1>6, <1>7, AcceptKeeps DEF RoundInv
<1>10. /\ maxfd \in Nat /\ maxfd' \in {maxfd, f0} /\ maxfd <= maxfd' /\ f0 <= maxfd'
  <2>1. maxfd \in Nat /\ maxfd \in Int /\ f0 \in Int
    BY <1>1, <1>7, Bounds DEF SlotTypes
  <2>2. Max({maxfd, f0}) \in {maxfd, f0} /\ maxfd <= Max({maxfd, f0}) /\ f0 <= Max({maxfd, f0})
    BY <2>1, LargerOfTwo
  <2> QED
    BY <1>6, <2>1, <2>2
<1>11. /\ maxi \in Int /\ maxi' \in {maxi, z0} /\ maxi <= maxi' /\ z0 <= maxi'
  <2>1. maxi \in Int /\ z0 \in Int
    BY <1>1, <1>7 DEF SlotTypes
  <2>2. Max({maxi, z0}) \in {maxi, z0} /\ maxi <= Max({maxi, z0}) /\ z0 <= Max({maxi, z0})
    BY <2>1, LargerOfTwo
  <2> QED
    BY <1>6, <2>1, <2>2
<1>12. \A s \in Slots : slot'[s] = IF s = z0 THEN f0 ELSE slot[s]
  BY <1>1, <1>6 DEF SlotTypes
<1>13. SlotTypes'
  <2>1. slot' \in [Slots -> {NoFd} \cup Fds]
    BY <1>1, <1>6 DEF SlotTypes
  <2>2. maxi' \in -1..(FDSETSIZE - 1)
    BY <1>1, <1>7, <1>11, Bounds DEF SlotTypes
  <2>3. maxfd' \in Slots
    BY <1>1, <1>7, <1>10 DEF SlotTypes
  <2>4. allset' \subseteq Slots /\ rset' \subseteq Slots
    BY <1>1, <1>6, <1>7 DEF SlotTypes
  <2>5. nready' \in 0..FDSETSIZE /\ i' \in 0..FDSETSIZE
    BY <1>1, <1>6, Bounds DEF SlotTypes
  <2>6. pc' \in {"select", "scan"} /\ up'
    BY <1>1, <1>6, <1>8
  <2> QED
    BY <2>1, <2>2, <2>3, <2>4, <2>5, <2>6 DEF SlotTypes
<1>14. TableInv'
  <2>1. \A s \in Slots : slot[s] # NoFd => slot[s] # f0
    BY <1>1, <1>7 DEF TableInv
  <2>2. \A s, t \in Slots : slot'[s] = slot'[t] /\ slot'[s] # NoFd => s = t
    BY <1>1, <1>7, <1>12, <2>1 DEF TableInv
  <2>3. ASSUME NEW s \in Slots, slot'[s] # NoFd
        PROVE  slot'[s] \in OpenFds' /\ s <= maxi' /\ slot'[s] <= maxfd'
    <3>1. CASE s = z0
      BY <1>8, <1>10, <1>11, <1>12, <3>1
    <3>2. CASE s # z0
      <4>1. slot'[s] = slot[s] /\ slot[s] \in OpenFds /\ s <= maxi /\ slot[s] <= maxfd
        BY <1>1, <1>12, <2>3, <3>2 DEF TableInv
      <4>2. slot[s] \in Nat /\ s \in Nat /\ maxi' \in Int /\ maxfd' \in Nat
        <5>1. slot[s] \in Nat /\ s \in Nat
          BY <1>1, <4>1, OpenFdsBounds, Bounds
        <5>2. maxi' \in Int /\ maxfd' \in Nat
          BY <1>7, <1>10, <1>11
        <5> QED
          BY <5>1, <5>2
      <4> QED
        BY <1>8, <1>10, <1>11, <4>1, <4>2
    <3> QED
      BY <3>1, <3>2
  <2>4. \A g \in OpenFds' : \E s \in Slots : slot'[s] = g
    BY <1>1, <1>7, <1>8, <1>12, OpenFdsBounds, Bounds DEF TableInv
  <2> QED
    BY <1>1, <1>6, <1>8, <2>2, <2>3, <2>4 DEF TableInv
<1>15. RoundInv'
  <2>1. f0 \notin rset
    BY <1>1, <1>7 DEF RoundInv
  <2>2. ASSUME NEW s \in Ahead', NEW d \in Clients, slot'[s] = fd'[d], fd'[d] # NoFd, fd'[d] \in rset'
        PROVE  Readable(d)'
    <3>1. pc' = "scan" /\ rset' = rset /\ s \in Slots
      BY <1>6, <2>2 DEF Ahead
    <3>2. fd'[d] # f0
      BY <2>1, <2>2, <3>1
    <3>3. d # c
      BY <1>1, <1>9, <3>2 DEF NetInv, NetTypes
    <3>4. fd'[d] = fd[d] /\ slot'[s] = slot[s]
      BY <1>1, <1>9, <1>12, <2>2, <3>1, <3>2, <3>3 DEF NetInv, NetTypes
    <3>5. s \in Ahead
      BY <1>1, <3>1 DEF Ahead
    <3>6. Readable(d)
      BY <1>1, <2>2, <3>1, <3>4, <3>5 DEF RoundInv
    <3> QED
      BY <1>8, <3>4, <3>6 DEF Readable
  <2> QED
    BY <1>6, <2>2 DEF RoundInv
<1> QED
  BY <1>8, <1>13, <1>14, <1>15 DEF IInv

LEMMA StepAcceptFails ==
  ASSUME IInv, AcceptFails
  PROVE  IInv'
  BY StepExit DEF AcceptFails

(* Back to select: the round is over. *)
LEMMA StepAgain ==
  ASSUME IInv, Again, UNCHANGED <<netVars, slot, maxi, maxfd, allset>>, up
  PROVE  IInv'
<1>1. NetInv /\ SlotTypes /\ TableInv
  BY DEF IInv
<1>2. /\ UNCHANGED <<client, typed, wire, got, inbox, outbox, reset, backlog, fd, up>>
      /\ UNCHANGED <<slot, maxi, maxfd, allset>>
      /\ pc' = "select" /\ rset' = {} /\ nready' = 0 /\ i' = 0
  BY DEF Again, netVars, clientVars, socketVars
<1>3. NetInv'
  BY <1>1, <1>2 DEF NetInv, NetTypes, Connections
<1>4. SlotTypes'
  BY <1>1, <1>2, Bounds DEF SlotTypes
<1>5. TableInv'
  BY <1>1, <1>2 DEF TableInv, OpenFds
<1>6. RoundInv'
  BY <1>2 DEF RoundInv
<1> QED
  BY <1>3, <1>4, <1>5, <1>6 DEF IInv

LEMMA StepScanEnds ==
  ASSUME IInv, ScanEnds
  PROVE  IInv'
<1>1. up
  BY DEF IInv, SlotTypes, ScanEnds
<1> QED
  BY <1>1, StepAgain DEF ScanEnds

(* The slot the loop comes to, and the connection in it. *)
LEMMA DueSlot ==
  ASSUME IInv, pc = "scan", Due # {}
  PROVE  /\ Min(Due) \in Slots /\ Min(Due) \in Ahead
         /\ slot[Min(Due)] # NoFd /\ slot[Min(Due)] \in rset
         /\ Owner(slot[Min(Due)]) \in Clients
         /\ fd[Owner(slot[Min(Due)])] = slot[Min(Due)]
         /\ Readable(Owner(slot[Min(Due)]))
<1>1. /\ NetInv /\ SlotTypes /\ up /\ TableInv /\ RoundInv
  BY DEF IInv, SlotTypes
<1>2. i \in Nat /\ maxi \in Int /\ maxi <= FDSETSIZE - 1
  BY <1>1, Bounds DEF SlotTypes
<1>3. Due \subseteq Slots /\ Due \subseteq Nat
  BY <1>2, Bounds DEF Due, Slots
<1>4. Min(Due) \in Due
  BY <1>3, LeastElement
<1>5. PICK s \in Due : s = Min(Due)
  BY <1>4
<1>6. s \in Slots /\ s \in Ahead /\ slot[s] # NoFd /\ slot[s] \in rset
  BY <1>2, <1>3, <1>5 DEF Due, Ahead
<1>7. slot[s] \in OpenFds
  BY <1>1, <1>6 DEF TableInv
<1>8. PICK c \in Clients : fd[c] = slot[s]
  BY <1>7 DEF OpenFds
<1>9. Owner(slot[s]) = c
  BY <1>1, <1>6, <1>8, OwnerOf
<1>10. Readable(c)
  BY <1>1, <1>6, <1>8 DEF RoundInv
<1> QED
  BY <1>5, <1>6, <1>8, <1>9, <1>10

(* The loop goes on behind slot s, or the round is over. *)
LEMMA ContinueSteps ==
  ASSUME SlotTypes, NEW s \in Slots, Continue(s)
  PROVE  /\ pc' \in {"select", "scan"} /\ nready' \in 0..FDSETSIZE /\ i' \in 0..FDSETSIZE
         /\ rset' \subseteq rset
         /\ \A t \in Ahead' : t \in Slots /\ t > s
<1>1. nready \in 0..FDSETSIZE /\ s + 1 \in 0..FDSETSIZE /\ s \in Nat
  BY Bounds DEF SlotTypes, Slots
<1>2. CASE nready - 1 <= 0
  <2>1. pc' = "select" /\ rset' = {} /\ nready' = 0 /\ i' = 0
    BY <1>2 DEF Continue, Again
  <2>2. Ahead' = {}
    BY <2>1 DEF Ahead
  <2> QED
    <3>1. 0 \in 0..FDSETSIZE
      BY Bounds
    <3> QED
      BY <2>1, <2>2, <3>1
<1>3. CASE ~(nready - 1 <= 0)
  <2>1. pc' = "scan" /\ nready' = nready - 1 /\ i' = s + 1 /\ rset' = rset
    BY <1>3 DEF Continue
  <2>2. nready' \in 0..FDSETSIZE
    BY <1>1, <1>3, <2>1, Bounds
  <2>3. \A t \in Ahead' : t \in Slots /\ t >= s + 1
    BY <2>1 DEF Ahead
  <2>4. ASSUME NEW t \in Ahead' PROVE t \in Slots /\ t > s
    <3>1. t \in Slots /\ t >= s + 1
      BY <2>3
    <3>2. t \in Nat
      BY <3>1, Bounds
    <3> QED
      BY <1>1, <3>1, <3>2
  <2> QED
    BY <1>1, <2>1, <2>2, <2>4
<1> QED
  BY <1>2, <1>3

(* The end of a connection leaves the table with its descriptor. *)
LEMMA StepReadEnd ==
  ASSUME IInv, ReadEnd
  PROVE  IInv'
<1>1. /\ NetInv /\ SlotTypes /\ pc = "scan" /\ up /\ TableInv /\ RoundInv
  BY DEF IInv, SlotTypes, ReadEnd
<1>2. PICK s \in Slots : s = Min(Due)
  BY DueSlot DEF ReadEnd
<1>3. /\ s \in Ahead /\ slot[s] # NoFd /\ slot[s] \in rset /\ Owner(slot[s]) \in Clients
      /\ fd[Owner(slot[s])] = slot[s]
  BY <1>2, DueSlot DEF ReadEnd
<1>4. PICK c \in Clients : c = Owner(slot[s])
  BY <1>3
<1>5. /\ Closed(c) /\ allset' = allset \ {fd[c]} /\ slot' = [slot EXCEPT ![s] = NoFd]
      /\ Continue(s) /\ maxi' = maxi /\ maxfd' = maxfd
  BY <1>2, <1>3, <1>4 DEF ReadEnd
<1>6. fd[c] = slot[s] /\ fd[c] # NoFd
  BY <1>3, <1>4
<1>7. /\ NetInv' /\ fd' = [fd EXCEPT ![c] = NoFd] /\ up' = up
      /\ OpenFds' = OpenFds \ {fd[c]}
      /\ \A d \in Clients : d # c => inbox'[d] = inbox[d] /\ (d \in reset' <=> d \in reset)
  BY <1>1, <1>5, <1>6, CloseKeeps
<1>8. /\ pc' \in {"select", "scan"} /\ nready' \in 0..FDSETSIZE /\ i' \in 0..FDSETSIZE
      /\ rset' \subseteq rset /\ \A t \in Ahead' : t \in Slots /\ t > s
  BY <1>1, <1>5, ContinueSteps
<1>9. \A t \in Slots : slot'[t] = IF t = s THEN NoFd ELSE slot[t]
  BY <1>1, <1>5 DEF SlotTypes
<1>10. SlotTypes'
  <2>1. slot' \in [Slots -> {NoFd} \cup Fds]
    BY <1>1, <1>5 DEF SlotTypes
  <2> QED
    BY <1>1, <1>5, <1>7, <1>8, <2>1 DEF SlotTypes
<1>11. TableInv'
  <2>1. \A t \in Slots : t # s /\ slot[t] # NoFd => slot[t] # fd[c]
    BY <1>1, <1>6 DEF TableInv
  <2>2. \A t, r \in Slots : slot'[t] = slot'[r] /\ slot'[t] # NoFd => t = r
    BY <1>1, <1>9 DEF TableInv
  <2>3. \A t \in Slots : slot'[t] # NoFd => slot'[t] \in OpenFds' /\ t <= maxi' /\ slot'[t] <= maxfd'
    BY <1>1, <1>5, <1>7, <1>9, <2>1 DEF TableInv
  <2>4. \A f \in OpenFds' : \E t \in Slots : slot'[t] = f
    BY <1>1, <1>6, <1>7, <1>9 DEF TableInv
  <2>5. ListenFd # fd[c]
    BY <1>1, <1>6, Bounds DEF NetInv, NetTypes
  <2>6. allset' = OpenFds' \cup {ListenFd}
    BY <1>1, <1>5, <1>7, <2>5 DEF TableInv
  <2> QED
    BY <2>2, <2>3, <2>4, <2>6 DEF TableInv
<1>12. RoundInv'
  <2>1. ASSUME NEW t \in Ahead', NEW d \in Clients, slot'[t] = fd'[d], fd'[d] # NoFd, fd'[d] \in rset'
        PROVE  Readable(d)'
    <3>1. t \in Slots /\ t # s /\ t \in Ahead
      <4>1. t \in Slots /\ t > s /\ t \in Nat /\ s \in Nat /\ i \in Nat
        <5>1. t \in Slots /\ t > s
          BY <1>8, <2>1
        <5>2. i \in Nat
          BY <1>1, Bounds DEF SlotTypes
        <5> QED
          BY <5>1, <5>2, Bounds
      <4>2. s >= i
        BY <1>1, <1>3 DEF Ahead
      <4> QED
        BY <1>1, <4>1, <4>2 DEF Ahead
    <3>2. d # c
      BY <1>1, <1>7, <2>1 DEF NetInv, NetTypes
    <3>3. fd'[d] = fd[d] /\ slot'[t] = slot[t]
      BY <1>1, <1>7, <1>9, <3>1, <3>2 DEF NetInv, NetTypes
    <3>4. Readable(d)
      BY <1>1, <1>8, <2>1, <3>1, <3>3 DEF RoundInv
    <3> QED
      BY <1>7, <3>2, <3>3, <3>4 DEF Readable
  <2> QED
    BY <1>8, <2>1 DEF RoundInv
<1> QED
  BY <1>7, <1>10, <1>11, <1>12 DEF IInv

LEMMA StepReadData ==
  ASSUME IInv, ReadData
  PROVE  IInv'
<1>1. /\ NetInv /\ SlotTypes /\ pc = "scan" /\ up /\ TableInv /\ RoundInv
  BY DEF IInv, SlotTypes, ReadData
<1>2. PICK s \in Slots : s = Min(Due)
  BY DueSlot DEF ReadData
<1>3. /\ s \in Ahead /\ slot[s] # NoFd /\ slot[s] \in rset /\ Owner(slot[s]) \in Clients
      /\ fd[Owner(slot[s])] = slot[s]
  BY <1>2, DueSlot DEF ReadData
<1>4. PICK c \in Clients : c = Owner(slot[s])
  BY <1>3
<1>5. /\ Drained(c) /\ i' = s /\ pc' = "write"
      /\ UNCHANGED <<slot, maxi, maxfd, allset, rset, nready>>
  BY <1>2, <1>4 DEF ReadData
<1>6. /\ NetInv' /\ fd' = fd /\ up' = up /\ OpenFds' = OpenFds /\ reset' = reset
      /\ \A d \in Clients : d # c => inbox'[d] = inbox[d]
  BY <1>1, <1>5, DrainKeeps
<1>7. s \in Nat /\ s \in 0..FDSETSIZE /\ i \in Nat /\ s >= i
  BY <1>1, <1>3, Bounds DEF SlotTypes, Slots, Ahead
<1>8. SlotTypes'
  BY <1>1, <1>5, <1>6, <1>7 DEF SlotTypes
<1>9. TableInv'
  BY <1>1, <1>5, <1>6 DEF TableInv
<1>10. RoundInv'
  <2>1. ASSUME NEW t \in Ahead', NEW d \in Clients, slot'[t] = fd'[d], fd'[d] # NoFd, fd'[d] \in rset'
        PROVE  Readable(d)'
    <3>1. t \in Slots /\ t > s
      BY <1>5, <2>1 DEF Ahead
    <3>2. t # s /\ t \in Ahead
      <4>1. t \in Nat
        BY <3>1, Bounds
      <4> QED
        BY <1>1, <1>7, <3>1, <4>1 DEF Ahead
    <3>3. slot[t] = fd[d] /\ fd[d] # NoFd /\ fd[d] \in rset
      BY <1>5, <1>6, <2>1
    <3>4. d # c
      BY <1>1, <1>3, <1>4, <3>1, <3>2, <3>3 DEF TableInv
    <3>5. Readable(d)
      BY <1>1, <3>2, <3>3 DEF RoundInv
    <3> QED
      BY <1>6, <3>4, <3>5 DEF Readable
  <2> QED
    BY <1>3, <1>5, <2>1 DEF RoundInv
<1> QED
  BY <1>6, <1>8, <1>9, <1>10 DEF IInv

LEMMA StepWriteEcho ==
  ASSUME IInv, WriteEcho
  PROVE  IInv'
<1>1. /\ NetInv /\ SlotTypes /\ pc = "write" /\ up /\ TableInv /\ RoundInv /\ i \in Slots
  BY DEF IInv, SlotTypes, RoundInv, WriteEcho
<1>2. PICK s \in Slots : s = i
  BY <1>1
<1>3. Continue(s) /\ UNCHANGED <<slot, maxi, maxfd, allset>>
  BY <1>2 DEF WriteEcho
<1>4. NetInv' /\ UNCHANGED <<fd, up, backlog, inbox, reset, OpenFds>>
  BY <1>1, WriteKeeps DEF WriteEcho
<1>5. /\ pc' \in {"select", "scan"} /\ nready' \in 0..FDSETSIZE /\ i' \in 0..FDSETSIZE
      /\ rset' \subseteq rset /\ \A t \in Ahead' : t \in Slots /\ t > s
  BY <1>1, <1>3, ContinueSteps
<1>6. SlotTypes'
  BY <1>1, <1>3, <1>4, <1>5 DEF SlotTypes
<1>7. TableInv'
  BY <1>1, <1>3, <1>4 DEF TableInv
<1>8. RoundInv'
  <2>1. \A t \in Ahead' : t \in Ahead
    BY <1>1, <1>2, <1>5 DEF Ahead
  <2>2. \A d \in Clients : Readable(d)' = Readable(d)
    BY <1>4 DEF Readable
  <2> QED
    BY <1>1, <1>3, <1>4, <1>5, <2>1, <2>2 DEF RoundInv
<1> QED
  BY <1>4, <1>6, <1>7, <1>8 DEF IInv

LEMMA StepWriteFails ==
  ASSUME IInv, WriteFails
  PROVE  IInv'
<1>1. up
  BY DEF IInv, SlotTypes, WriteFails
<1> QED
  BY <1>1, StepAgain, StepExit DEF WriteFails

LEMMA StepStutters ==
  ASSUME IInv, UNCHANGED vars
  PROVE  IInv'
<1>1. /\ UNCHANGED <<client, typed, wire, got, inbox, outbox, reset, backlog, fd, up>>
      /\ UNCHANGED <<slot, maxi, maxfd, allset, rset, nready, pc, i, buf>>
  BY DEF vars, netVars, clientVars, socketVars, serverVars
<1>2. NetInv' /\ SlotTypes'
  BY <1>1 DEF IInv, NetInv, NetTypes, Connections, SlotTypes
<1>3. up => TableInv' /\ RoundInv'
  BY <1>1 DEF IInv, TableInv, OpenFds, RoundInv, Ahead, Readable
<1> QED
  BY <1>1, <1>2, <1>3 DEF IInv

(* The inductive invariant, for any number of clients and slots. *)
THEOREM Invariant == Spec => []IInv
<1>1. ASSUME IInv, [Next]_vars
      PROVE  IInv'
  <2>1. ASSUME NEW c \in Clients, NetStep(c), UNCHANGED serverVars PROVE IInv'
    BY <1>1, <2>1, StepNet
  <2>2. ServerStep => IInv'
    BY <1>1, StepSelect, StepAccept, StepAcceptFails, StepScanEnds, StepReadEnd,
       StepReadData, StepWriteEcho, StepWriteFails DEF ServerStep
  <2>3. UNCHANGED vars => IInv'
    BY <1>1, StepStutters
  <2> QED
    BY <1>1, <2>1, <2>2, <2>3 DEF Next
<1> QED
  BY InitInv, <1>1, PTL DEF Spec

LEMMA TableOf ==
  ASSUME IInv
  PROVE  TableConsistent
<1>1. TypeOK
  <2>1. NetTypeOK
    BY NetInvTypes DEF IInv
  <2>2. Fds \subseteq (ListenFd + 1)..(FDSETSIZE - 1)
    BY Bounds, SelectAssumption DEF Fds, SelectAssumption
  <2> QED
    BY <2>1, <2>2 DEF IInv, SlotTypes, TypeOK
<1>2. ASSUME up PROVE {slot[s] : s \in Slots} \ {NoFd} = OpenFds
  <2>1. NoFd \notin OpenFds
    BY DEF OpenFds
  <2> QED
    BY <1>2, <2>1 DEF IInv, TableInv
<1>3. ASSUME up, NEW c \in Clients, fd[c] # NoFd
      PROVE  /\ Cardinality({s \in Slots : slot[s] = fd[c]}) = 1
             /\ \E s \in 0..maxi : slot[s] = fd[c]
             /\ fd[c] <= maxfd
  <2>1. PICK s \in Slots : slot[s] = fd[c]
    BY <1>3 DEF IInv, TableInv, OpenFds
  <2>2. {t \in Slots : slot[t] = fd[c]} = {s}
    BY <1>3, <2>1 DEF IInv, TableInv
  <2>3. s <= maxi /\ fd[c] <= maxfd /\ s \in Nat /\ maxi \in Int
    BY <1>3, <2>1, Bounds DEF IInv, TableInv, SlotTypes
  <2> QED
    BY <2>1, <2>2, <2>3, FS_Singleton
<1> QED
  BY <1>1, <1>2, <1>3 DEF TableConsistent, IInv, TableInv

(* The array, the set and the two marks always agree: an open connection   *)
(* has exactly one slot, at or below maxi, its descriptor is in allset and *)
(* at most maxfd, and nothing else is watched but the listening socket --  *)
(* whatever the order of accepts, ends and failures in a round, and for    *)
(* any number of clients and any size of the set.                          *)
THEOREM TableKept == Spec => []TableConsistent
BY Invariant, TableOf, PTL

(* The server never blocks in read: a descriptor that select reported has  *)
(* something to read when the loop reaches its slot, although the same     *)
(* round accepts a connection and closes others before.                    *)
THEOREM ReadsReady == Spec => []NeverBlocksInRead
<1>1. IInv => NeverBlocksInRead
  BY DueSlot DEF NeverBlocksInRead
<1> QED
  BY <1>1, Invariant, PTL

-----------------------------------------------------------------------------
(* The echo: the buffer holds data of the connection in slot i only, and   *)
(* only until it is written or the write has failed.                       *)
Buffered(c) == IF pc = "write" /\ fd[c] # NoFd /\ slot[i] = fd[c] THEN buf ELSE <<>>

FlowInv ==
  /\ EchoInv /\ buf \in Seq(Segments)
  /\ \A c \in Clients : Flow(c, Buffered(c))

LEMMA BufferedIs ==
  ASSUME FlowInv
  PROVE  \A c : Buffered(c) \in Seq(Segments)
  BY EmptySeq DEF FlowInv, Buffered

LEMMA OwnerOfSlot ==
  ASSUME IInv, up, NEW s \in Slots, slot[s] # NoFd
  PROVE  /\ Owner(slot[s]) \in Clients /\ fd[Owner(slot[s])] = slot[s]
         /\ client[Owner(slot[s])] # "new"
<1>1. slot[s] \in OpenFds
  BY DEF IInv, TableInv
<1>2. PICK c \in Clients : fd[c] = slot[s]
  BY <1>1 DEF OpenFds
<1>3. Owner(slot[s]) = c
  BY <1>2, OwnerOf DEF IInv
<1> QED
  BY <1>2, <1>3 DEF IInv, NetInv, Connections

LEMMA FlowInit ==
  ASSUME Init
  PROVE  FlowInv
<1>1. EchoInv /\ \A c \in Clients : Flow(c, <<>>)
  BY EchoInvInit DEF Init
<1>2. \A c : Buffered(c) = <<>>
  BY DEF Init, Buffered
<1> QED
  BY <1>1, <1>2, EmptySeq DEF FlowInv, Init

LEMMA FlowStill ==
  ASSUME FlowInv, UNCHANGED netVars, buf' = buf, pc' # "write",
         \A c \in Clients : Live(c) => Buffered(c) = <<>>
  PROVE  FlowInv'
<1>1. UNCHANGED <<client, typed, wire, got, inbox, outbox, reset, backlog, fd, up>>
  BY DEF netVars, clientVars, socketVars
<1>2. EchoInv'
  BY <1>1 DEF FlowInv, EchoInv
<1>3. ASSUME NEW c \in Clients PROVE Flow(c, <<>>)'
  <2>1. Flow(c, <<>>)
    BY DEF FlowInv, Flow
  <2>2. Live(c)' = Live(c)
    BY <1>1 DEF Live, Connected
  <2> QED
    BY <1>1, <2>1, <2>2, FlowFrame
<1>4. \A c : Buffered(c)' = <<>>
  BY DEF Buffered
<1> QED
  BY <1>2, <1>3, <1>4 DEF FlowInv

LEMMA FlowNet ==
  ASSUME IInv, FlowInv, NEW c \in Clients, NetStep(c), UNCHANGED serverVars
  PROVE  FlowInv'
<1>1. NetInv /\ EchoInv /\ EchoInv' /\ fd' = fd
  BY NetStepKeeps, EchoInvNetStep DEF IInv, FlowInv
<1>2. UNCHANGED <<pc, slot, i, buf>>
  BY DEF serverVars
<1>3. ASSUME NEW d \in Clients PROVE Flow(d, Buffered(d))'
  <2>1. PICK b \in Seq(Segments) : b = Buffered(d)
    BY BufferedIs
  <2>2. Buffered(d)' = b
    BY <1>1, <1>2, <2>1 DEF Buffered
  <2>3. Flow(d, b)
    BY <2>1 DEF FlowInv
  <2>4. Flow(d, b)'
    BY <1>1, <2>3, FlowNetStep
  <2> QED
    BY <2>2, <2>4
<1> QED
  BY <1>1, <1>2, <1>3 DEF FlowInv

LEMMA FlowExits ==
  ASSUME IInv, FlowInv, Exit
  PROVE  FlowInv'
<1>1. NetInv /\ EchoInv /\ Exited /\ pc' = "exit" /\ buf' = buf
  BY DEF IInv, FlowInv, Exit
<1>2. EchoInv' /\ \A d \in Clients : \A b \in Seq(Segments) : Flow(d, b) =>
                       (IF client[d] = "new" THEN Flow(d, b)' ELSE \A e : Flow(d, e)')
  BY <1>1, FlowExit
<1>3. \A d : Buffered(d)' = <<>>
  BY <1>1 DEF Buffered
<1>4. ASSUME NEW d \in Clients PROVE Flow(d, <<>>)'
  <2>1. PICK b \in Seq(Segments) : b = Buffered(d)
    BY BufferedIs
  <2>2. Flow(d, b)
    BY <2>1 DEF FlowInv
  <2>3. client[d] = "new" => b = <<>>
    BY <1>1, <2>1 DEF Buffered, NetInv, Connections
  <2>4. IF client[d] = "new" THEN Flow(d, b)' ELSE \A e : Flow(d, e)'
    BY <1>2, <2>2
  <2> QED
    BY <2>3, <2>4
<1> QED
  BY <1>1, <1>2, <1>3, <1>4 DEF FlowInv

LEMMA FlowAccepts ==
  ASSUME IInv, FlowInv, Accept
  PROVE  FlowInv'
<1>1. NetInv /\ EchoInv /\ pc = "listen" /\ backlog # <<>>
  BY DEF IInv, FlowInv, SlotTypes, RoundInv, Accept
<1>2. pc' # "write" /\ buf' = buf
  BY DEF Accept, Again
<1>3. Accepted(Min(FreeFds)) /\ Min(FreeFds) \in FreeFds
  <2>1. FreeFds \subseteq Nat
    BY <1>1, OpenFdsBounds, Bounds
  <2> QED
    BY <2>1, LeastElement DEF Accept, Register
<1>4. PICK f \in FreeFds : f = Min(FreeFds)
  BY <1>3
<1>5. Accepted(f)
  BY <1>3, <1>4
<1>6. EchoInv' /\ \A d \in Clients : \A b : Flow(d, b) => Flow(d, b)'
  BY <1>1, <1>5, FlowAccept
<1>7. \A d : Buffered(d) = <<>> /\ Buffered(d)' = <<>>
  BY <1>1, <1>2 DEF Buffered
<1>8. ASSUME NEW d \in Clients PROVE Flow(d, <<>>)'
  <2>1. Flow(d, <<>>)
    BY <1>7 DEF FlowInv
  <2> QED
    BY <1>6, <2>1
<1> QED
  BY <1>2, <1>6, <1>7, <1>8 DEF FlowInv

LEMMA FlowReadEnd ==
  ASSUME IInv, FlowInv, ReadEnd
  PROVE  FlowInv'
<1>1. NetInv /\ EchoInv /\ pc = "scan" /\ SlotTypes /\ buf' = buf
  BY DEF IInv, FlowInv, ReadEnd
<1>2. PICK s \in Slots : s = Min(Due)
  BY DueSlot DEF ReadEnd
<1>3. PICK c \in Clients : c = Owner(slot[s]) /\ fd[c] # NoFd
  BY <1>2, DueSlot DEF ReadEnd
<1>4. Closed(c) /\ Continue(s)
  BY <1>2, <1>3 DEF ReadEnd
<1>5. pc' # "write"
  BY <1>1, <1>4, ContinueSteps
<1>6. /\ EchoInv' /\ \A b \in Seq(Segments) : \A e : Flow(c, b) => Flow(c, e)'
      /\ \A d \in Clients : \A b : d # c /\ Flow(d, b) => Flow(d, b)'
  BY <1>1, <1>3, <1>4, FlowClose
<1>7. \A d : Buffered(d) = <<>> /\ Buffered(d)' = <<>>
  BY <1>1, <1>5 DEF Buffered
<1>8. ASSUME NEW d \in Clients PROVE Flow(d, <<>>)'
  <2>1. Flow(d, <<>>) /\ <<>> \in Seq(Segments)
    BY <1>7, EmptySeq DEF FlowInv
  <2>2. CASE d = c
    BY <1>6, <2>1, <2>2
  <2>3. CASE d # c
    BY <1>6, <2>1, <2>3
  <2> QED
    BY <2>2, <2>3
<1> QED
  BY <1>1, <1>6, <1>7, <1>8 DEF FlowInv

LEMMA FlowReadData ==
  ASSUME IInv, FlowInv, ReadData
  PROVE  FlowInv'
<1>1. NetInv /\ NetTypes /\ EchoInv /\ pc = "scan"
  BY DEF IInv, NetInv, FlowInv, ReadData
<1>2. PICK s \in Slots : s = Min(Due)
  BY DueSlot DEF ReadData
<1>3. PICK c \in Clients : c = Owner(slot[s])
  BY <1>2, DueSlot DEF ReadData
<1>4. fd[c] = slot[s] /\ fd[c] # NoFd
  BY <1>2, <1>3, DueSlot DEF ReadData
<1>5. client[c] # "new"
  BY <1>1, <1>4 DEF NetInv, Connections
<1>6. PICK r \in Seq(Segments) : r = Received(c)
  BY <1>1, ReceivedIs
<1>7. Drained(c) /\ buf' = r /\ i' = s /\ pc' = "write" /\ slot' = slot
  BY <1>2, <1>3, <1>6 DEF ReadData
<1>8. fd' = fd
  BY <1>7 DEF Drained
<1>9. EchoInv' /\ \A d \in Clients : \A b : d # c /\ Flow(d, b) => Flow(d, b)'
  BY <1>1, <1>5, <1>7, DrainFrame
<1>10. \A d : Buffered(d) = <<>>
  BY <1>1 DEF Buffered
<1>11. Flow(c, <<>>)
  BY <1>10 DEF FlowInv
<1>12. Flow(c, r)'
  BY <1>1, <1>6, <1>7, <1>11, FlowDrain
<1>13. ASSUME NEW d \in Clients PROVE Flow(d, Buffered(d))'
  <2>1. CASE d = c
    <3>1. Buffered(c)' = r
      BY <1>4, <1>7, <1>8 DEF Buffered
    <3> QED
      BY <1>12, <2>1, <3>1
  <2>2. CASE d # c
    <3>1. fd[d] = NoFd \/ fd[d] # fd[c]
      BY <1>1, <2>2 DEF NetInv, Connections
    <3>2. Buffered(d)' = <<>>
      BY <1>4, <1>7, <1>8, <3>1 DEF Buffered
    <3>3. Flow(d, <<>>)
      BY <1>10 DEF FlowInv
    <3>4. Flow(d, <<>>)'
      BY <1>9, <2>2, <3>3
    <3> QED
      BY <3>2, <3>4
  <2> QED
    BY <2>1, <2>2
<1> QED
  BY <1>7, <1>9, <1>13 DEF FlowInv

LEMMA FlowWriteEcho ==
  ASSUME IInv, FlowInv, WriteEcho
  PROVE  FlowInv'
<1>1. /\ NetInv /\ EchoInv /\ pc = "write" /\ SlotTypes /\ up /\ i \in Slots /\ slot[i] # NoFd
      /\ buf' = buf
  BY DEF IInv, FlowInv, SlotTypes, RoundInv, WriteEcho
<1>2. PICK c \in Clients : c = Owner(slot[i]) /\ fd[c] = slot[i]
  BY <1>1, OwnerOfSlot
<1>3. PICK b \in Seq(Segments) : b = buf
  BY DEF FlowInv
<1>4. Written(c, b) /\ c \notin reset
  BY <1>2, <1>3 DEF WriteEcho
<1>5. pc' # "write"
  <2>1. PICK s \in Slots : s = i
    BY <1>1
  <2>2. Continue(s)
    BY <2>1 DEF WriteEcho
  <2> QED
    BY <1>1, <2>2, ContinueSteps
<1>6. Buffered(c) = b /\ Live(c)
  BY <1>1, <1>2, <1>3, <1>4 DEF Buffered, Live, Connected
<1>7. Flow(c, b)
  BY <1>6 DEF FlowInv
<1>8. Flow(c, <<>>)'
  BY <1>1, <1>4, <1>6, <1>7, FlowWrite
<1>9. EchoInv' /\ \A d \in Clients : \A e : d # c /\ Flow(d, e) => Flow(d, e)'
  BY <1>1, <1>4, WriteFrame
<1>10. ASSUME NEW d \in Clients PROVE Flow(d, <<>>)'
  <2>1. CASE d = c
    BY <1>8, <2>1
  <2>2. CASE d # c
    <3>1. fd[d] = NoFd \/ fd[d] # fd[c]
      BY <1>1, <2>2 DEF NetInv, Connections
    <3>2. Buffered(d) = <<>>
      BY <1>2, <3>1 DEF Buffered
    <3>3. Flow(d, <<>>)
      BY <3>2 DEF FlowInv
    <3> QED
      BY <1>9, <2>2, <3>3
  <2> QED
    BY <2>1, <2>2
<1>11. \A d : Buffered(d)' = <<>>
  BY <1>5 DEF Buffered
<1> QED
  BY <1>1, <1>9, <1>10, <1>11 DEF FlowInv

LEMMA FlowWriteFails ==
  ASSUME IInv, FlowInv, WriteFails
  PROVE  FlowInv'
<1>1. CASE Exit
  BY <1>1, FlowExits
<1>2. CASE ~Exit
  <2>1. Again /\ UNCHANGED netVars /\ buf' = buf /\ Owner(slot[i]) \in reset /\ pc = "write"
    BY <1>2 DEF WriteFails
  <2>2. pc' # "write"
    BY <2>1 DEF Again
  <2>3. ASSUME NEW c \in Clients, Live(c) PROVE Buffered(c) = <<>>
    <3>1. c \notin reset
      BY <2>3 DEF Live
    <3>2. fd[c] # NoFd => Owner(fd[c]) = c
      BY OwnerOf DEF IInv
    <3> QED
      BY <2>1, <3>1, <3>2 DEF Buffered
  <2> QED
    BY <2>1, <2>2, <2>3, FlowStill
<1> QED
  BY <1>1, <1>2

LEMMA FlowSteps ==
  ASSUME IInv, FlowInv, [Next]_vars
  PROVE  FlowInv'
<1>1. pc # "write" => \A c \in Clients : Buffered(c) = <<>>
  BY DEF Buffered
<1>2. CASE Select
  BY <1>1, <1>2, FlowStill DEF Select
<1>3. CASE ScanEnds
  BY <1>1, <1>3, FlowStill DEF ScanEnds, Again
<1>4. ASSUME NEW c \in Clients, NetStep(c), UNCHANGED serverVars PROVE FlowInv'
  BY <1>4, FlowNet
<1>5. CASE UNCHANGED vars
  <2>1. /\ UNCHANGED <<client, typed, wire, got, inbox, outbox, reset, backlog, fd, up>>
        /\ UNCHANGED <<slot, pc, i, buf>>
    BY <1>5 DEF vars, netVars, clientVars, socketVars, serverVars
  <2>2. EchoInv'
    BY <2>1 DEF FlowInv, EchoInv
  <2>3. ASSUME NEW c \in Clients PROVE Flow(c, Buffered(c))'
    <3>1. PICK b : b = Buffered(c)
      OBVIOUS
    <3>2. Flow(c, b) /\ Buffered(c)' = b /\ Live(c)' = Live(c)
      BY <2>1, <3>1 DEF FlowInv, Buffered, Live, Connected
    <3>3. Flow(c, b)'
      BY <2>1, <3>2, FlowFrame
    <3> QED
      BY <3>2, <3>3
  <2> QED
    BY <2>1, <2>2, <2>3 DEF FlowInv
<1>6. ServerStep => FlowInv'
  BY <1>2, <1>3, FlowAccepts, FlowExits, FlowReadEnd, FlowReadData, FlowWriteEcho, FlowWriteFails
  DEF ServerStep, AcceptFails
<1> QED
  BY <1>4, <1>5, <1>6 DEF Next

(* A client gets back its own segments, each once and in order, although   *)
(* all connections share one buffer, descriptors and slots are reused, and *)
(* a failed write drops what is in the buffer.                             *)
THEOREM Echoes == Spec => []EchoesOwnLines
<1>1. FlowInv /\ IInv => EchoesOwnLines
  <2>1. ASSUME FlowInv, IInv, NEW c \in Clients PROVE EchoesOwn(c)
    <3>1. PICK b \in Seq(Segments) : b = Buffered(c)
      BY <2>1, BufferedIs
    <3>2. Flow(c, b)
      BY <2>1, <3>1 DEF FlowInv
    <3> QED
      BY <2>1, <3>2, FlowEchoes DEF FlowInv, IInv, NetInv
  <2> QED
    BY <2>1 DEF EchoesOwnLines
<1>2. Init => FlowInv
  BY FlowInit
<1>3. IInv /\ FlowInv /\ [Next]_vars => FlowInv'
  BY FlowSteps
<1> QED
  BY <1>1, <1>2, <1>3, Invariant, PTL DEF Spec
=============================================================================
