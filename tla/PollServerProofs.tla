-------------------------- MODULE PollServerProofs --------------------------
(***************************************************************************)
(* Proofs about the poll server: the entries of the array always describe  *)
(* the open connections, every client gets its own lines back, and what    *)
(* makes it block in read is the revents of entries that were never polled *)
(* and nothing else.                                                       *)
(***************************************************************************)
EXTENDS PollServer, EchoNetProofs

(* The table: as TableConsistent, entry by entry. *)
TableInv ==
  /\ \A s, t \in Slots : slot[s] = slot[t] /\ slot[s] # NoFd => s = t
  /\ \A s \in Slots : slot[s] # NoFd => slot[s] \in OpenFds /\ s <= maxi
  /\ \A f \in OpenFds : \E s \in Slots : slot[s] = f

(* accept has a connection to take, write one to write to. *)
RoundInv ==
  /\ pc = "listen" => backlog # <<>>
  /\ pc = "write" => i \in Slots /\ slot[i] # NoFd

SlotTypes ==
  /\ slot \in [Slots -> {NoFd} \cup Fds] /\ revents \in [Slots -> BOOLEAN]
  /\ maxi \in 0..(OPENMAX - 1) /\ nready \in 0..OPENMAX /\ i \in 1..OPENMAX
  /\ pc \in {"poll", "listen", "scan", "write", "exit"}
  /\ up <=> pc # "exit"

IInv == NetInv /\ SlotTypes /\ (up => TableInv /\ RoundInv)

-----------------------------------------------------------------------------
LEMMA Bounds ==
  /\ OPENMAX \in Nat /\ OPENMAX > 0 /\ FdLimit \in Nat /\ ListenFd + 1 \in Nat
  /\ Fds \subseteq Nat /\ Slots \subseteq Nat /\ NoFd \notin Nat
  BY NetAssumption, PollAssumption DEF NetAssumption, PollAssumption, Slots, Fds, ListenFd, NoFd

LEMMA OpenFdsBounds ==
  ASSUME NetInv
  PROVE  OpenFds \subseteq Fds /\ FreeFds \subseteq Fds /\ FreeFds \cap OpenFds = {}
  BY DEF NetInv, NetTypes, OpenFds, FreeFds, Fds

LEMMA InitInv ==
  ASSUME Init
  PROVE  IInv
<1>1. NetInv
  BY NetInvInit DEF Init
<1>2. SlotTypes
  BY Bounds DEF Init, NetInit, SlotTypes
<1>3. OpenFds = {}
  BY DEF Init, NetInit, OpenFds
<1>4. TableInv
  BY <1>3 DEF Init, TableInv
<1>5. RoundInv
  BY DEF Init, RoundInv
<1> QED
  BY <1>1, <1>2, <1>4, <1>5 DEF IInv

(* poll: the ready entries are used ones, so there are fewer than OPENMAX. *)
LEMMA StepPoll ==
  ASSUME IInv, Poll
  PROVE  IInv'
<1>1. /\ NetInv /\ SlotTypes /\ pc = "poll" /\ up /\ TableInv /\ RoundInv
  BY DEF IInv, SlotTypes, Poll
<1>2. /\ revents' = [s \in Slots |-> IF s <= maxi THEN s \in ReadySlots ELSE revents[s]]
      /\ nready' = Cardinality(ReadySlots) + (IF backlog # <<>> THEN 1 ELSE 0)
      /\ pc' = IF backlog # <<>> THEN "listen" ELSE "scan"
      /\ UNCHANGED <<client, typed, wire, got, inbox, outbox, reset, backlog, fd, up, slot, maxi, i>>
  BY DEF Poll, netVars, clientVars, socketVars
<1>3. NetInv'
  BY <1>1, <1>2 DEF NetInv, NetTypes, Connections
<1>4. Cardinality(ReadySlots) \in 0..(OPENMAX - 1)
  <2>1. maxi \in Nat /\ maxi <= OPENMAX - 1
    BY <1>1, Bounds DEF SlotTypes
  <2>2. IsFiniteSet(1..maxi) /\ Cardinality(1..maxi) = maxi
    <3>1. CASE maxi = 0
      <4>1. 1..maxi = {}
        BY <3>1
      <4> QED
        BY <3>1, <4>1, FS_EmptySet
    <3>2. CASE maxi # 0
      BY <2>1, <3>2, FS_Interval, SMTT(30)
    <3> QED
      BY <3>1, <3>2
  <2>3. ReadySlots \subseteq 1..maxi
    BY DEF ReadySlots
  <2>4. Cardinality(ReadySlots) \in Nat /\ Cardinality(ReadySlots) <= maxi
    BY <2>2, <2>3, FS_Subset, FS_CardinalityType
  <2> QED
    BY <2>1, <2>4, Bounds
<1>5. nready' \in 0..OPENMAX
  BY <1>2, <1>4, Bounds
<1>6. revents' \in [Slots -> BOOLEAN]
  <2>1. ASSUME NEW s \in Slots PROVE (IF s <= maxi THEN s \in ReadySlots ELSE revents[s]) \in BOOLEAN
    <3>1. CASE s <= maxi
      <4>1. (s \in ReadySlots) = TRUE \/ (s \in ReadySlots) = FALSE
        OBVIOUS
      <4> QED
        BY <3>1, <4>1
    <3>2. CASE ~(s <= maxi)
      BY <1>1, <3>2 DEF SlotTypes
    <3> QED
      BY <3>1, <3>2
  <2> QED
    BY <1>2, <2>1, Zenon
<1>7. SlotTypes'
  BY <1>1, <1>2, <1>5, <1>6 DEF SlotTypes
<1>8. TableInv'
  BY <1>1, <1>2 DEF TableInv, OpenFds
<1>9. RoundInv'
  BY <1>2 DEF RoundInv
<1> QED
  BY <1>3, <1>7, <1>8, <1>9 DEF IInv

(* A client or the network. *)
LEMMA StepNet ==
  ASSUME IInv, NEW c \in Clients, NetStep(c), UNCHANGED serverVars
  PROVE  IInv'
<1>1. NetInv' /\ fd' = fd /\ up' = up /\ (backlog # <<>> => backlog' # <<>>)
  BY NetStepKeeps DEF IInv
<1>2. UNCHANGED <<slot, revents, maxi, nready, pc, i, buf>>
  BY DEF serverVars
<1>3. SlotTypes'
  BY <1>1, <1>2 DEF IInv, SlotTypes
<1>4. ASSUME up' PROVE TableInv' /\ RoundInv'
  <2>1. TableInv /\ RoundInv
    BY <1>1, <1>4 DEF IInv
  <2>2. OpenFds' = OpenFds
    BY <1>1 DEF OpenFds
  <2>3. TableInv'
    BY <1>2, <2>1, <2>2 DEF TableInv
  <2>4. RoundInv'
    BY <1>1, <1>2, <2>1 DEF RoundInv
  <2> QED
    BY <2>3, <2>4
<1> QED
  BY <1>1, <1>3, <1>4 DEF IInv

LEMMA StepExit ==
  ASSUME IInv, Exit
  PROVE  IInv'
<1>1. NetInv' /\ ~up'
  BY ExitKeeps DEF IInv, Exit
<1>2. pc' = "exit" /\ UNCHANGED <<slot, revents, maxi, nready, i>>
  BY DEF Exit
<1>3. SlotTypes'
  BY <1>1, <1>2 DEF IInv, SlotTypes
<1> QED
  BY <1>1, <1>3 DEF IInv

(* What accept does to the table: a free descriptor goes into a free entry *)
(* at or below the new maxi.                                               *)
LEMMA AcceptEffect ==
  ASSUME IInv, Accept
  PROVE  \E f \in Fds, z \in Slots, c \in Clients :
           /\ f \in FreeFds /\ f \notin OpenFds /\ f # NoFd /\ slot[z] = NoFd
           /\ Accepted(f) /\ fd[c] = NoFd /\ fd' = [fd EXCEPT ![c] = f]
           /\ NetInv' /\ up' = up /\ OpenFds' = OpenFds \cup {f}
           /\ slot' = [slot EXCEPT ![z] = f] /\ maxi' \in {maxi, z} /\ maxi <= maxi' /\ z <= maxi'
           /\ \/ pc' = "poll" /\ nready' = 0 /\ i' = 1
              \/ pc' = "scan" /\ nready - 1 >= 0 /\ nready' = nready - 1 /\ i' = i
           /\ UNCHANGED <<revents, inbox, reset, buf>>
<1>1. /\ NetInv /\ SlotTypes /\ pc = "listen" /\ up /\ TableInv /\ RoundInv /\ backlog # <<>>
  BY DEF IInv, SlotTypes, RoundInv, Accept
<1>2. PICK f \in FreeFds : f = Min(FreeFds)
  <2>1. FreeFds \subseteq Nat
    BY <1>1, OpenFdsBounds, Bounds
  <2> QED
    BY <2>1, LeastElement DEF Accept
<1>3. PICK z \in Slots : z = Min(FreeSlots) /\ slot[z] = NoFd
  <2>1. FreeSlots \subseteq Nat
    BY Bounds DEF FreeSlots
  <2>2. Min(FreeSlots) \in FreeSlots
    BY <2>1, LeastElement DEF Accept
  <2> QED
    BY <2>2 DEF FreeSlots
<1>4. f \in Fds /\ f \notin OpenFds /\ f # NoFd
  BY <1>1, OpenFdsBounds, Bounds
<1>5. /\ Accepted(f) /\ slot' = [slot EXCEPT ![z] = f] /\ maxi' = Max({maxi, z})
      /\ IF nready - 1 < 0 THEN Again ELSE pc' = "scan" /\ nready' = nready - 1 /\ i' = i
      /\ revents' = revents /\ buf' = buf
  BY <1>2, <1>3 DEF Accept
<1>6. /\ NetInv' /\ up' = up /\ OpenFds' = OpenFds \cup {f} /\ inbox' = inbox /\ reset' = reset
  BY <1>1, <1>2, <1>5, AcceptKeeps
<1>7. PICK c \in Clients : fd[c] = NoFd /\ fd' = [fd EXCEPT ![c] = f]
  BY <1>1, <1>2, <1>5, AcceptKeeps
<1>8. maxi' \in {maxi, z} /\ maxi <= maxi' /\ z <= maxi'
  <2>1. maxi \in Int /\ z \in Int
    BY <1>1, Bounds DEF SlotTypes
  <2> QED
    BY <1>5, <2>1, LargerOfTwo
<1>9. \/ pc' = "poll" /\ nready' = 0 /\ i' = 1
      \/ pc' = "scan" /\ nready - 1 >= 0 /\ nready' = nready - 1 /\ i' = i
  <2>1. nready \in Int
    BY <1>1 DEF SlotTypes
  <2> QED
    BY <1>5, <2>1 DEF Again
<1> QED
  BY <1>2, <1>3, <1>4, <1>5, <1>6, <1>7, <1>8, <1>9

LEMMA StepAccept ==
  ASSUME IInv, Accept
  PROVE  IInv'
<1>1. NetInv /\ SlotTypes /\ up /\ TableInv
  BY DEF IInv, SlotTypes, Accept
<1>2. PICK f \in Fds, z \in Slots :
         /\ f \notin OpenFds /\ f # NoFd /\ slot[z] = NoFd
         /\ NetInv' /\ up' = up /\ OpenFds' = OpenFds \cup {f}
         /\ slot' = [slot EXCEPT ![z] = f] /\ maxi' \in {maxi, z} /\ maxi <= maxi' /\ z <= maxi'
         /\ \/ pc' = "poll" /\ nready' = 0 /\ i' = 1
            \/ pc' = "scan" /\ nready - 1 >= 0 /\ nready' = nready - 1 /\ i' = i
         /\ revents' = revents
  BY AcceptEffect
<1>3. \A s \in Slots : slot'[s] = IF s = z THEN f ELSE slot[s]
  BY <1>1, <1>2 DEF SlotTypes
<1>4. SlotTypes'
  <2>1. slot' \in [Slots -> {NoFd} \cup Fds]
    BY <1>1, <1>2 DEF SlotTypes
  <2>2. maxi' \in 0..(OPENMAX - 1)
    BY <1>1, <1>2, Bounds DEF SlotTypes, Slots
  <2>3. nready' \in 0..OPENMAX /\ i' \in 1..OPENMAX
    BY <1>1, <1>2, Bounds DEF SlotTypes
  <2>4. pc' \in {"poll", "scan"} /\ up'
    BY <1>1, <1>2
  <2> QED
    BY <1>1, <1>2, <2>1, <2>2, <2>3, <2>4 DEF SlotTypes
<1>5. TableInv'
  <2>1. \A s \in Slots : slot[s] # NoFd => slot[s] # f
    BY <1>1, <1>2 DEF TableInv
  <2>2. \A s, t \in Slots : slot'[s] = slot'[t] /\ slot'[s] # NoFd => s = t
    BY <1>1, <1>2, <1>3, <2>1 DEF TableInv
  <2>3. ASSUME NEW s \in Slots, slot'[s] # NoFd
        PROVE  slot'[s] \in OpenFds' /\ s <= maxi'
    <3>1. CASE s = z
      BY <1>2, <1>3, <3>1
    <3>2. CASE s # z
      <4>1. slot'[s] = slot[s] /\ slot[s] \in OpenFds /\ s <= maxi
        BY <1>1, <1>3, <2>3, <3>2 DEF TableInv
      <4>2. s \in Int /\ maxi \in Int /\ maxi' \in Int
        BY <1>1, <1>4, Bounds DEF SlotTypes
      <4> QED
        BY <1>2, <4>1, <4>2
    <3> QED
      BY <3>1, <3>2
  <2>4. \A g \in OpenFds' : \E s \in Slots : slot'[s] = g
    BY <1>1, <1>2, <1>3, OpenFdsBounds, Bounds DEF TableInv
  <2> QED
    BY <2>2, <2>3, <2>4 DEF TableInv
<1>6. RoundInv'
  BY <1>2 DEF RoundInv
<1> QED
  BY <1>2, <1>4, <1>5, <1>6 DEF IInv

LEMMA StepAcceptFails ==
  ASSUME IInv, AcceptFails
  PROVE  IInv'
  BY StepExit DEF AcceptFails

(* Back to poll: the round is over. *)
LEMMA StepAgain ==
  ASSUME IInv, Again, UNCHANGED <<netVars, slot, revents, maxi>>, up
  PROVE  IInv'
<1>1. NetInv /\ SlotTypes /\ TableInv
  BY DEF IInv
<1>2. /\ UNCHANGED <<client, typed, wire, got, inbox, outbox, reset, backlog, fd, up>>
      /\ UNCHANGED <<slot, revents, maxi>>
      /\ pc' = "poll" /\ nready' = 0 /\ i' = 1
  BY DEF Again, netVars, clientVars, socketVars
<1>3. NetInv'
  BY <1>1, <1>2 DEF NetInv, NetTypes, Connections
<1>4. SlotTypes'
  BY <1>1, <1>2, Bounds DEF SlotTypes
<1>5. TableInv'
  BY <1>1, <1>2 DEF TableInv, OpenFds
<1>6. RoundInv'
  BY <1>2 DEF RoundInv
<1> QED
  BY <1>3, <1>4, <1>5, <1>6 DEF IInv

LEMMA StepScanEnds ==
  ASSUME IInv, ScanEnds
  PROVE  IInv'
<1>1. up
  BY DEF IInv, SlotTypes, ScanEnds
<1> QED
  BY <1>1, StepAgain DEF ScanEnds

(* The entry the loop comes to, and the connection in it. *)
LEMMA DueSlot ==
  ASSUME IInv, pc = "scan", Due # {}
  PROVE  /\ Min(Due) \in Slots /\ Min(Due) >= i
         /\ slot[Min(Due)] # NoFd /\ revents[Min(Due)]
         /\ Owner(slot[Min(Due)]) \in Clients
         /\ fd[Owner(slot[Min(Due)])] = slot[Min(Due)]
<1>1. /\ NetInv /\ SlotTypes /\ up /\ TableInv
  BY DEF IInv, SlotTypes
<1>2. i \in Nat /\ i >= 1 /\ maxi \in Int /\ maxi <= OPENMAX - 1
  BY <1>1, Bounds DEF SlotTypes
<1>3. Due \subseteq Slots /\ Due \subseteq Nat
  BY <1>2, Bounds DEF Due, Slots
<1>4. Min(Due) \in Due
  BY <1>3, LeastElement
<1>5. PICK s \in Due : s = Min(Due)
  BY <1>4
<1>6. s \in Slots /\ s >= i /\ slot[s] # NoFd /\ revents[s]
  BY <1>2, <1>3, <1>5 DEF Due
<1>7. slot[s] \in OpenFds
  BY <1>1, <1>6 DEF TableInv
<1>8. PICK c \in Clients : fd[c] = slot[s]
  BY <1>7 DEF OpenFds
<1>9. Owner(slot[s]) = c
  BY <1>1, <1>6, <1>8, OwnerOf
<1> QED
  BY <1>5, <1>6, <1>8, <1>9

(* The loop goes on behind entry s, or the round is over. *)
LEMMA ContinueSteps ==
  ASSUME SlotTypes, NEW s \in Slots, Continue(s)
  PROVE  /\ pc' = "poll" \/ (pc' = "scan" /\ i' = s + 1)
         /\ nready' \in 0..OPENMAX /\ i' \in 1..OPENMAX
<1>1. nready \in 0..OPENMAX /\ s + 1 \in 1..OPENMAX /\ 1 \in 1..OPENMAX /\ 0 \in 0..OPENMAX
  BY Bounds DEF SlotTypes, Slots
<1>2. CASE nready - 1 <= 0
  <2>1. pc' = "poll" /\ nready' = 0 /\ i' = 1
    BY <1>2 DEF Continue, Again
  <2> QED
    BY <1>1, <2>1
<1>3. CASE ~(nready - 1 <= 0)
  <2>1. pc' = "scan" /\ nready' = nready - 1 /\ i' = s + 1
    BY <1>3 DEF Continue
  <2>2. nready' \in 0..OPENMAX
    BY <1>1, <1>3, <2>1, Bounds
  <2> QED
    BY <1>1, <2>1, <2>2
<1> QED
  BY <1>2, <1>3

(* The end of a connection frees its entry. *)
LEMMA StepReadEnd ==
  ASSUME IInv, ReadEnd
  PROVE  IInv'
<1>1. /\ NetInv /\ SlotTypes /\ pc = "scan" /\ up /\ TableInv
  BY DEF IInv, SlotTypes, ReadEnd
<1>2. PICK s \in Slots : s = Min(Due)
  BY DueSlot DEF ReadEnd
<1>3. PICK c \in Clients : c = Owner(slot[s]) /\ fd[c] = slot[s] /\ fd[c] # NoFd
  BY <1>2, DueSlot DEF ReadEnd
<1>4. /\ Closed(c) /\ slot' = [slot EXCEPT ![s] = NoFd]
      /\ Continue(s) /\ maxi' = maxi /\ revents' = revents
  BY <1>2, <1>3 DEF ReadEnd
<1>5. /\ NetInv' /\ fd' = [fd EXCEPT ![c] = NoFd] /\ up' = up /\ OpenFds' = OpenFds \ {fd[c]}
  BY <1>1, <1>3, <1>4, CloseKeeps
<1>6. pc' \in {"poll", "scan"} /\ nready' \in 0..OPENMAX /\ i' \in 1..OPENMAX
  BY <1>1, <1>4, ContinueSteps
<1>7. \A t \in Slots : slot'[t] = IF t = s THEN NoFd ELSE slot[t]
  BY <1>1, <1>4 DEF SlotTypes
<1>8. SlotTypes'
  <2>1. slot' \in [Slots -> {NoFd} \cup Fds]
    BY <1>1, <1>4 DEF SlotTypes
  <2> QED
    BY <1>1, <1>4, <1>5, <1>6, <2>1 DEF SlotTypes
<1>9. TableInv'
  <2>1. \A t \in Slots : t # s /\ slot[t] # NoFd => slot[t] # fd[c]
    BY <1>1, <1>3 DEF TableInv
  <2>2. \A t, r \in Slots : slot'[t] = slot'[r] /\ slot'[t] # NoFd => t = r
    BY <1>1, <1>7 DEF TableInv
  <2>3. \A t \in Slots : slot'[t] # NoFd => slot'[t] \in OpenFds' /\ t <= maxi'
    BY <1>1, <1>4, <1>5, <1>7, <2>1 DEF TableInv
  <2>4. \A f \in OpenFds' : \E t \in Slots : slot'[t] = f
    BY <1>1, <1>3, <1>5, <1>7 DEF TableInv
  <2> QED
    BY <2>2, <2>3, <2>4 DEF TableInv
<1>10. RoundInv'
  BY <1>6 DEF RoundInv
<1> QED
  BY <1>5, <1>8, <1>9, <1>10 DEF IInv

LEMMA StepReadData ==
  ASSUME IInv, ReadData
  PROVE  IInv'
<1>1. /\ NetInv /\ SlotTypes /\ pc = "scan" /\ up /\ TableInv
  BY DEF IInv, SlotTypes, ReadData
<1>2. PICK s \in Slots : s = Min(Due) /\ slot[s] # NoFd
  BY DueSlot DEF ReadData
<1>3. PICK c \in Clients : c = Owner(slot[s])
  BY <1>2, DueSlot DEF ReadData
<1>4. Drained(c) /\ i' = s /\ pc' = "write" /\ UNCHANGED <<slot, revents, maxi, nready>>
  BY <1>2, <1>3 DEF ReadData
<1>5. NetInv' /\ fd' = fd /\ up' = up /\ OpenFds' = OpenFds
  BY <1>1, <1>4, DrainKeeps
<1>6. s \in 1..OPENMAX
  BY Bounds DEF Slots
<1>7. SlotTypes'
  BY <1>1, <1>4, <1>5, <1>6 DEF SlotTypes
<1>8. TableInv'
  BY <1>1, <1>4, <1>5 DEF TableInv
<1>9. RoundInv'
  BY <1>2, <1>4 DEF RoundInv
<1> QED
  BY <1>5, <1>7, <1>8, <1>9 DEF IInv

LEMMA StepWriteEcho ==
  ASSUME IInv, WriteEcho
  PROVE  IInv'
<1>1. /\ NetInv /\ SlotTypes /\ pc = "write" /\ up /\ TableInv /\ i \in Slots
  BY DEF IInv, SlotTypes, RoundInv, WriteEcho
<1>2. PICK s \in Slots : s = i
  BY <1>1
<1>3. Continue(s) /\ UNCHANGED <<slot, revents, maxi>>
  BY <1>2 DEF WriteEcho
<1>4. NetInv' /\ UNCHANGED <<fd, up, backlog, inbox, reset, OpenFds>>
  BY <1>1, WriteKeeps DEF WriteEcho
<1>5. pc' \in {"poll", "scan"} /\ nready' \in 0..OPENMAX /\ i' \in 1..OPENMAX
  BY <1>1, <1>3, ContinueSteps
<1>6. SlotTypes'
  BY <1>1, <1>3, <1>4, <1>5 DEF SlotTypes
<1>7. TableInv'
  BY <1>1, <1>3, <1>4 DEF TableInv
<1>8. RoundInv'
  BY <1>5 DEF RoundInv
<1> QED
  BY <1>4, <1>6, <1>7, <1>8 DEF IInv

LEMMA StepWriteFails ==
  ASSUME IInv, WriteFails
  PROVE  IInv'
<1>1. up
  BY DEF IInv, SlotTypes, WriteFails
<1> QED
  BY <1>1, StepAgain, StepExit DEF WriteFails

LEMMA StepStutters ==
  ASSUME IInv, UNCHANGED vars
  PROVE  IInv'
<1>1. /\ UNCHANGED <<client, typed, wire, got, inbox, outbox, reset, backlog, fd, up>>
      /\ UNCHANGED <<slot, revents, maxi, nready, pc, i, buf>>
  BY DEF vars, netVars, clientVars, socketVars, serverVars
<1>2. NetInv' /\ SlotTypes'
  BY <1>1 DEF IInv, NetInv, NetTypes, Connections, SlotTypes
<1>3. up => TableInv' /\ RoundInv'
  BY <1>1 DEF IInv, TableInv, OpenFds, RoundInv
<1> QED
  BY <1>1, <1>2, <1>3 DEF IInv

LEMMA Steps ==
  ASSUME IInv, [Next]_vars
  PROVE  IInv'
<1>1. ASSUME NEW c \in Clients, NetStep(c), UNCHANGED serverVars PROVE IInv'
  BY <1>1, StepNet
<1>2. ServerStep => IInv'
  BY StepPoll, StepAccept, StepAcceptFails, StepScanEnds, StepReadEnd,
     StepReadData, StepWriteEcho, StepWriteFails DEF ServerStep
<1>3. UNCHANGED vars => IInv'
  BY StepStutters
<1> QED
  BY <1>1, <1>2, <1>3 DEF Next

(* The inductive invariant, for any number of clients and entries and any  *)
(* contents of revents to begin with.                                      *)
THEOREM Invariant == Spec => []IInv
BY InitInv, Steps, PTL DEF Spec

LEMMA TableOf ==
  ASSUME IInv
  PROVE  TableConsistent
<1>1. TypeOK
  <2>1. NetTypeOK
    BY NetInvTypes DEF IInv
  <2> QED
    BY <2>1 DEF IInv, SlotTypes, TypeOK, Fds
<1>2. ASSUME up PROVE {slot[s] : s \in Slots} \ {NoFd} = OpenFds
  <2>1. NoFd \notin OpenFds
    BY DEF OpenFds
  <2> QED
    BY <1>2, <2>1 DEF IInv, TableInv
<1>3. ASSUME up, NEW c \in Clients, fd[c] # NoFd
      PROVE  /\ Cardinality({s \in Slots : slot[s] = fd[c]}) = 1
             /\ \E s \in 1..maxi : slot[s] = fd[c]
  <2>1. PICK s \in Slots : slot[s] = fd[c]
    BY <1>3 DEF IInv, TableInv, OpenFds
  <2>2. {t \in Slots : slot[t] = fd[c]} = {s}
    BY <1>3, <2>1 DEF IInv, TableInv
  <2>3. s <= maxi /\ s \in Nat /\ s >= 1 /\ maxi \in Int
    BY <1>3, <2>1, Bounds DEF IInv, TableInv, SlotTypes, Slots
  <2> QED
    BY <2>1, <2>2, <2>3, FS_Singleton
<1> QED
  BY <1>1, <1>2, <1>3 DEF TableConsistent

(* An open connection has exactly one entry, at or below maxi, and no      *)
(* entry names a closed descriptor, whatever the order of accepts, ends    *)
(* and failures, and although the loop acts on entries that were never     *)
(* polled.                                                                 *)
THEOREM TableKept == Spec => []TableConsistent
BY Invariant, TableOf, PTL

-----------------------------------------------------------------------------
(* The cause of the blocking read.  The entries the for loop has still to  *)
(* visit in this round: *)
Ahead ==
  {s \in Slots : pc = "listen" \/ (pc = "scan" /\ s >= i) \/ (pc = "write" /\ s > i)}

(* If the revents of the entries that were never polled are clear, those   *)
(* of free entries are clear when accept fills one, and an entry whose     *)
(* revents is set has something to read until the loop has been there.     *)
PolledInv ==
  /\ \A s \in Slots : s > maxi => ~revents[s]
  /\ pc = "listen" => \A s \in Slots : slot[s] = NoFd => ~revents[s]
  /\ \A s \in Ahead : \A c \in Clients :
       revents[s] /\ slot[s] = fd[c] /\ fd[c] # NoFd => Readable(c)

LEMMA PolledPoll ==
  ASSUME IInv, PolledInv, Poll
  PROVE  PolledInv'
<1>1. /\ NetInv /\ SlotTypes /\ up /\ TableInv
  BY DEF IInv, SlotTypes, Poll
<1>2. /\ revents' = [s \in Slots |-> IF s <= maxi THEN s \in ReadySlots ELSE revents[s]]
      /\ UNCHANGED <<inbox, reset, fd, slot, maxi>>
  BY DEF Poll, netVars, clientVars, socketVars
<1>3. maxi \in Int /\ Slots \subseteq Int
  BY <1>1, Bounds DEF SlotTypes
<1>4. ASSUME NEW s \in Slots, revents'[s] PROVE s <= maxi /\ s \in ReadySlots
  <2>1. s \in Int
    BY <1>3
  <2>2. CASE s <= maxi
    BY <1>2, <1>4, <2>2
  <2>3. CASE ~(s <= maxi)
    BY <1>2, <1>3, <1>4, <2>1, <2>3 DEF PolledInv
  <2> QED
    BY <2>2, <2>3
<1>5. \A s \in Slots : s > maxi' => ~revents'[s]
  BY <1>2, <1>3, <1>4
<1>6. \A s \in Slots : slot'[s] = NoFd => ~revents'[s]
  BY <1>2, <1>4 DEF ReadySlots
<1>7. ASSUME NEW s \in Ahead', NEW c \in Clients, revents'[s], slot'[s] = fd'[c], fd'[c] # NoFd
      PROVE  Readable(c)'
  <2>1. s \in Slots
    BY <1>7 DEF Ahead
  <2>2. Owner(fd[c]) = c
    BY <1>1, <1>2, <1>7, OwnerOf
  <2>3. Readable(c)
    BY <1>2, <1>4, <1>7, <2>1, <2>2 DEF ReadySlots
  <2> QED
    BY <1>2, <2>3 DEF Readable
<1> QED
  BY <1>5, <1>6, <1>7 DEF PolledInv

LEMMA PolledNet ==
  ASSUME IInv, PolledInv, NEW c \in Clients, NetStep(c), UNCHANGED serverVars
  PROVE  PolledInv'
<1>1. fd' = fd /\ \A d \in Clients : Readable(d) => Readable(d)'
  BY NetStepKeeps DEF IInv
<1>2. UNCHANGED <<slot, revents, maxi, pc, i>>
  BY DEF serverVars
<1>3. Ahead' = Ahead
  BY <1>2 DEF Ahead
<1> QED
  BY <1>1, <1>2, <1>3 DEF PolledInv

(* The round is over, or the server has ended. *)
LEMMA PolledRests ==
  ASSUME PolledInv, UNCHANGED <<revents, maxi>>, pc' \in {"poll", "exit"}
  PROVE  PolledInv'
  BY DEF PolledInv, Ahead

(* The entry that accept fills is clear. *)
LEMMA PolledAccept ==
  ASSUME IInv, PolledInv, Accept
  PROVE  PolledInv'
<1>1. NetInv /\ SlotTypes /\ pc = "listen"
  BY DEF IInv, Accept
<1>2. PICK f \in Fds, z \in Slots, c \in Clients :
         /\ f # NoFd /\ slot[z] = NoFd /\ fd[c] = NoFd /\ fd' = [fd EXCEPT ![c] = f] /\ NetInv'
         /\ slot' = [slot EXCEPT ![z] = f] /\ maxi' \in {maxi, z} /\ maxi <= maxi'
         /\ pc' # "listen" /\ UNCHANGED <<revents, inbox, reset>>
  BY AcceptEffect
<1>3. /\ fd \in [Clients -> {NoFd} \cup Fds] /\ \A d, e \in Clients : fd'[d] = fd'[e] /\ fd'[d] # NoFd => d = e
      /\ slot \in [Slots -> {NoFd} \cup Fds]
  BY <1>1, <1>2 DEF NetInv, NetTypes, Connections, SlotTypes
<1>4. ~revents[z]
  BY <1>1, <1>2 DEF PolledInv
<1>5. ASSUME NEW s \in Slots, s > maxi' PROVE ~revents[s]
  <2>1. s \in Int /\ maxi \in Int /\ maxi' \in Int
    BY <1>1, <1>2, Bounds DEF SlotTypes
  <2>2. s > maxi
    BY <1>2, <1>5, <2>1
  <2> QED
    BY <2>2 DEF PolledInv
<1>6. ASSUME NEW s \in Ahead', NEW d \in Clients, revents'[s], slot'[s] = fd'[d], fd'[d] # NoFd
      PROVE  Readable(d)'
  <2>1. s \in Slots /\ s # z /\ s \in Ahead
    BY <1>1, <1>2, <1>4, <1>6 DEF Ahead
  <2>2. slot'[s] = slot[s]
    BY <1>2, <1>3, <2>1
  <2>3. CASE d = c
    <3>1. slot[s] = f
      BY <1>2, <1>3, <1>6, <2>2, <2>3
    <3>2. f \in OpenFds
      BY <1>2, <2>1, <3>1 DEF IInv, TableInv, SlotTypes, Accept
    <3>3. PICK e \in Clients : fd[e] = f
      BY <3>2 DEF OpenFds
    <3>4. e # c /\ fd'[e] = f /\ fd'[c] = f
      BY <1>2, <1>3, <3>3
    <3> QED
      BY <1>2, <1>3, <3>4
  <2>4. CASE d # c
    <3>1. fd'[d] = fd[d]
      BY <1>2, <1>3, <2>4
    <3>2. Readable(d)
      BY <1>2, <1>6, <2>1, <2>2, <3>1 DEF PolledInv
    <3> QED
      BY <1>2, <3>1, <3>2 DEF Readable
  <2> QED
    BY <2>3, <2>4
<1> QED
  BY <1>2, <1>5, <1>6 DEF PolledInv

(* The loop goes on behind entry s: it leaves c, the connection that was   *)
(* in it, and the others are as they were.                                 *)
LEMMA PolledGoesOn ==
  ASSUME IInv, PolledInv, NEW s \in Slots, NEW c \in Clients, fd[c] = slot[s], fd[c] # NoFd,
         pc \in {"scan", "write"}, s >= i, pc' \in {"scan", "write"}, i' >= s, pc' = "scan" => i' >= s + 1,
         i' \in Nat, up,
         UNCHANGED <<revents, maxi>>, \A t \in Slots : t # s => slot'[t] = slot[t], fd'[c] \in {fd[c], NoFd},
         \A d \in Clients : d # c => fd'[d] = fd[d] /\ (Readable(d) => Readable(d)')
  PROVE  PolledInv'
<1>1. ASSUME NEW t \in Ahead', NEW d \in Clients, revents'[t], slot'[t] = fd'[d], fd'[d] # NoFd
      PROVE  Readable(d)'
  <2>1. t \in Slots /\ t \in Nat /\ s \in Nat /\ i \in Nat
    BY <1>1, Bounds DEF Ahead, IInv, SlotTypes
  <2>2. t > s /\ t # s /\ t > i
    BY <1>1, <2>1 DEF Ahead
  <2>3. t \in Ahead
    BY <2>1, <2>2 DEF Ahead
  <2>4. slot'[t] = slot[t]
    BY <2>1, <2>2
  <2>5. CASE d # c
    BY <1>1, <2>3, <2>4, <2>5 DEF PolledInv
  <2>6. CASE d = c
    <3>1. slot[t] # fd[c]
      BY <2>1, <2>2 DEF IInv, TableInv
    <3> QED
      BY <1>1, <2>4, <2>6, <3>1
  <2> QED
    BY <2>5, <2>6
<1> QED
  BY <1>1 DEF PolledInv

LEMMA PolledReadEnd ==
  ASSUME IInv, PolledInv, ReadEnd
  PROVE  PolledInv'
<1>1. /\ NetInv /\ SlotTypes /\ pc = "scan" /\ up
  BY DEF IInv, SlotTypes, ReadEnd
<1>2. PICK s \in Slots : s = Min(Due) /\ s >= i
  BY DueSlot DEF ReadEnd
<1>3. PICK c \in Clients : c = Owner(slot[s]) /\ fd[c] = slot[s] /\ fd[c] # NoFd
  BY <1>2, DueSlot DEF ReadEnd
<1>4. /\ Closed(c) /\ slot' = [slot EXCEPT ![s] = NoFd]
      /\ Continue(s) /\ maxi' = maxi /\ revents' = revents
  BY <1>2, <1>3 DEF ReadEnd
<1>5. /\ fd' = [fd EXCEPT ![c] = NoFd]
      /\ \A d \in Clients : d # c => inbox'[d] = inbox[d] /\ (d \in reset' <=> d \in reset)
  BY <1>1, <1>3, <1>4, CloseKeeps
<1>6. (pc' = "poll" \/ (pc' = "scan" /\ i' = s + 1)) /\ i' \in 1..OPENMAX
  BY <1>1, <1>4, ContinueSteps
<1>7. CASE pc' = "poll"
  BY <1>4, <1>7, PolledRests
<1>8. CASE pc' = "scan" /\ i' = s + 1
  <2>1. \A d \in Clients : d # c => fd'[d] = fd[d] /\ (Readable(d) => Readable(d)')
    BY <1>1, <1>5 DEF Readable, NetInv, NetTypes
  <2>2. fd'[c] = NoFd /\ \A t \in Slots : t # s => slot'[t] = slot[t]
    BY <1>1, <1>4, <1>5 DEF SlotTypes, NetInv, NetTypes
  <2>3. s \in Nat /\ i' \in Nat /\ i' >= s
    BY <1>6, <1>8, Bounds
  <2> QED
    BY <1>1, <1>2, <1>3, <1>4, <1>8, <2>1, <2>2, <2>3, PolledGoesOn
<1> QED
  BY <1>6, <1>7, <1>8

LEMMA PolledReadData ==
  ASSUME IInv, PolledInv, ReadData
  PROVE  PolledInv'
<1>1. /\ NetInv /\ SlotTypes /\ pc = "scan" /\ up
  BY DEF IInv, SlotTypes, ReadData
<1>2. PICK s \in Slots : s = Min(Due) /\ s >= i
  BY DueSlot DEF ReadData
<1>3. PICK c \in Clients : c = Owner(slot[s]) /\ fd[c] = slot[s] /\ fd[c] # NoFd
  BY <1>2, DueSlot DEF ReadData
<1>4. Drained(c) /\ i' = s /\ pc' = "write" /\ UNCHANGED <<slot, revents, maxi>>
  BY <1>2, <1>3 DEF ReadData
<1>5. fd' = fd /\ reset' = reset /\ \A d \in Clients : d # c => inbox'[d] = inbox[d]
  BY <1>1, <1>4, DrainKeeps
<1>6. \A d \in Clients : d # c => fd'[d] = fd[d] /\ (Readable(d) => Readable(d)')
  BY <1>5 DEF Readable
<1>7. s \in Nat /\ i' \in Nat /\ i' >= s
  BY <1>4, Bounds
<1> QED
  BY <1>1, <1>2, <1>3, <1>4, <1>5, <1>6, <1>7, PolledGoesOn

LEMMA PolledWriteEcho ==
  ASSUME IInv, PolledInv, WriteEcho
  PROVE  PolledInv'
<1>1. /\ NetInv /\ SlotTypes /\ pc = "write" /\ up /\ TableInv /\ i \in Slots /\ slot[i] # NoFd
  BY DEF IInv, SlotTypes, RoundInv, WriteEcho
<1>2. PICK s \in Slots : s = i
  BY <1>1
<1>3. PICK c \in Clients : fd[c] = slot[s] /\ fd[c] # NoFd
  BY <1>1, <1>2 DEF TableInv, OpenFds
<1>4. Continue(s) /\ UNCHANGED <<slot, revents, maxi>>
  BY <1>2 DEF WriteEcho
<1>5. UNCHANGED <<fd, inbox, reset>>
  BY <1>1, WriteKeeps DEF WriteEcho
<1>6. (pc' = "poll" \/ (pc' = "scan" /\ i' = s + 1)) /\ i' \in 1..OPENMAX
  BY <1>1, <1>4, ContinueSteps
<1>7. CASE pc' = "poll"
  BY <1>4, <1>7, PolledRests
<1>8. CASE pc' = "scan" /\ i' = s + 1
  <2>1. \A d \in Clients : d # c => fd'[d] = fd[d] /\ (Readable(d) => Readable(d)')
    BY <1>5 DEF Readable
  <2>2. s \in Nat /\ s >= i /\ i' \in Nat /\ i' >= s
    BY <1>2, <1>6, <1>8, Bounds
  <2> QED
    BY <1>1, <1>2, <1>3, <1>4, <1>5, <1>8, <2>1, <2>2, PolledGoesOn
<1> QED
  BY <1>6, <1>7, <1>8

LEMMA PolledSteps ==
  ASSUME IInv, PolledInv, [Next]_vars
  PROVE  PolledInv'
<1>1. ASSUME NEW c \in Clients, NetStep(c), UNCHANGED serverVars PROVE PolledInv'
  BY <1>1, PolledNet
<1>2. CASE ScanEnds
  BY <1>2, PolledRests DEF ScanEnds, Again
<1>3. CASE AcceptFails
  BY <1>3, PolledRests DEF AcceptFails, Exit
<1>4. CASE WriteFails
  <2>1. UNCHANGED <<revents, maxi>> /\ pc' \in {"poll", "exit"}
    BY <1>4 DEF WriteFails, Again, Exit
  <2> QED
    BY <2>1, PolledRests
<1>5. ServerStep => PolledInv'
  BY <1>2, <1>3, <1>4, PolledPoll, PolledAccept, PolledReadEnd, PolledReadData, PolledWriteEcho DEF ServerStep
<1>6. CASE UNCHANGED vars
  <2>1. /\ UNCHANGED <<inbox, reset, fd>>
        /\ UNCHANGED <<slot, revents, maxi, pc, i>>
    BY <1>6 DEF vars, netVars, socketVars, serverVars
  <2> QED
    BY <2>1 DEF PolledInv, Ahead, Readable
<1> QED
  BY <1>1, <1>5, <1>6 DEF Next

(* The read blocks for want of an initialisation only: had the program     *)
(* cleared revents together with the descriptors, every entry that the     *)
(* loop takes for ready would have something to read, although descriptors *)
(* and entries are reused and poll does not look at the entries above      *)
(* maxi.                                                                   *)
THEOREM ReadsReadyIfCleared ==
  Spec /\ revents = [s \in Slots |-> FALSE] => []NeverBlocksInRead
<1>1. IInv /\ PolledInv => NeverBlocksInRead
  <2> SUFFICES ASSUME IInv, PolledInv, pc = "scan", Due # {} PROVE Readable(Owner(slot[Min(Due)]))
    BY DEF NeverBlocksInRead
  <2>1. PICK s \in Slots : s = Min(Due) /\ s >= i /\ slot[s] # NoFd /\ revents[s]
    BY DueSlot
  <2>2. PICK c \in Clients : c = Owner(slot[s]) /\ fd[c] = slot[s]
    BY <2>1, DueSlot
  <2>3. s \in Ahead
    BY <2>1 DEF Ahead
  <2>4. Readable(c)
    BY <2>1, <2>2, <2>3 DEF PolledInv
  <2> QED
    BY <2>1, <2>2, <2>4
<1>2. Init /\ revents = [s \in Slots |-> FALSE] => PolledInv
  <2>1. ASSUME Init, revents = [s \in Slots |-> FALSE], NEW s \in Slots PROVE ~revents[s]
    BY <2>1
  <2> QED
    BY <2>1 DEF PolledInv, Ahead
<1>3. IInv /\ PolledInv /\ [Next]_vars => PolledInv'
  BY PolledSteps
<1> QED
  BY <1>1, <1>2, <1>3, Invariant, PTL DEF Spec

-----------------------------------------------------------------------------
(* The echo: the buffer holds data of the connection in slot i only, and   *)
(* only until it is written or the write has failed.                       *)
Buffered(c) == IF pc = "write" /\ fd[c] # NoFd /\ slot[i] = fd[c] THEN buf ELSE <<>>

FlowInv ==
  /\ EchoInv /\ buf \in Seq(Segments)
  /\ \A c \in Clients : Flow(c, Buffered(c))

LEMMA BufferedIs ==
  ASSUME FlowInv
  PROVE  \A c : Buffered(c) \in Seq(Segments)
  BY EmptySeq DEF FlowInv, Buffered

LEMMA OwnerOfSlot ==
  ASSUME IInv, up, NEW s \in Slots, slot[s] # NoFd
  PROVE  /\ Owner(slot[s]) \in Clients /\ fd[Owner(slot[s])] = slot[s]
         /\ client[Owner(slot[s])] # "new"
<1>1. slot[s] \in OpenFds
  BY DEF IInv, TableInv
<1>2. PICK c \in Clients : fd[c] = slot[s]
  BY <1>1 DEF OpenFds
<1>3. Owner(slot[s]) = c
  BY <1>2, OwnerOf DEF IInv
<1> QED
  BY <1>2, <1>3 DEF IInv, NetInv, Connections

LEMMA FlowInit ==
  ASSUME Init
  PROVE  FlowInv
<1>1. EchoInv /\ \A c \in Clients : Flow(c, <<>>)
  BY EchoInvInit DEF Init
<1>2. \A c : Buffered(c) = <<>>
  BY DEF Init, Buffered
<1> QED
  BY <1>1, <1>2, EmptySeq DEF FlowInv, Init

LEMMA FlowStill ==
  ASSUME FlowInv, UNCHANGED netVars, buf' = buf, pc' # "write",
         \A c \in Clients : Live(c) => Buffered(c) = <<>>
  PROVE  FlowInv'
<1>1. UNCHANGED <<client, typed, wire, got, inbox, outbox, reset, backlog, fd, up>>
  BY DEF netVars, clientVars, socketVars
<1>2. EchoInv'
  BY <1>1 DEF FlowInv, EchoInv
<1>3. ASSUME NEW c \in Clients PROVE Flow(c, <<>>)'
  <2>1. Flow(c, <<>>)
    BY DEF FlowInv, Flow
  <2>2. Live(c)' = Live(c)
    BY <1>1 DEF Live, Connected
  <2> QED
    BY <1>1, <2>1, <2>2, FlowFrame
<1>4. \A c : Buffered(c)' = <<>>
  BY DEF Buffered
<1> QED
  BY <1>2, <1>3, <1>4 DEF FlowInv

LEMMA FlowNet ==
  ASSUME IInv, FlowInv, NEW c \in Clients, NetStep(c), UNCHANGED serverVars
  PROVE  FlowInv'
<1>1. NetInv /\ EchoInv /\ EchoInv' /\ fd' = fd
  BY NetStepKeeps, EchoInvNetStep DEF IInv, FlowInv
<1>2. UNCHANGED <<pc, slot, i, buf>>
  BY DEF serverVars
<1>3. ASSUME NEW d \in Clients PROVE Flow(d, Buffered(d))'
  <2>1. PICK b \in Seq(Segments) : b = Buffered(d)
    BY BufferedIs
  <2>2. Buffered(d)' = b
    BY <1>1, <1>2, <2>1 DEF Buffered
  <2>3. Flow(d, b)
    BY <2>1 DEF FlowInv
  <2>4. Flow(d, b)'
    BY <1>1, <2>3, FlowNetStep
  <2> QED
    BY <2>2, <2>4
<1> QED
  BY <1>1, <1>2, <1>3 DEF FlowInv

LEMMA FlowExits ==
  ASSUME IInv, FlowInv, Exit
  PROVE  FlowInv'
<1>1. NetInv /\ EchoInv /\ Exited /\ pc' = "exit" /\ buf' = buf
  BY DEF IInv, FlowInv, Exit
<1>2. EchoInv' /\ \A d \in Clients : \A b \in Seq(Segments) : Flow(d, b) =>
                       (IF client[d] = "new" THEN Flow(d, b)' ELSE \A e : Flow(d, e)')
  BY <1>1, FlowExit
<1>3. \A d : Buffered(d)' = <<>>
  BY <1>1 DEF Buffered
<1>4. ASSUME NEW d \in Clients PROVE Flow(d, <<>>)'
  <2>1. PICK b \in Seq(Segments) : b = Buffered(d)
    BY BufferedIs
  <2>2. Flow(d, b)
    BY <2>1 DEF FlowInv
  <2>3. client[d] = "new" => b = <<>>
    BY <1>1, <2>1 DEF Buffered, NetInv, Connections
  <2>4. IF client[d] = "new" THEN Flow(d, b)' ELSE \A e : Flow(d, e)'
    BY <1>2, <2>2
  <2> QED
    BY <2>3, <2>4
<1> QED
  BY <1>1, <1>2, <1>3, <1>4 DEF FlowInv

LEMMA FlowAccepts ==
  ASSUME IInv, FlowInv, Accept
  PROVE  FlowInv'
<1>1. NetInv /\ EchoInv /\ pc = "listen" /\ backlog # <<>>
  BY DEF IInv, FlowInv, SlotTypes, RoundInv, Accept
<1>2. pc' # "write" /\ buf' = buf
  BY DEF Accept, Again
<1>3. Accepted(Min(FreeFds)) /\ Min(FreeFds) \in FreeFds
  <2>1. FreeFds \subseteq Nat
    BY <1>1, OpenFdsBounds, Bounds
  <2> QED
    BY <2>1, LeastElement DEF Accept
<1>4. PICK f \in FreeFds : f = Min(FreeFds)
  BY <1>3
<1>5. Accepted(f)
  BY <1>3, <1>4
<1>6. EchoInv' /\ \A d \in Clients : \A b : Flow(d, b) => Flow(d, b)'
  BY <1>1, <1>5, FlowAccept
<1>7. \A d : Buffered(d) = <<>> /\ Buffered(d)' = <<>>
  BY <1>1, <1>2 DEF Buffered
<1>8. ASSUME NEW d \in Clients PROVE Flow(d, <<>>)'
  <2>1. Flow(d, <<>>)
    BY <1>7 DEF FlowInv
  <2> QED
    BY <1>6, <2>1
<1> QED
  BY <1>2, <1>6, <1>7, <1>8 DEF FlowInv

LEMMA FlowReadEnd ==
  ASSUME IInv, FlowInv, ReadEnd
  PROVE  FlowInv'
<1>1. NetInv /\ EchoInv /\ pc = "scan" /\ SlotTypes /\ buf' = buf
  BY DEF IInv, FlowInv, ReadEnd
<1>2. PICK s \in Slots : s = Min(Due)
  BY DueSlot DEF ReadEnd
<1>3. PICK c \in Clients : c = Owner(slot[s]) /\ fd[c] # NoFd
  BY <1>2, DueSlot DEF ReadEnd
<1>4. Closed(c) /\ Continue(s)
  BY <1>2, <1>3 DEF ReadEnd
<1>5. pc' # "write"
  BY <1>1, <1>4, ContinueSteps
<1>6. /\ EchoInv' /\ \A b \in Seq(Segments) : \A e : Flow(c, b) => Flow(c, e)'
      /\ \A d \in Clients : \A b : d # c /\ Flow(d, b) => Flow(d, b)'
  BY <1>1, <1>3, <1>4, FlowClose
<1>7. \A d : Buffered(d) = <<>> /\ Buffered(d)' = <<>>
  BY <1>1, <1>5 DEF Buffered
<1>8. ASSUME NEW d \in Clients PROVE Flow(d, <<>>)'
  <2>1. Flow(d, <<>>) /\ <<>> \in Seq(Segments)
    BY <1>7, EmptySeq DEF FlowInv
  <2>2. CASE d = c
    BY <1>6, <2>1, <2>2
  <2>3. CASE d # c
    BY <1>6, <2>1, <2>3
  <2> QED
    BY <2>2, <2>3
<1> QED
  BY <1>1, <1>6, <1>7, <1>8 DEF FlowInv

LEMMA FlowReadData ==
  ASSUME IInv, FlowInv, ReadData
  PROVE  FlowInv'
<1>1. NetInv /\ NetTypes /\ EchoInv /\ pc = "scan"
  BY DEF IInv, NetInv, FlowInv, ReadData
<1>2. PICK s \in Slots : s = Min(Due)
  BY DueSlot DEF ReadData
<1>3. PICK c \in Clients : c = Owner(slot[s])
  BY <1>2, DueSlot DEF ReadData
<1>4. fd[c] = slot[s] /\ fd[c] # NoFd
  BY <1>2, <1>3, DueSlot DEF ReadData
<1>5. client[c] # "new"
  BY <1>1, <1>4 DEF NetInv, Connections
<1>6. PICK r \in Seq(Segments) : r = Received(c)
  BY <1>1, ReceivedIs
<1>7. Drained(c) /\ buf' = r /\ i' = s /\ pc' = "write" /\ slot' = slot
  BY <1>2, <1>3, <1>6 DEF ReadData
<1>8. fd' = fd
  BY <1>7 DEF Drained
<1>9. EchoInv' /\ \A d \in Clients : \A b : d # c /\ Flow(d, b) => Flow(d, b)'
  BY <1>1, <1>5, <1>7, DrainFrame
<1>10. \A d : Buffered(d) = <<>>
  BY <1>1 DEF Buffered
<1>11. Flow(c, <<>>)
  BY <1>10 DEF FlowInv
<1>12. Flow(c, r)'
  BY <1>1, <1>6, <1>7, <1>11, FlowDrain
<1>13. ASSUME NEW d \in Clients PROVE Flow(d, Buffered(d))'
  <2>1. CASE d = c
    <3>1. Buffered(c)' = r
      BY <1>4, <1>7, <1>8 DEF Buffered
    <3> QED
      BY <1>12, <2>1, <3>1
  <2>2. CASE d # c
    <3>1. fd[d] = NoFd \/ fd[d] # fd[c]
      BY <1>1, <2>2 DEF NetInv, Connections
    <3>2. Buffered(d)' = <<>>
      BY <1>4, <1>7, <1>8, <3>1 DEF Buffered
    <3>3. Flow(d, <<>>)
      BY <1>10 DEF FlowInv
    <3>4. Flow(d, <<>>)'
      BY <1>9, <2>2, <3>3
    <3> QED
      BY <3>2, <3>4
  <2> QED
    BY <2>1, <2>2
<1> QED
  BY <1>7, <1>9, <1>13 DEF FlowInv

LEMMA FlowWriteEcho ==
  ASSUME IInv, FlowInv, WriteEcho
  PROVE  FlowInv'
<1>1. /\ NetInv /\ EchoInv /\ pc = "write" /\ SlotTypes /\ up /\ i \in Slots /\ slot[i] # NoFd
      /\ buf' = buf
  BY DEF IInv, FlowInv, SlotTypes, RoundInv, WriteEcho
<1>2. PICK c \in Clients : c = Owner(slot[i]) /\ fd[c] = slot[i]
  BY <1>1, OwnerOfSlot
<1>3. PICK b \in Seq(Segments) : b = buf
  BY DEF FlowInv
<1>4. Written(c, b) /\ c \notin reset
  BY <1>2, <1>3 DEF WriteEcho
<1>5. pc' # "write"
  <2>1. PICK s \in Slots : s = i
    BY <1>1
  <2>2. Continue(s)
    BY <2>1 DEF WriteEcho
  <2> QED
    BY <1>1, <2>2, ContinueSteps
<1>6. Buffered(c) = b /\ Live(c)
  BY <1>1, <1>2, <1>3, <1>4 DEF Buffered, Live, Connected
<1>7. Flow(c, b)
  BY <1>6 DEF FlowInv
<1>8. Flow(c, <<>>)'
  BY <1>1, <1>4, <1>6, <1>7, FlowWrite
<1>9. EchoInv' /\ \A d \in Clients : \A e : d # c /\ Flow(d, e) => Flow(d, e)'
  BY <1>1, <1>4, WriteFrame
<1>10. ASSUME NEW d \in Clients PROVE Flow(d, <<>>)'
  <2>1. CASE d = c
    BY <1>8, <2>1
  <2>2. CASE d # c
    <3>1. fd[d] = NoFd \/ fd[d] # fd[c]
      BY <1>1, <2>2 DEF NetInv, Connections
    <3>2. Buffered(d) = <<>>
      BY <1>2, <3>1 DEF Buffered
    <3>3. Flow(d, <<>>)
      BY <3>2 DEF FlowInv
    <3> QED
      BY <1>9, <2>2, <3>3
  <2> QED
    BY <2>1, <2>2
<1>11. \A d : Buffered(d)' = <<>>
  BY <1>5 DEF Buffered
<1> QED
  BY <1>1, <1>9, <1>10, <1>11 DEF FlowInv

LEMMA FlowWriteFails ==
  ASSUME IInv, FlowInv, WriteFails
  PROVE  FlowInv'
<1>1. CASE Exit
  BY <1>1, FlowExits
<1>2. CASE ~Exit
  <2>1. Again /\ UNCHANGED netVars /\ buf' = buf /\ Owner(slot[i]) \in reset /\ pc = "write"
    BY <1>2 DEF WriteFails
  <2>2. pc' # "write"
    BY <2>1 DEF Again
  <2>3. ASSUME NEW c \in Clients, Live(c) PROVE Buffered(c) = <<>>
    <3>1. c \notin reset
      BY <2>3 DEF Live
    <3>2. fd[c] # NoFd => Owner(fd[c]) = c
      BY OwnerOf DEF IInv
    <3> QED
      BY <2>1, <3>1, <3>2 DEF Buffered
  <2> QED
    BY <2>1, <2>2, <2>3, FlowStill
<1> QED
  BY <1>1, <1>2

LEMMA FlowSteps ==
  ASSUME IInv, FlowInv, [Next]_vars
  PROVE  FlowInv'
<1>1. pc # "write" => \A c \in Clients : Buffered(c) = <<>>
  BY DEF Buffered
<1>2. CASE Poll
  BY <1>1, <1>2, FlowStill DEF Poll
<1>3. CASE ScanEnds
  BY <1>1, <1>3, FlowStill DEF ScanEnds, Again
<1>4. ASSUME NEW c \in Clients, NetStep(c), UNCHANGED serverVars PROVE FlowInv'
  BY <1>4, FlowNet
<1>5. CASE UNCHANGED vars
  <2>1. /\ UNCHANGED <<client, typed, wire, got, inbox, outbox, reset, backlog, fd, up>>
        /\ UNCHANGED <<slot, pc, i, buf>>
    BY <1>5 DEF vars, netVars, clientVars, socketVars, serverVars
  <2>2. EchoInv'
    BY <2>1 DEF FlowInv, EchoInv
  <2>3. ASSUME NEW c \in Clients PROVE Flow(c, Buffered(c))'
    <3>1. PICK b : b = Buffered(c)
      OBVIOUS
    <3>2. Flow(c, b) /\ Buffered(c)' = b /\ Live(c)' = Live(c)
      BY <2>1, <3>1 DEF FlowInv, Buffered, Live, Connected
    <3>3. Flow(c, b)'
      BY <2>1, <3>2, FlowFrame
    <3> QED
      BY <3>2, <3>3
  <2> QED
    BY <2>1, <2>2, <2>3 DEF FlowInv
<1>6. ServerStep => FlowInv'
  BY <1>2, <1>3, FlowAccepts, FlowExits, FlowReadEnd, FlowReadData, FlowWriteEcho, FlowWriteFails
  DEF ServerStep, AcceptFails
<1> QED
  BY <1>4, <1>5, <1>6 DEF Next

(* A client gets back its own segments, each once and in order, although   *)
(* all connections share one buffer, descriptors and entries are reused,   *)
(* the revents of an entry may be garbage, and a failed write drops what   *)
(* is in the buffer.                                                       *)
THEOREM Echoes == Spec => []EchoesOwnLines
<1>1. FlowInv /\ IInv => EchoesOwnLines
  <2>1. ASSUME FlowInv, IInv, NEW c \in Clients PROVE EchoesOwn(c)
    <3>1. PICK b \in Seq(Segments) : b = Buffered(c)
      BY <2>1, BufferedIs
    <3>2. Flow(c, b)
      BY <2>1, <3>1 DEF FlowInv
    <3> QED
      BY <2>1, <3>2, FlowEchoes DEF FlowInv, IInv, NetInv
  <2> QED
    BY <2>1 DEF EchoesOwnLines
<1>2. Init => FlowInv
  BY FlowInit
<1>3. IInv /\ FlowInv /\ [Next]_vars => FlowInv'
  BY FlowSteps
<1> QED
  BY <1>1, <1>2, <1>3, Invariant, PTL DEF Spec
=============================================================================
