---------------------------- MODULE EchoNetProofs ----------------------------
(***************************************************************************)
(* What the proofs about the echo servers share: the connections as the    *)
(* clients, the network and the system calls of a server leave them.       *)
(***************************************************************************)
EXTENDS EchoNet, SequenceTheorems, FiniteSetTheorems, WellFoundedInduction, TLAPS

(* Descriptors and slots are chosen as the least free ones. *)
LEMMA LeastElement ==
  ASSUME NEW S \in SUBSET Nat, S # {}
  PROVE  Min(S) \in S /\ \A y \in S : Min(S) <= y
<1>1. PICK x \in S : \A y \in S : ~ (<<y, x>> \in OpToRel(<,Nat))
  BY WFMin, NatLessThanWellFounded
<1>2. ASSUME NEW y \in S PROVE x <= y
  <2>1. x \in Nat /\ y \in Nat
    OBVIOUS
  <2>2. ~(y < x)
    BY <1>1, <2>1 DEF OpToRel
  <2> QED
    BY <2>1, <2>2
<1>3. \E z \in S : \A y \in S : z <= y
  BY <1>2
<1> QED
  BY <1>3 DEF Min

LEMMA LargerOfTwo ==
  ASSUME NEW a \in Int, NEW b \in Int
  PROVE  Max({a, b}) \in {a, b} /\ a <= Max({a, b}) /\ b <= Max({a, b})
<1>1. \E z \in {a, b} : \A y \in {a, b} : z >= y
  OBVIOUS
<1>2. Max({a, b}) \in {a, b} /\ \A y \in {a, b} : Max({a, b}) >= y
  BY <1>1 DEF Max
<1> QED
  BY <1>2

-----------------------------------------------------------------------------
(* The batches of epoll_wait.                                              *)
Distinct(s) == \A j, k \in DOMAIN s : s[j] = s[k] => j = k

(* epoll_wait returns each ready descriptor once. *)
LEMMA Enumeration ==
  ASSUME NEW S, IsFiniteSet(S), NEW r \in SetToSeqs(S)
  PROVE  /\ r \in Seq(S) /\ {r[k] : k \in DOMAIN r} = S
         /\ \A j, k \in DOMAIN r : r[j] = r[k] => j = k
<1>1. PICK n \in Nat : n = Cardinality(S)
  BY FS_CardinalityType
<1>2. r \in [1..n -> S] /\ \A j, k \in 1..n : j # k => r[j] # r[k]
  BY <1>1 DEF SetToSeqs
<1>3. IsFiniteSet(1..n) /\ Cardinality(1..n) = n
  <2>1. CASE n = 0
    BY <2>1, FS_EmptySet
  <2>2. CASE n # 0
    BY <2>2, FS_Interval
  <2> QED
    BY <2>1, <2>2
<1>4. r \in Injection(1..n, S)
  BY <1>2 DEF Injection, IsInjective
<1>5. r \in Surjection(1..n, S)
  BY <1>1, <1>3, <1>4, FS_Injection
<1>6. r \in Seq(S) /\ DOMAIN r = 1..n
  BY <1>2
<1> QED
  BY <1>2, <1>5, <1>6 DEF Surjection

LEMMA TailIndex ==
  ASSUME NEW S, NEW s \in Seq(S), s # <<>>
  PROVE  /\ 1 \in DOMAIN s /\ Head(s) = s[1] /\ Head(s) \in S /\ Tail(s) \in Seq(S)
         /\ DOMAIN s \subseteq Nat \ {0} /\ DOMAIN Tail(s) \subseteq Nat \ {0}
         /\ \A k \in DOMAIN Tail(s) : k + 1 \in DOMAIN s /\ Tail(s)[k] = s[k + 1]
         /\ \A k \in DOMAIN s : k > 1 => k - 1 \in DOMAIN Tail(s) /\ Tail(s)[k - 1] = s[k]
<1>1. /\ Len(s) \in Nat /\ Len(s) # 0 /\ DOMAIN s = 1..Len(s)
      /\ Head(s) = s[1] /\ Head(s) \in S /\ Tail(s) \in Seq(S)
      /\ DOMAIN Tail(s) = 1..(Len(s) - 1) /\ \A k \in 1..(Len(s) - 1) : Tail(s)[k] = s[k + 1]
  BY HeadTailProperties, LenProperties, EmptySeq
<1>2. \A k \in 1..Len(s) : k > 1 => k - 1 \in 1..(Len(s) - 1) /\ (k - 1) + 1 = k
  BY <1>1
<1> QED
  BY <1>1, <1>2

-----------------------------------------------------------------------------
(* The connections: a client waits in the backlog at most once and has no  *)
(* descriptor while it does; two clients never have the same descriptor.   *)
Segments == [from : Clients, line : Nat, seg : Nat]
Fds == (ListenFd + 1)..(FdLimit - 1)

NetTypes ==
  /\ client \in [Clients -> {"new", "prompt", "reply", "gone"}]
  /\ typed \in [Clients -> Nat] /\ \A c \in Clients : typed[c] <= Lines[c]
  /\ wire \in [Clients -> Seq(Segments)]
  /\ inbox \in [Clients -> Seq(Segments)]
  /\ fd \in [Clients -> {NoFd} \cup Fds]
  /\ reset \subseteq Clients /\ backlog \in Seq(Clients) /\ up \in BOOLEAN

Connections ==
  /\ \A c \in Clients : client[c] = "new" => fd[c] = NoFd /\ \A k \in DOMAIN backlog : backlog[k] # c
  /\ \A k \in DOMAIN backlog : fd[backlog[k]] = NoFd
  /\ \A j, k \in DOMAIN backlog : backlog[j] = backlog[k] => j = k
  /\ \A c, d \in Clients : fd[c] = fd[d] /\ fd[c] # NoFd => c = d

NetInv == NetTypes /\ Connections

LEMMA NetInvTypes ==
  ASSUME NetInv
  PROVE  NetTypeOK
<1>1. Lines \in [Clients -> Nat]
  BY NetAssumption DEF NetAssumption
<1>2. \A c \in Clients : typed[c] \in 0..Lines[c]
  BY <1>1 DEF NetInv, NetTypes
<1>3. ToSet(backlog) \subseteq Clients
  BY LenProperties DEF NetInv, NetTypes, ToSet
<1> QED
  BY <1>2, <1>3 DEF NetInv, NetTypes, NetTypeOK, Fds

LEMMA NetInvInit ==
  ASSUME NetInit
  PROVE  NetInv
<1>1. Lines \in [Clients -> Nat]
  BY NetAssumption DEF NetAssumption
<1>2. NetTypes
  <2>1. \A c \in Clients : 0 <= Lines[c]
    BY <1>1
  <2>2. typed \in [Clients -> Nat] /\ \A c \in Clients : typed[c] = 0
    BY DEF NetInit
  <2> QED
    BY <2>1, <2>2 DEF NetInit, NetTypes
<1> QED
  BY <1>2 DEF NetInit, NetInv, Connections

LEMMA OwnerOf ==
  ASSUME NetInv, NEW c \in Clients, fd[c] # NoFd
  PROVE  Owner(fd[c]) = c
<1>1. \A d \in Clients : fd[d] = fd[c] => d = c
  BY DEF NetInv, Connections
<1> QED
  BY <1>1 DEF Owner

(* A step of a client or of the network leaves the descriptors alone; what *)
(* was readable stays readable, and the backlog only grows.                *)
LEMMA NetStepKeeps ==
  ASSUME NetInv, NEW c \in Clients, NetStep(c)
  PROVE  /\ NetInv' /\ fd' = fd /\ up' = up
         /\ \A d \in Clients : Readable(d) => Readable(d)'
         /\ \A d \in reset : d \in reset'
         /\ backlog # <<>> => backlog' # <<>>
<1>0. /\ NetTypes /\ Connections /\ Lines \in [Clients -> Nat] /\ Segs \in [Clients -> Nat]
  BY NetAssumption DEF NetAssumption, NetInv
<1> DEFINE Goal == /\ NetInv' /\ fd' = fd /\ up' = up
                   /\ \A d \in Clients : Readable(d) => Readable(d)'
                   /\ \A d \in reset : d \in reset'
                   /\ (backlog # <<>> => backlog' # <<>>)
<1>1. CASE Connect(c)
  <2>1. /\ client[c] = "new" /\ client' = [client EXCEPT ![c] = "prompt"] /\ backlog' = Append(backlog, c)
        /\ UNCHANGED <<typed, wire, inbox, reset, fd, up>>
    BY <1>1 DEF Connect
  <2>2. /\ Len(backlog) \in Nat /\ DOMAIN backlog = 1..Len(backlog)
        /\ backlog' \in Seq(Clients) /\ DOMAIN backlog' = 1..(Len(backlog) + 1)
        /\ \A k \in 1..Len(backlog) : backlog'[k] = backlog[k]
        /\ backlog'[Len(backlog) + 1] = c
    BY <1>0, <2>1, LenProperties, AppendProperties DEF NetTypes
  <2>3. NetTypes'
    BY <1>0, <2>1, <2>2 DEF NetTypes
  <2>4. \A d \in Clients : client'[d] = IF d = c THEN "prompt" ELSE client[d]
    BY <1>0, <2>1 DEF NetTypes
  <2>5. fd[c] = NoFd /\ \A k \in 1..Len(backlog) : backlog[k] # c
    BY <1>0, <2>1, <2>2 DEF Connections
  <2>6. \A k \in DOMAIN backlog' : (k \in 1..Len(backlog) /\ backlog'[k] = backlog[k]) \/ (k = Len(backlog) + 1 /\ backlog'[k] = c)
    BY <2>2
  <2>7. Connections'
    BY <1>0, <2>1, <2>2, <2>4, <2>5, <2>6, SMTT(30) DEF Connections
  <2>8. backlog' # <<>>
    BY <2>2
  <2> QED
    BY <2>1, <2>3, <2>7, <2>8 DEF NetInv, Readable
<1>2. CASE SendLine(c)
  <2>1. /\ typed[c] < Lines[c] /\ typed' = [typed EXCEPT ![c] = typed[c] + 1]
        /\ wire' = [wire EXCEPT ![c] = wire[c] \o LineOf(c, typed[c] + 1)]
        /\ client' = [client EXCEPT ![c] = "reply"] /\ client[c] = "prompt"
        /\ UNCHANGED <<inbox, reset, backlog, fd, up>>
    BY <1>2 DEF SendLine
  <2>2. LineOf(c, typed[c] + 1) \in Seq(Segments)
    <3>1. typed[c] + 1 \in Nat /\ Segs[c] \in Nat
      BY <1>0 DEF NetTypes
    <3>2. \A s \in 1..Segs[c] : Segment(c, typed[c] + 1, s) \in Segments
      BY <3>1 DEF Segment, Segments
    <3> QED
      BY <3>1, <3>2, SeqDef DEF LineOf
  <2>3. wire[c] \o LineOf(c, typed[c] + 1) \in Seq(Segments)
    BY <1>0, <2>2, ConcatProperties DEF NetTypes
  <2>4. typed' \in [Clients -> Nat] /\ \A d \in Clients : typed'[d] <= Lines[d]
    <3>1. typed[c] + 1 \in Nat /\ typed[c] + 1 <= Lines[c]
      BY <1>0, <2>1 DEF NetTypes
    <3>2. \A d \in Clients : typed'[d] = IF d = c THEN typed[c] + 1 ELSE typed[d]
      BY <1>0, <2>1 DEF NetTypes
    <3> QED
      BY <1>0, <2>1, <3>1, <3>2 DEF NetTypes
  <2>5. NetTypes'
    BY <1>0, <2>1, <2>3, <2>4 DEF NetTypes
  <2>6. Connections'
    BY <1>0, <2>1 DEF Connections, NetTypes
  <2> QED
    BY <2>1, <2>5, <2>6 DEF NetInv, Readable
<1>3. CASE ReadLine(c)
  <2>1. /\ client[c] = "reply"
        /\ client' = [client EXCEPT ![c] = IF LastSeg(Head(outbox[c])) THEN "prompt" ELSE client[c]]
        /\ UNCHANGED <<typed, wire, inbox, reset, backlog, fd, up>>
    BY <1>3 DEF ReadLine
  <2>2. NetTypes' /\ Connections'
    BY <1>0, <2>1 DEF NetTypes, Connections
  <2> QED
    BY <2>1, <2>2 DEF NetInv, Readable
<1>4. ASSUME client[c] # "new", Leave(c) PROVE Goal
  <2>1. /\ client' = [client EXCEPT ![c] = "gone"] /\ wire' = [wire EXCEPT ![c] = Append(wire[c], Fin(c))]
        /\ UNCHANGED <<typed, inbox, reset, backlog, fd, up>>
    BY <1>4 DEF Leave
  <2>2. Append(wire[c], Fin(c)) \in Seq(Segments)
    BY <1>0, AppendProperties DEF NetTypes, Fin, Segment, Segments
  <2>3. NetTypes' /\ Connections'
    BY <1>0, <1>4, <2>1, <2>2 DEF NetTypes, Connections
  <2> QED
    BY <2>1, <2>3 DEF NetInv, Readable
<1>5. CASE Quit(c)
  BY <1>4, <1>5 DEF Quit
<1>6. CASE ServerTerminated(c)
  <2>1. CASE Leave(c)
    BY <1>4, <1>6, <2>1 DEF ServerTerminated
  <2>2. CASE ~Leave(c)
    <3>1. /\ client[c] = "reply" /\ client' = [client EXCEPT ![c] = "prompt"]
          /\ UNCHANGED <<typed, wire, inbox, reset, backlog, fd, up>>
      BY <1>6, <2>2 DEF ServerTerminated
    <3>2. NetTypes' /\ Connections'
      BY <1>0, <3>1 DEF NetTypes, Connections
    <3> QED
      BY <3>1, <3>2 DEF NetInv, Readable
  <2> QED
    BY <2>1, <2>2
<1>7. CASE Kill(c)
  BY <1>4, <1>7 DEF Kill
<1>8. CASE Arrive(c)
  <2>1. /\ wire[c] # <<>> /\ inbox' = [inbox EXCEPT ![c] = Append(inbox[c], Head(wire[c]))]
        /\ wire' = [wire EXCEPT ![c] = Tail(wire[c])]
        /\ UNCHANGED <<client, typed, reset, backlog, fd, up>>
    BY <1>8 DEF Arrive
  <2>2. Head(wire[c]) \in Segments /\ Tail(wire[c]) \in Seq(Segments)
    BY <1>0, <2>1, HeadTailProperties DEF NetTypes
  <2>3. Append(inbox[c], Head(wire[c])) \in Seq(Segments) /\ Append(inbox[c], Head(wire[c])) # <<>>
    <3>1. inbox[c] \in Seq(Segments)
      BY <1>0 DEF NetTypes
    <3>2. \A h \in Segments : Append(inbox[c], h) \in Seq(Segments) /\ Append(inbox[c], h) # <<>>
      BY <3>1, AppendProperties
    <3> QED
      BY <2>2, <3>2
  <2>4. NetTypes' /\ Connections'
    BY <1>0, <2>1, <2>2, <2>3 DEF NetTypes, Connections
  <2>5. \A d \in Clients : inbox[d] # <<>> => inbox'[d] # <<>>
    BY <1>0, <2>1, <2>3 DEF NetTypes
  <2> QED
    BY <2>1, <2>4, <2>5 DEF NetInv, Readable
<1>9. CASE ResetArrives(c)
  <2>1. reset' = reset \cup {c} /\ UNCHANGED <<client, typed, wire, inbox, backlog, fd, up>>
    BY <1>9 DEF ResetArrives
  <2>2. NetTypes' /\ Connections'
    BY <1>0, <2>1 DEF NetTypes, Connections
  <2> QED
    BY <2>1, <2>2 DEF NetInv, Readable
<1> QED
  BY <1>1, <1>2, <1>3, <1>5, <1>6, <1>7, <1>8, <1>9 DEF NetStep

-----------------------------------------------------------------------------
(* The system calls. *)
LEMMA AcceptKeeps ==
  ASSUME NetInv, backlog # <<>>, NEW f \in FreeFds, Accepted(f)
  PROVE  /\ NetInv' /\ up' = up
         /\ \E c \in Clients : fd[c] = NoFd /\ fd' = [fd EXCEPT ![c] = f] /\ c = Head(backlog)
         /\ OpenFds' = OpenFds \cup {f}
         /\ UNCHANGED <<inbox, reset>>
<1>1. NetTypes /\ Connections
  BY DEF NetInv
<1>2. PICK c : c = Head(backlog)
  OBVIOUS
<1>3. /\ backlog' = Tail(backlog) /\ fd' = [fd EXCEPT ![c] = f]
      /\ UNCHANGED <<client, typed, wire, inbox, reset, up>>
  BY <1>2 DEF Accepted, clientVars
<1>4. f \in Fds /\ f # NoFd /\ \A d \in Clients : fd[d] # f
  BY DEF FreeFds, OpenFds, Fds, ListenFd, NoFd
<1>5. /\ Len(backlog) \in Nat /\ DOMAIN backlog = 1..Len(backlog) /\ Len(backlog) # 0
      /\ c \in Clients /\ c = backlog[1] /\ backlog' \in Seq(Clients)
      /\ DOMAIN backlog' = 1..(Len(backlog) - 1)
      /\ \A k \in 1..(Len(backlog) - 1) : backlog'[k] = backlog[k + 1]
  BY <1>1, <1>2, <1>3, HeadTailProperties, LenProperties, EmptySeq DEF NetTypes
<1>6. fd[c] = NoFd /\ client[c] # "new"
  BY <1>1, <1>5 DEF Connections
<1>7. /\ fd'[c] = f /\ \A d \in Clients : d # c => fd'[d] = fd[d]
      /\ NetTypes'
  BY <1>1, <1>3, <1>4, <1>5 DEF NetTypes
<1>8. \A k \in DOMAIN backlog' : k + 1 \in DOMAIN backlog /\ backlog'[k] = backlog[k + 1] /\ k \in Nat /\ k + 1 # 1
  BY <1>5
<1>9. Connections'
  <2>1. \A k \in DOMAIN backlog' : backlog'[k] # c /\ backlog'[k] \in Clients
    BY <1>1, <1>5, <1>8 DEF Connections
  <2>2. \A d \in Clients : client'[d] = "new" => fd'[d] = NoFd /\ \A k \in DOMAIN backlog' : backlog'[k] # d
    BY <1>1, <1>3, <1>6, <1>7, <1>8 DEF Connections
  <2>3. \A k \in DOMAIN backlog' : fd'[backlog'[k]] = NoFd
    BY <1>1, <1>7, <1>8, <2>1 DEF Connections
  <2>4. \A j, k \in DOMAIN backlog' : backlog'[j] = backlog'[k] => j = k
    <3>1. ASSUME NEW j \in DOMAIN backlog', NEW k \in DOMAIN backlog', backlog'[j] = backlog'[k]
          PROVE  j = k
      <4>1. j + 1 = k + 1
        BY <1>1, <1>8, <3>1 DEF Connections
      <4> QED
        BY <1>8, <4>1
    <3> QED
      BY <3>1
  <2>5. \A d, e \in Clients : fd'[d] = fd'[e] /\ fd'[d] # NoFd => d = e
    BY <1>1, <1>4, <1>7 DEF Connections
  <2> QED
    BY <2>2, <2>3, <2>4, <2>5 DEF Connections
<1>10. OpenFds' = OpenFds \cup {f}
  BY <1>4, <1>5, <1>6, <1>7 DEF OpenFds
<1> QED
  BY <1>2, <1>3, <1>5, <1>6, <1>7, <1>9, <1>10 DEF NetInv

(* A connection is accepted and closed at once. *)
LEMMA DiscardKeeps ==
  ASSUME NetInv, backlog # <<>>, Discarded
  PROVE  /\ NetInv' /\ UNCHANGED <<fd, up, reset, OpenFds>>
         /\ Len(backlog) \in Nat /\ Len(backlog') = Len(backlog) - 1
         /\ \E c \in Clients : /\ c = Head(backlog) /\ fd[c] = NoFd /\ client[c] # "new"
                              /\ c \in ToSet(backlog) /\ ToSet(backlog') = ToSet(backlog) \ {c}
                              /\ inbox' = [inbox EXCEPT ![c] = <<>>]
<1>1. NetTypes /\ Connections
  BY DEF NetInv
<1>2. PICK c : c = Head(backlog)
  OBVIOUS
<1>3. /\ backlog' = Tail(backlog) /\ inbox' = [inbox EXCEPT ![c] = <<>>]
      /\ UNCHANGED <<client, typed, wire, reset, fd, up>>
  BY <1>2 DEF Discarded, clientVars
<1>4. /\ Len(backlog) \in Nat /\ DOMAIN backlog = 1..Len(backlog) /\ Len(backlog) # 0
      /\ c \in Clients /\ c = backlog[1] /\ backlog' \in Seq(Clients)
      /\ Len(backlog') = Len(backlog) - 1 /\ DOMAIN backlog' = 1..(Len(backlog) - 1)
      /\ \A k \in 1..(Len(backlog) - 1) : backlog'[k] = backlog[k + 1]
  BY <1>1, <1>2, <1>3, HeadTailProperties, LenProperties, EmptySeq DEF NetTypes
<1>5. fd[c] = NoFd /\ client[c] # "new"
  BY <1>1, <1>4 DEF Connections
<1>6. \A k \in DOMAIN backlog' : k + 1 \in DOMAIN backlog /\ backlog'[k] = backlog[k + 1] /\ k \in Nat /\ k + 1 # 1
  BY <1>4
<1>7. \A k \in DOMAIN backlog : k # 1 => k - 1 \in DOMAIN backlog' /\ backlog'[k - 1] = backlog[k]
  <2>1. ASSUME NEW k \in DOMAIN backlog, k # 1 PROVE k - 1 \in DOMAIN backlog' /\ backlog'[k - 1] = backlog[k]
    <3>1. k - 1 \in 1..(Len(backlog) - 1) /\ (k - 1) + 1 = k
      BY <1>4, <2>1
    <3> QED
      BY <1>4, <3>1
  <2> QED
    BY <2>1
<1>8. \A j, k \in DOMAIN backlog' : backlog'[j] = backlog'[k] => j = k
  <2>1. ASSUME NEW j \in DOMAIN backlog', NEW k \in DOMAIN backlog', backlog'[j] = backlog'[k]
        PROVE  j = k
    <3>1. j + 1 = k + 1
      BY <1>1, <1>6, <2>1 DEF Connections
    <3> QED
      BY <1>6, <3>1
  <2> QED
    BY <2>1
<1>9. NetTypes'
  <2>1. <<>> \in Seq(Segments)
    BY EmptySeq
  <2>2. inbox' \in [Clients -> Seq(Segments)]
    BY <1>1, <1>3, <2>1 DEF NetTypes
  <2> QED
    BY <1>1, <1>3, <1>4, <2>2 DEF NetTypes
<1>10. Connections'
  BY <1>1, <1>3, <1>6, <1>8 DEF Connections
<1>11. c \in ToSet(backlog) /\ ToSet(backlog') = ToSet(backlog) \ {c}
  <2>1. \A d : d \in ToSet(backlog) <=> \E k \in DOMAIN backlog : backlog[k] = d
    BY DEF ToSet
  <2>2. \A d : d \in ToSet(backlog') <=> \E k \in DOMAIN backlog' : backlog'[k] = d
    BY DEF ToSet
  <2>3. 1 \in DOMAIN backlog
    BY <1>4
  <2>4. \A k \in DOMAIN backlog' : backlog'[k] # c
    BY <1>1, <1>4, <1>6, <2>3 DEF Connections
  <2>5. ASSUME NEW d, d \in ToSet(backlog), d # c PROVE d \in ToSet(backlog')
    <3>1. PICK k \in DOMAIN backlog : backlog[k] = d
      BY <2>1, <2>5
    <3>2. k # 1
      BY <1>4, <2>5, <3>1
    <3> QED
      BY <1>7, <2>2, <3>1, <3>2
  <2>6. ASSUME NEW d, d \in ToSet(backlog') PROVE d \in ToSet(backlog) /\ d # c
    BY <1>6, <2>1, <2>2, <2>4, <2>6
  <2> QED
    BY <1>4, <2>1, <2>3, <2>5, <2>6
<1>12. OpenFds' = OpenFds
  BY <1>3 DEF OpenFds
<1> QED
  BY <1>2, <1>3, <1>4, <1>5, <1>9, <1>10, <1>11, <1>12 DEF NetInv

LEMMA DrainKeeps ==
  ASSUME NetInv, NEW c \in Clients, Drained(c)
  PROVE  /\ NetInv' /\ fd' = fd /\ up' = up /\ OpenFds' = OpenFds /\ backlog' = backlog /\ reset' = reset
         /\ \A d \in Clients : d # c => inbox'[d] = inbox[d]
<1>1. NetTypes /\ Connections
  BY DEF NetInv
<1>2. /\ inbox' = [inbox EXCEPT ![c] = IF Ended(c) THEN <<Fin(c)>> ELSE <<>>]
      /\ UNCHANGED <<client, typed, wire, reset, backlog, fd, up>>
  BY DEF Drained, clientVars
<1>3. (IF Ended(c) THEN <<Fin(c)>> ELSE <<>>) \in Seq(Segments)
  <2>1. Fin(c) \in Segments
    BY DEF Fin, Segment, Segments
  <2>2. <<>> \in Seq(Segments) /\ \A x \in Segments : <<x>> \in Seq(Segments)
    BY EmptySeq
  <2>3. CASE Ended(c)
    BY <2>1, <2>2, <2>3
  <2>4. CASE ~Ended(c)
    BY <2>2, <2>4
  <2> QED
    BY <2>3, <2>4
<1>4. NetTypes' /\ Connections'
  BY <1>1, <1>2, <1>3 DEF NetTypes, Connections
<1>5. \A d \in Clients : d # c => inbox'[d] = inbox[d]
  BY <1>1, <1>2 DEF NetTypes
<1> QED
  BY <1>2, <1>4, <1>5 DEF NetInv, OpenFds

LEMMA CloseKeeps ==
  ASSUME NetInv, NEW c \in Clients, fd[c] # NoFd, Closed(c)
  PROVE  /\ NetInv' /\ fd' = [fd EXCEPT ![c] = NoFd] /\ up' = up /\ backlog' = backlog
         /\ OpenFds' = OpenFds \ {fd[c]}
         /\ \A d \in Clients : d # c => inbox'[d] = inbox[d] /\ (d \in reset' <=> d \in reset)
<1>1. NetTypes /\ Connections
  BY DEF NetInv
<1>2. /\ fd' = [fd EXCEPT ![c] = NoFd] /\ inbox' = [inbox EXCEPT ![c] = <<>>] /\ reset' = reset \ {c}
      /\ UNCHANGED <<client, typed, wire, backlog, up>>
  BY DEF Closed, clientVars
<1>3. NetTypes'
  BY <1>1, <1>2 DEF NetTypes
<1>4. fd'[c] = NoFd /\ \A d \in Clients : d # c => fd'[d] = fd[d] /\ inbox'[d] = inbox[d]
  BY <1>1, <1>2 DEF NetTypes
<1>5. Connections'
  BY <1>1, <1>2, <1>4, LenProperties DEF NetTypes, Connections
<1>6. OpenFds' = OpenFds \ {fd[c]}
  BY <1>1, <1>4 DEF OpenFds, Connections
<1> QED
  BY <1>2, <1>3, <1>4, <1>5, <1>6 DEF NetInv

LEMMA WriteKeeps ==
  ASSUME NetInv, NEW c, NEW data, Written(c, data)
  PROVE  NetInv' /\ UNCHANGED <<fd, up, backlog, inbox, reset, OpenFds>>
<1>1. UNCHANGED <<client, typed, wire, inbox, reset, backlog, fd, up>>
  BY DEF Written, clientVars
<1> QED
  BY <1>1 DEF NetInv, NetTypes, Connections, OpenFds

LEMMA ExitKeeps ==
  ASSUME NetInv, Exited
  PROVE  NetInv' /\ ~up' /\ OpenFds' = {} /\ backlog' = <<>> /\ \A c \in Clients : fd'[c] = NoFd
<1>1. NetTypes /\ Connections
  BY DEF NetInv
<1>2. /\ up' = FALSE /\ fd' = [c \in Clients |-> NoFd] /\ inbox' = [c \in Clients |-> <<>>]
      /\ backlog' = <<>> /\ reset' = {} /\ UNCHANGED <<client, typed, wire>>
  BY DEF Exited, clientVars
<1>3. NetTypes'
  <2>1. <<>> \in Seq(Segments) /\ <<>> \in Seq(Clients)
    BY EmptySeq
  <2>2. inbox' \in [Clients -> Seq(Segments)]
    BY <1>2, <2>1
  <2>3. fd' \in [Clients -> {NoFd} \cup Fds]
    BY <1>2
  <2> QED
    BY <1>1, <1>2, <2>1, <2>2, <2>3 DEF NetTypes
<1>4. Connections'
  <2>1. DOMAIN backlog' = {}
    BY <1>2
  <2> QED
    BY <1>2, <2>1 DEF Connections
<1> QED
  BY <1>2, <1>3, <1>4 DEF NetInv, OpenFds

-----------------------------------------------------------------------------
(* Sequences.  Concatenation has a name here, so that the steps below use  *)
(* its laws and not its elements.                                          *)
Cat(a, b) == a \o b

LEMMA CatLaws ==
  ASSUME NEW S, NEW a \in Seq(S), NEW b \in Seq(S), NEW d \in Seq(S)
  PROVE  /\ Cat(a, b) \in Seq(S)
         /\ Cat(Cat(a, b), d) = Cat(a, Cat(b, d))
         /\ Cat(a, <<>>) = a /\ Cat(<<>>, a) = a
         /\ Cat(a, b) = <<>> <=> a = <<>> /\ b = <<>>
<1>1. Cat(Cat(a, b), d) = Cat(a, Cat(b, d))
  BY ConcatAssociative, SMTT(30) DEF Cat
<1>2. a \o b \in Seq(S)
  BY ConcatProperties
<1>3. a \o <<>> = a /\ <<>> \o a = a
  BY ConcatEmptySeq
<1>4. a \o b = <<>> <=> a = <<>> /\ b = <<>>
  BY ConcatEqualIffEmpty
<1> QED
  BY <1>1, <1>2, <1>3, <1>4 DEF Cat

LEMMA CatOne ==
  ASSUME NEW S, NEW a \in Seq(S), NEW x \in S
  PROVE  <<x>> \in Seq(S) /\ Append(a, x) = Cat(a, <<x>>) /\ Append(a, x) \in Seq(S) /\ Append(a, x) # <<>>
  BY AppendIsConcat, AppendProperties DEF Cat

LEMMA PrefixOfCat ==
  ASSUME NEW S, NEW a \in Seq(S), NEW b \in Seq(S)
  PROVE  IsPrefix(a, Cat(a, b))
<1>1. Len(a) \in Nat /\ Len(b) \in Nat /\ a \o b \in Seq(S) /\ Len(a \o b) = Len(a) + Len(b)
  BY LenProperties, ConcatProperties
<1>2. \A k \in 1..Len(a) : (a \o b)[k] = a[k]
  BY <1>1, ConcatProperties
<1>3. SubSeq(a, 1, Len(a)) = SubSeq(a \o b, 1, Len(a))
  BY <1>1, <1>2
<1> QED
  BY <1>1, <1>3 DEF IsPrefix, Cat

LEMMA PrefixExtends ==
  ASSUME NEW S, NEW a \in Seq(S), NEW t \in Seq(S), NEW l \in Seq(S), IsPrefix(a, t)
  PROVE  IsPrefix(a, Cat(t, l))
<1>1. /\ Len(a) \in Nat /\ Len(t) \in Nat /\ Len(l) \in Nat /\ Len(t \o l) = Len(t) + Len(l)
      /\ Len(a) <= Len(t)
  BY LenProperties, ConcatProperties DEF IsPrefix
<1>2. \A k \in 1..Len(a) : (t \o l)[k] = t[k]
  BY <1>1, ConcatProperties
<1>3. SubSeq(t, 1, Len(a)) = SubSeq(t \o l, 1, Len(a))
  BY <1>1, <1>2
<1> QED
  BY <1>1, <1>3 DEF IsPrefix, Cat

LEMMA FrontLast ==
  ASSUME NEW S, NEW s \in Seq(S), s # <<>>
  PROVE  /\ Front(s) \in Seq(S) /\ Last(s) \in S /\ <<Last(s)>> \in Seq(S)
         /\ s = Cat(Front(s), <<Last(s)>>)
<1>1. /\ Len(s) \in Nat /\ Len(s) # 0 /\ DOMAIN s = 1..Len(s)
      /\ 1 \in 1..Len(s) /\ Len(s) \in 1..Len(s)
  BY LenProperties, EmptySeq
<1>2. Last(s) \in S
  BY <1>1, ElementOfSeq, SMTT(30) DEF Last
<1>3. SubSeq(s, 1, Len(s)) = SubSeq(s, 1, Len(s) - 1) \o << s[Len(s)] >>
  BY <1>1, SubSeqRecursiveSecond
<1>4. SubSeq(s, 1, Len(s) - 1) \in Seq(S)
  <2>1. \A k \in 1..(Len(s) - 1) : s[k] \in S
    BY <1>1, ElementOfSeq
  <2> QED
    BY <1>1, <2>1, SubSeqProperties
<1> QED
  BY <1>2, <1>3, <1>4, SubSeqFull DEF Front, Last, Cat

LEMMA MoveHead ==
  ASSUME NEW S, NEW a \in Seq(S), NEW b \in Seq(S), b # <<>>
  PROVE  /\ Append(a, Head(b)) \in Seq(S) /\ Tail(b) \in Seq(S)
         /\ Cat(Append(a, Head(b)), Tail(b)) = Cat(a, b)
<1>1. Head(b) \in S /\ Tail(b) \in Seq(S)
  BY HeadTailProperties
<1>2. PICK h \in S : h = Head(b)
  BY <1>1
<1>3. Append(a, h) = a \o <<h>> /\ <<h>> \in Seq(S) /\ Append(a, h) \in Seq(S)
  BY AppendIsConcat, AppendProperties
<1>4. b = <<h>> \o Tail(b)
  <2>1. Len(b) \in Nat /\ Len(b) # 0 /\ 1 \in 1..Len(b) /\ Len(b) \in 1..Len(b)
    BY LenProperties, EmptySeq
  <2>2. SubSeq(b, 1, Len(b)) = << b[1] >> \o SubSeq(b, 2, Len(b))
    BY <2>1, SubSeqRecursiveFirst
  <2> QED
    BY <1>2, <2>2, SubSeqFull, TailIsSubSeq
<1> QED
  BY <1>1, <1>2, <1>3, <1>4, ConcatAssociative DEF Cat

LEMMA LastOfAppend ==
  ASSUME NEW S, NEW t \in Seq(S), NEW x \in S
  PROVE  Last(Append(t, x)) = x /\ Front(Append(t, x)) = t
<1>1. PICK s \in Seq(S) : s = Append(t, x) /\ s # <<>>
  BY AppendProperties
<1>2. /\ Len(s) = Len(t) + 1 /\ Len(t) \in Nat /\ s[Len(t) + 1] = x
      /\ \A k \in 1..Len(t) : s[k] = t[k]
  BY <1>1, AppendProperties, LenProperties
<1>3. SubSeq(s, 1, Len(t)) = t
  <2>1. SubSeq(s, 1, Len(t)) = SubSeq(t, 1, Len(t))
    BY <1>2
  <2> QED
    BY <2>1, SubSeqFull
<1> QED
  BY <1>1, <1>2, <1>3 DEF Last, Front

LEMMA LastOfCat ==
  ASSUME NEW S, NEW a \in Seq(S), NEW s \in Seq(S), s # <<>>
  PROVE  Last(Cat(a, s)) = Last(s) /\ Front(Cat(a, s)) = Cat(a, Front(s))
<1>1. /\ Front(s) \in Seq(S) /\ Last(s) \in S /\ <<Last(s)>> \in Seq(S)
      /\ s = Cat(Front(s), <<Last(s)>>)
  BY FrontLast
<1>2. PICK f \in Seq(S) : f = Front(s)
  BY <1>1
<1>3. PICK l \in S : l = Last(s)
  BY <1>1
<1>4. PICK g \in Seq(S) : g = Cat(a, f)
  BY CatLaws
<1>5. Cat(a, s) = Append(g, l)
  <2>1. PICK e \in Seq(S) : e = <<l>>
    BY CatOne
  <2>2. Cat(Cat(a, f), e) = Cat(a, Cat(f, e))
    BY CatLaws
  <2>3. Append(g, l) = Cat(g, e)
    BY <2>1, CatOne
  <2> QED
    BY <1>1, <1>2, <1>3, <1>4, <2>1, <2>2, <2>3
<1>6. Last(Append(g, l)) = l /\ Front(Append(g, l)) = g
  BY LastOfAppend
<1> QED
  BY <1>2, <1>3, <1>4, <1>5, <1>6

-----------------------------------------------------------------------------
(* The echo: while a connection is live, what its client has read, what    *)
(* the server wrote, what the server has in its buffer (b), what it has    *)
(* not read and what is on the way are together what the client has sent.  *)
(* A connection that was reset or closed gets nothing more.                *)
Live(c) == c \notin reset /\ (client[c] = "new" \/ Connected(c))

Stream(c) == IF client[c] = "gone" THEN Append(Typed(c), Fin(c)) ELSE Typed(c)

Flow(c, b) ==
  IF Live(c)
  THEN /\ Cat(Cat(got[c], outbox[c]), Cat(b, Cat(inbox[c], wire[c]))) = Stream(c)
       /\ client[c] = "gone" => Cat(inbox[c], wire[c]) # <<>>
  ELSE EchoesOwn(c)

EchoInv ==
  /\ got \in [Clients -> Seq(Segments)] /\ outbox \in [Clients -> Seq(Segments)]
  /\ ~up => backlog = <<>> /\ \A c \in Clients : fd[c] = NoFd
  /\ \A c \in reset : client[c] = "gone"
  /\ \A c \in Clients : client[c] = "new" => inbox[c] = <<>>

LEMMA Blocks ==
  ASSUME NEW n \in Nat \ {0}, NEW k \in Nat
  PROVE  /\ k * n \in Nat /\ (k + 1) * n = k * n + n
         /\ \A r \in 0..(n - 1) : (k * n + r) \div n = k /\ (k * n + r) % n = r
  OBVIOUS

LEMMA Quotients ==
  ASSUME NEW n \in Nat \ {0}, NEW m \in Nat
  PROVE  m \div n \in Nat /\ m % n \in Nat
  OBVIOUS

(* What a client has typed is a sequence, and its next line goes behind it. *)
LEMMA TypedIs ==
  ASSUME NetTypes, NEW c \in Clients
  PROVE  Typed(c) \in Seq(Segments) /\ Fin(c) \in Segments /\ Stream(c) \in Seq(Segments)
<1>1. typed[c] \in Nat /\ Segs[c] \in Nat \ {0} /\ typed[c] * Segs[c] \in Nat
  BY NetAssumption DEF NetAssumption, NetTypes
<1>2. \A j \in 1..(typed[c] * Segs[c]) :
        Segment(c, ((j - 1) \div Segs[c]) + 1, ((j - 1) % Segs[c]) + 1) \in Segments
  <2>1. ASSUME NEW j \in 1..(typed[c] * Segs[c])
        PROVE  ((j - 1) \div Segs[c]) + 1 \in Nat /\ ((j - 1) % Segs[c]) + 1 \in Nat
    <3>1. j - 1 \in Nat
      BY <1>1
    <3>2. (j - 1) \div Segs[c] \in Nat /\ (j - 1) % Segs[c] \in Nat
      BY <1>1, <3>1, Quotients
    <3> QED
      BY <3>2
  <2> QED
    BY <2>1 DEF Segment, Segments
<1>3. Typed(c) \in Seq(Segments)
  BY <1>1, <1>2, SeqDef DEF Typed
<1>4. Fin(c) \in Segments
  BY DEF Fin, Segment, Segments
<1> QED
  BY <1>3, <1>4, AppendProperties DEF Stream

LEMMA TypedGrows ==
  ASSUME NetTypes, NEW c \in Clients, typed'[c] = typed[c] + 1
  PROVE  /\ LineOf(c, typed[c] + 1) \in Seq(Segments)
         /\ Typed(c)' = Cat(Typed(c), LineOf(c, typed[c] + 1))
<1> DEFINE n == Segs[c]
           k == typed[c]
           line == LineOf(c, k + 1)
<1>0. line = LineOf(c, typed[c] + 1)
  OBVIOUS
<1>1. n \in Nat \ {0} /\ k \in Nat
  BY NetAssumption DEF NetAssumption, NetTypes
<1>2. /\ k * n \in Nat /\ (k + 1) * n = k * n + n
      /\ \A r \in 0..(n - 1) : (k * n + r) \div n = k /\ (k * n + r) % n = r
  BY <1>1, Blocks
<1>3. line \in Seq(Segments) /\ Len(line) = n /\ \A s \in 1..n : line[s] = Segment(c, k + 1, s)
  <2>1. \A s \in 1..n : Segment(c, k + 1, s) \in Segments
    BY <1>1 DEF Segment, Segments
  <2>2. line = [s \in 1..n |-> Segment(c, k + 1, s)]
    BY DEF LineOf
  <2>3. line \in [1..n -> Segments]
    BY <2>1, <2>2
  <2>4. line \in Seq(Segments)
    BY <1>1, <2>3, SeqDef
  <2> QED
    BY <1>1, <2>2, <2>4, LenProperties
<1>4. Typed(c) \in Seq(Segments) /\ Len(Typed(c)) = k * n
  <2>1. Typed(c) \in Seq(Segments)
    BY TypedIs
  <2>2. DOMAIN Typed(c) = 1..(k * n) /\ DOMAIN Typed(c) = 1..Len(Typed(c)) /\ Len(Typed(c)) \in Nat
    BY <2>1, LenProperties DEF Typed
  <2> QED
    BY <1>2, <2>1, <2>2
<1>5. PICK old \in Seq(Segments) : old = Typed(c)
  BY <1>4
<1>6. PICK m \in Nat : m = k * n
  BY <1>2
<1>7. PICK both : both = old \o line
  OBVIOUS
<1>8. PICK new : new = Typed(c)'
  OBVIOUS
<1>9. new = [j \in 1..(m + n) |-> Segment(c, ((j - 1) \div n) + 1, ((j - 1) % n) + 1)]
  <2>1. typed'[c] * Segs[c] = m + n
    BY <1>1, <1>2, <1>6
  <2> QED
    BY <1>8, <2>1 DEF Typed
<1>10. /\ both \in Seq(Segments) /\ Len(both) = m + n /\ Len(old) = m
       /\ \A j \in 1..(m + n) : both[j] = IF j <= m THEN old[j] ELSE line[j - m]
  BY <1>3, <1>4, <1>5, <1>6, <1>7, ConcatProperties
<1>11. \A j \in 1..m : old[j] = Segment(c, ((j - 1) \div n) + 1, ((j - 1) % n) + 1)
  BY <1>5, <1>6 DEF Typed
<1> HIDE DEF line
<1>12. ASSUME NEW j \in 1..(m + n) PROVE new[j] = both[j]
  <2>0. m \in Nat /\ n \in Nat \ {0} /\ j \in Nat
    BY <1>1
  <2>1. CASE j <= m
    <3>1. j \in 1..m
      BY <2>0, <2>1
    <3> QED
      BY <1>9, <1>10, <1>11, <2>1, <3>1
  <2>2. CASE j > m
    <3>1. PICK r \in 0..(n - 1) : r = j - 1 - m
      BY <2>0, <2>2
    <3>2. j - 1 = m + r /\ j - m = r + 1 /\ r + 1 \in 1..n /\ ~(j <= m)
      BY <2>0, <2>2, <3>1
    <3>3. (m + r) \div n = k /\ (m + r) % n = r
      BY <1>2, <1>6
    <3>4. new[j] = Segment(c, k + 1, r + 1)
      BY <1>9, <3>2, <3>3
    <3>5. both[j] = Segment(c, k + 1, r + 1)
      BY <1>3, <1>10, <3>2
    <3> QED
      BY <3>4, <3>5
  <2> QED
    BY <2>0, <2>1, <2>2
<1>13. DOMAIN both = 1..(m + n) /\ both \in [1..(m + n) -> Segments]
  BY <1>10, LenProperties
<1>14. new = both
  BY <1>9, <1>12, <1>13
<1> QED
  BY <1>0, <1>3, <1>5, <1>7, <1>8, <1>14 DEF Cat

(* Once a connection is no longer live, its client has a prefix. *)
LEMMA FlowEchoes ==
  ASSUME NetTypes, EchoInv, NEW c \in Clients, NEW b \in Seq(Segments), Flow(c, b)
  PROVE  EchoesOwn(c)
<1>1. /\ got[c] \in Seq(Segments) /\ outbox[c] \in Seq(Segments) /\ inbox[c] \in Seq(Segments)
      /\ wire[c] \in Seq(Segments)
  BY DEF NetTypes, EchoInv
<1>2. PICK t \in Seq(Segments), x \in Segments : t = Typed(c) /\ x = Fin(c)
  BY TypedIs
<1>3. PICK a \in Seq(Segments) : a = Cat(got[c], outbox[c])
  BY <1>1, CatLaws
<1>4. PICK u \in Seq(Segments) : u = Cat(inbox[c], wire[c])
  BY <1>1, CatLaws
<1>5. PICK r \in Seq(Segments) : r = Cat(b, u)
  BY CatLaws
<1>6. CASE ~Live(c)
  BY <1>6 DEF Flow
<1>7. CASE Live(c) /\ client[c] # "gone"
  <2>1. Cat(a, r) = t
    BY <1>2, <1>3, <1>4, <1>5, <1>7 DEF Flow, Stream
  <2>2. IsPrefix(a, t)
    BY <2>1, PrefixOfCat
  <2> QED
    BY <1>2, <1>3, <2>2 DEF EchoesOwn, Cat
<1>8. CASE Live(c) /\ client[c] = "gone"
  <2>1. Cat(a, r) = Append(t, x) /\ u # <<>>
    BY <1>2, <1>3, <1>4, <1>5, <1>8 DEF Flow, Stream
  <2>2. r # <<>>
    BY <1>5, <2>1, CatLaws
  <2>3. Cat(a, Front(r)) = t /\ Front(r) \in Seq(Segments)
    <3>1. Front(Cat(a, r)) = Cat(a, Front(r)) /\ Front(Append(t, x)) = t
      BY <2>2, LastOfCat, LastOfAppend
    <3>2. Front(r) \in Seq(Segments)
      BY <2>2, FrontLast
    <3> QED
      BY <2>1, <3>1, <3>2
  <2>4. IsPrefix(a, t)
    BY <2>3, PrefixOfCat
  <2> QED
    BY <1>2, <1>3, <2>4 DEF EchoesOwn, Cat
<1> QED
  BY <1>6, <1>7, <1>8

LEMMA FlowTypes ==
  ASSUME NetTypes, EchoInv, NEW c \in Clients
  PROVE  /\ got[c] \in Seq(Segments) /\ outbox[c] \in Seq(Segments)
         /\ inbox[c] \in Seq(Segments) /\ wire[c] \in Seq(Segments)
         /\ Cat(got[c], outbox[c]) \in Seq(Segments) /\ Cat(inbox[c], wire[c]) \in Seq(Segments)
<1>1. /\ got[c] \in Seq(Segments) /\ outbox[c] \in Seq(Segments)
      /\ inbox[c] \in Seq(Segments) /\ wire[c] \in Seq(Segments)
  BY DEF NetTypes, EchoInv
<1> QED
  BY <1>1, CatLaws

(* What another client does leaves a connection alone. *)
LEMMA FlowFrame ==
  ASSUME NEW c, NEW b, Flow(c, b), Live(c)' = Live(c), client'[c] = client[c],
         typed'[c] = typed[c], wire'[c] = wire[c], inbox'[c] = inbox[c],
         outbox'[c] = outbox[c], got'[c] = got[c]
  PROVE  Flow(c, b)'
<1>1. Typed(c)' = Typed(c)
  BY DEF Typed
<1>2. Stream(c)' = Stream(c) /\ EchoesOwn(c)' = EchoesOwn(c)
  BY <1>1 DEF Stream, EchoesOwn
<1> QED
  BY <1>2 DEF Flow

LEMMA FlowBroken ==
  ASSUME NetTypes, EchoInv, NEW c \in Clients, NEW b \in Seq(Segments), NEW e, Flow(c, b), ~Live(c)',
         typed'[c] = typed[c], outbox'[c] = outbox[c], got'[c] = got[c]
  PROVE  Flow(c, e)'
<1>1. EchoesOwn(c)
  BY FlowEchoes
<1>2. Typed(c)' = Typed(c)
  BY DEF Typed
<1> QED
  BY <1>1, <1>2 DEF Flow, EchoesOwn

(* The client sends l: a line, or the end. *)
LEMMA FlowSends ==
  ASSUME NetTypes, EchoInv, NEW c \in Clients, NEW b \in Seq(Segments), NEW l \in Seq(Segments),
         Live(c), Flow(c, b), client[c] # "gone", Stream(c)' = Cat(Typed(c), l),
         wire'[c] = Cat(wire[c], l), Live(c)', client'[c] = "gone" => l # <<>>,
         inbox'[c] = inbox[c], outbox'[c] = outbox[c], got'[c] = got[c]
  PROVE  Flow(c, b)'
<1>1. PICK a \in Seq(Segments), u \in Seq(Segments) : a = Cat(got[c], outbox[c]) /\ u = Cat(inbox[c], wire[c])
  BY FlowTypes
<1>2. PICK r \in Seq(Segments) : r = Cat(b, u)
  BY CatLaws
<1>3. Cat(a, r) = Typed(c)
  BY <1>1, <1>2 DEF Flow, Stream
<1>4. PICK n \in Seq(Segments), w \in Seq(Segments) : n = inbox[c] /\ w = wire[c]
  BY FlowTypes
<1>5. Cat(n, Cat(w, l)) = Cat(u, l)
  <2>1. Cat(Cat(n, w), l) = Cat(n, Cat(w, l))
    BY CatLaws
  <2> QED
    BY <1>1, <1>4, <2>1
<1>6. Cat(b, Cat(u, l)) = Cat(r, l)
  BY <1>2, CatLaws
<1>7. Cat(a, Cat(r, l)) = Cat(Cat(a, r), l)
  BY CatLaws
<1>8. Cat(a, Cat(b, Cat(n, Cat(w, l)))) = Cat(Typed(c), l)
  BY <1>3, <1>5, <1>6, <1>7
<1>9. client'[c] = "gone" => Cat(n, Cat(w, l)) # <<>>
  BY <1>5, CatLaws
<1> QED
  BY <1>1, <1>4, <1>8, <1>9 DEF Flow

LEMMA FlowNetStep ==
  ASSUME NetInv, EchoInv, NEW c \in Clients, NetStep(c), NEW d \in Clients, NEW b \in Seq(Segments), Flow(d, b)
  PROVE  Flow(d, b)'
<1>0. NetTypes /\ Connections /\ IsFiniteSet(Clients)
  BY NetAssumption DEF NetInv, NetAssumption
<1>1. /\ client \in [Clients -> {"new", "prompt", "reply", "gone"}] /\ typed \in [Clients -> Nat]
      /\ wire \in [Clients -> Seq(Segments)] /\ inbox \in [Clients -> Seq(Segments)]
      /\ got \in [Clients -> Seq(Segments)] /\ outbox \in [Clients -> Seq(Segments)]
      /\ backlog \in Seq(Clients)
  BY <1>0 DEF NetTypes, EchoInv
<1>2. CASE Connect(c)
  <2>1. /\ client[c] = "new" /\ client' = [client EXCEPT ![c] = "prompt"] /\ backlog' = Append(backlog, c)
        /\ UNCHANGED <<typed, wire, inbox, outbox, got, reset, fd>>
    BY <1>2 DEF Connect
  <2>2. ToSet(backlog') = ToSet(backlog) \cup {c}
    <3>1. /\ Len(backlog) \in Nat /\ DOMAIN backlog = 1..Len(backlog)
          /\ DOMAIN backlog' = 1..(Len(backlog) + 1)
          /\ \A k \in 1..Len(backlog) : backlog'[k] = backlog[k]
          /\ backlog'[Len(backlog) + 1] = c
      BY <1>1, <2>1, LenProperties, AppendProperties
    <3>2. \A x : x \in ToSet(backlog') <=> x \in ToSet(backlog) \/ x = c
      BY <3>1 DEF ToSet
    <3> QED
      BY <3>2
  <2>3. Live(d)' = Live(d)
    BY <1>1, <2>1, <2>2 DEF Live, Connected
  <2>4. CASE d # c
    BY <1>1, <2>1, <2>3, <2>4, FlowFrame
  <2>5. CASE d = c
    <3>1. Typed(c)' = Typed(c) /\ client[c] # "gone" /\ client'[c] # "gone"
      BY <1>1, <2>1 DEF Typed
    <3> QED
      BY <2>1, <2>3, <2>5, <3>1 DEF Flow, Stream, EchoesOwn
  <2> QED
    BY <2>4, <2>5
<1>3. CASE SendLine(c)
  <2>1. /\ client[c] = "prompt" /\ client' = [client EXCEPT ![c] = "reply"]
        /\ typed' = [typed EXCEPT ![c] = typed[c] + 1]
        /\ wire' = [wire EXCEPT ![c] = wire[c] \o LineOf(c, typed[c] + 1)]
        /\ UNCHANGED <<inbox, outbox, got, reset, backlog, fd>>
    BY <1>3 DEF SendLine
  <2>2. Live(d)' = Live(d)
    BY <1>1, <2>1 DEF Live, Connected
  <2>3. CASE d # c
    BY <1>1, <2>1, <2>2, <2>3, FlowFrame
  <2>4. CASE d = c
    <3>1. PICK l \in Seq(Segments) : l = LineOf(c, typed[c] + 1) /\ Typed(c)' = Cat(Typed(c), l)
      <4>1. typed'[c] = typed[c] + 1
        BY <1>1, <2>1
      <4> QED
        BY <1>0, <4>1, TypedGrows
    <3>2. /\ wire'[c] = Cat(wire[c], l) /\ client'[c] = "reply" /\ inbox'[c] = inbox[c]
          /\ outbox'[c] = outbox[c] /\ got'[c] = got[c] /\ client[c] # "gone"
      BY <1>1, <2>1, <3>1 DEF Cat
    <3>3. Stream(c)' = Cat(Typed(c), l)
      BY <3>1, <3>2 DEF Stream
    <3>4. CASE Live(c)
      BY <1>0, <2>2, <2>4, <3>2, <3>3, <3>4, FlowSends
    <3>5. CASE ~Live(c)
      <4>1. EchoesOwn(c)
        BY <2>4, <3>5 DEF Flow
      <4>2. PICK a \in Seq(Segments), t \in Seq(Segments) : a = Cat(got[c], outbox[c]) /\ t = Typed(c)
        BY <1>0, FlowTypes, TypedIs
      <4>3. IsPrefix(a, t)
        BY <4>1, <4>2 DEF EchoesOwn, Cat
      <4>4. IsPrefix(a, Cat(t, l))
        BY <4>3, PrefixExtends
      <4>5. EchoesOwn(c)'
        BY <3>1, <3>2, <4>2, <4>4 DEF EchoesOwn, Cat
      <4> QED
        BY <2>2, <2>4, <3>5, <4>5 DEF Flow
    <3> QED
      BY <3>4, <3>5
  <2> QED
    BY <2>3, <2>4
<1>4. CASE ReadLine(c)
  <2>1. /\ client[c] = "reply" /\ client'[c] \in {"prompt", "reply"}
        /\ \A e \in Clients : e # c => client'[e] = client[e]
        /\ got' = [got EXCEPT ![c] = Append(got[c], Head(outbox[c]))]
        /\ outbox' = [outbox EXCEPT ![c] = Tail(outbox[c])] /\ outbox[c] # <<>>
        /\ UNCHANGED <<typed, wire, inbox, reset, backlog, fd>>
    BY <1>1, <1>4 DEF ReadLine
  <2>2. Live(d)' = Live(d)
    BY <1>1, <2>1 DEF Live, Connected
  <2>3. CASE d # c
    BY <1>1, <2>1, <2>2, <2>3, FlowFrame
  <2>4. CASE d = c
    <3>1. PICK g \in Seq(Segments), o \in Seq(Segments) : g = got[c] /\ o = outbox[c]
      BY <1>1
    <3>2. Cat(Append(g, Head(o)), Tail(o)) = Cat(g, o)
      BY <2>1, <3>1, MoveHead
    <3>3. got'[c] = Append(g, Head(o)) /\ outbox'[c] = Tail(o)
      BY <1>1, <2>1, <3>1
    <3>4. Cat(got'[c], outbox'[c]) = Cat(got[c], outbox[c])
      BY <3>1, <3>2, <3>3
    <3>5. Typed(c)' = Typed(c) /\ client[c] # "gone" /\ client'[c] # "gone"
      BY <2>1 DEF Typed
    <3>6. EchoesOwn(c)' = EchoesOwn(c)
      BY <3>4, <3>5 DEF EchoesOwn, Cat
    <3> QED
      BY <2>1, <2>2, <2>4, <3>4, <3>5, <3>6 DEF Flow, Stream
  <2> QED
    BY <2>3, <2>4
<1>5. ASSUME client[c] \in {"prompt", "reply"}, Leave(c) PROVE Flow(d, b)'
  <2>1. /\ client' = [client EXCEPT ![c] = "gone"] /\ wire' = [wire EXCEPT ![c] = Append(wire[c], Fin(c))]
        /\ UNCHANGED <<typed, inbox, outbox, got, reset, backlog, fd>>
    BY <1>5 DEF Leave
  <2>2. Live(d)' = Live(d)
    BY <1>1, <1>5, <2>1 DEF Live, Connected
  <2>3. CASE d # c
    BY <1>1, <2>1, <2>2, <2>3, FlowFrame
  <2>4. CASE d = c
    <3>1. PICK x \in Segments, w \in Seq(Segments), t \in Seq(Segments) : x = Fin(c) /\ w = wire[c] /\ t = Typed(c)
      BY <1>0, <1>1, TypedIs
    <3>2. PICK l \in Seq(Segments) : l = <<x>> /\ l # <<>>
      BY CatOne
    <3>3. Append(w, x) = Cat(w, l) /\ Append(t, x) = Cat(t, l)
      BY <3>2, CatOne
    <3>4. /\ wire'[c] = Cat(wire[c], l) /\ client'[c] = "gone" /\ inbox'[c] = inbox[c]
          /\ outbox'[c] = outbox[c] /\ got'[c] = got[c] /\ client[c] # "gone" /\ typed'[c] = typed[c]
      BY <1>1, <1>5, <2>1, <3>1, <3>3
    <3>5. Typed(c)' = Typed(c)
      BY <3>4 DEF Typed
    <3>6. Stream(c)' = Cat(Typed(c), l)
      BY <3>1, <3>3, <3>4, <3>5 DEF Stream, Fin, Segment
    <3>7. CASE Live(c)
      BY <1>0, <2>2, <2>4, <3>2, <3>4, <3>6, <3>7, FlowSends
    <3>8. CASE ~Live(c)
      BY <2>2, <2>4, <3>4, <3>5, <3>8 DEF Flow, EchoesOwn
    <3> QED
      BY <3>7, <3>8
  <2> QED
    BY <2>3, <2>4
<1>6. CASE Quit(c)
  BY <1>5, <1>6 DEF Quit
<1>7. CASE ServerTerminated(c)
  <2>1. CASE Leave(c)
    BY <1>5, <1>7, <2>1 DEF ServerTerminated
  <2>2. CASE ~Leave(c)
    <3>1. /\ client[c] = "reply" /\ client' = [client EXCEPT ![c] = "prompt"]
          /\ UNCHANGED <<typed, wire, inbox, outbox, got, reset, backlog, fd>>
      BY <1>7, <2>2 DEF ServerTerminated
    <3>2. Live(d)' = Live(d)
      BY <1>1, <3>1 DEF Live, Connected
    <3>3. Typed(d)' = Typed(d) /\ (client'[d] = "gone" <=> client[d] = "gone")
      BY <1>1, <3>1 DEF Typed
    <3> QED
      BY <3>1, <3>2, <3>3 DEF Flow, Stream, EchoesOwn
  <2> QED
    BY <2>1, <2>2
<1>8. CASE Kill(c)
  BY <1>5, <1>8 DEF Kill
<1>9. CASE Arrive(c)
  <2>1. /\ wire[c] # <<>> /\ inbox' = [inbox EXCEPT ![c] = Append(inbox[c], Head(wire[c]))]
        /\ wire' = [wire EXCEPT ![c] = Tail(wire[c])]
        /\ UNCHANGED <<client, typed, outbox, got, reset, backlog, fd>>
    BY <1>9 DEF Arrive
  <2>2. Live(d)' = Live(d)
    BY <2>1 DEF Live, Connected
  <2>3. CASE d # c
    BY <1>1, <2>1, <2>2, <2>3, FlowFrame
  <2>4. CASE d = c
    <3>1. PICK n \in Seq(Segments), w \in Seq(Segments) : n = inbox[c] /\ w = wire[c]
      BY <1>1
    <3>2. Cat(Append(n, Head(w)), Tail(w)) = Cat(n, w)
      BY <2>1, <3>1, MoveHead
    <3>3. inbox'[c] = Append(n, Head(w)) /\ wire'[c] = Tail(w)
      BY <1>1, <2>1, <3>1
    <3>4. Cat(inbox'[c], wire'[c]) = Cat(inbox[c], wire[c])
      BY <3>1, <3>2, <3>3
    <3>5. Typed(c)' = Typed(c)
      BY <2>1 DEF Typed
    <3> QED
      BY <2>1, <2>2, <2>4, <3>4, <3>5 DEF Flow, Stream, EchoesOwn
  <2> QED
    BY <2>3, <2>4
<1>10. CASE ResetArrives(c)
  <2>1. reset' = reset \cup {c} /\ UNCHANGED <<client, typed, wire, inbox, outbox, got, backlog, fd>>
    BY <1>10 DEF ResetArrives
  <2>2. CASE d # c
    <3>1. Live(d)' = Live(d)
      BY <2>1, <2>2 DEF Live, Connected
    <3> QED
      BY <2>1, <3>1, FlowFrame
  <2>3. CASE d = c
    <3>1. ~Live(c)'
      BY <2>1 DEF Live
    <3> QED
      BY <1>0, <2>1, <2>3, <3>1, FlowBroken
  <2> QED
    BY <2>2, <2>3
<1> QED
  BY <1>2, <1>3, <1>4, <1>6, <1>7, <1>8, <1>9, <1>10 DEF NetStep

LEMMA EchoInvInit ==
  ASSUME NetInit
  PROVE  EchoInv /\ \A c \in Clients : Flow(c, <<>>)
<1>1. EchoInv
  <2>1. <<>> \in Seq(Segments)
    BY EmptySeq
  <2> QED
    BY <2>1 DEF NetInit, EchoInv
<1>2. ASSUME NEW c \in Clients PROVE Flow(c, <<>>)
  <2>1. Segs[c] \in Nat /\ 0 * Segs[c] = 0
    BY NetAssumption DEF NetAssumption
  <2>2. Typed(c) = <<>>
    <3>1. typed[c] = 0 /\ Typed(c) \in Seq(Segments)
      BY NetInvInit, TypedIs DEF NetInit, NetInv
    <3>2. DOMAIN Typed(c) = 1..0
      BY <2>1, <3>1 DEF Typed
    <3>3. DOMAIN Typed(c) = 1..Len(Typed(c)) /\ Len(Typed(c)) \in Nat
      BY <3>1, LenProperties
    <3> QED
      BY <3>1, <3>2, <3>3, EmptySeq
  <2>3. Cat(<<>>, <<>>) = <<>>
    BY EmptySeq, CatLaws
  <2>4. client[c] = "new" /\ c \notin reset /\ got[c] = <<>> /\ outbox[c] = <<>> /\ inbox[c] = <<>> /\ wire[c] = <<>>
    BY DEF NetInit
  <2> QED
    BY <2>2, <2>3, <2>4 DEF Flow, Stream, Live
<1> QED
  BY <1>1, <1>2

LEMMA EchoInvNetStep ==
  ASSUME NetInv, EchoInv, NEW c \in Clients, NetStep(c)
  PROVE  EchoInv'
<1>0. NetTypes /\ Connections
  BY DEF NetInv
<1>1. /\ client \in [Clients -> {"new", "prompt", "reply", "gone"}]
      /\ inbox \in [Clients -> Seq(Segments)]
      /\ got \in [Clients -> Seq(Segments)] /\ outbox \in [Clients -> Seq(Segments)]
  BY <1>0 DEF NetTypes, EchoInv
<1>2. /\ ~up => backlog = <<>> /\ \A d \in Clients : fd[d] = NoFd
      /\ \A d \in reset : client[d] = "gone"
      /\ \A d \in Clients : client[d] = "new" => inbox[d] = <<>>
  BY DEF EchoInv
<1>3. CASE Connect(c)
  <2>1. /\ client[c] = "new" /\ up /\ client' = [client EXCEPT ![c] = "prompt"]
        /\ UNCHANGED <<inbox, outbox, got, reset, fd, up>>
    BY <1>3 DEF Connect
  <2> QED
    BY <1>1, <1>2, <2>1 DEF EchoInv
<1>4. CASE SendLine(c)
  <2>1. /\ client[c] = "prompt" /\ client' = [client EXCEPT ![c] = "reply"]
        /\ UNCHANGED <<inbox, outbox, got, reset, backlog, fd, up>>
    BY <1>4 DEF SendLine
  <2> QED
    BY <1>1, <1>2, <2>1 DEF EchoInv
<1>5. CASE ReadLine(c)
  <2>1. /\ client[c] = "reply" /\ outbox[c] # <<>>
        /\ client' = [client EXCEPT ![c] = IF LastSeg(Head(outbox[c])) THEN "prompt" ELSE client[c]]
        /\ got' = [got EXCEPT ![c] = Append(got[c], Head(outbox[c]))]
        /\ outbox' = [outbox EXCEPT ![c] = Tail(outbox[c])]
        /\ UNCHANGED <<inbox, reset, backlog, fd, up>>
    BY <1>5 DEF ReadLine
  <2>2. got[c] \in Seq(Segments) /\ outbox[c] \in Seq(Segments)
    BY <1>1
  <2>3. Append(got[c], Head(outbox[c])) \in Seq(Segments) /\ Tail(outbox[c]) \in Seq(Segments)
    BY <2>1, <2>2, MoveHead
  <2>4. \A d \in Clients : client'[d] # "new" \/ client[d] = "new"
    BY <1>1, <2>1
  <2>5. \A d \in reset' : client'[d] = "gone"
    BY <1>0, <1>2, <2>1 DEF NetTypes
  <2>6. got' \in [Clients -> Seq(Segments)] /\ outbox' \in [Clients -> Seq(Segments)]
    BY <1>1, <2>1, <2>3
  <2> QED
    BY <1>2, <2>1, <2>4, <2>5, <2>6 DEF EchoInv
<1>6. ASSUME client[c] # "new", Leave(c) PROVE EchoInv'
  <2>1. /\ client' = [client EXCEPT ![c] = "gone"]
        /\ UNCHANGED <<inbox, outbox, got, reset, backlog, fd, up>>
    BY <1>6 DEF Leave
  <2> QED
    BY <1>1, <1>2, <2>1 DEF EchoInv
<1>7. CASE Quit(c)
  BY <1>6, <1>7 DEF Quit
<1>8. CASE ServerTerminated(c)
  <2>1. CASE Leave(c)
    BY <1>6, <1>8, <2>1 DEF ServerTerminated
  <2>2. CASE ~Leave(c)
    <3>1. /\ client[c] = "reply" /\ client' = [client EXCEPT ![c] = "prompt"]
          /\ UNCHANGED <<inbox, outbox, got, reset, backlog, fd, up>>
      BY <1>8, <2>2 DEF ServerTerminated
    <3> QED
      BY <1>1, <1>2, <3>1 DEF EchoInv
  <2> QED
    BY <2>1, <2>2
<1>9. CASE Kill(c)
  BY <1>6, <1>9 DEF Kill
<1>10. CASE Arrive(c)
  <2>1. /\ Connected(c) /\ inbox' = [inbox EXCEPT ![c] = Append(inbox[c], Head(wire[c]))]
        /\ UNCHANGED <<client, outbox, got, reset, backlog, fd, up>>
    BY <1>10 DEF Arrive
  <2>2. client[c] # "new"
    BY <1>0, <2>1 DEF Connections, Connected, ToSet
  <2> QED
    BY <1>1, <1>2, <2>1, <2>2 DEF EchoInv
<1>11. CASE ResetArrives(c)
  <2>1. /\ client[c] = "gone" /\ reset' = reset \cup {c}
        /\ UNCHANGED <<client, inbox, outbox, got, backlog, fd, up>>
    BY <1>11 DEF ResetArrives
  <2> QED
    BY <1>1, <1>2, <2>1 DEF EchoInv
<1> QED
  BY <1>3, <1>4, <1>5, <1>7, <1>8, <1>9, <1>10, <1>11 DEF NetStep

LEMMA FlowAccept ==
  ASSUME NetInv, EchoInv, backlog # <<>>, NEW f \in FreeFds, Accepted(f)
  PROVE  EchoInv' /\ \A d \in Clients : \A b : Flow(d, b) => Flow(d, b)'
<1>0. NetTypes /\ Connections
  BY DEF NetInv
<1>1. PICK c : c = Head(backlog)
  OBVIOUS
<1>2. /\ backlog' = Tail(backlog) /\ fd' = [fd EXCEPT ![c] = f]
      /\ UNCHANGED <<client, typed, wire, got, inbox, outbox, reset, up>>
  BY <1>1 DEF Accepted, clientVars
<1>3. /\ Len(backlog) \in Nat /\ DOMAIN backlog = 1..Len(backlog) /\ Len(backlog) # 0
      /\ c \in Clients /\ c = backlog[1] /\ DOMAIN backlog' = 1..(Len(backlog) - 1)
      /\ \A k \in 1..(Len(backlog) - 1) : backlog'[k] = backlog[k + 1]
  BY <1>0, <1>1, <1>2, HeadTailProperties, LenProperties, EmptySeq DEF NetTypes
<1>4. f # NoFd
  BY DEF FreeFds, ListenFd, NoFd
<1>5. up
  BY DEF EchoInv
<1>6. EchoInv'
  BY <1>2, <1>5 DEF EchoInv
<1>7. ASSUME NEW d \in Clients, NEW b, Flow(d, b) PROVE Flow(d, b)'
  <2>1. CASE d = c
    <3>1. Connected(d)
      BY <1>3, <2>1 DEF Connected, ToSet
    <3>2. Connected(d)'
      BY <1>0, <1>2, <1>3, <1>4, <2>1 DEF Connected, NetTypes
    <3>3. Live(d)' = Live(d)
      BY <1>2, <3>1, <3>2 DEF Live
    <3> QED
      BY <1>2, <1>7, <3>3, FlowFrame
  <2>2. CASE d # c
    <3>1. d \in ToSet(backlog') <=> d \in ToSet(backlog)
      <4>1. ASSUME NEW k \in DOMAIN backlog, backlog[k] = d PROVE \E j \in DOMAIN backlog' : backlog'[j] = d
        <5>1. k # 1 /\ k \in 1..Len(backlog)
          BY <1>3, <2>2, <4>1
        <5>2. k - 1 \in 1..(Len(backlog) - 1) /\ (k - 1) + 1 = k
          BY <1>3, <5>1
        <5> QED
          BY <1>3, <4>1, <5>2
      <4>2. ASSUME NEW k \in DOMAIN backlog', backlog'[k] = d PROVE \E j \in DOMAIN backlog : backlog[j] = d
        <5>1. k + 1 \in 1..Len(backlog) /\ backlog[k + 1] = d
          BY <1>3, <4>2
        <5> QED
          BY <1>3, <5>1
      <4> QED
        BY <4>1, <4>2 DEF ToSet
    <3>2. fd'[d] = fd[d]
      BY <1>0, <1>2, <2>2 DEF NetTypes
    <3>3. Live(d)' = Live(d)
      BY <1>2, <3>1, <3>2 DEF Live, Connected
    <3> QED
      BY <1>2, <1>7, <3>3, FlowFrame
  <2> QED
    BY <2>1, <2>2
<1> QED
  BY <1>6, <1>7

(* accept, and close at once: the connection is no longer live. *)
LEMMA FlowDiscard ==
  ASSUME NetInv, EchoInv, backlog # <<>>, Discarded
  PROVE  /\ EchoInv'
         /\ \A d \in Clients : \A b \in Seq(Segments) : Flow(d, b) => Flow(d, b)'
<1>0. NetTypes
  BY DEF NetInv
<1>1. PICK c \in Clients : /\ c = Head(backlog) /\ fd[c] = NoFd /\ client[c] # "new"
                          /\ ToSet(backlog') = ToSet(backlog) \ {c}
                          /\ inbox' = [inbox EXCEPT ![c] = <<>>]
  BY DiscardKeeps
<1>2. UNCHANGED <<client, typed, wire, got, outbox, reset, fd, up>>
  BY DEF Discarded, clientVars
<1>3. inbox \in [Clients -> Seq(Segments)]
  BY <1>0 DEF NetTypes
<1>4. EchoInv'
  BY <1>1, <1>2, <1>3 DEF EchoInv
<1>5. ASSUME NEW b \in Seq(Segments), Flow(c, b) PROVE Flow(c, b)'
  <2>1. ~Live(c)'
    BY <1>1, <1>2 DEF Live, Connected
  <2> QED
    BY <1>0, <1>2, <1>5, <2>1, FlowBroken
<1>6. ASSUME NEW d \in Clients, NEW b, d # c, Flow(d, b) PROVE Flow(d, b)'
  <2>1. Live(d)' = Live(d) /\ inbox'[d] = inbox[d]
    BY <1>1, <1>2, <1>3, <1>6 DEF Live, Connected
  <2> QED
    BY <1>2, <1>6, <2>1, FlowFrame
<1> QED
  BY <1>4, <1>5, <1>6

(* read takes everything up to the end of the stream into the buffer. *)
LEMMA ReceivedIs ==
  ASSUME NetTypes, NEW c \in Clients
  PROVE  Received(c) \in Seq(Segments)
<1>1. inbox[c] \in Seq(Segments)
  BY DEF NetTypes
<1>2. inbox[c] # <<>> => Front(inbox[c]) \in Seq(Segments)
  BY <1>1, FrontLast
<1> QED
  BY <1>1, <1>2 DEF Received, Ended

LEMMA DrainFrame ==
  ASSUME NetInv, EchoInv, NEW c \in Clients, Drained(c), client[c] # "new"
  PROVE  EchoInv' /\ \A d \in Clients : \A b : d # c /\ Flow(d, b) => Flow(d, b)'
<1>1. /\ inbox' = [inbox EXCEPT ![c] = IF Ended(c) THEN <<Fin(c)>> ELSE <<>>]
      /\ UNCHANGED <<client, typed, wire, got, outbox, reset, backlog, fd, up>>
  BY DEF Drained, clientVars
<1>2. inbox \in [Clients -> Seq(Segments)]
  BY DEF NetInv, NetTypes
<1>3. EchoInv'
  BY <1>1, <1>2 DEF EchoInv
<1>4. ASSUME NEW d \in Clients, NEW b, d # c, Flow(d, b) PROVE Flow(d, b)'
  <2>1. Live(d)' = Live(d) /\ inbox'[d] = inbox[d]
    BY <1>1, <1>2, <1>4 DEF Live, Connected
  <2> QED
    BY <1>1, <1>4, <2>1, FlowFrame
<1> QED
  BY <1>3, <1>4

LEMMA FlowDrain ==
  ASSUME NetInv, EchoInv, NEW c \in Clients, Drained(c), Flow(c, <<>>), NEW r, r = Received(c)
  PROVE  Flow(c, r)'
<1>0. NetTypes /\ <<>> \in Seq(Segments)
  BY EmptySeq DEF NetInv
<1>1. /\ inbox' = [inbox EXCEPT ![c] = IF Ended(c) THEN <<Fin(c)>> ELSE <<>>]
      /\ UNCHANGED <<client, typed, wire, got, outbox, reset, backlog, fd, up>>
  BY DEF Drained, clientVars
<1>2. /\ Live(c)' = Live(c) /\ Typed(c)' = Typed(c)
      /\ Stream(c)' = Stream(c) /\ EchoesOwn(c)' = EchoesOwn(c)
  BY <1>1 DEF Live, Connected, Typed, Stream, EchoesOwn
<1>3. PICK a \in Seq(Segments), n \in Seq(Segments), w \in Seq(Segments) :
        a = Cat(got[c], outbox[c]) /\ n = inbox[c] /\ w = wire[c]
  BY <1>0, FlowTypes
<1>4. PICK u \in Seq(Segments) : u = Cat(n, w) /\ Cat(<<>>, u) = u
  BY CatLaws, <1>0
<1>5. PICK x \in Segments, t \in Seq(Segments) : x = Fin(c) /\ t = Typed(c)
  BY <1>0, TypedIs
<1>6. inbox'[c] = IF Ended(c) THEN <<x>> ELSE <<>>
  BY <1>0, <1>1, <1>5 DEF NetTypes
<1>7. Live(c) => Cat(a, u) = Stream(c) /\ (client[c] = "gone" => u # <<>>)
  BY <1>3, <1>4 DEF Flow
<1>8. CASE ~Live(c)
  BY <1>2, <1>8 DEF Flow
<1>9. CASE Live(c) /\ Ended(c)
  <2>1. n # <<>> /\ Last(n) = x /\ r = Front(n)
    BY <1>3, <1>5, <1>9 DEF Received, Ended
  <2>2. r \in Seq(Segments) /\ n = Cat(r, <<x>>)
    BY <2>1, FrontLast
  <2>3. PICK e \in Seq(Segments) : e = <<x>> /\ e # <<>>
    BY CatOne
  <2>4. Cat(Cat(r, e), w) = Cat(r, Cat(e, w))
    BY <2>2, CatLaws
  <2>5. Cat(e, w) # <<>>
    <3>1. e # <<>>
      BY <2>3
    <3> QED
      BY <3>1, CatLaws
  <2>6. inbox'[c] = e
    BY <1>6, <1>9, <2>3
  <2>7. Cat(a, Cat(r, Cat(e, w))) = Stream(c)
    BY <1>4, <1>7, <1>9, <2>2, <2>3, <2>4
  <2> QED
    BY <1>1, <1>2, <1>3, <1>9, <2>5, <2>6, <2>7 DEF Flow
<1>10. CASE Live(c) /\ ~Ended(c)
  <2>1. r = n
    BY <1>3, <1>10 DEF Received
  <2>2. Cat(<<>>, w) = w
    BY <1>0, CatLaws
  <2>3. ASSUME client[c] = "gone", w = <<>> PROVE FALSE
    <3>1. u = n
      BY <1>4, <2>3, CatLaws
    <3>0. n # <<>>
      BY <1>7, <1>10, <2>3, <3>1
    <3>2. Cat(a, n) = Append(t, x)
      BY <1>5, <1>7, <1>10, <2>3, <3>1 DEF Stream
    <3>3. Last(n) = x
      <4>1. Last(Cat(a, n)) = Last(n) /\ Last(Append(t, x)) = x
        BY <3>0, LastOfCat, LastOfAppend
      <4> QED
        BY <3>2, <4>1
    <3> QED
      BY <1>3, <1>5, <1>10, <3>0, <3>3 DEF Ended
  <2>4. inbox'[c] = <<>>
    BY <1>6, <1>10
  <2>5. Cat(a, Cat(r, Cat(<<>>, w))) = Stream(c)
    BY <1>4, <1>7, <1>10, <2>1, <2>2
  <2> QED
    BY <1>1, <1>2, <1>3, <1>10, <2>2, <2>3, <2>4, <2>5 DEF Flow
<1> QED
  BY <1>8, <1>9, <1>10

LEMMA FlowClose ==
  ASSUME NetInv, EchoInv, NEW c \in Clients, fd[c] # NoFd, Closed(c)
  PROVE  /\ EchoInv'
         /\ \A b \in Seq(Segments) : \A e : Flow(c, b) => Flow(c, e)'
         /\ \A d \in Clients : \A b : d # c /\ Flow(d, b) => Flow(d, b)'
<1>0. NetTypes /\ Connections
  BY DEF NetInv
<1>1. /\ fd' = [fd EXCEPT ![c] = NoFd] /\ inbox' = [inbox EXCEPT ![c] = <<>>] /\ reset' = reset \ {c}
      /\ UNCHANGED <<client, typed, wire, got, outbox, backlog, up>>
  BY DEF Closed, clientVars
<1>2. inbox \in [Clients -> Seq(Segments)] /\ fd \in [Clients -> {NoFd} \cup Fds]
  BY <1>0 DEF NetTypes
<1>3. EchoInv'
  BY <1>1, <1>2 DEF EchoInv
<1>4. ASSUME NEW b \in Seq(Segments), NEW e, Flow(c, b) PROVE Flow(c, e)'
  <2>1. client[c] # "new" /\ c \notin ToSet(backlog)
    BY <1>0 DEF Connections, ToSet
  <2>2. ~Live(c)'
    BY <1>1, <1>2, <2>1 DEF Live, Connected
  <2> QED
    BY <1>0, <1>1, <1>4, <2>2, FlowBroken
<1>5. ASSUME NEW d \in Clients, NEW b, d # c, Flow(d, b) PROVE Flow(d, b)'
  <2>1. Live(d)' = Live(d) /\ inbox'[d] = inbox[d]
    BY <1>1, <1>2, <1>5 DEF Live, Connected
  <2> QED
    BY <1>1, <1>5, <2>1, FlowFrame
<1> QED
  BY <1>3, <1>4, <1>5

LEMMA WriteFrame ==
  ASSUME NetInv, EchoInv, NEW c \in Clients, NEW data \in Seq(Segments), Written(c, data)
  PROVE  EchoInv' /\ \A d \in Clients : \A b : d # c /\ Flow(d, b) => Flow(d, b)'
<1>1. /\ outbox' = [outbox EXCEPT ![c] = outbox[c] \o data]
      /\ UNCHANGED <<client, typed, wire, got, inbox, reset, backlog, fd, up>>
  BY DEF Written, clientVars
<1>2. outbox \in [Clients -> Seq(Segments)] /\ outbox[c] \o data \in Seq(Segments)
  BY ConcatProperties DEF EchoInv
<1>3. EchoInv'
  BY <1>1, <1>2 DEF EchoInv
<1>4. ASSUME NEW d \in Clients, NEW b, d # c, Flow(d, b) PROVE Flow(d, b)'
  <2>1. Live(d)' = Live(d) /\ outbox'[d] = outbox[d]
    BY <1>1, <1>2, <1>4 DEF Live, Connected
  <2> QED
    BY <1>1, <1>4, <2>1, FlowFrame
<1> QED
  BY <1>3, <1>4

(* write echoes the buffer to its own client. *)
LEMMA FlowWrite ==
  ASSUME NetInv, EchoInv, NEW c \in Clients, NEW data \in Seq(Segments), Written(c, data),
         Live(c), Flow(c, data)
  PROVE  Flow(c, <<>>)'
<1>0. NetTypes /\ <<>> \in Seq(Segments)
  BY EmptySeq DEF NetInv
<1>1. /\ outbox' = [outbox EXCEPT ![c] = outbox[c] \o data]
      /\ UNCHANGED <<client, typed, wire, got, inbox, reset, backlog, fd, up>>
  BY DEF Written, clientVars
<1>2. Live(c)' = Live(c) /\ Stream(c)' = Stream(c)
  BY <1>1 DEF Live, Connected, Typed, Stream
<1>3. PICK g \in Seq(Segments), o \in Seq(Segments), u \in Seq(Segments) :
        g = got[c] /\ o = outbox[c] /\ u = Cat(inbox[c], wire[c])
  BY <1>0, FlowTypes
<1>4. outbox'[c] = Cat(o, data)
  BY <1>1, <1>3 DEF EchoInv, Cat
<1>5. Cat(Cat(g, o), Cat(data, u)) = Cat(Cat(g, Cat(o, data)), Cat(<<>>, u))
  <2>1. PICK a \in Seq(Segments) : a = Cat(g, o)
    BY CatLaws
  <2>2. Cat(a, Cat(data, u)) = Cat(Cat(a, data), u)
    BY CatLaws
  <2>3. Cat(Cat(g, o), data) = Cat(g, Cat(o, data))
    BY CatLaws
  <2>4. Cat(<<>>, u) = u
    BY <1>0, CatLaws
  <2> QED
    BY <2>1, <2>2, <2>3, <2>4
<1> QED
  BY <1>1, <1>2, <1>3, <1>4, <1>5 DEF Flow

LEMMA FlowExit ==
  ASSUME NetInv, EchoInv, Exited
  PROVE  EchoInv' /\ \A d \in Clients : \A b \in Seq(Segments) : Flow(d, b) =>
                       (IF client[d] = "new" THEN Flow(d, b)' ELSE \A e : Flow(d, e)')
<1>0. NetTypes /\ Connections
  BY DEF NetInv
<1>1. /\ up' = FALSE /\ fd' = [c \in Clients |-> NoFd] /\ inbox' = [c \in Clients |-> <<>>]
      /\ backlog' = <<>> /\ reset' = {} /\ UNCHANGED <<client, typed, wire, got, outbox>>
  BY DEF Exited, clientVars
<1>2. EchoInv'
  BY <1>1 DEF EchoInv
<1>3. ASSUME NEW d \in Clients, NEW b \in Seq(Segments), Flow(d, b), client[d] = "new" PROVE Flow(d, b)'
  <2>1. d \notin reset /\ inbox[d] = <<>> /\ inbox'[d] = <<>>
    BY <1>1, <1>3 DEF EchoInv
  <2>2. Live(d) /\ Live(d)'
    BY <1>1, <1>3, <2>1 DEF Live
  <2> QED
    BY <1>1, <1>3, <2>1, <2>2, FlowFrame
<1>4. ASSUME NEW d \in Clients, NEW b \in Seq(Segments), NEW e, Flow(d, b), client[d] # "new" PROVE Flow(d, e)'
  <2>1. ~Live(d)'
    <3>1. ToSet(backlog') = {}
      BY <1>1 DEF ToSet
    <3> QED
      BY <1>1, <1>4, <3>1 DEF Live, Connected
  <2> QED
    BY <1>0, <1>1, <1>4, <2>1, FlowBroken
<1> QED
  BY <1>2, <1>3, <1>4
=============================================================================
