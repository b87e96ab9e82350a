---------------------------- MODULE SelectServer ----------------------------
(***************************************************************************)
(* linux/socket/select/server.cpp: an echo server that watches its         *)
(* connections with select.  It keeps them in the array slot (client in    *)
(* the code), the highest used index in maxi, the descriptors it watches   *)
(* in allset and the highest of them in maxfd.  A step of the server is a  *)
(* system call with the bookkeeping up to the next one.                    *)
(***************************************************************************)
EXTENDS EchoNet, FiniteSetsExt

CONSTANT FDSETSIZE   \* FD_SETSIZE: slots, and descriptors an fd_set can hold

(* The default descriptor limit is FD_SETSIZE; with a higher one FD_SET    *)
(* would write outside the set before the table is full.                   *)
ASSUME SelectAssumption == FDSETSIZE \in Nat /\ FdLimit <= FDSETSIZE

Slots == 0..(FDSETSIZE - 1)

VARIABLES
  slot,     \* client[]: a descriptor or NoFd
  maxi, maxfd, allset, rset, nready,
  pc,       \* select, listen, scan, write or exit
  i,        \* loop index
  buf       \* buf[0..n-1]

serverVars == <<slot, maxi, maxfd, allset, rset, nready, pc, i, buf>>
vars == <<netVars, serverVars>>

Init ==
  /\ NetInit
  /\ slot = [s \in Slots |-> NoFd]
  /\ maxi = -1
  /\ maxfd = ListenFd
  /\ allset = {ListenFd}
  /\ rset = {} /\ nready = 0 /\ pc = "select" /\ i = 0 /\ buf = <<>>

-----------------------------------------------------------------------------
ReadyFds ==
  {f \in allset : f <= maxfd /\ IF f = ListenFd THEN backlog # <<>> ELSE Readable(Owner(f))}

(* Back to the top of the while loop, where rset, nready and i are dead. *)
Again == pc' = "select" /\ rset' = {} /\ nready' = 0 /\ i' = 0

(* select blocks until a watched descriptor is ready. *)
Select ==
  /\ pc = "select"
  /\ ReadyFds # {}
  /\ rset' = ReadyFds
  /\ nready' = Cardinality(ReadyFds)
  /\ pc' = IF ListenFd \in ReadyFds THEN "listen" ELSE "scan"
  /\ UNCHANGED <<netVars, slot, maxi, maxfd, allset, i, buf>>

Exit ==
  /\ Exited
  /\ pc' = "exit"
  /\ UNCHANGED <<slot, maxi, maxfd, allset, rset, nready, i, buf>>

FreeSlots == {s \in Slots : slot[s] = NoFd}

(* connfd goes into slot s, into allset and below maxfd. *)
Register(s, connfd) ==
  /\ Accepted(connfd)
  /\ slot' = [slot EXCEPT ![s] = connfd]
  /\ allset' = allset \cup {connfd}
  /\ maxfd' = Max({maxfd, connfd})

(* Mutant: maxi is not raised for a new slot. *)
Accept_MaxiKept ==
  /\ pc = "listen"
  /\ FreeFds # {} /\ FreeSlots # {}
  /\ Register(Min(FreeSlots), Min(FreeFds))
  /\ maxi' = Max({maxi, 0})
  /\ pc' = "scan"
  /\ nready' = nready - 1
  /\ UNCHANGED <<rset, i, buf>>

(* The listening socket: accept, the first free slot, allset, maxfd, maxi. *)
Accept ==
  /\ pc = "listen"
  /\ FreeFds # {} /\ FreeSlots # {}
  /\ Register(Min(FreeSlots), Min(FreeFds))
  /\ maxi' = Max({maxi, Min(FreeSlots)})
  /\ IF nready - 1 < 0
     THEN Again
     ELSE pc' = "scan" /\ nready' = nready - 1 /\ UNCHANGED <<rset, i>>
  /\ UNCHANGED buf

(* accept fails for want of a descriptor, or there is no free slot. *)
AcceptFails ==
  /\ pc = "listen"
  /\ FreeFds = {} \/ FreeSlots = {}
  /\ Exit

(* Mutant: FD_ISSET is asked of allset. *)
Due_AllSet == {s \in i..maxi : slot[s] # NoFd /\ slot[s] \in allset}

(* The slots the for loop has still to act on. *)
Due == {s \in i..maxi : slot[s] # NoFd /\ slot[s] \in rset}

ScanEnds ==
  /\ pc = "scan"
  /\ Due = {}
  /\ Again
  /\ UNCHANGED <<netVars, slot, maxi, maxfd, allset, buf>>

(* The loop goes on behind slot s, unless every ready descriptor is done. *)
Continue(s) ==
  IF nready - 1 <= 0
  THEN Again
  ELSE pc' = "scan" /\ nready' = nready - 1 /\ i' = s + 1 /\ UNCHANGED rset

(* Mutant: the descriptor of a closed connection stays in allset. *)
ReadEnd_NoClear ==
  /\ pc = "scan" /\ Due # {}
  /\ LET s == Min(Due)
         c == Owner(slot[s])
     IN  /\ Readable(c) /\ Received(c) = <<>>
         /\ Closed(c)
         /\ slot' = [slot EXCEPT ![s] = NoFd]
         /\ Continue(s)
  /\ UNCHANGED <<maxi, maxfd, allset, buf>>

(* read returns 0 or an error: the connection is closed. *)
ReadEnd ==
  /\ pc = "scan" /\ Due # {}
  /\ LET s == Min(Due)
         c == Owner(slot[s])
     IN  /\ Readable(c) /\ Received(c) = <<>>
         /\ Closed(c)
         /\ allset' = allset \ {slot[s]}
         /\ slot' = [slot EXCEPT ![s] = NoFd]
         /\ Continue(s)
  /\ UNCHANGED <<maxi, maxfd, buf>>

(* Mutant: what is left in buf from the previous client is echoed too. *)
ReadData_KeepsBuffer ==
  /\ pc = "scan" /\ Due # {}
  /\ LET s == Min(Due)
         c == Owner(slot[s])
     IN  /\ Received(c) # <<>>
         /\ Drained(c)
         /\ buf' = buf \o Received(c)
         /\ i' = s
  /\ pc' = "write"
  /\ UNCHANGED <<slot, maxi, maxfd, allset, rset, nready>>

(* read returns data; with none it blocks, as Received is then empty. *)
ReadData ==
  /\ pc = "scan" /\ Due # {}
  /\ LET s == Min(Due)
         c == Owner(slot[s])
     IN  /\ Received(c) # <<>>
         /\ Drained(c)
         /\ buf' = Received(c)
         /\ i' = s
  /\ pc' = "write"
  /\ UNCHANGED <<slot, maxi, maxfd, allset, rset, nready>>

WriteEcho ==
  /\ pc = "write"
  /\ Owner(slot[i]) \notin reset
  /\ Written(Owner(slot[i]), buf)
  /\ Continue(i)
  /\ UNCHANGED <<slot, maxi, maxfd, allset, buf>>

(* write fails on a connection that was reset: the loop is left, or        *)
(* SIGPIPE ends the process.                                               *)
WriteFails ==
  /\ pc = "write"
  /\ Owner(slot[i]) \in reset
  /\ \/ Again /\ UNCHANGED <<netVars, slot, maxi, maxfd, allset, buf>>
     \/ Exit

ServerStep ==
  \/ Select \/ Accept \/ AcceptFails \/ ScanEnds
  \/ ReadEnd \/ ReadData \/ WriteEcho \/ WriteFails

Next ==
  \/ \E c \in Clients : NetStep(c) /\ UNCHANGED serverVars
  \/ ServerStep

Spec == Init /\ [][Next]_vars

(* The server is one process the scheduler runs whenever it is not blocked. *)
FairSpec == Spec /\ NetFairness /\ WF_vars(ServerStep)

-----------------------------------------------------------------------------
(* The types, every descriptor inside an fd_set. *)
TypeOK ==
  /\ NetTypeOK
  /\ slot \in [Slots -> {NoFd} \cup ((ListenFd + 1)..(FDSETSIZE - 1))]
  /\ maxi \in -1..(FDSETSIZE - 1)
  /\ maxfd \in Slots
  /\ allset \subseteq Slots /\ rset \subseteq Slots
  /\ nready \in 0..FDSETSIZE
  /\ pc \in {"select", "listen", "scan", "write", "exit"}
  /\ i \in 0..FDSETSIZE

(* The variables keep their types; the table, the set and the two marks    *)
(* agree on who is connected: every open connection has one slot, is       *)
(* watched and lies below both marks, and nothing else is watched.         *)
TableConsistent ==
  /\ TypeOK
  /\ up =>
        /\ \A c \in Clients : fd[c] # NoFd =>
             /\ Cardinality({s \in Slots : slot[s] = fd[c]}) = 1
             /\ \E s \in 0..maxi : slot[s] = fd[c]
             /\ fd[c] <= maxfd
        /\ allset = OpenFds \cup {ListenFd}
        /\ {slot[s] : s \in Slots} \ {NoFd} = OpenFds

(* The server never blocks outside select: what select reported readable   *)
(* is still readable when the loop comes to it, although descriptors are   *)
(* reused and slots refilled in between.                                   *)
NeverBlocksInRead ==
  pc = "scan" /\ Due # {} => Readable(Owner(slot[Min(Due)]))

(* Each client gets its own lines back, in order, whoever is served in     *)
(* the same round through the same buffer.                                 *)
EchoesOwnLines == \A c \in Clients : EchoesOwn(c)

(* Every client that waits for a reply stops waiting, whatever the others  *)
(* do: the round-robin over ready descriptors starves nobody.              *)
ReplyComes == \A c \in Clients : client[c] = "reply" ~> client[c] # "reply"
=============================================================================
