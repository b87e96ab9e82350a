----------------------------- MODULE PollServer -----------------------------
(***************************************************************************)
(* linux/socket/poll/server.cpp: the echo server of SelectServer with      *)
(* poll.  The connections are the entries 1..OPENMAX-1 of the array client *)
(* of struct pollfd, used up to index maxi; entry 0 is the listening       *)
(* socket.  poll fills in revents of the entries 0..maxi only, and nothing *)
(* else writes to it: an entry that was never polled holds whatever was on *)
(* the stack, which Init chooses.                                          *)
(***************************************************************************)
EXTENDS EchoNet, FiniteSetsExt

CONSTANT OPENMAX   \* OPEN_MAX: entries of client[]

ASSUME PollAssumption == OPENMAX \in Nat \ {0}

Slots == 1..(OPENMAX - 1)

VARIABLES
  slot,      \* client[].fd
  revents,   \* client[].revents & (POLLRDNORM | POLLERR) is not 0
  maxi, nready,
  pc,        \* poll, listen, scan, write or exit
  i,         \* loop index
  buf        \* buf[0..n-1]

serverVars == <<slot, revents, maxi, nready, pc, i, buf>>
vars == <<netVars, serverVars>>

Init ==
  /\ NetInit
  /\ slot = [s \in Slots |-> NoFd]
  /\ revents \in [Slots -> BOOLEAN]
  /\ maxi = 0 /\ nready = 0 /\ pc = "poll" /\ i = 1 /\ buf = <<>>

-----------------------------------------------------------------------------
(* Back to the top of the while loop, where nready and i are dead. *)
Again == pc' = "poll" /\ nready' = 0 /\ i' = 1

ReadySlots == {s \in 1..maxi : slot[s] # NoFd /\ Readable(Owner(slot[s]))}

(* poll blocks until an entry is ready; it clears revents of the entries   *)
(* whose fd is negative.  At "listen" entry 0 is among the ready ones.     *)
Poll ==
  /\ pc = "poll"
  /\ ReadySlots # {} \/ backlog # <<>>
  /\ revents' = [s \in Slots |-> IF s <= maxi THEN s \in ReadySlots ELSE revents[s]]
  /\ nready' = Cardinality(ReadySlots) + (IF backlog # <<>> THEN 1 ELSE 0)
  /\ pc' = IF backlog # <<>> THEN "listen" ELSE "scan"
  /\ UNCHANGED <<netVars, slot, maxi, i, buf>>

Exit ==
  /\ Exited
  /\ pc' = "exit"
  /\ UNCHANGED <<slot, revents, maxi, nready, i, buf>>

FreeSlots == {s \in Slots : slot[s] = NoFd}

(* Mutant: the new entry is put behind the used ones without maxi. *)
Accept_MaxiKept ==
  /\ pc = "listen"
  /\ FreeFds # {} /\ FreeSlots # {}
  /\ Accepted(Min(FreeFds))
  /\ slot' = [slot EXCEPT ![Min(FreeSlots)] = Min(FreeFds)]
  /\ maxi' = Max({maxi, 1})
  /\ pc' = "scan" /\ nready' = nready - 1
  /\ UNCHANGED <<revents, i, buf>>

(* The listening socket: accept, the first free entry, maxi. *)
Accept ==
  /\ pc = "listen"
  /\ FreeFds # {} /\ FreeSlots # {}
  /\ Accepted(Min(FreeFds))
  /\ slot' = [slot EXCEPT ![Min(FreeSlots)] = Min(FreeFds)]
  /\ maxi' = Max({maxi, Min(FreeSlots)})
  /\ IF nready - 1 < 0
     THEN Again
     ELSE pc' = "scan" /\ nready' = nready - 1 /\ UNCHANGED i
  /\ UNCHANGED <<revents, buf>>

(* accept fails for want of a descriptor, or there is no free entry. *)
AcceptFails ==
  /\ pc = "listen"
  /\ FreeFds = {} \/ FreeSlots = {}
  /\ Exit

(* The entries the for loop has still to act on. *)
Due == {s \in i..maxi : slot[s] # NoFd /\ revents[s]}

ScanEnds ==
  /\ pc = "scan"
  /\ Due = {}
  /\ Again
  /\ UNCHANGED <<netVars, slot, revents, maxi, buf>>

(* The loop goes on behind entry s, unless nready says all are done. *)
Continue(s) ==
  IF nready - 1 <= 0
  THEN Again
  ELSE pc' = "scan" /\ nready' = nready - 1 /\ i' = s + 1

(* Mutant: the entry of a closed connection stays in use. *)
ReadEnd_KeepsSlot ==
  /\ pc = "scan" /\ Due # {}
  /\ LET c == Owner(slot[Min(Due)])
     IN  Readable(c) /\ Received(c) = <<>> /\ Closed(c)
  /\ Continue(Min(Due))
  /\ UNCHANGED <<slot, revents, maxi, buf>>

(* read returns 0 or an error: the connection is closed.  Without data, an *)
(* end or an error to report the read blocks.                              *)
ReadEnd ==
  /\ pc = "scan" /\ Due # {}
  /\ LET c == Owner(slot[Min(Due)])
     IN  Readable(c) /\ Received(c) = <<>> /\ Closed(c)
  /\ slot' = [slot EXCEPT ![Min(Due)] = NoFd]
  /\ Continue(Min(Due))
  /\ UNCHANGED <<revents, maxi, buf>>

(* Mutant: what is left in buf from the previous client is echoed too. *)
ReadData_KeepsBuffer ==
  /\ pc = "scan" /\ Due # {}
  /\ LET c == Owner(slot[Min(Due)])
     IN  Received(c) # <<>> /\ Drained(c) /\ buf' = buf \o Received(c)
  /\ i' = Min(Due)
  /\ pc' = "write"
  /\ UNCHANGED <<slot, revents, maxi, nready>>

ReadData ==
  /\ pc = "scan" /\ Due # {}
  /\ LET c == Owner(slot[Min(Due)])
     IN  Received(c) # <<>> /\ Drained(c) /\ buf' = Received(c)
  /\ i' = Min(Due)
  /\ pc' = "write"
  /\ UNCHANGED <<slot, revents, maxi, nready>>

WriteEcho ==
  /\ pc = "write"
  /\ Owner(slot[i]) \notin reset
  /\ Written(Owner(slot[i]), buf)
  /\ Continue(i)
  /\ UNCHANGED <<slot, revents, maxi, buf>>

(* write fails on a connection that was reset: the loop is left, or        *)
(* SIGPIPE ends the process.                                               *)
WriteFails ==
  /\ pc = "write"
  /\ Owner(slot[i]) \in reset
  /\ \/ Again /\ UNCHANGED <<netVars, slot, revents, maxi, buf>>
     \/ Exit

ServerStep ==
  \/ Poll \/ Accept \/ AcceptFails \/ ScanEnds
  \/ ReadEnd \/ ReadData \/ WriteEcho \/ WriteFails

Next ==
  \/ \E c \in Clients : NetStep(c) /\ UNCHANGED serverVars
  \/ ServerStep

Spec == Init /\ [][Next]_vars

(* The server is one process the scheduler runs whenever it is not blocked. *)
FairSpec == Spec /\ NetFairness /\ WF_vars(ServerStep)

-----------------------------------------------------------------------------
(* The types; the used entries lie inside the array. *)
TypeOK ==
  /\ NetTypeOK
  /\ slot \in [Slots -> {NoFd} \cup ((ListenFd + 1)..(FdLimit - 1))]
  /\ revents \in [Slots -> BOOLEAN]
  /\ maxi \in 0..(OPENMAX - 1)
  /\ nready \in 0..OPENMAX
  /\ pc \in {"poll", "listen", "scan", "write", "exit"}
  /\ i \in 1..OPENMAX

(* The variables keep their types; every open connection has one entry,    *)
(* below maxi, and no entry names a closed descriptor.                     *)
TableConsistent ==
  /\ TypeOK
  /\ up =>
        /\ \A c \in Clients : fd[c] # NoFd =>
             /\ Cardinality({s \in Slots : slot[s] = fd[c]}) = 1
             /\ \E s \in 1..maxi : slot[s] = fd[c]
        /\ {slot[s] : s \in Slots} \ {NoFd} = OpenFds

(* "The events that actually happened" (the comment on the test of         *)
(* revents): an entry the loop takes for ready was reported ready by poll, *)
(* so the blocking read that follows has something to return.              *)
NeverBlocksInRead ==
  pc = "scan" /\ Due # {} => Readable(Owner(slot[Min(Due)]))

(* Each client gets its own lines back, in order, also through entries     *)
(* whose revents is garbage.                                               *)
EchoesOwnLines == \A c \in Clients : EchoesOwn(c)

(* The server sits in the read of an entry whose client has sent nothing. *)
BlockedInRead ==
  pc = "scan" /\ Due # {} /\ ~Readable(Owner(slot[Min(Due)]))

(* Every client that waits for a reply stops waiting, unless the server is *)
(* caught in a read of a silent connection, which is the only way in which *)
(* one client can hold up the others.                                      *)
ReplyComesUnlessBlocked ==
  \A c \in Clients : client[c] = "reply" ~> (client[c] # "reply" \/ BlockedInRead)
=============================================================================
