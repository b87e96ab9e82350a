---------------------------- MODULE MtEpollServer ----------------------------
(***************************************************************************)
(* linux/socket/epoll/muti_thread_epoll.cpp: an echo server of several     *)
(* threads, each with an edge-triggered epoll instance of its own and the  *)
(* blocking listening socket in common.  A connection belongs to the       *)
(* thread that accepted it.                                                *)
(*                                                                         *)
(* Of the kernel: a new connection puts the listening descriptor on the    *)
(* ready list of every instance (the thundering herd the comment in main   *)
(* is about); epoll_wait returns what is still ready, in any order, and    *)
(* forgets it; a thread whose accept finds nobody blocks there until the   *)
(* next connection.                                                        *)
(***************************************************************************)
EXTENDS EchoNet, FiniteSetsExt

CONSTANTS
  Threads,   \* the worker threads (four in the code)
  BufSegs    \* segments one read can take (sizeof(buf) is half a line)

ASSUME MtAssumption == IsFiniteSet(Threads) /\ Threads # {} /\ BufSegs \in Nat \ {0}

VARIABLES
  reg,       \* descriptors registered with each instance
  rdlist,    \* ready list of each instance
  batch,     \* events[i..n-1] of each thread
  buf,       \* what its last read returned and it has not written
  del,       \* descriptor it has closed and is about to deregister
  cut,       \* clients a read of whom has left something behind
  crowded    \* more connections than threads have waited, or accept failed

threadVars == <<reg, rdlist, batch, buf, del>>
vars == <<netVars, threadVars, cut, crowded>>

Init ==
  /\ NetInit
  /\ reg = [t \in Threads |-> {ListenFd}]
  /\ rdlist = [t \in Threads |-> {}]
  /\ batch = [t \in Threads |-> <<>>]
  /\ buf = [t \in Threads |-> <<>>]
  /\ del = [t \in Threads |-> NoFd]
  /\ cut = {}
  /\ crowded = FALSE

-----------------------------------------------------------------------------
(* The ready lists *)

(* Mutant: only one instance learns of a connection (EPOLLEXCLUSIVE). *)
Edge_One ==
  rdlist' =
    LET new == Len(backlog') > Len(backlog)
        hit == {fd[c] : c \in {d \in Clients : inbox'[d] # inbox[d] \/ d \in reset' \ reset}} \ {NoFd}
    IN  [t \in Threads |-> rdlist[t] \cup (hit \cap reg[t])
                            \cup (IF new /\ t = CHOOSE u \in Threads : TRUE THEN {ListenFd} ELSE {})]

(* A connection, input, a FIN or an RST arrives. *)
Edge ==
  rdlist' =
    LET new == Len(backlog') > Len(backlog)
        hit == {fd[c] : c \in {d \in Clients : inbox'[d] # inbox[d] \/ d \in reset' \ reset}} \ {NoFd}
    IN  [t \in Threads |-> rdlist[t] \cup (hit \cap reg[t]) \cup (IF new THEN {ListenFd} ELSE {})]

Pending(f) == IF f = ListenFd THEN backlog # <<>> ELSE Readable(Owner(f))

-----------------------------------------------------------------------------
(* worker_thread *)

Working(t) == batch[t] # <<>> /\ buf[t] = <<>> /\ del[t] = NoFd
Listening(t) == Working(t) /\ Head(batch[t]) = ListenFd
Reading(t) == Working(t) /\ Head(batch[t]) # ListenFd
Peer(t) == Owner(Head(batch[t]))
NextEvent(t) == batch' = [batch EXCEPT ![t] = Tail(@)]

EpollWait(t) ==
  /\ up
  /\ batch[t] = <<>>
  /\ \E ready \in SetToSeqs({f \in rdlist[t] : Pending(f)}) :
       ready # <<>> /\ batch' = [batch EXCEPT ![t] = ready]
  /\ rdlist' = [rdlist EXCEPT ![t] = {}]
  /\ UNCHANGED <<netVars, reg, buf, del, cut, crowded>>

(* Mutant: input that came before the registration raises no event. *)
Accept_NoRecheck(t) ==
  /\ Listening(t)
  /\ backlog # <<>> /\ FreeFds # {}
  /\ Accepted(Min(FreeFds))
  /\ reg' = [reg EXCEPT ![t] = @ \cup {Min(FreeFds)}]
  /\ NextEvent(t)
  /\ UNCHANGED <<rdlist, buf, del, cut, crowded>>

(* accept returns a connection, which is registered.  While nobody waits,  *)
(* the thread is blocked.                                                  *)
Accept(t) ==
  /\ Listening(t)
  /\ backlog # <<>> /\ FreeFds # {}
  /\ Accepted(Min(FreeFds))
  /\ reg' = [reg EXCEPT ![t] = @ \cup {Min(FreeFds)}]
  /\ rdlist' = IF inbox[Head(backlog)] = <<>> THEN rdlist
               ELSE [rdlist EXCEPT ![t] = @ \cup {Min(FreeFds)}]
  /\ NextEvent(t)
  /\ UNCHANGED <<buf, del, cut, crowded>>

(* accept returns a connection that epoll_ctl cannot register: closed. *)
AcceptUnwatched(t) ==
  /\ Listening(t)
  /\ backlog # <<>> /\ FreeFds # {}
  /\ Discarded
  /\ NextEvent(t)
  /\ UNCHANGED <<reg, rdlist, buf, del, cut, crowded>>

(* Mutant: the accept that failed is tried again at once. *)
AcceptFails_Retries(t) ==
  /\ Listening(t)
  /\ FreeFds = {}
  /\ crowded' = TRUE
  /\ UNCHANGED <<netVars, threadVars, cut>>

(* accept fails: no descriptor is left. *)
AcceptFails(t) ==
  /\ Listening(t)
  /\ FreeFds = {}
  /\ crowded' = TRUE
  /\ NextEvent(t)
  /\ UNCHANGED <<netVars, reg, rdlist, buf, del, cut>>

(* read: one buffer full of what has arrived; an error or the rest stays. *)
Read(t) ==
  /\ Reading(t)
  /\ Received(Peer(t)) # <<>>
  /\ LET c == Peer(t)
         n == Min({BufSegs, Len(Received(c))})
         rest == SubSeq(inbox[c], n + 1, Len(inbox[c]))
     IN  /\ buf' = [buf EXCEPT ![t] = SubSeq(Received(c), 1, n)]
         /\ inbox' = [inbox EXCEPT ![c] = rest]
         /\ cut' = IF rest = <<>> /\ c \notin reset THEN cut ELSE cut \cup {c}
  /\ UNCHANGED <<clientVars, outbox, reset, backlog, fd, up, reg, rdlist, batch, del, crowded>>

(* Mutant: the data goes to the connection of the first event. *)
Write_First(t) ==
  /\ buf[t] # <<>>
  /\ Peer(t) \notin reset
  /\ Written(Owner(Min(OpenFds)), buf[t])
  /\ buf' = [buf EXCEPT ![t] = <<>>]
  /\ NextEvent(t)
  /\ UNCHANGED <<reg, rdlist, del, cut, crowded>>

(* Mutant: read and write until there is nothing left to read. *)
Write_Again(t) ==
  /\ buf[t] # <<>>
  /\ Peer(t) \notin reset
  /\ Written(Peer(t), buf[t])
  /\ buf' = [buf EXCEPT ![t] = <<>>]
  /\ UNCHANGED <<batch, reg, rdlist, del, cut, crowded>>

Write(t) ==
  /\ buf[t] # <<>>
  /\ Peer(t) \notin reset
  /\ Written(Peer(t), buf[t])
  /\ buf' = [buf EXCEPT ![t] = <<>>]
  /\ NextEvent(t)
  /\ UNCHANGED <<reg, rdlist, del, cut, crowded>>

(* A write to a connection that was reset fails, which nobody looks at, or *)
(* SIGPIPE ends the process.                                               *)
WriteFails(t) ==
  /\ buf[t] # <<>>
  /\ Peer(t) \in reset
  /\ buf' = [buf EXCEPT ![t] = <<>>]
  /\ NextEvent(t)
  /\ UNCHANGED <<netVars, reg, rdlist, del, cut, crowded>>

SigPipe(t) ==
  /\ buf[t] # <<>>
  /\ Peer(t) \in reset
  /\ Exited
  /\ reg' = [u \in Threads |-> {}]
  /\ rdlist' = [u \in Threads |-> {}]
  /\ batch' = [u \in Threads |-> <<>>]
  /\ buf' = [u \in Threads |-> <<>>]
  /\ del' = [u \in Threads |-> NoFd]
  /\ UNCHANGED <<cut, crowded>>

(* read returns 0 or an error: close, which ends the registration ... *)
ReadEnd(t) ==
  /\ Reading(t)
  /\ Readable(Peer(t)) /\ Received(Peer(t)) = <<>>
  /\ Closed(Peer(t))
  /\ LET f == Head(batch[t])
     IN  /\ reg' = [reg EXCEPT ![t] = @ \ {f}]
         /\ rdlist' = [rdlist EXCEPT ![t] = @ \ {f}]
         /\ del' = [del EXCEPT ![t] = f]
  /\ UNCHANGED <<batch, buf, cut, crowded>>

(* Mutant: the threads share one epoll instance. *)
Deregister_Shared(t) ==
  /\ del[t] # NoFd
  /\ reg' = [u \in Threads |-> reg[u] \ {del[t]}]
  /\ del' = [del EXCEPT ![t] = NoFd]
  /\ NextEvent(t)
  /\ UNCHANGED <<netVars, rdlist, buf, cut, crowded>>

(* ... and then EPOLL_CTL_DEL of a number another thread may have got.     *)
Deregister(t) ==
  /\ del[t] # NoFd
  /\ reg' = [reg EXCEPT ![t] = @ \ {del[t]}]
  /\ del' = [del EXCEPT ![t] = NoFd]
  /\ NextEvent(t)
  /\ UNCHANGED <<netVars, rdlist, buf, cut, crowded>>

ThreadStep(t) ==
  \/ EpollWait(t) \/ Accept(t) \/ AcceptUnwatched(t) \/ AcceptFails(t) \/ Read(t)
  \/ Write(t) \/ WriteFails(t) \/ SigPipe(t) \/ ReadEnd(t) \/ Deregister(t)

NetworkStep(c) ==
  /\ NetStep(c)
  /\ Edge
  /\ crowded' = (crowded \/ Len(backlog') > Cardinality(Threads))
  /\ UNCHANGED <<reg, batch, buf, del, cut>>

Next == (\E c \in Clients : NetworkStep(c)) \/ (\E t \in Threads : ThreadStep(t))

Spec == Init /\ [][Next]_vars

(* The kernel runs every thread that is not blocked. *)
FairSpec == Spec /\ NetFairness /\ \A t \in Threads : WF_vars(ThreadStep(t))

-----------------------------------------------------------------------------
TypeOK ==
  /\ NetTypeOK
  /\ \A t \in Threads :
       /\ reg[t] \subseteq ListenFd..(FdLimit - 1)
       /\ rdlist[t] \subseteq reg[t]
       /\ del[t] = NoFd => ToSet(batch[t]) \subseteq reg[t]
       /\ del[t] \in {NoFd} \cup (ListenFd + 1)..(FdLimit - 1)
  /\ cut \subseteq Clients /\ crowded \in BOOLEAN

(* The variables keep their types; every open connection is registered     *)
(* with exactly one instance, though descriptors are closed, handed out    *)
(* again and deregistered by different threads.                            *)
ServedByOne ==
  /\ TypeOK
  /\ \A f \in OpenFds : \E t \in Threads : \A u \in Threads : f \in reg[u] <=> u = t

Noticed(t, f) == f \in rdlist[t] \cup ToSet(batch[t])

(* A connection with unread input is in the ready list or the batch of its *)
(* thread, unless a read has left something behind: there is one read per  *)
(* edge and its buffer is smaller than a line.                             *)
NoEdgeLost ==
  \A c \in Clients : Readable(c) /\ c \notin cut => \E t \in Threads : fd[c] \in reg[t] /\ Noticed(t, fd[c])

(* As long as no more connections than threads have waited at once, there  *)
(* are no more waiting connections than threads going to accept, a thread  *)
(* counted once for its batch and once more if its instance is alerted.    *)
BacklogNoticed ==
  ~crowded => Len(backlog) <= Cardinality({t \in Threads : Listening(t)})
                              + Cardinality({t \in Threads : ListenFd \in rdlist[t]})
                              + Cardinality({t \in Threads : ~Listening(t) /\ ListenFd \in ToSet(batch[t])})

(* No thread blocks in read, although the connections are blocking. *)
NeverBlocksInRead == \A t \in Threads : Reading(t) => Readable(Peer(t))

(* Each client gets its own lines back, in order, whichever threads run. *)
EchoesOwnLines == \A c \in Clients : EchoesOwn(c)

Server(c) == CHOOSE t \in Threads : fd[c] \in reg[t]

(* The thread of c blocks in accept. *)
Caught(c) == fd[c] # NoFd /\ Listening(Server(c)) /\ backlog = <<>> /\ FreeFds # {}

(* An accepted client that waits for a reply stops waiting, unless a read  *)
(* left something behind or its thread is caught in accept for good.       *)
ReplyComesUnlessCaught ==
  \A c \in Clients :
    []<>~Caught(c) => ((client[c] = "reply" /\ fd[c] # NoFd) ~> (client[c] # "reply" \/ c \in cut))
=============================================================================
