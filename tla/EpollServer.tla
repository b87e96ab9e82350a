----------------------------- MODULE EpollServer -----------------------------
(***************************************************************************)
(* linux/socket/epoll/server.cpp: an echo server on one edge-triggered     *)
(* epoll instance.  All sockets are non-blocking.  A connection is watched *)
(* for input until a read has filled the one buffer of the process, and    *)
(* then for output until the buffer has been written back.                 *)
(*                                                                         *)
(* Of the kernel: a descriptor enters the ready list when an event of its  *)
(* mask occurs, or when epoll_ctl finds one pending; epoll_wait returns    *)
(* what is still ready, in any order, and, being edge-triggered, forgets   *)
(* it.                                                                     *)
(***************************************************************************)
EXTENDS EchoNet, FiniteSetsExt

VARIABLES
  mask,     \* registered descriptors and what they are watched for
  rdlist,   \* the ready list
  batch,    \* events[i..nfds-1]
  buf,      \* buf[0..n-1], <<>> if the last read returned n <= 0
  batched,  \* some epoll_wait has returned several events
  broke     \* some write has failed

serverVars == <<mask, rdlist, batch, buf, batched, broke>>
vars == <<netVars, serverVars>>

Init ==
  /\ NetInit
  /\ mask = [f \in {ListenFd} |-> "in"]
  /\ rdlist = {} /\ batch = <<>> /\ buf = <<>>
  /\ batched = FALSE /\ broke = FALSE

-----------------------------------------------------------------------------
(* The ready list *)

(* A connection or input arrives while the descriptor is watched for it; a *)
(* FIN and an RST change the socket's state, which counts for every mask.  *)
Edge ==
  LET new == IF Len(backlog') > Len(backlog) THEN {ListenFd} ELSE {}
      hit == {c \in Clients : /\ fd[c] # NoFd
                              /\ \/ /\ inbox'[c] # inbox[c]
                                    /\ mask[fd[c]] = "in" \/ Last(inbox'[c]) = Fin(c)
                                 \/ c \in reset' \ reset}
  IN  rdlist' = rdlist \cup new \cup {fd[c] : c \in hit}

Pending(f) ==
  IF f = ListenFd THEN backlog # <<>> ELSE mask[f] = "out" \/ Readable(Owner(f))

(* epoll_ctl watches f for ev and queues it if that is pending already. *)
Watch(f, ev, pending) ==
  /\ mask' = [g \in DOMAIN mask \cup {f} |-> IF g = f THEN ev ELSE mask[g]]
  /\ rdlist' = IF pending THEN rdlist \cup {f} ELSE rdlist

-----------------------------------------------------------------------------
(* epoll_wait: blocks until something in the ready list is still ready. *)
EpollWait ==
  /\ up
  /\ batch = <<>>
  /\ \E ready \in SetToSeqs({f \in rdlist : Pending(f)}) :
       /\ ready # <<>>
       /\ batch' = [k \in DOMAIN ready |-> [fd |-> ready[k], ev |-> mask[ready[k]]]]
       /\ batched' = (batched \/ Len(ready) > 1)
  /\ rdlist' = {}
  /\ UNCHANGED <<netVars, mask, buf, broke>>

Is(f) == batch # <<>> /\ Head(batch).fd = f
Event(ev) == batch # <<>> /\ Head(batch).fd # ListenFd /\ Head(batch).ev = ev
Peer == Owner(Head(batch).fd)

Exit ==
  /\ Exited
  /\ batch' = <<>>
  /\ mask' = <<>>
  /\ rdlist' = {}
  /\ buf' = <<>>
  /\ UNCHANGED <<batched, broke>>

(* Mutant: the new connection is registered without a look at what has     *)
(* arrived already.                                                        *)
Accept_NoRecheck ==
  /\ Is(ListenFd) /\ backlog # <<>> /\ FreeFds # {}
  /\ Accepted(Min(FreeFds))
  /\ Watch(Min(FreeFds), "in", FALSE)
  /\ batch' = Tail(batch)
  /\ UNCHANGED <<buf, batched, broke>>

(* The listening socket: one accept, and the connection is watched. *)
Accept ==
  /\ Is(ListenFd) /\ backlog # <<>> /\ FreeFds # {}
  /\ Accepted(Min(FreeFds))
  /\ Watch(Min(FreeFds), "in", inbox[Head(backlog)] # <<>>)
  /\ batch' = Tail(batch)
  /\ UNCHANGED <<buf, batched, broke>>

(* accept fails: no descriptor left, or nobody to accept. *)
AcceptFails ==
  /\ Is(ListenFd) /\ (backlog = <<>> \/ FreeFds = {})
  /\ Exit

(* EPOLLIN: read, and watch for output. *)
ReadData ==
  /\ Event("in")
  /\ Received(Peer) # <<>>
  /\ Drained(Peer)
  /\ buf' = Received(Peer)
  /\ Watch(Head(batch).fd, "out", TRUE)
  /\ batch' = Tail(batch)
  /\ UNCHANGED <<batched, broke>>

(* Mutant: the connection leaves the epoll instance but is not closed. *)
ReadEnd_NotClosed ==
  /\ Event("in")
  /\ Received(Peer) = <<>>
  /\ buf' = <<>>
  /\ mask' = [f \in DOMAIN mask \ {Head(batch).fd} |-> mask[f]]
  /\ rdlist' = rdlist \ {Head(batch).fd}
  /\ batch' = Tail(batch)
  /\ UNCHANGED <<netVars, batched, broke>>

(* EPOLLIN: read returns 0 or an error, the connection is closed, which    *)
(* takes it out of the epoll instance.                                     *)
ReadEnd ==
  /\ Event("in")
  /\ Received(Peer) = <<>>
  /\ Closed(Peer)
  /\ buf' = <<>>
  /\ mask' = [f \in DOMAIN mask \ {Head(batch).fd} |-> mask[f]]
  /\ rdlist' = rdlist \ {Head(batch).fd}
  /\ batch' = Tail(batch)
  /\ UNCHANGED <<batched, broke>>

(* Mutant: after the write the descriptor stays watched for output. *)
WriteEcho_StaysOut ==
  /\ Event("out")
  /\ Peer \notin reset \/ buf = <<>>
  /\ Written(Peer, buf)
  /\ UNCHANGED <<mask, rdlist>>
  /\ batch' = Tail(batch)
  /\ UNCHANGED <<buf, batched, broke>>

(* Mutant: the buffer is written once for every reader waiting. *)
WriteEcho_Twice ==
  /\ Event("out")
  /\ Peer \notin reset \/ buf = <<>>
  /\ Written(Peer, buf \o buf)
  /\ Watch(Head(batch).fd, "in", Readable(Peer))
  /\ batch' = Tail(batch)
  /\ UNCHANGED <<buf, batched, broke>>

(* EPOLLOUT: write n bytes of buf, and watch for input.  With n <= 0 there *)
(* is nothing to write, and what write returns may pass for success.       *)
WriteEcho ==
  /\ Event("out")
  /\ Peer \notin reset \/ buf = <<>>
  /\ Written(Peer, buf)
  /\ Watch(Head(batch).fd, "in", Readable(Peer))
  /\ batch' = Tail(batch)
  /\ UNCHANGED <<buf, batched, broke>>

(* The write fails on a connection that was reset: the rest of the batch   *)
(* is dropped, or SIGPIPE ends the process.                                *)
WriteFails ==
  /\ Event("out")
  /\ Peer \in reset
  /\ \/ /\ batch' = <<>>
        /\ broke' = TRUE
        /\ UNCHANGED <<netVars, mask, rdlist, buf, batched>>
     \/ Exit

ServerStep ==
  \/ EpollWait \/ Accept \/ AcceptFails \/ ReadData \/ ReadEnd
  \/ WriteEcho \/ WriteFails

Next ==
  \/ \E c \in Clients : NetStep(c) /\ Edge /\ UNCHANGED <<mask, batch, buf, batched, broke>>
  \/ ServerStep

Spec == Init /\ [][Next]_vars

(* The server is one process the scheduler runs whenever it is not blocked. *)
FairSpec == Spec /\ NetFairness /\ WF_vars(ServerStep)

-----------------------------------------------------------------------------
(* The types; exactly the open connections are registered. *)
TypeOK ==
  /\ NetTypeOK
  /\ up => DOMAIN mask = OpenFds \cup {ListenFd}
  /\ \A f \in DOMAIN mask : mask[f] \in {"in", "out"}
  /\ rdlist \subseteq DOMAIN mask
  /\ \A k \in DOMAIN batch : batch[k].fd \in DOMAIN mask
  /\ batched \in BOOLEAN /\ broke \in BOOLEAN

Noticed(f) == f \in rdlist \/ \E k \in DOMAIN batch : batch[k].fd = f

(* Edge triggering forgets no connection: as long as no write has failed,  *)
(* whoever has input the server has not read, or an echo it has not        *)
(* written, is in the ready list or in the batch being worked on.          *)
NoEdgeLost ==
  up /\ ~broke =>
    \A c \in Clients : fd[c] # NoFd /\ (mask[fd[c]] = "out" \/ Readable(c)) => Noticed(fd[c])

(* The one buffer of the process mixes up clients only through a batch of  *)
(* several events: as long as every epoll_wait returned one event, each    *)
(* client gets its own lines back, in order.                               *)
EchoesOwnUnlessBatched == ~batched => \A c \in Clients : EchoesOwn(c)

(* An accepted client that waits for a reply stops waiting, unless a batch *)
(* of several events has overwritten the buffer or a failed write has      *)
(* dropped events.                                                         *)
ReplyComesUnlessMixed ==
  \A c \in Clients :
    (client[c] = "reply" /\ fd[c] # NoFd) ~> (client[c] # "reply" \/ batched \/ broke)
=============================================================================
