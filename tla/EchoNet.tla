------------------------------ MODULE EchoNet ------------------------------
(***************************************************************************)
(* The environment of the echo servers under linux/socket: the clients     *)
(* (client.cpp, the same program in select/, poll/ and epoll/) and the TCP *)
(* connections between them and the server.  A server module extends this  *)
(* one with the variables and steps of its server.cpp.                     *)
(*                                                                         *)
(* A line a client types travels as one or more segments, each marked with *)
(* its owner, the number of the line and its place in the line; the last   *)
(* one carries the newline that ends the client's readline.  The kernel    *)
(* side is external: it is modelled by what the calls of the server and of *)
(* the client rely on.                                                     *)
(***************************************************************************)
EXTENDS Integers, Sequences, FiniteSets, SequencesExt

CONSTANTS
  Clients,    \* client processes
  Lines,      \* how many lines each client may type (bound)
  Segs,       \* segments TCP cuts a line of each client into
  Killable,   \* clients that may be killed while they wait for a reply
  FdLimit     \* the server's descriptors are 0..FdLimit-1 (RLIMIT_NOFILE)

ListenFd == 3             \* 0, 1 and 2 are the standard streams
NoFd == -1

ASSUME NetAssumption ==
  /\ IsFiniteSet(Clients)
  /\ Lines \in [Clients -> Nat]
  /\ Segs \in [Clients -> Nat \ {0}]
  /\ Killable \subseteq Clients
  /\ FdLimit \in Nat /\ FdLimit > ListenFd

VARIABLES
  client,    \* where each client process is: new, prompt, reply, gone
  typed,     \* lines each client has written
  wire,      \* segments on their way to the server
  inbox,     \* segments in the receive queue of the server's socket
  outbox,    \* segments the server wrote, not yet read by the client
  got,       \* segments each client has read
  reset,     \* connections the server has received an RST for
  backlog,   \* connected clients the server has not accepted
  fd,        \* descriptor of the accepted connection, or NoFd
  up         \* the server process runs

clientVars == <<client, typed, wire, got>>
socketVars == <<inbox, outbox, reset, backlog, fd, up>>
netVars == <<clientVars, socketVars>>

Segment(c, k, s) == [from |-> c, line |-> k, seg |-> s]
Fin(c) == Segment(c, 0, 0)      \* the end of c's stream
LineOf(c, k) == [s \in 1..Segs[c] |-> Segment(c, k, s)]
LastSeg(x) == x.seg = Segs[x.from]
Connected(c) == fd[c] # NoFd \/ c \in ToSet(backlog)

NetInit ==
  /\ client = [c \in Clients |-> "new"]
  /\ typed = [c \in Clients |-> 0]
  /\ wire = [c \in Clients |-> <<>>]
  /\ inbox = [c \in Clients |-> <<>>]
  /\ outbox = [c \in Clients |-> <<>>]
  /\ got = [c \in Clients |-> <<>>]
  /\ reset = {}
  /\ backlog = <<>>
  /\ fd = [c \in Clients |-> NoFd]
  /\ up = TRUE

-----------------------------------------------------------------------------
(* The client: client.cpp *)

(* main: socket and connect; the kernel completes the handshake. *)
Connect(c) ==
  /\ client[c] = "new"
  /\ up
  /\ client' = [client EXCEPT ![c] = "prompt"]
  /\ backlog' = Append(backlog, c)
  /\ UNCHANGED <<typed, wire, inbox, outbox, got, reset, fd, up>>

(* str_cli: fgets returns a line, which is written to the socket. *)
SendLine(c) ==
  /\ client[c] = "prompt"
  /\ typed[c] < Lines[c]
  /\ typed' = [typed EXCEPT ![c] = @ + 1]
  /\ wire' = [wire EXCEPT ![c] = @ \o LineOf(c, typed[c] + 1)]
  /\ client' = [client EXCEPT ![c] = "reply"]
  /\ UNCHANGED <<inbox, outbox, got, reset, backlog, fd, up>>

(* str_cli: readline takes the reply byte by byte up to the newline. *)
ReadLine(c) ==
  /\ client[c] = "reply"
  /\ outbox[c] # <<>>
  /\ got' = [got EXCEPT ![c] = Append(@, Head(outbox[c]))]
  /\ outbox' = [outbox EXCEPT ![c] = Tail(@)]
  /\ client' = [client EXCEPT ![c] = IF LastSeg(Head(outbox[c])) THEN "prompt" ELSE @]
  /\ UNCHANGED <<typed, wire, inbox, reset, backlog, fd, up>>

(* The client's process ends and its kernel sends a FIN. *)
Leave(c) ==
  /\ client' = [client EXCEPT ![c] = "gone"]
  /\ wire' = [wire EXCEPT ![c] = Append(@, Fin(c))]
  /\ UNCHANGED <<typed, inbox, outbox, got, reset, backlog, fd, up>>

(* str_cli: fgets returns NULL, main exits. *)
Quit(c) == client[c] = "prompt" /\ Leave(c)

(* str_cli: the server is gone or has closed the connection.  readline     *)
(* returns 0 and the client exits, or it returns -1 or part of a line,     *)
(* which is printed like any reply.                                        *)
ServerTerminated(c) ==
  /\ client[c] = "reply"
  /\ outbox[c] = <<>>
  /\ ~Connected(c)
  /\ \/ Leave(c)
     \/ /\ client' = [client EXCEPT ![c] = "prompt"]
        /\ UNCHANGED <<typed, wire, inbox, outbox, got, reset, backlog, fd, up>>

(* The client is killed while it waits for a reply (at the prompt, that is *)
(* no different from leaving).                                             *)
Kill(c) ==
  /\ c \in Killable
  /\ client[c] = "reply"
  /\ Leave(c)

-----------------------------------------------------------------------------
(* The network and the server's kernel *)

(* The next segment, or the FIN, reaches the server's socket. *)
Arrive(c) ==
  /\ wire[c] # <<>>
  /\ Connected(c)
  /\ inbox' = [inbox EXCEPT ![c] = Append(@, Head(wire[c]))]
  /\ wire' = [wire EXCEPT ![c] = Tail(@)]
  /\ UNCHANGED <<client, typed, outbox, got, reset, backlog, fd, up>>

(* Data that nobody will read has reached a closed client: its kernel      *)
(* answers with an RST.                                                    *)
ResetArrives(c) ==
  /\ client[c] = "gone"
  /\ outbox[c] # <<>>
  /\ fd[c] # NoFd
  /\ c \notin reset
  /\ reset' = reset \cup {c}
  /\ UNCHANGED <<client, typed, wire, inbox, outbox, got, backlog, fd, up>>

NetStep(c) ==
  \/ Connect(c) \/ SendLine(c) \/ ReadLine(c) \/ Quit(c) \/ ServerTerminated(c) \/ Kill(c)
  \/ Arrive(c) \/ ResetArrives(c)

(* TCP delivers, and a client that can read its reply does; what a user    *)
(* types, and when, is not forced.                                         *)
NetFairness ==
  \A c \in Clients : /\ WF_netVars(Arrive(c))
                     /\ WF_netVars(ReadLine(c) \/ ServerTerminated(c))

-----------------------------------------------------------------------------
(* The system calls of the servers, as seen by a server step. *)

Readable(c) == fd[c] # NoFd /\ (inbox[c] # <<>> \/ c \in reset)
Owner(f) == CHOOSE c \in Clients : fd[c] = f
OpenFds == {fd[c] : c \in Clients} \ {NoFd}
FreeFds == ((ListenFd + 1)..(FdLimit - 1)) \ OpenFds

(* accept: the oldest pending connection gets the lowest free descriptor. *)
Accepted(f) ==
  /\ backlog' = Tail(backlog)
  /\ fd' = [fd EXCEPT ![Head(backlog)] = f]
  /\ UNCHANGED <<clientVars, inbox, outbox, reset, up>>

(* accept, and close at once. *)
Discarded ==
  /\ backlog' = Tail(backlog)
  /\ inbox' = [inbox EXCEPT ![Head(backlog)] = <<>>]
  /\ UNCHANGED <<clientVars, outbox, reset, fd, up>>

(* The client has sent a FIN, and it has arrived behind everything else. *)
Ended(c) == inbox[c] # <<>> /\ Last(inbox[c]) = Fin(c)

(* read: everything that has arrived before a FIN; <<>> stands for n <= 0, *)
(* the end of the stream or an error.                                      *)
Received(c) == IF Ended(c) THEN Front(inbox[c]) ELSE inbox[c]

Drained(c) ==
  /\ inbox' = [inbox EXCEPT ![c] = IF Ended(c) THEN <<Fin(c)>> ELSE <<>>]
  /\ UNCHANGED <<clientVars, outbox, reset, backlog, fd, up>>

Closed(c) ==
  /\ fd' = [fd EXCEPT ![c] = NoFd]
  /\ inbox' = [inbox EXCEPT ![c] = <<>>]
  /\ reset' = reset \ {c}
  /\ UNCHANGED <<clientVars, outbox, backlog, up>>

Written(c, data) ==
  /\ outbox' = [outbox EXCEPT ![c] = @ \o data]
  /\ UNCHANGED <<clientVars, inbox, reset, backlog, fd, up>>

(* exit(1), or death by SIGPIPE: the kernel closes every descriptor. *)
Exited ==
  /\ up' = FALSE
  /\ fd' = [c \in Clients |-> NoFd]
  /\ inbox' = [c \in Clients |-> <<>>]
  /\ backlog' = <<>>
  /\ reset' = {}
  /\ UNCHANGED <<clientVars, outbox>>

-----------------------------------------------------------------------------
NetTypeOK ==
  /\ client \in [Clients -> {"new", "prompt", "reply", "gone"}]
  /\ \A c \in Clients : typed[c] \in 0..Lines[c]
  /\ \A c \in Clients : fd[c] = NoFd \/ fd[c] \in (ListenFd + 1)..(FdLimit - 1)
  /\ reset \subseteq Clients
  /\ ToSet(backlog) \subseteq Clients
  /\ up \in BOOLEAN

-----------------------------------------------------------------------------
(* Every segment a client has written, in order. *)
Typed(c) ==
  [j \in 1..(typed[c] * Segs[c]) |->
     Segment(c, ((j - 1) \div Segs[c]) + 1, ((j - 1) % Segs[c]) + 1)]

(* A client gets back its own segments, each once and in order. *)
EchoesOwn(c) == IsPrefix(got[c] \o outbox[c], Typed(c))
=============================================================================
