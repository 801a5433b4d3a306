------------------------------ MODULE Sockets ------------------------------
(***************************************************************************)
(* The part of the kernel every evserver backend talks to: the listening   *)
(* socket's queue, one TCP connection per client, and the signalfd.  The   *)
(* code of evserver/src/socket.cpp and signals.cpp is the thin layer over  *)
(* it; what the calls do is modelled from how the backends use them.       *)
(*                                                                         *)
(* A byte is a pair <<c, i>>: the i-th byte client c sent.  Its value does *)
(* not matter to an echo server, its identity does.  For a connection c    *)
(*                                                                         *)
(*    client c --sent[c] bytes--> inq[c] --server--> outq[c] --> got[c]    *)
(*                                                                         *)
(* inq is what the server can read, outq is what it has written and the    *)
(* client has not read yet, got is what the client has read.  outq and got *)
(* keep their contents when the connection breaks: together they record    *)
(* what the server answered.                                               *)
(*                                                                         *)
(* link[c] is what the client's side did to the connection:                *)
(*   "none"    not connected yet                                           *)
(*   "up"      connected                                                   *)
(*   "fin"     the client closed it with nothing left to read: a FIN came  *)
(*   "reset"   the client closed it with replies unread: a RST came        *)
(*   "broken"  a RST came after the FIN, because the server went on        *)
(*             answering a client that is gone                             *)
(* srv[c] is the server's side: "none", "queued" (in the listener's        *)
(* queue), "open" (accepted), "closed".                                    *)
(***************************************************************************)
EXTENDS Integers, Sequences, FiniteSets, FiniteSetsExt

CONSTANTS Conns,      \* the connections clients make
          MaxBytes,   \* bound: bytes one client sends
          RcvBuf,     \* bytes a connection's receive buffer holds
          SndBuf,     \* bytes written and not yet read by the client
          Backlog     \* length of the listener's queue (1024 in the code)

ASSUME SocketsAssumption ==
    /\ IsFiniteSet(Conns)
    /\ MaxBytes \in Nat
    /\ RcvBuf \in Nat \ {0}
    /\ SndBuf \in Nat \ {0}
    /\ Backlog \in Nat \ {0}

VARIABLES backlog, link, srv, sent, inq, outq, got, sig

streamVars == <<inq, outq, got, sent>>
sockVars == <<backlog, link, srv, sent, inq, outq, got, sig>>

Bytes == Conns \X Nat
Links == {"none", "up", "fin", "reset", "broken"}
Sides == {"none", "queued", "open", "closed"}

SocketsTypeOK ==
    /\ backlog \in Seq(Conns)
    /\ link \in [Conns -> Links]
    /\ srv  \in [Conns -> Sides]
    /\ sent \in [Conns -> Nat]
    /\ inq  \in [Conns -> Seq(Bytes)]
    /\ outq \in [Conns -> Seq(Bytes)]
    /\ got  \in [Conns -> Seq(Bytes)]
    /\ sig  \in {"none", "pending", "taken"}

SocketsInit ==
    /\ backlog = <<>>
    /\ link = [c \in Conns |-> "none"]
    /\ srv  = [c \in Conns |-> "none"]
    /\ sent = [c \in Conns |-> 0]
    /\ inq  = [c \in Conns |-> <<>>]
    /\ outq = [c \in Conns |-> <<>>]
    /\ got  = [c \in Conns |-> <<>>]
    /\ sig  = "none"

-----------------------------------------------------------------------------
(* What the clients and the network do. *)

\* connect_tcp: the handshake completes in the kernel, accept() comes later.
Connect(c) ==
    /\ srv[c] = "none"
    /\ Len(backlog) < Backlog
    /\ backlog' = Append(backlog, c)
    /\ srv'  = [srv EXCEPT ![c] = "queued"]
    /\ link' = [link EXCEPT ![c] = "up"]
    /\ UNCHANGED <<streamVars, sig>>

ClientSend(c) ==
    /\ link[c] = "up"
    /\ srv[c] \in {"queued", "open"}
    /\ sent[c] < MaxBytes
    /\ Len(inq[c]) < RcvBuf
    /\ sent' = [sent EXCEPT ![c] = @ + 1]
    /\ inq'  = [inq EXCEPT ![c] = Append(@, <<c, sent[c] + 1>>)]
    /\ UNCHANGED <<backlog, link, srv, outq, got, sig>>

ClientRecv(c) ==
    /\ link[c] = "up"
    /\ outq[c] # <<>>
    /\ got'  = [got EXCEPT ![c] = Append(@, Head(outq[c]))]
    /\ outq' = [outq EXCEPT ![c] = Tail(@)]
    /\ UNCHANGED <<backlog, link, srv, sent, inq, sig>>

\* Closing a socket whose receive buffer is not empty sends a RST, not a FIN.
ClientClose(c) ==
    /\ link[c] = "up"
    /\ link' = [link EXCEPT ![c] = IF outq[c] = <<>> THEN "fin" ELSE "reset"]
    /\ UNCHANGED <<backlog, srv, streamVars, sig>>

\* The host of a client that is gone answers data with a RST.
PeerReset(c) ==
    /\ link[c] = "fin"
    /\ srv[c] = "open"
    /\ outq[c] # <<>>
    /\ link' = [link EXCEPT ![c] = "broken"]
    /\ UNCHANGED <<backlog, srv, streamVars, sig>>

\* SIGINT or SIGTERM: blocked by signal_fd(), so it only makes the signalfd
\* readable.
Signal ==
    /\ sig = "none"
    /\ sig' = "pending"
    /\ UNCHANGED <<backlog, link, srv, streamVars>>

-----------------------------------------------------------------------------
(* What the server's calls see and do. *)

Gone(c) == link[c] \in {"fin", "reset", "broken"}

\* EPOLLHUP | EPOLLERR: the connection received a RST.
HungUp(c) == link[c] \in {"reset", "broken"}

\* POLLIN: read() would not block.
Readable(c) == inq[c] # <<>> \/ Gone(c)

\* Bytes one write() to a live connection may take: any number that fits.
Writable(c, len) == 1 .. (IF len < SndBuf - Len(outq[c])
                          THEN len ELSE SndBuf - Len(outq[c]))

\* accept4() returned the connection at the head of the queue.
AcceptHead(side) ==
    /\ backlog' = Tail(backlog)
    /\ srv' = [srv EXCEPT ![Head(backlog)] = side]
    /\ UNCHANGED <<link, streamVars, sig>>

\* read() took the first n bytes.
TakeInput(c, n) ==
    /\ inq' = [inq EXCEPT ![c] = SubSeq(@, n + 1, Len(@))]
    /\ UNCHANGED <<backlog, link, srv, sent, outq, got, sig>>

\* write() took data.
PutOutput(c, data) ==
    /\ outq' = [outq EXCEPT ![c] = @ \o data]
    /\ UNCHANGED <<backlog, link, srv, sent, inq, got, sig>>

\* close().
CloseSide(c) ==
    /\ srv' = [srv EXCEPT ![c] = "closed"]
    /\ UNCHANGED <<backlog, link, streamVars, sig>>

TakeSignal ==
    /\ sig' = "taken"
    /\ UNCHANGED <<backlog, link, srv, streamVars>>

-----------------------------------------------------------------------------
\* What client c was answered, read or not.
Reply(c) == got[c] \o outq[c]

\* The bytes client c sent, in the order it sent them.
Stream(c) == [i \in 1 .. sent[c] |-> <<c, i>>]

\* The sum of a count kept for every connection.
SumOver(count) == MapThenSumSet(LAMBDA c : count[c], Conns)
=============================================================================
