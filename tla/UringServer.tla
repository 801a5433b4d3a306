---------------------------- MODULE UringServer ----------------------------
(***************************************************************************)
(* evserver/src/server_uring.cpp: one thread and an io_uring.  Operations  *)
(* are written into the submission queue, the kernel carries them out on   *)
(* its own time and posts completions, and every completion queues the     *)
(* next operation of its connection: accept -> recv -> send -> recv ...    *)
(*                                                                         *)
(*   ring         sq: operations prepared and not submitted                *)
(*                inflight: operations the kernel holds                    *)
(*   cq           completions posted and not handled                       *)
(*   faulty       io_uring_submit and submit_and_wait may fail (EBUSY)     *)
(*   pc           "enter" (top of run()'s loop), "wait" (in the kernel,    *)
(*                waiting for a completion), "handle" (draining cq),       *)
(*                "exited"                                                 *)
(*   connections  connections_: descriptor -> Conn object.  The map owns   *)
(*                its objects: one that leaves the map is freed            *)
(*   objFd        the fd field of a Conn object                            *)
(*   objBuf       the bytes in a Conn's buffer that are to be sent         *)
(*   fdtab        the kernel's descriptor table                            *)
(* An operation carries a raw pointer to its Conn, and a freed Conn's      *)
(* address may be reused, as in the code.  Handling one completion is one  *)
(* step: it only writes memory, except for close() and for the flush of a  *)
(* full queue, which the kernel cannot tell from a later one.              *)
(***************************************************************************)
EXTENDS Sockets, FiniteSetsExt, SequencesExt

CONSTANTS Fds,           \* descriptors for connections; the lowest free one is used
          Objs,          \* addresses of Conn objects
          None,
          BufSize,       \* cfg.buffer_size
          QDepth,        \* kQueueDepth (256 in the code)
          SubmitMayFail  \* bound: failing submissions are looked at

ASSUME UringAssumption ==
    /\ Fds \subseteq Nat
    /\ IsFiniteSet(Fds) /\ IsFiniteSet(Objs)
    /\ Cardinality(Objs) >= Cardinality(Fds)
    /\ None \notin Conns \union Fds \union Objs
    /\ BufSize \in Nat
    /\ QDepth \in Nat \ {0, 1}
    /\ SubmitMayFail \in BOOLEAN

VARIABLES faulty, pc, running, ring, cq, connections, objFd, objBuf, fdtab, stats

serverVars == <<faulty, pc, running, ring, cq, connections, objFd, objBuf, fdtab, stats>>
vars == <<sockVars, serverVars>>

Op == [type : {"accept", "signal", "recv", "send"}, obj : Objs \union {None}]
AcceptOp == [type |-> "accept", obj |-> None]
SignalOp == [type |-> "signal", obj |-> None]
RecvOp(o) == [type |-> "recv", obj |-> o]
SendOp(o) == [type |-> "send", obj |-> o]

\* res: bytes moved, or -1 for an error; fd: what an accept returned.
Cqe == [op : Op, res : Int, fd : Fds \union {None}]

TypeOK ==
    /\ SocketsTypeOK
    /\ faulty \in BOOLEAN
    /\ pc \in {"enter", "wait", "handle", "exited"}
    /\ running \in BOOLEAN
    /\ ring \in [sq : Seq(Op), inflight : SUBSET Op]
    /\ Len(ring.sq) <= QDepth
    /\ cq \in Seq(Cqe)
    /\ connections \in [Fds -> Objs \union {None}]
    /\ objFd \in [Objs -> Fds \union {None}]
    /\ objBuf \in [Objs -> Seq(Bytes)]
    /\ fdtab \in [Fds -> Conns \union {None}]
    /\ stats \in [accepted : Nat, closed : Nat, requests : Nat, bytes : Nat]

Up == pc # "exited"
Live == {o \in Objs : \E f \in Fds : connections[f] = o}
FreeFds == {f \in Fds : fdtab[f] = None}
ConnOf(o) == fdtab[objFd[o]]

-----------------------------------------------------------------------------
(* The submission queue *)

Submit(r) == [sq |-> <<>>, inflight |-> r.inflight \union ToSet(r.sq)]

\* Mutant: no check for a full queue.
PrepUnchecked(r, op) == {[ring |-> [r EXCEPT !.sq = Append(@, op)], ok |-> TRUE]}

\* next_sqe() and the io_uring_prep_* that fills the entry: the possible
\* outcomes.  A full queue is flushed once; if that fails there is no entry.
Prep(r, op) ==
    IF Len(r.sq) < QDepth
    THEN {[ring |-> [r EXCEPT !.sq = Append(@, op)], ok |-> TRUE]}
    ELSE {[ring |-> [Submit(r) EXCEPT !.sq = <<op>>], ok |-> TRUE]}
         \union (IF faulty THEN {[ring |-> r, ok |-> FALSE]} ELSE {})

\* start(): the first accept and the poll of the signalfd are queued.
Init ==
    /\ SocketsInit
    /\ faulty \in {FALSE, SubmitMayFail}
    /\ pc = "enter"
    /\ running = TRUE
    /\ ring = [sq |-> <<AcceptOp, SignalOp>>, inflight |-> {}]
    /\ cq = <<>>
    /\ connections = [f \in Fds |-> None]
    /\ objFd = [o \in Objs |-> None]
    /\ objBuf = [o \in Objs |-> <<>>]
    /\ fdtab = [f \in Fds |-> None]
    /\ stats = [accepted |-> 0, closed |-> 0, requests |-> 0, bytes |-> 0]

\* io_uring_submit_and_wait(&ring_, 1): everything queued is submitted, and
\* the call returns when a completion is there.
Enter ==
    /\ pc = "enter" /\ running
    /\ ring' = Submit(ring)
    /\ pc' = "wait"
    /\ UNCHANGED <<sockVars, faulty, running, cq, connections, objFd, objBuf, fdtab, stats>>

EnterFails ==
    /\ faulty
    /\ pc = "enter" /\ running
    /\ pc' = "exited"
    /\ UNCHANGED <<sockVars, faulty, running, ring, cq, connections, objFd, objBuf, fdtab, stats>>

EnterReturns ==
    /\ pc = "wait" /\ cq # <<>>
    /\ pc' = "handle"
    /\ UNCHANGED <<sockVars, faulty, running, ring, cq, connections, objFd, objBuf, fdtab, stats>>

\* The queue is drained: around the loop, or out of it.
Drained ==
    /\ pc = "handle" /\ cq = <<>>
    /\ pc' = IF running THEN "enter" ELSE "exited"
    /\ UNCHANGED <<sockVars, faulty, running, ring, cq, connections, objFd, objBuf, fdtab, stats>>

-----------------------------------------------------------------------------
(* The kernel carries out what it holds *)

Held(op) == Up /\ op \in ring.inflight

Post(op, res, f) ==
    /\ ring' = [ring EXCEPT !.inflight = @ \ {op}]
    /\ cq' = Append(cq, [op |-> op, res |-> res, fd |-> f])

CompleteAccept ==
    /\ Held(AcceptOp) /\ backlog # <<>>
    /\ FreeFds # {}
    /\ fdtab' = [fdtab EXCEPT ![Min(FreeFds)] = Head(backlog)]
    /\ Post(AcceptOp, 0, Min(FreeFds))
    /\ AcceptHead("open")
    /\ UNCHANGED <<faulty, pc, running, connections, objFd, objBuf, stats>>

\* EMFILE: the kernel reserves a descriptor before it looks at the queue.
CompleteAcceptError ==
    /\ Held(AcceptOp) /\ FreeFds = {}
    /\ Post(AcceptOp, -1, None)
    /\ UNCHANGED <<sockVars, faulty, pc, running, connections, objFd, objBuf, fdtab, stats>>

CompleteSignal ==
    /\ Held(SignalOp) /\ sig = "pending"
    /\ Post(SignalOp, 1, None)
    /\ UNCHANGED <<sockVars, faulty, pc, running, connections, objFd, objBuf, fdtab, stats>>

RecvSize(o) == IF BufSize < Len(inq[ConnOf(o)]) THEN BufSize ELSE Len(inq[ConnOf(o)])

\* The kernel writes into the Conn's buffer.
CompleteRecv(o) ==
    /\ Held(RecvOp(o)) /\ inq[ConnOf(o)] # <<>>
    /\ objBuf' = [objBuf EXCEPT ![o] = SubSeq(inq[ConnOf(o)], 1, RecvSize(o))]
    /\ TakeInput(ConnOf(o), RecvSize(o))
    /\ Post(RecvOp(o), RecvSize(o), None)
    /\ UNCHANGED <<faulty, pc, running, connections, objFd, fdtab, stats>>

CompleteRecvEnd(o) ==
    /\ Held(RecvOp(o)) /\ inq[ConnOf(o)] = <<>> /\ Gone(ConnOf(o))
    /\ Post(RecvOp(o), IF HungUp(ConnOf(o)) THEN -1 ELSE 0, None)
    /\ UNCHANGED <<sockVars, faulty, pc, running, connections, objFd, objBuf, fdtab, stats>>

\* A send may be short; a blocked one waits in the kernel, not in the server.
CompleteSend(o) ==
    /\ Held(SendOp(o)) /\ ~HungUp(ConnOf(o))
    /\ \E n \in Writable(ConnOf(o), Len(objBuf[o])) :
          /\ PutOutput(ConnOf(o), SubSeq(objBuf[o], 1, n))
          /\ Post(SendOp(o), n, None)
    /\ UNCHANGED <<faulty, pc, running, connections, objFd, objBuf, fdtab, stats>>

\* ECONNRESET or EPIPE; io_uring sends with MSG_NOSIGNAL, so no SIGPIPE.
CompleteSendError(o) ==
    /\ Held(SendOp(o)) /\ HungUp(ConnOf(o))
    /\ Post(SendOp(o), -1, None)
    /\ UNCHANGED <<sockVars, faulty, pc, running, connections, objFd, objBuf, fdtab, stats>>

KernelConnStep(o) ==
    CompleteRecv(o) \/ CompleteRecvEnd(o) \/ CompleteSend(o) \/ CompleteSendError(o)

-----------------------------------------------------------------------------
(* handle_completion *)

Handling(type) == pc = "handle" /\ cq # <<>> /\ Head(cq).op.type = type

res == Head(cq).res
obj == Head(cq).op.obj

\* Mutant: the Conn stays in the map.
CloseConnectionKeepsEntry ==
    /\ CloseSide(ConnOf(obj))
    /\ fdtab' = [fdtab EXCEPT ![objFd[obj]] = None]
    /\ UNCHANGED <<connections, objFd>>

\* close_connection(conn) on the object obj: close(fd), erase from the map.
CloseConnection ==
    /\ CloseSide(ConnOf(obj))
    /\ fdtab' = [fdtab EXCEPT ![objFd[obj]] = None]
    /\ connections' = [connections EXCEPT ![objFd[obj]] = None]
    /\ objFd' = [objFd EXCEPT ![obj] = None]

\* Mutant: the poll is armed again and the server goes on.
HandleSignalIgnored ==
    /\ Handling("signal")
    /\ \E p \in Prep(ring, SignalOp) : ring' = p.ring
    /\ cq' = Tail(cq)
    /\ UNCHANGED <<sockVars, faulty, pc, running, connections, objFd, objBuf, fdtab, stats>>

HandleSignal ==
    /\ Handling("signal")
    /\ running' = FALSE
    /\ cq' = Tail(cq)
    /\ UNCHANGED <<sockVars, faulty, pc, ring, connections, objFd, objBuf, fdtab, stats>>

\* Mutant: an early return on the error.
HandleAcceptErrorReturns ==
    /\ Handling("accept") /\ res < 0
    /\ cq' = Tail(cq)
    /\ UNCHANGED <<sockVars, faulty, pc, running, ring, connections, objFd, objBuf, fdtab, stats>>

HandleAcceptError ==
    /\ Handling("accept") /\ res < 0
    /\ \E a \in Prep(ring, AcceptOp) : ring' = a.ring
    /\ cq' = Tail(cq)
    /\ UNCHANGED <<sockVars, faulty, pc, running, connections, objFd, objBuf, fdtab, stats>>

\* make_unique<Conn>: an address that was freed is used again at once, which
\* is when a pointer that was kept would do the most harm.
NewObj == CHOOSE o \in Objs : o \notin Live

\* The next accept is queued first, then the new connection's first recv.
HandleAccept ==
    /\ Handling("accept") /\ res >= 0
    /\ \E a \in Prep(ring, AcceptOp), o \in {NewObj} :
       \E b \in Prep(a.ring, RecvOp(o)) :
          /\ ring' = b.ring
          /\ objBuf' = [objBuf EXCEPT ![o] = <<>>]
          /\ \/ /\ b.ok
                /\ connections' = [connections EXCEPT ![Head(cq).fd] = o]
                /\ objFd' = [objFd EXCEPT ![o] = Head(cq).fd]
                /\ stats' = [stats EXCEPT !.accepted = @ + 1]
                /\ UNCHANGED <<sockVars, fdtab>>
             \/ /\ ~b.ok
                /\ CloseSide(fdtab[Head(cq).fd])
                /\ fdtab' = [fdtab EXCEPT ![Head(cq).fd] = None]
                /\ stats' = [stats EXCEPT !.accepted = @ + 1, !.closed = @ + 1]
                /\ UNCHANGED <<connections, objFd>>
    /\ cq' = Tail(cq)
    /\ UNCHANGED <<faulty, pc, running>>

\* submit_recv / submit_send on obj: close the connection if there is no entry.
SubmitOrClose(op, counted) ==
    \E p \in Prep(ring, op) :
        /\ ring' = p.ring
        /\ \/ p.ok /\ stats' = counted /\ UNCHANGED <<sockVars, connections, objFd, fdtab>>
           \/ ~p.ok /\ stats' = [counted EXCEPT !.closed = @ + 1] /\ CloseConnection

HandleRecv ==
    /\ Handling("recv") /\ res > 0
    /\ SubmitOrClose(SendOp(obj), [stats EXCEPT !.requests = @ + 1, !.bytes = @ + res])
    /\ cq' = Tail(cq)
    /\ UNCHANGED <<faulty, pc, running, objBuf>>

\* Mutants: the whole buffer is sent again; the short send taken for a
\* complete one.
HandleSendShortFromStart ==
    /\ Handling("send") /\ res > 0 /\ res < Len(objBuf[obj])
    /\ SubmitOrClose(SendOp(obj), stats)
    /\ cq' = Tail(cq)
    /\ UNCHANGED <<faulty, pc, running, objBuf>>

HandleSendShortIsDone ==
    /\ Handling("send") /\ res > 0 /\ res < Len(objBuf[obj])
    /\ objBuf' = [objBuf EXCEPT ![obj] = <<>>]
    /\ SubmitOrClose(RecvOp(obj), stats)
    /\ cq' = Tail(cq)
    /\ UNCHANGED <<faulty, pc, running>>

\* Short write: the rest moves to the front of the buffer and is sent next.
HandleSendShort ==
    /\ Handling("send") /\ res > 0 /\ res < Len(objBuf[obj])
    /\ objBuf' = [objBuf EXCEPT ![obj] = SubSeq(@, res + 1, Len(@))]
    /\ SubmitOrClose(SendOp(obj), stats)
    /\ cq' = Tail(cq)
    /\ UNCHANGED <<faulty, pc, running>>

\* Mutant: no next recv.
HandleSendDoneStalls ==
    /\ Handling("send") /\ res >= Len(objBuf[obj])
    /\ objBuf' = [objBuf EXCEPT ![obj] = <<>>]
    /\ cq' = Tail(cq)
    /\ UNCHANGED <<sockVars, faulty, pc, running, ring, connections, objFd, fdtab, stats>>

HandleSendDone ==
    /\ Handling("send") /\ res >= Len(objBuf[obj])
    /\ objBuf' = [objBuf EXCEPT ![obj] = <<>>]
    /\ SubmitOrClose(RecvOp(obj), stats)
    /\ cq' = Tail(cq)
    /\ UNCHANGED <<faulty, pc, running>>

\* recv returned 0 or an error, or send an error.
HandleEnd ==
    /\ \/ Handling("recv") /\ res <= 0
       \/ Handling("send") /\ res < 0
    /\ CloseConnection
    /\ stats' = [stats EXCEPT !.closed = @ + 1]
    /\ objBuf' = [objBuf EXCEPT ![obj] = <<>>]
    /\ cq' = Tail(cq)
    /\ UNCHANGED <<faulty, pc, running, ring>>

ServerStep ==
    \/ Enter \/ EnterFails \/ EnterReturns \/ Drained
    \/ HandleSignal \/ HandleAccept \/ HandleAcceptError
    \/ HandleRecv \/ HandleSendShort \/ HandleSendDone \/ HandleEnd

-----------------------------------------------------------------------------
ClientReads(c) == Up /\ ClientRecv(c) /\ UNCHANGED serverVars

ClientStep(c) ==
    /\ Up
    /\ Connect(c) \/ ClientSend(c) \/ ClientClose(c) \/ PeerReset(c)
    /\ UNCHANGED serverVars

SignalArrives == Up /\ Signal /\ UNCHANGED serverVars

Terminated == ~Up /\ UNCHANGED vars

Next ==
    \/ ServerStep
    \/ CompleteAccept \/ CompleteAcceptError \/ CompleteSignal
    \/ \E o \in Objs : KernelConnStep(o)
    \/ \E c \in Conns : ClientStep(c) \/ ClientReads(c)
    \/ SignalArrives
    \/ Terminated

Spec == Init /\ [][Next]_vars

(***************************************************************************)
(* Fairness: the server's thread runs, and the kernel completes an         *)
(* operation that can be completed.  Nothing is assumed about clients.     *)
(***************************************************************************)
FairSpec ==
    /\ Spec
    /\ WF_vars(ServerStep)
    /\ WF_vars(CompleteAccept \/ CompleteAcceptError)
    /\ WF_vars(CompleteSignal)
    /\ \A o \in Objs : WF_vars(KernelConnStep(o))

-----------------------------------------------------------------------------
(* Safety *)

\* How often an operation is somewhere in the rings.
Outstanding(op) ==
    Cardinality({i \in 1 .. Len(ring.sq) : ring.sq[i] = op})
    + (IF op \in ring.inflight THEN 1 ELSE 0)
    + Cardinality({i \in 1 .. Len(cq) : cq[i].op = op})

\* No operation or completion points to a Conn that was freed, and every Conn
\* has exactly one operation under way: two would share its buffer, none would
\* leave the connection stuck for ever.
OneOpPerConn ==
    \A o \in Objs :
        Outstanding(RecvOp(o)) + Outstanding(SendOp(o)) = IF o \in Live THEN 1 ELSE 0

\* connections_, the descriptor table and the counters printed at exit agree: an
\* entry's Conn has that descriptor, every open descriptor is in the map or was
\* returned by an accept that is not handled yet, and what was counted as
\* accepted and not as closed is in the map.
MapMatchesFds ==
    /\ stats.accepted = stats.closed + Cardinality({f \in Fds : connections[f] # None})
    /\ \A f \in Fds :
        /\ connections[f] # None => objFd[connections[f]] = f
        /\ (fdtab[f] # None)
              <=> (connections[f] # None \/ \E i \in 1 .. Len(cq) : cq[i].fd = f)

\* server_uring.cpp:225: "keep one accept outstanding at all times".  True as
\* long as submissions work; nothing arms an accept again that got no entry.
AcceptArmed == Up /\ ~faulty => Outstanding(AcceptOp) = 1

\* The bytes of o's buffer the client has not got: a send that has completed
\* and is not handled yet has already sent its part.
Unsent(o) ==
    LET done == {i \in 1 .. Len(cq) : cq[i].op = SendOp(o) /\ cq[i].res > 0}
    IN  IF done = {} THEN objBuf[o]
        ELSE SubSeq(objBuf[o], cq[Min(done)].res + 1, Len(objBuf[o]))

\* No byte of a connection is lost on its way through the rings.
NoByteLost ==
    \A o \in Live :
        Reply(ConnOf(o)) \o Unsent(o) \o inq[ConnOf(o)] = Stream(ConnOf(o))

Abstract == INSTANCE EchoService WITH
    MayRefuse    <- FALSE,
    SigPipeKills <- FALSE,
    MaxServed    <- Cardinality(Conns),
    reply <- [c \in Conns |-> Reply(c)],
    life  <- [c \in Conns |-> IF srv[c] = "queued" THEN "pending" ELSE srv[c]],
    gone  <- [c \in Conns |-> Gone(c)],
    mayDrop <- faulty,
    phase <- IF ~Up THEN "down" ELSE IF sig = "none" THEN "serving" ELSE "stopping"

\* The backend implements the service: replies in order however completions are
\* ordered and sends are cut short, and a connection closed only when its client
\* is gone, a signal has come or a submission failed.  Unlike the other two it survives
\* clients that leave early.
ImplementsEchoService == Abstract!Spec

-----------------------------------------------------------------------------
(* Liveness *)

\* A client that keeps reading is answered in full even if no other client
\* ever reads its replies.
Isolation ==
    \A c \in Conns :
        WF_vars(ClientReads(c)) =>
            []<>(Len(got[c]) = sent[c] \/ Gone(c) \/ ~Up \/ sig # "none")

\* Ctrl-C ends the server, whatever the clients do or do not do.
ShutdownCompletes == sig = "pending" ~> ~Up
=============================================================================
