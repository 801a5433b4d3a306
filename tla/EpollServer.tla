---------------------------- MODULE EpollServer ----------------------------
(***************************************************************************)
(* evserver/src/server_epoll.cpp: one thread, non-blocking sockets, one    *)
(* epoll instance, one shared buffer.  backend is the choice between the   *)
(* two backends of the file, "epoll" (level-triggered) and "epoll-et".     *)
(*                                                                         *)
(* A step of the server is one system call with the code up to the next    *)
(* one, so that clients, the network and the signal interleave at every    *)
(* point where they can be noticed.  A call that ends in EINTR, or a       *)
(* write() that ends in EAGAIN (write_all spins on it), changes nothing    *)
(* and is no step.  accept4() and the epoll_ctl(ADD) that follows it are   *)
(* one step: ADD looks at the socket again, so nothing that happens        *)
(* between them can be told apart.                                         *)
(*                                                                         *)
(*   pc       where run() is: "loop" (dispatching events; epoll_wait when  *)
(*            none is left), "accept", "read", "write", or how it ended:   *)
(*            "exited", "killed" (by SIGPIPE)                              *)
(*   events   the rest of the batch epoll_wait returned; its head is being *)
(*            handled.  conn is history: whom the event was reported for   *)
(*   buf      the bytes of buffer_ that write_all has still to write       *)
(*   fdtab    the process's descriptor table: which connection an fd is    *)
(*   rd       epoll's ready list: descriptors to look at in the next wait  *)
(***************************************************************************)
EXTENDS Sockets, FiniteSetsExt, SequencesExt

CONSTANTS Fds,           \* descriptors the process may use for connections
          Listener, SignalFd, None,
          BufSize,       \* cfg.buffer_size
          MaxEvents,     \* cfg.max_events
          AddMayFail     \* epoll_ctl(ADD) of a new connection may fail

ASSUME EpollAssumption ==
    /\ IsFiniteSet(Fds)
    /\ Listener \notin Fds /\ SignalFd \notin Fds /\ Listener # SignalFd
    /\ None \notin Conns
    /\ BufSize \in Nat
    /\ MaxEvents \in Nat
    /\ AddMayFail \in BOOLEAN

VARIABLES backend, pc, events, buf, running, fdtab, rd, stats

serverVars == <<backend, pc, events, buf, running, fdtab, rd, stats>>
vars == <<sockVars, serverVars>>

Handles == Fds \union {Listener, SignalFd}
Event == [fd : Handles, hup : BOOLEAN, conn : Conns \union {None}]
Stats == [accepted : Nat, closed : Nat, requests : Nat, bytes : Nat]

TypeOK ==
    /\ SocketsTypeOK
    /\ backend \in {"epoll", "epoll-et"}
    /\ pc \in {"loop", "accept", "read", "write", "exited", "killed"}
    /\ events \in Seq(Event)
    /\ buf \in Seq(Bytes)
    /\ running \in BOOLEAN
    /\ fdtab \in [Fds -> Conns \union {None}]
    /\ rd \in SUBSET Handles
    /\ stats \in Stats

\* start(): the listener and the signalfd are registered, no connection yet.
Init ==
    /\ SocketsInit
    /\ backend \in {"epoll", "epoll-et"}
    /\ pc = "loop"
    /\ events = <<>>
    /\ buf = <<>>
    /\ running = TRUE
    /\ fdtab = [f \in Fds |-> None]
    /\ rd = {}
    /\ stats = [accepted |-> 0, closed |-> 0, requests |-> 0, bytes |-> 0]

-----------------------------------------------------------------------------
(* epoll *)

Up == pc \notin {"exited", "killed"}
OpenFds == {f \in Fds : fdtab[f] # None}
FdsOf(c) == {f \in Fds : fdtab[f] = c}

EdgeTriggered == backend = "epoll-et"

\* The listener and the signalfd are registered level-triggered in both modes.
LevelTriggered(f) == f \notin Fds \/ ~EdgeTriggered

Poll(f) ==
    \/ f = Listener /\ backlog # <<>>
    \/ f = SignalFd /\ sig = "pending"
    \/ f \in OpenFds /\ Readable(fdtab[f])

Ready == {f \in rd : Poll(f)}

BatchSize == IF MaxEvents < Cardinality(Ready) THEN MaxEvents ELSE Cardinality(Ready)

\* Any order the ready list may have; a descriptor appears once.
Batches == {b \in [1 .. BatchSize -> Ready] :
               \A i, j \in 1 .. BatchSize : b[i] = b[j] => i = j}

Report(f) == [fd   |-> f,
              hup  |-> f \in OpenFds /\ HungUp(fdtab[f]),
              conn |-> IF f \in Fds THEN fdtab[f] ELSE None]

\* run(): the loop ends when running_ is false, or at once when epoll_wait
\* fails, which it does for a batch of size 0 (EINVAL).
EpollWait ==
    /\ pc = "loop" /\ events = <<>> /\ running /\ MaxEvents > 0
    /\ Ready # {}
    /\ \E b \in Batches :
          /\ events' = [i \in 1 .. BatchSize |-> Report(b[i])]
          /\ rd' = {f \in Ready : LevelTriggered(f) \/ f \notin {b[i] : i \in 1 .. BatchSize}}
    /\ UNCHANGED <<sockVars, pc, buf, running, fdtab, stats, backend>>

LeaveLoop ==
    /\ pc = "loop" /\ events = <<>>
    /\ ~running \/ MaxEvents = 0
    /\ pc' = "exited"
    /\ UNCHANGED <<sockVars, events, buf, running, fdtab, rd, stats, backend>>

-----------------------------------------------------------------------------
(* The handlers.  Each one ends by moving on to the next event. *)

fd == Head(events).fd
conn == fdtab[fd]

Dispatching(f) == pc = "loop" /\ events # <<>> /\ fd = f

NextEvent ==
    /\ pc' = "loop"
    /\ events' = Tail(events)

\* Mutant: the signal is neither read nor acted upon.
DrainSignalIgnored ==
    /\ Dispatching(SignalFd)
    /\ NextEvent
    /\ UNCHANGED <<sockVars, buf, running, fdtab, rd, stats, backend>>

\* drain_signal: only this handler reads the signalfd, so it is readable.
DrainSignal ==
    /\ Dispatching(SignalFd)
    /\ TakeSignal
    /\ running' = FALSE
    /\ NextEvent
    /\ UNCHANGED <<buf, fdtab, rd, stats, backend>>

StartAccepting ==
    /\ Dispatching(Listener)
    /\ pc' = "accept"
    /\ UNCHANGED <<sockVars, events, buf, running, fdtab, rd, stats, backend>>

\* accept4() succeeded and the connection is registered.
AcceptOne ==
    /\ pc = "accept" /\ backlog # <<>>
    /\ \E f \in Fds \ OpenFds :
          /\ fdtab' = [fdtab EXCEPT ![f] = Head(backlog)]
          /\ rd' = IF Readable(Head(backlog)) THEN rd \union {f} ELSE rd
    /\ AcceptHead("open")
    /\ stats' = [stats EXCEPT !.accepted = @ + 1]
    /\ UNCHANGED <<pc, events, buf, running, backend>>

\* Mutant: counted before it is registered.
AcceptUnregisteredCounted ==
    /\ AddMayFail
    /\ pc = "accept" /\ backlog # <<>>
    /\ Fds \ OpenFds # {}
    /\ AcceptHead("closed")
    /\ stats' = [stats EXCEPT !.accepted = @ + 1]
    /\ UNCHANGED <<pc, events, buf, running, fdtab, rd, backend>>

\* accept4() succeeded and epoll_ctl(ADD) failed: closed again, not counted.
AcceptUnregistered ==
    /\ AddMayFail
    /\ pc = "accept" /\ backlog # <<>>
    /\ Fds \ OpenFds # {}
    /\ AcceptHead("closed")
    /\ UNCHANGED serverVars

\* EAGAIN, or EMFILE when every descriptor is in use.
StopAccepting ==
    /\ pc = "accept"
    /\ backlog = <<>> \/ OpenFds = Fds
    /\ NextEvent
    /\ UNCHANGED <<sockVars, buf, running, fdtab, rd, stats, backend>>

\* close_connection(fd), then return from handle_connection.
CloseConnection ==
    /\ CloseSide(conn)
    /\ fdtab' = [fdtab EXCEPT ![fd] = None]
    /\ rd' = rd \ {fd}
    /\ stats' = [stats EXCEPT !.closed = @ + 1]
    /\ buf' = <<>>
    /\ NextEvent
    /\ UNCHANGED <<running, backend>>

\* Mutants: no return after close_connection; the event mask not looked at.
OnHangupNoReturn ==
    /\ pc = "loop" /\ events # <<>> /\ fd \in Fds
    /\ Head(events).hup
    /\ CloseSide(conn)
    /\ fdtab' = [fdtab EXCEPT ![fd] = None]
    /\ rd' = rd \ {fd}
    /\ stats' = [stats EXCEPT !.closed = @ + 1]
    /\ pc' = "read"
    /\ UNCHANGED <<events, buf, running, backend>>

OnHangupAnyEvent ==
    /\ pc = "loop" /\ events # <<>> /\ fd \in Fds
    /\ CloseConnection

OnHangup ==
    /\ pc = "loop" /\ events # <<>> /\ fd \in Fds
    /\ Head(events).hup
    /\ CloseConnection

StartReading ==
    /\ pc = "loop" /\ events # <<>> /\ fd \in Fds
    /\ ~Head(events).hup
    /\ pc' = "read"
    /\ UNCHANGED <<sockVars, events, buf, running, fdtab, rd, stats, backend>>

\* What one read() returns.
ReadSize == IF BufSize < Len(inq[conn]) THEN BufSize ELSE Len(inq[conn])

ReadData ==
    /\ pc = "read" /\ ReadSize > 0
    /\ buf' = SubSeq(inq[conn], 1, ReadSize)
    /\ TakeInput(conn, ReadSize)
    /\ stats' = [stats EXCEPT !.requests = @ + 1, !.bytes = @ + ReadSize]
    /\ pc' = "write"
    /\ UNCHANGED <<events, running, fdtab, rd, backend>>

\* Mutants: read()'s -1 is added to the bytes; end of stream taken for EAGAIN.
ReadEndCounted ==
    /\ pc = "read" /\ ReadSize = 0
    /\ BufSize = 0 \/ Gone(conn)
    /\ CloseSide(conn)
    /\ fdtab' = [fdtab EXCEPT ![fd] = None]
    /\ rd' = rd \ {fd}
    /\ stats' = [stats EXCEPT !.closed = @ + 1, !.bytes = @ - 1]
    /\ NextEvent
    /\ UNCHANGED <<buf, running, backend>>

ReadEndIgnored ==
    /\ pc = "read" /\ ReadSize = 0
    /\ BufSize = 0 \/ Gone(conn)
    /\ NextEvent
    /\ UNCHANGED <<sockVars, buf, running, fdtab, rd, stats, backend>>

\* read() returned 0 or an error: end of stream, a RST, or an empty buffer_.
ReadEnd ==
    /\ pc = "read" /\ ReadSize = 0
    /\ BufSize = 0 \/ Gone(conn)
    /\ CloseConnection

\* read() returned EAGAIN.
ReadDrained ==
    /\ pc = "read" /\ ReadSize = 0
    /\ BufSize > 0 /\ ~Gone(conn)
    /\ NextEvent
    /\ UNCHANGED <<sockVars, buf, running, fdtab, rd, stats, backend>>

\* Mutant: epoll-et returns after one read as epoll-lt does.
AfterEchoOnce == NextEvent

\* write_all returned true: epoll-lt is done with the event, epoll-et reads on.
AfterEcho ==
    IF EdgeTriggered THEN pc' = "read" /\ UNCHANGED events ELSE NextEvent

\* Mutants: after a short write, start again at the front of buffer_; a short
\* write taken for a complete one.
WriteSomeUnadvanced ==
    /\ pc = "write" /\ ~HungUp(conn)
    /\ \E n \in Writable(conn, Len(buf)) :
          /\ PutOutput(conn, SubSeq(buf, 1, n))
          /\ IF n = Len(buf) THEN buf' = <<>> /\ AfterEcho ELSE UNCHANGED <<buf, pc, events>>
    /\ UNCHANGED <<running, fdtab, rd, stats, backend>>

WriteSomeShort ==
    /\ pc = "write" /\ ~HungUp(conn)
    /\ \E n \in Writable(conn, Len(buf)) : PutOutput(conn, SubSeq(buf, 1, n))
    /\ buf' = <<>>
    /\ AfterEcho
    /\ UNCHANGED <<running, fdtab, rd, stats, backend>>

WriteSome ==
    /\ pc = "write" /\ ~HungUp(conn)
    /\ \E n \in Writable(conn, Len(buf)) :
          /\ PutOutput(conn, SubSeq(buf, 1, n))
          /\ buf' = SubSeq(buf, n + 1, Len(buf))
          /\ IF n = Len(buf) THEN AfterEcho ELSE UNCHANGED <<pc, events>>
    /\ UNCHANGED <<running, fdtab, rd, stats, backend>>

\* ECONNRESET: write_all returned false.
WriteError ==
    /\ pc = "write" /\ link[conn] = "reset"
    /\ CloseConnection

\* EPIPE: SIGPIPE comes with it, and nothing in the program ignores it.
WriteBrokenPipe ==
    /\ pc = "write" /\ link[conn] = "broken"
    /\ pc' = "killed"
    /\ UNCHANGED <<sockVars, events, buf, running, fdtab, rd, stats, backend>>

ServerStep ==
    \/ EpollWait \/ LeaveLoop
    \/ DrainSignal
    \/ StartAccepting \/ AcceptOne \/ AcceptUnregistered \/ StopAccepting
    \/ OnHangup \/ StartReading \/ ReadData \/ ReadEnd \/ ReadDrained
    \/ WriteSome \/ WriteError \/ WriteBrokenPipe

-----------------------------------------------------------------------------
(* The environment.  What arrives on a registered descriptor puts it on    *)
(* the ready list; room in the send buffer (ClientRecv) does not, EPOLLOUT *)
(* is not asked for.                                                       *)

Wake(fs) ==
    /\ rd' = rd \union fs
    /\ UNCHANGED <<pc, events, buf, running, fdtab, stats, backend>>

ClientReads(c) == Up /\ ClientRecv(c) /\ UNCHANGED serverVars
ResetArrives(c) == Up /\ PeerReset(c) /\ Wake(FdsOf(c))

ClientStep(c) ==
    /\ Up
    /\ \/ Connect(c) /\ Wake({Listener})
       \/ ClientSend(c) /\ Wake(FdsOf(c))
       \/ ClientClose(c) /\ Wake(FdsOf(c))

SignalArrives == Up /\ Signal /\ Wake({SignalFd})

Terminated == ~Up /\ UNCHANGED vars

Next ==
    \/ ServerStep
    \/ \E c \in Conns : ClientStep(c) \/ ClientReads(c) \/ ResetArrives(c)
    \/ SignalArrives
    \/ Terminated

Spec == Init /\ [][Next]_vars

(***************************************************************************)
(* Fairness.  The server's thread keeps running and the network delivers   *)
(* a RST it owes.  Nothing is assumed about clients.                       *)
(***************************************************************************)
ServerFairness ==
    /\ WF_vars(ServerStep)
    /\ \A c \in Conns : WF_vars(ResetArrives(c))

FairSpec == Spec /\ ServerFairness

-----------------------------------------------------------------------------
(* Safety *)

\* Read from c and not written yet.
InFlight(c) == IF pc = "write" /\ conn = c THEN buf ELSE <<>>

\* While the server holds a connection no byte of it is lost: what it was
\* answered, what write_all still has to write and what is unread are, put
\* together, what the client sent.  After a clean exit too: whatever was read
\* has been answered.
NoByteLost ==
    pc # "killed" =>
        \A c \in Conns : srv[c] \in {"queued", "open"} =>
            Reply(c) \o InFlight(c) \o inq[c] = Stream(c)

\* An event is handled for the connection it was reported for: descriptors are
\* closed and reused while a batch is processed, but never one that still has
\* an event in the batch.
NoStaleEvent ==
    Up => \A i \in 1 .. Len(events) :
             events[i].fd \in Fds =>
                /\ fdtab[events[i].fd] = events[i].conn
                /\ events[i].conn # None

\* Nothing the server must react to is forgotten: a readable connection, a
\* client in the queue, a pending signal is on the ready list or in the batch.
\* For epoll-et this is what draining until EAGAIN is for (the comment at
\* server_epoll.cpp:27-31).
NoLostWakeup ==
    Up => \A f \in Handles :
             Poll(f) => f \in rd \/ \E i \in 1 .. Len(events) : events[i].fd = f

\* A connection that was accepted and not closed is open exactly once, and it is
\* one the kernel still has open.
DescriptorsCounted ==
    /\ stats.accepted = stats.closed + Cardinality(OpenFds)
    /\ \A c \in Conns : Cardinality(FdsOf(c)) = IF srv[c] = "open" THEN 1 ELSE 0

\* The counters printed at exit are right: those of connections match the
\* descriptors, and between two events the bytes counted are the bytes echoed,
\* as long as no connection was reset under a reply ("bytes echoed",
\* main.cpp:97).
CountersMatch ==
    /\ DescriptorsCounted
    /\ pc = "loop" /\ (\A c \in Conns : ~HungUp(c)) =>
          stats.bytes = SumOver([c \in Conns |-> Len(Reply(c))])

\* The server drops a connection it has accepted only when the client is gone
\* ("peer closed", server_epoll.cpp:207).
ClosesOnlyAfterPeer ==
    [][\A c \in Conns : srv[c] = "open" /\ srv'[c] = "closed" => Gone(c)]_vars

\* server.hpp:35: run() "Runs until SIGINT/SIGTERM arrives."
RunsUntilSignal == ~Up => sig # "none"

Abstract == INSTANCE EchoService WITH
    MayRefuse    <- AddMayFail,
    SigPipeKills <- TRUE,
    MaxServed    <- Cardinality(Conns),
    reply <- [c \in Conns |-> Reply(c)],
    life  <- [c \in Conns |-> IF srv[c] = "queued" THEN "pending" ELSE srv[c]],
    gone  <- [c \in Conns |-> Gone(c)],
    mayDrop <- FALSE,
    phase <- IF ~Up THEN "down" ELSE IF sig = "none" THEN "serving" ELSE "stopping"

\* Both epoll backends implement the service.
ImplementsEchoService == Abstract!Spec

-----------------------------------------------------------------------------
(* Liveness *)

\* write_all spins (server_epoll.cpp:243-246): the client is there, its buffers
\* are full and it does not read.
Stalled == pc = "write" /\ link[conn] = "up" /\ Len(outq[conn]) = SndBuf

\* How clients can keep the only thread from everybody else, the signalfd
\* included.  One never reads its replies; or the loop until EAGAIN, over new
\* connections (server_epoll.cpp:145) or over one client's input in epoll-et
\* (server_epoll.cpp:181), need not end because there is always more.
EndlessTraffic ==
    []<><<\E c \in Conns : Connect(c) \/ (EdgeTriggered /\ ClientSend(c))>>_vars

Monopolised == <>[]Stalled \/ EndlessTraffic

\* A client that stays and reads is answered in full, unless the server is
\* stopped or some client monopolises it.
EchoesAll ==
    Monopolised \/
        \A c \in Conns :
            WF_vars(ClientReads(c)) =>
                []<>(Len(got[c]) = sent[c] \/ Gone(c) \/ ~Up \/ sig # "none")

\* "Ctrl-C to stop." (main.cpp:88): the server ends, unless some client
\* monopolises it for ever.  Clients that are silent, slow, or gone in the
\* middle of a reply do not hold it up.
ShutdownCompletes == Monopolised \/ (sig = "pending" ~> ~Up)

\* A connection whose client is gone does not stay open (no descriptor leak),
\* with the same exception.
GoneIsClosed ==
    Monopolised \/
        \A c \in Conns : Gone(c) ~> srv[c] = "closed" \/ ~Up \/ sig # "none"
=============================================================================
