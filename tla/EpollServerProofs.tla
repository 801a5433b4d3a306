------------------------- MODULE EpollServerProofs -------------------------
(***************************************************************************)
(* Theorems about EpollServer, for any number of clients, descriptors,     *)
(* bytes, any buffer and batch size, and both trigger modes.               *)
(***************************************************************************)
EXTENDS EpollServer, SocketsProofs

-----------------------------------------------------------------------------
(* The inductive invariant.                                                *)

\* A descriptor stands for an open connection, and no two for the same.
FdsOK ==
    /\ \A f \in Fds : fdtab[f] # None => srv[fdtab[f]] = "open"
    /\ \A f, g \in Fds : fdtab[f] # None /\ fdtab[f] = fdtab[g] => f = g

\* An event is for the connection it was reported for, a descriptor has one
\* event in a batch, and a level-triggered one is still on the ready list.
EventsOK ==
    /\ \A i \in 1 .. Len(events) : events[i].fd \in Fds =>
          events[i].conn # None /\ fdtab[events[i].fd] = events[i].conn
    /\ \A i, j \in 1 .. Len(events) : events[i].fd = events[j].fd => i = j
    /\ \A i \in 1 .. Len(events) : LevelTriggered(events[i].fd) => events[i].fd \in rd

\* A handler works on the event at the head of the batch, and buffer_ holds
\* something only between a read() and the end of write_all.
PcOK ==
    /\ pc = "accept" => events # <<>> /\ fd = Listener
    /\ pc \in {"read", "write"} => events # <<>> /\ fd \in Fds
    /\ pc \notin {"write", "killed"} => buf = <<>>

Shape == TypeOK /\ QueueOK /\ FdsOK /\ EventsOK /\ PcOK

-----------------------------------------------------------------------------
\* start() leaves the server in the shape the handlers rely on.
LEMMA InitShape == Init => Shape
BY SocketsAssumption, EpollAssumption
DEF Init, SocketsInit, Shape, TypeOK, SocketsTypeOK, QueueOK, FdsOK, EventsOK, PcOK,
    Links, Sides, Handles, Event, Stats, Bytes

\* Counting keeps the counters natural numbers.
LEMMA StatsFacts ==
    ASSUME NEW st \in Stats, NEW n \in Nat
    PROVE  /\ [st EXCEPT !.accepted = @ + 1] \in Stats
           /\ [st EXCEPT !.closed = @ + 1] \in Stats
           /\ [st EXCEPT !.requests = @ + 1, !.bytes = @ + n] \in Stats
<1>1. [st EXCEPT !.accepted = @ + 1] \in Stats
  BY DEF Stats
<1>2. [st EXCEPT !.closed = @ + 1] \in Stats
  BY DEF Stats
<1>3. [st EXCEPT !.requests = @ + 1, !.bytes = @ + n] \in Stats
  <2>1. [st EXCEPT !.requests = @ + 1] \in Stats
    BY DEF Stats
  <2>2. \A t \in Stats : [t EXCEPT !.bytes = @ + n] \in Stats
    BY DEF Stats
  <2>3. [st EXCEPT !.requests = @ + 1, !.bytes = @ + n]
          = [[st EXCEPT !.requests = @ + 1] EXCEPT !.bytes = @ + n]
    BY DEF Stats
  <2> QED BY <2>1, <2>2, <2>3
<1> QED BY <1>1, <1>2, <1>3

\* What a handler knows about the event it works on.
LEMMA HandlerFacts ==
    ASSUME Shape, events # <<>>
    PROVE  /\ events[1] = Head(events) /\ Head(events) \in Event
           /\ fd \in Handles
           /\ fd \in Fds => conn \in Conns /\ srv[conn] = "open"
           /\ Tail(events) \in Seq(Event)
           /\ Len(Tail(events)) = Len(events) - 1
           /\ \A i \in 1 .. Len(Tail(events)) :
                 /\ Tail(events)[i] = events[i + 1]
                 /\ Tail(events)[i].fd # fd
<1>1. events \in Seq(Event) /\ Len(events) \in Nat /\ Len(events) > 0
  BY DEF Shape, TypeOK
<1>2. /\ events[1] = Head(events) /\ Head(events) \in Event
      /\ Tail(events) \in Seq(Event)
      /\ Len(Tail(events)) = Len(events) - 1
      /\ \A i \in 1 .. Len(Tail(events)) : Tail(events)[i] = events[i + 1]
  BY <1>1
<1>3. \A i \in 1 .. Len(Tail(events)) : Tail(events)[i].fd # fd
  BY <1>1, <1>2 DEF Shape, EventsOK, fd
<1>4. fd \in Handles
  BY <1>2 DEF fd, Event
<1>5. fd \in Fds => conn \in Conns /\ srv[conn] = "open"
  BY <1>1, <1>2 DEF fd, conn, Shape, EventsOK, FdsOK, TypeOK
<1> QED BY <1>2, <1>3, <1>4, <1>5

\* The batch epoll_wait returns.
LEMMA BatchFacts ==
    ASSUME Shape
    PROVE  /\ BatchSize \in Nat
           /\ \A f \in Ready : Report(f) \in Event
           /\ \A f \in Ready \cap Fds : fdtab[f] # None
           /\ Ready \subseteq rd
<1>1. IsFiniteSet(Handles)
  <2>1. IsFiniteSet(Fds \union {Listener})
    BY EpollAssumption, FS_AddElement
  <2>2. IsFiniteSet((Fds \union {Listener}) \union {SignalFd})
    BY <2>1, FS_AddElement
  <2>3. Handles = (Fds \union {Listener}) \union {SignalFd}
    BY DEF Handles
  <2> QED BY <2>2, <2>3
<1>2. Ready \subseteq Handles
  BY DEF Ready, Shape, TypeOK
<1>3. Cardinality(Ready) \in Nat
  BY <1>1, <1>2, FS_Subset, FS_CardinalityType
<1>4. BatchSize \in Nat
  BY <1>3, EpollAssumption DEF BatchSize
<1>5. \A f \in Ready : Report(f) \in Event
  BY <1>2 DEF Report, Event, Shape, TypeOK, Handles
<1>6. \A f \in Ready \cap Fds : fdtab[f] # None
  BY EpollAssumption DEF Ready, Poll, OpenFds
<1> QED BY <1>4, <1>5, <1>6 DEF Ready

\* epoll_wait reports each descriptor once, and only open ones.
LEMMA ShapeEpollWait == Shape /\ EpollWait => Shape'
<1> SUFFICES ASSUME Shape, EpollWait PROVE Shape'
  OBVIOUS
<1> PICK b \in Batches :
      /\ events' = [i \in 1 .. BatchSize |-> Report(b[i])]
      /\ rd' = {f \in Ready : LevelTriggered(f) \/ f \notin {b[i] : i \in 1 .. BatchSize}}
  BY DEF EpollWait
<1>1. b \in [1 .. BatchSize -> Ready] /\ \A i, j \in 1 .. BatchSize : b[i] = b[j] => i = j
  BY DEF Batches
<1>2. events' \in Seq(Event) /\ Len(events') = BatchSize
  BY <1>1, BatchFacts
<1>3. \A i \in 1 .. BatchSize : events'[i] = Report(b[i]) /\ b[i] \in Ready
  BY <1>1
<1>4. TypeOK'
  BY <1>2, BatchFacts DEF EpollWait, Shape, TypeOK, SocketsTypeOK, sockVars
<1>5. QueueOK' /\ FdsOK'
  BY DEF EpollWait, Shape, QueueOK, FdsOK, sockVars
<1>6. EventsOK'
  <2>1. \A i \in 1 .. Len(events') : events'[i].fd \in Fds =>
          events'[i].conn # None /\ fdtab'[events'[i].fd] = events'[i].conn
    BY <1>2, <1>3, BatchFacts DEF EpollWait, Report
  <2>2. \A i, j \in 1 .. Len(events') : events'[i].fd = events'[j].fd => i = j
    BY <1>1, <1>2, <1>3 DEF Report
  <2>3. \A i \in 1 .. Len(events') : LevelTriggered(events'[i].fd) => events'[i].fd \in rd'
    BY <1>2, <1>3 DEF Report
  <2> QED BY <2>1, <2>2, <2>3 DEF EventsOK, LevelTriggered, EdgeTriggered, EpollWait
<1>7. PcOK'
  BY DEF EpollWait, Shape, PcOK
<1> QED BY <1>4, <1>5, <1>6, <1>7 DEF Shape

\* Moving on to the next event keeps what is known about the rest of the batch.
LEMMA ShapeNextEvent ==
    ASSUME Shape, events # <<>>, NextEvent, rd' = rd, backend' = backend,
           \A i \in 1 .. Len(Tail(events)) : events[i + 1].fd \in Fds =>
               fdtab'[events[i + 1].fd] = fdtab[events[i + 1].fd]
    PROVE  EventsOK' /\ events' \in Seq(Event)
BY HandlerFacts DEF NextEvent, Shape, EventsOK, LevelTriggered, EdgeTriggered, TypeOK

\* drain_signal only moves on to the next event.
LEMMA ShapeDrainSignal == Shape /\ DrainSignal => Shape'
<1> SUFFICES ASSUME Shape, DrainSignal PROVE Shape'
  OBVIOUS
<1>1. events # <<>> /\ EventsOK' /\ events' \in Seq(Event)
  BY ShapeNextEvent DEF DrainSignal, Dispatching
<1>2. TypeOK'
  BY <1>1 DEF DrainSignal, TakeSignal, NextEvent, Shape, TypeOK, SocketsTypeOK, streamVars
<1>3. QueueOK' /\ FdsOK' /\ PcOK'
  BY DEF DrainSignal, Dispatching, TakeSignal, NextEvent, Shape, QueueOK, FdsOK, PcOK, streamVars
<1> QED BY <1>1, <1>2, <1>3 DEF Shape

\* accept_connections returns: on to the next event.
LEMMA ShapeStopAccepting == Shape /\ StopAccepting => Shape'
<1> SUFFICES ASSUME Shape, StopAccepting PROVE Shape'
  OBVIOUS
<1>1. events # <<>> /\ EventsOK' /\ events' \in Seq(Event)
  BY ShapeNextEvent DEF StopAccepting, Shape, PcOK
<1>2. TypeOK'
  BY <1>1 DEF StopAccepting, NextEvent, Shape, TypeOK, SocketsTypeOK, sockVars
<1>3. QueueOK' /\ FdsOK' /\ PcOK'
  BY DEF StopAccepting, NextEvent, Shape, QueueOK, FdsOK, PcOK, sockVars
<1> QED BY <1>1, <1>2, <1>3 DEF Shape

\* handle_connection returns on EAGAIN: on to the next event.
LEMMA ShapeReadDrained == Shape /\ ReadDrained => Shape'
<1> SUFFICES ASSUME Shape, ReadDrained PROVE Shape'
  OBVIOUS
<1>1. events # <<>> /\ EventsOK' /\ events' \in Seq(Event)
  BY ShapeNextEvent DEF ReadDrained, Shape, PcOK
<1>2. TypeOK'
  BY <1>1 DEF ReadDrained, NextEvent, Shape, TypeOK, SocketsTypeOK, sockVars
<1>3. QueueOK' /\ FdsOK' /\ PcOK'
  BY DEF ReadDrained, NextEvent, Shape, QueueOK, FdsOK, PcOK, sockVars
<1> QED BY <1>1, <1>2, <1>3 DEF Shape

\* Steps that only move pc.
LEMMA ShapePcOnly ==
    ASSUME Shape, UNCHANGED <<sockVars, events, buf, running, fdtab, rd, stats, backend>>,
           LeaveLoop \/ StartAccepting \/ StartReading \/ WriteBrokenPipe
    PROVE  Shape'
<1>1. TypeOK' /\ QueueOK' /\ FdsOK'
  BY DEF LeaveLoop, StartAccepting, StartReading, WriteBrokenPipe, Shape, TypeOK, SocketsTypeOK,
         QueueOK, FdsOK, sockVars
<1>2. EventsOK'
  BY DEF Shape, EventsOK, LevelTriggered, EdgeTriggered
<1>3. PcOK'
  BY DEF LeaveLoop, StartAccepting, StartReading, WriteBrokenPipe, Dispatching, Shape, PcOK, fd
<1> QED BY <1>1, <1>2, <1>3 DEF Shape

\* What accept4() takes from the queue, and what stays in it.
LEMMA QueueFacts ==
    ASSUME Shape, backlog # <<>>, NEW side \in Sides, AcceptHead(side)
    PROVE  /\ Head(backlog) \in Conns /\ srv[Head(backlog)] = "queued"
           /\ srv' = [srv EXCEPT ![Head(backlog)] = side]
           /\ SocketsTypeOK' /\ QueueOK'
<1> DEFINE c == Head(backlog)
<1>1. backlog \in Seq(Conns) /\ Len(backlog) \in Nat \ {0} /\ c = backlog[1] /\ c \in Conns
  BY DEF Shape, TypeOK, SocketsTypeOK
<1>2. srv[c] = "queued"
  BY <1>1 DEF Shape, QueueOK
<1>3. /\ backlog' \in Seq(Conns) /\ Len(backlog') = Len(backlog) - 1
      /\ \A i \in 1 .. Len(backlog') : backlog'[i] = backlog[i + 1]
  BY <1>1 DEF AcceptHead
<1>4. srv' = [srv EXCEPT ![c] = side] /\ srv \in [Conns -> Sides]
  BY DEF AcceptHead, Shape, TypeOK, SocketsTypeOK
<1>5. SocketsTypeOK'
  BY <1>3, <1>4 DEF AcceptHead, Shape, TypeOK, SocketsTypeOK, streamVars
<1>6. \A i \in 1 .. Len(backlog') : srv'[backlog'[i]] = "queued"
  <2> SUFFICES ASSUME NEW i \in 1 .. Len(backlog') PROVE srv'[backlog'[i]] = "queued"
    OBVIOUS
  <2>1. i + 1 \in 1 .. Len(backlog) /\ 1 \in 1 .. Len(backlog) /\ i + 1 # 1
    BY <1>1, <1>3
  <2>2. backlog'[i] # c
    BY <1>1, <1>3, <2>1 DEF Shape, QueueOK
  <2>3. backlog'[i] \in Conns /\ srv[backlog'[i]] = "queued"
    BY <1>1, <1>3, <2>1 DEF Shape, QueueOK
  <2> QED BY <1>4, <2>2, <2>3
<1>7. \A i, j \in 1 .. Len(backlog') : backlog'[i] = backlog'[j] => i = j
  BY <1>1, <1>3 DEF Shape, QueueOK
<1> QED BY <1>1, <1>2, <1>4, <1>5, <1>6, <1>7 DEF QueueOK

\* A new connection takes a descriptor that is free, hence one without event.
LEMMA ShapeAcceptOne == Shape /\ AcceptOne => Shape'
<1> SUFFICES ASSUME Shape, AcceptOne PROVE Shape'
  OBVIOUS
<1> DEFINE c == Head(backlog)
<1> PICK f \in Fds \ OpenFds :
      /\ fdtab' = [fdtab EXCEPT ![f] = c]
      /\ rd' = IF Readable(c) THEN rd \union {f} ELSE rd
  BY DEF AcceptOne
<1>1. /\ c \in Conns /\ srv[c] = "queued" /\ srv' = [srv EXCEPT ![c] = "open"]
      /\ SocketsTypeOK' /\ QueueOK'
  BY QueueFacts DEF AcceptOne, Sides
<1>2. fdtab[f] = None /\ f \in Fds /\ fdtab \in [Fds -> Conns \union {None}]
  BY DEF OpenFds, Shape, TypeOK
<1>3. TypeOK'
  <2>1. stats' \in Stats
    BY StatsFacts DEF AcceptOne, Shape, TypeOK
  <2>2. rd' \in SUBSET Handles
    BY <1>2 DEF Shape, TypeOK, Handles
  <2> QED BY <1>1, <1>2, <2>1, <2>2 DEF AcceptOne, Shape, TypeOK
<1>4. FdsOK'
  BY <1>1, <1>2 DEF Shape, FdsOK, TypeOK, SocketsTypeOK
<1>5. EventsOK' /\ PcOK'
  BY <1>1, <1>2 DEF AcceptOne, Shape, EventsOK, PcOK, TypeOK, LevelTriggered, EdgeTriggered, fd
<1> QED BY <1>1, <1>3, <1>4, <1>5 DEF Shape

\* A connection that could not be registered is closed and leaves no trace.
LEMMA ShapeAcceptUnregistered == Shape /\ AcceptUnregistered => Shape'
<1> SUFFICES ASSUME Shape, AcceptUnregistered PROVE Shape'
  OBVIOUS
<1> DEFINE c == Head(backlog)
<1>1. /\ c \in Conns /\ srv[c] = "queued" /\ srv' = [srv EXCEPT ![c] = "closed"]
      /\ SocketsTypeOK' /\ QueueOK'
  BY QueueFacts DEF AcceptUnregistered, Sides
<1>2. TypeOK'
  BY <1>1 DEF AcceptUnregistered, Shape, TypeOK, serverVars
<1>3. FdsOK'
  BY <1>1 DEF AcceptUnregistered, Shape, FdsOK, TypeOK, SocketsTypeOK, serverVars
<1>4. EventsOK' /\ PcOK'
  BY DEF AcceptUnregistered, Shape, EventsOK, PcOK, LevelTriggered, EdgeTriggered, fd, serverVars
<1> QED BY <1>1, <1>2, <1>3, <1>4 DEF Shape

\* close_connection: the descriptor's only event is the one that goes.
LEMMA ShapeClose ==
    ASSUME Shape, events # <<>>, fd \in Fds, CloseConnection
    PROVE  Shape'
<1>1. /\ conn \in Conns /\ srv[conn] = "open" /\ fdtab[fd] = conn
      /\ srv' = [srv EXCEPT ![conn] = "closed"]
      /\ fdtab' = [fdtab EXCEPT ![fd] = None] /\ rd' = rd \ {fd}
      /\ events' = Tail(events) /\ pc' = "loop" /\ buf' = <<>> /\ backend' = backend
  BY HandlerFacts DEF CloseConnection, CloseSide, NextEvent, conn
<1>2. TypeOK'
  <2>1. stats' \in Stats
    BY StatsFacts DEF CloseConnection, Shape, TypeOK
  <2>2. SocketsTypeOK'
    BY <1>1 DEF CloseConnection, CloseSide, Shape, TypeOK, SocketsTypeOK, Sides, streamVars
  <2>3. events' \in Seq(Event)
    BY <1>1, HandlerFacts
  <2> QED BY <1>1, <2>1, <2>2, <2>3 DEF CloseConnection, Shape, TypeOK
<1>3. QueueOK'
  <2>1. backlog' = backlog /\ backlog \in Seq(Conns) /\ srv \in [Conns -> Sides]
    BY DEF CloseConnection, CloseSide, Shape, TypeOK, SocketsTypeOK
  <2>2. \A i \in 1 .. Len(backlog) : backlog[i] # conn /\ srv'[backlog[i]] = "queued"
    BY <1>1, <2>1 DEF Shape, QueueOK
  <2> QED BY <2>1, <2>2 DEF Shape, QueueOK
<1>4. FdsOK'
  BY <1>1, EpollAssumption DEF Shape, FdsOK, TypeOK, SocketsTypeOK
<1>5. EventsOK'
  <2>1. \A i \in 1 .. Len(events') :
          /\ i + 1 \in 1 .. Len(events) /\ events'[i] = events[i + 1]
          /\ events'[i].fd # fd
    BY <1>1, HandlerFacts DEF Shape, TypeOK
  <2>2. fdtab \in [Fds -> Conns \union {None}]
    BY DEF Shape, TypeOK
  <2>3. \A i \in 1 .. Len(events') : events'[i].fd \in Fds =>
          events'[i].conn # None /\ fdtab'[events'[i].fd] = events'[i].conn
    BY <1>1, <2>1, <2>2 DEF Shape, EventsOK
  <2>4. \A i, j \in 1 .. Len(events') : events'[i].fd = events'[j].fd => i = j
    BY <2>1 DEF Shape, EventsOK
  <2>5. \A i \in 1 .. Len(events') : LevelTriggered(events'[i].fd) => events'[i].fd \in rd'
    BY <1>1, <2>1 DEF Shape, EventsOK, LevelTriggered, EdgeTriggered
  <2> QED BY <1>1, <2>3, <2>4, <2>5 DEF EventsOK, LevelTriggered, EdgeTriggered
<1>6. PcOK'
  BY <1>1 DEF PcOK
<1> QED BY <1>2, <1>3, <1>4, <1>5, <1>6 DEF Shape

\* read() fills buffer_ with no more than it holds.
LEMMA ShapeReadData == Shape /\ ReadData => Shape'
<1> SUFFICES ASSUME Shape, ReadData PROVE Shape'
  OBVIOUS
<1>1. conn \in Conns /\ events # <<>> /\ fd \in Fds
  BY HandlerFacts DEF ReadData, Shape, PcOK
<1>2. inq[conn] \in Seq(Bytes) /\ ReadSize \in 0 .. Len(inq[conn])
  BY <1>1, EpollAssumption DEF ReadSize, Shape, TypeOK, SocketsTypeOK
<1>3. buf' \in Seq(Bytes) /\ SubSeq(inq[conn], ReadSize + 1, Len(inq[conn])) \in Seq(Bytes)
  BY <1>2 DEF ReadData
<1>4. stats' \in Stats
  <2>1. ReadSize \in Nat /\ stats \in Stats
    BY <1>2 DEF Shape, TypeOK
  <2> QED BY <2>1, StatsFacts DEF ReadData
<1>5. TypeOK'
  BY <1>1, <1>3, <1>4 DEF ReadData, TakeInput, Shape, TypeOK, SocketsTypeOK
<1>6. QueueOK' /\ FdsOK' /\ EventsOK' /\ PcOK'
  BY <1>1 DEF ReadData, TakeInput, Shape, QueueOK, FdsOK, EventsOK, PcOK, LevelTriggered, EdgeTriggered, fd
<1> QED BY <1>5, <1>6 DEF Shape

\* write() takes a prefix of what is left in buffer_.
LEMMA ShapeWriteSome == Shape /\ WriteSome => Shape'
<1> SUFFICES ASSUME Shape, WriteSome PROVE Shape'
  OBVIOUS
<1>1. conn \in Conns /\ events # <<>> /\ fd \in Fds
  BY HandlerFacts DEF WriteSome, Shape, PcOK
<1> PICK n \in Writable(conn, Len(buf)) :
      /\ PutOutput(conn, SubSeq(buf, 1, n))
      /\ buf' = SubSeq(buf, n + 1, Len(buf))
      /\ IF n = Len(buf) THEN AfterEcho ELSE UNCHANGED <<pc, events>>
  BY DEF WriteSome
<1>2. n \in 1 .. Len(buf) /\ buf \in Seq(Bytes) /\ outq[conn] \in Seq(Bytes)
  BY <1>1, SocketsAssumption DEF Writable, Shape, TypeOK, SocketsTypeOK
<1>3. buf' \in Seq(Bytes) /\ outq[conn] \o SubSeq(buf, 1, n) \in Seq(Bytes)
  BY <1>2
<1>4. n = Len(buf) => buf' = <<>>
  BY <1>2
<1>5. events' \in Seq(Event) /\ pc' \in {"read", "write", "loop"} /\ EventsOK'
  <2>1. CASE events' = events
    BY <2>1 DEF WriteSome, AfterEcho, NextEvent, Shape, TypeOK, EventsOK, LevelTriggered, EdgeTriggered
  <2>2. CASE NextEvent
    BY <1>1, <2>2, ShapeNextEvent DEF WriteSome, NextEvent
  <2> QED BY <2>1, <2>2 DEF AfterEcho
<1>6. TypeOK'
  BY <1>1, <1>3, <1>5 DEF WriteSome, PutOutput, Shape, TypeOK, SocketsTypeOK
<1>7. QueueOK' /\ FdsOK'
  BY DEF WriteSome, PutOutput, Shape, QueueOK, FdsOK
<1>8. PcOK'
  BY <1>1, <1>4 DEF WriteSome, AfterEcho, NextEvent, Shape, PcOK, fd
<1> QED BY <1>5, <1>6, <1>7, <1>8 DEF Shape

\* The environment does not touch what the server keeps, except that it may
\* put descriptors on the ready list.
LEMMA ShapeEnvironment ==
    ASSUME Shape, SocketsTypeOK', QueueOK',
           UNCHANGED <<pc, events, buf, running, fdtab, stats, backend>>,
           rd \subseteq rd', rd' \subseteq Handles,
           \A c \in Conns : srv[c] = "open" => srv'[c] = "open"
    PROVE  Shape'
<1>1. TypeOK'
  BY DEF Shape, TypeOK
<1>2. FdsOK'
  BY DEF Shape, FdsOK, TypeOK
<1>3. EventsOK' /\ PcOK'
  BY DEF Shape, EventsOK, PcOK, LevelTriggered, EdgeTriggered, fd
<1> QED BY <1>1, <1>2, <1>3 DEF Shape

\* A new client goes to the end of the queue, where it was not before.
LEMMA ShapeConnect ==
    ASSUME Shape, NEW c \in Conns, Connect(c), Wake({Listener})
    PROVE  Shape'
<1>1. SocketsTypeOK' /\ QueueOK'
  BY ConnectKeepsQueue DEF Shape, TypeOK
<1>2. rd' = rd \union {Listener} /\ rd' \subseteq Handles
  BY DEF Wake, Shape, TypeOK, Handles
<1>3. \A d \in Conns : srv[d] = "open" => srv'[d] = "open"
  BY DEF Connect, Shape, TypeOK, SocketsTypeOK
<1> QED BY <1>1, <1>2, <1>3, ShapeEnvironment DEF Wake

\* The other steps of a client leave the queue and the server's sides alone.
LEMMA ShapeClient ==
    ASSUME Shape, NEW c \in Conns,
           \/ ClientSend(c) /\ Wake(FdsOf(c))
           \/ ClientClose(c) /\ Wake(FdsOf(c))
           \/ PeerReset(c) /\ Wake(FdsOf(c))
           \/ ClientRecv(c) /\ UNCHANGED serverVars
           \/ Signal /\ Wake({SignalFd})
    PROVE  Shape'
<1>1. backlog' = backlog /\ srv' = srv
  BY DEF ClientSend, ClientClose, PeerReset, ClientRecv, Signal
<1>2. QueueOK'
  BY <1>1 DEF Shape, QueueOK
<1>3. SocketsTypeOK'
  <2>1. CASE ClientSend(c)
    <3>1. <<c, sent[c] + 1>> \in Bytes /\ inq[c] \in Seq(Bytes)
      BY DEF Bytes, Shape, TypeOK, SocketsTypeOK
    <3>2. Append(inq[c], <<c, sent[c] + 1>>) \in Seq(Bytes)
      BY <3>1
    <3> QED BY <2>1, <3>2 DEF ClientSend, Shape, TypeOK, SocketsTypeOK
  <2>2. CASE ClientRecv(c)
    <3>1. outq[c] \in Seq(Bytes) /\ got[c] \in Seq(Bytes) /\ outq[c] # <<>>
      BY <2>2 DEF ClientRecv, Shape, TypeOK, SocketsTypeOK
    <3>2. Append(got[c], Head(outq[c])) \in Seq(Bytes) /\ Tail(outq[c]) \in Seq(Bytes)
      BY <3>1
    <3> QED BY <2>2, <3>2 DEF ClientRecv, Shape, TypeOK, SocketsTypeOK
  <2>3. CASE ClientClose(c) \/ PeerReset(c) \/ Signal
    BY <2>3 DEF ClientClose, PeerReset, Signal, Shape, TypeOK, SocketsTypeOK, Links, streamVars
  <2> QED BY <2>1, <2>2, <2>3
<1>4. rd \subseteq rd' /\ rd' \subseteq Handles
  BY DEF Wake, FdsOf, Handles, serverVars, Shape, TypeOK
<1>5. UNCHANGED <<pc, events, buf, running, fdtab, stats, backend>>
  BY DEF Wake, serverVars
<1> QED BY <1>1, <1>2, <1>3, <1>4, <1>5, ShapeEnvironment

\* Every step of the server and of its environment preserves Shape.
LEMMA ShapeStep == Shape /\ [Next]_vars => Shape'
<1> SUFFICES ASSUME Shape, [Next]_vars PROVE Shape'
  OBVIOUS
<1>1. CASE EpollWait
  BY <1>1, ShapeEpollWait
<1>2. CASE LeaveLoop \/ StartAccepting \/ StartReading \/ WriteBrokenPipe
  BY <1>2, ShapePcOnly DEF LeaveLoop, StartAccepting, StartReading, WriteBrokenPipe
<1>3. CASE DrainSignal
  BY <1>3, ShapeDrainSignal
<1>4. CASE AcceptOne
  BY <1>4, ShapeAcceptOne
<1>5. CASE AcceptUnregistered
  BY <1>5, ShapeAcceptUnregistered
<1>6. CASE StopAccepting
  BY <1>6, ShapeStopAccepting
<1>7. CASE OnHangup \/ ReadEnd \/ WriteError
  BY <1>7, ShapeClose DEF OnHangup, ReadEnd, WriteError, Shape, PcOK
<1>8. CASE ReadData
  BY <1>8, ShapeReadData
<1>9. CASE ReadDrained
  BY <1>9, ShapeReadDrained
<1>10. CASE WriteSome
  BY <1>10, ShapeWriteSome
<1>11. ASSUME NEW c \in Conns, ClientStep(c) \/ ClientReads(c) \/ ResetArrives(c)
       PROVE  Shape'
  BY <1>11, ShapeConnect, ShapeClient DEF ClientStep, ClientReads, ResetArrives
<1>12. CASE SignalArrives
  <2>1. CASE Conns = {}
    BY <1>12, <2>1, ShapeEnvironment DEF SignalArrives, Signal, Wake, Shape, TypeOK, SocketsTypeOK,
          QueueOK, Handles, streamVars
  <2>2. CASE Conns # {}
    BY <1>12, <2>2, ShapeClient DEF SignalArrives
  <2> QED BY <2>1, <2>2
<1>13. CASE UNCHANGED vars
  BY <1>13 DEF vars, sockVars, serverVars, Shape, TypeOK, SocketsTypeOK, QueueOK, FdsOK, EventsOK,
               PcOK, LevelTriggered, EdgeTriggered, fd
<1> QED BY <1>1, <1>2, <1>3, <1>4, <1>5, <1>6, <1>7, <1>8, <1>9, <1>10, <1>11, <1>12, <1>13
        DEF Next, ServerStep, Terminated

\* Both epoll backends keep their shape: queue, descriptor table, batch of
\* events and program counter agree at every point between two system calls.
THEOREM ShapeInvariant == Spec => []Shape
<1>1. Init => Shape
  BY InitShape
<1>2. Shape /\ [Next]_vars => Shape'
  BY ShapeStep
<1> QED BY <1>1, <1>2, PTL DEF Spec

\* Every variable keeps its type in both epoll backends: no handler runs on a
\* descriptor that stands for no connection, no call returns more than the
\* buffers hold.
THEOREM TypeCorrect == Spec => []TypeOK
<1>1. Shape => TypeOK
  BY DEF Shape
<1> QED BY <1>1, ShapeInvariant, PTL

\* An event is always handled for the connection epoll reported it for,
\* however descriptors are closed and reused while a batch is processed.
THEOREM NoStaleEventHolds == Spec => []NoStaleEvent
<1>1. Shape => NoStaleEvent
  BY DEF Shape, EventsOK, NoStaleEvent
<1> QED BY <1>1, ShapeInvariant, PTL

-----------------------------------------------------------------------------
(* No wake-up is lost.  NoLostWakeup is inductive once Shape is known: the  *)
(* event that goes is the head of the batch, and a handler lets it go only  *)
(* when its descriptor is drained, closed, or level-triggered and therefore *)
(* still on the ready list.                                                 *)

Reported(f) == \E i \in 1 .. Len(events) : events[i].fd = f

\* Moving on to the next event forgets only the event at the head.
LEMMA StillReported ==
    ASSUME Shape, events # <<>>, events' = Tail(events), NEW f, f # fd, Reported(f)
    PROVE  Reported(f)'
<1>1. events \in Seq(Event) /\ Len(events) \in Nat
  BY DEF Shape, TypeOK
<1> PICK i \in 1 .. Len(events) : events[i].fd = f
  BY DEF Reported
<1>2. i # 1
  BY HandlerFacts DEF fd
<1>3. i - 1 \in 1 .. Len(events') /\ events'[i - 1].fd = f
  BY <1>1, <1>2, HandlerFacts
<1> QED BY <1>3 DEF Reported

\* The event at the head is reported.
LEMMA HeadReported ==
    ASSUME Shape, events # <<>>
    PROVE  Reported(fd)
<1>1. 1 \in 1 .. Len(events) /\ events[1].fd = fd
  BY HandlerFacts DEF fd, Shape, TypeOK
<1> QED BY <1>1 DEF Reported

\* A step at the end of an event: it must leave the event's own descriptor
\* either with nothing to poll for or on the ready list.
LEMMA WakeupNextEvent ==
    ASSUME Shape, NoLostWakeup, Up, events # <<>>, events' = Tail(events),
           \A f \in Handles \ {fd} : (f \in rd => f \in rd') /\ (Poll(f)' => Poll(f)),
           \A f \in {fd} : Poll(f)' => f \in rd'
    PROVE  NoLostWakeup'
<1> SUFFICES ASSUME NEW f \in Handles, Poll(f)' PROVE f \in rd' \/ Reported(f)'
  BY DEF NoLostWakeup, Reported, Handles
<1>1. CASE f = fd
  BY <1>1
<1>2. CASE f # fd
  <2>1. f \in rd \/ Reported(f)
    BY <1>2 DEF NoLostWakeup, Reported
  <2> QED BY <1>2, <2>1, StillReported
<1> QED BY <1>1, <1>2

\* A step that keeps the batch: what is newly pollable must be on the ready
\* list or be the descriptor at work.
LEMMA WakeupSameBatch ==
    ASSUME Shape, NoLostWakeup, Up, events' = events,
           rd \subseteq rd',
           \A f \in Handles : Poll(f)' => Poll(f) \/ f \in rd' \/ (events # <<>> /\ f = fd)
    PROVE  NoLostWakeup'
<1> SUFFICES ASSUME NEW f \in Handles, Poll(f)' PROVE f \in rd' \/ Reported(f)'
  BY DEF NoLostWakeup, Reported, Handles
<1>1. Reported(f)' <=> Reported(f)
  BY DEF Reported
<1>2. CASE Poll(f)
  BY <1>1, <1>2 DEF NoLostWakeup, Reported
<1>3. CASE events # <<>> /\ f = fd
  BY <1>1, <1>3, HeadReported
<1> QED BY <1>2, <1>3

\* epoll_wait takes a descriptor off the ready list only to report it, or
\* because there is nothing to report.
LEMMA WakeupEpollWait == Shape /\ NoLostWakeup /\ EpollWait => NoLostWakeup'
<1> SUFFICES ASSUME Shape, NoLostWakeup, EpollWait, NEW f \in Handles, Poll(f)'
             PROVE  f \in rd' \/ Reported(f)'
  BY DEF NoLostWakeup, Reported, Handles
<1> PICK b \in Batches :
      /\ events' = [i \in 1 .. BatchSize |-> Report(b[i])]
      /\ rd' = {g \in Ready : LevelTriggered(g) \/ g \notin {b[i] : i \in 1 .. BatchSize}}
  BY DEF EpollWait
<1>1. BatchSize \in Nat /\ Len(events') = BatchSize
  BY BatchFacts
<1>2. Poll(f)
  BY DEF EpollWait, sockVars, Poll, OpenFds, Readable, Gone
<1>3. f \in Ready
  BY <1>2 DEF EpollWait, NoLostWakeup, Up, Ready
<1>4. CASE f \in rd'
  BY <1>4
<1>5. CASE f \notin rd'
  <2> PICK i \in 1 .. BatchSize : f = b[i]
    BY <1>3, <1>5
  <2>1. events'[i].fd = f
    BY DEF Report
  <2> QED BY <1>1, <2>1 DEF Reported
<1> QED BY <1>4, <1>5

\* accept4 shortens the queue and registers the new descriptor, which ADD puts
\* on the ready list if there is something to read already.
LEMMA WakeupAcceptOne == Shape /\ NoLostWakeup /\ AcceptOne => NoLostWakeup'
<1> SUFFICES ASSUME Shape, NoLostWakeup, AcceptOne PROVE NoLostWakeup'
  OBVIOUS
<1> DEFINE c == Head(backlog)
<1> PICK f \in Fds \ OpenFds :
      /\ fdtab' = [fdtab EXCEPT ![f] = c]
      /\ rd' = IF Readable(c) THEN rd \union {f} ELSE rd
  BY DEF AcceptOne
<1>1. fdtab \in [Fds -> Conns \union {None}] /\ backlog # <<>>
  BY DEF Shape, TypeOK, AcceptOne
<1>2. inq' = inq /\ link' = link /\ sig' = sig
  BY DEF AcceptOne, AcceptHead, streamVars
<1>3. \A g \in Handles : Poll(g)' => Poll(g) \/ g \in rd'
  BY <1>1, <1>2, EpollAssumption DEF Poll, OpenFds, Readable, Gone, Handles
<1> QED BY <1>3, WakeupSameBatch DEF AcceptOne, Up

\* close_connection: a closed descriptor has nothing to report.
LEMMA WakeupClose ==
    ASSUME Shape, NoLostWakeup, Up, events # <<>>, fd \in Fds, CloseConnection
    PROVE  NoLostWakeup'
<1>1. /\ fdtab' = [fdtab EXCEPT ![fd] = None] /\ rd' = rd \ {fd}
      /\ events' = Tail(events)
      /\ backlog' = backlog /\ inq' = inq /\ link' = link /\ sig' = sig
  BY DEF CloseConnection, CloseSide, NextEvent, streamVars
<1>2. fdtab \in [Fds -> Conns \union {None}]
  BY DEF Shape, TypeOK
<1>3. \A f \in {fd} : ~Poll(f)'
  BY <1>1, <1>2, EpollAssumption DEF Poll, OpenFds
<1>4. \A f \in Handles \ {fd} : (f \in rd => f \in rd') /\ (Poll(f)' => Poll(f))
  BY <1>1, <1>2 DEF Poll, OpenFds, Readable, Gone
<1> QED BY <1>1, <1>3, <1>4, WakeupNextEvent

\* read() leaves the event in the batch, so what is unread stays reported.
LEMMA WakeupReadData == Shape /\ NoLostWakeup /\ ReadData => NoLostWakeup'
<1> SUFFICES ASSUME Shape, NoLostWakeup, ReadData PROVE NoLostWakeup'
  OBVIOUS
<1>1. conn \in Conns /\ events # <<>> /\ fd \in Fds /\ fdtab[fd] = conn
  BY HandlerFacts DEF ReadData, Shape, PcOK, conn
<1>2. /\ fdtab' = fdtab /\ rd' = rd /\ events' = events
      /\ backlog' = backlog /\ link' = link /\ sig' = sig
      /\ \A c \in Conns : c # conn => inq'[c] = inq[c]
  BY <1>1 DEF ReadData, TakeInput, Shape, TypeOK, SocketsTypeOK
<1>3. \A f \in Handles : Poll(f)' => Poll(f) \/ f = fd
  <2> SUFFICES ASSUME NEW f \in Handles, Poll(f)', f # fd PROVE Poll(f)
    OBVIOUS
  <2>1. CASE f \in OpenFds
    <3>1. fdtab[f] # conn /\ fdtab[f] \in Conns
      BY <1>1, <2>1, EpollAssumption DEF OpenFds, Shape, FdsOK, TypeOK
    <3> QED BY <1>2, <2>1, <3>1 DEF Poll, OpenFds, Readable, Gone
  <2>2. CASE f \notin OpenFds
    BY <1>2, <2>2 DEF Poll, OpenFds
  <2> QED BY <2>1, <2>2
<1> QED BY <1>1, <1>2, <1>3, WakeupSameBatch DEF ReadData, Up

\* epoll-lt leaves the event after one echo: its descriptor is still on the
\* ready list.  epoll-et reads on.
LEMMA WakeupWriteSome == Shape /\ NoLostWakeup /\ WriteSome => NoLostWakeup'
<1> SUFFICES ASSUME Shape, NoLostWakeup, WriteSome PROVE NoLostWakeup'
  OBVIOUS
<1>1. events # <<>> /\ Up
  BY DEF WriteSome, Shape, PcOK, Up
<1>2. /\ fdtab' = fdtab /\ rd' = rd /\ backlog' = backlog /\ inq' = inq /\ link' = link /\ sig' = sig
      /\ events' = events \/ (~EdgeTriggered /\ events' = Tail(events))
  BY DEF WriteSome, PutOutput, AfterEcho, NextEvent
<1>3. \A f \in Handles : Poll(f)' => Poll(f)
  BY <1>2 DEF Poll, OpenFds, Readable, Gone
<1>4. CASE events' = events
  BY <1>1, <1>2, <1>3, <1>4, WakeupSameBatch
<1>5. CASE ~EdgeTriggered /\ events' = Tail(events)
  <2>1. 1 \in 1 .. Len(events) /\ events[1].fd = fd
    BY <1>1, HandlerFacts DEF fd, Shape, TypeOK
  <2>2. fd \in rd
    BY <1>5, <2>1 DEF Shape, EventsOK, LevelTriggered, EdgeTriggered
  <2> QED BY <1>1, <1>2, <1>3, <1>5, <2>2, WakeupNextEvent
<1> QED BY <1>2, <1>4, <1>5

\* Whatever makes a descriptor pollable puts it on the ready list.
LEMMA WakeupEnvironment ==
    ASSUME Shape, NoLostWakeup, Up,
           \/ \E c \in Conns : \/ Connect(c) /\ Wake({Listener})
                               \/ ClientSend(c) /\ Wake(FdsOf(c))
                               \/ ClientClose(c) /\ Wake(FdsOf(c))
                               \/ PeerReset(c) /\ Wake(FdsOf(c))
                               \/ ClientRecv(c) /\ UNCHANGED serverVars
           \/ Signal /\ Wake({SignalFd})
    PROVE  NoLostWakeup'
<1>1. events' = events /\ rd \subseteq rd' /\ fdtab' = fdtab /\ OpenFds' = OpenFds
  BY DEF Wake, serverVars, OpenFds
<1>2. \A f \in OpenFds : f \in Fds /\ fdtab[f] \in Conns
  BY DEF OpenFds, Shape, TypeOK
<1>3. link \in [Conns -> Links] /\ inq \in [Conns -> Seq(Bytes)]
  BY DEF Shape, TypeOK, SocketsTypeOK
<1>4. \A f \in Handles : Poll(f)' => Poll(f) \/ f \in rd'
  <2>1. CASE Signal /\ Wake({SignalFd})
    BY <1>1, <1>2, <2>1 DEF Signal, Wake, Poll, Readable, Gone, streamVars
  <2>2. ASSUME NEW c \in Conns, Connect(c) /\ Wake({Listener})
        PROVE  \A f \in Handles : Poll(f)' => Poll(f) \/ f \in rd'
    <3>1. \A d \in Conns : Gone(d)' => Gone(d)
      BY <1>3, <2>2 DEF Connect, Gone
    <3> QED BY <1>1, <1>2, <2>2, <3>1 DEF Connect, Wake, Poll, Readable, streamVars
  <2>3. ASSUME NEW c \in Conns, ClientSend(c) \/ ClientClose(c) \/ PeerReset(c), Wake(FdsOf(c))
        PROVE  \A f \in Handles : Poll(f)' => Poll(f) \/ f \in rd'
    <3>1. \A d \in Conns \ {c} : link'[d] = link[d] /\ inq'[d] = inq[d]
      BY <1>3, <2>3 DEF ClientSend, ClientClose, PeerReset, streamVars
    <3>2. backlog' = backlog /\ sig' = sig
      BY <2>3 DEF ClientSend, ClientClose, PeerReset
    <3>3. \A f \in OpenFds : fdtab[f] = c => f \in rd'
      BY <1>2, <2>3 DEF Wake, FdsOf
    <3> QED BY <1>1, <1>2, <3>1, <3>2, <3>3 DEF Poll, Readable, Gone
  <2>4. ASSUME NEW c \in Conns, ClientRecv(c), UNCHANGED serverVars
        PROVE  \A f \in Handles : Poll(f)' => Poll(f) \/ f \in rd'
    BY <1>1, <2>4 DEF ClientRecv, Poll, Readable, Gone
  <2> QED BY <2>1, <2>2, <2>3, <2>4
<1> QED BY <1>1, <1>4, WakeupSameBatch

\* Every step keeps the promise.
LEMMA WakeupStep == Shape /\ NoLostWakeup /\ [Next]_vars => NoLostWakeup'
<1> SUFFICES ASSUME Shape, NoLostWakeup, [Next]_vars PROVE NoLostWakeup'
  OBVIOUS
<1>1. CASE EpollWait
  BY <1>1, WakeupEpollWait
<1>2. CASE LeaveLoop \/ WriteBrokenPipe
  BY <1>2 DEF LeaveLoop, WriteBrokenPipe, NoLostWakeup, Up
<1>3. CASE DrainSignal
  <2>1. /\ events # <<>> /\ fd = SignalFd /\ Up /\ events' = Tail(events) /\ sig' = "taken"
        /\ backlog' = backlog /\ link' = link /\ inq' = inq /\ fdtab' = fdtab /\ rd' = rd
    BY <1>3 DEF DrainSignal, Dispatching, TakeSignal, NextEvent, Up, streamVars
  <2>2. /\ \A f \in {fd} : ~Poll(f)'
        /\ \A f \in Handles \ {fd} : Poll(f)' => Poll(f)
    BY <2>1, EpollAssumption DEF Poll, OpenFds, Readable, Gone
  <2> QED BY <2>1, <2>2, WakeupNextEvent
<1>4. CASE AcceptOne
  BY <1>4, WakeupAcceptOne
<1>5. CASE AcceptUnregistered
  <2>1. /\ backlog # <<>> /\ UNCHANGED serverVars /\ Up
        /\ inq' = inq /\ link' = link /\ sig' = sig
    BY <1>5 DEF AcceptUnregistered, AcceptHead, Up, streamVars
  <2>2. \A f \in Handles : Poll(f)' => Poll(f)
    BY <2>1 DEF Poll, OpenFds, Readable, Gone, serverVars
  <2> QED BY <2>1, <2>2, WakeupSameBatch DEF serverVars
<1>6. CASE StopAccepting
  <2>1. /\ events # <<>> /\ fd = Listener /\ Up /\ events' = Tail(events)
        /\ UNCHANGED <<sockVars, fdtab, rd>>
    BY <1>6 DEF StopAccepting, NextEvent, Up, Shape, PcOK
  <2>2. 1 \in 1 .. Len(events) /\ events[1].fd = fd
    BY <2>1, HandlerFacts DEF fd, Shape, TypeOK
  <2>3. fd \in rd'
    BY <2>1, <2>2, EpollAssumption DEF Shape, EventsOK, LevelTriggered, EdgeTriggered
  <2>4. \A f \in Handles : Poll(f)' => Poll(f)
    BY <2>1 DEF Poll, OpenFds, Readable, Gone, sockVars
  <2> QED BY <2>1, <2>3, <2>4, WakeupNextEvent
<1>7. CASE OnHangup \/ ReadEnd \/ WriteError
  BY <1>7, WakeupClose DEF OnHangup, ReadEnd, WriteError, Shape, PcOK, Up
<1>8. CASE ReadData
  BY <1>8, WakeupReadData
<1>9. CASE ReadDrained
  <2>1. /\ events # <<>> /\ fd \in Fds /\ Up /\ events' = Tail(events)
        /\ UNCHANGED <<sockVars, fdtab, rd>>
    BY <1>9 DEF ReadDrained, NextEvent, Up, Shape, PcOK
  <2>2. conn \in Conns /\ inq[conn] \in Seq(Bytes)
    BY <2>1, HandlerFacts DEF Shape, TypeOK, SocketsTypeOK
  <2>3. ~Readable(conn)
    BY <1>9, <2>2 DEF ReadDrained, ReadSize, Readable
  <2>4. \A f \in {fd} : ~Poll(f)'
    BY <2>1, <2>3, EpollAssumption DEF Poll, OpenFds, Readable, Gone, sockVars, conn
  <2>5. \A f \in Handles : Poll(f)' => Poll(f)
    BY <2>1 DEF Poll, OpenFds, Readable, Gone, sockVars
  <2> QED BY <2>1, <2>4, <2>5, WakeupNextEvent
<1>10. CASE WriteSome
  BY <1>10, WakeupWriteSome
<1>11. ASSUME NEW c \in Conns, ClientStep(c) \/ ClientReads(c) \/ ResetArrives(c)
       PROVE  NoLostWakeup'
  BY <1>11, WakeupEnvironment DEF ClientStep, ClientReads, ResetArrives
<1>12. CASE SignalArrives
  BY <1>12, WakeupEnvironment DEF SignalArrives
<1>13. CASE StartAccepting \/ StartReading
  <2>1. Up /\ UNCHANGED <<sockVars, events, fdtab, rd>>
    BY <1>13 DEF StartAccepting, StartReading, Dispatching, Up
  <2>2. \A f \in Handles : Poll(f)' => Poll(f)
    BY <2>1 DEF Poll, OpenFds, Readable, Gone, sockVars
  <2> QED BY <2>1, <2>2, WakeupSameBatch
<1>14. CASE UNCHANGED vars
  BY <1>14 DEF vars, sockVars, serverVars, NoLostWakeup, Up, Poll, OpenFds, Readable, Gone
<1> QED BY <1>1, <1>2, <1>3, <1>4, <1>5, <1>6, <1>7, <1>8, <1>9, <1>10, <1>11, <1>12, <1>13, <1>14
        DEF Next, ServerStep, Terminated

\* In both trigger modes, for any batch and buffer size, nothing the server
\* must react to is ever forgotten: whatever is pollable is on epoll's ready
\* list or in the batch being handled.
THEOREM NoLostWakeupHolds == Spec => []NoLostWakeup
<1>1. Init => NoLostWakeup
  BY DEF Init, SocketsInit, NoLostWakeup, Poll, OpenFds
<1>2. Shape /\ NoLostWakeup /\ [Next]_vars => NoLostWakeup'
  BY WakeupStep
<1> QED BY <1>1, <1>2, ShapeInvariant, PTL DEF Spec
=============================================================================
