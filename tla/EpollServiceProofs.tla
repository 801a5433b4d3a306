------------------------ MODULE EpollServiceProofs ------------------------
(***************************************************************************)
(* What both epoll backends do for their clients, for any number of        *)
(* clients, descriptors and bytes and any buffer and batch size: no byte   *)
(* is lost, a connection is dropped only when its client is gone, the      *)
(* counters match the descriptors, and EchoService is implemented.         *)
(*                                                                         *)
(* The inductive invariant, Inv, adds to Shape (EpollServerProofs) the     *)
(* state of the connections (SockOK) and what links it to the server's:    *)
(* where the bytes that were read are, why an event says EPOLLHUP, that    *)
(* the loop ends only for a signal, and the count of open descriptors.     *)
(* The counter of bytes has an invariant of its own, Tally.                *)
(***************************************************************************)
EXTENDS EpollServerProofs

-----------------------------------------------------------------------------
(* The inductive invariant *)

\* write_all still has something to write.
BufOK == pc = "write" => buf # <<>>

\* What was read of a connection and not written is in buffer_.
DataOK ==
    \A c \in Conns : pc # "killed" /\ srv[c] # "closed" => Whole(c, InFlight(c))

\* EPOLLHUP was reported for a connection that received a RST, and nothing
\* repairs it; the signalfd is reported only after a signal.
CauseOK ==
    \A i \in 1 .. Len(events) :
        /\ events[i].fd \in Fds /\ events[i].hup => HungUp(events[i].conn)
        /\ events[i].fd = SignalFd => sig # "none"

\* running_ is cleared only by drain_signal.
StopOK == running \/ sig = "taken"

\* A connection the kernel has open has a descriptor in the table.
OpenOK == \A c \in Conns : srv[c] = "open" => \E f \in Fds : fdtab[f] = c

CountOK == stats.accepted = stats.closed + Cardinality(OpenFds)

Service == SockOK /\ BufOK /\ DataOK /\ CauseOK /\ StopOK /\ OpenOK /\ CountOK

Inv == Shape /\ Service

-----------------------------------------------------------------------------
\* The descriptor table is finite.
LEMMA OpenFinite == IsFiniteSet(OpenFds) /\ Cardinality(OpenFds) \in Nat
BY EpollAssumption, FS_Subset, FS_CardinalityType DEF OpenFds

\* The counters as numbers, and how they change.
LEMMA StatsMove ==
    ASSUME NEW st \in Stats, NEW n \in Nat
    PROVE  /\ st.accepted \in Nat /\ st.closed \in Nat
           /\ [st EXCEPT !.accepted = @ + 1].accepted = st.accepted + 1
           /\ [st EXCEPT !.accepted = @ + 1].closed = st.closed
           /\ [st EXCEPT !.closed = @ + 1].accepted = st.accepted
           /\ [st EXCEPT !.closed = @ + 1].closed = st.closed + 1
           /\ [st EXCEPT !.requests = @ + 1, !.bytes = @ + n].accepted = st.accepted
           /\ [st EXCEPT !.requests = @ + 1, !.bytes = @ + n].closed = st.closed
BY DEF Stats

\* start() establishes the invariant.
LEMMA InitInv == Init => Inv
<1> SUFFICES ASSUME Init PROVE Inv
  OBVIOUS
<1>1. Shape
  BY InitShape
<1> USE DEF Init, SocketsInit
<1>2. \A c \in Conns : Reply(c) = <<>> /\ Stream(c) = <<>> /\ inq[c] = <<>> /\ InFlight(c) = <<>>
  BY DEF Reply, Stream, InFlight
<1>3. SockOK
  <2>1. QueueOK /\ LinkOK
    BY DEF QueueOK, LinkOK
  <2>2. ReplyOK
    BY <1>2, PrefixZero, \A c \in Conns : sent[c] = 0 DEF ReplyOK
  <2> QED
    BY <1>1, <2>1, <2>2 DEF SockOK, Shape, TypeOK
<1>4. BufOK /\ CauseOK /\ StopOK /\ OpenOK
  BY DEF BufOK, CauseOK, StopOK, OpenOK
<1>5. DataOK
  <2>1. <<>> \o <<>> \o <<>> = <<>>
    OBVIOUS
  <2> HIDE DEF Init, SocketsInit
  <2> QED
    BY <1>2, <2>1 DEF DataOK, Whole
<1>6. CountOK
  <2>1. OpenFds = {}
    BY DEF OpenFds
  <2>2. stats.accepted = 0 /\ stats.closed = 0
    OBVIOUS
  <2> QED
    BY <2>1, <2>2, FS_EmptySet DEF CountOK
<1> QED
  BY <1>1, <1>3, <1>4, <1>5, <1>6 DEF Inv, Service

\* A step that moves no byte leaves what is held of every connection.
LEMMA SameStreams ==
    ASSUME UNCHANGED <<sent, inq, outq, got>>, NEW c, InFlight(c)' = InFlight(c)
    PROVE  Whole(c, InFlight(c))' <=> Whole(c, InFlight(c))
BY DEF Whole, Reply, Stream

\* Outside write_all nothing is in flight.
LEMMA NothingInFlight ==
    ASSUME NEW c, pc # "write"
    PROVE  InFlight(c) = <<>>
BY DEF InFlight

\* An event keeps its cause when the batch is cut and when it stays.
LEMMA CauseStays ==
    ASSUME Inv, SocketsTypeOK',
           events' = events \/ (events # <<>> /\ events' = Tail(events)),
           \A c \in Conns : HungUp(c) => HungUp(c)',
           sig # "none" => sig' # "none"
    PROVE  CauseOK'
<1>1. Shape /\ CauseOK /\ events \in Seq(Event)
  BY DEF Inv, Service, Shape, TypeOK
<1>2. \A i \in 1 .. Len(events) :
         /\ events[i].fd \in Fds => events[i].conn \in Conns
         /\ events[i].fd \in Fds /\ events[i].hup => link'[events[i].conn] \in {"reset", "broken"}
         /\ events[i].fd = SignalFd => sig' # "none"
  <2> SUFFICES ASSUME NEW i \in 1 .. Len(events)
               PROVE  /\ events[i].fd \in Fds => events[i].conn \in Conns
                      /\ events[i].fd \in Fds /\ events[i].hup
                            => link'[events[i].conn] \in {"reset", "broken"}
                      /\ events[i].fd = SignalFd => sig' # "none"
    OBVIOUS
  <2>1. events[i].conn \in Conns \union {None}
    <3>1. events[i] \in Event
      BY <1>1, ElementOfSeq
    <3> QED
      BY <3>1 DEF Event
  <2>2. events[i].fd \in Fds => events[i].conn \in Conns
    BY <1>1, <2>1 DEF Shape, EventsOK
  <2>3. events[i].fd \in Fds /\ events[i].hup => HungUp(events[i].conn)
    BY <1>1 DEF CauseOK
  <2>4. \A c \in Conns : HungUp(c) => link'[c] \in {"reset", "broken"}
    BY DEF HungUp
  <2>5. events[i].fd = SignalFd => sig' # "none"
    BY <1>1 DEF CauseOK
  <2> QED
    BY <2>2, <2>3, <2>4, <2>5
<1>3. CASE events' = events
  BY <1>2, <1>3 DEF CauseOK, HungUp
<1>4. CASE events # <<>> /\ events' = Tail(events)
  <2>1. /\ Len(events') = Len(events) - 1 /\ Len(events) \in Nat
        /\ \A i \in 1 .. Len(events') : events'[i] = events[i + 1]
    BY <1>1, <1>4, HandlerFacts, LenProperties
  <2>2. \A i \in 1 .. Len(events') : i + 1 \in 1 .. Len(events)
    BY <1>1, <2>1
  <2> QED
    BY <1>2, <2>1, <2>2 DEF CauseOK, HungUp
<1> QED
  BY <1>3, <1>4

\* Whatever a client does, the server's view of its connections stays.
LEMMA ClientKeepsService ==
    ASSUME Inv, NEW c \in Conns, ClientAct(c),
           UNCHANGED <<pc, events, buf, running, fdtab, stats>>
    PROVE  Service'
<1>1. SockOK /\ SocketsTypeOK /\ Shape
  BY DEF Inv, Service, SockOK
<1>2. SockOK'
  BY <1>1, ClientKeepsSock
<1>3. CauseOK'
  BY <1>1, <1>2, GoneStays, CauseStays DEF SockOK
<1>4. BufOK' /\ StopOK'
  BY <1>1, GoneStays DEF Inv, Service, BufOK, StopOK
<1>5. OpenOK' /\ CountOK'
  BY <1>1, GoneStays DEF Inv, Service, OpenOK, CountOK, OpenFds
<1>6. DataOK'
  <2> SUFFICES ASSUME NEW d \in Conns, pc # "killed", srv'[d] # "closed"
               PROVE  Whole(d, InFlight(d))'
    BY DEF DataOK
  <2>1. Whole(d, InFlight(d))
    BY <1>1, GoneStays DEF Inv, Service, DataOK
  <2>2. InFlight(d) \in Seq(Bytes) /\ InFlight(d)' = InFlight(d)
    BY <1>1 DEF InFlight, conn, fd, Shape, TypeOK
  <2>3. Reply(d)' \o InFlight(d) \o inq'[d] = Stream(d)'
    BY <1>1, <2>1, <2>2, ClientKeepsWhole
  <2> QED
    BY <2>2, <2>3 DEF Whole
<1> QED
  BY <1>2, <1>3, <1>4, <1>5, <1>6 DEF Service

\* A signal arrives, or is read by drain_signal.
LEMMA SignalKeepsService ==
    ASSUME Inv,
           \/ Signal /\ UNCHANGED <<pc, events, running>>
           \/ DrainSignal,
           UNCHANGED <<buf, fdtab, stats>>
    PROVE  Service'
<1>1. UNCHANGED <<backlog, link, srv, sent, inq, outq, got>> /\ sig' # "none"
  BY DEF Signal, DrainSignal, TakeSignal, streamVars
<1>2. SockOK'
  BY SignalKeepsSock, TakeSignalKeepsSock DEF DrainSignal, Inv, Service
<1>3. events' = events \/ (events # <<>> /\ events' = Tail(events))
  BY DEF DrainSignal, Dispatching, NextEvent
<1>4. CauseOK'
  BY <1>1, <1>2, <1>3, CauseStays DEF SockOK, HungUp
<1>5. BufOK' /\ StopOK'
  BY DEF Signal, DrainSignal, TakeSignal, NextEvent, Inv, Service, BufOK, StopOK
<1>6. OpenOK' /\ CountOK'
  BY <1>1 DEF Inv, Service, OpenOK, CountOK, OpenFds
<1>7. \A d \in Conns : InFlight(d)' = InFlight(d) /\ (pc' = "killed" <=> pc = "killed")
  BY DEF DrainSignal, Dispatching, NextEvent, InFlight, conn, fd
<1>8. DataOK'
  BY <1>1, <1>7, SameStreams DEF Inv, Service, DataOK
<1> QED
  BY <1>2, <1>4, <1>5, <1>6, <1>8 DEF Service

\* The steps between two system calls on a connection, and the end by SIGPIPE.
LEMMA QuietKeepsService ==
    ASSUME Inv,
           \/ LeaveLoop \/ StartAccepting \/ StopAccepting \/ StartReading
           \/ ReadDrained \/ WriteBrokenPipe
    PROVE  Service'
<1>1. UNCHANGED sockVars /\ UNCHANGED <<buf, running, fdtab, stats>>
  BY DEF LeaveLoop, StartAccepting, StopAccepting, StartReading, ReadDrained, WriteBrokenPipe
<1>2. UNCHANGED <<backlog, link, srv, sent, inq, outq, got, sig>>
  BY <1>1 DEF sockVars
<1>3. SockOK'
  BY <1>1, SameSock DEF Inv, Service
<1>4. events' = events \/ (events # <<>> /\ events' = Tail(events))
  BY DEF LeaveLoop, StartAccepting, StopAccepting, StartReading, ReadDrained, WriteBrokenPipe,
         NextEvent, Inv, Shape, PcOK
<1>5. CauseOK'
  BY <1>2, <1>3, <1>4, CauseStays DEF SockOK, HungUp
<1>6. pc' # "write" /\ (pc' = "killed" \/ (pc # "write" /\ pc # "killed"))
  BY DEF LeaveLoop, StartAccepting, StopAccepting, StartReading, ReadDrained, WriteBrokenPipe,
         NextEvent, Dispatching
<1>7. BufOK' /\ StopOK' /\ OpenOK' /\ CountOK'
  BY <1>1, <1>2, <1>6 DEF Inv, Service, BufOK, StopOK, OpenOK, CountOK, OpenFds
<1>8. DataOK'
  <2>1. CASE pc' = "killed"
    BY <2>1 DEF DataOK
  <2>2. CASE pc # "write" /\ pc # "killed"
    <3>1. \A d \in Conns : InFlight(d)' = InFlight(d)
      BY <1>6, <2>2 DEF InFlight
    <3> QED
      BY <1>2, <2>2, <3>1, SameStreams DEF Inv, Service, DataOK
  <2> QED
    BY <1>6, <2>1, <2>2
<1> QED
  BY <1>3, <1>5, <1>7, <1>8 DEF Service

\* epoll_wait reports EPOLLHUP and the signalfd only with a cause.
LEMMA EpollWaitKeepsService == Inv /\ EpollWait => Service'
<1> SUFFICES ASSUME Inv, EpollWait PROVE Service'
  OBVIOUS
<1>1. UNCHANGED sockVars /\ UNCHANGED <<pc, buf, running, fdtab, stats>> /\ pc = "loop"
  BY DEF EpollWait
<1>2. UNCHANGED <<backlog, link, srv, sent, inq, outq, got, sig>>
  BY <1>1 DEF sockVars
<1>3. SockOK'
  BY <1>1, SameSock DEF Inv, Service
<1>4. PICK b \in Batches : events' = [i \in 1 .. BatchSize |-> Report(b[i])]
  BY DEF EpollWait
<1>5. b \in [1 .. BatchSize -> Ready] /\ BatchSize \in Nat
  BY BatchFacts DEF Batches, Inv
<1>6. Len(events') = BatchSize /\ \A i \in 1 .. BatchSize : events'[i] = Report(b[i]) /\ b[i] \in Ready
  BY <1>4, <1>5
<1>7. CauseOK'
  <2>1. \A f \in Ready : f \in Fds /\ Report(f).hup => HungUp(Report(f).conn)
    BY DEF Report
  <2>2. \A f \in Ready : f = SignalFd => sig # "none"
    BY EpollAssumption DEF Ready, Poll, OpenFds
  <2>3. \A f : Report(f).fd = f
    BY DEF Report
  <2> QED
    BY <1>2, <1>6, <2>1, <2>2, <2>3 DEF CauseOK, HungUp
<1>8. BufOK' /\ StopOK' /\ OpenOK' /\ CountOK'
  BY <1>1, <1>2 DEF Inv, Service, BufOK, StopOK, OpenOK, CountOK, OpenFds
<1>9. DataOK'
  BY <1>1, <1>2, NothingInFlight, SameStreams DEF Inv, Service, DataOK, InFlight
<1> QED
  BY <1>3, <1>7, <1>8, <1>9 DEF Service

\* A connection that is accepted and registered is counted.
LEMMA AcceptOneKeepsService == Inv /\ AcceptOne => Service'
<1> SUFFICES ASSUME Inv, AcceptOne PROVE Service'
  OBVIOUS
<1>1. PICK f \in Fds \ OpenFds : fdtab' = [fdtab EXCEPT ![f] = Head(backlog)]
  BY DEF AcceptOne
<1>2. PICK c \in Conns :
         /\ c = Head(backlog) /\ srv[c] = "queued" /\ srv' = [srv EXCEPT ![c] = "open"]
         /\ UNCHANGED <<link, sent, inq, outq, got, sig>> /\ SockOK'
  BY AcceptKeepsSock DEF AcceptOne, Inv, Service
<1>3. /\ pc = "accept" /\ UNCHANGED <<pc, events, buf, running>>
      /\ stats' = [stats EXCEPT !.accepted = @ + 1]
  BY DEF AcceptOne
<1>4. /\ fdtab'[f] = c /\ \A g \in Fds : g # f => fdtab'[g] = fdtab[g]
      /\ fdtab[f] = None /\ c # None
  BY <1>1, <1>2, EpollAssumption DEF OpenFds, Inv, Shape, TypeOK
<1>5. CauseOK'
  BY <1>2, <1>3, CauseStays DEF SockOK, HungUp
<1>6. BufOK' /\ StopOK'
  BY <1>2, <1>3 DEF Inv, Service, BufOK, StopOK
<1>7. OpenOK'
  <2>1. \A d \in Conns : d # c => srv'[d] = srv[d]
    BY <1>2 DEF Inv, Shape, TypeOK, SocketsTypeOK
  <2>2. \A d \in Conns : \A g \in Fds : fdtab[g] = d => fdtab'[g] = d
    BY <1>4, EpollAssumption
  <2> QED
    BY <1>4, <2>1, <2>2 DEF Inv, Service, OpenOK
<1>8. CountOK'
  <2>1. OpenFds' = OpenFds \union {f} /\ f \notin OpenFds
    BY <1>4 DEF OpenFds
  <2>2. Cardinality(OpenFds') = Cardinality(OpenFds) + 1
    BY <2>1, OpenFinite, FS_AddElement
  <2>3. /\ stats'.accepted = stats.accepted + 1 /\ stats'.closed = stats.closed
        /\ stats.accepted \in Nat /\ stats.closed \in Nat
    BY <1>3, StatsMove, 0 \in Nat DEF Inv, Shape, TypeOK
  <2> QED
    BY <2>2, <2>3, OpenFinite DEF Inv, Service, CountOK
<1>9. DataOK'
  <2>1. \A d \in Conns : srv'[d] # "closed" => srv[d] # "closed"
    BY <1>2 DEF Inv, Shape, TypeOK, SocketsTypeOK
  <2> QED
    BY <1>2, <1>3, <2>1, NothingInFlight, SameStreams DEF Inv, Service, DataOK, InFlight
<1> QED
  BY <1>2, <1>5, <1>6, <1>7, <1>8, <1>9 DEF Service

\* One that could not be registered is closed and not counted.
LEMMA AcceptUnregisteredKeepsService == Inv /\ AcceptUnregistered => Service'
<1> SUFFICES ASSUME Inv, AcceptUnregistered PROVE Service'
  OBVIOUS
<1>1. PICK c \in Conns :
         /\ srv[c] = "queued" /\ srv' = [srv EXCEPT ![c] = "closed"]
         /\ UNCHANGED <<link, sent, inq, outq, got, sig>> /\ SockOK'
  BY AcceptKeepsSock DEF AcceptUnregistered, Inv, Service
<1>2. pc = "accept" /\ UNCHANGED <<pc, events, buf, running, fdtab, stats>>
  BY DEF AcceptUnregistered, serverVars
<1>3. CauseOK'
  BY <1>1, <1>2, CauseStays DEF SockOK, HungUp
<1>4. BufOK' /\ StopOK' /\ CountOK'
  BY <1>1, <1>2 DEF Inv, Service, BufOK, StopOK, CountOK, OpenFds
<1>5. \A d \in Conns : srv'[d] = srv[d] \/ (d = c /\ srv'[d] = "closed")
  BY <1>1 DEF Inv, Shape, TypeOK, SocketsTypeOK
<1>6. OpenOK'
  BY <1>2, <1>5 DEF Inv, Service, OpenOK
<1>7. DataOK'
  BY <1>1, <1>2, <1>5, NothingInFlight, SameStreams DEF Inv, Service, DataOK, InFlight
<1> QED
  BY <1>1, <1>3, <1>4, <1>6, <1>7 DEF Service

\* close_connection counts, and lets go of nothing but the connection.
LEMMA CloseKeepsService ==
    ASSUME Inv, pc \in {"loop", "read", "write"}, events # <<>>, fd \in Fds, CloseConnection
    PROVE  Service'
<1>1. PICK c \in Conns : c = conn /\ fdtab[fd] = c /\ srv[c] = "open"
  BY HandlerFacts DEF Inv, conn
<1>2. /\ srv' = [srv EXCEPT ![c] = "closed"]
      /\ UNCHANGED <<backlog, link, sent, inq, outq, got, sig>> /\ SockOK'
  BY <1>1, CloseKeepsSock DEF CloseConnection, Inv, Service
<1>3. /\ pc' = "loop" /\ buf' = <<>> /\ events' = Tail(events) /\ running' = running
      /\ fdtab' = [fdtab EXCEPT ![fd] = None] /\ stats' = [stats EXCEPT !.closed = @ + 1]
  BY DEF CloseConnection, NextEvent
<1>4. fdtab'[fd] = None /\ c # None /\ \A g \in Fds : g # fd => fdtab'[g] = fdtab[g]
  BY <1>1, <1>3, EpollAssumption DEF Inv, Shape, TypeOK
<1>5. CauseOK'
  BY <1>2, <1>3, CauseStays DEF SockOK, HungUp
<1>6. BufOK' /\ StopOK'
  BY <1>2, <1>3 DEF Inv, Service, BufOK, StopOK
<1>7. srv'[c] = "closed" /\ \A d \in Conns : d # c => srv'[d] = srv[d]
  BY <1>2 DEF Inv, Shape, TypeOK, SocketsTypeOK
<1>8. OpenOK'
  BY <1>1, <1>4, <1>7 DEF Inv, Service, OpenOK
<1>9. CountOK'
  <2>1. OpenFds' = OpenFds \ {fd} /\ fd \in OpenFds
    BY <1>1, <1>4 DEF OpenFds
  <2>2. Cardinality(OpenFds') = Cardinality(OpenFds) - 1
    BY <2>1, OpenFinite, FS_RemoveElement
  <2>3. /\ stats'.accepted = stats.accepted /\ stats'.closed = stats.closed + 1
        /\ stats.accepted \in Nat /\ stats.closed \in Nat
    BY <1>3, StatsMove, 0 \in Nat DEF Inv, Shape, TypeOK
  <2> QED
    BY <2>2, <2>3, OpenFinite DEF Inv, Service, CountOK
<1>10. DataOK'
  <2>1. \A d \in Conns : d # c => InFlight(d) = <<>> /\ InFlight(d)' = <<>>
    BY <1>1, <1>3 DEF InFlight
  <2> QED
    BY <1>2, <1>7, <2>1, SameStreams DEF Inv, Service, DataOK
<1> QED
  BY <1>2, <1>5, <1>6, <1>8, <1>9, <1>10 DEF Service

\* read() moves bytes from the connection to buffer_.
LEMMA ReadDataKeepsService == Inv /\ ReadData => Service'
<1> SUFFICES ASSUME Inv, ReadData PROVE Service'
  OBVIOUS
<1>1. events # <<>> /\ fd \in Fds /\ pc = "read" /\ pc' = "write"
  BY DEF ReadData, Inv, Shape, PcOK
<1>2. PICK c \in Conns : c = conn /\ fdtab[fd] = c /\ srv[c] = "open"
  BY <1>1, HandlerFacts DEF Inv, conn
<1>3. PICK n \in Nat : n = ReadSize /\ n > 0 /\ n \in 0 .. Len(inq[c])
  <2>1. ReadSize \in 0 .. Len(inq[c]) /\ Len(inq[c]) \in Nat
    BY <1>2, PieceTypes, EpollAssumption DEF ReadSize, Inv, Shape, TypeOK
  <2> QED
    BY <2>1 DEF ReadData
<1>4. /\ buf' = SubSeq(inq[c], 1, n) /\ TakeInput(c, n)
      /\ stats' = [stats EXCEPT !.requests = @ + 1, !.bytes = @ + n]
      /\ UNCHANGED <<events, running, fdtab>>
  BY <1>2, <1>3 DEF ReadData
<1>5. Whole(c, <<>>)
  BY <1>1, <1>2, NothingInFlight DEF Inv, Service, DataOK
<1>6. /\ SockOK' /\ buf' \in Seq(Bytes) /\ Len(buf') = n
      /\ Reply(c)' \o buf' \o inq'[c] = Stream(c)'
      /\ \A d \in Conns : d # c => inq'[d] = inq[d]
      /\ \A d \in Conns : Reply(d)' = Reply(d) /\ Stream(d)' = Stream(d)
      /\ UNCHANGED <<backlog, link, srv, sent, outq, got, sig>>
  BY <1>2, <1>3, <1>4, <1>5, ReadFacts DEF Inv, Service
<1>7. CauseOK'
  BY <1>4, <1>6, CauseStays DEF SockOK, HungUp
<1>8. BufOK' /\ StopOK' /\ OpenOK'
  BY <1>3, <1>4, <1>6 DEF Inv, Service, BufOK, StopOK, OpenOK
<1>9. CountOK'
  <2>1. stats'.accepted = stats.accepted /\ stats'.closed = stats.closed
    BY <1>3, <1>4, StatsMove DEF Inv, Shape, TypeOK
  <2> QED
    BY <1>4, <2>1 DEF Inv, Service, CountOK, OpenFds
<1>10. DataOK'
  <2>1. conn' = c
    BY <1>2, <1>4 DEF conn, fd
  <2>2. InFlight(c)' = buf' /\ \A d \in Conns : d # c => InFlight(d)' = <<>> /\ InFlight(d) = <<>>
    BY <1>1, <2>1 DEF InFlight
  <2>3. Whole(c, InFlight(c))'
    BY <1>6, <2>2 DEF Whole
  <2>4. \A d \in Conns : d # c => (Whole(d, InFlight(d))' <=> Whole(d, InFlight(d)))
    BY <1>6, <2>2 DEF Whole
  <2> QED
    BY <1>1, <1>6, <2>3, <2>4 DEF Inv, Service, DataOK
<1> QED
  BY <1>6, <1>7, <1>8, <1>9, <1>10 DEF Service

\* What a write() has taken of buffer_ is in the reply, the rest is still there.
LEMMA WriteSomeFacts ==
    ASSUME Inv, WriteSome
    PROVE  \E c \in Conns, n \in Nat \ {0} :
              /\ c = conn /\ fdtab[fd] = c /\ srv[c] = "open" /\ events # <<>> /\ fd \in Fds
              /\ SockOK' /\ buf' \in Seq(Bytes)
              /\ IF buf' = <<>> THEN AfterEcho ELSE UNCHANGED <<pc, events>>
              /\ Reply(c)' \o buf' \o inq'[c] = Stream(c)'
              /\ Reply(c)' = Prefix(c, Len(Reply(c)) + n)
              /\ Len(Reply(c)) + n <= sent[c]
              /\ \A d \in Conns : d # c => Reply(d)' = Reply(d)
              /\ \A d \in Conns : Stream(d)' = Stream(d)
              /\ UNCHANGED <<backlog, link, srv, sent, inq, got, sig>>
<1>1. events # <<>> /\ fd \in Fds /\ pc = "write"
  BY DEF WriteSome, Inv, Shape, PcOK
<1>2. PICK c \in Conns : c = conn /\ fdtab[fd] = c /\ srv[c] = "open"
  BY <1>1, HandlerFacts DEF Inv, conn
<1>3. PICK n \in Writable(c, Len(buf)) :
         /\ PutOutput(c, SubSeq(buf, 1, n))
         /\ buf' = SubSeq(buf, n + 1, Len(buf))
         /\ IF n = Len(buf) THEN AfterEcho ELSE UNCHANGED <<pc, events>>
  BY <1>2 DEF WriteSome
<1>4. buf \in Seq(Bytes) /\ Len(buf) \in Nat /\ Len(outq[c]) \in Nat
  BY PieceTypes, BytesConcat DEF Inv, Shape, TypeOK
<1>5. n \in Nat /\ n > 0 /\ n \in 0 .. Len(buf)
  BY <1>4, SocketsAssumption DEF Writable
<1>6. Whole(c, buf)
  <2>1. InFlight(c) = buf
    BY <1>1, <1>2 DEF InFlight
  <2> QED
    BY <1>1, <1>2, <2>1 DEF Inv, Service, DataOK
<1>7. /\ SockOK' /\ buf' \in Seq(Bytes) /\ Len(buf') = Len(buf) - n
      /\ Reply(c)' \o buf' \o inq'[c] = Stream(c)'
      /\ Reply(c)' = Prefix(c, Len(Reply(c)) + n)
      /\ Len(Reply(c)) + n <= sent[c]
      /\ \A d \in Conns : d # c => Reply(d)' = Reply(d)
      /\ \A d \in Conns : Stream(d)' = Stream(d)
      /\ UNCHANGED <<backlog, link, srv, sent, inq, got, sig>>
  BY <1>2, <1>3, <1>4, <1>5, <1>6, WriteFacts DEF Inv, Service
<1>8. buf' = <<>> <=> n = Len(buf)
  BY <1>4, <1>5, <1>7
<1>9. n \in Nat \ {0}
  BY <1>5
<1> WITNESS c \in Conns, n \in Nat \ {0}
<1> QED
  BY <1>1, <1>2, <1>3, <1>5, <1>7, <1>8

\* write() keeps the invariant.
LEMMA WriteSomeKeepsService == Inv /\ WriteSome => Service'
<1> SUFFICES ASSUME Inv, WriteSome PROVE Service'
  OBVIOUS
<1>1. PICK c \in Conns :
         /\ c = conn /\ fdtab[fd] = c /\ srv[c] = "open" /\ events # <<>> /\ fd \in Fds
         /\ SockOK' /\ buf' \in Seq(Bytes)
         /\ IF buf' = <<>> THEN AfterEcho ELSE UNCHANGED <<pc, events>>
         /\ Reply(c)' \o buf' \o inq'[c] = Stream(c)'
         /\ \A d \in Conns : d # c => Reply(d)' = Reply(d)
         /\ \A d \in Conns : Stream(d)' = Stream(d)
         /\ UNCHANGED <<backlog, link, srv, sent, inq, got, sig>>
  BY WriteSomeFacts
<1>2. pc = "write" /\ UNCHANGED <<running, fdtab, stats>>
  BY DEF WriteSome
<1>3. /\ buf' = <<>> => pc' \in {"read", "loop"}
      /\ buf' # <<>> => pc' = "write" /\ events' = events
      /\ events' = events \/ events' = Tail(events)
  BY <1>1, <1>2 DEF AfterEcho, NextEvent
<1>4. CauseOK'
  BY <1>1, <1>3, CauseStays DEF SockOK, HungUp
<1>5. BufOK' /\ StopOK' /\ OpenOK' /\ CountOK'
  BY <1>1, <1>2, <1>3 DEF Inv, Service, BufOK, StopOK, OpenOK, CountOK, OpenFds
<1>6. DataOK'
  <2>1. \A d \in Conns : d # c => InFlight(d) = <<>> /\ InFlight(d)' = <<>>
    BY <1>1, <1>2, <1>3 DEF InFlight, conn, fd
  <2>2. InFlight(c)' = buf'
    BY <1>1, <1>2, <1>3 DEF InFlight, conn, fd
  <2>3. Whole(c, InFlight(c))'
    BY <1>1, <2>2 DEF Whole
  <2>4. \A d \in Conns : d # c => (Whole(d, InFlight(d))' <=> Whole(d, InFlight(d)))
    BY <1>1, <2>1 DEF Whole
  <2> QED
    BY <1>1, <1>2, <2>3, <2>4 DEF Inv, Service, DataOK
<1> QED
  BY <1>1, <1>4, <1>5, <1>6 DEF Service

\* The steps of the clients and of the network.
LEMMA EnvironmentSteps ==
    ASSUME NEW c \in Conns, ClientStep(c) \/ ClientReads(c) \/ ResetArrives(c)
    PROVE  Up /\ ClientAct(c) /\ UNCHANGED <<pc, events, buf, running, fdtab, stats, backend>>
BY DEF ClientStep, ClientReads, ResetArrives, ClientAct, Wake, serverVars

\* Every step keeps the invariant.
LEMMA NextKeepsInv == Inv /\ [Next]_vars => Inv'
<1> SUFFICES ASSUME Inv, [Next]_vars PROVE Service'
  BY ShapeStep DEF Inv
<1>1. CASE EpollWait
  BY <1>1, EpollWaitKeepsService
<1>2. CASE \/ LeaveLoop \/ StartAccepting \/ StopAccepting \/ StartReading
           \/ ReadDrained \/ WriteBrokenPipe
  BY <1>2, QuietKeepsService
<1>3. CASE DrainSignal
  BY <1>3, SignalKeepsService DEF DrainSignal
<1>4. CASE AcceptOne
  BY <1>4, AcceptOneKeepsService
<1>5. CASE AcceptUnregistered
  BY <1>5, AcceptUnregisteredKeepsService
<1>6. CASE OnHangup \/ ReadEnd \/ WriteError
  BY <1>6, CloseKeepsService DEF OnHangup, ReadEnd, WriteError, Inv, Shape, PcOK
<1>7. CASE ReadData
  BY <1>7, ReadDataKeepsService
<1>8. CASE WriteSome
  BY <1>8, WriteSomeKeepsService
<1>9. ASSUME NEW c \in Conns, ClientStep(c) \/ ClientReads(c) \/ ResetArrives(c)
      PROVE  Service'
  BY <1>9, EnvironmentSteps, ClientKeepsService
<1>10. CASE SignalArrives
  BY <1>10, SignalKeepsService DEF SignalArrives, Wake
<1>11. CASE UNCHANGED vars
  <2>1. UNCHANGED sockVars /\ UNCHANGED <<pc, events, buf, running, fdtab, stats>>
    BY <1>11 DEF vars, serverVars
  <2>2. UNCHANGED <<link, srv, sent, inq, outq, got, sig>>
    BY <2>1 DEF sockVars
  <2>3. SockOK'
    BY <2>1, SameSock DEF Inv, Service
  <2>4. CauseOK'
    BY <2>1, <2>2, <2>3, CauseStays DEF SockOK, HungUp
  <2>5. DataOK'
    BY <2>1, <2>2, SameStreams DEF Inv, Service, DataOK, InFlight, conn, fd
  <2> QED
    BY <2>1, <2>2, <2>3, <2>4, <2>5 DEF Inv, Service, BufOK, StopOK, OpenOK, CountOK, OpenFds
<1> QED
  BY <1>1, <1>2, <1>3, <1>4, <1>5, <1>6, <1>7, <1>8, <1>9, <1>10, <1>11
  DEF Next, ServerStep, Terminated

\* Inv is an invariant of both epoll backends.
THEOREM ServiceInvariant == Spec => []Inv
BY InitInv, NextKeepsInv, PTL DEF Spec

-----------------------------------------------------------------------------
(* What follows *)

\* No byte of a connection is lost while the server holds it: not by a read()
\* cut short by buffer_, not by a short write(), not by an event of another
\* connection that uses the same buffer_, in either trigger mode.
THEOREM NoByteLostHolds == Spec => []NoByteLost
<1>1. Inv => NoByteLost
  BY DEF Inv, Service, DataOK, Whole, NoByteLost
<1> QED
  BY ServiceInvariant, <1>1, PTL

\* However descriptors are closed and reused, the connections counted as
\* accepted and not closed are those in the descriptor table, each once, and
\* the kernel has them open.
THEOREM DescriptorsCountedHolds == Spec => []DescriptorsCounted
<1>1. Inv => DescriptorsCounted
  <2> SUFFICES ASSUME Inv, NEW c \in Conns
               PROVE  Cardinality(FdsOf(c)) = IF srv[c] = "open" THEN 1 ELSE 0
    BY DEF DescriptorsCounted, Inv, Service, CountOK
  <2>1. CASE srv[c] = "open"
    <3>1. PICK f \in Fds : fdtab[f] = c
      BY <2>1 DEF Inv, Service, OpenOK
    <3>2. FdsOf(c) = {f}
      BY <3>1, EpollAssumption DEF FdsOf, Inv, Shape, FdsOK
    <3> QED
      BY <2>1, <3>2, FS_Singleton
  <2>2. CASE srv[c] # "open"
    <3>1. FdsOf(c) = {}
      BY <2>2, EpollAssumption DEF FdsOf, Inv, Shape, FdsOK
    <3> QED
      BY <2>2, <3>1, FS_EmptySet
  <2> QED
    BY <2>1, <2>2
<1> QED
  BY ServiceInvariant, <1>1, PTL

-----------------------------------------------------------------------------
(* The counter of bytes.  Between two events it is the sum of the replies; *)
(* within a handler it is ahead by what is in buffer_, and a connection    *)
(* that was reset may never get its part.  Tally, inductive relative to    *)
(* Inv, says so for every connection and every place of the handlers.      *)

Tally ==
    /\ \A c \in Conns : Flow(c, Len(InFlight(c)))
    /\ stats.bytes = SumOver(ReadBytes)

\* What is in flight is a sequence of bytes.
LEMMA InFlightType ==
    ASSUME Inv, NEW c \in Conns
    PROVE  InFlight(c) \in Seq(Bytes) /\ Len(InFlight(c)) \in Nat
<1>1. buf \in Seq(Bytes) /\ <<>> \in Seq(Bytes)
  BY DEF Inv, Shape, TypeOK
<1> QED
  BY <1>1, LenProperties DEF InFlight

\* Nothing has been sent, read or answered.
LEMMA InitTally == Init => Tally
<1> SUFFICES ASSUME Init PROVE Tally
  OBVIOUS
<1>1. \A c \in Conns : sent[c] = 0 /\ Len(inq[c]) = 0 /\ Len(Reply(c)) = 0 /\ Len(InFlight(c)) = 0
  <2>1. Len(<<>>) = 0 /\ <<>> \o <<>> = <<>>
    OBVIOUS
  <2> QED
    BY <2>1 DEF Init, SocketsInit, Reply, InFlight
<1>2. \A c \in Conns : Flow(c, Len(InFlight(c)))
  <2>1. 0 + 0 + 0 <= 0 /\ 0 + 0 + 0 = 0
    OBVIOUS
  <2> QED
    BY <1>1, <2>1, Zenon DEF Flow
<1>3. PICK f : f = ReadBytes
  OBVIOUS
<1>4. f \in [Conns -> Nat] /\ \A c \in Conns : f[c] = 0
  BY <1>1, <1>3 DEF ReadBytes
<1>5. SumOver(f) = 0
  BY <1>4, SumOverType
<1> QED
  BY <1>2, <1>3, <1>5 DEF Tally, Init

\* A step that moves no byte and counts none.
LEMMA QuietTally ==
    ASSUME Inv, Tally, UNCHANGED <<link, sent, inq, outq, got>>, stats'.bytes = stats.bytes,
           \A c \in Conns : InFlight(c)' = InFlight(c) \/ (InFlight(c)' = <<>> /\ HungUp(c))
    PROVE  Tally'
<1>1. SocketsTypeOK
  BY DEF Inv, Service, SockOK
<1>2. ASSUME NEW c \in Conns PROVE Flow(c, Len(InFlight(c)))'
  <2>1. PICK n \in Nat : n = Len(InFlight(c))
    BY InFlightType
  <2>2. Flow(c, n) /\ (Flow(c, n)' <=> Flow(c, n)) /\ (HungUp(c) => Flow(c, 0)')
    BY <1>1, <2>1, QuietFlow DEF Tally
  <2>3. Len(InFlight(c)') = n \/ (Len(InFlight(c)') = 0 /\ HungUp(c))
    BY <2>1, Len(<<>>) = 0
  <2> QED
    BY <2>2, <2>3 DEF Flow
<1>3. ReadBytes' = ReadBytes
  BY <1>1, QuietFlow
<1> QED
  BY <1>2, <1>3 DEF Tally

\* How the counter of bytes changes.
LEMMA StatsBytes ==
    ASSUME NEW st \in Stats, NEW n \in Nat
    PROVE  /\ [st EXCEPT !.accepted = @ + 1].bytes = st.bytes
           /\ [st EXCEPT !.closed = @ + 1].bytes = st.bytes
           /\ [st EXCEPT !.requests = @ + 1, !.bytes = @ + n].bytes = st.bytes + n
BY DEF Stats

\* read() counts what it takes.
LEMMA ReadDataTally == Inv /\ Tally /\ ReadData => Tally'
<1> SUFFICES ASSUME Inv, Tally, ReadData PROVE Tally'
  OBVIOUS
<1>1. events # <<>> /\ fd \in Fds /\ pc = "read" /\ pc' = "write"
  BY DEF ReadData, Inv, Shape, PcOK
<1>2. PICK c \in Conns : c = conn /\ fdtab[fd] = c
  BY <1>1, HandlerFacts DEF Inv, conn
<1>3. inq[c] \in Seq(Bytes) /\ Len(inq[c]) \in Nat
  BY PieceTypes DEF Inv, Shape, TypeOK
<1>4. PICK n \in Nat : n = ReadSize /\ n <= Len(inq[c])
  BY <1>2, <1>3, EpollAssumption DEF ReadSize
<1>5. /\ buf' = SubSeq(inq[c], 1, n) /\ TakeInput(c, n)
      /\ stats' = [stats EXCEPT !.requests = @ + 1, !.bytes = @ + n]
      /\ UNCHANGED <<events, fdtab>>
  BY <1>2, <1>4 DEF ReadData
<1>6. Len(buf') = n
  <2>1. \A l \in Nat : n <= l => n \in 0 .. l
    OBVIOUS
  <2>2. n \in 0 .. Len(inq[c])
    BY <1>3, <1>4, <2>1
  <2> QED
    BY <1>3, <1>5, <2>2, CutJoins
<1>7. /\ InFlight(c)' = buf'
      /\ \A d \in Conns : InFlight(d) = <<>> /\ (d # c => InFlight(d)' = <<>>)
  BY <1>1, <1>2, <1>5 DEF InFlight, conn, fd
<1>8. PICK h \in [Conns -> Nat] : h = [d \in Conns |-> 0]
  OBVIOUS
<1>9. \A d \in Conns : Flow(d, h[d])
  <2>1. \A d \in Conns : Len(InFlight(d)) = h[d]
    BY <1>7, <1>8, Len(<<>>) = 0
  <2> QED
    BY <2>1 DEF Tally
<1>10. /\ Flow(c, n)'
       /\ \A d \in Conns : d # c => (\A m \in Nat : Flow(d, m) => Flow(d, m)')
       /\ SumOver(ReadBytes') = SumOver(ReadBytes) + n
  BY <1>4, <1>5, <1>8, <1>9, ReadFlow DEF Inv, Service
<1>11. ASSUME NEW d \in Conns PROVE Flow(d, Len(InFlight(d)))'
  <2>1. CASE d = c
    BY <1>6, <1>7, <1>10, <2>1 DEF Flow
  <2>2. CASE d # c
    <3>1. Flow(d, 0)'
      BY <1>8, <1>9, <1>10, <2>2, 0 \in Nat
    <3>2. Len(InFlight(d)') = 0
      BY <1>7, <2>2, Len(<<>>) = 0
    <3> QED
      BY <3>1, <3>2 DEF Flow
  <2> QED
    BY <2>1, <2>2
<1>12. stats'.bytes = stats.bytes + n
  BY <1>5, StatsBytes DEF Inv, Shape, TypeOK
<1> QED
  BY <1>10, <1>11, <1>12 DEF Tally

\* write() moves what it takes from buffer_ to the reply.
LEMMA WriteSomeTally == Inv /\ Tally /\ WriteSome => Tally'
<1> SUFFICES ASSUME Inv, Tally, WriteSome PROVE Tally'
  OBVIOUS
<1>1. events # <<>> /\ fd \in Fds /\ pc = "write" /\ UNCHANGED <<fdtab, stats>>
  BY DEF WriteSome, Inv, Shape, PcOK
<1>2. PICK c \in Conns : c = conn /\ fdtab[fd] = c /\ srv[c] = "open"
  BY <1>1, HandlerFacts DEF Inv, conn
<1>3. PICK n \in Writable(c, Len(buf)) :
         /\ PutOutput(c, SubSeq(buf, 1, n))
         /\ buf' = SubSeq(buf, n + 1, Len(buf))
         /\ IF n = Len(buf) THEN AfterEcho ELSE UNCHANGED <<pc, events>>
  BY <1>2 DEF WriteSome
<1>4. buf \in Seq(Bytes) /\ Len(buf) \in Nat /\ Len(outq[c]) \in Nat /\ Len(Reply(c)) \in Nat
  BY PieceTypes, BytesConcat DEF Inv, Shape, TypeOK
<1>5. n \in Nat /\ n <= Len(buf) /\ n \in 0 .. Len(buf)
  BY <1>4, SocketsAssumption DEF Writable
<1>6. /\ InFlight(c) = buf /\ Whole(c, buf)
      /\ \A d \in Conns : d # c => InFlight(d) = <<>>
  <2>1. InFlight(c) = buf /\ \A d \in Conns : d # c => InFlight(d) = <<>>
    BY <1>1, <1>2 DEF InFlight
  <2> QED
    BY <1>1, <1>2, <2>1 DEF Inv, Service, DataOK
<1>7. /\ Len(buf') = Len(buf) - n
      /\ Reply(c)' = Prefix(c, Len(Reply(c)) + n)
      /\ \A d \in Conns : d # c => Reply(d)' = Reply(d)
      /\ UNCHANGED <<link, sent, inq>>
  BY <1>2, <1>3, <1>4, <1>5, <1>6, WriteFacts DEF Inv, Service
<1>8. Len(Reply(c)') = Len(Reply(c)) + n
  <2>1. Len(Reply(c)) + n \in Nat
    BY <1>4, <1>5
  <2> QED
    BY <1>7, <2>1, PrefixFacts
<1>9. Flow(c, Len(buf))
  BY <1>6 DEF Tally
<1>10. /\ Flow(c, Len(buf))'
       /\ \A d \in Conns : d # c => (\A k \in Nat : Flow(d, k) => Flow(d, k)')
       /\ ReadBytes' = ReadBytes
  <2>1. PICK m \in Nat : m = Len(buf)
    BY <1>4
  <2>2. /\ Flow(c, m - n)'
        /\ \A d \in Conns : d # c => (\A k \in Nat : Flow(d, k) => Flow(d, k)')
        /\ ReadBytes' = ReadBytes
    BY <1>5, <1>7, <1>8, <1>9, <2>1, WriteFlow DEF Inv, Service
  <2>3. m - n = Len(buf')
    BY <1>7, <2>1
  <2> QED
    BY <1>7, <2>1, <2>2, <2>3 DEF Flow
<1>11. InFlight(c)' = buf' /\ \A d \in Conns : d # c => InFlight(d)' = <<>>
  <2>1. CASE n = Len(buf)
    <3>1. buf' = <<>>
      BY <1>3, <1>4, <1>5, <2>1
    <3>2. pc' # "write"
      BY <1>3, <2>1 DEF AfterEcho, NextEvent
    <3> QED
      BY <3>1, <3>2 DEF InFlight
  <2>2. CASE n # Len(buf)
    <3>1. UNCHANGED <<pc, events, fdtab>>
      BY <1>1, <1>3, <2>2
    <3> QED
      BY <1>1, <1>2, <3>1 DEF InFlight, conn, fd
  <2> QED
    BY <2>1, <2>2
<1>12. ASSUME NEW d \in Conns PROVE Flow(d, Len(InFlight(d)))'
  <2>1. CASE d = c
    BY <1>7, <1>10, <1>11, <2>1 DEF Flow
  <2>2. CASE d # c
    <3>1. Len(InFlight(d)) = 0 /\ Len(InFlight(d)') = 0
      BY <1>6, <1>11, <2>2, Len(<<>>) = 0
    <3>2. Flow(d, 0)
      BY <3>1 DEF Tally
    <3>3. Flow(d, 0)'
      BY <1>10, <2>2, <3>2, 0 \in Nat
    <3> QED
      BY <3>1, <3>3 DEF Flow
  <2> QED
    BY <2>1, <2>2
<1> QED
  BY <1>1, <1>10, <1>12 DEF Tally

\* Every step keeps the tally.
LEMMA NextKeepsTally == Inv /\ Tally /\ [Next]_vars => Tally'
<1> SUFFICES ASSUME Inv, Tally, [Next]_vars PROVE Tally'
  OBVIOUS
<1>0. stats \in Stats
  BY DEF Inv, Shape, TypeOK
<1>1. CASE EpollWait \/ LeaveLoop \/ StartAccepting \/ StopAccepting \/ StartReading \/ ReadDrained
  <2>1. UNCHANGED <<link, sent, inq, outq, got, stats>> /\ pc # "write" /\ pc' # "write"
    BY <1>1 DEF EpollWait, LeaveLoop, StartAccepting, StopAccepting, StartReading, ReadDrained,
                NextEvent, Dispatching, sockVars
  <2> QED
    BY <2>1, QuietTally DEF InFlight
<1>2. CASE DrainSignal
  <2>1. UNCHANGED <<link, sent, inq, outq, got, stats>> /\ pc # "write" /\ pc' # "write"
    BY <1>2 DEF DrainSignal, TakeSignal, Dispatching, NextEvent, streamVars
  <2> QED
    BY <2>1, QuietTally DEF InFlight
<1>3. CASE AcceptOne \/ AcceptUnregistered
  <2>1. UNCHANGED <<link, sent, inq, outq, got>> /\ pc # "write" /\ pc' # "write"
    BY <1>3 DEF AcceptOne, AcceptUnregistered, AcceptHead, streamVars, serverVars
  <2>2. stats' = [stats EXCEPT !.accepted = @ + 1] \/ stats' = stats
    BY <1>3 DEF AcceptOne, AcceptUnregistered, serverVars
  <2>3. stats'.bytes = stats.bytes
    BY <1>0, <2>2, StatsBytes, 0 \in Nat
  <2> QED
    BY <2>1, <2>3, QuietTally DEF InFlight
<1>4. CASE OnHangup \/ ReadEnd \/ WriteError
  <2>1. CloseConnection
    BY <1>4 DEF OnHangup, ReadEnd, WriteError
  <2>2. UNCHANGED <<link, sent, inq, outq, got>> /\ pc' # "write"
    BY <2>1 DEF CloseConnection, CloseSide, NextEvent, streamVars
  <2>3. stats'.bytes = stats.bytes
    BY <1>0, <2>1, StatsBytes, 0 \in Nat DEF CloseConnection
  <2>4. pc = "write" => HungUp(conn)
    BY <1>4 DEF OnHangup, ReadEnd, WriteError, HungUp
  <2>5. \A c \in Conns : InFlight(c)' = InFlight(c) \/ (InFlight(c)' = <<>> /\ HungUp(c))
    BY <2>2, <2>4 DEF InFlight
  <2> QED
    BY <2>2, <2>3, <2>5, QuietTally
<1>5. CASE WriteBrokenPipe
  <2>1. UNCHANGED <<link, sent, inq, outq, got, stats>> /\ pc' # "write" /\ HungUp(conn)
    BY <1>5 DEF WriteBrokenPipe, sockVars, HungUp
  <2>2. \A c \in Conns : InFlight(c)' = InFlight(c) \/ (InFlight(c)' = <<>> /\ HungUp(c))
    BY <2>1 DEF InFlight
  <2> QED
    BY <2>1, <2>2, QuietTally
<1>6. CASE ReadData
  BY <1>6, ReadDataTally
<1>7. CASE WriteSome
  BY <1>7, WriteSomeTally
<1>8. ASSUME NEW c \in Conns, ClientStep(c) \/ ClientReads(c) \/ ResetArrives(c)
      PROVE  Tally'
  <2>1. ClientAct(c) /\ UNCHANGED <<pc, events, buf, fdtab, stats>> /\ SockOK
    BY <1>8, EnvironmentSteps DEF Inv, Service
  <2>2. ReadBytes' = ReadBytes /\ \A d \in Conns, n \in Nat : Flow(d, n) => Flow(d, n)'
    BY <2>1, ClientFlow
  <2>3. ASSUME NEW d \in Conns PROVE Flow(d, Len(InFlight(d)))'
    <3>1. PICK n \in Nat : n = Len(InFlight(d))
      BY InFlightType
    <3>2. Len(InFlight(d)') = n
      BY <2>1, <3>1 DEF InFlight, conn, fd
    <3>3. Flow(d, n)'
      BY <2>2, <3>1 DEF Tally
    <3> QED
      BY <3>2, <3>3 DEF Flow
  <2> QED
    BY <2>1, <2>2, <2>3 DEF Tally
<1>9. CASE SignalArrives \/ UNCHANGED vars
  <2>1. UNCHANGED <<link, sent, inq, outq, got, stats, pc, events, buf, fdtab>>
    BY <1>9 DEF SignalArrives, Signal, Wake, streamVars, vars, serverVars, sockVars
  <2>2. \A c \in Conns : InFlight(c)' = InFlight(c)
    BY <2>1 DEF InFlight, conn, fd
  <2> QED
    BY <2>1, <2>2, QuietTally
<1> QED
  BY <1>1, <1>2, <1>3, <1>4, <1>5, <1>6, <1>7, <1>8, <1>9 DEF Next, ServerStep, Terminated

\* Tally is an invariant of both epoll backends.
THEOREM TallyInvariant == Spec => []Tally
BY InitTally, NextKeepsTally, ServiceInvariant, PTL DEF Spec

\* The counters printed at exit are right (CountersMatch), for any number of
\* connections: accepted and closed match the descriptors, and between two
\* events the bytes counted are the sum of the bytes echoed, unless a
\* connection was reset under a reply.
THEOREM CountersMatchHolds == Spec => []CountersMatch
<1>1. Inv /\ Tally /\ DescriptorsCounted => CountersMatch
  <2> SUFFICES ASSUME Inv, Tally, pc = "loop", \A c \in Conns : ~HungUp(c)
               PROVE  stats.bytes = SumOver([c \in Conns |-> Len(Reply(c))])
    BY DEF CountersMatch
  <2>1. PICK h \in [Conns -> Nat] : h = [c \in Conns |-> 0]
    OBVIOUS
  <2>2. \A c \in Conns : Len(InFlight(c)) = 0
    BY Len(<<>>) = 0, NothingInFlight
  <2>3. \A c \in Conns : Flow(c, h[c]) /\ h[c] = 0
    BY <2>1, <2>2 DEF Tally
  <2>4. SocketsTypeOK
    BY DEF Inv, Service, SockOK
  <2>5. SumOver(ReadBytes) = SumOver([c \in Conns |-> Len(Reply(c))])
    BY <2>3, <2>4, FlowSum
  <2> QED
    BY <2>5 DEF Tally
<1> QED
  BY <1>1, ServiceInvariant, TallyInvariant, DescriptorsCountedHolds, PTL

-----------------------------------------------------------------------------
(* Who is dropped *)

\* A handler calls close_connection only for a client that is gone, unless
\* buffer_ is empty.
LEMMA ClosesGone ==
    ASSUME BufSize # 0, Inv, OnHangup \/ ReadEnd \/ WriteError
    PROVE  /\ conn \in Conns /\ srv[conn] = "open" /\ Gone(conn)
           /\ events # <<>> /\ fd \in Fds /\ CloseConnection
<1>1. events # <<>> /\ fd \in Fds /\ CloseConnection
  BY DEF OnHangup, ReadEnd, WriteError, Inv, Shape, PcOK
<1>2. conn \in Conns /\ srv[conn] = "open" /\ events[1] = Head(events) /\ Len(events) \in Nat \ {0}
  BY <1>1, HandlerFacts, EmptySeq, LenProperties DEF Inv, Shape, TypeOK
<1>3. CASE OnHangup
  <2>1. 1 \in 1 .. Len(events) /\ events[1].fd = fd /\ events[1].hup
    BY <1>2, <1>3 DEF OnHangup, fd
  <2>2. HungUp(events[1].conn) /\ events[1].conn = conn
    BY <1>1, <2>1 DEF Inv, Service, CauseOK, Shape, EventsOK, conn
  <2> QED
    BY <1>1, <1>2, <2>2 DEF HungUp, Gone
<1>4. CASE ReadEnd \/ WriteError
  BY <1>1, <1>2, <1>4 DEF ReadEnd, WriteError, Gone
<1> QED
  BY <1>3, <1>4

\* A connection that was accepted is dropped only when its client is gone, for
\* every buffer that holds at least a byte.  (With --buffer=0, which the command
\* line accepts, read() returns 0 at once and handle_connection takes it for
\* the end of the stream.)
THEOREM ClosesOnlyAfterPeerHolds ==
    ASSUME BufSize # 0
    PROVE  Spec => ClosesOnlyAfterPeer
<1>1. Inv /\ [Next]_vars =>
         [\A c \in Conns : srv[c] = "open" /\ srv'[c] = "closed" => Gone(c)]_vars
  <2> SUFFICES ASSUME Inv, Next, NEW c \in Conns, srv[c] = "open", srv'[c] = "closed"
               PROVE  Gone(c)
    OBVIOUS
  <2>0. srv \in [Conns -> Sides]
    BY DEF Inv, Shape, TypeOK, SocketsTypeOK
  <2>1. CASE OnHangup \/ ReadEnd \/ WriteError
    <3>1. conn \in Conns /\ Gone(conn) /\ srv' = [srv EXCEPT ![conn] = "closed"]
      BY <2>1, ClosesGone DEF CloseConnection, CloseSide
    <3> QED
      BY <2>0, <3>1
  <2>2. CASE AcceptOne \/ AcceptUnregistered
    <3>1. \E d \in Conns, side \in Sides : srv[d] = "queued" /\ srv' = [srv EXCEPT ![d] = side]
      BY <2>2, AcceptKeepsSock DEF AcceptOne, AcceptUnregistered, Inv, Service, Sides
    <3> QED
      BY <2>0, <3>1
  <2>3. CASE \/ EpollWait \/ LeaveLoop \/ StartAccepting \/ StopAccepting \/ StartReading
             \/ ReadDrained \/ WriteBrokenPipe \/ Terminated
    BY <2>3 DEF EpollWait, LeaveLoop, StartAccepting, StopAccepting, StartReading, ReadDrained,
                WriteBrokenPipe, Terminated, vars, sockVars
  <2>4. CASE DrainSignal \/ ReadData \/ WriteSome \/ SignalArrives
    BY <2>4 DEF DrainSignal, TakeSignal, ReadData, TakeInput, WriteSome, PutOutput, SignalArrives,
                Signal
  <2>5. ASSUME NEW d \in Conns, ClientStep(d) \/ ClientReads(d) \/ ResetArrives(d)
        PROVE  Gone(c)
    BY <2>5, EnvironmentSteps, GoneStays DEF Inv, Service
  <2> QED
    BY <2>1, <2>2, <2>3, <2>4, <2>5 DEF Next, ServerStep
<1> QED
  BY ServiceInvariant, <1>1, PTL DEF Spec, ClosesOnlyAfterPeer

-----------------------------------------------------------------------------
(* The refinement *)

Replies == [c \in Conns |-> Reply(c)]
Lives == [c \in Conns |-> IF srv[c] = "queued" THEN "pending" ELSE srv[c]]
Goners == [c \in Conns |-> Gone(c)]
Phase == IF ~Up THEN "down" ELSE IF sig = "none" THEN "serving" ELSE "stopping"

\* A step that changes none of the mapped variables is a stuttering step of
\* the service.
LEMMA MapsToStutter ==
    ASSUME sent' = sent, Replies' = Replies, Lives' = Lives, Goners' = Goners, Phase' = Phase
    PROVE  UNCHANGED Abstract!vars
BY DEF Abstract!vars, Replies, Lives, Goners, Phase

\* The service is in its initial state when start() has returned.
LEMMA InitMaps == Init => Abstract!Init
<1> SUFFICES ASSUME Init PROVE Abstract!Init
  OBVIOUS
<1> USE DEF Init, SocketsInit
<1>1. Replies = [c \in Conns |-> <<>>]
  <2>1. \A c \in Conns : Reply(c) = <<>>
    BY DEF Reply
  <2> QED
    BY <2>1 DEF Replies
<1>2. Lives = [c \in Conns |-> "none"] /\ Phase = "serving"
  BY DEF Lives, Phase, Up
<1>3. Goners = [c \in Conns |-> FALSE]
  <2>1. \A c \in Conns : Gone(c) = FALSE
    BY DEF Gone
  <2> QED
    BY <2>1, Zenon DEF Goners
<1> QED
  BY <1>1, <1>2, <1>3 DEF Abstract!Init, Replies, Lives, Goners, Phase

\* A client's step is the same step of the service, or none.
LEMMA ClientMaps ==
    ASSUME Inv, NEW c \in Conns, ClientAct(c), Up, pc' = pc
    PROVE  [Abstract!Next]_(Abstract!vars)
<1>1. SockOK /\ SocketsTypeOK
  BY DEF Inv, Service, SockOK
<1>2. Up' /\ sig' = sig
  BY <1>1, GoneStays DEF Up
<1>3. CASE Connect(c)
  <2>1. /\ srv[c] = "none" /\ srv' = [srv EXCEPT ![c] = "queued"]
        /\ link[c] = "none" /\ link' = [link EXCEPT ![c] = "up"]
        /\ UNCHANGED <<sent, inq, outq, got>>
    BY <1>1, <1>3 DEF Connect, streamVars, SockOK, LinkOK
  <2>2. Replies' = Replies
    BY <2>1 DEF Replies, Reply
  <2>3. Goners' = Goners
    BY <1>1, <2>1 DEF Goners, Gone, SocketsTypeOK
  <2>4. Lives[c] = "none" /\ Lives' = [Lives EXCEPT ![c] = "pending"]
    BY <1>1, <2>1 DEF Lives, SocketsTypeOK
  <2>5. Phase' = Phase
    BY <1>2 DEF Phase
  <2>6. Abstract!Connect(c)
    BY <2>1, <2>2, <2>3, <2>4, <2>5 DEF Abstract!Connect, Replies, Lives, Goners, Phase
  <2> QED
    BY <2>6, <1>2 DEF Abstract!Next
<1>4. CASE ClientSend(c)
  <2>1. Abstract!Send(c)
    BY <1>1, <1>2, <1>4, ClientSendFacts DEF Abstract!Send, ClientSend, Gone, SocketsTypeOK
  <2> QED
    BY <2>1, <1>2 DEF Abstract!Next
<1>5. CASE ClientRecv(c)
  <2>1. \A d \in Conns : Reply(d)' = Reply(d)
    BY <1>1, <1>5, ClientRecvKeepsReply
  <2> QED
    BY <2>1, <1>2, <1>5, MapsToStutter DEF ClientRecv, Replies, Lives, Goners, Phase, Gone
<1>6. CASE ClientClose(c)
  <2>1. Abstract!Leave(c)
    BY <1>1, <1>2, <1>6
    DEF Abstract!Leave, ClientClose, streamVars, Reply, Gone, SocketsTypeOK, LinkOK, SockOK
  <2> QED
    BY <2>1, <1>2 DEF Abstract!Next
<1>7. CASE PeerReset(c)
  <2>1. Goners' = Goners
    BY <1>1, <1>7 DEF PeerReset, Goners, Gone, SocketsTypeOK
  <2> QED
    BY <2>1, <1>2, <1>7, MapsToStutter DEF PeerReset, streamVars, Replies, Lives, Phase, Reply
<1> QED
  BY <1>3, <1>4, <1>5, <1>6, <1>7 DEF ClientAct

\* A step that answers nothing and opens or closes nothing is a stuttering step.
LEMMA QuietMaps ==
    ASSUME UNCHANGED <<link, srv, sent, outq, got>>, Up, Up', (sig = "none") = (sig' = "none")
    PROVE  UNCHANGED Abstract!vars
<1>1. Replies' = Replies /\ Lives' = Lives /\ Phase' = Phase
  BY DEF Replies, Reply, Lives, Phase
<1>2. Goners' = Goners
  BY DEF Goners, Gone
<1> QED
  BY <1>1, <1>2, MapsToStutter

\* accept4() is the service's Accept, or its Refuse when the connection cannot
\* be registered.
LEMMA AcceptMaps == Inv /\ (AcceptOne \/ AcceptUnregistered) => Abstract!Next
<1> SUFFICES ASSUME Inv, AcceptOne \/ AcceptUnregistered PROVE Abstract!Next
  OBVIOUS
<1>1. PICK side \in {"open", "closed"} :
         AcceptHead(side) /\ backlog # <<>> /\ (side = "closed" => AddMayFail)
  BY DEF AcceptOne, AcceptUnregistered
<1>2. PICK c \in Conns :
         /\ srv[c] = "queued" /\ srv' = [srv EXCEPT ![c] = side]
         /\ UNCHANGED <<link, sent, inq, outq, got, sig>>
  BY <1>1, AcceptKeepsSock DEF Inv, Service
<1>3. Up /\ Up'
  BY DEF AcceptOne, AcceptUnregistered, Up, serverVars
<1>4. Replies' = Replies /\ Phase' = Phase /\ Phase # "down"
  BY <1>2, <1>3 DEF Replies, Reply, Phase
<1>5. Goners' = Goners
  BY <1>2 DEF Goners, Gone
<1>6. Lives[c] = "pending" /\ Lives' = [Lives EXCEPT ![c] = side]
  BY <1>2 DEF Lives, Inv, Shape, TypeOK, SocketsTypeOK
<1>7. CASE side = "open"
  <2>1. Abstract!Accept(c)
    BY <1>2, <1>4, <1>5, <1>6, <1>7 DEF Abstract!Accept, Replies, Lives, Goners, Phase
  <2> QED
    BY <1>4, <2>1 DEF Abstract!Next, Phase
<1>8. CASE side = "closed"
  <2>1. Abstract!Refuse(c)
    BY <1>1, <1>2, <1>4, <1>5, <1>6, <1>8 DEF Abstract!Refuse, Replies, Lives, Goners, Phase
  <2> QED
    BY <1>4, <2>1 DEF Abstract!Next, Phase
<1> QED
  BY <1>7, <1>8

\* A write() of n bytes is the service's Echo.
LEMMA WriteMaps == Inv /\ WriteSome => Abstract!Next
<1> SUFFICES ASSUME Inv, WriteSome PROVE Abstract!Next
  OBVIOUS
<1>1. PICK c \in Conns, n \in Nat \ {0} :
         /\ srv[c] = "open"
         /\ IF buf' = <<>> THEN AfterEcho ELSE UNCHANGED <<pc, events>>
         /\ Reply(c)' = Prefix(c, Len(Reply(c)) + n)
         /\ Len(Reply(c)) + n <= sent[c]
         /\ \A d \in Conns : d # c => Reply(d)' = Reply(d)
         /\ UNCHANGED <<backlog, link, srv, sent, inq, got, sig>>
  BY WriteSomeFacts
<1>2. Up /\ Up'
  BY <1>1 DEF WriteSome, AfterEcho, NextEvent, Up
<1>3. Len(Reply(c)) \in Nat /\ sent[c] \in Nat
  BY PieceTypes DEF Inv, Shape, TypeOK
<1>4. Lives' = Lives /\ Lives[c] = "open" /\ Phase' = Phase /\ Phase # "down"
  BY <1>1, <1>2 DEF Lives, Phase
<1>5. Goners' = Goners
  BY <1>1 DEF Goners, Gone
<1> DEFINE m == Len(Reply(c)) + n
<1>6. m \in Len(Replies[c]) + 1 .. sent[c]
  BY <1>1, <1>3 DEF Replies
<1>7. Replies' = [Replies EXCEPT ![c] = [i \in 1 .. m |-> <<c, i>>]]
  BY <1>1 DEF Replies, Prefix
<1> HIDE DEF m
<1>8. Abstract!Echo(c)
  BY <1>1, <1>4, <1>5, <1>6, <1>7 DEF Abstract!Echo, Replies, Lives, Goners, Phase
<1> QED
  BY <1>4, <1>8 DEF Abstract!Next, Phase

\* close_connection is the service's Close: the client is gone.
LEMMA CloseMaps ==
    ASSUME BufSize # 0, Inv, OnHangup \/ ReadEnd \/ WriteError
    PROVE  Abstract!Next
<1>1. PICK c \in Conns :
         /\ srv[c] = "open" /\ Gone(c) /\ srv' = [srv EXCEPT ![c] = "closed"]
         /\ UNCHANGED <<link, sent, inq, outq, got, sig>>
  BY ClosesGone DEF CloseConnection, CloseSide, streamVars
<1>2. Up /\ Up'
  BY DEF OnHangup, ReadEnd, WriteError, CloseConnection, NextEvent, Up
<1>3. Replies' = Replies /\ Phase' = Phase /\ Phase # "down"
  BY <1>1, <1>2 DEF Replies, Reply, Phase
<1>4. Goners' = Goners /\ Goners[c]
  BY <1>1 DEF Goners, Gone
<1>5. Lives[c] = "open" /\ Lives' = [Lives EXCEPT ![c] = "closed"]
  BY <1>1 DEF Lives, Inv, Shape, TypeOK, SocketsTypeOK
<1>6. Abstract!Close(c)
  BY <1>1, <1>3, <1>4, <1>5 DEF Abstract!Close, Replies, Lives, Goners, Phase
<1> QED
  BY <1>3, <1>6 DEF Abstract!Next, Phase

\* The process goes down after a signal, or when SIGPIPE kills it.
LEMMA DownMaps ==
    ASSUME Inv, Up, ~Up', UNCHANGED <<link, srv, sent, inq, outq, got, sig>>,
           \/ sig # "none"
           \/ \E c \in Conns : srv[c] = "open" /\ Gone(c) /\ Len(Reply(c)) < sent[c]
    PROVE  Abstract!Next
<1>1. Replies' = Replies /\ Lives' = Lives /\ Phase # "down" /\ Phase' = "down"
  BY DEF Replies, Reply, Lives, Phase
<1>2. Goners' = Goners
  BY DEF Goners, Gone
<1>3. \/ Phase = "stopping"
      \/ /\ Phase = "serving"
         /\ \E c \in Conns : Lives[c] = "open" /\ Goners[c] /\ Len(Replies[c]) < sent[c]
  BY DEF Phase, Lives, Goners, Replies
<1>4. Abstract!Down
  BY <1>1, <1>2, <1>3 DEF Abstract!Down, Replies, Lives, Goners, Phase
<1> QED
  BY <1>1, <1>4 DEF Abstract!Next, Phase

\* SIGPIPE: the client left before it was answered in full.
LEMMA BrokenPipeMaps == Inv /\ WriteBrokenPipe => Abstract!Next
<1> SUFFICES ASSUME Inv, WriteBrokenPipe PROVE Abstract!Next
  OBVIOUS
<1>1. /\ Up /\ ~Up' /\ UNCHANGED <<link, srv, sent, inq, outq, got, sig>>
      /\ pc = "write" /\ link[conn] = "broken"
  BY DEF WriteBrokenPipe, Up, sockVars
<1>2. PICK c \in Conns : c = conn /\ srv[c] = "open"
  BY <1>1, HandlerFacts DEF Inv, Shape, PcOK
<1>3. Gone(c) /\ InFlight(c) = buf /\ buf # <<>> /\ Whole(c, buf)
  BY <1>1, <1>2 DEF Gone, InFlight, Inv, Service, BufOK, DataOK
<1>4. buf \in Seq(Bytes) /\ Len(buf) \in Nat /\ Len(buf) > 0
  BY <1>3 DEF Inv, Shape, TypeOK
<1>5. /\ sent[c] = Len(Reply(c)) + Len(buf) + Len(inq[c])
      /\ Len(Reply(c)) \in Nat /\ Len(inq[c]) \in Nat
  BY <1>3, <1>4, WholeFacts, PieceTypes DEF Inv, Shape, TypeOK
<1>6. Len(Reply(c)) < sent[c]
  <2>1. \A r, w, i \in Nat : w > 0 => r < r + w + i
    OBVIOUS
  <2> QED
    BY <1>4, <1>5, <2>1
<1> QED
  BY <1>1, <1>2, <1>3, <1>6, DownMaps

\* Every step of the backend is a step of the service, or changes nothing of it.
LEMMA NextMaps ==
    ASSUME BufSize # 0, MaxEvents # 0, Inv, [Next]_vars
    PROVE  [Abstract!Next]_(Abstract!vars)
<1>1. CASE EpollWait \/ StartAccepting \/ StopAccepting \/ StartReading \/ ReadDrained
  BY <1>1, QuietMaps DEF EpollWait, StartAccepting, StopAccepting, StartReading, ReadDrained,
                         NextEvent, Dispatching, sockVars, Up
<1>2. CASE LeaveLoop
  BY <1>2, DownMaps DEF LeaveLoop, Inv, Service, StopOK, sockVars, Up
<1>3. CASE DrainSignal
  <2>1. events # <<>> /\ fd = SignalFd /\ sig' = "taken"
    BY <1>3 DEF DrainSignal, Dispatching, TakeSignal
  <2>2. 1 \in 1 .. Len(events) /\ events[1].fd = SignalFd
    BY <2>1, HandlerFacts DEF Inv, Shape, TypeOK, fd
  <2>3. sig # "none"
    BY <2>2 DEF Inv, Service, CauseOK
  <2> QED
    BY <1>3, <2>1, <2>3, QuietMaps DEF DrainSignal, Dispatching, TakeSignal, NextEvent, streamVars, Up
<1>4. CASE AcceptOne \/ AcceptUnregistered
  BY <1>4, AcceptMaps
<1>5. CASE OnHangup \/ ReadEnd \/ WriteError
  BY <1>5, CloseMaps
<1>6. CASE ReadData
  BY <1>6, QuietMaps DEF ReadData, TakeInput, Up
<1>7. CASE WriteSome
  BY <1>7, WriteMaps
<1>8. CASE WriteBrokenPipe
  BY <1>8, BrokenPipeMaps
<1>9. ASSUME NEW c \in Conns, ClientStep(c) \/ ClientReads(c) \/ ResetArrives(c)
      PROVE  [Abstract!Next]_(Abstract!vars)
  BY <1>9, EnvironmentSteps, ClientMaps
<1>10. CASE SignalArrives
  <2>1. /\ Up /\ Up' /\ sig = "none" /\ sig' = "pending"
        /\ UNCHANGED <<link, srv, sent, inq, outq, got>>
    BY <1>10 DEF SignalArrives, Signal, streamVars, Wake, Up
  <2>2. Replies' = Replies /\ Lives' = Lives /\ Phase = "serving" /\ Phase' = "stopping"
    BY <2>1 DEF Replies, Reply, Lives, Phase
  <2>3. Goners' = Goners
    BY <2>1 DEF Goners, Gone
  <2>4. Abstract!Stop
    BY <2>1, <2>2, <2>3 DEF Abstract!Stop, Replies, Lives, Goners, Phase
  <2> QED
    BY <2>2, <2>4 DEF Abstract!Next, Phase
<1>11. CASE Terminated \/ UNCHANGED vars
  <2>1. UNCHANGED <<link, srv, sent, inq, outq, got, sig, pc>>
    BY <1>11 DEF Terminated, vars, sockVars, serverVars
  <2>2. Replies' = Replies /\ Lives' = Lives /\ Phase' = Phase
    BY <2>1 DEF Replies, Reply, Lives, Phase, Up
  <2>3. Goners' = Goners
    BY <2>1 DEF Goners, Gone
  <2> QED
    BY <2>1, <2>2, <2>3, MapsToStutter
<1> QED
  BY <1>1, <1>2, <1>3, <1>4, <1>5, <1>6, <1>7, <1>8, <1>9, <1>10, <1>11 DEF Next, ServerStep

\* Both epoll backends implement the echo service, for any number of clients
\* and descriptors, every buffer that holds at least a byte and every batch of
\* at least one event.  (--buffer=0 drops clients that are still there, and
\* --max-events=0 makes epoll_wait fail, so that run() ends without a signal:
\* the command line accepts both, and the theorem holds for neither.)
THEOREM Refinement ==
    ASSUME BufSize # 0, MaxEvents # 0
    PROVE  Spec => ImplementsEchoService
<1>1. Inv /\ [Next]_vars => [Abstract!Next]_(Abstract!vars)
  BY NextMaps
<1> QED
  BY InitMaps, ServiceInvariant, <1>1, PTL DEF Spec, ImplementsEchoService, Abstract!Spec
=============================================================================
