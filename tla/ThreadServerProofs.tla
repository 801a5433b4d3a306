------------------------ MODULE ThreadServerProofs ------------------------
(***************************************************************************)
(* Theorems about ThreadServer, for any number of clients, bytes, threads  *)
(* and descriptors and any buffer size: threads and connections match,     *)
(* no byte is lost, the counters printed at exit are what the threads did, *)
(* and the backend implements EchoService.                                 *)
(*                                                                         *)
(* NoByteLost and WorkersAccounted are consequences of one inductive       *)
(* invariant, Inv.  It adds to them where the main thread is when a        *)
(* connection has no thread yet, why a thread has left its loop (needed    *)
(* for the refinement: the client is gone or a signal has come) and that a *)
(* thread's buffer holds bytes exactly while it is writing.  ExitsClean    *)
(* needs a second one on top, Tally, about the counter of bytes.           *)
(***************************************************************************)
EXTENDS ThreadServer, SocketsProofs

-----------------------------------------------------------------------------
(* The inductive invariant *)

\* A connection has its thread from accept4() to close(), and that thread's
\* buffer holds something only while it writes.
ThreadsOK ==
    \A c \in Conns :
        /\ srv[c] \in {"none", "queued"} <=> wpc[c] = "none"
        /\ srv[c] = "closed" <=> wpc[c] = "done"
        /\ wbuf[c] # <<>> <=> wpc[c] = "write"

\* The main thread knows of a connection without a thread only between
\* accept4() and std::thread, and leaves its loop only for a signal.
MainOK ==
    /\ mpc = "accept" => backlog # <<>>
    /\ mpc = "spawn" => \E c \in Conns : wpc[c] = "new"
    /\ mpc \in {"poll", "accept", "print", "join", "exited"} =>
          \A c \in Conns : wpc[c] # "new"
    /\ mpc \in {"print", "join", "exited"} => sig = "taken"
    /\ running \/ sig = "taken"
    /\ mpc = "exited" => \A c \in Conns : wpc[c] \in {"none", "done"}

\* A thread leaves its loop because its client is gone or the server stops.
\* (Also at once if it reads into an empty buffer.)
EndOK ==
    \A c \in Conns : wpc[c] \in {"ending", "closing", "done"} =>
        Gone(c) \/ sig = "taken" \/ BufSize = 0

\* What a connection's thread has read and not written is in its buffer.
DataOK ==
    \A c \in Conns :
        srv[c] # "closed" /\ ~(link[c] = "reset" /\ wpc[c] \in {"ending", "closing"})
            => Whole(c, wbuf[c])

Counted == {c \in Conns : wpc[c] \in {"new", "loop", "read", "write", "ending"}}

CountOK == stats.accepted - stats.closed = Cardinality(Counted)

\* The counters only grow after main() has printed them, and no connection is
\* accepted then.
PrintOK ==
    mpc \in {"join", "exited"} =>
        /\ printed.accepted = stats.accepted
        /\ printed.closed <= stats.closed
        /\ printed.bytes <= stats.bytes

Inv == /\ TypeOK /\ SockOK
       /\ ThreadsOK /\ MainOK /\ EndOK /\ DataOK /\ CountOK /\ PrintOK

-----------------------------------------------------------------------------
\* The sets the counters are about are finite.
LEMMA CountedFinite == IsFiniteSet(Counted) /\ Cardinality(Counted) \in Nat
BY SocketsAssumption, FS_Subset, FS_CardinalityType DEF Counted

\* start() establishes the invariant.
LEMMA InitInv == Init => Inv
<1> SUFFICES ASSUME Init PROVE Inv
  OBVIOUS
<1> USE DEF Init, SocketsInit
<1>1. TypeOK
  BY SocketsAssumption DEF TypeOK, SocketsTypeOK, Links, Sides, Stats, NoStats
<1>2. \A c \in Conns : Reply(c) = <<>> /\ Stream(c) = <<>> /\ inq[c] = <<>> /\ wbuf[c] = <<>>
  BY DEF Reply, Stream
<1>3. SockOK
  <2>1. QueueOK /\ LinkOK
    BY DEF QueueOK, LinkOK
  <2>2. ReplyOK
    BY <1>2, PrefixZero, \A c \in Conns : sent[c] = 0 DEF ReplyOK
  <2> QED
    BY <1>1, <2>1, <2>2 DEF SockOK, TypeOK
<1>4. ThreadsOK /\ MainOK /\ EndOK /\ PrintOK
  BY DEF ThreadsOK, MainOK, EndOK, PrintOK
<1>5. DataOK
  BY <1>2 DEF DataOK, Whole
<1>6. CountOK
  <2>1. Counted = {}
    BY DEF Counted
  <2>2. stats.accepted - stats.closed = 0
    BY DEF NoStats
  <2> QED
    BY <2>1, <2>2, FS_EmptySet DEF CountOK
<1> QED
  BY <1>1, <1>3, <1>4, <1>5, <1>6 DEF Inv

\* Whatever a client does, the threads' invariant stays.
LEMMA ClientKeepsInv ==
    ASSUME Inv, NEW c \in Conns, ClientAct(c), UNCHANGED serverVars
    PROVE  Inv'
<1>1. SockOK /\ SocketsTypeOK
  BY DEF Inv, SockOK
<1>2. SockOK'
  BY <1>1, ClientKeepsSock
<1>3. /\ mpc' = mpc /\ running' = running /\ wpc' = wpc /\ wbuf' = wbuf
      /\ stats' = stats /\ printed' = printed
  BY DEF serverVars
<1>4. TypeOK'
  BY <1>2, <1>3 DEF Inv, TypeOK, SockOK
<1>5. ThreadsOK'
  BY <1>1, <1>3, GoneStays DEF Inv, ThreadsOK
<1>6. MainOK'
  <2>1. sig' = sig
    BY <1>1, GoneStays
  <2>2. backlog # <<>> => backlog' # <<>>
    BY <1>1 DEF ClientAct, Connect, ClientSend, ClientRecv, ClientClose, PeerReset, SocketsTypeOK
  <2> QED
    BY <1>3, <2>1, <2>2 DEF Inv, MainOK
<1>7. EndOK'
  BY <1>1, <1>3, GoneStays DEF Inv, EndOK
<1>8. DataOK'
  <2> SUFFICES ASSUME NEW d \in Conns, srv'[d] # "closed",
                      ~(link'[d] = "reset" /\ wpc'[d] \in {"ending", "closing"})
               PROVE  Whole(d, wbuf[d])'
    BY <1>3 DEF DataOK
  <2>1. Whole(d, wbuf[d])
    BY <1>1, <1>3, GoneStays DEF Inv, DataOK
  <2>2. wbuf[d] \in Seq(Bytes)
    BY DEF Inv, TypeOK
  <2>3. Reply(d)' \o wbuf[d] \o inq'[d] = Stream(d)'
    BY <1>1, <2>1, <2>2, ClientKeepsWhole
  <2> QED
    BY <1>3, <2>3 DEF Whole
<1>9. CountOK' /\ PrintOK'
  BY <1>3 DEF Inv, CountOK, Counted, PrintOK
<1> QED
  BY <1>2, <1>4, <1>5, <1>6, <1>7, <1>8, <1>9 DEF Inv

\* A signal arrives.
LEMMA SignalKeepsInv ==
    ASSUME Inv, Signal, UNCHANGED serverVars
    PROVE  Inv'
<1>1. SockOK'
  BY SignalKeepsSock DEF Inv
<1>2. UNCHANGED <<backlog, link, srv, sent, inq, outq, got>> /\ sig # "taken"
  BY DEF Signal, streamVars
<1>3. UNCHANGED <<mpc, running, wpc, wbuf, stats, printed>>
  BY DEF serverVars
<1>4. TypeOK'
  BY <1>1, <1>3 DEF Inv, TypeOK, SockOK
<1>5. ThreadsOK' /\ MainOK' /\ EndOK'
  BY <1>2, <1>3 DEF Inv, ThreadsOK, MainOK, EndOK, Gone
<1>6. DataOK' /\ CountOK' /\ PrintOK'
  BY <1>2, <1>3 DEF Inv, DataOK, Whole, Reply, Stream, CountOK, Counted, PrintOK
<1> QED
  BY <1>1, <1>4, <1>5, <1>6 DEF Inv

-----------------------------------------------------------------------------
(* The main thread *)

\* A step that moves no byte leaves what is held of every connection.
LEMMA SameStreams ==
    ASSUME UNCHANGED <<sent, inq, outq, got>>, NEW d, wbuf'[d] = wbuf[d]
    PROVE  Whole(d, wbuf[d])' <=> Whole(d, wbuf[d])
BY DEF Whole, Reply, Stream

\* Accepting a connection counts it.
LEMMA AcceptConnKeepsInv == Inv /\ AcceptConn => Inv'
<1> SUFFICES ASSUME Inv, AcceptConn PROVE Inv'
  OBVIOUS
<1> DEFINE c == Head(backlog)
<1>1. SockOK /\ backlog # <<>>
  BY DEF Inv, MainOK, AcceptConn
<1>2. /\ c \in Conns /\ srv[c] = "queued" /\ srv' = [srv EXCEPT ![c] = "open"]
      /\ UNCHANGED <<link, sent, inq, outq, got, sig>>
      /\ SockOK'
  BY <1>1, AcceptKeepsSock DEF AcceptConn
<1>3. /\ mpc = "accept" /\ mpc' = "spawn"
      /\ stats' = [stats EXCEPT !.accepted = @ + 1]
      /\ wpc' = [wpc EXCEPT ![c] = "new"]
      /\ UNCHANGED <<running, wbuf, printed>>
  BY DEF AcceptConn
<1> HIDE DEF c
<1>4. /\ stats' \in Stats /\ stats'.accepted = stats.accepted + 1
      /\ stats'.closed = stats.closed /\ stats.accepted \in Nat /\ stats.closed \in Nat
  BY <1>3 DEF Inv, TypeOK, Stats
<1>5. wpc[c] = "none" /\ wpc'[c] = "new" /\ \A d \in Conns : d # c => wpc'[d] = wpc[d]
  BY <1>2, <1>3 DEF Inv, ThreadsOK, TypeOK
<1>6. srv'[c] = "open" /\ \A d \in Conns : d # c => srv'[d] = srv[d]
  BY <1>2 DEF Inv, TypeOK, SocketsTypeOK
<1>7. TypeOK'
  BY <1>2, <1>3, <1>4 DEF Inv, TypeOK, SockOK
<1>8. ThreadsOK'
  BY <1>3, <1>5, <1>6 DEF Inv, ThreadsOK
<1>9. MainOK' /\ EndOK' /\ PrintOK'
  BY <1>2, <1>3, <1>5 DEF Inv, MainOK, EndOK, Gone, PrintOK
<1>10. DataOK'
  BY <1>2, <1>3, <1>5, <1>6, SameStreams DEF Inv, DataOK
<1>11. CountOK'
  <2>1. Counted' = Counted \union {c} /\ c \notin Counted
    BY <1>2, <1>5 DEF Counted
  <2>2. Cardinality(Counted') = Cardinality(Counted) + 1
    BY <2>1, CountedFinite, FS_AddElement
  <2> QED
    BY <1>4, <2>2, CountedFinite DEF Inv, CountOK
<1> QED
  BY <1>2, <1>7, <1>8, <1>9, <1>10, <1>11 DEF Inv

\* std::thread takes the accepted connection over.
LEMMA SpawnKeepsInv == Inv /\ Spawn => Inv'
<1> SUFFICES ASSUME Inv, Spawn PROVE Inv'
  OBVIOUS
<1>1. /\ wpc' = [c \in Conns |-> IF wpc[c] = "new" THEN "loop" ELSE wpc[c]]
      /\ mpc = "spawn" /\ mpc' = "poll"
      /\ UNCHANGED <<backlog, link, srv, sent, inq, outq, got, sig>>
      /\ UNCHANGED <<running, wbuf, stats, printed>>
  BY DEF Spawn, sockVars
<1>2. TypeOK'
  BY <1>1 DEF Inv, TypeOK, SocketsTypeOK
<1>3. SockOK'
  BY <1>1, SameSock DEF Inv, sockVars
<1>4. ThreadsOK' /\ MainOK' /\ EndOK' /\ PrintOK'
  BY <1>1 DEF Inv, ThreadsOK, MainOK, EndOK, Gone, PrintOK
<1>5. DataOK'
  BY <1>1, SameStreams DEF Inv, DataOK
<1>6. CountOK'
  BY <1>1, Counted' = Counted DEF Inv, CountOK, Counted
<1> QED
  BY <1>2, <1>3, <1>4, <1>5, <1>6 DEF Inv

\* The other steps of run(), the printing of the counters and the join.
LEMMA MainKeepsInv == Inv /\ MainStep => Inv'
<1> SUFFICES ASSUME Inv, MainStep PROVE Inv'
  OBVIOUS
<1>1. CASE AcceptConn
  BY <1>1, AcceptConnKeepsInv
<1>2. CASE Spawn
  BY <1>2, SpawnKeepsInv
<1>3. CASE PollSignal
  <2>1. SockOK' /\ UNCHANGED <<backlog, link, srv, sent, inq, outq, got>> /\ sig' = "taken"
    BY <1>3, TakeSignalKeepsSock DEF Inv, PollSignal, TakeSignal, streamVars
  <2>2. TypeOK'
    BY <1>3, <2>1 DEF PollSignal, Inv, TypeOK, SockOK
  <2>3. ThreadsOK' /\ MainOK' /\ EndOK' /\ PrintOK' /\ CountOK'
    BY <1>3, <2>1 DEF PollSignal, Inv, ThreadsOK, MainOK, EndOK, PrintOK, CountOK, Counted
  <2>4. DataOK'
    BY <1>3, <2>1, SameStreams DEF PollSignal, Inv, DataOK
  <2> QED
    BY <2>1, <2>2, <2>3, <2>4 DEF Inv
<1>4. CASE PollListener \/ AcceptFails \/ SpawnFails \/ PrintCounters \/ JoinAll
  <2>1. /\ UNCHANGED <<backlog, link, srv, sent, inq, outq, got, sig>>
        /\ UNCHANGED <<running, wpc, wbuf, stats>>
    BY <1>4 DEF PollListener, AcceptFails, SpawnFails, PrintCounters, JoinAll, sockVars
  <2>2. TypeOK'
    BY <1>4, <2>1
    DEF PollListener, AcceptFails, SpawnFails, PrintCounters, JoinAll, Inv, TypeOK, SocketsTypeOK
  <2>3. SockOK'
    BY <2>1, SameSock DEF Inv, sockVars
  <2>4. ThreadsOK' /\ EndOK' /\ CountOK'
    BY <2>1 DEF Inv, ThreadsOK, EndOK, Gone, CountOK, Counted
  <2>5. MainOK'
    BY <1>4, <2>1
    DEF PollListener, AcceptFails, SpawnFails, PrintCounters, JoinAll, Unjoined, Inv, MainOK
  <2>6. PrintOK'
    BY <1>4, <2>1
    DEF PollListener, AcceptFails, SpawnFails, PrintCounters, JoinAll, Inv, TypeOK, Stats, PrintOK
  <2>7. DataOK'
    BY <2>1, SameStreams DEF Inv, DataOK
  <2> QED
    BY <2>2, <2>3, <2>4, <2>5, <2>6, <2>7 DEF Inv
<1> QED
  BY <1>1, <1>2, <1>3, <1>4 DEF MainStep

-----------------------------------------------------------------------------
(* The thread of connection c *)

\* How the counters change.
LEMMA StatsFacts ==
    ASSUME NEW st \in Stats, NEW n \in Nat
    PROVE  /\ [st EXCEPT !.closed = @ + 1] \in Stats
           /\ [st EXCEPT !.closed = @ + 1].accepted = st.accepted
           /\ [st EXCEPT !.closed = @ + 1].closed = st.closed + 1
           /\ [st EXCEPT !.closed = @ + 1].bytes = st.bytes
           /\ [st EXCEPT !.requests = @ + 1, !.bytes = @ + n] \in Stats
           /\ [st EXCEPT !.requests = @ + 1, !.bytes = @ + n].accepted = st.accepted
           /\ [st EXCEPT !.requests = @ + 1, !.bytes = @ + n].closed = st.closed
           /\ [st EXCEPT !.requests = @ + 1, !.bytes = @ + n].bytes = st.bytes + n
<1>1. [st EXCEPT !.requests = @ + 1] \in Stats
  BY DEF Stats
<1>2. \A t \in Stats : [t EXCEPT !.bytes = @ + n] \in Stats
  BY DEF Stats
<1>3. [st EXCEPT !.requests = @ + 1, !.bytes = @ + n]
         = [[st EXCEPT !.requests = @ + 1] EXCEPT !.bytes = @ + n]
  BY DEF Stats
<1>4. [st EXCEPT !.requests = @ + 1, !.bytes = @ + n] \in Stats
  BY <1>1, <1>2, <1>3
<1> QED
  BY <1>4 DEF Stats

\* What a thread's move to another place does to the set of counted threads.
LEMMA GotoFacts ==
    ASSUME TypeOK, NEW c \in Conns, NEW at, Goto(c, at)
    PROVE  /\ wpc'[c] = at
           /\ \A d \in Conns : d # c => wpc'[d] = wpc[d]
BY DEF TypeOK, Goto

\* read() into the thread's buffer.
LEMMA ReadDataKeepsInv ==
    ASSUME Inv, NEW c \in Conns, ReadData(c)
    PROVE  Inv'
<1> DEFINE n == ReadSize(c)
<1>1. /\ wpc[c] = "read" /\ Up /\ n > 0 /\ TakeInput(c, n) /\ Goto(c, "write")
      /\ wbuf' = [wbuf EXCEPT ![c] = SubSeq(inq[c], 1, n)]
      /\ stats' = [stats EXCEPT !.requests = @ + 1, !.bytes = @ + n]
      /\ UNCHANGED <<mpc, running, printed>>
  BY DEF ReadData, At
<1>2. n \in Nat /\ n \in 0 .. Len(inq[c])
  BY PieceTypes, ThreadAssumption DEF ReadSize, Inv, SockOK
<1> HIDE DEF n
<1>3. srv[c] = "open" /\ wbuf[c] = <<>> /\ Whole(c, <<>>)
  <2>1. srv[c] = "open" /\ wbuf[c] = <<>>
    BY <1>1 DEF Inv, ThreadsOK, TypeOK, SocketsTypeOK, Sides
  <2> QED
    BY <1>1, <2>1 DEF Inv, DataOK
<1>4. /\ SockOK'
      /\ SubSeq(inq[c], 1, n) \in Seq(Bytes) /\ Len(SubSeq(inq[c], 1, n)) = n
      /\ Reply(c)' \o SubSeq(inq[c], 1, n) \o inq'[c] = Stream(c)'
      /\ \A d \in Conns : d # c => inq'[d] = inq[d]
      /\ \A d \in Conns : Reply(d)' = Reply(d) /\ Stream(d)' = Stream(d)
      /\ UNCHANGED <<backlog, link, srv, sent, outq, got, sig>>
  BY <1>1, <1>2, <1>3, ReadFacts DEF Inv
<1>5. /\ wbuf'[c] = SubSeq(inq[c], 1, n) /\ wbuf'[c] # <<>>
      /\ \A d \in Conns : d # c => wbuf'[d] = wbuf[d]
      /\ wbuf' \in [Conns -> Seq(Bytes)]
  BY <1>1, <1>2, <1>4 DEF Inv, TypeOK
<1>6. wpc'[c] = "write" /\ \A d \in Conns : d # c => wpc'[d] = wpc[d]
  BY <1>1, GotoFacts DEF Inv
<1>7. /\ stats' \in Stats /\ stats'.accepted = stats.accepted
      /\ stats'.closed = stats.closed /\ stats'.bytes = stats.bytes + n
      /\ stats.bytes \in Nat
  BY <1>1, <1>2, StatsFacts DEF Inv, TypeOK, Stats
<1>8. TypeOK'
  BY <1>1, <1>4, <1>5, <1>7 DEF Inv, TypeOK, SockOK, Goto
<1>9. ThreadsOK' /\ EndOK'
  BY <1>3, <1>4, <1>5, <1>6 DEF Inv, ThreadsOK, EndOK, Gone
<1>10. MainOK'
  BY <1>1, <1>4, <1>6 DEF Inv, MainOK
<1>11. DataOK'
  <2>1. Whole(c, wbuf[c])'
    BY <1>4, <1>5 DEF Whole
  <2>2. \A d \in Conns : d # c => (Whole(d, wbuf[d])' <=> Whole(d, wbuf[d]))
    BY <1>4, <1>5 DEF Whole
  <2> QED
    BY <1>4, <1>6, <2>1, <2>2 DEF Inv, DataOK
<1>12. CountOK'
  BY <1>1, <1>6, <1>7, Counted' = Counted DEF Inv, CountOK, Counted
<1>13. PrintOK'
  BY <1>1, <1>2, <1>7 DEF Inv, PrintOK, TypeOK, Stats
<1> QED
  BY <1>4, <1>8, <1>9, <1>10, <1>11, <1>12, <1>13 DEF Inv

\* write() of some of the thread's buffer.
LEMMA WriteSomeKeepsInv ==
    ASSUME Inv, NEW c \in Conns, WriteSome(c)
    PROVE  Inv'
<1>1. PICK n \in Writable(c, Len(wbuf[c])) :
         /\ PutOutput(c, SubSeq(wbuf[c], 1, n))
         /\ wbuf' = [wbuf EXCEPT ![c] = SubSeq(wbuf[c], n + 1, Len(wbuf[c]))]
         /\ Goto(c, IF n = Len(wbuf[c]) THEN "loop" ELSE "write")
  BY DEF WriteSome
<1>2. wpc[c] = "write" /\ Up /\ UNCHANGED <<mpc, running, stats, printed>>
  BY DEF WriteSome, At
<1>3. wbuf[c] \in Seq(Bytes) /\ Len(wbuf[c]) \in Nat /\ Len(outq[c]) \in Nat
  BY PieceTypes, BytesConcat DEF Inv, TypeOK, SockOK
<1>4. n \in Nat /\ n > 0 /\ n \in 0 .. Len(wbuf[c])
  BY <1>3, SocketsAssumption DEF Writable
<1>5. srv[c] = "open" /\ Whole(c, wbuf[c])
  BY <1>2 DEF Inv, ThreadsOK, DataOK, TypeOK, SocketsTypeOK, Sides
<1> DEFINE y == SubSeq(wbuf[c], n + 1, Len(wbuf[c]))
<1>6. /\ SockOK'
      /\ y \in Seq(Bytes) /\ Len(y) = Len(wbuf[c]) - n
      /\ Reply(c)' \o y \o inq'[c] = Stream(c)'
      /\ \A d \in Conns : d # c => Reply(d)' = Reply(d)
      /\ \A d \in Conns : Stream(d)' = Stream(d)
      /\ UNCHANGED <<backlog, link, srv, sent, inq, got, sig>>
  BY <1>1, <1>3, <1>4, <1>5, WriteFacts DEF Inv
<1>7. wbuf' = [wbuf EXCEPT ![c] = y]
  BY <1>1
<1> HIDE DEF y
<1>8. /\ wbuf'[c] = y /\ (y = <<>> <=> n = Len(wbuf[c]))
      /\ \A d \in Conns : d # c => wbuf'[d] = wbuf[d]
      /\ wbuf' \in [Conns -> Seq(Bytes)]
  BY <1>3, <1>4, <1>6, <1>7 DEF Inv, TypeOK
<1>9. /\ wpc'[c] = (IF y = <<>> THEN "loop" ELSE "write")
      /\ \A d \in Conns : d # c => wpc'[d] = wpc[d]
  BY <1>1, <1>8, GotoFacts DEF Inv
<1>10. TypeOK'
  BY <1>1, <1>2, <1>6, <1>8 DEF Inv, TypeOK, SockOK, Goto
<1>11. ThreadsOK' /\ EndOK'
  BY <1>2, <1>5, <1>6, <1>8, <1>9 DEF Inv, ThreadsOK, EndOK, Gone
<1>12. MainOK'
  BY <1>2, <1>6, <1>9 DEF Inv, MainOK
<1>13. DataOK'
  <2>1. Whole(c, wbuf[c])'
    BY <1>6, <1>8 DEF Whole
  <2>2. \A d \in Conns : d # c => (Whole(d, wbuf[d])' <=> Whole(d, wbuf[d]))
    BY <1>6, <1>8 DEF Whole
  <2> QED
    BY <1>6, <1>9, <2>1, <2>2 DEF Inv, DataOK
<1>14. CountOK' /\ PrintOK'
  BY <1>2, <1>9, Counted' = Counted DEF Inv, CountOK, Counted, PrintOK
<1> QED
  BY <1>6, <1>10, <1>11, <1>12, <1>13, <1>14 DEF Inv

\* The thread tests running_, finds the stream at its end, or gives a reset
\* connection up.
LEMMA LeaveLoopKeepsInv ==
    ASSUME Inv, NEW c \in Conns, TestRunning(c) \/ ReadEnd(c) \/ WriteError(c)
    PROVE  Inv'
<1>1. /\ UNCHANGED <<backlog, link, srv, sent, inq, outq, got, sig>>
      /\ UNCHANGED <<mpc, running, stats, printed>>
  BY DEF TestRunning, ReadEnd, WriteError, sockVars
<1>2. /\ Up /\ wpc[c] \in {"loop", "read", "write"}
      /\ wpc' = [wpc EXCEPT ![c] = wpc'[c]] /\ wpc'[c] \in {"read", "ending"}
      /\ \A d \in Conns : d # c => wpc'[d] = wpc[d]
  BY DEF TestRunning, ReadEnd, WriteError, At, Goto, Inv, TypeOK
<1>3. wpc'[c] = "ending" => Gone(c) \/ sig = "taken" \/ BufSize = 0
  BY GotoFacts DEF TestRunning, ReadEnd, WriteError, Gone, Inv, MainOK, TypeOK
<1>4. wpc[c] = "write" => link[c] = "reset" /\ wpc'[c] = "ending"
  BY GotoFacts DEF TestRunning, ReadEnd, WriteError, At, Inv
<1>5. /\ wbuf' \in [Conns -> Seq(Bytes)] /\ wbuf'[c] = <<>>
      /\ wpc[c] # "write" => wbuf' = wbuf
      /\ \A d \in Conns : d # c => wbuf'[d] = wbuf[d]
  <2>1. CASE WriteError(c)
    <3>1. wbuf' = [wbuf EXCEPT ![c] = <<>>] /\ wpc[c] = "write"
      BY <2>1 DEF WriteError, At
    <3>2. <<>> \in Seq(Bytes)
      OBVIOUS
    <3> QED
      BY <3>1, <3>2 DEF Inv, TypeOK
  <2>2. CASE TestRunning(c) \/ ReadEnd(c)
    <3>1. wbuf' = wbuf /\ wpc[c] # "write"
      BY <2>2 DEF TestRunning, ReadEnd, At
    <3> QED
      BY <3>1 DEF Inv, TypeOK, ThreadsOK
  <2> QED
    BY <2>1, <2>2
<1>6. TypeOK'
  BY <1>1, <1>2, <1>5 DEF Inv, TypeOK, SocketsTypeOK
<1>7. SockOK'
  BY <1>1, SameSock DEF Inv, sockVars
<1>8. ThreadsOK' /\ EndOK'
  BY <1>1, <1>2, <1>3, <1>5 DEF Inv, ThreadsOK, EndOK, Gone
<1>9. MainOK' /\ PrintOK'
  BY <1>1, <1>2 DEF Inv, MainOK, PrintOK, Up
<1>10. DataOK'
  <2>1. \A d \in Conns : wbuf'[d] = wbuf[d] => (Whole(d, wbuf[d])' <=> Whole(d, wbuf[d]))
    BY <1>1, SameStreams
  <2> QED
    BY <1>1, <1>2, <1>4, <1>5, <2>1 DEF Inv, DataOK
<1>11. CountOK'
  BY <1>1, <1>2, Counted' = Counted DEF Inv, CountOK, Counted
<1> QED
  BY <1>6, <1>7, <1>8, <1>9, <1>10, <1>11 DEF Inv

\* The thread counts the close of its connection.
LEMMA CountCloseKeepsInv ==
    ASSUME Inv, NEW c \in Conns, CountClose(c)
    PROVE  Inv'
<1>1. /\ UNCHANGED <<backlog, link, srv, sent, inq, outq, got, sig>>
      /\ UNCHANGED <<mpc, running, wbuf, printed>>
      /\ Up /\ wpc[c] = "ending" /\ Goto(c, "closing")
      /\ stats' = [stats EXCEPT !.closed = @ + 1]
  BY DEF CountClose, At, sockVars
<1>2. wpc'[c] = "closing" /\ \A d \in Conns : d # c => wpc'[d] = wpc[d]
  BY <1>1, GotoFacts DEF Inv
<1>3. /\ stats' \in Stats /\ stats'.accepted = stats.accepted /\ stats'.bytes = stats.bytes
      /\ stats'.closed = stats.closed + 1
      /\ stats.accepted \in Nat /\ stats.closed \in Nat
  BY <1>1, StatsFacts, 0 \in Nat DEF Inv, TypeOK, Stats
<1>4. TypeOK'
  BY <1>1, <1>3 DEF Inv, TypeOK, SocketsTypeOK, Goto
<1>5. SockOK'
  BY <1>1, SameSock DEF Inv, sockVars
<1>6. ThreadsOK' /\ EndOK' /\ MainOK'
  BY <1>1, <1>2 DEF Inv, ThreadsOK, EndOK, Gone, MainOK, Up
<1>7. PrintOK'
  BY <1>1, <1>3 DEF Inv, PrintOK, TypeOK, Stats
<1>8. DataOK'
  BY <1>1, <1>2, SameStreams DEF Inv, DataOK
<1>9. CountOK'
  <2>1. Counted' = Counted \ {c} /\ c \in Counted
    BY <1>1, <1>2 DEF Counted
  <2>2. Cardinality(Counted') = Cardinality(Counted) - 1
    BY <2>1, CountedFinite, FS_RemoveElement
  <2> QED
    BY <1>3, <2>2, CountedFinite DEF Inv, CountOK
<1> QED
  BY <1>4, <1>5, <1>6, <1>7, <1>8, <1>9 DEF Inv

\* The Socket's destructor closes the connection.
LEMMA CloseConnKeepsInv ==
    ASSUME Inv, NEW c \in Conns, CloseConn(c)
    PROVE  Inv'
<1>1. /\ UNCHANGED <<mpc, running, wbuf, stats, printed>>
      /\ Up /\ wpc[c] = "closing" /\ Goto(c, "done") /\ CloseSide(c)
  BY DEF CloseConn, At
<1>2. wpc'[c] = "done" /\ \A d \in Conns : d # c => wpc'[d] = wpc[d]
  BY <1>1, GotoFacts DEF Inv
<1>3. srv[c] = "open"
  BY <1>1 DEF Inv, ThreadsOK, TypeOK, SocketsTypeOK, Sides
<1>4. /\ srv' = [srv EXCEPT ![c] = "closed"]
      /\ UNCHANGED <<backlog, link, sent, inq, outq, got, sig>>
      /\ SockOK'
  BY <1>1, <1>3, CloseKeepsSock DEF Inv
<1>5. srv'[c] = "closed" /\ \A d \in Conns : d # c => srv'[d] = srv[d]
  BY <1>4 DEF Inv, TypeOK, SocketsTypeOK
<1>6. TypeOK'
  BY <1>1, <1>4 DEF Inv, TypeOK, SockOK, Goto
<1>7. ThreadsOK' /\ EndOK' /\ MainOK' /\ PrintOK'
  BY <1>1, <1>2, <1>4, <1>5 DEF Inv, ThreadsOK, EndOK, Gone, MainOK, Up, PrintOK
<1>8. DataOK'
  BY <1>1, <1>2, <1>4, <1>5, SameStreams DEF Inv, DataOK
<1>9. CountOK'
  BY <1>1, <1>2, Counted' = Counted DEF Inv, CountOK, Counted
<1> QED
  BY <1>4, <1>6, <1>7, <1>8, <1>9 DEF Inv

\* SIGPIPE ends the process where it stands.
LEMMA BrokenPipeKeepsInv ==
    ASSUME Inv, NEW c \in Conns, WriteBrokenPipe(c)
    PROVE  Inv'
<1>1. /\ UNCHANGED <<backlog, link, srv, sent, inq, outq, got, sig>>
      /\ UNCHANGED <<running, wpc, wbuf, stats, printed>>
      /\ mpc' = "killed"
  BY DEF WriteBrokenPipe, sockVars
<1>2. TypeOK'
  BY <1>1 DEF Inv, TypeOK, SocketsTypeOK
<1>3. SockOK'
  BY <1>1, SameSock DEF Inv, sockVars
<1>4. ThreadsOK' /\ EndOK' /\ MainOK' /\ PrintOK' /\ CountOK'
  BY <1>1 DEF Inv, ThreadsOK, EndOK, Gone, MainOK, PrintOK, CountOK, Counted
<1>5. DataOK'
  BY <1>1, SameStreams DEF Inv, DataOK
<1> QED
  BY <1>2, <1>3, <1>4, <1>5 DEF Inv

\* Nothing changes.
LEMMA StutterKeepsInv == Inv /\ UNCHANGED vars => Inv'
<1> SUFFICES ASSUME Inv, UNCHANGED vars PROVE Inv'
  OBVIOUS
<1>1. /\ UNCHANGED <<backlog, link, srv, sent, inq, outq, got, sig>>
      /\ UNCHANGED <<mpc, running, wpc, wbuf, stats, printed>>
  BY DEF vars, sockVars, serverVars
<1>2. TypeOK'
  BY <1>1 DEF Inv, TypeOK, SocketsTypeOK
<1>3. SockOK'
  BY <1>1, SameSock DEF Inv, sockVars
<1>4. ThreadsOK' /\ EndOK' /\ MainOK' /\ PrintOK' /\ CountOK'
  BY <1>1 DEF Inv, ThreadsOK, EndOK, Gone, MainOK, PrintOK, CountOK, Counted
<1>5. DataOK'
  BY <1>1, SameStreams DEF Inv, DataOK
<1> QED
  BY <1>2, <1>3, <1>4, <1>5 DEF Inv

\* The steps of the clients, the network and the signal, each with the part of
\* Sockets it is made of.
LEMMA EnvironmentSteps ==
    ASSUME NEW c \in Conns,
           ClientStep(c) \/ ClientReads(c) \/ ClientLeaves(c) \/ ResetArrives(c)
    PROVE  Up /\ ClientAct(c) /\ UNCHANGED serverVars
BY DEF ClientStep, ClientReads, ClientLeaves, ResetArrives, ClientAct

\* Every step of the backend keeps the invariant.
LEMMA NextKeepsInv == Inv /\ [Next]_vars => Inv'
<1> SUFFICES ASSUME Inv, [Next]_vars PROVE Inv'
  OBVIOUS
<1>1. CASE MainStep
  BY <1>1, MainKeepsInv
<1>2. ASSUME NEW c \in Conns, WorkerStep(c) PROVE Inv'
  BY <1>2, ReadDataKeepsInv, WriteSomeKeepsInv, LeaveLoopKeepsInv, CountCloseKeepsInv,
     CloseConnKeepsInv, BrokenPipeKeepsInv DEF WorkerStep
<1>3. ASSUME NEW c \in Conns,
             ClientStep(c) \/ ClientReads(c) \/ ClientLeaves(c) \/ ResetArrives(c)
      PROVE  Inv'
  BY <1>3, EnvironmentSteps, ClientKeepsInv
<1>4. CASE SignalArrives
  BY <1>4, SignalKeepsInv DEF SignalArrives
<1>5. CASE Terminated \/ UNCHANGED vars
  BY <1>5, StutterKeepsInv DEF Terminated
<1> QED
  BY <1>1, <1>2, <1>3, <1>4, <1>5 DEF Next

\* Inv is an invariant of the thread-per-connection backend.
THEOREM ThreadInvariant == Spec => []Inv
BY InitInv, NextKeepsInv, PTL DEF Spec

-----------------------------------------------------------------------------
(* What follows *)

\* The variables of the backend keep their types.
THEOREM TypeCorrect == Spec => []TypeOK
<1>1. Inv => TypeOK
  BY DEF Inv
<1> QED
  BY ThreadInvariant, <1>1, PTL

\* serve() loses no byte: not between read() and a write() cut short, not when
\* running_ turns false, for any buffer size, any number of bytes and threads.
THEOREM NoByteLostHolds == Spec => []NoByteLost
<1>1. Inv => NoByteLost
  BY DEF Inv, DataOK, Whole, NoByteLost
<1> QED
  BY ThreadInvariant, <1>1, PTL

\* Every accepted connection has one thread until that thread has counted its
\* close, and its descriptor is open exactly as long as the thread has not
\* finished.
THEOREM WorkersAccountedHolds == Spec => []WorkersAccounted
<1>1. Inv => WorkersAccounted
  BY DEF Inv, CountOK, Counted, ThreadsOK, TypeOK, SocketsTypeOK, Sides, WorkersAccounted
<1> QED
  BY ThreadInvariant, <1>1, PTL

\* After a clean exit every connection is closed and counted, no accepted one
\* is missing from the counters that were printed, and the others printed are
\* at most the final ones.
THEOREM ExitCountsHold == Spec => [](mpc = "exited" => ExitCounts)
<1>1. Inv => (mpc = "exited" => ExitCounts)
  <2> SUFFICES ASSUME Inv, mpc = "exited" PROVE ExitCounts
    OBVIOUS
  <2>1. \A c \in Conns : wpc[c] \in {"none", "done"}
    BY DEF Inv, MainOK
  <2>2. \A c \in Conns : srv[c] # "open"
    BY <2>1 DEF Inv, ThreadsOK
  <2>3. Counted = {}
    BY <2>1 DEF Counted
  <2>4. stats.accepted - stats.closed = 0 /\ stats.accepted \in Nat /\ stats.closed \in Nat
    BY <2>3, FS_EmptySet DEF Inv, CountOK, TypeOK, Stats
  <2> QED
    BY <2>2, <2>4 DEF Inv, PrintOK, ExitCounts
<1> QED
  BY ThreadInvariant, <1>1, PTL

-----------------------------------------------------------------------------
(* The counter of bytes.  It is ahead of the replies by what the threads   *)
(* have in their buffers, and a connection that was reset may never get    *)
(* its part.  Tally, inductive relative to Inv, says so at every step, so  *)
(* that after the join, when every buffer is empty, the sums agree.        *)

Tally ==
    /\ \A c \in Conns : Flow(c, Len(wbuf[c]))
    /\ stats.bytes = SumOver(ReadBytes)

\* What a thread holds is a sequence of bytes.
LEMMA HeldType ==
    ASSUME Inv, NEW c \in Conns
    PROVE  wbuf[c] \in Seq(Bytes) /\ Len(wbuf[c]) \in Nat
<1>1. wbuf[c] \in Seq(Bytes)
  BY DEF Inv, TypeOK
<1> QED
  BY <1>1, LenProperties

\* Nothing has been sent, read or answered.
LEMMA InitTally == Init => Tally
<1> SUFFICES ASSUME Init PROVE Tally
  OBVIOUS
<1>1. \A c \in Conns : sent[c] = 0 /\ Len(inq[c]) = 0 /\ Len(Reply(c)) = 0 /\ Len(wbuf[c]) = 0
  <2>1. Len(<<>>) = 0 /\ <<>> \o <<>> = <<>>
    OBVIOUS
  <2> QED
    BY <2>1 DEF Init, SocketsInit, Reply
<1>2. \A c \in Conns : Flow(c, Len(wbuf[c]))
  <2>1. 0 + 0 + 0 <= 0 /\ 0 + 0 + 0 = 0
    OBVIOUS
  <2> QED
    BY <1>1, <2>1, Zenon DEF Flow
<1>3. PICK f : f = ReadBytes
  OBVIOUS
<1>4. f \in [Conns -> Nat] /\ \A c \in Conns : f[c] = 0
  BY <1>1, <1>3 DEF ReadBytes
<1>5. SumOver(f) = 0
  BY <1>4, SumOverType
<1> QED
  BY <1>2, <1>3, <1>5 DEF Tally, Init, NoStats

\* A step that moves no byte and counts none.
LEMMA QuietTally ==
    ASSUME Inv, Tally, UNCHANGED <<link, sent, inq, outq, got>>, stats'.bytes = stats.bytes,
           \A c \in Conns : wbuf'[c] = wbuf[c] \/ (wbuf'[c] = <<>> /\ HungUp(c))
    PROVE  Tally'
<1>1. SocketsTypeOK
  BY DEF Inv, SockOK
<1>2. ASSUME NEW c \in Conns PROVE Flow(c, Len(wbuf[c]))'
  <2>1. PICK n \in Nat : n = Len(wbuf[c])
    BY HeldType
  <2>2. Flow(c, n) /\ (Flow(c, n)' <=> Flow(c, n)) /\ (HungUp(c) => Flow(c, 0)')
    BY <1>1, <2>1, QuietFlow DEF Tally
  <2>3. Len(wbuf'[c]) = n \/ (Len(wbuf'[c]) = 0 /\ HungUp(c))
    BY <2>1, Len(<<>>) = 0
  <2> QED
    BY <2>2, <2>3 DEF Flow
<1>3. ReadBytes' = ReadBytes
  BY <1>1, QuietFlow
<1> QED
  BY <1>2, <1>3 DEF Tally

\* read() counts what it takes.
LEMMA ReadDataTally ==
    ASSUME Inv, Tally, NEW c \in Conns, ReadData(c)
    PROVE  Tally'
<1>1. wpc[c] = "read"
  BY DEF ReadData, At
<1>2. wbuf[c] = <<>> /\ inq[c] \in Seq(Bytes) /\ Len(inq[c]) \in Nat
  BY <1>1, PieceTypes DEF Inv, ThreadsOK, SockOK
<1>3. PICK n \in Nat : n = ReadSize(c) /\ n <= Len(inq[c])
  BY <1>2, ThreadAssumption DEF ReadSize
<1>4. /\ wbuf' = [wbuf EXCEPT ![c] = SubSeq(inq[c], 1, n)] /\ TakeInput(c, n)
      /\ stats' = [stats EXCEPT !.requests = @ + 1, !.bytes = @ + n]
  BY <1>3 DEF ReadData
<1>5. Len(SubSeq(inq[c], 1, n)) = n
  <2>1. \A l \in Nat : n <= l => n \in 0 .. l
    OBVIOUS
  <2>2. n \in 0 .. Len(inq[c])
    BY <1>2, <1>3, <2>1
  <2> QED
    BY <1>2, <2>2, CutJoins
<1>6. Len(wbuf'[c]) = n /\ \A d \in Conns : d # c => wbuf'[d] = wbuf[d]
  BY <1>4, <1>5 DEF Inv, TypeOK
<1>7. PICK h : h = [d \in Conns |-> Len(wbuf[d])]
  OBVIOUS
<1>8. h \in [Conns -> Nat] /\ h[c] = 0 /\ \A d \in Conns : Flow(d, h[d]) /\ h[d] = Len(wbuf[d])
  BY <1>2, <1>7, HeldType, Len(<<>>) = 0 DEF Tally
<1>9. /\ Flow(c, n)'
      /\ \A d \in Conns : d # c => (\A m \in Nat : Flow(d, m) => Flow(d, m)')
      /\ SumOver(ReadBytes') = SumOver(ReadBytes) + n
  BY <1>3, <1>4, <1>8, ReadFlow DEF Inv
<1>10. ASSUME NEW d \in Conns PROVE Flow(d, Len(wbuf[d]))'
  <2>1. CASE d = c
    BY <1>6, <1>9, <2>1 DEF Flow
  <2>2. CASE d # c
    <3>1. PICK m \in Nat : m = Len(wbuf[d]) /\ m = Len(wbuf'[d])
      BY <1>6, <2>2, HeldType
    <3>2. Flow(d, m)'
      BY <1>9, <2>2, <3>1 DEF Tally
    <3> QED
      BY <3>1, <3>2 DEF Flow
  <2> QED
    BY <2>1, <2>2
<1>11. stats'.bytes = stats.bytes + n
  BY <1>4, StatsFacts DEF Inv, TypeOK
<1> QED
  BY <1>9, <1>10, <1>11 DEF Tally

\* write() moves what it takes from the thread's buffer to the reply.
LEMMA WriteSomeTally ==
    ASSUME Inv, Tally, NEW c \in Conns, WriteSome(c)
    PROVE  Tally'
<1>1. PICK n \in Writable(c, Len(wbuf[c])) :
         /\ PutOutput(c, SubSeq(wbuf[c], 1, n))
         /\ wbuf' = [wbuf EXCEPT ![c] = SubSeq(wbuf[c], n + 1, Len(wbuf[c]))]
  BY DEF WriteSome
<1>2. wpc[c] = "write" /\ stats' = stats
  BY DEF WriteSome, At
<1>3. /\ wbuf[c] \in Seq(Bytes) /\ Len(wbuf[c]) \in Nat /\ Len(outq[c]) \in Nat
      /\ Len(Reply(c)) \in Nat
  BY PieceTypes, HeldType DEF Inv, SockOK
<1>4. n \in Nat /\ n <= Len(wbuf[c]) /\ n \in 0 .. Len(wbuf[c])
  BY <1>3, SocketsAssumption DEF Writable
<1>5. srv[c] = "open" /\ Whole(c, wbuf[c])
  BY <1>2 DEF Inv, ThreadsOK, DataOK, TypeOK, SocketsTypeOK, Sides
<1>6. /\ Len(SubSeq(wbuf[c], n + 1, Len(wbuf[c]))) = Len(wbuf[c]) - n
      /\ Reply(c)' = Prefix(c, Len(Reply(c)) + n)
      /\ \A d \in Conns : d # c => Reply(d)' = Reply(d)
      /\ UNCHANGED <<link, sent, inq>>
  BY <1>1, <1>3, <1>4, <1>5, WriteFacts DEF Inv
<1>7. Len(wbuf'[c]) = Len(wbuf[c]) - n /\ \A d \in Conns : d # c => wbuf'[d] = wbuf[d]
  BY <1>1, <1>6 DEF Inv, TypeOK
<1>8. Len(Reply(c)') = Len(Reply(c)) + n
  <2>1. Len(Reply(c)) + n \in Nat
    BY <1>3, <1>4
  <2> QED
    BY <1>6, <2>1, PrefixFacts
<1>9. PICK m \in Nat : m = Len(wbuf[c]) /\ n <= m /\ Flow(c, m)
  BY <1>3, <1>4 DEF Tally
<1>10. /\ Flow(c, m - n)'
       /\ \A d \in Conns : d # c => (\A k \in Nat : Flow(d, k) => Flow(d, k)')
       /\ ReadBytes' = ReadBytes
  BY <1>4, <1>6, <1>8, <1>9, WriteFlow DEF Inv
<1>11. ASSUME NEW d \in Conns PROVE Flow(d, Len(wbuf[d]))'
  <2>1. CASE d = c
    BY <1>7, <1>9, <1>10, <2>1 DEF Flow
  <2>2. CASE d # c
    <3>1. PICK k \in Nat : k = Len(wbuf[d]) /\ k = Len(wbuf'[d])
      BY <1>7, <2>2, HeldType
    <3>2. Flow(d, k)'
      BY <1>10, <2>2, <3>1 DEF Tally
    <3> QED
      BY <3>1, <3>2 DEF Flow
  <2> QED
    BY <2>1, <2>2
<1> QED
  BY <1>2, <1>10, <1>11 DEF Tally

\* Every step keeps the tally.
LEMMA NextKeepsTally == Inv /\ Tally /\ [Next]_vars => Tally'
<1> SUFFICES ASSUME Inv, Tally, [Next]_vars PROVE Tally'
  OBVIOUS
<1>0. stats \in Stats
  BY DEF Inv, TypeOK
<1>1. CASE MainStep
  <2>1. UNCHANGED <<link, sent, inq, outq, got, wbuf>>
    BY <1>1 DEF MainStep, PollSignal, PollListener, AcceptConn, AcceptFails, Spawn, SpawnFails,
                PrintCounters, JoinAll, TakeSignal, AcceptHead, streamVars, sockVars
  <2>2. stats' = stats \/ stats' = [stats EXCEPT !.accepted = @ + 1]
    BY <1>1 DEF MainStep, PollSignal, PollListener, AcceptConn, AcceptFails, Spawn, SpawnFails,
                PrintCounters, JoinAll
  <2>3. stats'.bytes = stats.bytes
    BY <1>0, <2>2 DEF Stats
  <2> QED
    BY <2>1, <2>3, QuietTally
<1>2. ASSUME NEW c \in Conns,
             \/ TestRunning(c) \/ ReadEnd(c) \/ WriteError(c) \/ WriteBrokenPipe(c)
             \/ CountClose(c) \/ CloseConn(c)
      PROVE  Tally'
  <2>1. UNCHANGED <<link, sent, inq, outq, got>>
    BY <1>2 DEF TestRunning, ReadEnd, WriteError, WriteBrokenPipe, CountClose, CloseConn,
                CloseSide, streamVars, sockVars
  <2>2. stats' = stats \/ stats' = [stats EXCEPT !.closed = @ + 1]
    BY <1>2 DEF TestRunning, ReadEnd, WriteError, WriteBrokenPipe, CountClose, CloseConn
  <2>3. stats'.bytes = stats.bytes
    BY <1>0, <2>2, StatsFacts, 0 \in Nat
  <2>4. wbuf' = wbuf \/ (wbuf' = [wbuf EXCEPT ![c] = <<>>] /\ HungUp(c))
    BY <1>2 DEF TestRunning, ReadEnd, WriteError, WriteBrokenPipe, CountClose, CloseConn, HungUp
  <2>5. \A d \in Conns : wbuf'[d] = wbuf[d] \/ (wbuf'[d] = <<>> /\ HungUp(d))
    BY <2>4 DEF Inv, TypeOK
  <2> QED
    BY <2>1, <2>3, <2>5, QuietTally
<1>3. ASSUME NEW c \in Conns, WorkerStep(c) PROVE Tally'
  BY <1>2, <1>3, ReadDataTally, WriteSomeTally DEF WorkerStep
<1>4. ASSUME NEW c \in Conns,
             ClientStep(c) \/ ClientReads(c) \/ ClientLeaves(c) \/ ResetArrives(c)
      PROVE  Tally'
  <2>1. ClientAct(c) /\ wbuf' = wbuf /\ stats' = stats /\ SockOK
    BY <1>4, EnvironmentSteps DEF serverVars, Inv
  <2>2. ReadBytes' = ReadBytes /\ \A d \in Conns, n \in Nat : Flow(d, n) => Flow(d, n)'
    BY <2>1, ClientFlow
  <2>3. ASSUME NEW d \in Conns PROVE Flow(d, Len(wbuf[d]))'
    <3>1. PICK n \in Nat : n = Len(wbuf[d])
      BY HeldType
    <3>2. Flow(d, n)'
      BY <2>2, <3>1 DEF Tally
    <3> QED
      BY <2>1, <3>1, <3>2 DEF Flow
  <2> QED
    BY <2>1, <2>2, <2>3 DEF Tally
<1>5. CASE SignalArrives \/ UNCHANGED vars
  <2>1. UNCHANGED <<link, sent, inq, outq, got, stats, wbuf>>
    BY <1>5 DEF SignalArrives, Signal, streamVars, vars, serverVars, sockVars
  <2> QED
    BY <2>1, QuietTally
<1> QED
  BY <1>1, <1>3, <1>4, <1>5 DEF Next, Terminated

\* Tally is an invariant of the thread-per-connection backend.
THEOREM TallyInvariant == Spec => []Tally
BY InitTally, NextKeepsTally, ThreadInvariant, PTL DEF Spec

\* A clean exit leaves nothing behind (ExitsClean), for any number of threads:
\* after the join every connection is closed and counted, what was printed is
\* at most the final figures, and the bytes counted cover the replies; they are
\* the same unless a connection was reset under a reply.
THEOREM ExitsCleanHolds == Spec => []ExitsClean
<1>1. Inv /\ Tally /\ (mpc = "exited" => ExitCounts) => ExitsClean
  <2> SUFFICES ASSUME Inv, Tally, mpc = "exited"
               PROVE  /\ stats.bytes >= SumOver([c \in Conns |-> Len(Reply(c))])
                      /\ (\A c \in Conns : ~HungUp(c)) =>
                            stats.bytes = SumOver([c \in Conns |-> Len(Reply(c))])
    BY DEF ExitsClean
  <2>1. PICK h \in [Conns -> Nat] : h = [c \in Conns |-> 0]
    OBVIOUS
  <2>2. \A c \in Conns : wbuf[c] = <<>>
    BY DEF Inv, MainOK, ThreadsOK
  <2>3. \A c \in Conns : Flow(c, h[c]) /\ h[c] = 0
    BY <2>1, <2>2, Len(<<>>) = 0 DEF Tally
  <2>4. SocketsTypeOK
    BY DEF Inv, SockOK
  <2>5. /\ SumOver(ReadBytes) >= SumOver([c \in Conns |-> Len(Reply(c))])
        /\ (\A c \in Conns : ~HungUp(c)) =>
              SumOver(ReadBytes) = SumOver([c \in Conns |-> Len(Reply(c))])
    BY <2>3, <2>4, FlowSum
  <2> QED
    BY <2>5 DEF Tally
<1> QED
  BY <1>1, ThreadInvariant, TallyInvariant, ExitCountsHold, PTL

-----------------------------------------------------------------------------
(* The refinement *)

Replies == [c \in Conns |-> Reply(c)]
Lives == [c \in Conns |-> IF srv[c] = "queued" THEN "pending" ELSE srv[c]]
Goners == [c \in Conns |-> Gone(c)]
Phase == IF ~Up THEN "down" ELSE IF sig = "none" THEN "serving" ELSE "stopping"

\* A step that changes none of the mapped variables is a stuttering step of
\* the service.
LEMMA MapsToStutter ==
    ASSUME sent' = sent, Replies' = Replies, Lives' = Lives, Goners' = Goners, Phase' = Phase
    PROVE  UNCHANGED Abstract!vars
BY DEF Abstract!vars, Replies, Lives, Goners, Phase

\* The service is in its initial state when start() has returned.
LEMMA InitMaps == Init => Abstract!Init
<1> SUFFICES ASSUME Init PROVE Abstract!Init
  OBVIOUS
<1> USE DEF Init, SocketsInit
<1>1. Replies = [c \in Conns |-> <<>>]
  <2>1. \A c \in Conns : Reply(c) = <<>>
    BY DEF Reply
  <2> QED
    BY <2>1 DEF Replies
<1>2. Lives = [c \in Conns |-> "none"] /\ Phase = "serving"
  BY DEF Lives, Phase, Up
<1>3. Goners = [c \in Conns |-> FALSE]
  <2>1. \A c \in Conns : Gone(c) = FALSE
    BY DEF Gone
  <2> QED
    BY <2>1, Zenon DEF Goners
<1> QED
  BY <1>1, <1>2, <1>3 DEF Abstract!Init, Replies, Lives, Goners, Phase

\* A client's step is the same step of the service, or none.
LEMMA ClientMaps ==
    ASSUME Inv, NEW c \in Conns, ClientAct(c), Up, UNCHANGED serverVars
    PROVE  [Abstract!Next]_(Abstract!vars)
<1>1. SockOK /\ SocketsTypeOK
  BY DEF Inv, SockOK
<1>2. Up' /\ sig' = sig
  BY <1>1, GoneStays DEF serverVars, Up
<1>3. CASE Connect(c)
  <2>1. Abstract!Connect(c)
    <3>1. /\ srv[c] = "none" /\ srv' = [srv EXCEPT ![c] = "queued"]
          /\ link[c] = "none" /\ link' = [link EXCEPT ![c] = "up"]
          /\ UNCHANGED <<sent, inq, outq, got>>
      BY <1>1, <1>3 DEF Connect, streamVars, SockOK, LinkOK
    <3>2. Replies' = Replies
      BY <3>1 DEF Replies, Reply
    <3>3. Goners' = Goners
      BY <1>1, <3>1 DEF Goners, Gone, SocketsTypeOK
    <3>4. Lives[c] = "none" /\ Lives' = [Lives EXCEPT ![c] = "pending"]
      BY <1>1, <3>1 DEF Lives, SocketsTypeOK
    <3>5. Phase' = Phase
      BY <1>2 DEF Phase
    <3> QED
      BY <3>1, <3>2, <3>3, <3>4, <3>5 DEF Abstract!Connect, Replies, Lives, Goners, Phase
  <2> QED
    BY <2>1, <1>2 DEF Abstract!Next
<1>4. CASE ClientSend(c)
  <2>1. Abstract!Send(c)
    BY <1>1, <1>2, <1>4, ClientSendFacts DEF Abstract!Send, ClientSend, Gone, SocketsTypeOK
  <2> QED
    BY <2>1, <1>2 DEF Abstract!Next
<1>5. CASE ClientRecv(c)
  <2>1. \A d \in Conns : Reply(d)' = Reply(d)
    BY <1>1, <1>5, ClientRecvKeepsReply
  <2> QED
    BY <2>1, <1>2, <1>5, MapsToStutter DEF ClientRecv, Replies, Lives, Goners, Phase, Gone
<1>6. CASE ClientClose(c)
  <2>1. Abstract!Leave(c)
    BY <1>1, <1>2, <1>6 DEF Abstract!Leave, ClientClose, streamVars, Reply, Gone, SocketsTypeOK, LinkOK, SockOK
  <2> QED
    BY <2>1, <1>2 DEF Abstract!Next
<1>7. CASE PeerReset(c)
  <2>1. Goners' = Goners
    BY <1>1, <1>7 DEF PeerReset, Goners, Gone, SocketsTypeOK
  <2> QED
    BY <2>1, <1>2, <1>7, MapsToStutter DEF PeerReset, streamVars, Replies, Lives, Phase, Reply
<1> QED
  BY <1>3, <1>4, <1>5, <1>6, <1>7 DEF ClientAct

\* A step that moves no byte and opens or closes nothing is a stuttering step.
LEMMA QuietMaps ==
    ASSUME UNCHANGED <<link, srv, sent, inq, outq, got>>, Up, Up', (sig = "none") = (sig' = "none")
    PROVE  UNCHANGED Abstract!vars
<1>1. Replies' = Replies /\ Lives' = Lives /\ Phase' = Phase
  BY DEF Replies, Reply, Lives, Phase
<1>2. Goners' = Goners
  BY DEF Goners, Gone
<1> QED
  BY <1>1, <1>2, MapsToStutter

\* accept4() is the service's Accept.
LEMMA AcceptMaps == Inv /\ AcceptConn => Abstract!Next
<1> SUFFICES ASSUME Inv, AcceptConn PROVE Abstract!Next
  OBVIOUS
<1>1. SockOK /\ backlog # <<>>
  BY DEF Inv, MainOK, AcceptConn
<1>2. PICK c \in Conns :
         /\ srv[c] = "queued" /\ srv' = [srv EXCEPT ![c] = "open"]
         /\ UNCHANGED <<link, sent, inq, outq, got, sig>>
  BY <1>1, AcceptKeepsSock DEF AcceptConn
<1>3. Up /\ Up'
  BY DEF AcceptConn, Up
<1>4. Replies' = Replies /\ Phase' = Phase /\ Phase # "down"
  BY <1>2, <1>3 DEF Replies, Reply, Phase
<1>5. Goners' = Goners
  BY <1>2 DEF Goners, Gone
<1>6. Lives[c] = "pending" /\ Lives' = [Lives EXCEPT ![c] = "open"]
  BY <1>2 DEF Lives, Inv, TypeOK, SocketsTypeOK
<1>7. Abstract!Accept(c)
  BY <1>2, <1>4, <1>5, <1>6 DEF Abstract!Accept, Replies, Lives, Goners, Phase
<1> QED
  BY <1>4, <1>7 DEF Abstract!Next, Phase

\* A write() of n bytes is the service's Echo.
LEMMA WriteMaps ==
    ASSUME Inv, NEW c \in Conns, WriteSome(c)
    PROVE  Abstract!Next
<1>1. PICK n \in Writable(c, Len(wbuf[c])) : PutOutput(c, SubSeq(wbuf[c], 1, n))
  BY DEF WriteSome
<1>2. wpc[c] = "write" /\ Up /\ Up'
  BY DEF WriteSome, At, Up
<1>3. wbuf[c] \in Seq(Bytes) /\ Len(wbuf[c]) \in Nat /\ Len(outq[c]) \in Nat
  BY PieceTypes, BytesConcat DEF Inv, TypeOK, SockOK
<1>4. n \in Nat /\ n > 0 /\ n \in 0 .. Len(wbuf[c])
  BY <1>3, SocketsAssumption DEF Writable
<1>5. srv[c] = "open" /\ Whole(c, wbuf[c])
  BY <1>2 DEF Inv, ThreadsOK, DataOK, TypeOK, SocketsTypeOK, Sides
<1>6. /\ Reply(c)' = Prefix(c, Len(Reply(c)) + n)
      /\ Len(Reply(c)) + n <= sent[c]
      /\ \A d \in Conns : d # c => Reply(d)' = Reply(d)
      /\ UNCHANGED <<backlog, link, srv, sent, inq, got, sig>>
  BY <1>1, <1>3, <1>4, <1>5, WriteFacts DEF Inv
<1>7. Len(Reply(c)) \in Nat /\ sent[c] \in Nat
  BY PieceTypes DEF Inv, SockOK
<1>8. /\ Lives' = Lives /\ Lives[c] = "open" /\ Phase' = Phase /\ Phase # "down"
  BY <1>2, <1>5, <1>6 DEF Lives, Phase
<1>9. Goners' = Goners
  BY <1>6 DEF Goners, Gone
<1> DEFINE m == Len(Reply(c)) + n
<1>10. m \in Len(Replies[c]) + 1 .. sent[c]
  BY <1>4, <1>6, <1>7 DEF Replies
<1>11. Replies' = [Replies EXCEPT ![c] = [i \in 1 .. m |-> <<c, i>>]]
  BY <1>6 DEF Replies, Prefix
<1> HIDE DEF m
<1>12. Abstract!Echo(c)
  BY <1>6, <1>8, <1>9, <1>10, <1>11 DEF Abstract!Echo, Replies, Lives, Goners, Phase
<1> QED
  BY <1>8, <1>12 DEF Abstract!Next, Phase

\* close() is the service's Close: the thread has left its loop because the
\* client is gone or the server is stopping.
LEMMA CloseMaps ==
    ASSUME BufSize # 0, Inv, NEW c \in Conns, CloseConn(c)
    PROVE  Abstract!Next
<1>1. wpc[c] = "closing" /\ Up /\ Up' /\ CloseSide(c)
  BY DEF CloseConn, At, Up
<1>2. srv[c] = "open" /\ (Gone(c) \/ sig = "taken")
  BY <1>1 DEF Inv, ThreadsOK, EndOK, TypeOK, SocketsTypeOK, Sides
<1>3. srv' = [srv EXCEPT ![c] = "closed"] /\ UNCHANGED <<link, sent, inq, outq, got, sig>>
  BY <1>1 DEF CloseSide, streamVars
<1>4. Replies' = Replies /\ Phase' = Phase /\ Phase # "down"
  BY <1>1, <1>3 DEF Replies, Reply, Phase
<1>5. Goners' = Goners
  BY <1>3 DEF Goners, Gone
<1>6. Lives[c] = "open" /\ Lives' = [Lives EXCEPT ![c] = "closed"]
  BY <1>2, <1>3 DEF Lives, Inv, TypeOK, SocketsTypeOK
<1>7. Goners[c] \/ Phase = "stopping"
  BY <1>1, <1>2 DEF Goners, Phase
<1>8. Abstract!Close(c)
  BY <1>3, <1>4, <1>5, <1>6, <1>7 DEF Abstract!Close, Replies, Lives, Goners, Phase
<1> QED
  BY <1>4, <1>8 DEF Abstract!Next, Phase

\* The service counts with the same Cardinality.
LEMMA SameCardinality == \A S : Abstract!Cardinality(S) = Cardinality(S)
BY Zenon DEF Abstract!Cardinality, Cardinality

\* The process goes down after a signal, when SIGPIPE kills it, or when it has
\* accepted more connections than it can hold threads.
LEMMA DownMaps ==
    ASSUME Inv, Up, ~Up', UNCHANGED <<link, srv, sent, inq, outq, got, sig>>,
           \/ sig # "none"
           \/ \E c \in Conns : srv[c] = "open" /\ Gone(c) /\ Len(Reply(c)) < sent[c]
           \/ Cardinality({c \in Conns : srv[c] \in {"open", "closed"}}) > MaxThreads
    PROVE  Abstract!Next
<1>1. Replies' = Replies /\ Lives' = Lives /\ Phase # "down" /\ Phase' = "down"
  BY DEF Replies, Reply, Lives, Phase
<1>2. Goners' = Goners
  BY DEF Goners, Gone
<1>3. Phase = "serving" <=> sig = "none"
  BY DEF Phase
<1>4. (\E c \in Conns : srv[c] = "open" /\ Gone(c) /\ Len(Reply(c)) < sent[c]) =>
         \E c \in Conns : Lives[c] = "open" /\ Goners[c] /\ Len(Replies[c]) < sent[c]
  BY DEF Lives, Goners, Replies
<1>5. {c \in Conns : srv[c] \in {"open", "closed"}}
         = {c \in Conns : Lives[c] \in {"open", "closed"}}
  BY DEF Lives
<1>6. Phase \in {"serving", "stopping"}
  BY DEF Phase
<1>7. \/ Phase = "stopping"
      \/ /\ Phase = "serving"
         /\ \E c \in Conns : Lives[c] = "open" /\ Goners[c] /\ Len(Replies[c]) < sent[c]
      \/ /\ Phase = "serving"
         /\ Cardinality({c \in Conns : Lives[c] \in {"open", "closed"}}) > MaxThreads
  BY <1>3, <1>4, <1>5, <1>6
<1>8. Abstract!Down
  <2>0. Abstract!Served = {c \in Conns : Lives[c] \in {"open", "closed"}}
    BY DEF Abstract!Served, Lives
  <2> USE DEF Abstract!Down, Replies, Lives, Goners, Phase
  <2>1. CASE Phase = "stopping"
    BY <1>1, <1>2, <2>1
  <2>2. CASE /\ Phase = "serving"
             /\ \E c \in Conns : Lives[c] = "open" /\ Goners[c] /\ Len(Replies[c]) < sent[c]
    BY <1>1, <1>2, <2>2
  <2>3. CASE Phase = "serving" /\ Cardinality(Abstract!Served) > MaxThreads
    BY <1>1, <1>2, <2>3, SameCardinality
  <2> HIDE DEF Abstract!Down, Lives, Goners, Replies, Phase
  <2> QED
    BY <1>7, <2>0, <2>1, <2>2, <2>3
<1> QED
  BY <1>1, <1>8 DEF Abstract!Next, Phase

\* std::thread fails: MaxThreads threads are there, and one more connection.
LEMMA SpawnFailsMaps == Inv /\ SpawnFails => Abstract!Next
<1> SUFFICES ASSUME Inv, SpawnFails PROVE Abstract!Next
  OBVIOUS
<1> DEFINE S == {c \in Conns : srv[c] \in {"open", "closed"}}
<1>1. Up /\ ~Up' /\ UNCHANGED <<link, srv, sent, inq, outq, got, sig>>
  BY DEF SpawnFails, Up, sockVars
<1>2. PICK c \in Conns : wpc[c] = "new"
  BY DEF Inv, MainOK, SpawnFails
<1>3. Unjoined \union {c} \subseteq S /\ c \notin Unjoined
  BY <1>2 DEF Inv, ThreadsOK, TypeOK, SocketsTypeOK, Sides, Unjoined
<1>4. IsFiniteSet(Unjoined) /\ IsFiniteSet(S)
  BY SocketsAssumption, FS_Subset DEF Unjoined
<1>5. /\ Cardinality(Unjoined \union {c}) = Cardinality(Unjoined) + 1
      /\ IsFiniteSet(Unjoined \union {c})
  BY <1>3, <1>4, FS_AddElement
<1>6. Cardinality(Unjoined \union {c}) <= Cardinality(S)
  BY <1>3, <1>4, FS_Subset
<1>7. Cardinality(S) \in Nat /\ Cardinality(Unjoined) \in Nat
  BY <1>4, FS_CardinalityType
<1>8. Cardinality(Unjoined) >= MaxThreads
  BY DEF SpawnFails
<1>9. Cardinality(S) > MaxThreads
  BY <1>5, <1>6, <1>7, <1>8, ThreadAssumption
<1> QED
  BY <1>1, <1>9, DownMaps

\* SIGPIPE: the client left before it was answered in full.
LEMMA BrokenPipeMaps ==
    ASSUME Inv, NEW c \in Conns, WriteBrokenPipe(c)
    PROVE  Abstract!Next
<1>1. /\ Up /\ ~Up' /\ UNCHANGED <<link, srv, sent, inq, outq, got, sig>>
      /\ wpc[c] = "write" /\ link[c] = "broken"
  BY DEF WriteBrokenPipe, At, Up, sockVars
<1>2. srv[c] = "open" /\ Gone(c) /\ wbuf[c] # <<>> /\ Whole(c, wbuf[c])
  BY <1>1 DEF Inv, ThreadsOK, DataOK, Gone, TypeOK, SocketsTypeOK, Sides
<1>3. wbuf[c] \in Seq(Bytes) /\ Len(wbuf[c]) \in Nat /\ Len(wbuf[c]) > 0
  BY <1>2 DEF Inv, TypeOK
<1>4. /\ sent[c] = Len(Reply(c)) + Len(wbuf[c]) + Len(inq[c])
      /\ Len(Reply(c)) \in Nat /\ Len(inq[c]) \in Nat
  BY <1>2, <1>3, WholeFacts, PieceTypes DEF Inv, SockOK
<1>5. Len(Reply(c)) < sent[c]
  <2>1. \A r, w, i \in Nat : w > 0 => r < r + w + i
    OBVIOUS
  <2> QED
    BY <1>3, <1>4, <2>1
<1> QED
  BY <1>1, <1>2, <1>5, DownMaps

\* Every step of the backend is a step of the service, or changes nothing of it.
LEMMA NextMaps ==
    ASSUME BufSize # 0, Inv, [Next]_vars
    PROVE  [Abstract!Next]_(Abstract!vars)
<1>1. CASE MainStep
  <2>1. CASE AcceptConn
    BY <2>1, AcceptMaps
  <2>2. CASE SpawnFails
    BY <2>2, SpawnFailsMaps
  <2>3. CASE JoinAll
    BY <2>3, DownMaps DEF JoinAll, Up, sockVars, Inv, MainOK
  <2>4. CASE PollSignal
    BY <2>4, QuietMaps DEF PollSignal, TakeSignal, streamVars, Up
  <2>5. CASE PollListener \/ AcceptFails \/ Spawn \/ PrintCounters
    BY <2>5, QuietMaps DEF PollListener, AcceptFails, Spawn, PrintCounters, sockVars, Up
  <2> QED
    BY <1>1, <2>1, <2>2, <2>3, <2>4, <2>5 DEF MainStep
<1>2. ASSUME NEW c \in Conns, WorkerStep(c) PROVE [Abstract!Next]_(Abstract!vars)
  <2>1. CASE WriteSome(c)
    BY <2>1, WriteMaps
  <2>2. CASE WriteBrokenPipe(c)
    BY <2>2, BrokenPipeMaps
  <2>3. CASE CloseConn(c)
    BY <2>3, CloseMaps
  <2>4. CASE ReadData(c)
    <3>1. UNCHANGED <<link, srv, sent, outq, got, sig, mpc>> /\ Up /\ Up'
      BY <2>4 DEF ReadData, TakeInput, At, Up
    <3>2. Replies' = Replies /\ Lives' = Lives /\ Phase' = Phase
      BY <3>1 DEF Replies, Reply, Lives, Phase
    <3>3. Goners' = Goners
      BY <3>1 DEF Goners, Gone
    <3> QED
      BY <3>1, <3>2, <3>3, MapsToStutter
  <2>5. CASE TestRunning(c) \/ ReadEnd(c) \/ WriteError(c) \/ CountClose(c)
    BY <2>5, QuietMaps DEF TestRunning, ReadEnd, WriteError, CountClose, At, Up, sockVars
  <2> QED
    BY <1>2, <2>1, <2>2, <2>3, <2>4, <2>5 DEF WorkerStep
<1>3. ASSUME NEW c \in Conns,
             ClientStep(c) \/ ClientReads(c) \/ ClientLeaves(c) \/ ResetArrives(c)
      PROVE  [Abstract!Next]_(Abstract!vars)
  BY <1>3, EnvironmentSteps, ClientMaps
<1>4. CASE SignalArrives
  <2>1. /\ Up /\ Up' /\ sig = "none" /\ sig' = "pending"
        /\ UNCHANGED <<link, srv, sent, inq, outq, got>>
    BY <1>4 DEF SignalArrives, Signal, streamVars, serverVars, Up
  <2>2. Replies' = Replies /\ Lives' = Lives /\ Phase = "serving" /\ Phase' = "stopping"
    BY <2>1 DEF Replies, Reply, Lives, Phase
  <2>3. Goners' = Goners
    BY <2>1 DEF Goners, Gone
  <2>4. Abstract!Stop
    BY <2>1, <2>2, <2>3 DEF Abstract!Stop, Replies, Lives, Goners, Phase
  <2> QED
    BY <2>2, <2>4 DEF Abstract!Next, Phase
<1>5. CASE Terminated \/ UNCHANGED vars
  <2>1. UNCHANGED <<link, srv, sent, inq, outq, got, sig, mpc>>
    BY <1>5 DEF Terminated, vars, sockVars, serverVars
  <2>2. Replies' = Replies /\ Lives' = Lives /\ Phase' = Phase
    BY <2>1 DEF Replies, Reply, Lives, Phase, Up
  <2>3. Goners' = Goners
    BY <2>1 DEF Goners, Gone
  <2> QED
    BY <2>1, <2>2, <2>3, MapsToStutter
<1> QED
  BY <1>1, <1>2, <1>3, <1>4, <1>5 DEF Next

\* The thread-per-connection backend implements the echo service, for every
\* buffer that holds at least a byte.  (--buffer=0, which the command line
\* accepts, makes read() return 0 at once: the connection of a client that is
\* still there is closed, and the theorem does not hold.)
THEOREM Refinement ==
    ASSUME BufSize # 0
    PROVE  Spec => ImplementsEchoService
<1>1. Inv /\ [Next]_vars => [Abstract!Next]_(Abstract!vars)
  BY NextMaps
<1> QED
  BY InitMaps, ThreadInvariant, <1>1, PTL DEF Spec, ImplementsEchoService, Abstract!Spec
=============================================================================
