--------------------------- MODULE LoadgenProofs ---------------------------
(***************************************************************************)
(* Theorems about the load generator and the thread-per-connection server  *)
(* together, for any number of workers and idle connections, any payload,  *)
(* any buffers: the loop is closed (ClosedLoop), and a payload that the    *)
(* sockets and the server's buffer cannot hold is never answered           *)
(* (TooLargeNeverAnswered).                                                *)
(*                                                                         *)
(* The inductive invariant is the server's own (Inv of ThreadServerProofs: *)
(* the load generator's clients are a special case of those it is proved   *)
(* for, but for CloseAll, which closes many connections at once), how much *)
(* each buffer on the way holds at most, and, for every place in worker(), *)
(* how many bytes it has sent and received.                                *)
(***************************************************************************)
EXTENDS Loadgen, ThreadServerProofs

-----------------------------------------------------------------------------
(* The inductive invariant *)

LoadTypeOK ==
    /\ lmain \in {"idle", "spawn", "join", "exited", "killed"}
    /\ lpc \in [Active -> {"none", "connect", "loop", "write", "read", "done"}]
    /\ left \in [Active -> Nat]
    /\ have \in [Active -> Nat]
    /\ requests \in [Active -> Nat]
    /\ payload \in Nat

\* What one read() of the server takes at most.
MostRead == Min({BufSize, RcvBuf})

\* What the socket buffers and the buffer of a server thread hold at most.
BuffersOK ==
    \A c \in Conns :
        /\ Len(inq[c]) <= RcvBuf
        /\ Len(outq[c]) <= SndBuf
        /\ Len(wbuf[c]) <= MostRead

\* The bytes of the requests worker c has counted.
Due(c) == requests[c] * payload

\* How far worker c is: it has been answered all the requests it counted, and
\* of the one after that it has sent what is not left and received "have".
InLoop(c) ==
    /\ Due(c) <= Len(got[c])
    /\ sent[c] <= Due(c) + payload
    /\ lpc[c] \in {"none", "connect"} => requests[c] = 0
    /\ lpc[c] = "loop" => sent[c] = Due(c)
    /\ lpc[c] = "write" => /\ Len(got[c]) = Due(c) /\ have[c] = 0
                           /\ sent[c] + left[c] <= Due(c) + payload
    /\ lpc[c] = "read" => Len(got[c]) = Due(c) + have[c]

LoopOK == \A c \in Active : InLoop(c)

\* A worker with a payload that is too large stays in its first write().
FitOK ==
    payload > MostHeld =>
        \A c \in Active : requests[c] = 0 /\ sent[c] <= MostHeld

TotalOK == lmain = "exited" => total = AddUp(requests)

LoadInv ==
    Inv /\ BuffersOK /\ LoadTypeOK /\ LoopOK /\ FitOK /\ TotalOK

-----------------------------------------------------------------------------
(* Buffers and the server *)

\* What the definitions of the two limits come to.
LEMMA MostFacts ==
    /\ MostRead \in Nat
    /\ \A n \in Nat : n <= BufSize /\ n <= RcvBuf => n <= MostRead
    /\ MostHeld = RcvBuf + MostRead + SndBuf
<1>1. BufSize \in Nat /\ RcvBuf \in Nat
  BY SocketsAssumption, ThreadAssumption
<1>2. \E x \in {BufSize, RcvBuf} : \A y \in {BufSize, RcvBuf} : x <= y
  BY <1>1
<1>3. MostRead \in {BufSize, RcvBuf}
  BY <1>2 DEF MostRead, Min
<1> QED
  BY <1>1, <1>3 DEF MostHeld, MostRead

\* A worker's connection is one of the connections.
LEMMA ActiveConns == \A c \in Active : c \in Conns
BY DEF Active

\* The ends of many connections closed at once: the threads' invariant stays.
LEMMA CloseAllKeepsInv ==
    ASSUME Inv, NEW S, CloseAll(S), UNCHANGED serverVars
    PROVE  Inv' /\ UNCHANGED <<sent, inq, outq, got>>
<1>1. /\ UNCHANGED <<backlog, srv, sent, inq, outq, got, sig>>
      /\ \A c \in Conns : \/ link'[c] = link[c]
                          \/ link[c] = "up" /\ link'[c] \in {"fin", "reset"}
      /\ link' \in [Conns -> Links]
  BY DEF CloseAll, streamVars, Inv, TypeOK, SocketsTypeOK, Links
<1>2. UNCHANGED <<mpc, running, wpc, wbuf, stats, printed>>
  BY DEF serverVars
<1>3. TypeOK'
  BY <1>1, <1>2 DEF Inv, TypeOK, SocketsTypeOK
<1>4. SockOK'
  <2>1. QueueOK' /\ ReplyOK'
    BY <1>1 DEF Inv, SockOK, QueueOK, ReplyOK, Reply
  <2>2. LinkOK'
    BY <1>1 DEF Inv, SockOK, LinkOK
  <2> QED
    BY <1>3, <2>1, <2>2 DEF TypeOK, SockOK
<1>5. ThreadsOK' /\ EndOK' /\ MainOK' /\ PrintOK' /\ CountOK'
  BY <1>1, <1>2 DEF Inv, ThreadsOK, EndOK, Gone, MainOK, PrintOK, CountOK, Counted
<1>6. DataOK'
  BY <1>1, <1>2, SameStreams DEF Inv, DataOK
<1> QED
  BY <1>1, <1>3, <1>4, <1>5, <1>6 DEF Inv

\* Whatever a client does, its socket's buffers do not overflow.
LEMMA ClientKeepsBuffers ==
    ASSUME Inv, BuffersOK, NEW c \in Conns, ClientAct(c), UNCHANGED serverVars
    PROVE  BuffersOK'
<1>1. wbuf' = wbuf /\ SocketsTypeOK
  BY DEF serverVars, Inv, SockOK
<1>2. CASE ClientSend(c)
  <2>1. /\ inq'[c] = Append(inq[c], <<c, sent[c] + 1>>) /\ outq' = outq
        /\ \A d \in Conns : d # c => inq'[d] = inq[d]
    BY <1>1, <1>2, ClientSendFacts
  <2>2. Len(inq[c]) < RcvBuf /\ Len(inq[c]) \in Nat /\ inq[c] \in Seq(Bytes)
    BY <1>1, <1>2, PieceTypes DEF ClientSend
  <2>3. Len(inq'[c]) = Len(inq[c]) + 1
    BY <2>1, <2>2
  <2> QED
    BY <1>1, <2>1, <2>2, <2>3, SocketsAssumption DEF BuffersOK
<1>3. CASE ClientRecv(c)
  <2>1. /\ outq[c] \in Seq(Bytes) /\ outq[c] # <<>> /\ inq' = inq
        /\ outq' = [outq EXCEPT ![c] = Tail(outq[c])]
    BY <1>1, <1>3, PieceTypes DEF ClientRecv
  <2>2. Len(Tail(outq[c])) = Len(outq[c]) - 1 /\ Len(outq[c]) \in Nat
    BY <2>1
  <2>3. /\ outq'[c] = Tail(outq[c])
        /\ \A d \in Conns : d # c => outq'[d] = outq[d]
    BY <1>1, <2>1 DEF SocketsTypeOK
  <2> QED
    BY <1>1, <2>1, <2>2, <2>3, SocketsAssumption DEF BuffersOK
<1>4. CASE Connect(c) \/ ClientClose(c) \/ PeerReset(c)
  BY <1>1, <1>4 DEF Connect, ClientClose, PeerReset, streamVars, BuffersOK
<1> QED
  BY <1>2, <1>3, <1>4 DEF ClientAct

\* read() takes no more than the buffer holds, write() no more than fits.
LEMMA WorkerKeepsBuffers ==
    ASSUME Inv, BuffersOK, NEW c \in Conns, WorkerStep(c)
    PROVE  BuffersOK' /\ UNCHANGED <<sent, got>>
<1>1. SocketsTypeOK /\ wbuf \in [Conns -> Seq(Bytes)]
  BY DEF Inv, TypeOK
<1>2. /\ inq[c] \in Seq(Bytes) /\ Len(inq[c]) \in Nat
      /\ outq[c] \in Seq(Bytes) /\ Len(outq[c]) \in Nat
      /\ wbuf[c] \in Seq(Bytes) /\ Len(wbuf[c]) \in Nat
  BY <1>1, PieceTypes, LenProperties
<1>3. CASE ReadData(c)
  <2>1. PICK n \in 0 .. Len(inq[c]) : n = ReadSize(c) /\ n <= BufSize
    BY <1>2, ThreadAssumption DEF ReadSize
  <2>2. /\ wbuf' = [wbuf EXCEPT ![c] = SubSeq(inq[c], 1, n)]
        /\ inq' = [inq EXCEPT ![c] = SubSeq(inq[c], n + 1, Len(inq[c]))]
        /\ UNCHANGED <<outq, sent, got>>
    BY <1>3, <2>1 DEF ReadData, TakeInput
  <2>3. /\ Len(SubSeq(inq[c], 1, n)) = n
        /\ Len(SubSeq(inq[c], n + 1, Len(inq[c]))) = Len(inq[c]) - n
    BY <1>2, <2>1, CutJoins
  <2>4. /\ Len(wbuf'[c]) = n /\ Len(inq'[c]) = Len(inq[c]) - n
        /\ \A d \in Conns : d # c => wbuf'[d] = wbuf[d] /\ inq'[d] = inq[d]
    BY <1>1, <2>2, <2>3 DEF SocketsTypeOK
  <2>5. n <= MostRead
    BY <1>2, <2>1, MostFacts, SocketsAssumption DEF BuffersOK
  <2> QED
    BY <1>2, <2>1, <2>2, <2>4, <2>5, SocketsAssumption DEF BuffersOK
<1>4. CASE WriteSome(c)
  <2>1. PICK n \in Writable(c, Len(wbuf[c])) :
           /\ PutOutput(c, SubSeq(wbuf[c], 1, n))
           /\ wbuf' = [wbuf EXCEPT ![c] = SubSeq(wbuf[c], n + 1, Len(wbuf[c]))]
    BY <1>4 DEF WriteSome
  <2>2. n \in 1 .. Len(wbuf[c]) /\ Len(outq[c]) + n <= SndBuf
    BY <1>2, SocketsAssumption DEF Writable
  <2>3. /\ SubSeq(wbuf[c], 1, n) \in Seq(Bytes) /\ Len(SubSeq(wbuf[c], 1, n)) = n
        /\ Len(SubSeq(wbuf[c], n + 1, Len(wbuf[c]))) = Len(wbuf[c]) - n
    BY <1>2, <2>2
  <2>4. /\ outq' = [outq EXCEPT ![c] = outq[c] \o SubSeq(wbuf[c], 1, n)]
        /\ UNCHANGED <<inq, sent, got>>
    BY <2>1 DEF PutOutput
  <2>5. Len(outq[c] \o SubSeq(wbuf[c], 1, n)) = Len(outq[c]) + n
    BY <1>2, <2>3
  <2>6. /\ Len(wbuf'[c]) = Len(wbuf[c]) - n /\ Len(outq'[c]) = Len(outq[c]) + n
        /\ \A d \in Conns : d # c => wbuf'[d] = wbuf[d] /\ outq'[d] = outq[d]
    BY <1>1, <2>1, <2>3, <2>4, <2>5 DEF SocketsTypeOK
  <2>7. Len(wbuf'[c]) <= MostRead /\ Len(outq'[c]) <= SndBuf
    BY <1>2, <2>2, <2>6, MostFacts DEF BuffersOK
  <2> QED
    BY <2>4, <2>6, <2>7 DEF BuffersOK
<1>5. CASE WriteError(c)
  <2>1. wbuf' = [wbuf EXCEPT ![c] = <<>>] /\ UNCHANGED <<inq, outq, sent, got>>
    BY <1>5 DEF WriteError, sockVars
  <2>2. /\ Len(wbuf'[c]) = 0
        /\ \A d \in Conns : d # c => wbuf'[d] = wbuf[d]
    BY <1>1, <2>1
  <2> QED
    BY <2>1, <2>2, MostFacts DEF BuffersOK
<1>6. CASE TestRunning(c) \/ ReadEnd(c) \/ WriteBrokenPipe(c) \/ CountClose(c) \/ CloseConn(c)
  BY <1>6 DEF TestRunning, ReadEnd, WriteBrokenPipe, CountClose, CloseConn, CloseSide,
              streamVars, sockVars, BuffersOK
<1> QED
  BY <1>3, <1>4, <1>5, <1>6 DEF WorkerStep

\* The server's steps keep what is known of the server, and a worker of the
\* load generator is not touched by them.
LEMMA ServerKeepsServer ==
    ASSUME Inv, BuffersOK, ServerStep
    PROVE  Inv' /\ BuffersOK' /\ UNCHANGED <<sent, got>>
<1>1. CASE MainStep
  <2>1. UNCHANGED <<sent, got, inq, outq, wbuf>>
    BY <1>1 DEF MainStep, PollSignal, PollListener, AcceptConn, AcceptFails, Spawn, SpawnFails,
                PrintCounters, JoinAll, TakeSignal, AcceptHead, streamVars, sockVars
  <2> QED
    BY <1>1, <2>1, MainKeepsInv DEF BuffersOK
<1>2. ASSUME NEW c \in Conns, WorkerStep(c) PROVE Inv' /\ BuffersOK' /\ UNCHANGED <<sent, got>>
  <2>1. Inv'
    BY <1>2, ReadDataKeepsInv, WriteSomeKeepsInv, LeaveLoopKeepsInv, CountCloseKeepsInv,
       CloseConnKeepsInv, BrokenPipeKeepsInv DEF WorkerStep
  <2> QED
    BY <1>2, <2>1, WorkerKeepsBuffers
<1>3. ASSUME NEW c \in Conns, ResetArrives(c) PROVE Inv' /\ BuffersOK' /\ UNCHANGED <<sent, got>>
  BY <1>3, ClientKeepsInv, ClientKeepsBuffers DEF ResetArrives, ClientAct, PeerReset, streamVars
<1>4. CASE SignalArrives
  <2>1. UNCHANGED <<sent, got, inq, outq, wbuf>>
    BY <1>4 DEF SignalArrives, Signal, streamVars, serverVars
  <2> QED
    BY <1>4, <2>1, SignalKeepsInv DEF SignalArrives, BuffersOK
<1> QED
  BY <1>1, <1>2, <1>3, <1>4 DEF ServerStep

-----------------------------------------------------------------------------
(* The load generator *)

\* The part of the invariant that is about the load generator.
LoadOK == LoadTypeOK /\ LoopOK /\ FitOK /\ TotalOK

\* main() and every worker begin with nothing sent.
LEMMA LoadInitInv == LoadInit => LoadInv
<1> SUFFICES ASSUME LoadInit PROVE LoadInv
  OBVIOUS
<1>1. Inv
  BY InitInv DEF LoadInit
<1>2. \A c \in Conns : inq[c] = <<>> /\ outq[c] = <<>> /\ got[c] = <<>> /\ wbuf[c] = <<>>
                       /\ sent[c] = 0
  BY DEF LoadInit, Init, SocketsInit
<1>3. BuffersOK
  BY <1>2, PrefixZero, MostFacts, SocketsAssumption DEF BuffersOK
<1>4. LoadTypeOK /\ payload \in Nat
  BY LoadgenAssumption DEF LoadInit, LoadTypeOK
<1>5. \A c \in Active : requests[c] = 0 /\ Due(c) = 0 /\ lpc[c] = "none"
  BY <1>4 DEF LoadInit, Due
<1>6. LoopOK
  BY <1>2, <1>4, <1>5, PrefixZero, ActiveConns DEF LoopOK, InLoop
<1>7. MostHeld \in Nat
  BY MostFacts, SocketsAssumption
<1>8. FitOK
  BY <1>2, <1>5, <1>7, ActiveConns DEF FitOK
<1>9. TotalOK
  BY DEF TotalOK, LoadInit
<1> QED
  BY <1>1, <1>3, <1>4, <1>6, <1>8, <1>9 DEF LoadInv

\* A step that leaves the load generator and its bytes alone.
LEMMA LoadStays ==
    ASSUME LoadOK, UNCHANGED <<loadVars, sent, got>>
    PROVE  LoadOK'
<1>1. UNCHANGED <<lmain, lpc, left, have, requests, total, payload, sent, got>>
  BY DEF loadVars
<1>2. LoadTypeOK' /\ TotalOK' /\ FitOK'
  BY <1>1 DEF LoadOK, LoadTypeOK, TotalOK, FitOK, MostHeld
<1>3. LoopOK'
  BY <1>1 DEF LoadOK, LoopOK, InLoop, Due
<1> QED
  BY <1>2, <1>3 DEF LoadOK

\* main() of the load generator.
LEMMA LoadMainKeeps ==
    ASSUME Inv, BuffersOK, LoadOK, LoadMain
    PROVE  Inv' /\ BuffersOK' /\ LoadOK'
<1>1. ASSUME NEW c \in Idle, OpenIdle(c) PROVE Inv' /\ BuffersOK' /\ LoadOK'
  <2>1. c \in Conns /\ ClientAct(c) /\ UNCHANGED serverVars /\ UNCHANGED loadVars
    BY <1>1, LoadgenAssumption DEF OpenIdle, ClientAct
  <2>2. UNCHANGED <<sent, got>>
    BY <1>1 DEF OpenIdle, Connect, streamVars
  <2> QED
    BY <2>1, <2>2, ClientKeepsInv, ClientKeepsBuffers, LoadStays
<1>2. CASE IdleOpened \/ SetStop
  <2>1. /\ UNCHANGED vars /\ UNCHANGED <<lpc, left, have, requests, total, payload>>
        /\ lmain' \in {"spawn", "join"}
    BY <1>2 DEF IdleOpened, SetStop
  <2>2. UNCHANGED <<sent, got, inq, outq, wbuf>>
    BY <2>1 DEF vars, sockVars, serverVars
  <2>3. LoadTypeOK' /\ TotalOK' /\ FitOK' /\ LoopOK'
    BY <2>1, <2>2 DEF LoadOK, LoadTypeOK, TotalOK, FitOK, MostHeld, LoopOK, InLoop, Due
  <2> QED
    BY <2>1, <2>2, <2>3, StutterKeepsInv DEF LoadOK, BuffersOK
<1>3. ASSUME NEW c \in Active, SpawnWorker(c) PROVE Inv' /\ BuffersOK' /\ LoadOK'
  <2>1. /\ UNCHANGED vars /\ UNCHANGED <<lmain, left, have, requests, total, payload>>
        /\ lpc[c] = "none" /\ lpc' = [lpc EXCEPT ![c] = "connect"]
    BY <1>3 DEF SpawnWorker
  <2>2. UNCHANGED <<sent, got, inq, outq, wbuf>>
    BY <2>1 DEF vars, sockVars, serverVars
  <2>3. lpc'[c] = "connect" /\ \A d \in Active : d # c => lpc'[d] = lpc[d]
    BY <2>1 DEF LoadOK, LoadTypeOK
  <2>4. LoadTypeOK' /\ TotalOK' /\ FitOK'
    BY <2>1, <2>2 DEF LoadOK, LoadTypeOK, TotalOK, FitOK, MostHeld
  <2>5. LoopOK'
    BY <2>1, <2>2, <2>3 DEF LoadOK, LoopOK, InLoop, Due
  <2> QED
    BY <2>1, <2>2, <2>4, <2>5, StutterKeepsInv DEF LoadOK, BuffersOK
<1>4. CASE Report
  <2>1. /\ CloseAll(Idle) /\ UNCHANGED serverVars
        /\ UNCHANGED <<lpc, left, have, requests, payload>>
        /\ lmain' = "exited" /\ total' = AddUp(requests)
    BY <1>4 DEF Report
  <2>2. Inv' /\ UNCHANGED <<sent, got, inq, outq, wbuf>>
    BY <2>1, CloseAllKeepsInv DEF serverVars
  <2>3. LoadTypeOK' /\ FitOK' /\ LoopOK'
    BY <2>1, <2>2 DEF LoadOK, LoadTypeOK, FitOK, MostHeld, LoopOK, InLoop, Due
  <2>4. TotalOK'
    BY <2>1 DEF TotalOK
  <2> QED
    BY <2>2, <2>3, <2>4 DEF LoadOK, BuffersOK
<1> QED
  BY <1>1, <1>2, <1>3, <1>4 DEF LoadMain

\* What is known of worker c when it is at some place, in numbers.
LEMMA WorkerFacts ==
    ASSUME Inv, LoadOK, NEW c \in Active
    PROVE  /\ c \in Conns
           /\ Due(c) \in Nat /\ payload \in Nat /\ requests[c] \in Nat
           /\ left[c] \in Nat /\ have[c] \in Nat
           /\ Len(got[c]) \in Nat /\ sent[c] \in Nat /\ Len(got[c]) <= sent[c]
<1>1. c \in Conns /\ payload \in Nat /\ requests[c] \in Nat /\ left[c] \in Nat /\ have[c] \in Nat
  BY ActiveConns DEF LoadOK, LoadTypeOK
<1>2. Due(c) \in Nat
  BY <1>1 DEF Due
<1>3. /\ Len(got[c]) \in Nat /\ sent[c] \in Nat /\ Len(outq[c]) \in Nat
      /\ Len(Reply(c)) = Len(got[c]) + Len(outq[c])
  BY <1>1, PieceTypes DEF Inv, SockOK
<1>4. Len(Reply(c)) <= sent[c]
  BY <1>1 DEF Inv, SockOK, ReplyOK
<1>5. Len(got[c]) <= sent[c]
  <2>1. \A r, g, o, n \in Nat : r = g + o /\ r <= n => g <= n
    OBVIOUS
  <2>2. Len(Reply(c)) \in Nat
    BY <1>1, PieceTypes DEF Inv, SockOK
  <2> QED
    BY <1>3, <1>4, <2>1, <2>2
<1> QED
  BY <1>1, <1>2, <1>3, <1>5

\* A step of worker c, which leaves the requests that are counted alone: it is
\* enough to look at c.
LEMMA WorkerStays ==
    ASSUME Inv, LoadOK, NEW c \in Active, lmain # "exited",
           UNCHANGED <<lmain, requests, payload>>, LoadTypeOK',
           \A d \in Active : d # c => /\ lpc'[d] = lpc[d] /\ left'[d] = left[d]
                                      /\ have'[d] = have[d]
                                      /\ got'[d] = got[d] /\ sent'[d] = sent[d],
           sent'[c] = sent[c] \/ (payload > MostHeld => sent'[c] <= MostHeld),
           InLoop(c)'
    PROVE  LoadOK'
<1>1. LoopOK'
  <2>1. \A d \in Active : d # c => InLoop(d)'
    BY DEF LoadOK, LoopOK, InLoop, Due
  <2> QED
    BY <2>1 DEF LoopOK
<1>2. FitOK'
  BY DEF LoadOK, FitOK, MostHeld
<1>3. TotalOK'
  BY DEF TotalOK
<1> QED
  BY <1>1, <1>2, <1>3 DEF LoadOK

\* A worker that returns closes its connection, and the counts stay.
LEMMA ReturnKeeps ==
    ASSUME Inv, BuffersOK, LoadOK, NEW c \in Active, ~Ended, Return(c)
    PROVE  Inv' /\ BuffersOK' /\ LoadOK'
<1>1. /\ ClientAct(c) /\ UNCHANGED serverVars /\ UNCHANGED <<sent, got>>
      /\ lpc' = [lpc EXCEPT ![c] = "done"]
      /\ UNCHANGED <<lmain, left, have, requests, total, payload>>
  BY DEF Return, ClientClose, ClientAct, streamVars, LoadGoto
<1>2. /\ lpc'[c] = "done" /\ LoadTypeOK'
      /\ \A d \in Active : d # c => lpc'[d] = lpc[d]
  BY <1>1 DEF LoadOK, LoadTypeOK
<1>3. InLoop(c)'
  BY <1>1, <1>2 DEF LoadOK, LoopOK, InLoop, Due
<1>4. LoadOK'
  BY <1>1, <1>2, <1>3, WorkerStays DEF Ended
<1> QED
  BY <1>1, <1>4, ActiveConns, ClientKeepsInv, ClientKeepsBuffers

\* A worker that moves on without a call on its connection.
LEMMA MoveKeeps ==
    ASSUME Inv, BuffersOK, LoadOK, NEW c \in Active,
           ConnectRefused(c) \/ StartRequest(c) \/ WriteReturns(c) \/ WriteIntoVoid(c)
    PROVE  Inv' /\ BuffersOK' /\ LoadOK'
<1>1. UNCHANGED vars /\ UNCHANGED <<lmain, requests, total, payload>> /\ ~Ended
  BY DEF ConnectRefused, StartRequest, WriteReturns, WriteIntoVoid, LoadAt
<1>2. UNCHANGED <<sent, got, inq, outq, wbuf>>
  BY <1>1 DEF vars, sockVars, serverVars
<1>3. /\ LoadTypeOK'
      /\ \A d \in Active : d # c =>
            lpc'[d] = lpc[d] /\ left'[d] = left[d] /\ have'[d] = have[d]
  BY <1>1 DEF LoadOK, LoadTypeOK, ConnectRefused, StartRequest, WriteReturns, WriteIntoVoid, LoadGoto
<1>4. InLoop(c) /\ Due(c)' = Due(c)
  BY <1>1 DEF LoadOK, LoopOK, Due
<1>5. InLoop(c)'
  <2>1. CASE ConnectRefused(c)
    <3>1. lpc'[c] = "done"
      BY <2>1 DEF ConnectRefused, LoadGoto, LoadOK, LoadTypeOK
    <3> QED
      BY <1>1, <1>2, <1>4, <3>1 DEF InLoop
  <2>2. CASE StartRequest(c)
    <3>1. lpc[c] = "loop" /\ lpc'[c] = "write" /\ left'[c] = payload /\ have'[c] = 0
      BY <2>2 DEF StartRequest, LoadAt, LoadGoto, LoadOK, LoadTypeOK
    <3>2. sent[c] = Due(c) /\ Len(got[c]) = Due(c)
      BY <1>4, <3>1, WorkerFacts DEF InLoop
    <3> QED
      BY <1>1, <1>2, <1>4, <3>1, <3>2, WorkerFacts DEF InLoop
  <2>3. CASE WriteReturns(c)
    <3>1. lpc[c] = "write" /\ lpc'[c] = "read" /\ left'[c] = left[c] /\ have'[c] = have[c]
      BY <2>3 DEF WriteReturns, LoadAt, LoadGoto, LoadOK, LoadTypeOK
    <3> QED
      BY <1>1, <1>2, <1>4, <3>1, WorkerFacts DEF InLoop
  <2>4. CASE WriteIntoVoid(c)
    <3>1. lpc[c] = "write" /\ lpc' = lpc /\ left'[c] = 0 /\ have' = have
      BY <2>4 DEF WriteIntoVoid, LoadAt, LoadOK, LoadTypeOK
    <3> QED
      BY <1>1, <1>2, <1>4, <3>1, WorkerFacts DEF InLoop
  <2> QED
    BY <2>1, <2>2, <2>3, <2>4
<1>6. LoadOK'
  BY <1>1, <1>2, <1>3, <1>5, WorkerStays DEF Ended
<1> QED
  BY <1>1, <1>2, <1>6, StutterKeepsInv DEF BuffersOK

\* A worker connects: nothing has been sent on its connection.
LEMMA ConnectKeeps ==
    ASSUME Inv, BuffersOK, LoadOK, NEW c \in Active, ConnectWorker(c)
    PROVE  Inv' /\ BuffersOK' /\ LoadOK'
<1>1. /\ ClientAct(c) /\ UNCHANGED serverVars /\ UNCHANGED <<sent, got>>
      /\ lpc' = [lpc EXCEPT ![c] = "loop"] /\ lpc[c] = "connect" /\ srv[c] = "none" /\ ~Ended
      /\ UNCHANGED <<lmain, left, have, requests, total, payload>>
  BY DEF ConnectWorker, LoadAt, Connect, ClientAct, streamVars, LoadGoto
<1>2. /\ lpc'[c] = "loop" /\ LoadTypeOK'
      /\ \A d \in Active : d # c => lpc'[d] = lpc[d]
  BY <1>1 DEF LoadOK, LoadTypeOK
<1>3. InLoop(c) /\ requests[c] = 0 /\ sent[c] = 0
  BY <1>1, ActiveConns DEF LoadOK, LoopOK, InLoop, Inv, SockOK, LinkOK
<1>4. Due(c) = 0 /\ Due(c)' = 0
  BY <1>1, <1>3, WorkerFacts DEF Due
<1>5. InLoop(c)'
  BY <1>1, <1>2, <1>3, <1>4 DEF InLoop
<1>6. LoadOK'
  BY <1>1, <1>2, <1>5, WorkerStays DEF Ended
<1> QED
  BY <1>1, <1>6, ActiveConns, ClientKeepsInv, ClientKeepsBuffers

\* While worker c writes and has read nothing, what it has sent is in the
\* buffers on the way.
LEMMA HeldFacts ==
    ASSUME Inv, BuffersOK, NEW c \in Conns, link[c] = "up", srv[c] \in {"queued", "open"},
           Len(inq[c]) < RcvBuf, Len(got[c]) = 0
    PROVE  sent[c] + 1 <= MostHeld
<1>1. wbuf[c] \in Seq(Bytes) /\ Whole(c, wbuf[c])
  BY DEF Inv, DataOK, TypeOK
<1>2. /\ sent[c] = Len(Reply(c)) + Len(wbuf[c]) + Len(inq[c])
      /\ Len(wbuf[c]) \in Nat
  BY <1>1, WholeFacts DEF Inv, SockOK
<1>3. /\ Len(inq[c]) \in Nat /\ Len(outq[c]) \in Nat /\ sent[c] \in Nat
      /\ Len(Reply(c)) \in Nat /\ Len(Reply(c)) = Len(got[c]) + Len(outq[c])
  BY PieceTypes DEF Inv, SockOK
<1>4. Len(outq[c]) <= SndBuf /\ Len(wbuf[c]) <= MostRead
  BY DEF BuffersOK
<1>5. Len(Reply(c)) <= SndBuf
  BY <1>3, <1>4
<1>6. \A r, w, i, R, W, I \in Nat : r <= R /\ w <= W /\ i < I => r + w + i + 1 <= I + W + R
  OBVIOUS
<1> QED
  BY <1>2, <1>3, <1>4, <1>5, <1>6, MostFacts, SocketsAssumption

\* A byte of the payload is taken.
LEMMA WriteByteKeeps ==
    ASSUME Inv, BuffersOK, LoadOK, NEW c \in Active, WriteByte(c)
    PROVE  Inv' /\ BuffersOK' /\ LoadOK'
<1>1. /\ c \in Conns /\ ClientSend(c) /\ ClientAct(c) /\ UNCHANGED serverVars /\ ~Ended
      /\ lpc[c] = "write" /\ left[c] > 0 /\ left' = [left EXCEPT ![c] = left[c] - 1]
      /\ UNCHANGED <<lmain, lpc, have, requests, total, payload>>
  BY ActiveConns DEF WriteByte, LoadAt, ClientAct
<1>2. /\ left'[c] = left[c] - 1 /\ LoadTypeOK'
      /\ \A d \in Active : d # c => left'[d] = left[d]
  BY <1>1 DEF LoadOK, LoadTypeOK
<1>3. /\ got' = got /\ sent'[c] = sent[c] + 1
      /\ \A d \in Conns : d # c => sent'[d] = sent[d]
  BY <1>1, ClientSendFacts DEF Inv, SockOK
<1>4. InLoop(c) /\ Due(c)' = Due(c)
  BY <1>1 DEF LoadOK, LoopOK, Due
<1>5. InLoop(c)'
  BY <1>1, <1>2, <1>3, <1>4, WorkerFacts DEF InLoop
<1>6. payload > MostHeld => sent'[c] <= MostHeld
  <2> SUFFICES ASSUME payload > MostHeld PROVE sent'[c] <= MostHeld
    OBVIOUS
  <2>1. Due(c) = 0
    BY WorkerFacts DEF LoadOK, FitOK, Due
  <2>2. Len(got[c]) = 0
    BY <1>1, <1>4, <2>1 DEF InLoop
  <2>3. link[c] = "up" /\ srv[c] \in {"queued", "open"} /\ Len(inq[c]) < RcvBuf
    BY <1>1 DEF ClientSend
  <2> QED
    BY <1>1, <1>3, <2>2, <2>3, HeldFacts
<1>7. LoadOK'
  BY <1>1, <1>2, <1>3, <1>5, <1>6, ActiveConns, WorkerStays DEF Ended
<1> QED
  BY <1>1, <1>7, ClientKeepsInv, ClientKeepsBuffers

\* A byte of the echo is read.
LEMMA ReadByteKeeps ==
    ASSUME Inv, BuffersOK, LoadOK, NEW c \in Active, ReadByte(c)
    PROVE  Inv' /\ BuffersOK' /\ LoadOK'
<1>1. /\ c \in Conns /\ ClientRecv(c) /\ ClientAct(c) /\ UNCHANGED serverVars /\ ~Ended
      /\ lpc[c] = "read" /\ have' = [have EXCEPT ![c] = have[c] + 1]
      /\ UNCHANGED <<lmain, lpc, left, requests, total, payload>>
  BY ActiveConns DEF ReadByte, LoadAt, ClientAct
<1>2. /\ have'[c] = have[c] + 1 /\ LoadTypeOK'
      /\ \A d \in Active : d # c => have'[d] = have[d]
  BY <1>1 DEF LoadOK, LoadTypeOK
<1>3. /\ sent' = sent /\ Len(got'[c]) = Len(got[c]) + 1
      /\ \A d \in Conns : d # c => got'[d] = got[d]
  <2>1. /\ got[c] \in Seq(Bytes) /\ outq[c] \in Seq(Bytes) /\ outq[c] # <<>> /\ sent' = sent
        /\ got' = [got EXCEPT ![c] = Append(got[c], Head(outq[c]))]
    BY <1>1, PieceTypes DEF ClientRecv, Inv, SockOK
  <2>2. Len(Append(got[c], Head(outq[c]))) = Len(got[c]) + 1
    BY <2>1
  <2> QED
    BY <1>1, <2>1, <2>2 DEF Inv, SockOK, SocketsTypeOK
<1>4. InLoop(c) /\ Due(c)' = Due(c)
  BY <1>1 DEF LoadOK, LoopOK, Due
<1>5. InLoop(c)'
  <2>1. /\ Due(c) <= Len(got[c]) /\ sent[c] <= Due(c) + payload /\ Len(got[c]) = Due(c) + have[c]
        /\ Due(c) \in Nat /\ Len(got[c]) \in Nat /\ have[c] \in Nat
    BY <1>1, <1>4, WorkerFacts DEF InLoop
  <2>2. /\ Due(c) <= Len(got'[c]) /\ Len(got'[c]) = Due(c) + have'[c]
    BY <1>2, <1>3, <2>1
  <2> QED
    BY <1>1, <1>3, <1>4, <2>1, <2>2 DEF InLoop
<1>6. LoadOK'
  BY <1>1, <1>2, <1>3, <1>5, ActiveConns, WorkerStays DEF Ended
<1> QED
  BY <1>1, <1>6, ClientKeepsInv, ClientKeepsBuffers

\* The echo is complete: the server has answered everything that was sent.
LEMMA CountKeeps ==
    ASSUME Inv, BuffersOK, LoadOK, NEW c \in Active, CountRequest(c)
    PROVE  Inv' /\ BuffersOK' /\ LoadOK'
<1>1. /\ UNCHANGED vars /\ ~Ended /\ lpc[c] = "read" /\ have[c] >= payload
      /\ requests' = [requests EXCEPT ![c] = requests[c] + 1]
      /\ lpc' = [lpc EXCEPT ![c] = "loop"]
      /\ UNCHANGED <<lmain, left, have, total, payload>>
  BY DEF CountRequest, LoadAt, LoadGoto
<1>2. UNCHANGED <<sent, got, inq, outq, wbuf>>
  BY <1>1 DEF vars, sockVars, serverVars
<1>3. /\ lpc'[c] = "loop" /\ requests'[c] = requests[c] + 1 /\ LoadTypeOK'
      /\ \A d \in Active : d # c => lpc'[d] = lpc[d] /\ requests'[d] = requests[d]
  BY <1>1 DEF LoadOK, LoadTypeOK
<1>4. Due(c)' = Due(c) + payload
  <2>1. \A r, p \in Nat : (r + 1) * p = r * p + p
    OBVIOUS
  <2> QED
    BY <1>1, <1>3, <2>1, WorkerFacts DEF Due
<1>5. InLoop(c)
  BY DEF LoadOK, LoopOK
<1>6. sent[c] = Due(c) + payload /\ Len(got[c]) = sent[c]
  BY <1>1, <1>5, WorkerFacts DEF InLoop
<1>7. LoopOK'
  <2>1. InLoop(c)'
    BY <1>1, <1>2, <1>3, <1>4, <1>6, WorkerFacts DEF InLoop
  <2>2. \A d \in Active : d # c => InLoop(d)'
    BY <1>1, <1>2, <1>3 DEF LoadOK, LoopOK, InLoop, Due
  <2> QED
    BY <2>1, <2>2 DEF LoopOK
<1>8. FitOK'
  <2>1. ~(payload > MostHeld)
    BY <1>6, WorkerFacts, MostFacts, SocketsAssumption DEF LoadOK, FitOK
  <2> QED
    BY <1>1, <2>1 DEF FitOK, MostHeld
<1>9. TotalOK'
  BY <1>1 DEF TotalOK, Ended
<1> QED
  BY <1>1, <1>2, <1>3, <1>7, <1>8, <1>9, StutterKeepsInv DEF LoadOK, BuffersOK

\* SIGPIPE ends the load generator, and all its connections with it.
LEMMA KilledKeeps ==
    ASSUME Inv, BuffersOK, LoadOK, NEW c \in Active, WriteKills(c)
    PROVE  Inv' /\ BuffersOK' /\ LoadOK'
<1>1. /\ CloseAll(Conns) /\ UNCHANGED serverVars /\ lmain' = "killed"
      /\ UNCHANGED <<lpc, left, have, requests, total, payload>>
  BY DEF WriteKills
<1>2. Inv' /\ UNCHANGED <<sent, got, inq, outq, wbuf>>
  BY <1>1, CloseAllKeepsInv DEF serverVars
<1>3. LoadTypeOK' /\ TotalOK' /\ FitOK' /\ LoopOK'
  BY <1>1, <1>2 DEF LoadOK, LoadTypeOK, TotalOK, FitOK, MostHeld, LoopOK, InLoop, Due
<1> QED
  BY <1>2, <1>3 DEF LoadOK, BuffersOK

-----------------------------------------------------------------------------
(* What follows *)

\* Every step of the two programs keeps the invariant.
LEMMA LoadNextKeepsInv == LoadInv /\ [LoadNext]_allVars => LoadInv'
<1> SUFFICES ASSUME LoadInv, [LoadNext]_allVars PROVE LoadInv'
  OBVIOUS
<1>1. Inv /\ BuffersOK /\ LoadOK
  BY DEF LoadInv, LoadOK
<1> SUFFICES Inv' /\ BuffersOK' /\ LoadOK'
  BY DEF LoadInv, LoadOK
<1>2. CASE LoadMain
  BY <1>1, <1>2, LoadMainKeeps
<1>3. ASSUME NEW c \in Active, LoadWorker(c) PROVE Inv' /\ BuffersOK' /\ LoadOK'
  <2>1. CASE StopSeen(c) \/ WriteFails(c) \/ ReadFails(c)
    BY <1>1, <2>1, ReturnKeeps DEF StopSeen, WriteFails, ReadFails, LoadAt
  <2> QED
    BY <1>1, <1>3, <2>1, MoveKeeps, ConnectKeeps, WriteByteKeeps, ReadByteKeeps, CountKeeps,
       KilledKeeps DEF LoadWorker
<1>4. CASE ServerStep
  BY <1>1, <1>4, ServerKeepsServer, LoadStays DEF ServerStep
<1>5. CASE UNCHANGED allVars
  <2>1. UNCHANGED vars /\ UNCHANGED loadVars /\ UNCHANGED <<sent, got, inq, outq, wbuf>>
    BY <1>5 DEF allVars, vars, sockVars, serverVars
  <2> QED
    BY <1>1, <2>1, StutterKeepsInv, LoadStays DEF BuffersOK
<1> QED
  BY <1>2, <1>3, <1>4, <1>5 DEF LoadNext

\* LoadInv is an invariant of the load generator and its server.
THEOREM LoadInvariant == LoadSpec => []LoadInv
BY LoadInitInv, LoadNextKeepsInv, PTL DEF LoadSpec

\* loadgen.cpp:5-8, "strict request/response", for any number of workers, any
\* payload and any cutting of the stream: one request on the way at most, and
\* when the next one starts the server has echoed everything byte for byte.
\* The total main() prints is the sum over all workers.
THEOREM ClosedLoopHolds == LoadSpec => []ClosedLoop
<1>1. LoadInv => ClosedLoop
  <2> SUFFICES ASSUME LoadInv PROVE ClosedLoop
    OBVIOUS
  <2>1. Inv /\ LoadOK /\ TotalOK
    BY DEF LoadInv, LoadOK
  <2>2. ASSUME NEW c \in Active
        PROVE  /\ Len(got[c]) >= requests[c] * payload
               /\ sent[c] <= (requests[c] + 1) * payload
               /\ lpc[c] = "loop" => got[c] = Stream(c)
    <3>1. /\ c \in Conns /\ requests[c] \in Nat /\ payload \in Nat
          /\ Due(c) \in Nat /\ Len(got[c]) \in Nat /\ sent[c] \in Nat /\ Len(got[c]) <= sent[c]
      BY <2>1, WorkerFacts
    <3>2. InLoop(c)
      BY <2>1 DEF LoadOK, LoopOK
    <3>3. (requests[c] + 1) * payload = Due(c) + payload
      <4>1. \A r, p \in Nat : (r + 1) * p = r * p + p
        OBVIOUS
      <4> QED
        BY <3>1, <4>1 DEF Due
    <3>4. ASSUME lpc[c] = "loop" PROVE got[c] = Stream(c)
      <4>1. Len(got[c]) = sent[c]
        BY <3>1, <3>2, <3>4 DEF InLoop
      <4>2. /\ got[c] \in Seq(Bytes) /\ outq[c] \in Seq(Bytes)
            /\ Len(Reply(c)) \in Nat /\ Stream(c) = Prefix(c, sent[c])
        BY <2>1, <3>1, PieceTypes DEF Inv, SockOK
      <4>3. got[c] \o outq[c] = Prefix(c, Len(Reply(c)))
        BY <2>1, <3>1 DEF Inv, SockOK, ReplyOK, Reply
      <4>4. got[c] = Prefix(c, Len(got[c]))
        BY <3>1, <4>2, <4>3, PrefixOfStream
      <4> QED
        BY <4>1, <4>2, <4>4
    <3> QED
      BY <3>1, <3>2, <3>3, <3>4 DEF InLoop, Due
  <2> QED
    BY <2>1, <2>2 DEF ClosedLoop, TotalOK
<1> QED
  BY LoadInvariant, <1>1, PTL

\* A payload larger than what the sockets and the server's buffer hold is never
\* answered in full, however the stream is cut and the threads are scheduled:
\* worker() and serve() wait for each other in write().
THEOREM TooLargeNeverAnsweredHolds == LoadSpec => []TooLargeNeverAnswered
<1>1. LoadInv => TooLargeNeverAnswered
  BY DEF LoadInv, FitOK, TooLargeNeverAnswered
<1> QED
  BY LoadInvariant, <1>1, PTL
=============================================================================
