------------------------------ MODULE Loadgen ------------------------------
(***************************************************************************)
(* evserver/bench/loadgen.cpp driving the thread-per-connection server:    *)
(* two programs that both use blocking calls on the two ends of the same   *)
(* sockets.  The clients of ThreadServer do anything; these follow the     *)
(* load generator's code.                                                  *)
(*                                                                         *)
(*   lmain     main(): "idle" (opening the silent connections), "spawn"    *)
(*             (starting the workers, then asleep), "join" (stop is set,   *)
(*             joining), "exited", "killed" (SIGPIPE in any thread)        *)
(*   lpc[c]    the worker of connection c: "none", "connect", "loop"       *)
(*             (about to test stop), "write", "read", "done"               *)
(*   left[c]   bytes its blocking write() has still to take                *)
(*   have[c]   worker()'s local "got"                                      *)
(*   requests  Result::requests of each worker                             *)
(*   total     the number of requests main() printed                       *)
(*   payload   opt.payload                                                 *)
(* Bytes pass one at a time, so a call that moves n bytes is n steps: TCP  *)
(* may cut the stream anywhere, and a blocked write() has taken a part.    *)
(***************************************************************************)
EXTENDS ThreadServer

CONSTANTS Idle,         \* the connections --idle opens; the others have a worker
          Payloads,     \* the values of --payload
          MaxRequests   \* bound: requests one worker makes before stop is set

ASSUME LoadgenAssumption ==
    /\ Idle \subseteq Conns
    /\ Payloads \subseteq Nat
    /\ MaxRequests \in Nat
    /\ \A p \in Payloads : p * MaxRequests <= MaxBytes

VARIABLES lmain, lpc, left, have, requests, total, payload

loadVars == <<lmain, lpc, left, have, requests, total, payload>>
allVars == <<vars, loadVars>>

Active == Conns \ Idle

LoadInit ==
    /\ Init
    /\ lmain = "idle"
    /\ lpc = [c \in Active |-> "none"]
    /\ left = [c \in Active |-> 0]
    /\ have = [c \in Active |-> 0]
    /\ requests = [c \in Active |-> 0]
    /\ total = 0
    /\ payload \in Payloads

Ended == lmain \in {"exited", "killed"}
Stop == lmain \in {"join", "exited", "killed"}

\* The server's end of the connection has not been closed.
Served(c) == Up /\ srv[c] \in {"queued", "open"}

\* The process ends, or its vector of sockets does: every socket of S that is
\* open is closed.
CloseAll(S) ==
    /\ link' = [c \in Conns |->
                  IF c \in S /\ link[c] = "up"
                  THEN IF outq[c] = <<>> THEN "fin" ELSE "reset"
                  ELSE link[c]]
    /\ UNCHANGED <<backlog, srv, streamVars, sig>>

-----------------------------------------------------------------------------
(* main() *)

OpenIdle(c) ==
    /\ lmain = "idle" /\ Up
    /\ Connect(c)
    /\ UNCHANGED <<serverVars, loadVars>>

\* All of them are open, or one connect() failed and the loop was left.
IdleOpened ==
    /\ lmain = "idle"
    /\ (\A c \in Idle : link[c] = "up") \/ ~Up
    /\ lmain' = "spawn"
    /\ UNCHANGED <<vars, lpc, left, have, requests, total, payload>>

SpawnWorker(c) ==
    /\ lmain = "spawn"
    /\ lpc[c] = "none"
    /\ lpc' = [lpc EXCEPT ![c] = "connect"]
    /\ UNCHANGED <<vars, lmain, left, have, requests, total, payload>>

\* opt.seconds are over.
SetStop ==
    /\ lmain = "spawn"
    /\ \A c \in Active : lpc[c] # "none"
    /\ lmain' = "join"
    /\ UNCHANGED <<vars, lpc, left, have, requests, total, payload>>

\* The sum over the workers' Results.
AddUp(counts) == MapThenSumSet(LAMBDA c : counts[c], Active)

\* Every worker was joined: add up their results, print, close the idle
\* connections.
Report ==
    /\ lmain = "join"
    /\ \A c \in Active : lpc[c] = "done"
    /\ total' = AddUp(requests)
    /\ CloseAll(Idle)
    /\ lmain' = "exited"
    /\ UNCHANGED <<serverVars, lpc, left, have, requests, payload>>

LoadMain ==
    \/ \E c \in Idle : OpenIdle(c)
    \/ IdleOpened
    \/ \E c \in Active : SpawnWorker(c)
    \/ SetStop
    \/ Report

-----------------------------------------------------------------------------
(* worker() *)

LoadAt(c, at) == ~Ended /\ lpc[c] = at
LoadGoto(c, at) == lpc' = [lpc EXCEPT ![c] = at]

ConnectWorker(c) ==
    /\ LoadAt(c, "connect") /\ Up
    /\ Connect(c)
    /\ LoadGoto(c, "loop")
    /\ UNCHANGED <<serverVars, lmain, left, have, requests, total, payload>>

\* ECONNREFUSED: the thread returns, and nothing is printed.
ConnectRefused(c) ==
    /\ LoadAt(c, "connect") /\ ~Up
    /\ LoadGoto(c, "done")
    /\ UNCHANGED <<vars, lmain, left, have, requests, total, payload>>

StartRequest(c) ==
    /\ LoadAt(c, "loop") /\ ~Stop
    /\ requests[c] < MaxRequests
    /\ left' = [left EXCEPT ![c] = payload]
    /\ have' = [have EXCEPT ![c] = 0]
    /\ LoadGoto(c, "write")
    /\ UNCHANGED <<vars, lmain, requests, total, payload>>

\* The thread returns, and the destructor of its socket closes it.
Return(c) ==
    /\ ClientClose(c)
    /\ LoadGoto(c, "done")
    /\ UNCHANGED <<serverVars, lmain, left, have, requests, total, payload>>

StopSeen(c) == LoadAt(c, "loop") /\ Stop /\ Return(c)

WriteByte(c) ==
    /\ LoadAt(c, "write") /\ Served(c) /\ left[c] > 0
    /\ ClientSend(c)
    /\ left' = [left EXCEPT ![c] = @ - 1]
    /\ UNCHANGED <<serverVars, lmain, lpc, have, requests, total, payload>>

\* Mutant: reads as soon as a part of the payload was taken.
WriteReturnsEarly(c) ==
    /\ LoadAt(c, "write")
    /\ left[c] = 0 \/ left[c] < payload
    /\ LoadGoto(c, "read")
    /\ UNCHANGED <<vars, lmain, left, have, requests, total, payload>>

\* The whole payload was taken.
WriteReturns(c) ==
    /\ LoadAt(c, "write") /\ left[c] = 0
    /\ LoadGoto(c, "read")
    /\ UNCHANGED <<vars, lmain, left, have, requests, total, payload>>

\* The server's end is closed, but that is not known yet: the bytes are taken
\* and go nowhere.
WriteIntoVoid(c) ==
    /\ LoadAt(c, "write") /\ ~Served(c) /\ left[c] > 0
    /\ left' = [left EXCEPT ![c] = 0]
    /\ UNCHANGED <<vars, lmain, lpc, have, requests, total, payload>>

\* An error, or a count that is not the payload's size.
WriteFails(c) == LoadAt(c, "write") /\ ~Served(c) /\ Return(c)

\* EPIPE before a byte was taken: SIGPIPE ends the load generator.
WriteKills(c) ==
    /\ LoadAt(c, "write") /\ ~Served(c) /\ left[c] = payload
    /\ CloseAll(Conns)
    /\ lmain' = "killed"
    /\ UNCHANGED <<serverVars, lpc, left, have, requests, total, payload>>

ReadByte(c) ==
    /\ LoadAt(c, "read") /\ have[c] < payload
    /\ ClientRecv(c)
    /\ have' = [have EXCEPT ![c] = @ + 1]
    /\ UNCHANGED <<serverVars, lmain, lpc, left, requests, total, payload>>

\* 0 or an error.  What a connection that was closed in order still holds is
\* read first; one that was reset may lose it.
ReadFails(c) ==
    /\ LoadAt(c, "read") /\ have[c] < payload
    /\ ~Served(c) /\ (outq[c] = <<>> \/ inq[c] # <<>>)
    /\ Return(c)

\* Mutant: one read() is taken for the whole echo.
CountRequestOnce(c) ==
    /\ LoadAt(c, "read") /\ (have[c] >= payload \/ have[c] > 0)
    /\ requests' = [requests EXCEPT ![c] = @ + 1]
    /\ LoadGoto(c, "loop")
    /\ UNCHANGED <<vars, lmain, left, have, total, payload>>

\* The whole echo is back.
CountRequest(c) ==
    /\ LoadAt(c, "read") /\ have[c] >= payload
    /\ requests' = [requests EXCEPT ![c] = @ + 1]
    /\ LoadGoto(c, "loop")
    /\ UNCHANGED <<vars, lmain, left, have, total, payload>>

LoadWorker(c) ==
    \/ ConnectWorker(c) \/ ConnectRefused(c)
    \/ StartRequest(c) \/ StopSeen(c)
    \/ WriteByte(c) \/ WriteReturns(c) \/ WriteIntoVoid(c) \/ WriteFails(c) \/ WriteKills(c)
    \/ ReadByte(c) \/ ReadFails(c) \/ CountRequest(c)

-----------------------------------------------------------------------------
ServerStep ==
    /\ \/ MainStep
       \/ \E c \in Conns : WorkerStep(c) \/ ResetArrives(c)
       \/ SignalArrives
    /\ UNCHANGED loadVars

LoadNext ==
    \/ LoadMain
    \/ \E c \in Active : LoadWorker(c)
    \/ ServerStep

(***************************************************************************)
(* Fairness.  Every thread of both programs is scheduled, and sleep_for()  *)
(* ends.  No blocking call is assumed to return.                           *)
(***************************************************************************)
LoadSpec == /\ LoadInit /\ [][LoadNext]_allVars
            /\ WF_allVars(LoadMain)
            /\ \A c \in Active : WF_allVars(LoadWorker(c))
            /\ WF_allVars(MainStep /\ UNCHANGED loadVars)
            /\ \A c \in Conns : WF_allVars(WorkerStep(c) /\ UNCHANGED loadVars)

-----------------------------------------------------------------------------
\* loadgen.cpp:5-8: "strict request/response. Each one waits for its reply
\* before sending again, so the recorded latency is real."  A worker never has
\* more than one request on the way; when it starts the next one, the server
\* has echoed all it ever sent, byte for byte; and every request it counted
\* was answered in full, also when the server stops or dies in the middle of
\* one.  What main() prints leaves no worker's requests out.
ClosedLoop ==
    /\ \A c \in Active :
          /\ Len(got[c]) >= requests[c] * payload
          /\ sent[c] <= (requests[c] + 1) * payload
          /\ lpc[c] = "loop" => got[c] = Stream(c)
    /\ lmain = "exited" => total = AddUp(requests)

\* Bytes that are on the way at least, when neither side can go on: both
\* buffers are full and the server's thread holds a byte it cannot write.
LeastWedged == RcvBuf + 1 + SndBuf

\* Bytes that can be on the way at most while nothing is read.
MostHeld == RcvBuf + Min({BufSize, RcvBuf}) + SndBuf

\* A worker writes its whole payload before it reads, while the server's
\* thread stops reading when its own write() blocks (loadgen.cpp:72 and
\* server_threads.cpp's write loop).  With a payload the sockets can hold this
\* does no harm: unless the server is told to stop, the workers are joined and
\* the report is printed, whatever the server's threads and the idle
\* connections do meanwhile.
FinishesIfFits ==
    payload <= LeastWedged /\ Cardinality(Conns) <= MaxFds => <>(Ended \/ sig # "none")

\* With one they cannot hold, both programs wait for each other in write():
\* no request is ever answered in full, for no schedule and no cutting of the
\* stream, not even after the server has been stopped or has died.
TooLargeNeverAnswered ==
    payload > MostHeld => \A c \in Active : requests[c] = 0
=============================================================================
