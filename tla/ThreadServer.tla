---------------------------- MODULE ThreadServer ----------------------------
(***************************************************************************)
(* evserver/src/server_threads.cpp: the main thread accepts, one thread    *)
(* per connection reads and writes with blocking calls, and the destructor *)
(* joins them all after main() has printed the counters.                   *)
(*                                                                         *)
(*   mpc      the main thread: "poll", "accept" and "spawn" (run()),       *)
(*            "print" (main() after run()), "join" (~ThreadServer), or how *)
(*            the process ended: "exited", "killed" (SIGPIPE in any        *)
(*            thread), "aborted" (std::thread could not be created)        *)
(*   wpc[c]   the thread serving connection c: "none" (not accepted),      *)
(*            "new" (accepted, not spawned), "loop" (about to test         *)
(*            running_), "read", "write", "ending" (about to count the     *)
(*            close), "closing" (about to run the destructor of its        *)
(*            Socket), "done"                                              *)
(*   wbuf[c]  the bytes of that thread's buffer it has still to write      *)
(*   printed  the counters main() printed                                  *)
(* A blocking call that cannot return is a step that is not enabled; EINTR *)
(* is retried by the code and is no step.                                  *)
(***************************************************************************)
EXTENDS Sockets, FiniteSetsExt, SequencesExt

CONSTANTS MaxThreads,  \* threads whose stacks the process can hold
          MaxFds,      \* descriptors it may use for connections
          BufSize      \* cfg.buffer_size

ASSUME ThreadAssumption ==
    /\ MaxThreads \in Nat
    /\ MaxFds \in Nat
    /\ BufSize \in Nat

VARIABLES mpc, running, wpc, wbuf, stats, printed

serverVars == <<mpc, running, wpc, wbuf, stats, printed>>
vars == <<sockVars, serverVars>>

Stats == [accepted : Nat, closed : Nat, requests : Nat, bytes : Nat]
NoStats == [accepted |-> 0, closed |-> 0, requests |-> 0, bytes |-> 0]

TypeOK ==
    /\ SocketsTypeOK
    /\ mpc \in {"poll", "accept", "spawn", "print", "join", "exited", "killed", "aborted"}
    /\ running \in BOOLEAN
    /\ wpc \in [Conns -> {"none", "new", "loop", "read", "write", "ending", "closing", "done"}]
    /\ wbuf \in [Conns -> Seq(Bytes)]
    /\ stats \in Stats
    /\ printed \in Stats

Init ==
    /\ SocketsInit
    /\ mpc = "poll"
    /\ running = TRUE
    /\ wpc = [c \in Conns |-> "none"]
    /\ wbuf = [c \in Conns |-> <<>>]
    /\ stats = NoStats
    /\ printed = NoStats

Up == mpc \notin {"exited", "killed", "aborted"}

-----------------------------------------------------------------------------
(* The main thread *)

\* Mutant: run() polls again instead of leaving its loop.
PollSignalIgnored ==
    /\ mpc = "poll" /\ sig = "pending"
    /\ UNCHANGED vars

\* poll() returned; a signal is looked at before the listener.
PollSignal ==
    /\ mpc = "poll" /\ sig = "pending"
    /\ TakeSignal
    /\ running' = FALSE
    /\ mpc' = "print"
    /\ UNCHANGED <<wpc, wbuf, stats, printed>>

PollListener ==
    /\ mpc = "poll" /\ sig # "pending" /\ backlog # <<>>
    /\ mpc' = "accept"
    /\ UNCHANGED <<sockVars, running, wpc, wbuf, stats, printed>>

OpenConns == {c \in Conns : srv[c] = "open"}

\* A thread that has returned from serve() keeps its stack until it is joined,
\* and that happens only in the destructor.
Unjoined == {c \in Conns : wpc[c] \notin {"none", "new"}}

\* accept4() succeeded; the connection is counted before its thread exists.
AcceptConn ==
    /\ mpc = "accept"
    /\ Cardinality(OpenConns) < MaxFds
    /\ AcceptHead("open")
    /\ stats' = [stats EXCEPT !.accepted = @ + 1]
    /\ wpc' = [wpc EXCEPT ![Head(backlog)] = "new"]
    /\ mpc' = "spawn"
    /\ UNCHANGED <<running, wbuf, printed>>

\* Mutant: serve() called in the main thread, one connection after the other.
SpawnInline ==
    /\ mpc = "spawn"
    /\ \A c \in Unjoined : wpc[c] = "done"
    /\ wpc' = [c \in Conns |-> IF wpc[c] = "new" THEN "loop" ELSE wpc[c]]
    /\ mpc' = "poll"
    /\ UNCHANGED <<sockVars, running, wbuf, stats, printed>>

Spawn ==
    /\ mpc = "spawn"
    /\ Cardinality(Unjoined) < MaxThreads
    /\ wpc' = [c \in Conns |-> IF wpc[c] = "new" THEN "loop" ELSE wpc[c]]
    /\ mpc' = "poll"
    /\ UNCHANGED <<sockVars, running, wbuf, stats, printed>>

\* std::thread's constructor throws and nobody catches it.
SpawnFails ==
    /\ mpc = "spawn"
    /\ Cardinality(Unjoined) >= MaxThreads
    /\ mpc' = "aborted"
    /\ UNCHANGED <<sockVars, running, wpc, wbuf, stats, printed>>

\* Mutant: counted before accept4()'s result is looked at.
AcceptFailsCounted ==
    /\ mpc = "accept"
    /\ Cardinality(OpenConns) >= MaxFds
    /\ stats' = [stats EXCEPT !.accepted = @ + 1]
    /\ mpc' = "poll"
    /\ UNCHANGED <<sockVars, running, wpc, wbuf, printed>>

\* accept4() failed (EMFILE): poll() again.
AcceptFails ==
    /\ mpc = "accept"
    /\ Cardinality(OpenConns) >= MaxFds
    /\ mpc' = "poll"
    /\ UNCHANGED <<sockVars, running, wpc, wbuf, stats, printed>>

\* main() takes a snapshot and prints it while the workers are still running.
PrintCounters ==
    /\ mpc = "print"
    /\ printed' = stats
    /\ mpc' = "join"
    /\ UNCHANGED <<sockVars, running, wpc, wbuf, stats>>

\* Mutant: the threads are detached, not joined.
JoinAllDetached ==
    /\ mpc = "join"
    /\ mpc' = "exited"
    /\ UNCHANGED <<sockVars, running, wpc, wbuf, stats, printed>>

JoinAll ==
    /\ mpc = "join"
    /\ \A c \in Unjoined : wpc[c] = "done"
    /\ mpc' = "exited"
    /\ UNCHANGED <<sockVars, running, wpc, wbuf, stats, printed>>

MainStep ==
    \/ PollSignal \/ PollListener
    \/ AcceptConn \/ AcceptFails \/ Spawn \/ SpawnFails
    \/ PrintCounters \/ JoinAll

-----------------------------------------------------------------------------
(* serve(fd), the thread of connection c *)

At(c, at) == Up /\ wpc[c] = at
Goto(c, at) == wpc' = [wpc EXCEPT ![c] = at]

TestRunning(c) ==
    /\ At(c, "loop")
    /\ Goto(c, IF running THEN "read" ELSE "ending")
    /\ UNCHANGED <<sockVars, mpc, running, wbuf, stats, printed>>

\* Mutant: read() is not told the buffer's size.
ReadSizeAll(c) == Len(inq[c])

\* read() takes at most what the buffer holds.
ReadSize(c) == IF BufSize < Len(inq[c]) THEN BufSize ELSE Len(inq[c])

ReadData(c) ==
    /\ At(c, "read") /\ ReadSize(c) > 0
    /\ wbuf' = [wbuf EXCEPT ![c] = SubSeq(inq[c], 1, ReadSize(c))]
    /\ TakeInput(c, ReadSize(c))
    /\ stats' = [stats EXCEPT !.requests = @ + 1, !.bytes = @ + ReadSize(c)]
    /\ Goto(c, "write")
    /\ UNCHANGED <<mpc, running, printed>>

\* Mutant: read()'s -1 is added to the bytes.
ReadEndCounted(c) ==
    /\ At(c, "read") /\ ReadSize(c) = 0
    /\ BufSize = 0 \/ Gone(c)
    /\ stats' = [stats EXCEPT !.bytes = @ - 1]
    /\ Goto(c, "ending")
    /\ UNCHANGED <<sockVars, mpc, running, wbuf, printed>>

\* read() returned 0 or an error: end of stream, a RST, or an empty buffer.
ReadEnd(c) ==
    /\ At(c, "read") /\ ReadSize(c) = 0
    /\ BufSize = 0 \/ Gone(c)
    /\ Goto(c, "ending")
    /\ UNCHANGED <<sockVars, mpc, running, wbuf, stats, printed>>

\* Mutants: after a short write, start again at the front of the buffer; a
\* short write taken for a complete one.
WriteSomeUnadvanced(c) ==
    /\ At(c, "write") /\ ~HungUp(c)
    /\ \E n \in Writable(c, Len(wbuf[c])) :
          /\ PutOutput(c, SubSeq(wbuf[c], 1, n))
          /\ wbuf' = [wbuf EXCEPT ![c] = IF n = Len(@) THEN <<>> ELSE @]
          /\ Goto(c, IF n = Len(wbuf[c]) THEN "loop" ELSE "write")
    /\ UNCHANGED <<mpc, running, stats, printed>>

WriteSomeShort(c) ==
    /\ At(c, "write") /\ ~HungUp(c)
    /\ \E n \in Writable(c, Len(wbuf[c])) : PutOutput(c, SubSeq(wbuf[c], 1, n))
    /\ wbuf' = [wbuf EXCEPT ![c] = <<>>]
    /\ Goto(c, "loop")
    /\ UNCHANGED <<mpc, running, stats, printed>>

WriteSome(c) ==
    /\ At(c, "write") /\ ~HungUp(c)
    /\ \E n \in Writable(c, Len(wbuf[c])) :
          /\ PutOutput(c, SubSeq(wbuf[c], 1, n))
          /\ wbuf' = [wbuf EXCEPT ![c] = SubSeq(@, n + 1, Len(@))]
          /\ Goto(c, IF n = Len(wbuf[c]) THEN "loop" ELSE "write")
    /\ UNCHANGED <<mpc, running, stats, printed>>

\* ECONNRESET: give the connection up.
WriteError(c) ==
    /\ At(c, "write") /\ link[c] = "reset"
    /\ wbuf' = [wbuf EXCEPT ![c] = <<>>]
    /\ Goto(c, "ending")
    /\ UNCHANGED <<sockVars, mpc, running, stats, printed>>

\* EPIPE: SIGPIPE ends the whole process.
WriteBrokenPipe(c) ==
    /\ At(c, "write") /\ link[c] = "broken"
    /\ mpc' = "killed"
    /\ UNCHANGED <<sockVars, running, wpc, wbuf, stats, printed>>

\* The close is counted, then the Socket's destructor does it.
CountClose(c) ==
    /\ At(c, "ending")
    /\ stats' = [stats EXCEPT !.closed = @ + 1]
    /\ Goto(c, "closing")
    /\ UNCHANGED <<sockVars, mpc, running, wbuf, printed>>

CloseConn(c) ==
    /\ At(c, "closing")
    /\ CloseSide(c)
    /\ Goto(c, "done")
    /\ UNCHANGED <<mpc, running, wbuf, stats, printed>>

WorkerStep(c) ==
    \/ TestRunning(c)
    \/ ReadData(c) \/ ReadEnd(c)
    \/ WriteSome(c) \/ WriteError(c) \/ WriteBrokenPipe(c)
    \/ CountClose(c) \/ CloseConn(c)

-----------------------------------------------------------------------------
ClientReads(c) == Up /\ ClientRecv(c) /\ UNCHANGED serverVars
ClientLeaves(c) == Up /\ ClientClose(c) /\ UNCHANGED serverVars

ResetArrives(c) == Up /\ PeerReset(c) /\ UNCHANGED serverVars

ClientStep(c) ==
    /\ Up
    /\ Connect(c) \/ ClientSend(c)
    /\ UNCHANGED serverVars

SignalArrives == Up /\ Signal /\ UNCHANGED serverVars

Terminated == ~Up /\ UNCHANGED vars

Next ==
    \/ MainStep
    \/ \E c \in Conns : WorkerStep(c)
    \/ \E c \in Conns : ClientStep(c) \/ ClientReads(c) \/ ClientLeaves(c) \/ ResetArrives(c)
    \/ SignalArrives
    \/ Terminated

Spec == Init /\ [][Next]_vars

(***************************************************************************)
(* Fairness.  Every thread is scheduled.  That clients go away in the end  *)
(* is an assumption about clients.                                         *)
(***************************************************************************)
FairSpec == /\ Spec
            /\ WF_vars(MainStep)
            /\ \A c \in Conns : WF_vars(WorkerStep(c))

ClientsLeave == \A c \in Conns : WF_vars(ClientLeaves(c))

\* The network delivers the RST a client's host owes.
ResetsArrive == \A c \in Conns : WF_vars(ResetArrives(c))

-----------------------------------------------------------------------------
(* Safety *)

\* No byte of a connection is lost while its thread works on it, and none is
\* lost by stopping: a request that was read is answered even when running_
\* turns false in between.  Only a RST makes a thread give up a reply.
NoByteLost ==
    \A c \in Conns :
        /\ srv[c] \in {"queued", "open"}
        /\ ~(link[c] = "reset" /\ wpc[c] \in {"ending", "closing"})
        => Reply(c) \o wbuf[c] \o inq[c] = Stream(c)

\* Every connection that was accepted has one thread, or is about to get it,
\* until that thread has counted it as closed; its descriptor is closed after
\* that, once.
WorkersAccounted ==
    /\ stats.accepted - stats.closed =
          Cardinality({c \in Conns : wpc[c] \in {"new", "loop", "read", "write", "ending"}})
    /\ \A c \in Conns :
          /\ srv[c] = "closed" <=> wpc[c] = "done"
          /\ srv[c] = "open" <=> wpc[c] \notin {"none", "done"}

\* main.cpp:30: "Counters are printed on exit."  They are printed before the
\* join, so less is certain of them than of the final ones: no connection is
\* missing, and the rest is at most what the threads counted in the end.
ExitCounts ==
    /\ printed.accepted = stats.accepted
    /\ printed.closed <= stats.closed
    /\ printed.bytes <= stats.bytes
    /\ stats.closed = stats.accepted
    /\ \A c \in Conns : srv[c] # "open"

\* A clean exit leaves nothing behind: every thread was joined, so every
\* accepted connection is closed and counted, and what was read was answered
\* or its client is gone.
ExitsClean ==
    mpc = "exited" =>
        /\ ExitCounts
        /\ stats.bytes >= SumOver([c \in Conns |-> Len(Reply(c))])
        /\ (\A c \in Conns : ~HungUp(c)) =>
              stats.bytes = SumOver([c \in Conns |-> Len(Reply(c))])

Abstract == INSTANCE EchoService WITH
    MayRefuse    <- FALSE,
    SigPipeKills <- TRUE,
    MaxServed    <- MaxThreads,
    reply <- [c \in Conns |-> Reply(c)],
    life  <- [c \in Conns |-> IF srv[c] = "queued" THEN "pending" ELSE srv[c]],
    gone  <- [c \in Conns |-> Gone(c)],
    mayDrop <- FALSE,
    phase <- IF ~Up THEN "down" ELSE IF sig = "none" THEN "serving" ELSE "stopping"

\* The backend implements the service: replies in order however they are cut
\* into write() calls, and a connection closed only when its client is gone or
\* a signal has come, whatever the threads do.  It may abort, but only after it has
\* accepted more connections than MaxThreads in all.
ImplementsEchoService == Abstract!Spec

-----------------------------------------------------------------------------
(* Liveness *)

\* One slow client holds up nobody else: a client that keeps reading is
\* answered in full even if no other client ever reads its replies.
Isolation ==
    \A c \in Conns :
        WF_vars(ClientReads(c)) =>
            []<>(Len(got[c]) = sent[c] \/ Gone(c) \/ ~Up \/ sig # "none")

\* main.cpp:88: "Ctrl-C to stop."
ShutdownCompletes == sig = "pending" ~> ~Up

\* It does once every client is gone, whatever the workers are doing then.
StopsWithoutClients == ClientsLeave /\ ResetsArrive => ShutdownCompletes
=============================================================================
