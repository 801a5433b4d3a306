# Verification of linux-internals

TLA+ modules, TLC configurations and TLAPS proofs for the programs of this
repository. The concurrent ones carry the interesting state: **evserver**, an
echo server with four interchangeable backends, and its load generator;
**minicontainer**, a container launcher of two processes, a pipe and a cgroup;
and **procmon**, a reader of /proc that races every process it looks at.

## 1. The system

### evserver

| Part | State | Operations | Talks to |
|---|---|---|---|
| sockets, signals (`socket.cpp`, `signals.cpp`) | listener, connections, signalfd | `listen_tcp`, `connect_tcp`, `signal_fd`, the owning `Socket` | kernel |
| epoll backends (`server_epoll.cpp`) | epoll instance, one shared `buffer_`, `running_` | `run`, `drain_signal`, `accept_connections`, `handle_connection`, `write_all`, `close_connection` | kernel, counters |
| thread backend (`server_threads.cpp`) | `workers_`, atomic `running_`, a buffer per thread | `run` (poll, accept, spawn), `serve`, `~ThreadServer` (join) | kernel, counters, its own threads |
| io_uring backend (`server_uring.cpp`) | submission and completion rings, `connections_` (owning map fd -> `Conn`), raw `Conn*` inside operations | `run`, `submit_*`, `handle_completion`, `close_connection` | kernel by rings, counters |
| contract (`server.hpp`, `server.cpp`) | - | `start`, `run`, `stats` | `main` |
| main, counters (`main.cpp`, `stats.hpp`) | atomic counters | options, start, run, print | backend |
| load generator (`bench/loadgen.cpp`) | one closed loop per thread, `stop`, a `Result` per worker, idle connections | write a payload, read it back, count; stop, join, report | a backend, as client |

What is hard: clients, network, signal and server interleave at every system
call; a batch of epoll events names descriptors that may be closed and reused
before the event is handled; an edge is reported once; writes are short; a
client can leave before its reply is complete; threads race the shutdown and
the printing of counters; an io_uring operation outlives the code that queued
it; queues, descriptors and thread stacks run out; a client and a server that
both block in `write()` wait for each other.

What makes it correct: every client gets its own bytes, in order, once; no
connection, event or wake-up is forgotten; the counters agree with the
descriptors; a connection is closed only when its client is gone or the server
stops; a signal ends the process; one client does not hold up another.

### minicontainer

| Part | State | Operations |
|---|---|---|
| `run_container` (`container.cpp`) | pipe `ready_pipe`, child PID, a `Cgroup` | clone, cgroup set-up, release of the barrier, waitpid |
| `child_main`, `setup_rootfs`, `mount_proc` | mount namespace, root | barrier, hostname, private mounts, bind, pivot_root, detach, /proc, exec |
| `Cgroup` (`cgroup.cpp`) | `path_`, the directory `mc-<pid>` | create (vacate the root cgroup, enable controllers, mkdir), limits, add_process, destructor |
| `main.cpp`, `util.cpp` | - | options, `parse_size`, `human_bytes`, file helpers |

What is hard: every call may fail half-way through the set-up; either process
may be killed at any point; the barrier is an end of file, which has more than
one cause; other processes fork and exit while the root cgroup is emptied; a
directory may be left from a launcher that was killed. What makes it correct: limits are in place before the command
starts, or the user is told; the host's mounts are neither changed nor
reachable; nothing is left behind; nobody waits for ever; the result tells the
truth.

### procmon

| Part | State | Operations |
|---|---|---|
| `list_pids`, `read_process`, `read_threads`, `read_maps` (`process.cpp`) | the records read so far | list a directory, then open and read one file after the other |
| `read_file`, `parse_kv`, `split_ws`, `to_ll` (`util.cpp`) | one descriptor | open, read until the end, parse |
| `cmd_list`, `cmd_show`, `cmd_threads`, `cmd_maps` (`main.cpp`) | options, exit status | scan, sort, limit, print |
| `cmd_mem`, `system.cpp`, `format.cpp`, `mapped_file.cpp` | - | parse three files of the system; lay tables out |

What is hard: "/proc is inherently racy" (`main.cpp:77`). Between any two calls
a process or thread can exit and another can take its PID; a name may contain
the characters that separate fields. What makes it correct: what is there all
the time is reported once and in full; nothing is reported that never was; the
scan ends.

### The rest

**elf-lab**, **profiling**, the procmon demos and `memhog` are experiments and
scripts without state of their own and are not modelled.

## 2. Modules

| Module | Models | Extends / composes |
|---|---|---|
| `Sockets` | the listener's queue, both byte streams of a connection, FIN and RST, the signalfd | - |
| `EchoService` | what every backend promises (abstract) | - |
| `EpollServer` | both epoll backends | `Sockets`; implements `EchoService` |
| `ThreadServer` | the thread backend, with `main()`'s print and the destructor | `Sockets`; implements `EchoService` |
| `UringServer` | the io_uring backend, with the kernel's side of the rings | `Sockets`; implements `EchoService` |
| `Loadgen` | the load generator and the thread backend, two programs on the two ends of the same sockets | `ThreadServer` |
| `Container` | parent, child, pipe, mount namespace, the cgroup tree and the processes in it | - |
| `Procmon` | the kernel's task table and procmon's four commands that race it | - |
| `SocketsProofs` | lemmas about the sockets, their steps, sequences and sums, shared by the servers | `Sockets` |
| `EpollServerProofs`, `EpollServiceProofs` | theorems about `EpollServer`: the event loop, then what it does for its clients | `EpollServer`, `SocketsProofs` |
| `ThreadServerProofs`, `UringServerProofs` | theorems about the other two backends | the backend, `SocketsProofs` |
| `LoadgenProofs` | theorems about load generator and server together | `Loadgen`, `ThreadServerProofs` |
| `ContainerProofs`, `ProcmonProofs` | theorems about these modules | the module |
| `MCEpoll`, `MCThreads`, `MCUring` | symmetry sets for TLC | one server each |
| `MCProcmon` | the names and memory of the tasks TLC tries | `Procmon` |

### Correspondence with the code

A byte is a pair `<<c, i>>`, the i-th byte client `c` sent, so that a byte of
the wrong client, in the wrong place, missing or repeated can be told apart.
Descriptors, connections and `Conn` addresses are separate sets, so reuse of
each is visible. `PROJECT.json` maps every definition to its lines. Operators
whose comment starts with "Mutant" are deliberately wrong variants of the
definition below them, used to show that the properties can fail.

* **EpollServer**. One step is one system call with the code up to the next.
  `pc` is the place in `run()`, `events` the rest of the batch, `buf` what
  `write_all` has still to write, `rd` epoll's ready list. `backend` is chosen
  in `Init`, so every run covers both trigger modes. `Wake` is the kernel's
  callback: it runs for what arrives, not for room in the send buffer, because
  the code does not ask for EPOLLOUT. Any order of the ready list and any free
  descriptor is allowed, which includes the lowest one the kernel takes.
* **ThreadServer**. One step is one blocking call or one access to shared
  state. Counting a connection, creating its thread, testing `running_`,
  counting the close and closing the descriptor are separate steps, because
  other threads can run between them.
* **UringServer**. Server steps move operations to the rings, kernel steps
  (`Complete...`) carry them out in any order. `Prep` is `next_sqe` with the
  entry's preparation: a full queue is flushed once, and there may still be no
  entry. An operation carries a `Conn` address, not a connection; addresses are
  reused as soon as they are free.
  `faulty`, chosen in `Init`, says whether flushes fail in this behaviour.
* **Loadgen**. Replaces the free clients of `ThreadServer` by `worker()` and
  `main()` of the load generator; the server's steps are `ThreadServer`'s own.
  A blocking `write()` takes a byte per step, so that it can be seen to have
  taken a part and be stuck with the rest. What happens after the server has
  closed or died follows TCP: bytes may go nowhere, `write()` may fail or raise
  SIGPIPE, `read()` ends after what was received.
* **Container**. One step is one call that can fail or be interrupted by the
  death of either process. `Cgroup::create` is a listing, one write per PID,
  the write to `cgroup.subtree_control` and the mkdir, with other processes
  forking and exiting in between. `set_memory_limit` is two writes, the second
  of which fails in silence (`SetSwapFails`). What was asked for (`cfg`) is
  chosen in `Init`, as are a launcher that was started with SIGCHLD ignored, a
  root cgroup an earlier run has emptied and a directory it left with its own
  limits. `status` is what `waitpid()` gives, an exit status or a signal, and
  `result` the one integer `run_container` makes of it; what really happened
  (`ran`) is history the code does not have.
* **Procmon**. Tasks are numbered by birth, as the start time in `stat` does,
  and PIDs are taken again. A step is one `readdir()`, `open()` or `read()`.
  A descriptor stays with the task it was opened for. `stat` is a line of
  characters and numbers that `ParseStat` really takes apart, because the
  name in it may contain `)` and spaces; of the other files the model keeps
  which task they were about. `open()` fails for a task that is gone and for a
  file procmon may not read: `MayOpen` gives every process all its files, all
  but `maps` (another user's), or none (hidepid). `ReportList` sorts the rows
  and drops those beyond `--limit`; `cut` remembers the dropped ones.
* **Sockets** and what is marked external in the map are the kernel, modelled
  from how the code uses it: a client that closes with replies unread sends a
  RST; one that closed cleanly answers further data with a RST; the first
  write after a RST gives ECONNRESET, or EPIPE with SIGPIPE if a FIN had come
  before; io_uring sends do not raise SIGPIPE.

## 3. Runs

| Run | Shows |
|---|---|
| `epoll_safety` | both epoll backends: order, no lost byte, no stale event, no lost wake-up, accounting, refinement of `EchoService` |
| `epoll_live` | clients that read are answered, abandoned connections are closed, a signal ends `run()`, each unless a client monopolises the thread (`Monopolised`) |
| `threads_safety` | the same safety for threads, with descriptors and stacks running out, a clean exit, and what the printed counters can miss |
| `threads_live` | a client that never reads holds up nobody; a signal ends the process when the clients go away |
| `uring_safety` | no operation on a freed `Conn`, one operation per connection, the map and the counters agree with the descriptors, the accept always armed unless submissions fail, no lost byte, refinement; both with flushes that fail and without |
| `uring_live` | isolation and shutdown without any assumption on clients |
| `container` | all properties of the launcher, with and without rootfs and limits and with SIGCHLD ignored or not, every failure and death allowed, other processes in the root cgroup, a directory left from before |
| `procmon` | what stays and may be read is reported once and in full or is below `--limit` rows, no row is made up, the scan ends, while tasks come, go and take over PIDs |
| `loadgen` | every request counted was answered in full; a payload that fits cannot wedge client and server, one that does not always does |
| `epoll_sigpipe`, `threads_idle_client`, `container_parent_dies` | violations, section 5 |

### Bounds

Two clients are enough for every interaction between a connection and another
one (events of the other, a stolen buffer, a reused descriptor); `threads_safety`
has three so that two can use up both descriptors and both stacks. Three bytes
against a buffer of two give a full read, a partial one and data left unread; a
send buffer of one byte makes every longer reply a sequence of short writes with
a full buffer in between. The epoll batch holds two events of up to four ready
descriptors. `QDepth = 2` makes the flush of a full submission queue happen
while one completion is handled (an accept needs two entries). `MaxBytes` only
bounds the run: after two or three bytes every combination of queue contents has
been seen. The one behaviour it hides is a client that never stops sending: it
keeps the read loop of epoll-et going for ever, so the liveness properties of
epoll name it as an exception (`EndlessTraffic`) rather than rest on the bound.
`Backlog` never drops a client in these runs. The epoll runs have a descriptor
for every client: a third client, which would find `accept4` failing with EMFILE
while others are queued, is beyond TLC's reach together with three bytes each,
so that case of `NoLostWakeup` rests on its theorem.

`loadgen` has one worker making two requests and one idle connection; workers
meet only in the server's threads, which `threads_safety` covers with three
clients. Its buffers (3, 2 and 1 bytes) separate the three ranges of the
payload: up to 5 bytes it cannot wedge, from 7 on it must, 6 may do either; the
run takes 0, 1, 5, 6, 7 and 8. `container` has two other processes, so that one
can fork while the other is moved and a PID can be listed, leave and come back.
Its command exits with 0 or 1 (`Codes`; 1 is also what a failed set-up gives) or
crashes.
`procmon` has three PIDs, one of them procmon's own, and four births: enough for
a PID to change hands during the scan and for a process with a thread beside
it; the names include one with `)` and a space. Of the four processes that can
be born two are open to procmon, one hides its `maps` and one everything
(`Permissions`). `Limits = {0, 2}` has rows dropped, all of them and some.

Symmetry over clients, and over descriptors for epoll, is used in safety runs
only. io_uring descriptors are integers and `Conn` addresses are chosen, so
neither is permuted. Deadlock is checked everywhere; a process that has ended
stutters explicitly (`Terminated`, `Over`). The exception is `loadgen`, where
client and server may really stop for good; which of them does is what
`FinishesIfFits` says.

### Fairness

Weak fairness of the server's thread, of every worker and of both processes of
the container: the scheduler runs what can run. Weak fairness of an operation
io_uring can complete and of a RST the network owes. About clients nothing is
assumed except where a property says so. The epoll backends serve everybody with
one thread, which a client can keep to itself in two ways: it never reads its
replies (`Stalled` for ever), or there is always more for a loop until EAGAIN to
take (`EndlessTraffic`). The properties of `epoll_live` promise something for
every behaviour that is neither, under fairness of the server alone; `EchoesAll`
assumes of the one client it is about that it reads. `Isolation` does too;
`StopsWithoutClients` assumes they leave. `Container` assumes the command ends;
the other processes of the host owe nothing. `Loadgen` assumes that every thread
of both programs is scheduled and that `sleep_for` ends. `Procmon` assumes only
that procmon is scheduled: the kernel's steps carry no fairness, and procmon's
calls never block.

## 4. Refinement

`EchoService` is the contract of `server.hpp` for a client: accept, echo a
prefix of the client's own stream that only grows, close once the client is
gone or the server stops, end only after a signal. Its constants say what each
backend may do beyond that: refuse a connection (`MayRefuse`, epoll when
`epoll_ctl` fails), die of SIGPIPE when answering a client that has left
(`SigPipeKills`, epoll and threads, not io_uring), and end after more
connections than it has stacks (`MaxServed`, threads). `mayDrop` allows a
connection to be closed although its client is there: never for epoll and
threads, for io_uring in behaviours where submissions fail. The mapping reads the
reply off `got` and `outq`, the life of a connection off `srv` and the phase
off the program counter and the signal.

## 5. What the code does otherwise than it says

Each is a run that TLC refutes:

* `epoll_sigpipe`: "Runs until SIGINT/SIGTERM arrives." (`server.hpp:35`). A
  client sends, closes, the first part of its reply is answered with a RST, and
  the next `write()` raises SIGPIPE, which nothing ignores. The thread backend
  has the same `write()`.
* `threads_idle_client`: "Ctrl-C to stop." (`main.cpp:88`). The destructor joins
  workers that block in `read()`; an idle client keeps the process alive.
* `container_parent_dies`: "Block until the parent has put us in the cgroup."
  (`container.cpp:122`). The end of file that opens the barrier also comes when
  the parent is killed during the set-up.

Observations from the models without a run of their own:

* `write_all` spins on EAGAIN inside the event loop. One client that never reads
  stops all others and the shutdown, against "Ctrl-C to stop." (`main.cpp:88`),
  however small its requests are. In epoll-et one that never stops sending does
  the same, because the read loop (`server_epoll.cpp:181`) looks at nothing
  else. `ShutdownCompletes` says that these are the only cases; without
  `Monopolised` TLC refutes it with the first of them.
* `--max-events=0` makes `epoll_wait` fail and `run()` return at once;
  `--buffer=0` makes `read()` return 0 for a live client, which is then closed.
* Finished workers are joined only in the destructor, so their stacks add up
  until `std::thread` throws and the process aborts (`SpawnFails`).
* The thread backend's counters are printed before the join; `ExitsClean` says
  what remains true of them.
* When the submission queue is full and the flush fails, `submit_accept` gives
  up and nothing arms the accept again, against "keep one accept outstanding at
  all times" (`server_uring.cpp:225`); `AcceptArmed` is stated for behaviours
  where submissions do not fail.
* A failing cgroup call is printed and the container runs without the limit;
  `NoSilentLoss` is what remains true.
* The write to `memory.swap.max` is the one cgroup call that fails without a word
  (`cgroup.cpp:191`). The user is then told nothing and has a memory limit that
  "a process that exceeds it simply has its pages pushed to swap and keeps
  allocating" (`cgroup.cpp:186`) makes void. `NoSilentLoss` names this exception
  and says there is no other.
* "Returns -1 if the container could not be started" (`container.hpp:20`): a
  set-up that fails returns 1, a failing exec 127, a child killed at the barrier
  137, and all three can be the command's own status as well. -1 in turn is also
  what `run_container` returns after the command *did* run, if `waitpid` fails,
  as it does when the launcher inherited SIGCHLD ignored. `ResultFaithful` says
  what a caller can rely on: any other number is the command's own.
* A directory `mc-<pid>` left by a launcher that was killed is taken over
  (EEXIST is no error). Limits that are asked for are written again
  (`NoSilentLoss`), but a limit this run did not ask for stays in force.
* Without a rootfs nothing makes the mount table private, so on a host whose `/`
  is shared the new /proc shows up there, although `container.cpp:192` calls it
  "a private mount table"; `HostUntouched` says this is the only case.
* `vacate_root` moves every process of the host's root cgroup to `init` and
  nothing moves them back, not even when `create` fails afterwards. The results
  of these writes are ignored; what they cost is the EBUSY of `BusyOnlyIfLeft`.
* A load generator whose payload is larger than the buffers of both directions
  waits for ever, and so does the server's thread: neither reads any more, and
  the load generator's `stop` is not looked at. With the server stopped by a
  signal while an idle connection keeps its join waiting, a worker that is still
  in the listener's queue waits for ever too; `FinishesIfFits` therefore ends at
  the first signal. With `--payload=0` requests are counted without any traffic.
* procmon opens `stat`, `status`, `cmdline` and `maps` by PID one after the
  other. When the PID changes hands in between, one record mixes two tasks, and
  `list` can show a thread as a process; `RowsGenuine` says that this is the
  only case.
* "gone, or insufficient permissions" (`main.cpp:139`) does not say which, and
  `maps` of another user's process ends with 1 although the process is there;
  `show` then prints the process without regions. `SurvivorsReported` is about
  what procmon may read.
* `procmon show 99999999999` ends with an uncaught exception of `std::stoi`
  rather than "Invalid pid", and so does `list --limit=x` with one of
  `std::stoul`; an invalid `--sort` is noticed after the scan.

## 6. Proofs

TLC checks the instances of section 3; the theorems hold for every value of the
constants. Each module with theorems has an inductive invariant, a conjunction
of named parts, with one lemma per action; the epoll and thread backends have a
second one on top of it (`Tally`), for the byte counters. TLC checked each
invariant on the instance of the module's run before it was proved. The temporal
steps use PTL.

The assumptions are those the modules declare (`SocketsAssumption`,
`EpollAssumption`, ...): sizes are naturals, sets of clients and descriptors are
finite, socket buffers hold at least a byte. Further assumptions stand in the
theorem itself:

| Assumption | Where | Why |
|---|---|---|
| `BufSize # 0` | the three refinements, `ClosesOnlyAfterPeer` | `--buffer=0` makes `read()` return 0 for a live client, which is then closed |
| `MaxEvents # 0` | refinement of the epoll backends | `--max-events=0` makes `run()` return without a signal |
| `~CgroupMayFail`, `~ParentMayDie` | `LimitsBeforeStartHolds` | without them it is the violation of section 5 |

### The event loop of epoll (`EpollServerProofs`)

`TypeCorrect`, `NoStaleEventHolds`, `NoLostWakeupHolds`, for both trigger modes.
None is inductive. `TypeOK` needs that the head of the queue and the connection
behind a descriptor exist when they are used, so the induction runs over

    Shape == TypeOK /\ QueueOK /\ FdsOK /\ EventsOK /\ PcOK

`QueueOK`: the queue holds the clients whose side is "queued", each once.
`FdsOK`: two descriptors are never the same connection, and a descriptor in use
is an open connection. `EventsOK`: a batch names a descriptor once, one that is
a connection is still the connection it was reported for, and a level-triggered
one is still on the ready list. `PcOK`: in "read" and "write" the head of the
batch is a connection's event, in "accept" the listener's, and `buf` is empty
outside a write. `NoStaleEvent` follows from `EventsOK`: a handler closes only
the descriptor at the head of the batch, which is removed with it, and an accept
uses a descriptor that is not open, hence in no event. `NoLostWakeup` is
inductive relative to `Shape`. The case that matters is the end of an event: the
descriptor leaves the batch, and it is level-triggered (then the ready list kept
it), or closed, or was read until EAGAIN (then it is not readable, and anything
that arrives later puts it on the list).

### What epoll does for its clients (`EpollServiceProofs`)

`NoByteLostHolds`, `CountersMatchHolds`, `ClosesOnlyAfterPeerHolds` and
`Refinement` (`Spec => ImplementsEchoService`), from `Shape` and

* `DataOK`: what was read of a connection and not yet written is in `buffer_`,
  and with it every byte is in one of four places, in order;
* `CauseOK`: EPOLLHUP is in the batch only for a connection that received a RST,
  the signalfd only after a signal. The handler acts on the event, not on the
  connection, so closing is right only because of this;
* `StopOK`: `running_` is cleared only by `drain_signal`;
* `OpenOK`, `CountOK`: an open connection has a descriptor, and `accepted` -
  `closed` counts them;
* `SockOK` (from `SocketsProofs`): what FIN, RST and the two byte streams of a
  connection say about each other, whatever the server is.

`CountersMatch` has a sum over all connections in it. `Tally`, inductive relative
to the above, says that `stats.bytes` is the sum of what was read of each, and
that of what was read all is answered but for `buffer_`; more is missing only
after a RST (`Flow`). That a sum changes by what its one changed summand
changes is proved in `SocketsProofs`, for the fold the property is written with:
by induction over the sets of connections, stated with the set of those for
which a fact holds in place of a predicate (`SubsetInduction`), because the
library's induction theorems take an operator and cannot be used here.

The refinement maps every step of the server to a step of `EchoService` or to a
stutter: a `write()` is `Echo`, an accept, a close and the exit are what they
are called, and a `read()` stutters.

### Threads (`ThreadServerProofs`)

`TypeCorrect`, `NoByteLostHolds`, `WorkersAccountedHolds`, `ExitsCleanHolds`,
`Refinement`. The invariant says where the main thread is while a connection has
no thread yet (`MainOK`), that connections and threads match and a thread's
buffer holds bytes exactly while it writes (`ThreadsOK`), why a thread has left
its loop (`EndOK`: its client is gone or a signal came; the close itself comes
two steps later and no longer knows), where the bytes are (`DataOK`), how many
threads are counted (`CountOK`) and that the counters only grew after they were
printed (`PrintOK`). `ExitsClean` also needs a `Tally` as for epoll, with the
buffers of the threads in place of `buffer_`: after the join all of them are
empty, so the sums agree.

### io_uring (`UringServerProofs`)

`TypeCorrect`, `OneOpPerConnHolds`, `MapMatchesFdsHolds`, `AcceptArmedHolds`,
`NoByteLostHolds`, `Refinement`. The properties count operations in the rings,
which provers do badly. The invariant says where an operation *is*: `Placed`, it
is in at most one place, once; `Pend`, the operations that are anywhere. A step
of the code moves one operation, and `OpsOK` says which there must be: one for
each `Conn` in the map, none for a freed one, and an accept unless submissions
fail. `FdsOK` adds who owns a descriptor (the map, or an accept completion that
is not handled yet), `CqOK` what a completion promises when it is handled later
(a result of 0 or an error means the client is gone; a send took no more than the
buffer held), `BufOK` and `DataOK` where the bytes are, the part an unhandled
send has already taken excluded.

### Load generator (`LoadgenProofs`)

`ClosedLoopHolds` and `TooLargeNeverAnsweredHolds`, for any number of workers,
any payload and any buffers. The invariant is the *server's own*, since the load
generator's clients are a special case of those it was proved for, with
`BuffersOK` (how much each of the three buffers holds at most), `LoopOK` (for
every place in `worker()`, how many bytes were sent and received), `FitOK` (a
worker whose payload is too large is in its first `write()`) and `TotalOK` (the
printed total is the sum of the workers').

### Container (`ContainerProofs`)

All safety properties of the run: `TypeCorrect`, `NoSilentLossHolds`,
`BusyOnlyIfLeftHolds`, `HostUntouchedHolds`, `HostUnreachableHolds`,
`NoCgroupLeftHolds`, `ResultFaithfulHolds`, for any set of other processes and
whichever calls may fail; and `LimitsBeforeStartHolds`, which says when the
comment that `container_parent_dies` refutes is true: if no cgroup call fails
and the parent is not killed, unless a process was forked in the root cgroup
while it was emptied (`left`); it includes the cap on swap, while
`NoSilentLossHolds` excepts a `memory.swap.max` that could not be written
(`swapLost`). Each property speaks of one moment; the invariant
says for every pair of places of the two processes what has been done by then:
who holds the pipe (`BarrierOK`), what is in the cgroups and on the list that is
moved (`CgroupOK`, `VacateOK`), which limits are written (`LimitsOK`), how far
the mounts are (`MountsOK`), what a status means (`StatusOK`) and what a
complaint or a death comes from (`FailuresOK`).

### procmon (`ProcmonProofs`)

`TypeCorrect`, `RowsGenuineHolds`, `SurvivorsReportedHolds`, for any PIDs, names,
memory and number of births. The key is that tasks are numbered and none comes
back: a PID that stands for its first task now (`Stays`) has stood for it at
every step before, so what was opened, read and listed under it was that task's
(`FdOK`, `RowsOK`, `ListedOK`), as far as permissions go, which are part of
`Stays` for `stat` and of `FdOK` for `maps`. `EntriesOK` (no entry twice, none with a row
before its turn) and `CoverOK` (an entry that stays is ahead or has its row, and
a listing in progress has passed over none) then give exactly one row each, and
sorting and cutting leave it printed or below the rows that are (`ReportRows`,
`ListRows`).
`ParseStat` takes a line of characters apart, so the proof includes
that it recovers the name and the fields after it *whatever characters the name
contains*: `rfind(')')` is right because the kernel's line has no parenthesis
after the name.

### Only model-checked

* Liveness: `EchoesAll`, `ShutdownCompletes`, `GoneIsClosed`, `Isolation`,
  `StopsWithoutClients`, `NobodyStuck`, `Finishes`, `FinishesIfFits`. Fairness
  and ENABLED are outside the proof system's fragment.

## 7. Not modelled

* The counters `read_calls`, `write_calls`, `wait_calls`, `eagain` and
  `syscalls`: they count what a step is made of.
* Failures of `start()` (the program prints the error and returns 1), option
  parsing and the layout of output.
* Half-closed connections: a client here closes both directions.
* The counters' snapshot, one load per counter, is one step.
* Calls that end in EINTR and are repeated.
* `io_uring_submit` takes the whole submission queue or fails; that the kernel
  takes a part of it, for instance because it has no memory for a request, is
  left out.
* epoll with clients left in the queue when the descriptors run out is proved
  about (`NoLostWakeupHolds`), not run.
* A process that changes its permissions (a set-user-ID exec) while procmon reads
  it, and a task directory so large that it is listed in several pieces.
* `oom_kill_count` and `current_memory`, which only read a file.
* minicontainer's `main.cpp`, `parse_size`, `human_bytes` and `memhog`:
  command line, conversions and a demo. `parse_size` does not check for
  overflow.
* procmon: `cmd_mem` with `system.cpp` (files that are always there and are not
  about a process), `format.cpp`, `mapped_file.cpp` and the demos; most of the
  numbers of `stat` and `status`, which are copied one by one; a file of /proc
  that ends in the middle because its task died (util.cpp:69), since these files
  come in one `read()` unless they are larger than a page.
* The load generator's latencies and percentiles; a thread it cannot create.

## 8. Plan

Every safety property of the passing runs is proved. What is left are *pure
functions* against reference definitions: `parse_size`, `human_bytes`, the
percentile of the load generator.
