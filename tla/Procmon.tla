------------------------------ MODULE Procmon ------------------------------
(***************************************************************************)
(* procmon: one pass over /proc while processes and threads come and go.   *)
(* The kernel's task table is the environment; the program is main() with  *)
(* cmd_list, cmd_show, cmd_threads and cmd_maps (procmon/src/main.cpp) on  *)
(* top of list_pids, read_process, read_threads and read_maps              *)
(* (procmon/src/process.cpp) and read_file (procmon/src/util.cpp).         *)
(*                                                                         *)
(* Tasks are numbered in the order they are born; that number is what the  *)
(* start time in /proc/<pid>/stat tells, and it never comes again.  PIDs   *)
(* do: a PID that was reaped is given to a new process or to a new thread. *)
(*                                                                         *)
(*   born     the tasks so far: PID and thread group (the leader's number) *)
(*   task     the task a PID stands for now, 0 if none                     *)
(*   live     the tasks that run; a task in the table that does not is a   *)
(*            zombie                                                       *)
(*   cmd      the command and its <pid> argument                           *)
(*   pc       "start" (main), "readdir", "next" (the loop over the         *)
(*            entries), "stat", "status", "cmdline", "maps" (the file that *)
(*            is read), "report", "exit"                                   *)
(*   todo     entries still to be looked at; its head is the current one   *)
(*   fd       the task whose file is open, 0 if open() failed, Closed      *)
(*   rows     the ProcessInfo or ThreadInfo records                        *)
(*   regions  the task whose regions read_maps returned, 0 if it returned  *)
(*            none                                                         *)
(*   cut      history: the rows --limit dropped, with the key and limit    *)
(*   exit     main()'s return value; Abort: an exception nobody catches    *)
(*   atStart  history: the task table when the program started             *)
(***************************************************************************)
EXTENDS Integers, FiniteSets, FiniteSetsExt, SequencesExt

CONSTANTS Ids,        \* PIDs the kernel gives out
          Self,       \* procmon's own
          NameOf,     \* the name (comm) of the n-th task, a sequence of characters
          MemOf,      \* its memory; 0: none, as kernel threads have
          MayOpen,    \* the files of it, if it is a process, that procmon may open
          IntMax,     \* INT_MAX: std::stoi throws beyond it
          Limits      \* the values of --limit that are tried

Files == {"stat", "status", "cmdline", "maps"}

\* Permission: everything of one's own processes, for those of others all but
\* maps, and nothing where /proc is mounted with hidepid.
ASSUME ProcmonAssumption ==
    /\ Ids \subseteq Nat \ {0} /\ IsFiniteSet(Ids) /\ Self \in Ids
    /\ IntMax \in Nat /\ \A i \in Ids : i <= IntMax
    /\ NameOf \in Seq(Seq(STRING)) /\ NameOf # <<>>
    /\ MemOf \in [1 .. Len(NameOf) -> Nat]
    /\ MayOpen \in [1 .. Len(NameOf) -> {Files, Files \ {"maps"}, {}}]
    /\ Limits \subseteq Nat

VARIABLES born, task, live, cmd, pc, todo, fd, rows, regions, cut, exit, atStart

kernelVars == <<born, task, live>>
progVars == <<cmd, pc, todo, fd, rows, regions, cut, exit, atStart>>
vars == <<kernelVars, progVars>>

Closed == -1
Running == -1
Abort == 134
NotANumber == -1   \* an argument is_number() rejects
Births == 1 .. Len(NameOf)

\* A ProcessInfo or ThreadInfo.  comm, state, rss, threads and start are what
\* stat said.  status and cmdline name the task those files were of (0: nothing
\* was read, the fields keep their defaults), mem says whether status had the
\* lines about memory.
Row == [pid : Ids, comm : Seq(STRING), state : {"R", "Z"}, rss : Nat,
        threads : Nat, start : Births, status : 0 .. Len(NameOf), mem : BOOLEAN,
        cmdline : 0 .. Len(NameOf)]

\* list has no <pid>; its arg stands for its options, good (Self) or not.
Commands ==
    [name : {"list"}, arg : {Self, NotANumber, IntMax + 1}]
    \union [name : {"show", "threads", "maps"}, arg : Ids \union {NotANumber, IntMax + 1}]

Keys == {"pid", "threads", "rss"}

TypeOK ==
    /\ born \in Seq([id : Ids, group : Births])
    /\ task \in [Ids -> 0 .. Len(born)]
    /\ live \subseteq 1 .. Len(born)
    /\ cmd \in Commands
    /\ pc \in {"start", "readdir", "next", "stat", "status", "cmdline", "maps", "report", "exit"}
    /\ todo \in Seq(Ids) /\ rows \in Seq(Row)
    /\ fd \in {Closed} \union 0 .. Len(born)
    /\ regions \in 0 .. Len(born)
    /\ cut \in [key : Keys, limit : Nat, rows : SUBSET Row]
    /\ exit \in {Running, 0, 1, 2, Abort}
    /\ atStart \in [Ids -> 0 .. Len(born)]

Init ==
    /\ born = <<[id |-> Self, group |-> 1]>>
    /\ task = [i \in Ids |-> IF i = Self THEN 1 ELSE 0]
    /\ live = {1}
    /\ cmd = [name |-> "list", arg |-> Self]
    /\ pc = "start"
    /\ todo = <<>> /\ fd = Closed /\ rows = <<>>
    /\ regions = 0 /\ exit = Running
    /\ cut = [key |-> "rss", limit |-> 0, rows |-> {}]
    /\ atStart = [i \in Ids |-> 0]

-----------------------------------------------------------------------------
(* The kernel *)

Busy == pc # "exit"
InTable(b) == b # 0 /\ task[born[b].id] = b
Leader(b) == born[b].group = b
Group(b) == {t \in 1 .. Len(born) : InTable(t) /\ born[t].group = born[b].group}

\* A zombie has given its memory back, also a leader whose threads run on.
Mem(b) == IF b \in live THEN MemOf[born[b].group] ELSE 0

NewTask(i, group) ==
    /\ Busy /\ Len(born) < Len(NameOf)
    /\ task[i] = 0
    /\ born' = Append(born, [id |-> i, group |-> group])
    /\ task' = [task EXCEPT ![i] = Len(born) + 1]
    /\ live' = live \union {Len(born) + 1}
    /\ UNCHANGED progVars

Fork(i) == NewTask(i, Len(born) + 1)

CloneThread(i, b) == Leader(b) /\ born[b].id # Self /\ Group(b) \intersect live # {} /\ NewTask(i, b)

\* exit_group(): the threads are gone, the leader waits to be reaped.
Exit(b) ==
    /\ Busy /\ Leader(b) /\ born[b].id # Self
    /\ Group(b) \intersect live # {}
    /\ live' = live \ Group(b)
    /\ task' = [i \in Ids |-> IF task[i] \in Group(b) \ {b} THEN 0 ELSE task[i]]
    /\ UNCHANGED <<born, progVars>>

\* One thread ends and others go on; the leader stays as a zombie.
ExitThread(b) ==
    /\ Busy /\ b \in live /\ born[b].id # Self
    /\ Group(b) \intersect live # {b}
    /\ live' = live \ {b}
    /\ task' = IF Leader(b) THEN task ELSE [task EXCEPT ![born[b].id] = 0]
    /\ UNCHANGED <<born, progVars>>

Reap(b) ==
    /\ Busy /\ Leader(b) /\ InTable(b)
    /\ Group(b) = {b} /\ b \notin live
    /\ task' = [task EXCEPT ![born[b].id] = 0]
    /\ UNCHANGED <<born, live, progVars>>

KernelStep ==
    \/ \E i \in Ids : Fork(i)
    \/ \E b \in 1 .. Len(born) :
          Exit(b) \/ ExitThread(b) \/ Reap(b) \/ \E i \in Ids : CloneThread(i, b)

-----------------------------------------------------------------------------
(* main *)

Return(code) ==
    /\ pc' = "exit"
    /\ exit' = code

\* The command line.  resolve_pid returns -1 for what is no number, and its
\* std::stoi throws for one that is too large.  In the same way cmd_list refuses
\* an option it does not know, and its std::stoul throws for a --limit that is
\* no number or too large.
StartRefused ==
    /\ pc = "start"
    /\ cmd' \in {c \in Commands : c.arg \notin 0 .. IntMax}
    /\ Return(IF cmd'.arg = NotANumber THEN 2 ELSE Abort)
    /\ atStart' = task
    /\ UNCHANGED <<kernelVars, todo, fd, rows, regions, cut>>

Start ==
    /\ pc = "start"
    /\ cmd' \in {c \in Commands : c.arg \in 0 .. IntMax}
    /\ pc' = CASE cmd'.name = "show" -> "stat"
               [] cmd'.name = "maps" -> "maps"
               [] OTHER -> "readdir"
    /\ todo' = IF cmd'.name \in {"show", "maps"} THEN <<cmd'.arg>> ELSE <<>>
    /\ atStart' = task
    /\ UNCHANGED <<kernelVars, fd, rows, regions, cut, exit>>

Processes == {i \in Ids : task[i] # 0 /\ Leader(task[i])}
ThreadsOf(i) == {j \in Ids : task[i] # 0 /\ task[j] \in Group(task[i])}

\* Permission is checked when a file or directory is opened; where no file of a
\* process can be opened its task directory cannot either.
Permitted(b, file) == file \in MayOpen[born[b].group]

\* /proc is listed in the order of PIDs, a piece at a time: each readdir()
\* returns the next PID that is there then.
Unlisted == {i \in Processes : todo = <<>> \/ i > Last(todo)}

ReadDir ==
    /\ pc = "readdir" /\ cmd.name = "list" /\ Unlisted # {}
    /\ todo' = Append(todo, Min(Unlisted))
    /\ UNCHANGED <<kernelVars, cmd, pc, fd, rows, regions, cut, exit, atStart>>

ReadDirEnd ==
    /\ pc = "readdir" /\ cmd.name = "list" /\ Unlisted = {}
    /\ pc' = "next"
    /\ UNCHANGED <<kernelVars, cmd, todo, fd, rows, regions, cut, exit, atStart>>

\* The sequences of the members of S in which none stands after one it must
\* come before; the order of those that are equal is open, as with std::sort.
Orderings(S, before(_, _)) ==
    {s \in SetToSeqs(S) : \A j, k \in 1 .. Len(s) : before(s[j], s[k]) => j < k}

TaskDir(i) == {j \in ThreadsOf(i) : Permitted(task[i], "stat")}

\* /proc/<pid>/task is listed in one piece, in the order of creation; nothing is
\* if it cannot be opened.
ReadTaskDir ==
    /\ pc = "readdir" /\ cmd.name = "threads"
    /\ todo' \in Orderings(TaskDir(cmd.arg), LAMBDA i, j : task[i] < task[j])
    /\ pc' = "next"
    /\ UNCHANGED <<kernelVars, cmd, fd, rows, regions, cut, exit, atStart>>

\* The loops of cmd_list and read_threads.
NextEntry ==
    /\ pc = "next"
    /\ pc' = IF todo = <<>> THEN "report" ELSE "stat"
    /\ UNCHANGED <<kernelVars, cmd, todo, fd, rows, regions, cut, exit, atStart>>

-----------------------------------------------------------------------------
(* read_file: open(), then read().  The descriptor stays with the task it was
   opened for: if that is gone read() fails, also when the PID is in use again. *)

cur == Head(todo)

\* /proc/<pid>/task/<tid> is there only while the thread is one of the process.
Lookup(i) == IF cmd.name = "threads" /\ i \notin ThreadsOf(cmd.arg) THEN 0 ELSE task[i]

OpenFile ==
    /\ pc \in Files /\ fd = Closed
    /\ fd' = IF Lookup(cur) # 0 /\ Permitted(Lookup(cur), pc) THEN Lookup(cur) ELSE 0
    /\ UNCHANGED <<kernelVars, cmd, pc, todo, rows, regions, cut, exit, atStart>>

Reading(file) == pc = file /\ fd # Closed
Content == InTable(fd)

\* A line of tokens: characters and numbers.
Chr(c) == <<"chr", c>>
Num(n) == <<"num", n>>

\* /proc/<pid>/stat: "pid (comm) state ...", the fields the model keeps.
StatLine(b) ==
    <<Num(born[b].id), Chr(" "), Chr("(")>>
    \o [k \in 1 .. Len(NameOf[b]) |-> Chr(NameOf[b][k])]
    \o <<Chr(")"), Chr(" "), Chr(IF b \in live THEN "R" ELSE "Z"), Chr(" "),
         Num(Cardinality(Group(b))), Chr(" "), Num(b), Chr(" "), Num(Mem(b))>>

SplitWs(line) ==
    LET fields[k \in 0 .. Len(line)] ==
            IF k = 0 THEN <<>>
            ELSE IF line[k] = Chr(" ") THEN fields[k - 1]
            ELSE Append(fields[k - 1], line[k])
    IN  fields[Len(line)]

Positions(line, c) == {k \in 1 .. Len(line) : line[k] = Chr(c)}

\* Mutant: the first ')' ends the name.
ParseStatFirst(line) ==
    LET open == Min(Positions(line, "("))
        close == Min(Positions(line, ")"))
    IN  [comm  |-> [k \in 1 .. close - open - 1 |-> line[open + k][2]],
         after |-> SplitWs(SubSeq(line, close + 1, Len(line)))]

\* The name is what stands between the first '(' and the last ')'.
ParseStat(line) ==
    LET open == Min(Positions(line, "("))
        close == Max(Positions(line, ")"))
    IN  [comm  |-> [k \in 1 .. close - open - 1 |-> line[open + k][2]],
         after |-> SplitWs(SubSeq(line, close + 1, Len(line)))]

\* to_ll(token).value_or(other)
ToLL(token, other) == IF token[1] = "num" THEN token[2] ELSE other

StatField(f, k) == IF k > Len(f.after) THEN 0 ELSE ToLL(f.after[k], 0)

NewRow(f) ==
    [pid |-> cur, comm |-> f.comm, state |-> f.after[1][2],
     threads |-> StatField(f, 2), start |-> StatField(f, 3), rss |-> StatField(f, 4),
     status |-> 0, mem |-> FALSE, cmdline |-> 0]

ReadStat ==
    /\ Reading("stat") /\ Content
    /\ \E f \in {ParseStat(StatLine(fd))} : rows' = Append(rows, NewRow(f))
    /\ fd' = Closed
    /\ pc' = "status"
    /\ UNCHANGED <<kernelVars, cmd, todo, regions, cut, exit, atStart>>

\* Mutants: the loop ends at the first process that is gone; it tries again;
\* it pushes the row of the process before.
SkipGoneStops ==
    /\ Reading("stat") /\ ~Content /\ cmd.name # "show"
    /\ fd' = Closed
    /\ todo' = <<>>
    /\ pc' = "next"
    /\ UNCHANGED <<kernelVars, cmd, rows, regions, cut, exit, atStart>>

SkipGoneRetries ==
    /\ Reading("stat") /\ ~Content /\ cmd.name # "show"
    /\ fd' = Closed
    /\ pc' = "next"
    /\ UNCHANGED <<kernelVars, cmd, todo, rows, regions, cut, exit, atStart>>

SkipGoneStale ==
    /\ Reading("stat") /\ ~Content /\ cmd.name # "show"
    /\ fd' = Closed
    /\ todo' = Tail(todo)
    /\ rows' = IF rows = <<>> THEN rows ELSE Append(rows, Last(rows))
    /\ pc' = "next"
    /\ UNCHANGED <<kernelVars, cmd, regions, cut, exit, atStart>>

\* The process or thread exited meanwhile, or may not be read: on with the next.
SkipGone ==
    /\ Reading("stat") /\ ~Content /\ cmd.name # "show"
    /\ fd' = Closed
    /\ todo' = Tail(todo)
    /\ pc' = "next"
    /\ UNCHANGED <<kernelVars, cmd, rows, regions, cut, exit, atStart>>

\* "Cannot read PID (gone, or insufficient permissions)."
ShowGone ==
    /\ Reading("stat") /\ ~Content /\ cmd.name = "show"
    /\ fd' = Closed
    /\ Return(1)
    /\ UNCHANGED <<kernelVars, cmd, todo, rows, regions, cut, atStart>>

\* parse_kv: an empty map if the file cannot be read.  A task without memory
\* has a status file without the lines about it.
ParseKv == IF Content THEN [status |-> fd, mem |-> Mem(fd) > 0]
           ELSE [status |-> 0, mem |-> FALSE]

ReadStatus ==
    /\ Reading("status")
    /\ rows' = [rows EXCEPT ![Len(rows)].status = ParseKv.status,
                            ![Len(rows)].mem = ParseKv.mem]
    /\ fd' = Closed
    /\ IF cmd.name = "threads" THEN todo' = Tail(todo) /\ pc' = "next"
       ELSE pc' = "cmdline" /\ UNCHANGED todo
    /\ UNCHANGED <<kernelVars, cmd, regions, cut, exit, atStart>>

\* A task without memory has an empty command line.
ReadCmdline ==
    /\ Reading("cmdline")
    /\ rows' = IF Content /\ Mem(fd) > 0 THEN [rows EXCEPT ![Len(rows)].cmdline = fd] ELSE rows
    /\ fd' = Closed
    /\ IF cmd.name = "show" THEN pc' = "maps" /\ UNCHANGED todo
       ELSE pc' = "next" /\ todo' = Tail(todo)
    /\ UNCHANGED <<kernelVars, cmd, regions, cut, exit, atStart>>

\* read_maps: no regions for a task that is gone, may not be read or has no
\* memory.
ReadMaps ==
    /\ Reading("maps")
    /\ regions' = IF Content /\ Mem(fd) > 0 THEN fd ELSE 0
    /\ fd' = Closed
    /\ pc' = "report"
    /\ UNCHANGED <<kernelVars, cmd, todo, rows, cut, exit, atStart>>

-----------------------------------------------------------------------------
(* The end of the commands *)

\* cpu, like rss, is a number of stat in decreasing order.
Before(key, r, q) ==
    CASE key = "pid" -> r.pid < q.pid
      [] key = "threads" -> r.threads > q.threads
      [] key = "rss" -> r.rss > q.rss

\* An invalid --sort is noticed only now.
ReportBadKey ==
    /\ pc = "report" /\ cmd.name = "list"
    /\ Return(2)
    /\ UNCHANGED <<kernelVars, cmd, todo, fd, rows, regions, cut, atStart>>

\* std::sort, then resize() to --limit.
ReportList ==
    /\ pc = "report" /\ cmd.name = "list"
    /\ \E key \in Keys, limit \in Limits :
          \E sorted \in Orderings(ToSet(rows), LAMBDA r, q : Before(key, r, q)) :
             /\ rows' = SubSeq(sorted, 1, IF Len(sorted) > limit THEN limit ELSE Len(sorted))
             /\ cut' = [key |-> key, limit |-> limit,
                        rows |-> {sorted[k] : k \in Len(rows') + 1 .. Len(sorted)}]
    /\ Return(0)
    /\ UNCHANGED <<kernelVars, cmd, todo, fd, regions, atStart>>

ReportThreads ==
    /\ pc = "report" /\ cmd.name = "threads"
    /\ rows' \in Orderings(ToSet(rows), LAMBDA r, q : r.pid < q.pid)
    /\ Return(IF rows = <<>> THEN 1 ELSE 0)
    /\ UNCHANGED <<kernelVars, cmd, todo, fd, regions, cut, atStart>>

ReportShow ==
    /\ pc = "report" /\ cmd.name = "show"
    /\ Return(0)
    /\ UNCHANGED <<kernelVars, cmd, todo, fd, rows, regions, cut, atStart>>

ReportMaps ==
    /\ pc = "report" /\ cmd.name = "maps"
    /\ Return(IF regions = 0 THEN 1 ELSE 0)
    /\ UNCHANGED <<kernelVars, cmd, todo, fd, rows, regions, cut, atStart>>

ProcmonStep ==
    \/ Start \/ StartRefused
    \/ ReadDir \/ ReadDirEnd \/ ReadTaskDir \/ NextEntry
    \/ OpenFile \/ ReadStat \/ SkipGone \/ ShowGone
    \/ ReadStatus \/ ReadCmdline \/ ReadMaps
    \/ ReportBadKey \/ ReportList \/ ReportThreads \/ ReportShow \/ ReportMaps

Over == ~Busy /\ UNCHANGED vars

Next == KernelStep \/ ProcmonStep \/ Over

Spec == Init /\ [][Next]_vars

\* procmon is scheduled; processes do what they like.
FairSpec == Spec /\ WF_vars(ProcmonStep)

-----------------------------------------------------------------------------
(* Properties *)

\* The PID stands for the same task as when the program started.
Survives(i) == atStart[i] # 0 /\ task[i] = atStart[i]

RowsOf(i) == {k \in 1 .. Len(rows) : rows[k].pid = i}

\* The row is about the task PID i stood for all along.
InFull(r, i) ==
    /\ r.pid = i /\ r.start = task[i] /\ r.status = task[i]
    /\ Mem(task[i]) > 0 => r.mem /\ r.rss = Mem(task[i])

\* Exactly one row for PID i, and in full.
ReportedOnce(i) == \E k \in RowsOf(i) : RowsOf(i) = {k} /\ InFull(rows[k], i)

\* --limit left no room for the row: as many rows as it allows are printed, none
\* of which the row of i sorts before.
CrowdedOut(i) ==
    /\ RowsOf(i) = {} /\ Len(rows) = cut.limit
    /\ \E r \in cut.rows : /\ InFull(r, i)
                           /\ \A k \in 1 .. Len(rows) : ~Before(cut.key, r, rows[k])

\* Processes and threads that come, go and take over PIDs during the scan do
\* not disturb what is said about those that stay and that procmon may read:
\* each is reported once and in full, unless --limit rows that belong above it
\* are, and main.cpp:139, "gone, or insufficient permissions", is said of none.
SurvivorsReported ==
    pc = "exit" /\ exit \in {0, 1} =>
        CASE cmd.name = "list" ->
                \A i \in Processes :
                    Survives(i) /\ Permitted(task[i], "stat") => ReportedOnce(i) \/ CrowdedOut(i)
          [] cmd.name = "show" ->
                Survives(cmd.arg) /\ Permitted(task[cmd.arg], "stat") =>
                    /\ exit = 0 /\ ReportedOnce(cmd.arg)
                    /\ Mem(task[cmd.arg]) > 0 /\ Permitted(task[cmd.arg], "maps") =>
                          regions = task[cmd.arg]
          [] cmd.name = "threads" ->
                Survives(cmd.arg) /\ Permitted(task[cmd.arg], "stat") =>
                    /\ exit = 0
                    /\ \A i \in ThreadsOf(cmd.arg) : Survives(i) => ReportedOnce(i)
          [] cmd.name = "maps" ->
                Survives(cmd.arg) /\ Permitted(task[cmd.arg], "maps") =>
                    (Mem(task[cmd.arg]) > 0 => exit = 0 /\ regions = task[cmd.arg])

\* No row is made up.  Its stat fields are those of one task that had the PID,
\* name and all, whatever characters the name is made of; no task is in two
\* rows; a thread stands in the list of processes, and a row mixes two tasks,
\* only where a PID was taken over during the scan.
RowsGenuine ==
    \A k \in 1 .. Len(rows) :
        LET r == rows[k]
            b == r.start
        IN  /\ b \in 1 .. Len(born) /\ born[b].id = r.pid /\ NameOf[b] = r.comm
            /\ r.state = "Z" => b \notin live
            /\ r.state = "R" => r.rss = MemOf[born[b].group]
            /\ r.threads >= 1
            /\ \A j \in 1 .. Len(rows) : rows[j].start = b => j = k
            /\ cmd.name = "list" /\ ~Leader(b) => atStart[r.pid] # b
            /\ {r.status, r.cmdline} \subseteq {0, b} \/ ~InTable(b)

\* The scan ends, however many processes exit under it.
Finishes == <>(pc = "exit")
=============================================================================
