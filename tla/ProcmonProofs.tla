--------------------------- MODULE ProcmonProofs ---------------------------
(***************************************************************************)
(* Theorems about Procmon, for any number of PIDs and tasks, any names and *)
(* any order of births and deaths, any permissions and any --limit:        *)
(* TypeOK, RowsGenuine, SurvivorsReported.                                 *)
(*                                                                         *)
(* The argument: a task that has left the table does not come back under   *)
(* its PID, because tasks are numbered.  So a PID that stands for the same *)
(* task as at the start (Stays) has done so at every step in between, and  *)
(* whatever was read under it is about that task.  The inductive invariant *)
(* says so of the open file (FdOK), the rows (RowStays) and the directory  *)
(* entries (CoverOK), and adds where the scan is (ShapeOK).                *)
(***************************************************************************)
EXTENDS Procmon, SequenceTheorems, FiniteSetTheorems, TLAPS

-----------------------------------------------------------------------------
(* The inductive invariant *)

\* The task table, as the kernel keeps it.
KernelOK ==
    /\ Len(born) <= Len(NameOf)
    /\ \A i \in Ids : task[i] # 0 => born[task[i]].id = i
    /\ \A b \in live : task[born[b].id] = b

\* What the command does where.
ShapeOK ==
    /\ exit = Running <=> pc # "exit"
    /\ pc = "start" => atStart = [i \in Ids |-> 0] /\ todo = <<>>
    /\ pc \notin {"start", "exit"} => cmd.arg \in Ids
    /\ exit \in {0, 1} => cmd.arg \in Ids
    /\ pc \in {"readdir", "next"} => cmd.name \in {"list", "threads"}
    /\ pc \in {"stat", "status"} => cmd.name # "maps"
    /\ pc = "cmdline" => cmd.name \in {"list", "show"}
    /\ pc = "maps" => cmd.name \in {"show", "maps"}
    /\ fd # Closed => pc \in Files
    /\ pc \in Files => todo # <<>>
    /\ pc \in Files \union {"report"} /\ cmd.name \in {"show", "maps"} => todo = <<cmd.arg>>
    /\ pc = "report" /\ cmd.name \in {"list", "threads"} => todo = <<>>
    /\ pc = "readdir" /\ cmd.name = "threads" => todo = <<>>
    /\ pc \in {"start", "readdir"} \/ cmd.name = "maps" => rows = <<>>
    /\ pc = "stat" /\ cmd.name = "show" => rows = <<>>
    /\ pc \in {"maps", "report"} /\ cmd.name = "show" => Len(rows) = 1 /\ rows[1].pid = cmd.arg
    /\ pc \in {"status", "cmdline"} =>
          /\ rows # <<>> /\ rows[Len(rows)].pid = cur
          /\ cmd.name = "show" => Len(rows) = 1

\* No directory entry is there twice, and none has a row before its turn.
EntriesOK ==
    /\ \A j, k \in 1 .. Len(todo) : todo[j] = todo[k] => j = k
    /\ pc = "readdir" => \A j, k \in 1 .. Len(todo) : j < k => todo[j] < todo[k]
    /\ \A j, k \in 1 .. Len(rows) : rows[j].pid = rows[k].pid => j = k
    /\ \A k \in 1 .. Len(rows), j \in 1 .. Len(todo) :
          rows[k].pid = todo[j] => j = 1 /\ k = Len(rows) /\ pc \notin {"next", "stat"}

\* PID i stands for the task it stood for at the start, which procmon may look
\* at, and, for "threads", so does the process whose thread it is.
Stays(i) ==
    /\ Survives(i) /\ Permitted(task[i], "stat")
    /\ cmd.name = "threads" => Survives(cmd.arg) /\ i \in ThreadsOf(cmd.arg)

\* maps needs a permission of its own.
MapsToo(i) == pc = "maps" => Permitted(task[i], "maps")

\* The open file is of a task that has or had the PID, and of the one that has
\* it if that one stays and the file may be opened.
FdOK ==
    fd # Closed =>
        /\ fd # 0 => born[fd].id = cur
        /\ Stays(cur) /\ MapsToo(cur) => fd = task[cur]

\* What RowsGenuine says of a row, but for the other rows.
Genuine(r) ==
    LET b == r.start
    IN  /\ b \in 1 .. Len(born) /\ born[b].id = r.pid /\ NameOf[b] = r.comm
        /\ r.state = "Z" => b \notin live
        /\ r.state = "R" => r.rss = MemOf[born[b].group]
        /\ r.threads >= 1
        /\ cmd.name = "list" /\ ~Leader(b) => atStart[r.pid] # b
        /\ {r.status, r.cmdline} \subseteq {0, b} \/ ~InTable(b)

\* A row of a PID that stays is about its task.
RowStays(r) ==
    Stays(r.pid) =>
        /\ r.start = task[r.pid]
        /\ Mem(task[r.pid]) > 0 => r.rss = Mem(task[r.pid])

StatusStays(r) ==
    Stays(r.pid) =>
        /\ r.status = task[r.pid]
        /\ Mem(task[r.pid]) > 0 => r.mem

RowsOK ==
    \A k \in 1 .. Len(rows) :
        /\ Genuine(rows[k])
        /\ RowStays(rows[k])
        /\ (pc = "status" /\ k = Len(rows)) \/ StatusStays(rows[k])

\* An entry of /proc was a process when it was listed.
ListedOK ==
    cmd.name = "list" => \A j \in 1 .. Len(todo) : Survives(todo[j]) => Leader(task[todo[j]])

\* The PIDs a command owes a row.
Owed(i) == Stays(i) /\ (cmd.name = "list" => Leader(task[i]))

\* No entry that stays is passed over.
CoverOK ==
    /\ pc = "readdir" /\ cmd.name = "list" =>
          \A i \in Ids : Owed(i) /\ todo # <<>> /\ i <= Last(todo) =>
              \E j \in 1 .. Len(todo) : todo[j] = i
    /\ pc \in {"next", "stat", "status", "cmdline", "report"} /\ cmd.name \in {"list", "threads"} =>
          \A i \in Ids : Owed(i) =>
              \/ \E j \in 1 .. Len(todo) : todo[j] = i
              \/ \E k \in 1 .. Len(rows) : rows[k].pid = i

RegionsOK ==
    pc = "report" /\ cmd.name \in {"show", "maps"} =>
        (Stays(cmd.arg) /\ Permitted(task[cmd.arg], "maps") /\ Mem(task[cmd.arg]) > 0 =>
            regions = task[cmd.arg])

Inv == /\ TypeOK /\ KernelOK /\ ShapeOK /\ EntriesOK /\ FdOK /\ RowsOK
       /\ ListedOK /\ CoverOK /\ RegionsOK /\ SurvivorsReported

-----------------------------------------------------------------------------
(* Parsing *)

Chars == STRING \union {" ", "(", ")", "R", "Z"}
Tokens == {Chr(c) : c \in Chars} \union {Num(n) : n \in Nat}
Space == Chr(" ")

\* Characters and numbers are told apart.
LEMMA TokenFacts ==
    /\ \A c \in Chars : Chr(c) \in Tokens /\ Chr(c)[2] = c
    /\ \A n \in Nat : Num(n) \in Tokens /\ Num(n)[1] = "num" /\ Num(n)[2] = n
    /\ \A c, d \in Chars : Chr(c) = Chr(d) => c = d
    /\ \A c \in Chars, n \in Nat : Chr(c) # Num(n)
BY DEF Tokens, Chr, Num

\* So are the characters that matter in a line of stat.
LEMMA CharFacts ==
    /\ Space \in Tokens /\ Chr("(") \in Tokens /\ Chr(")") \in Tokens
    /\ Chr("R") \in Tokens /\ Chr("Z") \in Tokens
    /\ Space # Chr("(") /\ Space # Chr(")") /\ Space # Chr("R") /\ Space # Chr("Z")
    /\ Chr("(") # Chr(")") /\ Chr(")") # Chr("R") /\ Chr(")") # Chr("Z")
    /\ \A n \in Nat : Num(n) \notin {Space, Chr("("), Chr(")")}
<1>1. /\ " " # "(" /\ " " # ")" /\ " " # "R" /\ " " # "Z"
      /\ "(" # ")" /\ ")" # "R" /\ ")" # "Z"
  BY Zenon
<1>2. " " \in Chars /\ "(" \in Chars /\ ")" \in Chars /\ "R" \in Chars /\ "Z" \in Chars
  BY Zenon DEF Chars
<1> QED
  BY <1>1, <1>2, TokenFacts, Zenon DEF Space

\* One step of split_ws.
SplitStep(line, f, k) ==
    IF k = 0 THEN <<>>
    ELSE IF line[k] = Space THEN f[k - 1]
    ELSE Append(f[k - 1], line[k])

\* split_ws, once a function is known that satisfies its recursion.
LEMMA SplitRecursion ==
    ASSUME NEW line, NEW g, g = [k \in 0 .. Len(line) |-> SplitStep(line, g, k)]
    PROVE  \E f : /\ f = [k \in 0 .. Len(line) |-> SplitStep(line, f, k)]
                  /\ SplitWs(line) = f[Len(line)]
<1> DEFINE F == CHOOSE f : f = [k \in 0 .. Len(line) |-> SplitStep(line, f, k)]
<1>1. F = [k \in 0 .. Len(line) |-> SplitStep(line, F, k)]
  OBVIOUS
<1>2. SplitWs(line) = F[Len(line)]
  BY DEF SplitWs, SplitStep, Space
<1> HIDE DEF F
<1> QED
  BY <1>1, <1>2

\* Four fields, and a line of four fields with a space before each.
FourFields(f, s, t, u, v) ==
    /\ f \in Seq(Tokens) /\ Len(f) = 4
    /\ f[1] = s /\ f[2] = t /\ f[3] = u /\ f[4] = v

Spaced(line, s, t, u, v) ==
    /\ line \in Seq(Tokens) /\ Len(line) = 8
    /\ s # Space /\ t # Space /\ u # Space /\ v # Space
    /\ line[1] = Space /\ line[3] = Space /\ line[5] = Space /\ line[7] = Space
    /\ line[2] = s /\ line[4] = t /\ line[6] = u /\ line[8] = v

\* The characters the state of a process is written with.
StateChars == {Chr("R"), Chr("Z")}

\* What read_process gets from stat: the name, and the fields after it.
Parsed(p, name, st, t, b, m) ==
    /\ p.comm = name
    /\ FourFields(p.after, st, Num(t), Num(b), Num(m))

\* split_ws of such a line.
LEMMA SplitFour ==
    ASSUME NEW line, NEW s \in Tokens, NEW t \in Tokens, NEW u \in Tokens, NEW v \in Tokens,
           Spaced(line, s, t, u, v)
    PROVE  FourFields(SplitWs(line), s, t, u, v)
<1> USE DEF Spaced
<1> DEFINE a1 == Append(<<>>, s)
           a2 == Append(a1, t)
           a3 == Append(a2, u)
           a4 == Append(a3, v)
<1>0. a4 \in Seq(Tokens) /\ Len(a4) = 4 /\ a4[1] = s /\ a4[2] = t /\ a4[3] = u /\ a4[4] = v
  OBVIOUS
<1>1. a1 = Append(<<>>, s) /\ a2 = Append(a1, t) /\ a3 = Append(a2, u) /\ a4 = Append(a3, v)
  OBVIOUS
<1> HIDE DEF a1, a2, a3, a4
<1> DEFINE g == [k \in 0 .. 8 |-> IF k < 2 THEN <<>> ELSE IF k < 4 THEN a1
                                  ELSE IF k < 6 THEN a2 ELSE IF k < 8 THEN a3 ELSE a4]
<1>2. /\ g[0] = <<>> /\ g[1] = <<>> /\ g[2] = a1 /\ g[3] = a1 /\ g[4] = a2
      /\ g[5] = a2 /\ g[6] = a3 /\ g[7] = a3 /\ g[8] = a4
      /\ DOMAIN g = 0 .. 8 /\ g = [k \in 0 .. 8 |-> g[k]]
  OBVIOUS
<1> HIDE DEF g
<1>3. ASSUME NEW f
      PROVE  /\ SplitStep(line, f, 0) = <<>>
             /\ SplitStep(line, f, 1) = f[0] /\ SplitStep(line, f, 2) = Append(f[1], s)
             /\ SplitStep(line, f, 3) = f[2] /\ SplitStep(line, f, 4) = Append(f[3], t)
             /\ SplitStep(line, f, 5) = f[4] /\ SplitStep(line, f, 6) = Append(f[5], u)
             /\ SplitStep(line, f, 7) = f[6] /\ SplitStep(line, f, 8) = Append(f[7], v)
  <2>1. \A k \in 1 .. 8 :
           /\ line[k] = Space => SplitStep(line, f, k) = f[k - 1]
           /\ line[k] # Space => SplitStep(line, f, k) = Append(f[k - 1], line[k])
    BY DEF SplitStep
  <2>2. SplitStep(line, f, 0) = <<>>
    BY DEF SplitStep
  <2>3. SplitStep(line, f, 1) = f[0] /\ SplitStep(line, f, 2) = Append(f[1], s)
    BY <2>1, 1 - 1 = 0, 2 - 1 = 1
  <2>4. SplitStep(line, f, 3) = f[2] /\ SplitStep(line, f, 4) = Append(f[3], t)
    BY <2>1, 3 - 1 = 2, 4 - 1 = 3
  <2>5. SplitStep(line, f, 5) = f[4] /\ SplitStep(line, f, 6) = Append(f[5], u)
    BY <2>1, 5 - 1 = 4, 6 - 1 = 5
  <2>6. SplitStep(line, f, 7) = f[6] /\ SplitStep(line, f, 8) = Append(f[7], v)
    BY <2>1, 7 - 1 = 6, 8 - 1 = 7
  <2> QED
    BY <2>2, <2>3, <2>4, <2>5, <2>6
<1>4. \A k \in 0 .. 8 : g[k] = SplitStep(line, g, k)
  <2>1. \A k \in 0 .. 8 : k = 0 \/ k = 1 \/ k = 2 \/ k = 3 \/ k = 4 \/ k = 5 \/ k = 6 \/ k = 7 \/ k = 8
    OBVIOUS
  <2>2. /\ SplitStep(line, g, 0) = g[0] /\ SplitStep(line, g, 1) = g[1]
        /\ SplitStep(line, g, 2) = g[2] /\ SplitStep(line, g, 3) = g[3]
        /\ SplitStep(line, g, 4) = g[4] /\ SplitStep(line, g, 5) = g[5]
        /\ SplitStep(line, g, 6) = g[6] /\ SplitStep(line, g, 7) = g[7]
        /\ SplitStep(line, g, 8) = g[8]
    <3>1. /\ SplitStep(line, g, 0) = <<>>
          /\ SplitStep(line, g, 1) = g[0] /\ SplitStep(line, g, 2) = Append(g[1], s)
          /\ SplitStep(line, g, 3) = g[2] /\ SplitStep(line, g, 4) = Append(g[3], t)
          /\ SplitStep(line, g, 5) = g[4] /\ SplitStep(line, g, 6) = Append(g[5], u)
          /\ SplitStep(line, g, 7) = g[6] /\ SplitStep(line, g, 8) = Append(g[7], v)
      BY <1>3, Zenon
    <3> QED
      BY <1>1, <1>2, <3>1, Zenon
  <2> QED
    BY <2>1, <2>2
<1>5. g = [k \in 0 .. 8 |-> SplitStep(line, g, k)]
  BY <1>2, <1>4
<1>6. PICK f : f = [k \in 0 .. Len(line) |-> SplitStep(line, f, k)] /\ SplitWs(line) = f[Len(line)]
  <2>1. g = [k \in 0 .. Len(line) |-> SplitStep(line, g, k)]
    BY <1>5
  <2> QED
    BY <2>1, SplitRecursion
<1>7. \A k \in 0 .. 8 : f[k] = SplitStep(line, f, k)
  BY <1>6
<1>8. /\ f[0] = <<>> /\ f[1] = f[0] /\ f[2] = Append(f[1], s) /\ f[3] = f[2]
      /\ f[4] = Append(f[3], t) /\ f[5] = f[4] /\ f[6] = Append(f[5], u)
      /\ f[7] = f[6] /\ f[8] = Append(f[7], v)
  <2>1. /\ f[0] = SplitStep(line, f, 0) /\ f[1] = SplitStep(line, f, 1)
        /\ f[2] = SplitStep(line, f, 2) /\ f[3] = SplitStep(line, f, 3)
        /\ f[4] = SplitStep(line, f, 4) /\ f[5] = SplitStep(line, f, 5)
        /\ f[6] = SplitStep(line, f, 6) /\ f[7] = SplitStep(line, f, 7)
        /\ f[8] = SplitStep(line, f, 8)
    BY <1>7
  <2> QED
    BY <1>3, <2>1
<1>9. f[8] = a4
  BY <1>1, <1>8
<1> QED
  BY <1>0, <1>6, <1>9 DEF FourFields

\* The characters of a name are characters.
LEMMA NameChars == \A c \in STRING : c \in Chars
BY Zenon DEF Chars

\* A function on 1 .. n is a sequence.
LEMMA FunctionIsSeq ==
    ASSUME NEW T, NEW n \in Nat, NEW s \in [1 .. n -> T]
    PROVE  s \in Seq(T) /\ Len(s) = n
OBVIOUS

\* Where the elements of two sequences are in their concatenation.
LEMMA ConcatTwo ==
    ASSUME NEW T, NEW x \in Seq(T), NEW y \in Seq(T)
    PROVE  /\ x \o y \in Seq(T) /\ Len(x \o y) = Len(x) + Len(y)
           /\ \A k \in 1 .. Len(x) : (x \o y)[k] = x[k]
           /\ \A k \in 1 .. Len(y) : (x \o y)[Len(x) + k] = y[k]
OBVIOUS

\* l is x, y and z, one after the other.
Joined(T, l, x, y, z) ==
    /\ l \in Seq(T)
    /\ Len(l) = Len(x) + Len(y) + Len(z)
    /\ \A k \in 1 .. Len(x) : l[k] = x[k]
    /\ \A k \in 1 .. Len(y) : l[Len(x) + k] = y[k]
    /\ \A k \in 1 .. Len(z) : l[Len(x) + Len(y) + k] = z[k]

\* Where the elements of three sequences are in their concatenation.
LEMMA ConcatThree ==
    ASSUME NEW T, NEW x \in Seq(T), NEW y \in Seq(T), NEW z \in Seq(T)
    PROVE  Joined(T, (x \o y) \o z, x, y, z)
<1>1. PICK h \in Seq(T) : h = x \o y
  BY ConcatTwo
<1>2. /\ Len(h) = Len(x) + Len(y)
      /\ \A k \in 1 .. Len(x) : h[k] = x[k]
      /\ \A k \in 1 .. Len(y) : h[Len(x) + k] = y[k]
  BY <1>1, ConcatTwo
<1>3. /\ h \o z \in Seq(T) /\ Len(h \o z) = Len(h) + Len(z)
      /\ \A k \in 1 .. Len(h) : (h \o z)[k] = h[k]
      /\ \A k \in 1 .. Len(z) : (h \o z)[Len(h) + k] = z[k]
  BY ConcatTwo
<1>4. Len(x) \in Nat /\ Len(y) \in Nat /\ Len(h) \in Nat
  OBVIOUS
<1>5. \A k \in 1 .. Len(x) : (h \o z)[k] = x[k]
  BY <1>2, <1>3, <1>4
<1>6. \A k \in 1 .. Len(y) : (h \o z)[Len(x) + k] = y[k]
  BY <1>2, <1>3, <1>4
<1> QED
  BY <1>1, <1>2, <1>3, <1>5, <1>6 DEF Joined

\* A line with such a name and such fields, by position.
Layout(line, name, i, st, t, b, m) ==
    LET n == Len(name)
    IN  /\ line \in Seq(Tokens) /\ Len(line) = n + 12
        /\ line[1] = Num(i) /\ line[2] = Space /\ line[3] = Chr("(")
        /\ \A k \in 1 .. n : line[3 + k] = Chr(name[k])
        /\ line[n + 4] = Chr(")") /\ line[n + 5] = Space
        /\ line[n + 6] = st /\ line[n + 7] = Space
        /\ line[n + 8] = Num(t) /\ line[n + 9] = Space
        /\ line[n + 10] = Num(b) /\ line[n + 11] = Space
        /\ line[n + 12] = Num(m)

\* The parts of a line of stat, put together.
LEMMA LineFacts ==
    ASSUME NEW name \in Seq(STRING), NEW i \in Nat, NEW st \in StateChars,
           NEW t \in Nat, NEW b \in Nat, NEW m \in Nat
    PROVE  Layout(<<Num(i), Space, Chr("(")>> \o [k \in 1 .. Len(name) |-> Chr(name[k])]
                     \o <<Chr(")"), Space, st, Space, Num(t), Space, Num(b), Space, Num(m)>>,
                  name, i, st, t, b, m)
<1>1. PICK n \in Nat : n = Len(name)
  OBVIOUS
<1>2. PICK pre : pre = <<Num(i), Space, Chr("(")>>
  OBVIOUS
<1>3. PICK nm : nm = [k \in 1 .. Len(name) |-> Chr(name[k])]
  OBVIOUS
<1>4. PICK post : post = <<Chr(")"), Space, st, Space, Num(t), Space, Num(b), Space, Num(m)>>
  OBVIOUS
<1>5. pre \in Seq(Tokens) /\ Len(pre) = 3 /\ pre[1] = Num(i) /\ pre[2] = Space /\ pre[3] = Chr("(")
  BY <1>2, TokenFacts, CharFacts
<1>6. nm \in Seq(Tokens) /\ Len(nm) = n /\ \A k \in 1 .. n : nm[k] = Chr(name[k])
  <2>1. \A k \in 1 .. n : name[k] \in STRING
    BY <1>1
  <2>2. \A k \in 1 .. n : Chr(name[k]) \in Tokens
    BY <2>1, NameChars, TokenFacts, Zenon
  <2>3. \A k \in 1 .. n : nm[k] = Chr(name[k])
    BY <1>1, <1>3
  <2>4. \A k \in 1 .. n : nm[k] \in Tokens
    BY <2>2, <2>3, Zenon
  <2>5. nm = [k \in 1 .. n |-> nm[k]]
    BY <1>1, <1>3
  <2>6. nm \in [1 .. n -> Tokens]
    BY <2>4, <2>5, Zenon
  <2> QED
    BY <2>3, <2>6
<1>7. /\ post \in Seq(Tokens) /\ Len(post) = 9
      /\ post[1] = Chr(")") /\ post[2] = Space /\ post[3] = st /\ post[4] = Space
      /\ post[5] = Num(t) /\ post[6] = Space /\ post[7] = Num(b) /\ post[8] = Space
      /\ post[9] = Num(m)
  <2>1. /\ Num(t) \in Tokens /\ Num(b) \in Tokens /\ Num(m) \in Tokens /\ st \in Tokens
        /\ Space \in Tokens /\ Chr(")") \in Tokens
    BY TokenFacts, CharFacts DEF StateChars
  <2> QED
    BY <1>4, <2>1
<1>8. PICK line : line = (pre \o nm) \o post
  OBVIOUS
<1>9. /\ line \in Seq(Tokens) /\ Len(line) = 3 + n + 9
      /\ \A k \in 1 .. 3 : line[k] = pre[k]
      /\ \A k \in 1 .. n : line[3 + k] = nm[k]
      /\ \A k \in 1 .. 9 : line[3 + n + k] = post[k]
  <2>1. Joined(Tokens, (pre \o nm) \o post, pre, nm, post)
    BY <1>5, <1>6, <1>7, ConcatThree, Zenon
  <2>2. Len(pre) = 3 /\ Len(nm) = n /\ Len(post) = 9
    BY <1>5, <1>6, <1>7
  <2> QED
    BY <1>8, <2>1, <2>2, Zenon DEF Joined
<1>10. line[1] = Num(i) /\ line[2] = Space /\ line[3] = Chr("(")
  BY <1>5, <1>9
<1>11. \A k \in 1 .. n : line[3 + k] = Chr(name[k])
  BY <1>6, <1>9
<1>12. /\ line[n + 4] = post[1] /\ line[n + 5] = post[2] /\ line[n + 6] = post[3]
       /\ line[n + 7] = post[4] /\ line[n + 8] = post[5] /\ line[n + 9] = post[6]
       /\ line[n + 10] = post[7] /\ line[n + 11] = post[8] /\ line[n + 12] = post[9]
  <2>1. /\ 3 + n + 1 = n + 4 /\ 3 + n + 2 = n + 5 /\ 3 + n + 3 = n + 6 /\ 3 + n + 4 = n + 7
        /\ 3 + n + 5 = n + 8 /\ 3 + n + 6 = n + 9 /\ 3 + n + 7 = n + 10 /\ 3 + n + 8 = n + 11
        /\ 3 + n + 9 = n + 12
    OBVIOUS
  <2> QED
    BY <1>9, <2>1
<1>13. Layout(line, name, i, st, t, b, m)
  BY <1>1, <1>7, <1>9, <1>10, <1>11, <1>12, 3 + n + 9 = n + 12 DEF Layout
<1> QED
  BY <1>2, <1>3, <1>4, <1>8, <1>13

\* parse_stat finds the name between the first '(' and the last ')', whatever
\* the name is made of, and the four fields after it.
LEMMA ParseFacts ==
    ASSUME NEW name \in Seq(STRING), NEW i \in Nat, NEW st \in StateChars,
           NEW t \in Nat, NEW b \in Nat, NEW m \in Nat, NEW line,
           Layout(line, name, i, st, t, b, m)
    PROVE  Parsed(ParseStat(line), name, st, t, b, m)
<1>1. PICK n \in Nat : n = Len(name)
  OBVIOUS
<1>2. /\ line \in Seq(Tokens) /\ Len(line) = n + 12
      /\ line[1] = Num(i) /\ line[2] = Space /\ line[3] = Chr("(")
      /\ \A k \in 1 .. n : line[3 + k] = Chr(name[k])
      /\ line[n + 4] = Chr(")") /\ line[n + 5] = Space
      /\ line[n + 6] = st /\ line[n + 7] = Space
      /\ line[n + 8] = Num(t) /\ line[n + 9] = Space
      /\ line[n + 10] = Num(b) /\ line[n + 11] = Space
      /\ line[n + 12] = Num(m)
  BY <1>1 DEF Layout
<1>3. Min(Positions(line, "(")) = 3
  <2>1. Num(i) # Chr("(") /\ Space # Chr("(")
    BY CharFacts
  <2>2. 3 \in Positions(line, "(") /\ 1 \notin Positions(line, "(") /\ 2 \notin Positions(line, "(")
    BY <1>2, <2>1 DEF Positions
  <2>3. \A k \in Positions(line, "(") : k \in Nat /\ k # 0
    BY <1>2 DEF Positions
  <2>4. \A k \in Nat : k # 0 /\ k # 1 /\ k # 2 => 3 <= k
    OBVIOUS
  <2>5. \A k \in Positions(line, "(") : 3 <= k
    BY <2>2, <2>3, <2>4
  <2>6. \A x \in Positions(line, "(") : x <= 3 => x = 3
    BY <2>3, <2>5
  <2> QED
    BY <2>2, <2>5, <2>6 DEF Min
<1>4. Max(Positions(line, ")")) = n + 4
  <2>1. n + 4 \in Positions(line, ")")
    BY <1>2 DEF Positions
  <2>2. \A k \in Positions(line, ")") : k \in 1 .. n + 12 /\ line[k] = Chr(")")
    BY <1>2 DEF Positions
  <2>3. /\ Space # Chr(")") /\ st # Chr(")") /\ Num(t) # Chr(")") /\ Num(b) # Chr(")")
        /\ Num(m) # Chr(")")
    BY CharFacts DEF StateChars
  <2>4. \A k \in 1 .. n + 12 : \/ k <= n + 4 \/ k = n + 5 \/ k = n + 6 \/ k = n + 7 \/ k = n + 8
                               \/ k = n + 9 \/ k = n + 10 \/ k = n + 11 \/ k = n + 12
    OBVIOUS
  <2>5. \A k \in Positions(line, ")") : k <= n + 4
    BY <1>2, <2>2, <2>3, <2>4
  <2>6. \A x \in Positions(line, ")") : x >= n + 4 => x = n + 4
    BY <2>2, <2>5
  <2>7. \A x \in Positions(line, ")") : n + 4 >= x
    BY <2>2, <2>5
  <2> QED
    BY <2>1, <2>6, <2>7 DEF Max
<1>5. /\ ParseStat(line).comm = [k \in 1 .. n + 4 - 3 - 1 |-> line[3 + k][2]]
      /\ ParseStat(line).after = SplitWs(SubSeq(line, n + 4 + 1, Len(line)))
  BY <1>3, <1>4 DEF ParseStat
<1>6. ParseStat(line).comm = name
  <2>0. \A k \in 1 .. n : name[k] \in STRING
    BY <1>1
  <2>1. \A k \in 1 .. n : line[3 + k][2] = name[k]
    BY <1>2, <2>0, NameChars, TokenFacts, Zenon
  <2>2. 1 .. n + 4 - 3 - 1 = 1 .. n
    OBVIOUS
  <2>3. name = [k \in 1 .. n |-> name[k]]
    BY <1>1
  <2> QED
    BY <1>5, <2>1, <2>2, <2>3
<1>7. PICK rest : rest = SubSeq(line, n + 5, Len(line))
  OBVIOUS
<1>8. /\ rest \in Seq(Tokens) /\ Len(rest) = 8
      /\ \A k \in 1 .. 8 : rest[k] = line[n + 4 + k]
  <2>1. /\ n + 5 \in 1 .. Len(line) + 1 /\ Len(line) \in n + 4 .. Len(line)
        /\ Len(line) - (n + 5) + 1 = 8
    BY <1>2
  <2>2. \A k \in 1 .. 8 : n + 5 + k - 1 = n + 4 + k
    OBVIOUS
  <2> QED
    BY <1>2, <1>7, <2>1, <2>2, SubSeqProperties
<1>9. /\ rest[1] = Space /\ rest[2] = st /\ rest[3] = Space /\ rest[4] = Num(t)
      /\ rest[5] = Space /\ rest[6] = Num(b) /\ rest[7] = Space /\ rest[8] = Num(m)
  <2>1. /\ n + 4 + 1 = n + 5 /\ n + 4 + 2 = n + 6 /\ n + 4 + 3 = n + 7 /\ n + 4 + 4 = n + 8
        /\ n + 4 + 5 = n + 9 /\ n + 4 + 6 = n + 10 /\ n + 4 + 7 = n + 11 /\ n + 4 + 8 = n + 12
    OBVIOUS
  <2>2. /\ rest[1] = line[n + 5] /\ rest[2] = line[n + 6] /\ rest[3] = line[n + 7]
        /\ rest[4] = line[n + 8] /\ rest[5] = line[n + 9] /\ rest[6] = line[n + 10]
        /\ rest[7] = line[n + 11] /\ rest[8] = line[n + 12]
    BY <1>8, <2>1
  <2> QED
    BY <1>2, <2>2
<1>10. /\ st \in Tokens /\ Num(t) \in Tokens /\ Num(b) \in Tokens /\ Num(m) \in Tokens
       /\ st # Space /\ Num(t) # Space /\ Num(b) # Space /\ Num(m) # Space
  BY TokenFacts, CharFacts DEF StateChars
<1>11. FourFields(SplitWs(rest), st, Num(t), Num(b), Num(m))
  <2>1. Spaced(rest, st, Num(t), Num(b), Num(m))
    BY <1>8, <1>9, <1>10 DEF Spaced
  <2> QED
    BY <1>10, <2>1, SplitFour, Zenon
<1>12. ParseStat(line).after = SplitWs(rest)
  BY <1>5, <1>7, n + 4 + 1 = n + 5
<1> QED
  BY <1>6, <1>11, <1>12 DEF Parsed

\* The constants.
LEMMA ConstantFacts ==
    /\ Ids \subseteq Nat \ {0} /\ IsFiniteSet(Ids) /\ Self \in Ids
    /\ NameOf \in Seq(Seq(STRING)) /\ Len(NameOf) \in Nat \ {0}
    /\ \A b \in Births : NameOf[b] \in Seq(STRING) /\ MemOf[b] \in Nat
    /\ \A b \in Births : MayOpen[b] \in {Files, Files \ {"maps"}, {}}
    /\ Limits \subseteq Nat
    /\ IntMax \in Nat /\ \A i \in Ids : i <= IntMax
<1>1. /\ Ids \subseteq Nat \ {0} /\ IsFiniteSet(Ids) /\ Self \in Ids
      /\ NameOf \in Seq(Seq(STRING)) /\ NameOf # <<>> /\ Limits \subseteq Nat
      /\ IntMax \in Nat /\ \A i \in Ids : i <= IntMax
      /\ MemOf \in [1 .. Len(NameOf) -> Nat]
      /\ MayOpen \in [1 .. Len(NameOf) -> {Files, Files \ {"maps"}, {}}]
  BY ProcmonAssumption
<1>2. Len(NameOf) \in Nat \ {0}
  BY <1>1, EmptySeq, LenProperties
<1>3. \A b \in Births : NameOf[b] \in Seq(STRING) /\ MemOf[b] \in Nat
  BY <1>1, <1>2, ElementOfSeq DEF Births
<1>4. \A b \in Births : MayOpen[b] \in {Files, Files \ {"maps"}, {}}
  BY <1>1 DEF Births
<1> QED
  BY <1>1, <1>2, <1>3, <1>4

\* A task and its group.
LEMMA TaskFacts ==
    ASSUME TypeOK, KernelOK, NEW b \in 1 .. Len(born)
    PROVE  /\ b \in Births /\ born[b].id \in Ids /\ born[b].group \in Births
           /\ Mem(b) \in Nat
           /\ Cardinality(Group(b)) \in Nat
           /\ InTable(b) => Cardinality(Group(b)) >= 1
           /\ Permitted(b, "maps") => Permitted(b, "stat")
           /\ Permitted(b, "stat") => Permitted(b, "status") /\ Permitted(b, "cmdline")
<1>1. Len(born) \in Nat /\ Len(NameOf) \in Nat /\ Len(born) <= Len(NameOf)
  BY ConstantFacts, LenProperties DEF TypeOK, KernelOK
<1>2. b \in Births
  BY <1>1 DEF Births
<1>3. born[b] \in [id : Ids, group : Births]
  BY ElementOfSeq DEF TypeOK
<1>4. born[b].id \in Ids /\ born[b].group \in Births
  BY <1>3
<1>5. Mem(b) \in Nat
  BY <1>4, ConstantFacts DEF Mem
<1>6. IsFiniteSet(1 .. Len(born))
  BY <1>1, FS_Interval
<1>7. IsFiniteSet(Group(b))
  <2>1. Group(b) \subseteq 1 .. Len(born)
    BY DEF Group
  <2> QED
    BY <1>6, <2>1, FS_Subset
<1>8. Cardinality(Group(b)) \in Nat
  BY <1>7, FS_CardinalityType
<1>9. ASSUME InTable(b) PROVE Cardinality(Group(b)) >= 1
  <2>1. b \in Group(b)
    BY <1>9 DEF Group
  <2>2. Cardinality(Group(b)) # 0
    BY <1>7, <2>1, FS_EmptySet
  <2> QED
    BY <1>8, <2>2
<1>10. /\ Permitted(b, "maps") => Permitted(b, "stat")
       /\ Permitted(b, "stat") => Permitted(b, "status") /\ Permitted(b, "cmdline")
  <2>1. MayOpen[born[b].group] \in {Files, Files \ {"maps"}, {}}
    BY <1>4, ConstantFacts
  <2> QED
    BY <2>1 DEF Permitted, Files
<1> QED
  BY <1>2, <1>4, <1>5, <1>8, <1>9, <1>10

\* read_process reads back from stat what the kernel wrote there.
LEMMA RowFromStat ==
    ASSUME TypeOK, KernelOK, NEW b \in 1 .. Len(born), NEW f, f = ParseStat(StatLine(b))
    PROVE  /\ f.comm = NameOf[b]
           /\ f.after[1][2] = (IF b \in live THEN "R" ELSE "Z")
           /\ StatField(f, 2) = Cardinality(Group(b))
           /\ StatField(f, 3) = b
           /\ StatField(f, 4) = Mem(b)
<1>1. /\ b \in Births /\ born[b].id \in Ids /\ Mem(b) \in Nat /\ Cardinality(Group(b)) \in Nat
  BY TaskFacts
<1>2. NameOf[b] \in Seq(STRING) /\ born[b].id \in Nat /\ b \in Nat
  <2>1. NameOf[b] \in Seq(STRING) /\ born[b].id \in Nat
    BY <1>1, ConstantFacts, Zenon
  <2>2. b \in Nat
    BY <1>1 DEF Births
  <2> QED
    BY <2>1, <2>2
<1>3. PICK st : st = Chr(IF b \in live THEN "R" ELSE "Z")
  OBVIOUS
<1>4. st \in StateChars
  BY <1>3, Zenon DEF StateChars
<1>5. Layout(StatLine(b), NameOf[b], born[b].id, st, Cardinality(Group(b)), b, Mem(b))
  <2>1. StatLine(b) =
          <<Num(born[b].id), Space, Chr("(")>> \o [k \in 1 .. Len(NameOf[b]) |-> Chr(NameOf[b][k])]
          \o <<Chr(")"), Space, st, Space, Num(Cardinality(Group(b))), Space, Num(b), Space, Num(Mem(b))>>
    BY <1>3, Zenon DEF StatLine, Space
  <2>2. ASSUME NEW name \in Seq(STRING), NEW i \in Nat, NEW s \in StateChars,
               NEW t \in Nat, NEW d \in Nat, NEW m \in Nat, NEW line,
               line = <<Num(i), Space, Chr("(")>> \o [k \in 1 .. Len(name) |-> Chr(name[k])]
                      \o <<Chr(")"), Space, s, Space, Num(t), Space, Num(d), Space, Num(m)>>
        PROVE  Layout(line, name, i, s, t, d, m)
    BY <2>2, LineFacts, Zenon
  <2> QED
    BY <1>1, <1>2, <1>4, <2>1, <2>2, Zenon
<1>6. /\ f.comm = NameOf[b]
      /\ FourFields(f.after, st, Num(Cardinality(Group(b))), Num(b), Num(Mem(b)))
  <2>1. PICK line : line = StatLine(b)
    OBVIOUS
  <2>2. Layout(line, NameOf[b], born[b].id, st, Cardinality(Group(b)), b, Mem(b))
    BY <1>5, <2>1
  <2>3. Parsed(ParseStat(line), NameOf[b], st, Cardinality(Group(b)), b, Mem(b))
    BY <1>1, <1>2, <1>4, <2>2, ParseFacts, Zenon
  <2> QED
    BY <2>1, <2>3 DEF Parsed
<1>7. /\ Len(f.after) = 4 /\ f.after[1] = st /\ f.after[2] = Num(Cardinality(Group(b)))
      /\ f.after[3] = Num(b) /\ f.after[4] = Num(Mem(b))
  BY <1>6, Zenon DEF FourFields
<1>8. st[2] = (IF b \in live THEN "R" ELSE "Z")
  BY <1>3 DEF Chr
<1>9. \A n \in Nat : ToLL(Num(n), 0) = n
  BY TokenFacts DEF ToLL
<1>10. /\ StatField(f, 2) = ToLL(f.after[2], 0) /\ StatField(f, 3) = ToLL(f.after[3], 0)
       /\ StatField(f, 4) = ToLL(f.after[4], 0)
  BY <1>7 DEF StatField
<1> QED
  BY <1>1, <1>2, <1>6, <1>7, <1>8, <1>9, <1>10

-----------------------------------------------------------------------------
(* Minima and orderings *)

\* Some set of PIDs that is not empty has a smallest one.
LEMMA MinFacts ==
    ASSUME NEW S, S \subseteq Nat, S # {}
    PROVE  Min(S) \in S /\ \A y \in S : Min(S) <= y
<1>1. PICK R : R = OpToRel(<, Nat)
  BY Zenon
<1>2. IsWellFoundedOn(R, Nat)
  BY <1>1, NatLessThanWellFounded, Zenon
<1>3. PICK x \in S : \A y \in S : ~(<<y, x>> \in R)
  BY <1>2, WFMin, Zenon
<1>4. \A y \in S : x <= y
  <2>1. \A y \in S : y \in Nat /\ x \in Nat
    OBVIOUS
  <2>2. \A y \in Nat, z \in Nat : y < z => <<y, z>> \in R
    BY <1>1 DEF OpToRel
  <2>3. \A y \in S : ~(y < x)
    BY <1>3, <2>1, <2>2
  <2> QED
    BY <2>1, <2>3
<1> QED
  BY <1>4 DEF Min

\* SetToSeqs gives permutations: every member stands somewhere, once.
LEMMA PermutationFacts ==
    ASSUME NEW S, IsFiniteSet(S), NEW s \in SetToSeqs(S)
    PROVE  /\ s \in Seq(S)
           /\ \A j, k \in 1 .. Len(s) : s[j] = s[k] => j = k
           /\ \A x \in S : \E k \in 1 .. Len(s) : s[k] = x
<1>1. PICK n \in Nat : n = Cardinality(S)
  BY FS_CardinalityType
<1>2. /\ s \in [1 .. n -> S]
      /\ \A j, k \in 1 .. n : j # k => s[j] # s[k]
  BY <1>1 DEF SetToSeqs
<1>3. s \in Seq(S) /\ Len(s) = n
  BY <1>2
<1>4. s \in Injection(1 .. n, S)
  BY <1>2 DEF Injection, IsInjective
<1>5. IsFiniteSet(1 .. n) /\ Cardinality(1 .. n) = n
  BY FS_Interval
<1>6. s \in Surjection(1 .. n, S)
  BY <1>1, <1>4, <1>5, FS_Injection
<1> QED
  BY <1>2, <1>3, <1>6 DEF Surjection

\* Sorted rows are the rows, in another order.
LEMMA SortedRows ==
    ASSUME TypeOK, EntriesOK, NEW s \in SetToSeqs(ToSet(rows))
    PROVE  /\ s \in Seq(Row)
           /\ \A j \in 1 .. Len(s) : \E k \in 1 .. Len(rows) : s[j] = rows[k]
           /\ \A k \in 1 .. Len(rows) : \E j \in 1 .. Len(s) : s[j] = rows[k]
           /\ \A j, k \in 1 .. Len(s) : s[j].pid = s[k].pid => j = k
<1>1. PICK S : S = ToSet(rows)
  OBVIOUS
<1>2. PICK n \in Nat : n = Len(rows)
  BY LenProperties DEF TypeOK
<1>3. rows \in [1 .. n -> Row] /\ DOMAIN rows = 1 .. n
  BY <1>2 DEF TypeOK
<1>4. S \subseteq Row /\ \A x \in S : \E k \in 1 .. n : rows[k] = x
  BY <1>1, <1>3 DEF ToSet
<1>5. \A k \in 1 .. n : rows[k] \in S
  BY <1>1, <1>3 DEF ToSet
<1>6. rows \in Surjection(1 .. n, S)
  <2>1. rows \in [1 .. n -> S]
    BY <1>3, <1>5
  <2> QED
    BY <1>4, <2>1 DEF Surjection
<1>7. IsFiniteSet(S)
  <2>1. IsFiniteSet(1 .. n)
    BY FS_Interval
  <2> QED
    BY <1>6, <2>1, FS_Surjection
<1>8. /\ s \in Seq(S)
      /\ \A j, k \in 1 .. Len(s) : s[j] = s[k] => j = k
      /\ \A x \in S : \E k \in 1 .. Len(s) : s[k] = x
  BY <1>1, <1>7, PermutationFacts
<1>9. \A j \in 1 .. Len(s) : s[j] \in S
  BY <1>8, ElementOfSeq
<1>10. s \in Seq(Row)
  BY <1>4, <1>8
<1>11. \A j \in 1 .. Len(s) : \E k \in 1 .. n : s[j] = rows[k]
  BY <1>4, <1>9
<1>12. \A k \in 1 .. n : \E j \in 1 .. Len(s) : s[j] = rows[k]
  BY <1>5, <1>8
<1>13. ASSUME NEW j \in 1 .. Len(s), NEW k \in 1 .. Len(s), s[j].pid = s[k].pid PROVE j = k
  <2>1. PICK a \in 1 .. n, b \in 1 .. n : s[j] = rows[a] /\ s[k] = rows[b]
    BY <1>11
  <2>2. a = b
    BY <1>2, <1>13, <2>1 DEF EntriesOK
  <2> QED
    BY <1>8, <2>1, <2>2
<1> QED
  BY <1>2, <1>10, <1>11, <1>12, <1>13

-----------------------------------------------------------------------------
(* The kernel's steps *)

\* What every step of the kernel leaves true of the tasks there were: a PID
\* keeps its task, loses it or gets a new one.
KernelFrame ==
    /\ pc # "exit" /\ UNCHANGED progVars
    /\ born' \in Seq([id : Ids, group : Births])
    /\ task' \in [Ids -> 0 .. Len(born')]
    /\ live' \subseteq 1 .. Len(born')
    /\ KernelOK'
    /\ Len(born) <= Len(born')
    /\ \A b \in 1 .. Len(born) : born'[b] = born[b]
    /\ \A i \in Ids : task'[i] \in 0 .. Len(born) => task'[i] \in {0, task[i]}
    /\ \A b \in 1 .. Len(born) : b \in live' => b \in live

\* A new process or thread.
LEMMA NewTaskFrame ==
    ASSUME TypeOK, KernelOK, NEW i \in Ids, NEW group \in 1 .. Len(born) + 1, NewTask(i, group)
    PROVE  KernelFrame
<1>1. PICK n \in Nat : n = Len(born)
  BY LenProperties DEF TypeOK
<1>2. /\ n + 1 \in Births /\ group \in Births /\ n + 1 <= Len(NameOf) /\ n # n + 1
  BY <1>1, ConstantFacts DEF NewTask, Births, Busy
<1>3. /\ born' \in Seq([id : Ids, group : Births]) /\ Len(born') = n + 1
      /\ \A b \in 1 .. n : born'[b] = born[b]
      /\ born'[n + 1].id = i
  BY <1>1, <1>2 DEF NewTask, TypeOK
<1>4. /\ task' \in [Ids -> 0 .. n + 1]
      /\ \A j \in Ids : task'[j] = IF j = i THEN n + 1 ELSE task[j]
      /\ \A j \in Ids : task[j] \in 0 .. n
      /\ task[i] = 0
  BY <1>1 DEF NewTask, TypeOK
<1>5. live' = live \union {n + 1} /\ live \subseteq 1 .. n
  BY <1>1 DEF NewTask, TypeOK
<1>6. \A j \in Ids : task'[j] # 0 => born'[task'[j]].id = j
  <2>1. SUFFICES ASSUME NEW j \in Ids, task'[j] # 0 PROVE born'[task'[j]].id = j
    OBVIOUS
  <2>2. CASE j = i
    BY <1>3, <1>4, <2>2
  <2>3. CASE j # i
    <3>1. task'[j] = task[j] /\ task[j] \in 1 .. n
      BY <1>4, <2>1, <2>3
    <3> QED
      BY <1>3, <2>1, <3>1 DEF KernelOK
  <2> QED
    BY <2>2, <2>3
<1>7. \A b \in live' : task'[born'[b].id] = b
  <2>1. SUFFICES ASSUME NEW b \in live' PROVE task'[born'[b].id] = b
    OBVIOUS
  <2>2. CASE b = n + 1
    BY <1>3, <1>4, <2>2
  <2>3. CASE b \in live
    <3>1. born'[b] = born[b] /\ task[born[b].id] = b /\ b # 0 /\ born[b].id \in Ids
      <4>1. b \in 1 .. n /\ b \in 1 .. Len(born) /\ b # 0
        BY <1>1, <1>5, <2>3
      <4>2. born[b].id \in Ids
        BY <4>1, TaskFacts
      <4> QED
        BY <1>3, <2>3, <4>1, <4>2 DEF KernelOK
    <3> QED
      BY <1>4, <3>1
  <2> QED
    BY <1>5, <2>2, <2>3
<1>8. KernelOK'
  BY <1>2, <1>3, <1>6, <1>7 DEF KernelOK
<1>9. pc # "exit" /\ UNCHANGED progVars
  BY DEF NewTask, Busy
<1>10. \A j \in Ids : task'[j] \in 0 .. n => task'[j] \in {0, task[j]}
  BY <1>4
<1>11. \A b \in 1 .. n : b \in live' => b \in live
  BY <1>5
<1>12. task' \in [Ids -> 0 .. Len(born')] /\ live' \subseteq 1 .. Len(born') /\ Len(born) <= Len(born')
  <2>1. Len(born') = n + 1
    BY <1>3
  <2>2. live' \subseteq 1 .. n + 1
    BY <1>5
  <2>3. n <= n + 1
    OBVIOUS
  <2> QED
    BY <1>1, <1>4, <2>1, <2>2, <2>3
<1> QED
  BY <1>1, <1>3, <1>8, <1>9, <1>10, <1>11, <1>12 DEF KernelFrame

\* Tasks that end: the table loses entries, and a task that is alive keeps its.
LEMMA EndFrame ==
    ASSUME TypeOK, KernelOK, pc # "exit", UNCHANGED <<born, progVars>>,
           live' \subseteq live, task' \in [Ids -> 0 .. Len(born)],
           \A i \in Ids : task'[i] \in {0, task[i]},
           \A b \in live' : task'[born[b].id] = task[born[b].id]
    PROVE  KernelFrame
<1>1. PICK n \in Nat : n = Len(born)
  BY LenProperties DEF TypeOK
<1>2. \A i \in Ids : task'[i] # 0 => born'[task'[i]].id = i
  BY DEF KernelOK
<1>3. \A b \in live' : task'[born'[b].id] = b
  BY DEF KernelOK
<1>4. KernelOK'
  BY <1>2, <1>3 DEF KernelOK
<1> QED
  BY <1>1, <1>4 DEF KernelFrame, TypeOK

\* exit_group().
LEMMA ExitFrame ==
    ASSUME TypeOK, KernelOK, NEW b \in 1 .. Len(born), Exit(b)
    PROVE  KernelFrame
<1>1. PICK n \in Nat : n = Len(born)
  BY LenProperties DEF TypeOK
<1>2. /\ pc # "exit" /\ UNCHANGED <<born, progVars>> /\ live' \subseteq live
      /\ live' = live \ Group(b)
      /\ task' = [i \in Ids |-> IF task[i] \in Group(b) \ {b} THEN 0 ELSE task[i]]
  BY DEF Exit, Busy
<1>3. task' \in [Ids -> 0 .. Len(born)]
  BY <1>1, <1>2 DEF TypeOK
<1>4. \A i \in Ids : task'[i] \in {0, task[i]}
  BY <1>2
<1>5. \A c \in live' : task'[born[c].id] = task[born[c].id]
  <2>1. SUFFICES ASSUME NEW c \in live' PROVE task'[born[c].id] = task[born[c].id]
    OBVIOUS
  <2>2. c \in live /\ c \notin Group(b) /\ c \in 1 .. Len(born)
    BY <1>2 DEF TypeOK
  <2>3. born[c].id \in Ids /\ task[born[c].id] = c
    BY <2>2, TaskFacts DEF KernelOK
  <2> QED
    BY <1>2, <2>2, <2>3
<1> QED
  BY <1>2, <1>3, <1>4, <1>5, EndFrame

\* The end of one thread.
LEMMA ExitThreadFrame ==
    ASSUME TypeOK, KernelOK, NEW b \in 1 .. Len(born), ExitThread(b)
    PROVE  KernelFrame
<1>1. PICK n \in Nat : n = Len(born)
  BY LenProperties DEF TypeOK
<1>2. /\ pc # "exit" /\ UNCHANGED <<born, progVars>> /\ live' \subseteq live
      /\ live' = live \ {b} /\ b \in live
      /\ task' = IF Leader(b) THEN task ELSE [task EXCEPT ![born[b].id] = 0]
  BY DEF ExitThread, Busy
<1>3. task' \in [Ids -> 0 .. Len(born)]
  <2>1. task \in [Ids -> 0 .. n] /\ 0 \in 0 .. n
    BY <1>1 DEF TypeOK
  <2> QED
    BY <1>1, <1>2, <2>1
<1>4. \A i \in Ids : task'[i] = task[i] \/ (i = born[b].id /\ task'[i] = 0)
  BY <1>2 DEF TypeOK
<1>5. \A c \in live' : task'[born[c].id] = task[born[c].id]
  <2>1. SUFFICES ASSUME NEW c \in live' PROVE task'[born[c].id] = task[born[c].id]
    OBVIOUS
  <2>2. c \in live /\ c # b /\ c \in 1 .. Len(born)
    BY <1>2 DEF TypeOK
  <2>3. born[c].id \in Ids /\ task[born[c].id] = c /\ task[born[b].id] = b
    BY <1>2, <2>2, TaskFacts DEF KernelOK
  <2> QED
    BY <1>4, <2>2, <2>3
<1> QED
  BY <1>2, <1>3, <1>4, <1>5, EndFrame

\* wait() for a zombie.
LEMMA ReapFrame ==
    ASSUME TypeOK, KernelOK, NEW b \in 1 .. Len(born), Reap(b)
    PROVE  KernelFrame
<1>1. PICK n \in Nat : n = Len(born)
  BY LenProperties DEF TypeOK
<1>2. /\ pc # "exit" /\ UNCHANGED <<born, live, progVars>>
      /\ b \notin live /\ task[born[b].id] = b
      /\ task' = [task EXCEPT ![born[b].id] = 0]
  BY DEF Reap, Busy, InTable
<1>3. task' \in [Ids -> 0 .. Len(born)]
  <2>1. task \in [Ids -> 0 .. n] /\ 0 \in 0 .. n
    BY <1>1 DEF TypeOK
  <2> QED
    BY <1>1, <1>2, <2>1
<1>4. \A i \in Ids : task'[i] = task[i] \/ (i = born[b].id /\ task'[i] = 0)
  BY <1>2 DEF TypeOK
<1>5. \A c \in live' : task'[born[c].id] = task[born[c].id]
  <2>1. SUFFICES ASSUME NEW c \in live' PROVE task'[born[c].id] = task[born[c].id]
    OBVIOUS
  <2>2. c \in live /\ c # b /\ c \in 1 .. Len(born)
    BY <1>2 DEF TypeOK
  <2>3. born[c].id \in Ids /\ task[born[c].id] = c
    BY <2>2, TaskFacts DEF KernelOK
  <2> QED
    BY <1>2, <1>4, <2>2, <2>3
<1> QED
  BY <1>2, <1>3, <1>4, <1>5, EndFrame

\* Every step of the kernel is of this kind.
LEMMA KernelStepFrame ==
    ASSUME TypeOK, KernelOK, KernelStep
    PROVE  KernelFrame
<1>1. PICK n \in Nat : n = Len(born)
  BY LenProperties DEF TypeOK
<1>2. ASSUME NEW i \in Ids, Fork(i) PROVE KernelFrame
  <2>1. Len(born) + 1 \in 1 .. Len(born) + 1
    BY <1>1
  <2> QED
    BY <1>2, <2>1, NewTaskFrame DEF Fork
<1>3. ASSUME NEW b \in 1 .. Len(born), NEW i \in Ids, CloneThread(i, b) PROVE KernelFrame
  <2>1. b \in 1 .. Len(born) + 1
    BY <1>1
  <2> QED
    BY <1>3, <2>1, NewTaskFrame DEF CloneThread
<1> QED
  BY <1>2, <1>3, ExitFrame, ExitThreadFrame, ReapFrame DEF KernelStep

\* What a kernel step does to what the invariant says: a PID that stays after
\* the step stayed before it.
LEMMA FrameFacts ==
    ASSUME TypeOK, KernelOK, KernelFrame
    PROVE  /\ \A i \in Ids : Survives(i)' => Survives(i) /\ task'[i] = task[i] /\ task[i] \in 1 .. Len(born)
           /\ \A b \in 1 .. Len(born) : InTable(b)' => InTable(b)
           /\ \A b \in 1 .. Len(born) : Leader(b)' <=> Leader(b)
           /\ \A b \in 1 .. Len(born) : Mem(b)' > 0 => Mem(b)' = Mem(b)
           /\ \A b \in 1 .. Len(born), f \in Files : Permitted(b, f)' <=> Permitted(b, f)
           /\ cmd.arg \in Ids => \A i \in Ids :
                 Stays(i)' => Stays(i) /\ task'[i] = task[i] /\ task[i] \in 1 .. Len(born)
           /\ cmd.arg \in Ids => \A i \in Ids : Owed(i)' => Owed(i)
<1>1. PICK n \in Nat : n = Len(born)
  BY LenProperties DEF TypeOK
<1>2. /\ UNCHANGED progVars
      /\ \A b \in 1 .. n : born'[b] = born[b]
      /\ \A i \in Ids : task'[i] \in 0 .. n => task'[i] \in {0, task[i]}
      /\ \A b \in 1 .. n : b \in live' => b \in live
  BY <1>1 DEF KernelFrame
<1>3. cmd' = cmd /\ atStart' = atStart
  BY <1>2 DEF progVars
<1>4. \A i \in Ids : atStart[i] \in 0 .. n
  BY <1>1 DEF TypeOK
<1>5. \A i \in Ids : Survives(i)' => Survives(i) /\ task'[i] = task[i] /\ task[i] \in 1 .. n
  BY <1>2, <1>3, <1>4 DEF Survives
<1>6. \A b \in 1 .. n : born[b].id \in Ids
  BY <1>1, TaskFacts
<1>7. \A b \in 1 .. n : InTable(b)' => InTable(b)
  BY <1>2, <1>6 DEF InTable
<1>8. \A b \in 1 .. n : Leader(b)' <=> Leader(b)
  BY <1>2 DEF Leader
<1>9. \A b \in 1 .. n : Mem(b)' > 0 => Mem(b)' = Mem(b)
  <2>1. \A b \in 1 .. n : b \in live' => Mem(b)' = Mem(b)
    BY <1>2 DEF Mem
  <2>2. \A b \in 1 .. n : b \notin live' => Mem(b)' = 0
    BY DEF Mem
  <2> QED
    BY <2>1, <2>2
<1>10. ASSUME NEW a \in Ids, NEW i \in Ids, Survives(i)', Survives(a)', i \in ThreadsOf(a)'
       PROVE  i \in ThreadsOf(a)
  <2>1. task'[a] = task[a] /\ task'[i] = task[i] /\ task[i] \in 1 .. n /\ task[a] \in 1 .. n
    BY <1>5, <1>10
  <2>2. task'[i] \in Group(task[a])'
    BY <1>10, <2>1 DEF ThreadsOf
  <2>3. InTable(task[i])' /\ born'[task[i]].group = born'[task[a]].group
    BY <2>1, <2>2 DEF Group
  <2>4. InTable(task[i]) /\ born[task[i]].group = born[task[a]].group
    BY <1>2, <1>7, <2>1, <2>3
  <2>5. task[i] \in Group(task[a])
    BY <1>1, <2>1, <2>4 DEF Group
  <2> QED
    BY <2>1, <2>5 DEF ThreadsOf
<1>13. \A b \in 1 .. n, f \in Files : Permitted(b, f)' <=> Permitted(b, f)
  BY <1>2 DEF Permitted
<1>11. ASSUME cmd.arg \in Ids, NEW i \in Ids, Stays(i)'
       PROVE  Stays(i) /\ task'[i] = task[i] /\ task[i] \in 1 .. n
  <2>1. Survives(i)'
    BY <1>11 DEF Stays
  <2>2. Survives(i) /\ task'[i] = task[i] /\ task[i] \in 1 .. n
    BY <1>5, <2>1
  <2>3. ASSUME cmd.name = "threads" PROVE Survives(cmd.arg) /\ i \in ThreadsOf(cmd.arg)
    <3>1. PICK a \in Ids : a = cmd.arg
      BY <1>11
    <3>2. Survives(a)' /\ i \in ThreadsOf(a)'
      BY <1>3, <1>11, <2>3, <3>1 DEF Stays
    <3>3. Survives(a)
      BY <1>5, <3>2
    <3>4. i \in ThreadsOf(a)
      BY <1>10, <2>1, <3>2
    <3> QED
      BY <3>1, <3>3, <3>4
  <2>4. Permitted(task[i], "stat")
    <3>1. PICK b \in 1 .. n : b = task[i]
      BY <2>2
    <3>2. Permitted(b, "stat")'
      BY <1>11, <2>2, <3>1 DEF Stays
    <3>3. Permitted(b, "stat")
      BY <1>13, <3>2 DEF Files
    <3> QED
      BY <3>1, <3>3
  <2> QED
    BY <2>2, <2>3, <2>4 DEF Stays
<1>12. ASSUME cmd.arg \in Ids, NEW i \in Ids, Owed(i)' PROVE Owed(i)
  BY <1>3, <1>8, <1>11, <1>12 DEF Owed
<1> QED
  BY <1>1, <1>5, <1>7, <1>8, <1>9, <1>11, <1>12, <1>13

\* A step of the kernel.
LEMMA KernelStepInv == Inv /\ KernelStep => Inv'
<1> SUFFICES ASSUME Inv, KernelStep PROVE Inv'
  OBVIOUS
<1>0. TypeOK /\ KernelOK /\ ShapeOK /\ EntriesOK /\ FdOK /\ RowsOK /\ ListedOK /\ CoverOK /\ RegionsOK
  BY DEF Inv
<1>1. KernelFrame
  BY <1>0, KernelStepFrame
<1>2. PICK n \in Nat : n = Len(born)
  BY <1>0, LenProperties DEF TypeOK
<1>3. /\ pc # "exit" /\ cmd' = cmd /\ pc' = pc /\ todo' = todo /\ fd' = fd /\ rows' = rows
      /\ regions' = regions /\ cut' = cut /\ exit' = exit /\ atStart' = atStart
  BY <1>1 DEF KernelFrame, progVars
<1>4. /\ born' \in Seq([id : Ids, group : Births])
      /\ task' \in [Ids -> 0 .. Len(born')] /\ live' \subseteq 1 .. Len(born')
      /\ KernelOK' /\ n <= Len(born') /\ Len(born') \in Nat
      /\ \A b \in 1 .. n : born'[b] = born[b]
      /\ \A b \in 1 .. n : b \in live' => b \in live
  BY <1>1, <1>2, LenProperties DEF KernelFrame
<1>5. /\ \A i \in Ids : Survives(i)' => Survives(i) /\ task'[i] = task[i] /\ task[i] \in 1 .. n
      /\ \A b \in 1 .. n : InTable(b)' => InTable(b)
      /\ \A b \in 1 .. n : Leader(b)' <=> Leader(b)
      /\ \A b \in 1 .. n : Mem(b)' > 0 => Mem(b)' = Mem(b)
      /\ \A b \in 1 .. n : Permitted(b, "maps")' <=> Permitted(b, "maps")
      /\ cmd.arg \in Ids => \A i \in Ids : Stays(i)' => Stays(i) /\ task'[i] = task[i] /\ task[i] \in 1 .. n
      /\ cmd.arg \in Ids => \A i \in Ids : Owed(i)' => Owed(i)
  BY <1>0, <1>1, <1>2, FrameFacts DEF Files
<1>6. pc # "start" => cmd.arg \in Ids
  BY <1>0, <1>3 DEF ShapeOK
<1>7. \A x : x \in 0 .. n => x \in 0 .. Len(born')
  BY <1>4
<1>8. TypeOK'
  <2>1. atStart' \in [Ids -> 0 .. Len(born')]
    BY <1>0, <1>2, <1>3, <1>7 DEF TypeOK
  <2>2. fd' \in {Closed} \union 0 .. Len(born') /\ regions' \in 0 .. Len(born')
    BY <1>0, <1>2, <1>3, <1>7 DEF TypeOK
  <2> QED
    BY <1>0, <1>3, <1>4, <2>1, <2>2 DEF TypeOK
<1>9. ShapeOK'
  BY <1>0, <1>3 DEF ShapeOK, cur, Files
<1>10. EntriesOK'
  BY <1>0, <1>3 DEF EntriesOK
<1>11. FdOK'
  <2>1. ASSUME fd # Closed PROVE pc \in Files /\ pc # "start" /\ todo # <<>> /\ cur \in Ids
    BY <1>0, <2>1 DEF ShapeOK, Files, cur, TypeOK
  <2>2. ASSUME fd # Closed, fd # 0 PROVE born'[fd].id = cur
    <3>1. fd \in 1 .. n
      BY <1>0, <1>2, <2>2 DEF TypeOK
    <3>2. born'[fd] = born[fd]
      BY <1>4, <3>1
    <3> QED
      BY <1>0, <2>2, <3>2 DEF FdOK
  <2>3. ASSUME fd # Closed, Stays(cur)', MapsToo(cur)' PROVE fd = task'[cur]
    <3>1. PICK i \in Ids : i = cur
      BY <2>1, <2>3
    <3>2. Stays(i)'
      BY <1>3, <2>3, <3>1 DEF cur
    <3>3. Stays(i) /\ task'[i] = task[i] /\ task[i] \in 1 .. n
      BY <1>5, <1>6, <2>1, <2>3, <3>2
    <3>4. PICK b \in 1 .. n : b = task[i]
      BY <3>3
    <3>5. pc = "maps" => Permitted(b, "maps")'
      BY <1>3, <2>3, <3>1, <3>3, <3>4 DEF MapsToo, cur
    <3>6. MapsToo(i)
      BY <1>5, <3>4, <3>5 DEF MapsToo
    <3> QED
      BY <1>0, <2>3, <3>1, <3>3, <3>6 DEF FdOK
  <2> QED
    BY <1>3, <2>2, <2>3 DEF FdOK, cur
<1>12. RowsOK'
  <2>1. SUFFICES ASSUME NEW k \in 1 .. Len(rows)
                 PROVE  /\ Genuine(rows[k])' /\ RowStays(rows[k])'
                        /\ (pc = "status" /\ k = Len(rows)) \/ StatusStays(rows[k])'
    BY <1>3 DEF RowsOK
  <2>2. PICK r : r = rows[k]
    OBVIOUS
  <2>3. r \in Row
    BY <1>0, <2>2, ElementOfSeq DEF TypeOK
  <2>4. r.pid \in Ids
    BY <2>3 DEF Row
  <2>5. /\ Genuine(r) /\ RowStays(r)
        /\ (pc = "status" /\ k = Len(rows)) \/ StatusStays(r)
    BY <1>0, <2>2 DEF RowsOK
  <2>6. cmd.arg \in Ids
    <3>1. rows # <<>>
      BY <1>0, <1>2, <2>1, LenProperties DEF TypeOK
    <3> QED
      BY <1>0, <1>6, <3>1 DEF ShapeOK
  <2>7. Stays(r.pid)' => Stays(r.pid) /\ task'[r.pid] = task[r.pid] /\ task[r.pid] \in 1 .. n
    BY <1>5, <2>4, <2>6
  <2>8. Genuine(r)'
    <3>1. r.start \in 1 .. n
      BY <1>2, <2>5 DEF Genuine
    <3>2. r.start \in 1 .. Len(born')
      BY <1>4, <3>1
    <3>3. born'[r.start] = born[r.start]
      BY <1>4, <3>1
    <3>4. r.state = "Z" => r.start \notin live'
      BY <1>4, <2>5, <3>1 DEF Genuine
    <3>5. cmd.name = "list" /\ ~Leader(r.start)' => atStart[r.pid] # r.start
      BY <1>5, <2>5, <3>1 DEF Genuine
    <3>6. {r.status, r.cmdline} \subseteq {0, r.start} \/ ~InTable(r.start)'
      BY <1>5, <2>5, <3>1 DEF Genuine
    <3> QED
      BY <1>3, <2>5, <3>2, <3>3, <3>4, <3>5, <3>6 DEF Genuine
  <2>9. RowStays(r)'
    <3>1. SUFFICES ASSUME Stays(r.pid)'
                   PROVE  /\ r.start = task'[r.pid]
                          /\ Mem(task[r.pid])' > 0 => r.rss = Mem(task[r.pid])'
      BY DEF RowStays
    <3>2. Stays(r.pid) /\ task'[r.pid] = task[r.pid] /\ task[r.pid] \in 1 .. n
      BY <2>7, <3>1
    <3>3. PICK b \in 1 .. n : b = task[r.pid]
      BY <3>2
    <3>4. Mem(b)' > 0 => Mem(b)' = Mem(b)
      BY <1>5
    <3>5. r.start = b /\ (Mem(b) > 0 => r.rss = Mem(b))
      BY <2>5, <3>2, <3>3 DEF RowStays
    <3>6. Mem(task[r.pid])' = Mem(b)'
      BY <3>2, <3>3
    <3> QED
      BY <3>2, <3>3, <3>4, <3>5, <3>6
  <2>10. StatusStays(r) => StatusStays(r)'
    <3>1. SUFFICES ASSUME StatusStays(r), Stays(r.pid)'
                   PROVE  /\ r.status = task'[r.pid]
                          /\ Mem(task[r.pid])' > 0 => r.mem
      BY DEF StatusStays
    <3>2. Stays(r.pid) /\ task'[r.pid] = task[r.pid] /\ task[r.pid] \in 1 .. n
      BY <2>7, <3>1
    <3>3. PICK b \in 1 .. n : b = task[r.pid]
      BY <3>2
    <3>4. Mem(b)' > 0 => Mem(b)' = Mem(b)
      BY <1>5
    <3>5. r.status = b /\ (Mem(b) > 0 => r.mem)
      BY <3>1, <3>2, <3>3 DEF StatusStays
    <3>6. Mem(task[r.pid])' = Mem(b)'
      BY <3>2, <3>3
    <3> QED
      BY <3>2, <3>3, <3>4, <3>5, <3>6
  <2>11. Genuine(rows[k])' /\ RowStays(rows[k])'
    BY <1>3, <2>2, <2>8, <2>9
  <2>12. (pc = "status" /\ k = Len(rows)) \/ StatusStays(rows[k])'
    BY <1>3, <2>2, <2>5, <2>10
  <2> QED
    BY <2>11, <2>12
<1>13. ListedOK'
  <2>1. SUFFICES ASSUME cmd.name = "list", NEW j \in 1 .. Len(todo), Survives(todo[j])'
                 PROVE  Leader(task[todo[j]])'
    BY <1>3 DEF ListedOK
  <2>2. PICK i \in Ids : i = todo[j]
    BY <1>0, ElementOfSeq DEF TypeOK
  <2>3. Survives(i)'
    BY <1>3, <2>1, <2>2
  <2>4. Survives(i) /\ task'[i] = task[i] /\ task[i] \in 1 .. n
    BY <1>5, <2>3
  <2>5. PICK b \in 1 .. n : b = task[i]
    BY <2>4
  <2>6. Leader(b)
    BY <1>0, <2>1, <2>2, <2>4, <2>5 DEF ListedOK
  <2>7. Leader(b)'
    BY <1>5, <2>6
  <2> QED
    BY <1>3, <2>2, <2>4, <2>5, <2>7
<1>14. CoverOK'
  BY <1>0, <1>3, <1>5, <1>6 DEF CoverOK
<1>15. RegionsOK'
  <2>1. SUFFICES ASSUME pc = "report", cmd.name \in {"show", "maps"}, Stays(cmd.arg)',
                        Permitted(task[cmd.arg], "maps")', Mem(task[cmd.arg])' > 0
                 PROVE  regions = task'[cmd.arg]
    BY <1>3 DEF RegionsOK
  <2>2. PICK i \in Ids : i = cmd.arg
    BY <1>6, <2>1
  <2>3. Stays(i)' /\ Mem(task[i])' > 0
    BY <1>3, <2>1, <2>2
  <2>4. Stays(i) /\ task'[i] = task[i] /\ task[i] \in 1 .. n
    BY <1>5, <2>2, <2>3
  <2>5. PICK b \in 1 .. n : b = task[i]
    BY <2>4
  <2>6. Mem(b)' > 0
    BY <2>3, <2>4, <2>5
  <2>7. Mem(b) > 0
    BY <1>5, <2>6
  <2>8. Permitted(b, "maps")'
    BY <1>3, <2>1, <2>2, <2>4, <2>5
  <2>9. Permitted(b, "maps")
    BY <1>5, <2>8
  <2> QED
    BY <1>0, <2>1, <2>2, <2>4, <2>5, <2>7, <2>9 DEF RegionsOK
<1>16. SurvivorsReported'
  BY <1>3 DEF SurvivorsReported
<1> QED
  BY <1>4, <1>8, <1>9, <1>10, <1>11, <1>12, <1>13, <1>14, <1>15, <1>16 DEF Inv

-----------------------------------------------------------------------------
(* procmon's steps *)

\* What depends on the kernel, the command and the history only.
LEMMA SameKernel ==
    ASSUME UNCHANGED <<kernelVars, cmd, atStart>>
    PROVE  /\ born' = born /\ task' = task /\ live' = live /\ cmd' = cmd /\ atStart' = atStart
           /\ \A b : Mem(b)' = Mem(b)
           /\ \A b, f : Permitted(b, f)' <=> Permitted(b, f)
           /\ \A b : Leader(b)' <=> Leader(b)
           /\ \A i : Survives(i)' <=> Survives(i)
           /\ \A i : Stays(i)' <=> Stays(i)
           /\ \A i : Owed(i)' <=> Owed(i)
           /\ \A r : Genuine(r)' <=> Genuine(r)
           /\ \A r : RowStays(r)' <=> RowStays(r)
           /\ \A r : StatusStays(r)' <=> StatusStays(r)
           /\ KernelOK => KernelOK'
<1>1. born' = born /\ task' = task /\ live' = live /\ cmd' = cmd /\ atStart' = atStart
  BY DEF kernelVars
<1>2. \A b : Mem(b)' = Mem(b)
  BY <1>1 DEF Mem
<1>3. \A b : (Leader(b)' <=> Leader(b)) /\ (InTable(b)' <=> InTable(b))
  BY <1>1 DEF Leader, InTable
<1>4. \A i : Survives(i)' <=> Survives(i)
  BY <1>1 DEF Survives
<1>5. \A i : ThreadsOf(i)' = ThreadsOf(i)
  <2>1. \A b : Group(b)' = Group(b)
    BY <1>1, <1>3 DEF Group
  <2> QED
    BY <1>1, <2>1 DEF ThreadsOf
<1>12. \A b, f : Permitted(b, f)' <=> Permitted(b, f)
  BY <1>1 DEF Permitted
<1>6. \A i : Stays(i)' <=> Stays(i)
  BY <1>1, <1>4, <1>5, <1>12 DEF Stays
<1>7. \A i : Owed(i)' <=> Owed(i)
  BY <1>1, <1>3, <1>6 DEF Owed
<1>8. \A r : Genuine(r)' <=> Genuine(r)
  BY <1>1, <1>3 DEF Genuine
<1>9. \A r : RowStays(r)' <=> RowStays(r)
  BY <1>1, <1>2, <1>6 DEF RowStays
<1>10. \A r : StatusStays(r)' <=> StatusStays(r)
  BY <1>1, <1>2, <1>6 DEF StatusStays
<1>11. KernelOK => KernelOK'
  BY <1>1 DEF KernelOK
<1> QED
  BY <1>1, <1>2, <1>3, <1>4, <1>6, <1>7, <1>8, <1>9, <1>10, <1>11, <1>12

\* The conjuncts of the invariant that a step which keeps the records keeps.
LEMMA SameRows ==
    ASSUME RowsOK, UNCHANGED <<kernelVars, cmd, atStart, rows>>, pc # "status"
    PROVE  RowsOK'
<1>1. rows' = rows
  OBVIOUS
<1>2. /\ \A r : Genuine(r)' <=> Genuine(r)
      /\ \A r : RowStays(r)' <=> RowStays(r)
      /\ \A r : StatusStays(r)' <=> StatusStays(r)
  BY SameKernel
<1>3. SUFFICES ASSUME NEW k \in 1 .. Len(rows)
               PROVE  Genuine(rows[k])' /\ RowStays(rows[k])' /\ StatusStays(rows[k])'
  BY <1>1 DEF RowsOK
<1>4. PICK r : r = rows[k]
  OBVIOUS
<1>5. Genuine(r) /\ RowStays(r) /\ StatusStays(r)
  BY <1>4 DEF RowsOK
<1>6. Genuine(r)' /\ RowStays(r)' /\ StatusStays(r)'
  BY <1>2, <1>5
<1> QED
  BY <1>1, <1>4, <1>6

\* The command line.
LEMMA StartInv == Inv /\ (Start \/ StartRefused) => Inv'
<1> SUFFICES ASSUME Inv, Start \/ StartRefused PROVE Inv'
  OBVIOUS
<1>0. TypeOK /\ KernelOK /\ ShapeOK
  BY DEF Inv
<1>1. pc = "start" /\ rows = <<>> /\ fd = Closed /\ exit = Running
  BY <1>0 DEF Start, StartRefused, ShapeOK, Files
<1>2. /\ born' = born /\ task' = task /\ live' = live /\ fd' = fd /\ rows' = rows
      /\ regions' = regions /\ cut' = cut /\ atStart' = task
  BY DEF Start, StartRefused, kernelVars
<1>3. KernelOK'
  BY <1>0, <1>2 DEF KernelOK
<1>4. FdOK'
  BY <1>1, <1>2 DEF FdOK
<1>5. RowsOK'
  BY <1>1, <1>2 DEF RowsOK
<1>6. CASE Start
  <2>1. /\ cmd' \in Commands /\ cmd'.arg \in 0 .. IntMax
        /\ pc' = CASE cmd'.name = "show" -> "stat"
                   [] cmd'.name = "maps" -> "maps"
                   [] OTHER -> "readdir"
        /\ todo' = (IF cmd'.name \in {"show", "maps"} THEN <<cmd'.arg>> ELSE <<>>)
        /\ exit' = exit
    BY <1>6 DEF Start
  <2>2. cmd'.arg \in Ids /\ cmd'.name \in {"list", "show", "threads", "maps"}
    <3>1. cmd'.arg \in Ids \union {NotANumber, IntMax + 1} /\ cmd'.name \in {"list", "show", "threads", "maps"}
      BY <2>1, ConstantFacts DEF Commands
    <3> QED
      BY <2>1, <3>1, ConstantFacts DEF NotANumber
  <2>3. \/ cmd'.name = "show" /\ pc' = "stat" /\ todo' = <<cmd'.arg>>
        \/ cmd'.name = "maps" /\ pc' = "maps" /\ todo' = <<cmd'.arg>>
        \/ cmd'.name \in {"list", "threads"} /\ pc' = "readdir" /\ todo' = <<>>
    BY <2>1, <2>2
  <2>4. todo' \in Seq(Ids) /\ Len(todo') \in {0, 1}
    <3>1. <<cmd'.arg>> \in Seq(Ids) /\ Len(<<cmd'.arg>>) = 1
      BY <2>2
    <3>2. <<>> \in Seq(Ids) /\ Len(<<>>) = 0
      OBVIOUS
    <3> QED
      BY <2>3, <3>1, <3>2
  <2>5. TypeOK'
    BY <1>0, <1>1, <1>2, <2>1, <2>3, <2>4 DEF TypeOK
  <2>6. ShapeOK'
    BY <1>1, <1>2, <2>1, <2>2, <2>3 DEF ShapeOK, Files, Running
  <2>7. EntriesOK'
    BY <1>1, <1>2, <2>4 DEF EntriesOK
  <2>8. ListedOK'
    BY <2>3 DEF ListedOK
  <2>9. CoverOK' /\ RegionsOK' /\ SurvivorsReported'
    BY <2>3 DEF CoverOK, RegionsOK, SurvivorsReported
  <2> QED
    BY <1>3, <1>4, <1>5, <2>5, <2>6, <2>7, <2>8, <2>9 DEF Inv
<1>7. CASE StartRefused
  <2>1. /\ cmd' \in Commands /\ pc' = "exit" /\ todo' = todo
        /\ exit' \in {2, Abort}
    BY <1>7 DEF StartRefused, Return
  <2>2. TypeOK'
    BY <1>0, <1>2, <2>1 DEF TypeOK
  <2>3. ShapeOK'
    BY <1>1, <1>2, <2>1 DEF ShapeOK, Files, Running, Abort, Closed
  <2>4. todo' = <<>>
    BY <1>0, <1>1, <2>1 DEF ShapeOK
  <2>5. EntriesOK' /\ ListedOK'
    BY <1>1, <1>2, <2>4 DEF EntriesOK, ListedOK
  <2>6. CoverOK' /\ RegionsOK' /\ SurvivorsReported'
    <3>1. exit' \notin {0, 1}
      BY <2>1 DEF Abort
    <3>2. SurvivorsReported'
      BY <3>1 DEF SurvivorsReported
    <3> QED
      BY <2>1, <3>2 DEF CoverOK, RegionsOK
  <2> QED
    BY <1>3, <1>4, <1>5, <2>2, <2>3, <2>5, <2>6 DEF Inv
<1> QED
  BY <1>6, <1>7

\* list_pids: one more entry of /proc.
LEMMA ReadDirInv == Inv /\ ReadDir => Inv'
<1> SUFFICES ASSUME Inv, ReadDir PROVE Inv'
  OBVIOUS
<1>0. TypeOK /\ KernelOK /\ ShapeOK /\ EntriesOK /\ FdOK /\ RowsOK /\ ListedOK /\ CoverOK
  BY DEF Inv
<1>1. /\ pc = "readdir" /\ cmd.name = "list" /\ Unlisted # {}
      /\ UNCHANGED <<kernelVars, cmd, pc, fd, rows, regions, cut, exit, atStart>>
  BY DEF ReadDir
<1>2. PICK m : m = Min(Unlisted)
  OBVIOUS
<1>3. todo' = Append(todo, m)
  BY <1>2 DEF ReadDir
<1>4. PICK n \in Nat : n = Len(todo)
  BY <1>0, LenProperties DEF TypeOK
<1>5. m \in Unlisted /\ \A y \in Unlisted : m <= y
  <2>1. Unlisted \subseteq Nat
    BY ConstantFacts DEF Unlisted, Processes
  <2> QED
    BY <1>1, <1>2, <2>1, MinFacts
<1>6. m \in Ids /\ m \in Nat /\ task[m] # 0 /\ Leader(task[m]) /\ (n # 0 => todo[n] < m)
  <2>1. m \in Ids /\ task[m] # 0 /\ Leader(task[m]) /\ (todo = <<>> \/ m > Last(todo))
    BY <1>5 DEF Unlisted, Processes
  <2>2. m \in Nat
    BY <2>1, ConstantFacts
  <2>3. n # 0 => todo # <<>> /\ Last(todo) = todo[n] /\ todo[n] \in Ids
    BY <1>0, <1>4, ElementOfSeq DEF Last, TypeOK
  <2>4. n # 0 => todo[n] \in Nat
    BY <2>3, ConstantFacts
  <2> QED
    BY <2>1, <2>2, <2>3, <2>4
<1>7. /\ todo' \in Seq(Ids) /\ Len(todo') = n + 1 /\ todo'[n + 1] = m
      /\ \A j \in 1 .. n : todo'[j] = todo[j]
  BY <1>0, <1>3, <1>4, <1>6 DEF TypeOK
<1>8. \A j \in 1 .. n : todo[j] \in Ids /\ todo[j] \in Nat
  BY <1>0, <1>4, ElementOfSeq, ConstantFacts DEF TypeOK
<1>9. rows = <<>> /\ fd = Closed /\ exit = Running
  BY <1>0, <1>1 DEF ShapeOK, Files
<1>10. /\ born' = born /\ task' = task /\ live' = live /\ cmd' = cmd /\ atStart' = atStart
       /\ \A b : Leader(b)' <=> Leader(b)
       /\ \A i : Survives(i)' <=> Survives(i)
       /\ \A i : Owed(i)' <=> Owed(i)
       /\ KernelOK'
  BY <1>0, <1>1, SameKernel
<1>11. TypeOK'
  BY <1>0, <1>1, <1>7, <1>10 DEF TypeOK
<1>12. ShapeOK'
  BY <1>0, <1>1 DEF ShapeOK, Files
<1>13. EntriesOK'
  <2>1. \A j, k \in 1 .. n + 1 : j < k => todo'[j] < todo'[k]
    <3>1. SUFFICES ASSUME NEW j \in 1 .. n + 1, NEW k \in 1 .. n + 1, j < k PROVE todo'[j] < todo'[k]
      OBVIOUS
    <3>2. CASE k \in 1 .. n
      BY <1>0, <1>1, <1>4, <1>7, <3>1, <3>2 DEF EntriesOK
    <3>3. CASE k = n + 1
      <4>1. j \in 1 .. n /\ n # 0 /\ n \in 1 .. n
        BY <3>1, <3>3
      <4>2. todo[j] <= todo[n]
        <5>1. CASE j = n
          BY <1>8, <4>1, <5>1
        <5>2. CASE j < n
          BY <1>0, <1>1, <1>4, <1>8, <4>1, <5>2 DEF EntriesOK
        <5> QED
          BY <4>1, <5>1, <5>2
      <4> QED
        BY <1>6, <1>7, <1>8, <3>3, <4>1, <4>2
    <3> QED
      BY <3>2, <3>3
  <2>2. \A j \in 1 .. n + 1 : todo'[j] \in Nat
    BY <1>6, <1>7, <1>8
  <2>3. \A j, k \in 1 .. n + 1 : todo'[j] = todo'[k] => j = k
    <3>1. \A j, k \in 1 .. n + 1 : j = k \/ j < k \/ k < j
      OBVIOUS
    <3>2. \A x, y \in Nat : x < y => x # y
      OBVIOUS
    <3> QED
      BY <2>1, <2>2, <3>1, <3>2
  <2> QED
    BY <1>1, <1>7, <1>9, <2>1, <2>3 DEF EntriesOK
<1>14. FdOK' /\ RowsOK'
  BY <1>1, <1>9 DEF FdOK, RowsOK
<1>15. ListedOK'
  <2>1. SUFFICES ASSUME NEW j \in 1 .. n + 1, Survives(todo'[j]) PROVE Leader(task[todo'[j]])
    BY <1>7, <1>10 DEF ListedOK
  <2> QED
    BY <1>0, <1>1, <1>4, <1>6, <1>7, <2>1 DEF ListedOK
<1>16. CoverOK'
  <2>1. Last(todo') = m
    BY <1>7 DEF Last
  <2>2. ASSUME NEW i \in Ids, Owed(i), i <= m PROVE \E j \in 1 .. n + 1 : todo'[j] = i
    <3>1. i \in Nat
      BY ConstantFacts
    <3>2. i \in Processes
      BY <1>1, <2>2 DEF Owed, Stays, Survives, Processes
    <3>3. CASE i = m
      BY <1>7, <3>3
    <3>4. CASE i # m
      <4>1. i \notin Unlisted
        BY <1>5, <1>6, <2>2, <3>1, <3>4
      <4>2. todo # <<>> /\ ~(i > Last(todo))
        BY <3>2, <4>1 DEF Unlisted
      <4>3. Last(todo) \in Nat
        BY <1>0, <1>4, <1>8, <4>2 DEF Last, TypeOK
      <4>4. i <= Last(todo)
        BY <3>1, <4>2, <4>3
      <4>5. \E j \in 1 .. Len(todo) : todo[j] = i
        BY <1>0, <1>1, <2>2, <4>2, <4>4 DEF CoverOK
      <4> QED
        BY <1>4, <1>7, <4>5
    <3> QED
      BY <3>3, <3>4
  <2> QED
    BY <1>1, <1>7, <1>10, <2>1, <2>2 DEF CoverOK
<1>17. RegionsOK' /\ SurvivorsReported'
  BY <1>1 DEF RegionsOK, SurvivorsReported
<1> QED
  BY <1>10, <1>11, <1>12, <1>13, <1>14, <1>15, <1>16, <1>17 DEF Inv

\* list_pids: the end of /proc.
LEMMA ReadDirEndInv == Inv /\ ReadDirEnd => Inv'
<1> SUFFICES ASSUME Inv, ReadDirEnd PROVE Inv'
  OBVIOUS
<1>0. TypeOK /\ KernelOK /\ ShapeOK /\ EntriesOK /\ FdOK /\ RowsOK /\ ListedOK /\ CoverOK
  BY DEF Inv
<1>1. /\ pc = "readdir" /\ cmd.name = "list" /\ Unlisted = {} /\ pc' = "next" /\ todo' = todo
      /\ UNCHANGED <<kernelVars, cmd, fd, rows, regions, cut, exit, atStart>>
  BY DEF ReadDirEnd
<1>2. rows = <<>> /\ fd = Closed /\ exit = Running
  BY <1>0, <1>1 DEF ShapeOK, Files
<1>3. /\ born' = born /\ task' = task /\ live' = live /\ cmd' = cmd /\ atStart' = atStart
      /\ \A b : Leader(b)' <=> Leader(b)
      /\ \A i : Survives(i)' <=> Survives(i)
      /\ \A i : Owed(i)' <=> Owed(i)
      /\ KernelOK'
  BY <1>0, <1>1, SameKernel
<1>4. TypeOK'
  BY <1>0, <1>1, <1>3 DEF TypeOK
<1>5. ShapeOK'
  BY <1>0, <1>1 DEF ShapeOK, Files
<1>6. EntriesOK' /\ FdOK' /\ RowsOK'
  BY <1>0, <1>1, <1>2 DEF EntriesOK, FdOK, RowsOK
<1>7. ListedOK'
  BY <1>0, <1>1, <1>3 DEF ListedOK
<1>8. CoverOK'
  <2>1. ASSUME NEW i \in Ids, Owed(i) PROVE \E j \in 1 .. Len(todo) : todo[j] = i
    <3>1. i \in Processes
      BY <1>1, <2>1 DEF Owed, Stays, Survives, Processes
    <3>2. todo # <<>> /\ ~(i > Last(todo))
      BY <1>1, <3>1 DEF Unlisted
    <3>3. Last(todo) \in Ids
      BY <1>0, <3>2 DEF Last, TypeOK
    <3>4. i <= Last(todo)
      <4>1. i \in Nat /\ Last(todo) \in Nat
        BY <3>3, ConstantFacts
      <4> QED
        BY <3>2, <4>1
    <3> QED
      BY <1>0, <1>1, <2>1, <3>2, <3>4 DEF CoverOK
  <2> QED
    BY <1>1, <1>3, <2>1 DEF CoverOK
<1>9. RegionsOK' /\ SurvivorsReported'
  BY <1>1 DEF RegionsOK, SurvivorsReported
<1> QED
  BY <1>3, <1>4, <1>5, <1>6, <1>7, <1>8, <1>9 DEF Inv

\* read_threads: the entries of /proc/<pid>/task.
LEMMA ReadTaskDirInv == Inv /\ ReadTaskDir => Inv'
<1> SUFFICES ASSUME Inv, ReadTaskDir PROVE Inv'
  OBVIOUS
<1>0. TypeOK /\ KernelOK /\ ShapeOK /\ EntriesOK /\ FdOK /\ RowsOK /\ ListedOK /\ CoverOK
  BY DEF Inv
<1>1. /\ pc = "readdir" /\ cmd.name = "threads" /\ pc' = "next"
      /\ UNCHANGED <<kernelVars, cmd, fd, rows, regions, cut, exit, atStart>>
  BY DEF ReadTaskDir
<1>2. rows = <<>> /\ fd = Closed /\ exit = Running /\ cmd.arg \in Ids
  BY <1>0, <1>1 DEF ShapeOK, Files
<1>3. PICK S : S = TaskDir(cmd.arg)
  OBVIOUS
<1>4. todo' \in SetToSeqs(S)
  BY <1>3, Zenon DEF ReadTaskDir, Orderings
<1>5. S \subseteq Ids /\ IsFiniteSet(S)
  <2>1. S \subseteq Ids
    BY <1>3 DEF TaskDir, ThreadsOf
  <2> QED
    BY <2>1, ConstantFacts, FS_Subset
<1>6. /\ todo' \in Seq(S)
      /\ \A j, k \in 1 .. Len(todo') : todo'[j] = todo'[k] => j = k
      /\ \A x \in S : \E k \in 1 .. Len(todo') : todo'[k] = x
  BY <1>4, <1>5, PermutationFacts
<1>7. todo' \in Seq(Ids)
  BY <1>5, <1>6
<1>8. /\ born' = born /\ task' = task /\ live' = live /\ cmd' = cmd /\ atStart' = atStart
      /\ \A i : Owed(i)' <=> Owed(i)
      /\ KernelOK'
  BY <1>0, <1>1, SameKernel
<1>9. TypeOK'
  BY <1>0, <1>1, <1>7, <1>8 DEF TypeOK
<1>10. ShapeOK'
  BY <1>0, <1>1, <1>2 DEF ShapeOK, Files
<1>11. EntriesOK' /\ FdOK' /\ RowsOK' /\ ListedOK'
  BY <1>1, <1>2, <1>6 DEF EntriesOK, FdOK, RowsOK, ListedOK
<1>12. CoverOK'
  <2>1. ASSUME NEW i \in Ids, Owed(i) PROVE i \in S
    <3>1. /\ i \in ThreadsOf(cmd.arg) /\ Permitted(task[i], "stat")
          /\ task[i] \in Group(task[cmd.arg])
      BY <1>1, <2>1 DEF Owed, Stays, ThreadsOf
    <3>2. Permitted(task[cmd.arg], "stat")
      BY <3>1 DEF Group, Permitted
    <3> QED
      BY <1>3, <3>1, <3>2 DEF TaskDir
  <2> QED
    BY <1>1, <1>6, <1>8, <2>1 DEF CoverOK
<1>13. RegionsOK' /\ SurvivorsReported'
  BY <1>1 DEF RegionsOK, SurvivorsReported
<1> QED
  BY <1>8, <1>9, <1>10, <1>11, <1>12, <1>13 DEF Inv

\* The loops over the entries.
LEMMA NextEntryInv == Inv /\ NextEntry => Inv'
<1> SUFFICES ASSUME Inv, NextEntry PROVE Inv'
  OBVIOUS
<1>0. TypeOK /\ KernelOK /\ ShapeOK /\ EntriesOK /\ FdOK /\ RowsOK /\ ListedOK /\ CoverOK
  BY DEF Inv
<1>1. /\ pc = "next" /\ pc' = (IF todo = <<>> THEN "report" ELSE "stat") /\ todo' = todo /\ rows' = rows
      /\ UNCHANGED <<kernelVars, cmd, fd, rows, regions, cut, exit, atStart>>
  BY DEF NextEntry
<1>2. fd = Closed /\ exit = Running /\ cmd.name \in {"list", "threads"}
  BY <1>0, <1>1 DEF ShapeOK, Files
<1>3. /\ born' = born /\ task' = task /\ live' = live /\ cmd' = cmd /\ atStart' = atStart
      /\ \A b : Leader(b)' <=> Leader(b)
      /\ \A i : Survives(i)' <=> Survives(i)
      /\ \A i : Owed(i)' <=> Owed(i)
      /\ KernelOK'
  BY <1>0, <1>1, SameKernel
<1>4. TypeOK'
  BY <1>0, <1>1, <1>3 DEF TypeOK
<1>5. ShapeOK'
  BY <1>0, <1>1, <1>2 DEF ShapeOK, Files
<1>6. EntriesOK' /\ FdOK'
  BY <1>0, <1>1, <1>2 DEF EntriesOK, FdOK
<1>7. RowsOK'
  BY <1>0, <1>1, SameRows
<1>8. ListedOK'
  BY <1>0, <1>1, <1>3 DEF ListedOK
<1>9. CoverOK'
  BY <1>0, <1>1, <1>3 DEF CoverOK
<1>10. RegionsOK' /\ SurvivorsReported'
  BY <1>1, <1>2 DEF RegionsOK, SurvivorsReported
<1> QED
  BY <1>3, <1>4, <1>5, <1>6, <1>7, <1>8, <1>9, <1>10 DEF Inv

\* The entry whose file is read.
LEMMA CurFacts ==
    ASSUME TypeOK, ShapeOK, pc \in Files
    PROVE  /\ cur \in Ids /\ todo # <<>> /\ cur = todo[1] /\ 1 \in 1 .. Len(todo)
           /\ Tail(todo) \in Seq(Ids) /\ Len(todo) \in Nat /\ Len(Tail(todo)) = Len(todo) - 1
           /\ \A j \in 1 .. Len(todo) - 1 : Tail(todo)[j] = todo[j + 1] /\ j + 1 \in 1 .. Len(todo) /\ j + 1 # 1
           /\ cmd.name \in {"show", "maps"} => cur = cmd.arg
<1>1. todo # <<>> /\ todo \in Seq(Ids)
  BY DEF ShapeOK, TypeOK
<1>2. cmd.name \in {"show", "maps"} => todo = <<cmd.arg>>
  BY DEF ShapeOK
<1>3. PICK n \in Nat : n = Len(todo)
  BY <1>1, LenProperties
<1>4. n # 0 /\ cur = todo[1] /\ cur \in Ids
  BY <1>1, <1>3 DEF cur
<1>5. Tail(todo) \in Seq(Ids) /\ Len(Tail(todo)) = n - 1 /\ \A j \in 1 .. n - 1 : Tail(todo)[j] = todo[j + 1]
  BY <1>1, <1>3
<1>6. 1 \in 1 .. n /\ \A j \in 1 .. n - 1 : j + 1 \in 1 .. n /\ j + 1 # 1
  BY <1>4
<1>7. cmd.name \in {"show", "maps"} => cur = cmd.arg
  BY <1>2 DEF cur
<1> QED
  BY <1>1, <1>3, <1>4, <1>5, <1>6, <1>7

\* What the open file is of, if it has content, and that it has if the PID stays.
LEMMA FdFacts ==
    ASSUME TypeOK, KernelOK, ShapeOK, FdOK, pc \in Files, fd # Closed
    PROVE  /\ Content => fd \in 1 .. Len(born) /\ born[fd].id = cur /\ task[cur] = fd
           /\ Stays(cur) /\ MapsToo(cur) => Content /\ fd = task[cur]
<1>1. PICK n \in Nat : n = Len(born)
  BY LenProperties DEF TypeOK
<1>2. fd \in 0 .. n /\ (fd # 0 => born[fd].id = cur)
      /\ (Stays(cur) /\ MapsToo(cur) => fd = task[cur])
  BY <1>1 DEF FdOK, TypeOK
<1>3. cur \in Ids
  BY CurFacts
<1>4. Content => fd \in 1 .. n /\ task[cur] = fd
  BY <1>2 DEF Content, InTable
<1>5. Stays(cur) => task[cur] # 0
  BY DEF Stays, Survives
<1>6. Stays(cur) /\ MapsToo(cur) => Content
  BY <1>2, <1>5 DEF Content, InTable
<1> QED
  BY <1>1, <1>2, <1>4, <1>6

\* open() of a file of the current entry.
LEMMA OpenFileInv == Inv /\ OpenFile => Inv'
<1> SUFFICES ASSUME Inv, OpenFile PROVE Inv'
  OBVIOUS
<1>0. TypeOK /\ KernelOK /\ ShapeOK /\ EntriesOK /\ FdOK /\ RowsOK /\ ListedOK /\ CoverOK
  BY DEF Inv
<1>1. /\ pc \in Files /\ pc' = pc /\ todo' = todo /\ rows' = rows
      /\ fd' = (IF Lookup(cur) # 0 /\ Permitted(Lookup(cur), pc) THEN Lookup(cur) ELSE 0)
      /\ UNCHANGED <<kernelVars, cmd, rows, regions, cut, exit, atStart>>
  BY DEF OpenFile
<1>2. exit = Running /\ pc # "exit" /\ pc # "report"
  BY <1>0, <1>1 DEF ShapeOK, Files
<1>3. /\ born' = born /\ task' = task /\ live' = live /\ cmd' = cmd /\ atStart' = atStart
      /\ \A b : Leader(b)' <=> Leader(b)
      /\ \A i : Survives(i)' <=> Survives(i)
      /\ \A i : Stays(i)' <=> Stays(i)
      /\ \A i : Owed(i)' <=> Owed(i)
      /\ KernelOK'
  BY <1>0, <1>1, SameKernel
<1>4. PICK i \in Ids : i = cur
  BY <1>0, <1>1, CurFacts
<1>5. PICK n \in Nat : n = Len(born)
  BY <1>0, LenProperties DEF TypeOK
<1>6. /\ fd' \in 0 .. n /\ (fd' # 0 => born[fd'].id = i) /\ (Stays(i) /\ MapsToo(i) => fd' = task[i])
  <2>1. task[i] \in 0 .. n /\ Lookup(i) \in {0, task[i]} /\ (Stays(i) => Lookup(i) = task[i] /\ task[i] # 0)
    BY <1>0, <1>4, <1>5 DEF Lookup, TypeOK, Stays, Survives
  <2>2. fd' \in {0, task[i]}
    BY <1>1, <1>4, <2>1
  <2>3. ASSUME Stays(i), MapsToo(i) PROVE fd' = task[i]
    <3>1. PICK b \in 1 .. n : b = task[i]
      BY <2>1, <2>3
    <3>2. /\ Permitted(b, "stat") => Permitted(b, "status") /\ Permitted(b, "cmdline")
      BY <1>0, <1>5, TaskFacts
    <3>3. Permitted(b, pc)
      BY <1>1, <2>3, <3>1, <3>2 DEF Stays, MapsToo, Files
    <3> QED
      BY <1>1, <1>4, <2>1, <2>3, <3>1, <3>3
  <2> QED
    BY <1>0, <1>5, <2>1, <2>2, <2>3 DEF KernelOK
<1>7. TypeOK'
  BY <1>0, <1>1, <1>3, <1>5, <1>6 DEF TypeOK
<1>8. ShapeOK'
  BY <1>0, <1>1, <1>2 DEF ShapeOK, Files, cur
<1>9. EntriesOK'
  BY <1>0, <1>1 DEF EntriesOK
<1>10. FdOK'
  <2>1. cur' = i
    BY <1>1, <1>4 DEF cur
  <2>2. MapsToo(i)' <=> MapsToo(i)
    BY <1>1, <1>3 DEF MapsToo, Permitted
  <2> QED
    BY <1>3, <1>6, <2>1, <2>2 DEF FdOK
<1>11. RowsOK'
  <2>1. /\ \A r : Genuine(r)' <=> Genuine(r)
        /\ \A r : RowStays(r)' <=> RowStays(r)
        /\ \A r : StatusStays(r)' <=> StatusStays(r)
    BY <1>1, SameKernel
  <2>2. ASSUME NEW k \in 1 .. Len(rows)
        PROVE  /\ Genuine(rows[k])' /\ RowStays(rows[k])'
               /\ (pc = "status" /\ k = Len(rows)) \/ StatusStays(rows[k])'
    <3>1. PICK r : r = rows[k]
      OBVIOUS
    <3>2. /\ Genuine(r)' /\ RowStays(r)'
          /\ (pc = "status" /\ k = Len(rows)) \/ StatusStays(r)'
      BY <1>0, <2>1, <3>1 DEF RowsOK
    <3> QED
      BY <1>1, <3>1, <3>2
  <2> QED
    BY <1>1, <2>2 DEF RowsOK
<1>12. ListedOK'
  BY <1>0, <1>1, <1>3 DEF ListedOK
<1>13. CoverOK'
  BY <1>0, <1>1, <1>3 DEF CoverOK
<1>14. RegionsOK' /\ SurvivorsReported'
  BY <1>1, <1>2 DEF RegionsOK, SurvivorsReported
<1> QED
  BY <1>3, <1>7, <1>8, <1>9, <1>10, <1>11, <1>12, <1>13, <1>14 DEF Inv

\* read_process and read_threads: stat, which gives a new row.
LEMMA ReadStatInv == Inv /\ ReadStat => Inv'
<1> SUFFICES ASSUME Inv, ReadStat PROVE Inv'
  OBVIOUS
<1>0. TypeOK /\ KernelOK /\ ShapeOK /\ EntriesOK /\ FdOK /\ RowsOK /\ ListedOK /\ CoverOK
  BY DEF Inv
<1>1. /\ pc = "stat" /\ fd # Closed /\ Content /\ pc' = "status" /\ fd' = Closed /\ todo' = todo
      /\ UNCHANGED <<kernelVars, cmd, regions, cut, exit, atStart>>
  BY DEF ReadStat, Reading
<1>2. pc \in Files /\ exit = Running
  BY <1>0, <1>1 DEF ShapeOK, Files
<1>3. /\ born' = born /\ task' = task /\ live' = live /\ cmd' = cmd /\ atStart' = atStart
      /\ \A b : Leader(b)' <=> Leader(b)
      /\ \A i : Survives(i)' <=> Survives(i)
      /\ \A i : Owed(i)' <=> Owed(i)
      /\ \A r : Genuine(r)' <=> Genuine(r)
      /\ \A r : RowStays(r)' <=> RowStays(r)
      /\ \A r : StatusStays(r)' <=> StatusStays(r)
      /\ KernelOK'
  BY <1>0, <1>1, SameKernel
<1>4. /\ cur \in Ids /\ cur = todo[1] /\ 1 \in 1 .. Len(todo)
      /\ cmd.name \in {"show", "maps"} => cur = cmd.arg
  BY <1>0, <1>2, CurFacts
<1>5. fd \in 1 .. Len(born) /\ born[fd].id = cur /\ task[cur] = fd
  BY <1>0, <1>1, <1>2, FdFacts
<1>6. /\ fd \in Births /\ born[fd].group \in Births /\ Mem(fd) \in Nat
      /\ Cardinality(Group(fd)) \in Nat /\ Cardinality(Group(fd)) >= 1
  BY <1>0, <1>1, <1>5, TaskFacts DEF Content
<1>7. PICK f : f = ParseStat(StatLine(fd)) /\ rows' = Append(rows, NewRow(f))
  BY DEF ReadStat
<1>8. PICK r : r = NewRow(f)
  OBVIOUS
<1>9. /\ r.pid = cur /\ r.comm = f.comm /\ r.state = f.after[1][2] /\ r.threads = StatField(f, 2)
      /\ r.start = StatField(f, 3) /\ r.rss = StatField(f, 4)
      /\ r.status = 0 /\ r.mem = FALSE /\ r.cmdline = 0
      /\ r = [pid |-> cur, comm |-> f.comm, state |-> f.after[1][2],
              threads |-> StatField(f, 2), start |-> StatField(f, 3), rss |-> StatField(f, 4),
              status |-> 0, mem |-> FALSE, cmdline |-> 0]
  BY <1>8 DEF NewRow
<1>10. /\ f.comm = NameOf[fd] /\ f.after[1][2] = (IF fd \in live THEN "R" ELSE "Z")
       /\ StatField(f, 2) = Cardinality(Group(fd))
       /\ StatField(f, 3) = fd /\ StatField(f, 4) = Mem(fd)
  BY <1>0, <1>5, <1>7, RowFromStat, Zenon
<1>11. r \in Row
  <2>1. NameOf[fd] \in Seq(STRING) /\ 0 \in 0 .. Len(NameOf)
    BY <1>6, ConstantFacts
  <2>2. f.after[1][2] \in {"R", "Z"}
    BY <1>10
  <2> QED
    BY <1>4, <1>6, <1>9, <1>10, <2>1, <2>2 DEF Row
<1>12. PICK n \in Nat : n = Len(rows)
  BY <1>0, LenProperties DEF TypeOK
<1>13. /\ rows' \in Seq(Row) /\ Len(rows') = n + 1 /\ rows'[n + 1] = r
       /\ \A k \in 1 .. n : rows'[k] = rows[k]
  BY <1>0, <1>7, <1>8, <1>11, <1>12 DEF TypeOK
<1>14. TypeOK'
  BY <1>0, <1>1, <1>3, <1>13 DEF TypeOK
<1>15. ShapeOK'
  <2>1. cur' = cur /\ rows' # <<>> /\ rows'[Len(rows')].pid = cur
    BY <1>1, <1>9, <1>13 DEF cur
  <2>2. cmd.name = "show" => Len(rows') = 1
    BY <1>0, <1>1, <1>12, <1>13 DEF ShapeOK
  <2> QED
    BY <1>0, <1>1, <1>2, <2>1, <2>2 DEF ShapeOK, Files
<1>16. EntriesOK'
  <2>1. \A k \in 1 .. n, j \in 1 .. Len(todo) : rows[k].pid # todo[j]
    BY <1>0, <1>1, <1>12 DEF EntriesOK
  <2>2. \A k \in 1 .. n + 1 : k \in 1 .. n \/ k = n + 1
    OBVIOUS
  <2>3. \A k \in 1 .. n : rows'[k].pid # r.pid /\ rows'[k].pid = rows[k].pid
    BY <1>4, <1>9, <1>13, <2>1
  <2>4. \A j, k \in 1 .. n + 1 : rows'[j].pid = rows'[k].pid => j = k
    BY <1>0, <1>12, <1>13, <2>2, <2>3 DEF EntriesOK
  <2>5. \A k \in 1 .. n + 1, j \in 1 .. Len(todo) : rows'[k].pid = todo[j] => j = 1 /\ k = n + 1
    <3>1. SUFFICES ASSUME NEW k \in 1 .. n + 1, NEW j \in 1 .. Len(todo), rows'[k].pid = todo[j]
                   PROVE  j = 1 /\ k = n + 1
      OBVIOUS
    <3>2. k = n + 1
      BY <2>1, <2>2, <2>3, <3>1
    <3>3. todo[j] = todo[1]
      BY <1>4, <1>9, <1>13, <3>1, <3>2
    <3> QED
      BY <1>0, <1>4, <3>2, <3>3 DEF EntriesOK
  <2> QED
    BY <1>0, <1>1, <1>13, <2>4, <2>5 DEF EntriesOK
<1>17. FdOK'
  BY <1>1 DEF FdOK
<1>18. Genuine(r)
  <2>1. r.start = fd /\ r.pid = cur /\ r.comm = NameOf[fd] /\ r.threads >= 1 /\ r.rss = Mem(fd)
    BY <1>6, <1>9, <1>10
  <2>2. (r.state = "Z" => fd \notin live) /\ (r.state = "R" => r.rss = MemOf[born[fd].group])
    BY <1>9, <1>10 DEF Mem
  <2>3. cmd.name = "list" /\ ~Leader(fd) => atStart[cur] # fd
    <3>1. ASSUME cmd.name = "list", atStart[cur] = fd PROVE Leader(fd)
      <4>1. Survives(cur)
        BY <1>5, <3>1 DEF Survives
      <4> QED
        BY <1>0, <1>4, <1>5, <3>1, <4>1 DEF ListedOK
    <3> QED
      BY <3>1
  <2>4. {r.status, r.cmdline} \subseteq {0, fd}
    BY <1>9
  <2> QED
    BY <1>5, <2>1, <2>2, <2>3, <2>4 DEF Genuine
<1>19. RowStays(r)
  <2>1. r.start = task[r.pid] /\ r.rss = Mem(task[r.pid])
    BY <1>5, <1>9, <1>10
  <2> QED
    BY <2>1 DEF RowStays
<1>20. RowsOK'
  <2>1. SUFFICES ASSUME NEW k \in 1 .. n + 1
                 PROVE  /\ Genuine(rows[k])' /\ RowStays(rows[k])'
                        /\ k = n + 1 \/ StatusStays(rows[k])'
    BY <1>1, <1>13 DEF RowsOK
  <2>2. PICK q : q = rows'[k]
    OBVIOUS
  <2>3. CASE k = n + 1
    <3>1. q = r
      BY <1>13, <2>2, <2>3
    <3>2. Genuine(q)' /\ RowStays(q)'
      BY <1>3, <1>18, <1>19, <3>1
    <3> QED
      BY <2>2, <2>3, <3>2
  <2>4. CASE k \in 1 .. n
    <3>1. q = rows[k]
      BY <1>13, <2>2, <2>4
    <3>2. Genuine(q) /\ RowStays(q) /\ StatusStays(q)
      BY <1>0, <1>1, <1>12, <2>4, <3>1 DEF RowsOK
    <3>3. Genuine(q)' /\ RowStays(q)' /\ StatusStays(q)'
      BY <1>3, <3>2
    <3> QED
      BY <2>2, <3>3
  <2> QED
    BY <2>3, <2>4
<1>21. ListedOK'
  BY <1>0, <1>1, <1>3 DEF ListedOK
<1>22. CoverOK'
  <2>1. \A i : (\E k \in 1 .. n : rows[k].pid = i) => \E k \in 1 .. n + 1 : rows'[k].pid = i
    BY <1>13
  <2> QED
    BY <1>0, <1>1, <1>3, <1>12, <1>13, <2>1 DEF CoverOK
<1>23. RegionsOK' /\ SurvivorsReported'
  BY <1>1 DEF RegionsOK, SurvivorsReported
<1> QED
  BY <1>3, <1>14, <1>15, <1>16, <1>17, <1>20, <1>21, <1>22, <1>23 DEF Inv

\* The process or thread is gone.
LEMMA SkipGoneInv == Inv /\ SkipGone => Inv'
<1> SUFFICES ASSUME Inv, SkipGone PROVE Inv'
  OBVIOUS
<1>0. TypeOK /\ KernelOK /\ ShapeOK /\ EntriesOK /\ FdOK /\ RowsOK /\ ListedOK /\ CoverOK
  BY DEF Inv
<1>1. /\ pc = "stat" /\ fd # Closed /\ ~Content /\ cmd.name # "show"
      /\ pc' = "next" /\ fd' = Closed /\ todo' = Tail(todo) /\ rows' = rows
      /\ UNCHANGED <<kernelVars, cmd, rows, regions, cut, exit, atStart>>
  BY DEF SkipGone, Reading
<1>2. pc \in Files /\ exit = Running /\ cmd.name \in {"list", "threads"} /\ cmd.arg \in Ids
  BY <1>0, <1>1 DEF ShapeOK, Files, TypeOK, Commands
<1>3. /\ born' = born /\ task' = task /\ live' = live /\ cmd' = cmd /\ atStart' = atStart
      /\ \A b : Leader(b)' <=> Leader(b)
      /\ \A i : Survives(i)' <=> Survives(i)
      /\ \A i : Owed(i)' <=> Owed(i)
      /\ KernelOK'
  BY <1>0, <1>1, SameKernel
<1>4. /\ cur \in Ids /\ cur = todo[1] /\ Len(todo) \in Nat
      /\ Tail(todo) \in Seq(Ids) /\ Len(Tail(todo)) = Len(todo) - 1
      /\ \A j \in 1 .. Len(todo) - 1 : Tail(todo)[j] = todo[j + 1] /\ j + 1 \in 1 .. Len(todo) /\ j + 1 # 1
  BY <1>0, <1>2, CurFacts
<1>5. ~Stays(cur)
  BY <1>0, <1>1, <1>2, FdFacts DEF MapsToo
<1>6. TypeOK'
  BY <1>0, <1>1, <1>3, <1>4 DEF TypeOK
<1>7. ShapeOK'
  BY <1>0, <1>1, <1>2 DEF ShapeOK, Files
<1>8. EntriesOK'
  <2>1. \A j, k \in 1 .. Len(todo') : todo'[j] = todo'[k] => j = k
    <3>1. SUFFICES ASSUME NEW j \in 1 .. Len(todo) - 1, NEW k \in 1 .. Len(todo) - 1,
                          Tail(todo)[j] = Tail(todo)[k]
                   PROVE  j = k
      BY <1>1, <1>4
    <3>2. j + 1 = k + 1
      BY <1>0, <1>4, <3>1 DEF EntriesOK
    <3> QED
      BY <1>4, <3>2
  <2>2. \A k \in 1 .. Len(rows), j \in 1 .. Len(todo') : rows[k].pid # todo'[j]
    BY <1>0, <1>1, <1>4 DEF EntriesOK
  <2> QED
    BY <1>0, <1>1, <2>1, <2>2 DEF EntriesOK
<1>9. FdOK'
  BY <1>1 DEF FdOK
<1>10. RowsOK'
  BY <1>0, <1>1, SameRows
<1>11. ListedOK'
  BY <1>0, <1>1, <1>3, <1>4 DEF ListedOK
<1>12. CoverOK'
  <2>1. ASSUME NEW i \in Ids, Owed(i), NEW j \in 1 .. Len(todo), todo[j] = i
        PROVE  \E k \in 1 .. Len(todo') : todo'[k] = i
    <3>1. j # 1
      BY <1>4, <1>5, <2>1 DEF Owed
    <3>2. j - 1 \in 1 .. Len(todo) - 1 /\ (j - 1) + 1 = j
      BY <1>4, <3>1
    <3>3. j - 1 \in 1 .. Len(todo') /\ todo'[j - 1] = i
      BY <1>1, <1>4, <2>1, <3>2
    <3> QED
      BY <3>3
  <2> QED
    BY <1>0, <1>1, <1>2, <1>3, <2>1 DEF CoverOK
<1>13. RegionsOK' /\ SurvivorsReported'
  BY <1>1 DEF RegionsOK, SurvivorsReported
<1> QED
  BY <1>3, <1>6, <1>7, <1>8, <1>9, <1>10, <1>11, <1>12, <1>13 DEF Inv

\* cmd_show of a process that is gone.
LEMMA ShowGoneInv == Inv /\ ShowGone => Inv'
<1> SUFFICES ASSUME Inv, ShowGone PROVE Inv'
  OBVIOUS
<1>0. TypeOK /\ KernelOK /\ ShapeOK /\ EntriesOK /\ FdOK /\ RowsOK /\ ListedOK /\ CoverOK
  BY DEF Inv
<1>1. /\ pc = "stat" /\ fd # Closed /\ ~Content /\ cmd.name = "show"
      /\ pc' = "exit" /\ exit' = 1 /\ fd' = Closed /\ todo' = todo /\ rows' = rows
      /\ UNCHANGED <<kernelVars, cmd, rows, regions, cut, atStart>>
  BY DEF ShowGone, Reading, Return
<1>2. pc \in Files /\ cmd.arg \in Ids
  BY <1>0, <1>1 DEF ShapeOK, Files
<1>3. /\ born' = born /\ task' = task /\ live' = live /\ cmd' = cmd /\ atStart' = atStart
      /\ \A i : Survives(i)' <=> Survives(i)
      /\ KernelOK'
  BY <1>0, <1>1, SameKernel
<1>4. ~Stays(cur) /\ cur = cmd.arg
  BY <1>0, <1>1, <1>2, FdFacts, CurFacts DEF MapsToo
<1>5. ~(Survives(cmd.arg) /\ Permitted(task[cmd.arg], "stat"))
  BY <1>1, <1>4 DEF Stays
<1>6. TypeOK'
  BY <1>0, <1>1, <1>3 DEF TypeOK
<1>7. ShapeOK'
  BY <1>0, <1>1, <1>2 DEF ShapeOK, Files, Running
<1>8. EntriesOK' /\ FdOK' /\ ListedOK'
  BY <1>0, <1>1 DEF EntriesOK, FdOK, ListedOK
<1>9. RowsOK'
  BY <1>0, <1>1, SameRows
<1>10. CoverOK' /\ RegionsOK'
  BY <1>1 DEF CoverOK, RegionsOK
<1>11. SurvivorsReported'
  <2>1. ~(Survives(cmd.arg) /\ Permitted(task[cmd.arg], "stat"))'
    BY <1>3, <1>5 DEF Permitted
  <2> QED
    BY <1>1, <2>1 DEF SurvivorsReported
<1> QED
  BY <1>3, <1>6, <1>7, <1>8, <1>9, <1>10, <1>11 DEF Inv

\* A file about the newest row is read, and the entry may be done with.
LEMMA RowDone ==
    ASSUME TypeOK, ShapeOK, EntriesOK, CoverOK, ListedOK, pc \in {"status", "cmdline"},
           UNCHANGED <<kernelVars, cmd, atStart>>, Len(rows') = Len(rows),
           \A k \in 1 .. Len(rows) : rows'[k].pid = rows[k].pid,
           \/ todo' = todo /\ pc' \in {"cmdline", "maps"}
           \/ todo' = Tail(todo) /\ pc' = "next"
    PROVE  /\ todo' \in Seq(Ids) /\ EntriesOK' /\ CoverOK' /\ ListedOK'
<1>1. pc \in Files
  BY DEF Files
<1>2. /\ cur \in Ids /\ cur = todo[1] /\ Len(todo) \in Nat /\ 1 \in 1 .. Len(todo)
      /\ Tail(todo) \in Seq(Ids) /\ Len(Tail(todo)) = Len(todo) - 1
      /\ \A j \in 1 .. Len(todo) - 1 : Tail(todo)[j] = todo[j + 1] /\ j + 1 \in 1 .. Len(todo) /\ j + 1 # 1
  BY <1>1, CurFacts
<1>3. /\ cmd' = cmd /\ task' = task
      /\ \A b : Leader(b)' <=> Leader(b)
      /\ \A i : Survives(i)' <=> Survives(i)
      /\ \A i : Owed(i)' <=> Owed(i)
  BY SameKernel
<1>4. PICK n \in Nat : n = Len(rows) /\ n # 0 /\ n \in 1 .. n /\ rows[n].pid = cur
  <2>1. rows # <<>> /\ rows[Len(rows)].pid = cur
    BY DEF ShapeOK
  <2>2. Len(rows) \in Nat /\ Len(rows) # 0
    BY <2>1, LenProperties, EmptySeq DEF TypeOK
  <2> QED
    BY <2>1, <2>2
<1>5. CASE todo' = todo /\ pc' \in {"cmdline", "maps"}
  <2>1. EntriesOK'
    BY <1>5 DEF EntriesOK
  <2>2. CoverOK'
    BY <1>3, <1>5 DEF CoverOK
  <2>3. ListedOK'
    BY <1>3, <1>5 DEF ListedOK
  <2> QED
    BY <1>5, <2>1, <2>2, <2>3 DEF TypeOK
<1>6. CASE todo' = Tail(todo) /\ pc' = "next"
  <2>1. \A j, k \in 1 .. Len(todo') : todo'[j] = todo'[k] => j = k
    <3>1. SUFFICES ASSUME NEW j \in 1 .. Len(todo) - 1, NEW k \in 1 .. Len(todo) - 1,
                          Tail(todo)[j] = Tail(todo)[k]
                   PROVE  j = k
      BY <1>2, <1>6
    <3>2. j + 1 = k + 1
      BY <1>2, <3>1 DEF EntriesOK
    <3> QED
      BY <1>2, <3>2
  <2>2. \A k \in 1 .. Len(rows), j \in 1 .. Len(todo') : rows'[k].pid # todo'[j]
    <3>1. SUFFICES ASSUME NEW k \in 1 .. Len(rows), NEW j \in 1 .. Len(todo) - 1, rows[k].pid = todo[j + 1]
                   PROVE  FALSE
      BY <1>2, <1>6
    <3> QED
      BY <1>2, <3>1 DEF EntriesOK
  <2>3. EntriesOK'
    BY <1>6, <2>1, <2>2 DEF EntriesOK
  <2>4. CoverOK'
    <3>1. ASSUME NEW i \in Ids, NEW j \in 1 .. Len(todo), todo[j] = i
          PROVE  \/ \E k \in 1 .. Len(todo') : todo'[k] = i
                 \/ \E k \in 1 .. Len(rows) : rows'[k].pid = i
      <4>1. CASE j = 1
        <5>1. rows'[n].pid = i
          BY <1>2, <1>4, <3>1, <4>1
        <5> QED
          BY <1>4, <5>1
      <4>2. CASE j # 1
        <5>1. j - 1 \in 1 .. Len(todo) - 1 /\ (j - 1) + 1 = j
          BY <1>2, <4>2
        <5>2. j - 1 \in 1 .. Len(todo') /\ todo'[j - 1] = i
          BY <1>2, <1>6, <3>1, <5>1
        <5> QED
          BY <5>2
      <4> QED
        BY <4>1, <4>2
    <3>2. \A i : (\E k \in 1 .. Len(rows) : rows[k].pid = i) => \E k \in 1 .. Len(rows) : rows'[k].pid = i
      OBVIOUS
    <3> QED
      BY <1>3, <1>6, <3>1, <3>2 DEF CoverOK
  <2>5. ListedOK'
    BY <1>2, <1>3, <1>6 DEF ListedOK
  <2> QED
    BY <1>2, <1>6, <2>3, <2>4, <2>5
<1> QED
  BY <1>5, <1>6

\* The other files of the entry: the row says what it said, and what is added
\* is about the task that has the PID now.
LEMMA RowUpdate ==
    ASSUME TypeOK, KernelOK, ShapeOK, EntriesOK, FdOK, RowsOK, ListedOK, CoverOK,
           pc \in {"status", "cmdline"}, fd # Closed, fd' = Closed,
           UNCHANGED <<kernelVars, cmd, regions, cut, exit, atStart>>,
           NEW q \in Row, rows' = [rows EXCEPT ![Len(rows)] = q],
           q.pid = rows[Len(rows)].pid, q.comm = rows[Len(rows)].comm,
           q.state = rows[Len(rows)].state, q.rss = rows[Len(rows)].rss,
           q.threads = rows[Len(rows)].threads, q.start = rows[Len(rows)].start,
           \/ q.status = rows[Len(rows)].status \/ q.status = 0 \/ (Content /\ q.status = fd),
           \/ q.cmdline = rows[Len(rows)].cmdline \/ (Content /\ q.cmdline = fd),
           StatusStays(q),
           \/ pc = "status" /\ todo' = todo /\ pc' = "cmdline" /\ cmd.name \in {"list", "show"}
           \/ pc = "cmdline" /\ todo' = todo /\ pc' = "maps" /\ cmd.name = "show"
           \/ todo' = Tail(todo) /\ pc' = "next" /\ cmd.name \in {"list", "threads"}
    PROVE  Inv'
<1>1. pc \in Files /\ exit = Running /\ cmd.arg \in Ids
  BY DEF Files, ShapeOK
<1>2. PICK n \in Nat : n = Len(rows) /\ n # 0 /\ n \in 1 .. n /\ rows[n].pid = cur
  <2>1. rows # <<>> /\ rows[Len(rows)].pid = cur
    BY DEF ShapeOK
  <2>2. Len(rows) \in Nat /\ Len(rows) # 0
    BY <2>1, LenProperties, EmptySeq DEF TypeOK
  <2> QED
    BY <2>1, <2>2
<1>3. /\ rows' \in Seq(Row) /\ Len(rows') = n /\ rows'[n] = q
      /\ \A k \in 1 .. n : k # n => rows'[k] = rows[k]
  <2>1. rows \in [1 .. n -> Row]
    BY <1>2 DEF TypeOK
  <2>2. rows' \in [1 .. n -> Row] /\ rows'[n] = q /\ \A k \in 1 .. n : k # n => rows'[k] = rows[k]
    BY <1>2, <2>1
  <2>3. rows' \in Seq(Row)
    BY <1>2, <2>2, FunctionIsSeq, Zenon
  <2>4. Len(rows') = n
    <3>1. DOMAIN rows' = 1 .. n
      BY <2>2
    <3>2. DOMAIN rows' = 1 .. Len(rows') /\ Len(rows') \in Nat
      BY <2>3, LenProperties, Zenon
    <3>3. \A l \in Nat : 1 .. l = 1 .. n => l = n
      BY <1>2
    <3> QED
      BY <3>1, <3>2, <3>3, Zenon
  <2> QED
    BY <2>2, <2>3, <2>4
<1>4. \A k \in 1 .. n : rows'[k].pid = rows[k].pid
  BY <1>2, <1>3
<1>5. /\ born' = born /\ task' = task /\ live' = live /\ cmd' = cmd /\ atStart' = atStart
      /\ \A r : Genuine(r)' <=> Genuine(r)
      /\ \A r : RowStays(r)' <=> RowStays(r)
      /\ \A r : StatusStays(r)' <=> StatusStays(r)
      /\ KernelOK'
  BY SameKernel
<1>6. todo' \in Seq(Ids) /\ EntriesOK' /\ CoverOK' /\ ListedOK'
  <2>1. Len(rows') = Len(rows) /\ \A k \in 1 .. Len(rows) : rows'[k].pid = rows[k].pid
    BY <1>2, <1>3, <1>4
  <2> QED
    BY <2>1, RowDone
<1>7. TypeOK'
  BY <1>3, <1>5, <1>6 DEF TypeOK
<1>8. ShapeOK'
  <2>1. rows' # <<>> /\ rows'[Len(rows')].pid = cur
    BY <1>2, <1>3, <1>4
  <2>2. cmd.name = "show" => n = 1 /\ cur = cmd.arg /\ todo = <<cmd.arg>>
    BY <1>1, <1>2, CurFacts DEF ShapeOK
  <2>3. CASE pc = "status" /\ todo' = todo /\ pc' = "cmdline" /\ cmd.name \in {"list", "show"}
    <3>1. cur' = cur
      BY <2>3 DEF cur
    <3> QED
      BY <1>1, <1>3, <2>1, <2>2, <2>3, <3>1 DEF ShapeOK, Files
  <2>4. CASE pc = "cmdline" /\ todo' = todo /\ pc' = "maps" /\ cmd.name = "show"
    BY <1>1, <1>3, <2>1, <2>2, <2>4 DEF ShapeOK, Files
  <2>5. CASE todo' = Tail(todo) /\ pc' = "next" /\ cmd.name \in {"list", "threads"}
    BY <1>1, <2>5 DEF ShapeOK, Files
  <2> QED
    BY <2>3, <2>4, <2>5
<1>9. FdOK'
  BY DEF FdOK
<1>10. Genuine(q) /\ RowStays(q)
  <2>1. PICK r : r = rows[n] /\ Genuine(r) /\ RowStays(r)
    BY <1>2 DEF RowsOK
  <2>2. Content => fd \in 1 .. Len(born) /\ born[fd].id = cur /\ task[cur] = fd
    BY <1>1, FdFacts
  <2>3. r.start \in 1 .. Len(born) /\ born[r.start].id = cur
    BY <1>2, <2>1 DEF Genuine
  <2>4. Content /\ fd # r.start => ~InTable(r.start)
    BY <2>2, <2>3 DEF InTable
  <2>5. {q.status, q.cmdline} \subseteq {0, r.start} \/ ~InTable(r.start)
    <3>1. {r.status, r.cmdline} \subseteq {0, r.start} \/ ~InTable(r.start)
      BY <2>1 DEF Genuine
    <3> QED
      BY <1>2, <2>1, <2>4, <3>1
  <2>6. Genuine(q)
    BY <1>2, <2>1, <2>5 DEF Genuine
  <2>7. RowStays(q)
    BY <1>2, <2>1 DEF RowStays
  <2> QED
    BY <2>6, <2>7
<1>11. RowsOK'
  <2>1. ASSUME NEW k \in 1 .. n PROVE Genuine(rows[k])' /\ RowStays(rows[k])' /\ StatusStays(rows[k])'
    <3>1. PICK r : r = rows'[k]
      OBVIOUS
    <3>2. Genuine(r) /\ RowStays(r) /\ StatusStays(r)
      <4>1. CASE k = n
        BY <1>3, <1>10, <3>1, <4>1
      <4>2. CASE k # n
        BY <1>2, <1>3, <3>1, <4>2 DEF RowsOK
      <4> QED
        BY <4>1, <4>2
    <3>3. Genuine(r)' /\ RowStays(r)' /\ StatusStays(r)'
      BY <1>5, <3>2
    <3> QED
      BY <3>1, <3>3
  <2> QED
    BY <1>3, <2>1 DEF RowsOK
<1>12. RegionsOK' /\ SurvivorsReported'
  BY DEF RegionsOK, SurvivorsReported
<1> QED
  BY <1>5, <1>6, <1>7, <1>8, <1>9, <1>11, <1>12 DEF Inv

\* The newest row is there.
LEMMA LastRow ==
    ASSUME TypeOK, ShapeOK, pc \in {"status", "cmdline"}
    PROVE  /\ Len(rows) \in 1 .. Len(rows) /\ rows[Len(rows)] \in Row
           /\ rows[Len(rows)].pid = cur /\ DOMAIN rows = 1 .. Len(rows)
<1>1. rows # <<>> /\ rows[Len(rows)].pid = cur /\ rows \in Seq(Row)
  BY DEF ShapeOK, TypeOK
<1>2. Len(rows) \in Nat /\ Len(rows) # 0 /\ DOMAIN rows = 1 .. Len(rows)
  BY <1>1, LenProperties, EmptySeq
<1>3. Len(rows) \in 1 .. Len(rows)
  BY <1>2
<1> QED
  BY <1>1, <1>2, <1>3, ElementOfSeq

\* status.
LEMMA ReadStatusInv == Inv /\ ReadStatus => Inv'
<1> SUFFICES ASSUME Inv, ReadStatus PROVE Inv'
  OBVIOUS
<1>0. TypeOK /\ KernelOK /\ ShapeOK /\ EntriesOK /\ FdOK /\ RowsOK /\ ListedOK /\ CoverOK
  BY DEF Inv
<1>1. /\ pc = "status" /\ fd # Closed /\ fd' = Closed
      /\ UNCHANGED <<kernelVars, cmd, regions, cut, exit, atStart>>
      /\ IF cmd.name = "threads" THEN todo' = Tail(todo) /\ pc' = "next"
         ELSE pc' = "cmdline" /\ todo' = todo
  BY DEF ReadStatus, Reading
<1>2. pc \in Files /\ cmd.name \in {"list", "show", "threads"}
  BY <1>0, <1>1 DEF ShapeOK, Files, TypeOK, Commands
<1>3. PICK n : n = Len(rows)
  OBVIOUS
<1>4. n \in 1 .. n /\ rows[n] \in Row /\ rows[n].pid = cur /\ DOMAIN rows = 1 .. n
  BY <1>0, <1>1, <1>3, LastRow
<1>5. PICK b : b = ParseKv.status
  OBVIOUS
<1>6. PICK m : m = ParseKv.mem
  OBVIOUS
<1>7. /\ Content => b = fd /\ (m <=> Mem(fd) > 0)
      /\ ~Content => b = 0
      /\ m \in BOOLEAN
  <2>1. Content => ParseKv.status = fd /\ ParseKv.mem = (Mem(fd) > 0)
    BY DEF ParseKv
  <2>2. ~Content => ParseKv.status = 0 /\ ParseKv.mem = FALSE
    BY DEF ParseKv
  <2>3. (Mem(fd) > 0) \in BOOLEAN
    OBVIOUS
  <2> QED
    BY <1>5, <1>6, <2>1, <2>2, <2>3, Zenon
<1>8. Content => fd \in 1 .. Len(born) /\ born[fd].id = cur /\ task[cur] = fd /\ fd \in Births
  BY <1>0, <1>1, <1>2, FdFacts, TaskFacts
<1>9. b \in 0 .. Len(NameOf)
  BY <1>7, <1>8, ConstantFacts DEF Births
<1>10. PICK q : q = [rows[n] EXCEPT !.status = b, !.mem = m]
  OBVIOUS
<1>11. /\ q \in Row /\ q.status = b /\ q.mem = m
       /\ q.pid = rows[n].pid /\ q.comm = rows[n].comm /\ q.state = rows[n].state
       /\ q.rss = rows[n].rss /\ q.threads = rows[n].threads /\ q.start = rows[n].start
       /\ q.cmdline = rows[n].cmdline
  BY <1>4, <1>7, <1>9, <1>10 DEF Row
<1>12. rows' = [rows EXCEPT ![n] = q]
  BY <1>3, <1>4, <1>5, <1>6, <1>10 DEF ReadStatus
<1>13. StatusStays(q)
  <2>1. Stays(cur) => Content /\ fd = task[cur]
    BY <1>0, <1>1, <1>2, FdFacts DEF MapsToo
  <2> QED
    BY <1>4, <1>7, <1>11, <2>1 DEF StatusStays
<1>14. \/ pc = "status" /\ todo' = todo /\ pc' = "cmdline" /\ cmd.name \in {"list", "show"}
       \/ todo' = Tail(todo) /\ pc' = "next" /\ cmd.name \in {"list", "threads"}
  BY <1>1, <1>2
<1> QED
  BY <1>0, <1>1, <1>3, <1>7, <1>11, <1>12, <1>13, <1>14, RowUpdate

\* cmdline.
LEMMA ReadCmdlineInv == Inv /\ ReadCmdline => Inv'
<1> SUFFICES ASSUME Inv, ReadCmdline PROVE Inv'
  OBVIOUS
<1>0. TypeOK /\ KernelOK /\ ShapeOK /\ EntriesOK /\ FdOK /\ RowsOK /\ ListedOK /\ CoverOK
  BY DEF Inv
<1>1. /\ pc = "cmdline" /\ fd # Closed /\ fd' = Closed
      /\ UNCHANGED <<kernelVars, cmd, regions, cut, exit, atStart>>
      /\ IF cmd.name = "show" THEN pc' = "maps" /\ todo' = todo
         ELSE pc' = "next" /\ todo' = Tail(todo)
  BY DEF ReadCmdline, Reading
<1>2. pc \in Files /\ cmd.name \in {"list", "show"}
  BY <1>0, <1>1 DEF ShapeOK, Files
<1>3. PICK n : n = Len(rows)
  OBVIOUS
<1>4. n \in 1 .. n /\ rows[n] \in Row /\ rows[n].pid = cur /\ DOMAIN rows = 1 .. n
  BY <1>0, <1>1, <1>3, LastRow
<1>5. Content => fd \in Births
  <2>1. Content => fd \in 1 .. Len(born)
    BY <1>0, <1>1, <1>2, FdFacts
  <2> QED
    BY <1>0, <2>1, TaskFacts
<1>6. StatusStays(rows[n])
  BY <1>0, <1>1, <1>3, <1>4 DEF RowsOK
<1>7. PICK q : q = IF Content /\ Mem(fd) > 0 THEN [rows[n] EXCEPT !.cmdline = fd] ELSE rows[n]
  OBVIOUS
<1>8. /\ q \in Row /\ q.status = rows[n].status /\ q.mem = rows[n].mem
      /\ q.pid = rows[n].pid /\ q.comm = rows[n].comm /\ q.state = rows[n].state
      /\ q.rss = rows[n].rss /\ q.threads = rows[n].threads /\ q.start = rows[n].start
      /\ q.cmdline = rows[n].cmdline \/ (Content /\ q.cmdline = fd)
  <2>1. CASE Content /\ Mem(fd) > 0
    <3>1. fd \in 0 .. Len(NameOf)
      BY <1>5, <2>1, ConstantFacts DEF Births
    <3>2. q = [rows[n] EXCEPT !.cmdline = fd]
      BY <1>7, <2>1
    <3> QED
      BY <1>4, <2>1, <3>1, <3>2 DEF Row
  <2>2. CASE ~(Content /\ Mem(fd) > 0)
    BY <1>4, <1>7, <2>2
  <2> QED
    BY <2>1, <2>2
<1>9. rows' = [rows EXCEPT ![n] = q]
  <2>1. CASE Content /\ Mem(fd) > 0
    BY <1>3, <1>4, <1>7, <2>1 DEF ReadCmdline
  <2>2. CASE ~(Content /\ Mem(fd) > 0)
    <3>1. rows' = rows /\ q = rows[n]
      BY <1>7, <2>2 DEF ReadCmdline
    <3>2. rows = [k \in 1 .. n |-> rows[k]]
      BY <1>0, <1>3 DEF TypeOK
    <3> QED
      BY <1>4, <3>1, <3>2
  <2> QED
    BY <2>1, <2>2
<1>10. StatusStays(q)
  BY <1>6, <1>8 DEF StatusStays
<1>11. \/ pc = "cmdline" /\ todo' = todo /\ pc' = "maps" /\ cmd.name = "show"
       \/ todo' = Tail(todo) /\ pc' = "next" /\ cmd.name \in {"list", "threads"}
  BY <1>1, <1>2
<1> QED
  BY <1>0, <1>1, <1>3, <1>8, <1>9, <1>10, <1>11, RowUpdate

\* maps.
LEMMA ReadMapsInv == Inv /\ ReadMaps => Inv'
<1> SUFFICES ASSUME Inv, ReadMaps PROVE Inv'
  OBVIOUS
<1>0. TypeOK /\ KernelOK /\ ShapeOK /\ EntriesOK /\ FdOK /\ RowsOK /\ ListedOK /\ CoverOK
  BY DEF Inv
<1>1. /\ pc = "maps" /\ fd # Closed /\ pc' = "report" /\ fd' = Closed /\ todo' = todo /\ rows' = rows
      /\ regions' = (IF Content /\ Mem(fd) > 0 THEN fd ELSE 0)
      /\ UNCHANGED <<kernelVars, cmd, rows, cut, exit, atStart>>
  BY DEF ReadMaps, Reading
<1>2. pc \in Files /\ exit = Running /\ cmd.name \in {"show", "maps"} /\ cmd.arg \in Ids
  BY <1>0, <1>1 DEF ShapeOK, Files
<1>3. /\ born' = born /\ task' = task /\ live' = live /\ cmd' = cmd /\ atStart' = atStart
      /\ \A b : Mem(b)' = Mem(b)
      /\ \A b, f : Permitted(b, f)' <=> Permitted(b, f)
      /\ \A i : Stays(i)' <=> Stays(i)
      /\ KernelOK'
  BY <1>0, <1>1, SameKernel
<1>4. cur = cmd.arg
  BY <1>0, <1>2, CurFacts
<1>5. /\ Content => fd \in 1 .. Len(born)
      /\ Stays(cur) /\ Permitted(task[cur], "maps") => Content /\ fd = task[cur]
  BY <1>0, <1>1, <1>2, FdFacts DEF MapsToo
<1>6. TypeOK'
  <2>1. regions' \in 0 .. Len(born)
    BY <1>0, <1>1, <1>5, LenProperties DEF TypeOK
  <2> QED
    BY <1>0, <1>1, <1>3, <2>1 DEF TypeOK
<1>7. ShapeOK'
  BY <1>0, <1>1, <1>2 DEF ShapeOK, Files
<1>8. EntriesOK' /\ FdOK' /\ ListedOK'
  BY <1>0, <1>1, <1>2 DEF EntriesOK, FdOK, ListedOK
<1>9. RowsOK'
  BY <1>0, <1>1, SameRows
<1>10. CoverOK' /\ SurvivorsReported'
  BY <1>1, <1>2 DEF CoverOK, SurvivorsReported
<1>11. RegionsOK'
  <2>1. PICK i : i = cmd.arg
    OBVIOUS
  <2>2. Stays(i) /\ Permitted(task[i], "maps") /\ Mem(task[i]) > 0 => regions' = task[i]
    BY <1>1, <1>4, <1>5, <2>1
  <2>3. Mem(task[i])' = Mem(task[i]) /\ (Permitted(task[i], "maps")' <=> Permitted(task[i], "maps"))
    BY <1>3
  <2> QED
    BY <1>3, <2>1, <2>2, <2>3 DEF RegionsOK
<1> QED
  BY <1>3, <1>6, <1>7, <1>8, <1>9, <1>10, <1>11 DEF Inv

\* The rows of a PID that is owed one, as SurvivorsReported wants them.
LEMMA Reported ==
    ASSUME NEW i, NEW k \in 1 .. Len(rows'), rows'[k].pid = i,
           \A j, l \in 1 .. Len(rows') : rows'[j].pid = rows'[l].pid => j = l,
           InFull(rows[k], i)'
    PROVE  ReportedOnce(i)'
<1>1. k \in RowsOf(i)' /\ RowsOf(i)' = {k}
  BY DEF RowsOf
<1> QED
  BY <1>1 DEF ReportedOnce

\* The reports: the rows are put into order, and those behind the first m are
\* dropped.
LEMMA ReportRows ==
    ASSUME TypeOK, EntriesOK, RowsOK, UNCHANGED <<kernelVars, cmd, atStart>>, pc = "report", pc' = "exit",
           NEW s, s = rows \/ s \in SetToSeqs(ToSet(rows)),
           NEW m \in 0 .. Len(s), rows' = SubSeq(s, 1, m)
    PROVE  /\ s \in Seq(Row) /\ Len(s) \in Nat
           /\ rows' \in Seq(Row) /\ Len(rows') = m /\ RowsOK'
           /\ \A k \in 1 .. m : rows'[k] = s[k]
           /\ \A j, k \in 1 .. Len(rows') : rows'[j].pid = rows'[k].pid => j = k
           /\ \A i : Stays(i) /\ (\E k \in 1 .. Len(rows) : rows[k].pid = i) =>
                 \/ ReportedOnce(i)'
                 \/ RowsOf(i)' = {} /\ \E j \in m + 1 .. Len(s) : InFull(s[j], i)'
<1>1. /\ s \in Seq(Row)
      /\ \A j \in 1 .. Len(s) : \E k \in 1 .. Len(rows) : s[j] = rows[k]
      /\ \A k \in 1 .. Len(rows) : \E j \in 1 .. Len(s) : s[j] = rows[k]
      /\ \A j, k \in 1 .. Len(s) : s[j].pid = s[k].pid => j = k
  <2>1. CASE s = rows
    BY <2>1 DEF TypeOK, EntriesOK
  <2>2. CASE s \in SetToSeqs(ToSet(rows))
    BY <2>2, SortedRows
  <2> QED
    BY <2>1, <2>2
<1>2. /\ task' = task
      /\ \A b : Mem(b)' = Mem(b)
      /\ \A r : Genuine(r)' <=> Genuine(r)
      /\ \A r : RowStays(r)' <=> RowStays(r)
      /\ \A r : StatusStays(r)' <=> StatusStays(r)
  BY SameKernel
<1>3. \A k \in 1 .. Len(rows) : Genuine(rows[k]) /\ RowStays(rows[k]) /\ StatusStays(rows[k])
  BY DEF RowsOK
<1>4. PICK n \in Nat : n = Len(s)
  BY <1>1, LenProperties
<1>5. /\ m \in Nat /\ m <= n /\ rows' \in Seq(Row) /\ Len(rows') = m
      /\ \A k \in 1 .. m : rows'[k] = s[k] /\ k \in 1 .. n
  BY <1>1, <1>4, SubSeqProperties
<1>6. RowsOK'
  <2>1. ASSUME NEW k \in 1 .. m PROVE Genuine(rows[k])' /\ RowStays(rows[k])' /\ StatusStays(rows[k])'
    <3>1. PICK r : r = rows'[k]
      OBVIOUS
    <3>2. Genuine(r) /\ RowStays(r) /\ StatusStays(r)
      BY <1>1, <1>3, <1>4, <1>5, <3>1
    <3>3. Genuine(r)' /\ RowStays(r)' /\ StatusStays(r)'
      BY <1>2, <3>2
    <3> QED
      BY <3>1, <3>3
  <2> QED
    BY <1>5, <2>1 DEF RowsOK
<1>7. \A j, k \in 1 .. Len(rows') : rows'[j].pid = rows'[k].pid => j = k
  BY <1>1, <1>4, <1>5
<1>8. ASSUME NEW i, Stays(i), \E k \in 1 .. Len(rows) : rows[k].pid = i
      PROVE  \/ ReportedOnce(i)'
             \/ RowsOf(i)' = {} /\ \E j \in m + 1 .. Len(s) : InFull(s[j], i)'
  <2>1. PICK k \in 1 .. Len(rows) : rows[k].pid = i
    BY <1>8
  <2>2. PICK j \in 1 .. n : s[j] = rows[k]
    BY <1>1, <1>4
  <2>3. PICK q : q = s[j] /\ q = rows[k] /\ q.pid = i
    BY <2>1, <2>2
  <2>4. q.start = task[i] /\ q.status = task[i] /\ (Mem(task[i]) > 0 => q.mem /\ q.rss = Mem(task[i]))
    BY <1>3, <1>8, <2>3 DEF RowStays, StatusStays
  <2>5. Mem(task[i])' = Mem(task[i])
    BY <1>2
  <2>6. InFull(q, i)'
    BY <1>2, <2>3, <2>4, <2>5 DEF InFull
  <2>7. CASE j <= m
    <3>0. j \in 1 .. m /\ j \in 1 .. Len(rows')
      BY <1>5, <2>7
    <3>1. j \in 1 .. Len(rows') /\ rows'[j] = q
      BY <1>5, <2>3, <3>0
    <3>2. InFull(rows[j], i)'
      BY <2>6, <3>1
    <3> QED
      BY <1>7, <2>3, <3>1, <3>2, Reported
  <2>8. CASE ~(j <= m)
    <3>1. j \in m + 1 .. Len(s)
      BY <1>4, <1>5, <2>8
    <3>2. ASSUME NEW l \in 1 .. m PROVE rows'[l].pid # i
      <4>1. l \in 1 .. n /\ l # j /\ rows'[l] = s[l]
        BY <1>5, <2>8
      <4>2. s[l].pid # s[j].pid
        BY <1>1, <1>4, <4>1
      <4> QED
        BY <2>3, <4>1, <4>2
    <3>3. RowsOf(i)' = {}
      BY <1>5, <3>2 DEF RowsOf
    <3>4. InFull(s[j], i)'
      BY <2>3, <2>6
    <3> QED
      BY <3>1, <3>3, <3>4
  <2> QED
    BY <2>7, <2>8
<1> QED
  BY <1>1, <1>4, <1>5, <1>6, <1>7, <1>8

\* What a report makes of the rows: s are the rows in order, m are printed.
Reports(s, m) ==
    /\ s = rows \/ s \in SetToSeqs(ToSet(rows))
    /\ m \in 0 .. Len(s)
    /\ rows' = SubSeq(s, 1, m)

\* cmd_list: all are printed, or as many as --limit says, and none of the others
\* sorts before one of these.
LEMMA ListRows ==
    ASSUME TypeOK, EntriesOK, ReportList
    PROVE  /\ cut' \in [key : Keys, limit : Nat, rows : SUBSET Row]
           /\ \E s, m : /\ Reports(s, m)
                        /\ m = Len(s) \/ m = cut'.limit
                        /\ \A j \in m + 1 .. Len(s) :
                              /\ s[j] \in cut'.rows
                              /\ \A k \in 1 .. m : ~Before(cut'.key, s[j], s[k])
<1>1. PICK key \in Keys, limit \in Limits, s \in SetToSeqs(ToSet(rows)) :
         /\ \A j, k \in 1 .. Len(s) : Before(key, s[j], s[k]) => j < k
         /\ rows' = SubSeq(s, 1, IF Len(s) > limit THEN limit ELSE Len(s))
         /\ cut' = [key |-> key, limit |-> limit,
                    rows |-> {s[k] : k \in Len(rows') + 1 .. Len(s)}]
  BY Zenon DEF ReportList, Orderings
<1>2. s \in Seq(Row)
  BY <1>1, SortedRows
<1>3. PICK n \in Nat : n = Len(s)
  BY <1>2, LenProperties
<1>4. limit \in Nat
  BY ConstantFacts
<1>5. PICK m \in 0 .. n : m = (IF n > limit THEN limit ELSE n)
  BY <1>4
<1>6. rows' = SubSeq(s, 1, m) /\ Len(rows') = m
  BY <1>1, <1>2, <1>3, <1>5, SubSeqProperties
<1>7. cut'.key = key /\ cut'.limit = limit /\ cut'.rows = {s[k] : k \in m + 1 .. n}
  BY <1>1, <1>3, <1>6
<1>8. {s[k] : k \in m + 1 .. n} \subseteq Row
  BY <1>2, <1>3
<1>9. cut' \in [key : Keys, limit : Nat, rows : SUBSET Row]
  BY <1>1, <1>3, <1>4, <1>6, <1>8
<1>10. Reports(s, m)
  BY <1>1, <1>3, <1>6 DEF Reports
<1>11. m = Len(s) \/ m = cut'.limit
  BY <1>3, <1>4, <1>5, <1>7
<1>12. ASSUME NEW j \in m + 1 .. Len(s)
       PROVE  s[j] \in cut'.rows /\ \A k \in 1 .. m : ~Before(cut'.key, s[j], s[k])
  <2>1. j \in 1 .. n /\ j > m
    BY <1>3
  <2>2. \A k \in 1 .. m : k \in 1 .. n /\ ~(j < k)
    BY <2>1
  <2> QED
    BY <1>1, <1>3, <1>7, <2>1, <2>2
<1> QED
  BY <1>9, <1>10, <1>11, <1>12

\* The other reports print every row.
LEMMA WholeRows ==
    ASSUME TypeOK, EntriesOK, ReportBadKey \/ ReportThreads \/ ReportShow \/ ReportMaps
    PROVE  \E s, m : Reports(s, m) /\ m = Len(s) /\ rows' = s
<1>1. rows' = rows \/ rows' \in SetToSeqs(ToSet(rows))
  BY Zenon DEF ReportBadKey, ReportThreads, ReportShow, ReportMaps, Orderings
<1>2. PICK s : s = rows'
  OBVIOUS
<1>3. s \in Seq(Row)
  BY <1>1, <1>2, SortedRows DEF TypeOK
<1>4. PICK n \in Nat : n = Len(s)
  BY <1>3, LenProperties
<1>5. SubSeq(s, 1, n) = s
  <2>1. SubSeq(s, 1, n) \in Seq(Row) /\ Len(SubSeq(s, 1, n)) = n /\ \A k \in 1 .. n : SubSeq(s, 1, n)[k] = s[k]
    BY <1>3, <1>4, SubSeqProperties
  <2> QED
    BY <1>3, <1>4, <2>1, SeqEqual
<1>6. Reports(s, n)
  BY <1>1, <1>2, <1>4, <1>5 DEF Reports
<1> QED
  BY <1>2, <1>4, <1>6

\* The end of a command.
LEMMA ReportInv ==
    Inv /\ (ReportBadKey \/ ReportList \/ ReportThreads \/ ReportShow \/ ReportMaps) => Inv'
<1> SUFFICES ASSUME Inv, ReportBadKey \/ ReportList \/ ReportThreads \/ ReportShow \/ ReportMaps PROVE Inv'
  OBVIOUS
<1>0. TypeOK /\ KernelOK /\ ShapeOK /\ EntriesOK /\ FdOK /\ RowsOK /\ ListedOK /\ CoverOK /\ RegionsOK
  BY DEF Inv
<1>1. /\ pc = "report" /\ pc' = "exit" /\ todo' = todo /\ fd' = fd /\ regions' = regions
      /\ UNCHANGED <<kernelVars, cmd, atStart>>
      /\ exit' \in {0, 1, 2}
  BY Zenon DEF ReportBadKey, ReportList, ReportThreads, ReportShow, ReportMaps, Return
<1>2. PICK s, m :
         /\ Reports(s, m)
         /\ ~ReportList => m = Len(s) /\ rows' = s
         /\ ReportList => /\ m = Len(s) \/ m = cut'.limit
                          /\ \A j \in m + 1 .. Len(s) :
                                /\ s[j] \in cut'.rows
                                /\ \A k \in 1 .. m : ~Before(cut'.key, s[j], s[k])
  BY <1>0, ListRows, WholeRows, Zenon
<1>3. cut' \in [key : Keys, limit : Nat, rows : SUBSET Row]
  <2>1. CASE ReportList
    BY <1>0, <2>1, ListRows
  <2>2. CASE ~ReportList
    <3>1. cut' = cut
      BY <2>2, Zenon DEF ReportBadKey, ReportThreads, ReportShow, ReportMaps
    <3> QED
      BY <1>0, <3>1 DEF TypeOK
  <2> QED
    BY <2>1, <2>2
<1>4. cmd.arg \in Ids /\ fd = Closed /\ (cmd.name \in {"list", "threads"} => todo = <<>>)
  BY <1>0, <1>1 DEF ShapeOK, Files
<1>5. /\ born' = born /\ task' = task /\ live' = live /\ cmd' = cmd /\ atStart' = atStart
      /\ \A b : Mem(b)' = Mem(b)
      /\ \A b, f : Permitted(b, f)' <=> Permitted(b, f)
      /\ \A b : Leader(b)' <=> Leader(b)
      /\ \A i : Survives(i)' <=> Survives(i)
      /\ KernelOK'
  BY <1>0, <1>1, SameKernel
<1>6. /\ s \in Seq(Row) /\ Len(s) \in Nat /\ m \in 0 .. Len(s)
      /\ rows' \in Seq(Row) /\ Len(rows') = m /\ RowsOK'
      /\ \A k \in 1 .. m : rows'[k] = s[k]
      /\ \A j, k \in 1 .. Len(rows') : rows'[j].pid = rows'[k].pid => j = k
      /\ \A i : Stays(i) /\ (\E k \in 1 .. Len(rows) : rows[k].pid = i) =>
            \/ ReportedOnce(i)'
            \/ RowsOf(i)' = {} /\ \E j \in m + 1 .. Len(s) : InFull(s[j], i)'
  BY <1>0, <1>1, <1>2, ReportRows DEF Reports
<1>7. TypeOK'
  BY <1>0, <1>1, <1>3, <1>5, <1>6 DEF TypeOK
<1>8. cmd.name \in {"show", "maps"} => rows' = rows
  BY <1>1, Zenon DEF ReportBadKey, ReportList, ReportThreads, ReportShow, ReportMaps
<1>9. ShapeOK'
  BY <1>0, <1>1, <1>4, <1>8 DEF ShapeOK, Files, Running
<1>10. EntriesOK'
  <2>1. \A k \in 1 .. Len(rows'), j \in 1 .. Len(todo) : rows'[k].pid = todo[j] => j = 1 /\ k = Len(rows')
    <3>1. CASE cmd.name \in {"list", "threads"}
      BY <1>4, <3>1
    <3>2. CASE cmd.name \in {"show", "maps"}
      BY <1>0, <1>1, <1>8, <3>2 DEF EntriesOK
    <3>3. cmd.name \in {"list", "threads", "show", "maps"}
      BY <1>0 DEF TypeOK, Commands
    <3> QED
      BY <3>1, <3>2, <3>3
  <2> QED
    BY <1>0, <1>1, <1>6, <2>1 DEF EntriesOK
<1>11. FdOK'
  BY <1>1, <1>4 DEF FdOK
<1>12. ListedOK'
  BY <1>0, <1>1, <1>5 DEF ListedOK
<1>13. CoverOK' /\ RegionsOK'
  BY <1>1 DEF CoverOK, RegionsOK
<1>14. ASSUME NEW i, Stays(i), \E k \in 1 .. Len(rows) : rows[k].pid = i
       PROVE  /\ ReportList => ReportedOnce(i)' \/ CrowdedOut(i)'
              /\ ~ReportList => ReportedOnce(i)'
  <2>1. CASE ReportedOnce(i)'
    BY <2>1
  <2>2. CASE ~ReportedOnce(i)'
    <3>1. RowsOf(i)' = {}
      BY <1>6, <1>14, <2>2
    <3>2. PICK j \in m + 1 .. Len(s) : InFull(s[j], i)'
      BY <1>6, <1>14, <2>2
    <3>3. m # Len(s)
      BY <1>6, <3>2
    <3>4. ReportList
      BY <1>2, <3>3
    <3>5. Len(rows') = cut'.limit
      BY <1>2, <1>6, <3>3, <3>4
    <3>6. PICK q : q = s[j] /\ InFull(q, i)'
      BY <3>2
    <3>7. q \in cut'.rows /\ \A k \in 1 .. Len(rows') : ~Before(cut'.key, q, rows'[k])
      BY <1>2, <1>6, <3>4, <3>6
    <3>8. \A k \in 1 .. Len(rows') : ~Before(cut.key, q, rows[k])'
      BY <3>7 DEF Before
    <3> QED
      BY <3>1, <3>4, <3>5, <3>6, <3>7, <3>8 DEF CrowdedOut
  <2> QED
    BY <2>1, <2>2
<1>15. \A i \in Ids : Owed(i) /\ cmd.name \in {"list", "threads"} =>
            Stays(i) /\ (\E k \in 1 .. Len(rows) : rows[k].pid = i) /\ rows # <<>>
  BY <1>0, <1>1, <1>4 DEF CoverOK, Owed
<1>16. SurvivorsReported'
  <2>1. CASE ReportBadKey
    BY <2>1 DEF ReportBadKey, Return, SurvivorsReported
  <2>2. CASE ReportList
    <3>1. cmd.name = "list"
      BY <2>2 DEF ReportList
    <3>2. ASSUME NEW i \in Processes', Survives(i)', Permitted(task[i], "stat")'
          PROVE  ReportedOnce(i)' \/ CrowdedOut(i)'
      <4>1. i \in Ids /\ Leader(task[i]) /\ Permitted(task[i], "stat")
        BY <1>5, <3>2 DEF Processes, Leader, Permitted
      <4>2. Owed(i)
        BY <1>5, <3>1, <3>2, <4>1 DEF Owed, Stays
      <4> QED
        BY <1>14, <1>15, <2>2, <3>1, <4>1, <4>2
    <3> QED
      BY <1>5, <3>1, <3>2 DEF SurvivorsReported
  <2>3. CASE ReportThreads
    <3>1. cmd.name = "threads" /\ exit' = (IF rows = <<>> THEN 1 ELSE 0)
      BY <2>3, Zenon DEF ReportThreads, Return
    <3>2. PICK a \in Ids : a = cmd.arg
      BY <1>4
    <3>3. ThreadsOf(a)' = ThreadsOf(a) /\ ~ReportList
      BY <1>5, <3>1 DEF ThreadsOf, Group, InTable, ReportList
    <3>4. ASSUME Survives(a), Permitted(task[a], "stat"), NEW i \in ThreadsOf(a), Survives(i)
          PROVE  ReportedOnce(i)' /\ rows # <<>>
      <4>1. i \in Ids /\ task[i] \in Group(task[a])
        BY DEF ThreadsOf
      <4>2. Permitted(task[i], "stat")
        BY <3>4, <4>1 DEF Group, Permitted
      <4>3. Owed(i)
        BY <3>1, <3>2, <3>4, <4>2 DEF Owed, Stays
      <4> QED
        BY <1>14, <1>15, <3>1, <3>3, <4>1, <4>3
    <3>5. ASSUME Survives(a) PROVE a \in ThreadsOf(a)
      <4>1. task[a] # 0 /\ task[a] \in 1 .. Len(born) /\ born[task[a]].id = a
        BY <1>0, <3>5 DEF Survives, KernelOK, TypeOK
      <4> QED
        BY <4>1 DEF ThreadsOf, Group, InTable
    <3>6. Survives(a) /\ Permitted(task[a], "stat") => exit' = 0
      BY <3>1, <3>4, <3>5
    <3>7. Permitted(task[a], "stat")' <=> Permitted(task[a], "stat")
      BY <1>5
    <3>8. ASSUME Survives(a)', Permitted(task[a], "stat")'
          PROVE  exit' = 0 /\ \A i \in ThreadsOf(a)' : Survives(i)' => ReportedOnce(i)'
      BY <1>5, <3>3, <3>4, <3>6, <3>7, <3>8
    <3> QED
      BY <1>5, <3>1, <3>2, <3>8 DEF SurvivorsReported
  <2>4. CASE ReportShow
    <3>1. cmd.name = "show" /\ exit' = 0 /\ ~ReportList
      BY <2>4 DEF ReportShow, ReportList, Return
    <3>2. PICK a \in Ids : a = cmd.arg
      BY <1>4
    <3>3. Survives(a) /\ Permitted(task[a], "stat") => Stays(a)
      BY <3>1 DEF Stays
    <3>4. Survives(a) /\ Permitted(task[a], "stat") => ReportedOnce(a)'
      <4>1. Len(rows) = 1 /\ rows[1].pid = a
        BY <1>0, <1>1, <3>1, <3>2 DEF ShapeOK
      <4>2. \E k \in 1 .. Len(rows) : rows[k].pid = a
        BY <4>1
      <4> QED
        BY <1>14, <3>1, <3>3, <4>2
    <3>5. Survives(a) /\ Permitted(task[a], "stat") /\ Permitted(task[a], "maps") /\ Mem(task[a]) > 0
             => regions' = task[a]
      BY <1>0, <1>1, <3>1, <3>2, <3>3 DEF RegionsOK
    <3>6. /\ Mem(task[a])' = Mem(task[a])
          /\ Permitted(task[a], "stat")' <=> Permitted(task[a], "stat")
          /\ Permitted(task[a], "maps")' <=> Permitted(task[a], "maps")
      BY <1>5
    <3>7. ASSUME Survives(a)', Permitted(task[a], "stat")'
          PROVE  /\ ReportedOnce(a)'
                 /\ Mem(task[a])' > 0 /\ Permitted(task[a], "maps")' => regions' = task'[a]
      BY <1>5, <3>4, <3>5, <3>6, <3>7
    <3> QED
      BY <1>5, <3>1, <3>2, <3>7 DEF SurvivorsReported
  <2>5. CASE ReportMaps
    <3>1. cmd.name = "maps" /\ exit' = (IF regions = 0 THEN 1 ELSE 0)
      BY <2>5 DEF ReportMaps, Return
    <3>2. PICK a \in Ids : a = cmd.arg
      BY <1>4
    <3>3. Survives(a) /\ Permitted(task[a], "maps") => Stays(a) /\ task[a] # 0
      <4>1. ASSUME Survives(a), Permitted(task[a], "maps") PROVE Permitted(task[a], "stat") /\ task[a] # 0
        <5>1. task[a] \in 1 .. Len(born)
          BY <1>0, <4>1 DEF Survives, TypeOK
        <5> QED
          BY <1>0, <4>1, <5>1, TaskFacts DEF Survives
      <4> QED
        BY <3>1, <4>1 DEF Stays
    <3>4. Survives(a) /\ Permitted(task[a], "maps") /\ Mem(task[a]) > 0 => regions' = task[a] /\ exit' = 0
      BY <1>0, <1>1, <3>1, <3>2, <3>3 DEF RegionsOK
    <3>5. /\ Mem(task[a])' = Mem(task[a])
          /\ Permitted(task[a], "maps")' <=> Permitted(task[a], "maps")
      BY <1>5
    <3>6. ASSUME Survives(a)', Permitted(task[a], "maps")', Mem(task[a])' > 0
          PROVE  exit' = 0 /\ regions' = task'[a]
      BY <1>5, <3>4, <3>5, <3>6
    <3> QED
      BY <1>5, <3>1, <3>2, <3>6 DEF SurvivorsReported
  <2> QED
    BY <2>1, <2>2, <2>3, <2>4, <2>5
<1> QED
  BY <1>5, <1>6, <1>7, <1>9, <1>10, <1>11, <1>12, <1>13, <1>16 DEF Inv

-----------------------------------------------------------------------------
(* The theorems *)

\* The state before main() starts.
LEMMA InitInv == Init => Inv
<1> SUFFICES ASSUME Init PROVE Inv
  OBVIOUS
<1>1. /\ born = <<[id |-> Self, group |-> 1]>> /\ live = {1}
      /\ task = [i \in Ids |-> IF i = Self THEN 1 ELSE 0]
      /\ cmd = [name |-> "list", arg |-> Self] /\ pc = "start"
      /\ todo = <<>> /\ fd = Closed /\ rows = <<>> /\ regions = 0 /\ exit = Running
      /\ cut = [key |-> "rss", limit |-> 0, rows |-> {}]
      /\ atStart = [i \in Ids |-> 0]
  BY DEF Init
<1>2. 1 \in Births /\ 1 <= Len(NameOf)
  BY ConstantFacts DEF Births
<1>3. born \in Seq([id : Ids, group : Births]) /\ Len(born) = 1 /\ born[1].id = Self
  BY <1>1, <1>2, ConstantFacts
<1>4. TypeOK
  <2>1. cmd \in Commands
    BY <1>1 DEF Commands
  <2>2. task \in [Ids -> 0 .. 1] /\ atStart \in [Ids -> 0 .. 1] /\ live \subseteq 1 .. 1
    BY <1>1
  <2>3. cut \in [key : Keys, limit : Nat, rows : SUBSET Row]
    BY <1>1 DEF Keys
  <2> QED
    BY <1>1, <1>3, <2>1, <2>2, <2>3 DEF TypeOK
<1>5. KernelOK
  BY <1>1, <1>2, <1>3, ConstantFacts DEF KernelOK
<1>6. ShapeOK /\ EntriesOK /\ FdOK /\ RowsOK /\ ListedOK /\ CoverOK /\ RegionsOK /\ SurvivorsReported
  BY <1>1 DEF ShapeOK, Files, Running, EntriesOK, FdOK, RowsOK, ListedOK, CoverOK, RegionsOK, SurvivorsReported
<1> QED
  BY <1>4, <1>5, <1>6 DEF Inv

\* Nothing happens.
LEMMA StutterInv == Inv /\ UNCHANGED vars => Inv'
<1> SUFFICES ASSUME Inv, UNCHANGED vars PROVE Inv'
  OBVIOUS
<1>1. /\ born' = born /\ task' = task /\ live' = live /\ cmd' = cmd /\ pc' = pc /\ todo' = todo
      /\ fd' = fd /\ rows' = rows /\ regions' = regions /\ cut' = cut /\ exit' = exit
      /\ atStart' = atStart
  BY DEF vars, kernelVars, progVars
<1>2. TypeOK' /\ KernelOK' /\ ShapeOK' /\ EntriesOK'
  BY <1>1 DEF Inv, TypeOK, KernelOK, ShapeOK, EntriesOK, Files, cur
<1>3. /\ \A b : Mem(b)' = Mem(b)
      /\ \A b, f : Permitted(b, f)' <=> Permitted(b, f)
      /\ \A b : Leader(b)' <=> Leader(b)
      /\ \A i : Survives(i)' <=> Survives(i)
      /\ \A i : Stays(i)' <=> Stays(i)
      /\ \A i : Owed(i)' <=> Owed(i)
      /\ \A r : Genuine(r)' <=> Genuine(r)
      /\ \A r : RowStays(r)' <=> RowStays(r)
      /\ \A r : StatusStays(r)' <=> StatusStays(r)
  BY <1>1, SameKernel DEF kernelVars
<1>4. FdOK'
  BY <1>1, <1>3 DEF Inv, FdOK, MapsToo, cur
<1>5. RowsOK'
  BY <1>1, <1>3 DEF Inv, RowsOK
<1>6. ListedOK' /\ CoverOK'
  BY <1>1, <1>3 DEF Inv, ListedOK, CoverOK
<1>7. RegionsOK'
  BY <1>1, <1>3 DEF Inv, RegionsOK
<1>8. SurvivorsReported'
  <2>1. \A i : (ReportedOnce(i)' <=> ReportedOnce(i)) /\ (CrowdedOut(i)' <=> CrowdedOut(i))
    <3>1. \A i : RowsOf(i)' = RowsOf(i)
      BY <1>1 DEF RowsOf
    <3>2. \A r, i : InFull(r, i)' <=> InFull(r, i)
      BY <1>1, <1>3 DEF InFull
    <3> QED
      BY <1>1, <3>1, <3>2 DEF ReportedOnce, CrowdedOut, Before
  <2>2. Processes' = Processes
    BY <1>1, <1>3 DEF Processes
  <2>3. \A i : ThreadsOf(i)' = ThreadsOf(i)
    BY <1>1 DEF ThreadsOf, Group, InTable
  <2> QED
    BY <1>1, <1>3, <2>1, <2>2, <2>3 DEF Inv, SurvivorsReported
<1> QED
  BY <1>2, <1>4, <1>5, <1>6, <1>7, <1>8 DEF Inv

\* The invariant holds in every reachable state, for any number of PIDs and
\* tasks and any names.
THEOREM ProcmonInvariant == Spec => []Inv
<1>1. Inv /\ [Next]_vars => Inv'
  <2>1. Inv /\ ProcmonStep => Inv'
    BY StartInv, ReadDirInv, ReadDirEndInv, ReadTaskDirInv, NextEntryInv, OpenFileInv, ReadStatInv,
       SkipGoneInv, ShowGoneInv, ReadStatusInv, ReadCmdlineInv, ReadMapsInv, ReportInv
       DEF ProcmonStep
  <2> QED
    BY <2>1, KernelStepInv, StutterInv DEF Next, Over
<1> QED
  BY InitInv, <1>1, PTL DEF Spec

\* Every variable keeps its type; what stat says is parsed into a Row whatever
\* characters the name is made of.
THEOREM TypeCorrect == Spec => []TypeOK
<1>1. Inv => TypeOK
  BY DEF Inv
<1> QED
  BY <1>1, ProcmonInvariant, PTL

\* No row is made up (RowsGenuine): each is about one task that had the PID,
\* and mixes two only where the PID was taken over during the scan.
THEOREM RowsGenuineHolds == Spec => []RowsGenuine
<1>1. Inv => RowsGenuine
  <2>1. SUFFICES ASSUME Inv, NEW k \in 1 .. Len(rows)
                 PROVE  /\ Genuine(rows[k])
                        /\ \A j \in 1 .. Len(rows) : rows[j].start = rows[k].start => j = k
    BY DEF RowsGenuine, Genuine
  <2>2. RowsOK /\ EntriesOK
    BY <2>1 DEF Inv
  <2>3. \A j \in 1 .. Len(rows) : Genuine(rows[j]) /\ born[rows[j].start].id = rows[j].pid
    BY <2>2 DEF RowsOK, Genuine
  <2> QED
    BY <2>2, <2>3 DEF EntriesOK
<1> QED
  BY <1>1, ProcmonInvariant, PTL

\* What stays and may be read is reported once and in full, or is below as many
\* rows as --limit allows (SurvivorsReported), whatever comes, goes and takes
\* over PIDs meanwhile, for any permissions and any limits.
THEOREM SurvivorsReportedHolds == Spec => []SurvivorsReported
<1>1. Inv => SurvivorsReported
  BY DEF Inv
<1> QED
  BY <1>1, ProcmonInvariant, PTL
=============================================================================
