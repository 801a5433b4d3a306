------------------------- MODULE UringServerProofs -------------------------
(***************************************************************************)
(* Theorems about UringServer, for any number of clients, descriptors and  *)
(* bytes, any buffer size and queue depth, and with failing submissions.   *)
(*                                                                         *)
(* The properties count operations in the rings.  The proofs reason with   *)
(* where an operation is instead: Placed says that it is in at most one    *)
(* place, Pend is the set of those that are somewhere, and each step of    *)
(* the code moves one operation.  Then come who owns a descriptor (the map *)
(* or an accept that is not handled yet) and where a connection's bytes    *)
(* are (in its Conn's buffer, or already sent by an unhandled send).       *)
(***************************************************************************)
EXTENDS UringServer, SocketsProofs

-----------------------------------------------------------------------------
(* The rings *)

Ring == [sq : Seq(Op), inflight : SUBSET Op]

\* Every operation in the rings is in one place, once.
Placed(r, q) ==
    /\ \A i, j \in 1 .. Len(r.sq) : r.sq[i] = r.sq[j] => i = j
    /\ \A i, j \in 1 .. Len(q) : q[i].op = q[j].op => i = j
    /\ \A i \in 1 .. Len(r.sq) : r.sq[i] \notin r.inflight
    /\ \A i \in 1 .. Len(q) : q[i].op \notin r.inflight
    /\ \A i \in 1 .. Len(r.sq), j \in 1 .. Len(q) : r.sq[i] # q[j].op

Queued(r) == {r.sq[i] : i \in 1 .. Len(r.sq)}
Waiting(r) == Queued(r) \union r.inflight
Cqes(q) == {q[i] : i \in 1 .. Len(q)}

\* The operations that are somewhere in the rings.
Pend(r, q) == Waiting(r) \union {e.op : e \in Cqes(q)}

-----------------------------------------------------------------------------
(* The inductive invariant *)

\* The operations the server makes.
GoodOp(op) ==
    \/ op = AcceptOp \/ op = SignalOp
    \/ \E o \in Objs : op = RecvOp(o) \/ op = SendOp(o)

\* A Conn has one operation under way exactly while it is in the map; an accept
\* is, unless a submission failed.
OpsOK ==
    /\ Placed(ring, cq)
    /\ \A op \in Pend(ring, cq) : GoodOp(op)
    /\ \A o \in Objs :
          /\ o \in Live <=> RecvOp(o) \in Pend(ring, cq) \/ SendOp(o) \in Pend(ring, cq)
          /\ ~(RecvOp(o) \in Pend(ring, cq) /\ SendOp(o) \in Pend(ring, cq))
    /\ ~faulty => AcceptOp \in Pend(ring, cq)

\* The map and the Conns it owns.
MapOK ==
    /\ \A f \in Fds : connections[f] # None => objFd[connections[f]] = f
    /\ \A o \in Objs : objFd[o] # None => connections[objFd[o]] = o
    /\ stats.accepted = stats.closed + Cardinality({f \in Fds : connections[f] # None})

\* A descriptor is open for the map or for an accept that is not handled yet,
\* never for both, and stands for an open connection of its own.
FdsOK ==
    /\ \A f \in Fds : fdtab[f] # None <=>
          connections[f] # None \/ \E e \in Cqes(cq) : e.fd = f
    /\ \A e \in Cqes(cq) : e.fd # None => connections[e.fd] = None
    /\ \A f \in Fds : fdtab[f] # None => srv[fdtab[f]] = "open"
    /\ \A f, g \in Fds : fdtab[f] # None /\ fdtab[f] = fdtab[g] => f = g

\* What a completion says about the descriptor, the buffer and the client.
AcceptMeans(e) == e.op = AcceptOp /\ (e.res < 0 <=> e.fd = None)
SignalMeans(e) == e.op = SignalOp /\ e.fd = None /\ sig # "none"
RecvMeans(e, o) ==
    /\ e.op = RecvOp(o) /\ e.fd = None
    /\ e.res > 0 => objBuf[o] # <<>>
    /\ e.res <= 0 => Gone(ConnOf(o)) \/ BufSize = 0
SendMeans(e, o) ==
    /\ e.op = SendOp(o) /\ e.fd = None
    /\ e.res > 0 => e.res <= Len(objBuf[o])
    /\ e.res <= 0 => e.res # 0 /\ Gone(ConnOf(o))

CqOK ==
    \A e \in Cqes(cq) :
        \/ AcceptMeans(e) \/ SignalMeans(e)
        \/ \E o \in Objs : RecvMeans(e, o) \/ SendMeans(e, o)

\* A Conn's buffer is empty before a recv and not empty before a send.
BufOK ==
    \A o \in Objs :
        /\ RecvOp(o) \in Waiting(ring) => objBuf[o] = <<>>
        /\ SendOp(o) \in Pend(ring, cq) => objBuf[o] # <<>>

\* What the server holds of o's connection: its buffer, without the part that
\* an unhandled send has taken.
SentBy(e, o) == e.op = SendOp(o) /\ e.res > 0

ObjData(o) ==
    /\ (\A e \in Cqes(cq) : ~SentBy(e, o)) => Whole(ConnOf(o), objBuf[o])
    /\ \A e \in Cqes(cq) : SentBy(e, o) =>
          Whole(ConnOf(o), SubSeq(objBuf[o], e.res + 1, Len(objBuf[o])))

\* No byte of a connection is missing; none is held before its Conn exists.
DataOK ==
    /\ \A c \in Conns : srv[c] \in {"none", "queued"} => Whole(c, <<>>)
    /\ \A e \in Cqes(cq) : e.fd # None => Whole(fdtab[e.fd], <<>>)
    /\ \A o \in Live : ObjData(o)

\* The loop ends only for a signal.
StopOK == running \/ sig # "none"

Inv == TypeOK /\ SockOK /\ OpsOK /\ MapOK /\ FdsOK /\ CqOK /\ BufOK /\ DataOK /\ StopOK

-----------------------------------------------------------------------------
(* Operations and rings *)

\* Operations are told apart by their type and their Conn.
LEMMA OpsDiffer ==
    /\ AcceptOp # SignalOp /\ AcceptOp \in Op /\ SignalOp \in Op
    /\ AcceptOp.type = "accept" /\ SignalOp.type = "signal"
    /\ \A o : /\ RecvOp(o).type = "recv" /\ RecvOp(o).obj = o
              /\ SendOp(o).type = "send" /\ SendOp(o).obj = o
    /\ \A o \in Objs : RecvOp(o) \in Op /\ SendOp(o) \in Op
    /\ \A o : /\ RecvOp(o) # AcceptOp /\ RecvOp(o) # SignalOp
              /\ SendOp(o) # AcceptOp /\ SendOp(o) # SignalOp
    /\ \A o, p : /\ RecvOp(o) # SendOp(p)
                 /\ RecvOp(o) = RecvOp(p) => o = p
                 /\ SendOp(o) = SendOp(p) => o = p
BY DEF AcceptOp, SignalOp, RecvOp, SendOp, Op

\* A submission moves operations into the kernel.
LEMMA SubmitFacts ==
    ASSUME NEW r \in Ring, NEW q \in Seq(Cqe), Placed(r, q)
    PROVE  /\ Submit(r) \in Ring /\ Submit(r).sq = <<>>
           /\ Submit(r).inflight = r.inflight \union Queued(r)
           /\ Queued(Submit(r)) = {} /\ Waiting(Submit(r)) = Waiting(r)
           /\ Placed(Submit(r), q)
           /\ Pend(Submit(r), q) = Pend(r, q)
<1>1. r.sq \in Seq(Op) /\ r.inflight \in SUBSET Op
  BY DEF Ring
<1>2. ToSet(r.sq) = Queued(r) /\ Queued(r) \subseteq Op
  BY <1>1 DEF ToSet, Queued
<1>3. /\ Submit(r).sq = <<>> /\ Submit(r).inflight = r.inflight \union Queued(r)
      /\ Submit(r) \in Ring
  BY <1>1, <1>2 DEF Submit, Ring
<1>4. Queued(Submit(r)) = {}
  BY <1>3 DEF Queued
<1>5. Placed(Submit(r), q)
  BY <1>3 DEF Placed, Queued
<1>6. Waiting(Submit(r)) = Waiting(r) /\ Pend(Submit(r), q) = Pend(r, q)
  BY <1>3, <1>4 DEF Pend, Waiting
<1> QED
  BY <1>3, <1>4, <1>5, <1>6

\* An entry at the end of a queue that has room.
LEMMA AppendFacts ==
    ASSUME NEW r \in Ring, NEW q \in Seq(Cqe), Placed(r, q),
           NEW op \in Op, op \notin Pend(r, q), Len(r.sq) < QDepth,
           NEW t \in Ring, t.sq = Append(r.sq, op), t.inflight = r.inflight
    PROVE  /\ Len(t.sq) <= QDepth
           /\ Queued(t) = Queued(r) \union {op}
           /\ Placed(t, q)
           /\ Pend(t, q) = Pend(r, q) \union {op}
<1>1. r.sq \in Seq(Op) /\ r.inflight \in SUBSET Op /\ Len(r.sq) \in Nat
  BY DEF Ring
<1>3. /\ Len(t.sq) = Len(r.sq) + 1 /\ t.sq[Len(r.sq) + 1] = op
      /\ \A i \in 1 .. Len(r.sq) : t.sq[i] = r.sq[i]
  BY <1>1
<1>4. Len(t.sq) <= QDepth
  BY <1>1, <1>3, UringAssumption
<1>5. \A i \in 1 .. Len(t.sq) : i \in 1 .. Len(r.sq) \/ i = Len(r.sq) + 1
  BY <1>1, <1>3
<1>6. \A i \in 1 .. Len(r.sq) : i \in 1 .. Len(t.sq)
  BY <1>1, <1>3
<1>7. Queued(t) = Queued(r) \union {op}
  <2>1. Len(r.sq) + 1 \in 1 .. Len(t.sq)
    BY <1>1, <1>3
  <2> QED
    BY <1>3, <1>5, <1>6, <2>1 DEF Queued
<1>8. \A i \in 1 .. Len(r.sq) : r.sq[i] # op
  BY DEF Pend, Waiting, Queued
<1>9. op \notin r.inflight /\ \A j \in 1 .. Len(q) : q[j].op # op
  BY DEF Pend, Waiting, Cqes
<1>10. Placed(t, q)
  BY <1>3, <1>5, <1>8, <1>9 DEF Placed
<1>11. Pend(t, q) = Pend(r, q) \union {op}
  BY <1>7 DEF Pend, Waiting
<1> QED
  BY <1>4, <1>7, <1>10, <1>11

\* The ring s has one operation more.
Adds(r, s, q, op) == Pend(s, q) = Pend(r, q) \union {op}

\* next_sqe(): op is queued, or nothing changes and the submission failed.
LEMMA PrepFacts ==
    ASSUME NEW r \in Ring, Len(r.sq) <= QDepth, NEW q \in Seq(Cqe), Placed(r, q),
           NEW op \in Op, op \notin Pend(r, q), NEW p \in Prep(r, op)
    PROVE  /\ p.ring \in Ring /\ Len(p.ring.sq) <= QDepth /\ Placed(p.ring, q)
           /\ Waiting(p.ring) \subseteq Waiting(r) \union {op}
           /\ p.ok => Adds(r, p.ring, q, op)
           /\ ~p.ok => p.ring = r /\ faulty
<1>0. r.sq \in Seq(Op) /\ Len(r.sq) \in Nat /\ QDepth \in Nat /\ QDepth > 1
  BY UringAssumption DEF Ring
<1>1. CASE Len(r.sq) < QDepth
  <2>1. p.ring = [r EXCEPT !.sq = Append(r.sq, op)] /\ p.ok = TRUE
    BY <1>1 DEF Prep
  <2>2. Append(r.sq, op) \in Seq(Op)
    BY <1>0
  <2>3. p.ring \in Ring /\ p.ring.sq = Append(r.sq, op) /\ p.ring.inflight = r.inflight
    BY <2>1, <2>2 DEF Ring
  <2>4. PICK t : t = p.ring
    OBVIOUS
  <2>5. t \in Ring /\ t.sq = Append(r.sq, op) /\ t.inflight = r.inflight
    BY <2>3, <2>4
  <2>6. /\ Len(t.sq) <= QDepth /\ Queued(t) = Queued(r) \union {op}
        /\ Placed(t, q) /\ Pend(t, q) = Pend(r, q) \union {op}
    BY <1>1, <2>5, AppendFacts
  <2> QED
    BY <2>1, <2>4, <2>5, <2>6 DEF Waiting, Adds
<1>2. CASE ~(Len(r.sq) < QDepth)
  <2>1. CASE p = [ring |-> [Submit(r) EXCEPT !.sq = <<op>>], ok |-> TRUE]
    <3>0. PICK s : s = Submit(r)
      OBVIOUS
    <3>1. /\ s \in Ring /\ s.sq = <<>>
          /\ s.inflight = r.inflight \union Queued(r)
          /\ Queued(s) = {} /\ Placed(s, q) /\ Pend(s, q) = Pend(r, q)
      BY <3>0, SubmitFacts
    <3>2. PICK t : t = [s EXCEPT !.sq = <<op>>]
      OBVIOUS
    <3>3. p.ok = TRUE /\ p.ring = t
      BY <2>1, <3>0, <3>2
    <3>4. <<op>> \in Seq(Op) /\ Append(<<>>, op) = <<op>>
      OBVIOUS
    <3>5. t \in Ring /\ t.sq = Append(s.sq, op) /\ t.inflight = s.inflight
      BY <3>1, <3>2, <3>4 DEF Ring
    <3>6. s \in Ring /\ Placed(s, q) /\ op \notin Pend(s, q) /\ Len(s.sq) < QDepth
      BY <1>0, <3>1
    <3>7. /\ Len(t.sq) <= QDepth /\ Queued(t) = Queued(s) \union {op}
          /\ Placed(t, q) /\ Pend(t, q) = Pend(s, q) \union {op}
      BY <3>5, <3>6, AppendFacts
    <3> QED
      BY <3>1, <3>3, <3>5, <3>7 DEF Waiting, Adds
  <2>2. CASE faulty /\ p = [ring |-> r, ok |-> FALSE]
    BY <2>2
  <2> QED
    BY <1>2, <2>1, <2>2 DEF Prep
<1> QED
  BY <1>1, <1>2

\* The server takes the completion at the head of the queue.
LEMMA TailFacts ==
    ASSUME NEW r \in Ring, NEW q \in Seq(Cqe), Placed(r, q), q # <<>>
    PROVE  /\ Head(q) \in Cqe /\ Head(q) \in Cqes(q) /\ Head(q).op \in Pend(r, q)
           /\ Tail(q) \in Seq(Cqe)
           /\ Cqes(Tail(q)) = Cqes(q) \ {Head(q)}
           /\ \A x \in Cqes(Tail(q)) : x.op # Head(q).op
           /\ Head(q).op \notin Waiting(r)
           /\ Placed(r, Tail(q))
           /\ Pend(r, Tail(q)) = Pend(r, q) \ {Head(q).op}
<1>1. /\ Len(q) \in Nat /\ Len(q) > 0 /\ Head(q) = q[1] /\ Head(q) \in Cqe
      /\ Tail(q) \in Seq(Cqe) /\ Len(Tail(q)) = Len(q) - 1
      /\ \A i \in 1 .. Len(Tail(q)) : Tail(q)[i] = q[i + 1]
  OBVIOUS
<1>2. /\ 1 \in 1 .. Len(q)
      /\ \A i \in 1 .. Len(Tail(q)) : i + 1 \in 1 .. Len(q) /\ i + 1 # 1
      /\ \A i \in 1 .. Len(q) : i = 1 \/ (i - 1 \in 1 .. Len(Tail(q)) /\ (i - 1) + 1 = i)
  BY <1>1
<1>3. \A i \in 1 .. Len(Tail(q)) : Tail(q)[i].op # Head(q).op
  BY <1>1, <1>2 DEF Placed
<1>4. /\ Head(q) \in Cqes(q)
      /\ \A x \in Cqes(Tail(q)) : x \in Cqes(q) /\ x.op # Head(q).op
      /\ \A x \in Cqes(q) : x = Head(q) \/ x \in Cqes(Tail(q))
  <2>1. Head(q) \in Cqes(q)
    BY <1>1, <1>2 DEF Cqes
  <2>2. ASSUME NEW x \in Cqes(Tail(q)) PROVE x \in Cqes(q) /\ x.op # Head(q).op
    <3>1. PICK i \in 1 .. Len(Tail(q)) : x = Tail(q)[i]
      BY DEF Cqes
    <3>2. x = q[i + 1] /\ i + 1 \in 1 .. Len(q)
      BY <1>1, <1>2, <3>1
    <3> QED
      BY <1>3, <3>1, <3>2 DEF Cqes
  <2>3. ASSUME NEW x \in Cqes(q) PROVE x = Head(q) \/ x \in Cqes(Tail(q))
    <3>1. PICK i \in 1 .. Len(q) : x = q[i]
      BY DEF Cqes
    <3>2. i = 1 \/ (i - 1 \in 1 .. Len(Tail(q)) /\ x = Tail(q)[i - 1])
      BY <1>1, <1>2, <3>1
    <3> QED
      BY <1>1, <3>1, <3>2 DEF Cqes
  <2> QED
    BY <2>1, <2>2, <2>3
<1>5. Cqes(Tail(q)) = Cqes(q) \ {Head(q)}
  BY <1>4
<1>6. Head(q).op \notin Waiting(r)
  BY <1>1, <1>2 DEF Placed, Queued, Waiting
<1>7. Placed(r, Tail(q))
  BY <1>1, <1>2 DEF Placed
<1>8. Pend(r, Tail(q)) = Pend(r, q) \ {Head(q).op} /\ Head(q).op \in Pend(r, q)
  BY <1>4, <1>6 DEF Pend, Waiting
<1> QED
  BY <1>1, <1>4, <1>5, <1>6, <1>7, <1>8

\* The lowest free descriptor is a free descriptor.
LEMMA MinFacts ==
    ASSUME NEW S, S \subseteq Nat, S # {}
    PROVE  Min(S) \in S
<1> DEFINE R == {ss \in Nat \X Nat : ss[1] < ss[2]}
<1>1. IsWellFoundedOn(R, Nat)
  BY NatLessThanWellFounded, Zenon DEF OpToRel
<1>2. PICK x \in S : \A y \in S : ~(<<y, x>> \in R)
  BY <1>1, WFMin
<1>3. \A y \in S : x <= y
  <2> SUFFICES ASSUME NEW y \in S PROVE x <= y
    OBVIOUS
  <2>1. x \in Nat /\ y \in Nat /\ <<y, x>> \in Nat \X Nat /\ <<y, x>>[1] = y /\ <<y, x>>[2] = x
    OBVIOUS
  <2>2. ~(y < x)
    BY <1>2, <2>1
  <2> QED
    BY <2>1, <2>2
<1> QED
  BY <1>3 DEF Min

-----------------------------------------------------------------------------
(* States *)

\* A Conn in the map has its own descriptor and its own open connection.
LEMMA LiveFacts ==
    ASSUME Inv, NEW o \in Live
    PROVE  /\ o \in Objs /\ objFd[o] \in Fds /\ connections[objFd[o]] = o
           /\ ConnOf(o) \in Conns /\ srv[ConnOf(o)] = "open"
           /\ \A p \in Live : ConnOf(p) = ConnOf(o) => p = o
<1>1. \A p \in Live : /\ p \in Objs /\ objFd[p] \in Fds /\ connections[objFd[p]] = p
                      /\ fdtab[objFd[p]] # None
  <2> SUFFICES ASSUME NEW p \in Live
               PROVE  /\ p \in Objs /\ objFd[p] \in Fds /\ connections[objFd[p]] = p
                      /\ fdtab[objFd[p]] # None
    OBVIOUS
  <2>1. PICK f \in Fds : connections[f] = p
    BY DEF Live
  <2>2. p \in Objs /\ p # None
    BY UringAssumption DEF Live
  <2>3. objFd[p] = f
    BY <2>1, <2>2 DEF Inv, MapOK
  <2> QED
    BY <2>1, <2>2, <2>3 DEF Inv, FdsOK
<1>2. ConnOf(o) \in Conns
  BY <1>1 DEF ConnOf, Inv, TypeOK
<1>3. srv[ConnOf(o)] = "open"
  BY <1>1 DEF ConnOf, Inv, FdsOK
<1>4. \A p \in Live : ConnOf(p) = ConnOf(o) => p = o
  BY <1>1 DEF ConnOf, Inv, FdsOK
<1> QED
  BY <1>1, <1>2, <1>3, <1>4

\* An operation on a Conn is on one that is in the map, and is its only one.
LEMMA PendFacts ==
    ASSUME Inv, NEW o, RecvOp(o) \in Pend(ring, cq) \/ SendOp(o) \in Pend(ring, cq)
    PROVE  /\ o \in Objs /\ o \in Live
           /\ ~(RecvOp(o) \in Pend(ring, cq) /\ SendOp(o) \in Pend(ring, cq))
<1>1. o \in Objs
  BY OpsDiffer DEF Inv, OpsOK, GoodOp
<1> QED
  BY <1>1 DEF Inv, OpsOK

\* There is room for another Conn while a descriptor is not in the map.
LEMMA NewObjFacts ==
    ASSUME Inv, NEW f \in Fds, connections[f] = None
    PROVE  NewObj \in Objs /\ NewObj \notin Live
<1>1. \E o \in Objs : o \notin Live
  <2> SUFFICES ASSUME \A o \in Objs : o \in Live PROVE FALSE
    OBVIOUS
  <2> DEFINE g == [o \in Objs |-> objFd[o]]
  <2>1. \A o \in Objs : objFd[o] \in Fds /\ connections[objFd[o]] = o /\ o # None
    BY LiveFacts, UringAssumption
  <2>2. g \in [Objs -> Fds \ {f}]
    BY <2>1
  <2>3. IsInjective(g)
    BY <2>1 DEF IsInjective
  <2>4. g \in Injection(Objs, Fds \ {f})
    BY <2>2, <2>3 DEF Injection
  <2>5. IsFiniteSet(Fds \ {f}) /\ Cardinality(Fds \ {f}) = Cardinality(Fds) - 1
    BY UringAssumption, FS_RemoveElement
  <2>6. Cardinality(Objs) <= Cardinality(Fds \ {f})
    BY <2>4, <2>5, UringAssumption, FS_Injection
  <2>7. Cardinality(Objs) \in Nat /\ Cardinality(Fds) \in Nat
    BY UringAssumption, FS_CardinalityType
  <2> QED
    BY <2>5, <2>6, <2>7, UringAssumption
<1> QED
  BY <1>1 DEF NewObj

\* What the completion at the head says.
LEMMA HeadFacts ==
    ASSUME Inv, cq # <<>>
    PROVE  /\ Head(cq) \in Cqe /\ Head(cq) \in Cqes(cq) /\ Head(cq).op \in Pend(ring, cq)
           /\ Tail(cq) \in Seq(Cqe)
           /\ Cqes(Tail(cq)) = Cqes(cq) \ {Head(cq)}
           /\ \A e \in Cqes(Tail(cq)) : e.op # Head(cq).op
           /\ Head(cq).op \notin Waiting(ring)
           /\ Placed(ring, Tail(cq)) /\ Pend(ring, Tail(cq)) = Pend(ring, cq) \ {Head(cq).op}
           /\ Head(cq).op.type = "signal" => SignalMeans(Head(cq))
           /\ Head(cq).op.type = "accept" => AcceptMeans(Head(cq))
           /\ Head(cq).op.type = "recv" => RecvMeans(Head(cq), obj) /\ obj \in Live
           /\ Head(cq).op.type = "send" => SendMeans(Head(cq), obj) /\ obj \in Live
<1>1. ring \in Ring /\ cq \in Seq(Cqe) /\ Placed(ring, cq)
  BY DEF Inv, TypeOK, OpsOK, Ring
<1>2. /\ Head(cq) \in Cqe /\ Head(cq) \in Cqes(cq) /\ Head(cq).op \in Pend(ring, cq)
      /\ Tail(cq) \in Seq(Cqe)
      /\ Cqes(Tail(cq)) = Cqes(cq) \ {Head(cq)}
      /\ \A e \in Cqes(Tail(cq)) : e.op # Head(cq).op
      /\ Head(cq).op \notin Waiting(ring)
      /\ Placed(ring, Tail(cq)) /\ Pend(ring, Tail(cq)) = Pend(ring, cq) \ {Head(cq).op}
  BY <1>1, TailFacts
<1>3. PICK h : h = Head(cq)
  OBVIOUS
<1>4. AcceptMeans(h) \/ SignalMeans(h) \/ \E o \in Objs : RecvMeans(h, o) \/ SendMeans(h, o)
  BY <1>2, <1>3 DEF Inv, CqOK
<1>5. /\ h.op.type = "signal" => SignalMeans(h)
      /\ h.op.type = "accept" => AcceptMeans(h)
      /\ h.op.type = "recv" => RecvMeans(h, h.op.obj) /\ h.op = RecvOp(h.op.obj)
      /\ h.op.type = "send" => SendMeans(h, h.op.obj) /\ h.op = SendOp(h.op.obj)
  BY <1>4, OpsDiffer DEF AcceptMeans, SignalMeans, RecvMeans, SendMeans
<1>6. obj = h.op.obj
  BY <1>3 DEF obj
<1> QED
  BY <1>2, <1>3, <1>5, <1>6, PendFacts

-----------------------------------------------------------------------------
(* Every step preserves the invariant *)

\* start() establishes the invariant.
LEMMA InitInv == Init => Inv
<1> SUFFICES ASSUME Init PROVE Inv
  OBVIOUS
<1> USE DEF Init, SocketsInit
<1>1. \A c \in Conns : Reply(c) = <<>> /\ Stream(c) = <<>> /\ inq[c] = <<>>
  BY DEF Reply, Stream
<1>2. /\ ring \in Ring /\ Len(ring.sq) = 2 /\ ring.sq[1] = AcceptOp /\ ring.sq[2] = SignalOp
      /\ ring.inflight = {} /\ Len(cq) = 0
  BY OpsDiffer DEF Ring
<1>3. TypeOK
  <2>1. SocketsTypeOK
    BY DEF SocketsTypeOK, Links, Sides
  <2>2. ring \in [sq : Seq(Op), inflight : SUBSET Op] /\ Len(ring.sq) <= QDepth
    BY <1>2, UringAssumption DEF Ring
  <2>3. /\ pc \in {"enter", "wait", "handle", "exited"}
        /\ running \in BOOLEAN /\ cq \in Seq(Cqe)
        /\ connections \in [Fds -> Objs \union {None}]
        /\ objFd \in [Objs -> Fds \union {None}]
        /\ fdtab \in [Fds -> Conns \union {None}]
    BY UringAssumption
  <2>4. <<>> \in Seq(Bytes)
    OBVIOUS
  <2>5. objBuf \in [Objs -> Seq(Bytes)]
    BY <2>4
  <2>6. stats \in [accepted : Nat, closed : Nat, requests : Nat, bytes : Nat]
    OBVIOUS
  <2>7. faulty \in BOOLEAN
    BY UringAssumption, Zenon
  <2> QED
    BY <2>1, <2>2, <2>3, <2>5, <2>6, <2>7 DEF TypeOK
<1>4. SockOK
  <2>1. QueueOK /\ LinkOK
    BY DEF QueueOK, LinkOK
  <2>2. ReplyOK
    BY <1>1, PrefixZero, \A c \in Conns : sent[c] = 0 DEF ReplyOK
  <2> QED
    BY <1>3, <2>1, <2>2 DEF SockOK, TypeOK
<1>5. Cqes(cq) = {} /\ Waiting(ring) = {AcceptOp, SignalOp} /\ Live = {}
  <2>1. 1 .. 2 = {1, 2} /\ 1 .. 0 = {}
    OBVIOUS
  <2>2. Queued(ring) = {AcceptOp, SignalOp} /\ Cqes(cq) = {}
    BY <1>2, <2>1 DEF Queued, Cqes
  <2>3. Live = {}
    BY UringAssumption DEF Live
  <2> QED
    BY <1>2, <2>2, <2>3 DEF Waiting
<1>6. Pend(ring, cq) = {AcceptOp, SignalOp}
  BY <1>5 DEF Pend
<1>7. Placed(ring, cq)
  BY <1>2, OpsDiffer DEF Placed
<1>8. OpsOK
  BY <1>5, <1>6, <1>7, OpsDiffer DEF OpsOK, GoodOp
<1>9. MapOK
  <2>1. {f \in Fds : connections[f] # None} = {}
    OBVIOUS
  <2>2. stats.accepted = 0 /\ stats.closed = 0
    OBVIOUS
  <2> HIDE DEF Init, SocketsInit
  <2>3. stats.accepted = stats.closed + Cardinality({f \in Fds : connections[f] # None})
    BY <2>1, <2>2, FS_EmptySet
  <2> QED
    BY <2>3, UringAssumption DEF MapOK, Init
<1>10. FdsOK /\ CqOK /\ StopOK
  BY <1>5 DEF FdsOK, CqOK, StopOK
<1>11. BufOK
  BY <1>5, <1>6, OpsDiffer DEF BufOK
<1>12. DataOK
  <2>1. <<>> \o <<>> \o <<>> = <<>>
    OBVIOUS
  <2> HIDE DEF Init, SocketsInit
  <2> QED
    BY <1>1, <1>5, <2>1 DEF DataOK, Whole
<1> QED
  BY <1>3, <1>4, <1>8, <1>9, <1>10, <1>11, <1>12 DEF Inv

\* What an unhandled accept returned is the descriptor of an open connection
\* that is not in the map.
LEMMA CqeFacts ==
    ASSUME Inv, NEW e \in Cqes(cq)
    PROVE  /\ e \in Cqe
           /\ e.fd # None => /\ e.fd \in Fds /\ fdtab[e.fd] \in Conns
                             /\ srv[fdtab[e.fd]] = "open" /\ connections[e.fd] = None
<1>1. e \in Cqe
  BY ElementOfSeq DEF Inv, TypeOK, Cqes
<1>2. e.fd # None => e.fd \in Fds
  BY <1>1 DEF Cqe
<1>3. e.fd # None => fdtab[e.fd] # None
  BY <1>2 DEF Inv, FdsOK
<1> QED
  BY <1>1, <1>2, <1>3 DEF Inv, TypeOK, FdsOK

\* A connection that was accepted and has no Conn yet is no Conn's connection.
LEMMA HeldApart ==
    ASSUME Inv, NEW o \in Live, NEW e \in Cqes(cq), e.fd # None
    PROVE  fdtab[e.fd] # ConnOf(o) /\ e.fd # objFd[o]
<1>1. connections[objFd[o]] = o /\ objFd[o] \in Fds /\ o # None
  BY LiveFacts, UringAssumption
<1>2. connections[e.fd] = None /\ e.fd \in Fds /\ fdtab[e.fd] # None
  BY CqeFacts, UringAssumption
<1> QED
  BY <1>1, <1>2 DEF Inv, FdsOK, ConnOf

\* The cut that an unhandled send makes leaves bytes.
LEMMA RestTypes ==
    ASSUME Inv, NEW o \in Live
    PROVE  /\ objBuf[o] \in Seq(Bytes) /\ Len(objBuf[o]) \in Nat
           /\ \A e \in Cqes(cq) : SentBy(e, o) =>
                 /\ e.res \in 1 .. Len(objBuf[o])
                 /\ SubSeq(objBuf[o], e.res + 1, Len(objBuf[o])) \in Seq(Bytes)
<1>1. objBuf[o] \in Seq(Bytes) /\ Len(objBuf[o]) \in Nat
  BY LiveFacts DEF Inv, TypeOK
<1>2. ASSUME NEW e \in Cqes(cq), SentBy(e, o)
      PROVE  /\ e.res \in 1 .. Len(objBuf[o])
             /\ SubSeq(objBuf[o], e.res + 1, Len(objBuf[o])) \in Seq(Bytes)
  <2>1. e \in Cqe
    BY CqeFacts
  <2>2. SendMeans(e, o) /\ e.res > 0 /\ e.res \in Int
    BY <1>2, <2>1, OpsDiffer
    DEF SentBy, Inv, CqOK, AcceptMeans, SignalMeans, RecvMeans, SendMeans, Cqe
  <2>3. e.res \in 1 .. Len(objBuf[o]) /\ e.res \in 0 .. Len(objBuf[o])
    BY <1>1, <2>2 DEF SendMeans
  <2>4. \A n \in 0 .. Len(objBuf[o]) : SubSeq(objBuf[o], n + 1, Len(objBuf[o])) \in Seq(Bytes)
    BY <1>1, CutJoins
  <2> QED
    BY <2>3, <2>4
<1> QED
  BY <1>1, <1>2

\* What the server holds of a connection stays when its bytes are all there after
\* the step, its Conn's buffer is the same and so are its unhandled sends.
LEMMA ObjDataStays ==
    ASSUME Inv, NEW o \in Live, NEW c \in Conns, c = ConnOf(o), ConnOf(o)' = ConnOf(o),
           objBuf'[o] = objBuf[o],
           \A e \in Cqes(cq) : SentBy(e, o) => e \in Cqes(cq'),
           \A e \in Cqes(cq') : SentBy(e, o) => e \in Cqes(cq),
           \A mid \in Seq(Bytes) : Whole(c, mid) => Reply(c)' \o mid \o inq'[c] = Stream(c)'
    PROVE  ObjData(o)'
<1>1. \A mid \in Seq(Bytes) : Whole(c, mid) => Whole(c, mid)'
  BY DEF Whole
<1>2. ObjData(o)
  BY DEF Inv, DataOK
<1>3. \A e : SentBy(e, o)' <=> SentBy(e, o)
  BY DEF SentBy
<1>4. objBuf[o] \in Seq(Bytes)
  BY RestTypes
<1>5. (\A e \in Cqes(cq') : ~SentBy(e, o)) => Whole(ConnOf(o), objBuf[o])'
  BY <1>1, <1>2, <1>4 DEF ObjData
<1>6. ASSUME NEW e \in Cqes(cq'), SentBy(e, o)
      PROVE  Whole(ConnOf(o), SubSeq(objBuf[o], e.res + 1, Len(objBuf[o])))'
  <2>1. PICK mid \in Seq(Bytes) : mid = SubSeq(objBuf[o], e.res + 1, Len(objBuf[o]))
    BY <1>6, RestTypes
  <2>2. Whole(c, mid)
    BY <1>2, <1>6, <2>1 DEF ObjData
  <2>3. Whole(c, mid)'
    BY <1>1, <2>2
  <2> QED
    BY <2>1, <2>3 DEF Whole
<1> QED
  BY <1>3, <1>5, <1>6 DEF ObjData

\* A step that moves no byte leaves every connection whole.
LEMMA SameStreams ==
    ASSUME UNCHANGED <<sent, inq, outq, got>>
    PROVE  \A c, mid : Whole(c, mid) => Reply(c)' \o mid \o inq'[c] = Stream(c)'
BY DEF Whole, Reply, Stream

\* A step that moves no operation to the completion queue or from it, and no byte
\* through the server: clients, the signal, a submission, the loop itself.
LEMMA QuietKeepsInv ==
    ASSUME Inv, SockOK',
           ring' \in Ring, Len(ring'.sq) <= QDepth, Placed(ring', cq),
           Pend(ring', cq) = Pend(ring, cq), Waiting(ring') = Waiting(ring),
           UNCHANGED <<faulty, running, cq, connections, objFd, objBuf, fdtab, stats>>,
           pc' \in {"enter", "wait", "handle", "exited"},
           sig # "none" => sig' # "none",
           \A d \in Conns :
              /\ Gone(d) => Gone(d)'
              /\ srv'[d] = srv[d] \/ (srv[d] = "none" /\ srv'[d] = "queued")
              /\ \A mid \in Seq(Bytes) :
                    Whole(d, mid) => Reply(d)' \o mid \o inq'[d] = Stream(d)'
    PROVE  Inv'
<1>1. TypeOK'
  BY DEF Inv, TypeOK, SockOK, Ring
<1>2. Live' = Live /\ \A o : ConnOf(o)' = ConnOf(o)
  BY DEF Live, ConnOf
<1>3. OpsOK'
  BY <1>2 DEF Inv, OpsOK
<1>4. MapOK' /\ StopOK' /\ BufOK'
  BY DEF Inv, MapOK, StopOK, BufOK
<1>5. FdsOK'
  <2>1. \A f \in Fds : fdtab[f] # None => fdtab[f] \in Conns /\ srv[fdtab[f]] = "open"
    BY DEF Inv, TypeOK, FdsOK
  <2>2. \A f \in Fds : fdtab[f] # None => srv'[fdtab[f]] = "open"
    BY <2>1
  <2> QED
    BY <2>2 DEF Inv, FdsOK
<1>6. CqOK'
  <2> SUFFICES ASSUME NEW e \in Cqes(cq)
               PROVE  \/ AcceptMeans(e)' \/ SignalMeans(e)'
                      \/ \E o \in Objs : RecvMeans(e, o)' \/ SendMeans(e, o)'
    BY DEF CqOK
  <2>1. CASE AcceptMeans(e) \/ SignalMeans(e)
    BY <2>1 DEF AcceptMeans, SignalMeans
  <2>2. ASSUME NEW o \in Objs, RecvMeans(e, o) \/ SendMeans(e, o)
        PROVE  RecvMeans(e, o)' \/ SendMeans(e, o)'
    <3>1. o \in Live
      BY <2>2, PendFacts DEF RecvMeans, SendMeans, Pend
    <3>2. ConnOf(o) \in Conns /\ ConnOf(o)' = ConnOf(o)
      BY <3>1, <1>2, LiveFacts
    <3>3. Gone(ConnOf(o)) => link'[ConnOf(o)] \in {"fin", "reset", "broken"}
      BY <3>2 DEF Gone
    <3> QED
      BY <2>2, <3>2, <3>3 DEF RecvMeans, SendMeans, Gone
  <2> QED
    BY <2>1, <2>2 DEF Inv, CqOK
<1>7. DataOK'
  <2>0. <<>> \in Seq(Bytes)
    OBVIOUS
  <2>1. ASSUME NEW c \in Conns, srv'[c] \in {"none", "queued"} PROVE Whole(c, <<>>)'
    <3>1. Whole(c, <<>>)
      BY <2>1 DEF Inv, DataOK
    <3> QED
      BY <2>0, <3>1 DEF Whole
  <2>2. ASSUME NEW e \in Cqes(cq), e.fd # None PROVE Whole(fdtab[e.fd], <<>>)'
    <3>1. PICK d \in Conns : d = fdtab[e.fd]
      BY <2>2, CqeFacts
    <3>2. Whole(d, <<>>)
      BY <2>2, <3>1 DEF Inv, DataOK
    <3>3. Whole(d, <<>>)'
      BY <2>0, <3>2 DEF Whole
    <3> QED
      BY <3>1, <3>3
  <2>3. ASSUME NEW o \in Live PROVE ObjData(o)'
    <3>1. ConnOf(o) \in Conns /\ ConnOf(o)' = ConnOf(o)
      BY <1>2, LiveFacts
    <3>2. \A mid \in Seq(Bytes) : Whole(ConnOf(o), mid) => Whole(ConnOf(o), mid)'
      BY <3>1 DEF Whole, Reply, Stream
    <3> QED
      BY <3>1, <3>2, RestTypes DEF Inv, DataOK, ObjData, SentBy
  <2> QED
    BY <1>2, <2>1, <2>2, <2>3 DEF DataOK
<1> QED
  BY <1>1, <1>3, <1>4, <1>5, <1>6, <1>7 DEF Inv

\* The rings as they are.
LEMMA RingFacts ==
    ASSUME Inv
    PROVE  ring \in Ring /\ Len(ring.sq) <= QDepth /\ Placed(ring, cq) /\ cq \in Seq(Cqe)
BY DEF Inv, TypeOK, OpsOK, Ring

\* Clients and the network.
LEMMA ClientKeepsInv ==
    ASSUME Inv, NEW c \in Conns, ClientAct(c), UNCHANGED serverVars
    PROVE  Inv'
<1>1. SockOK /\ SocketsTypeOK
  BY DEF Inv, SockOK
<1>2. SockOK' /\ sig' = sig
  BY <1>1, ClientKeepsSock, GoneStays
<1>3. UNCHANGED <<faulty, pc, running, ring, cq, connections, objFd, objBuf, fdtab, stats>>
  BY DEF serverVars
<1>4. \A d \in Conns :
         /\ Gone(d) => Gone(d)'
         /\ srv'[d] = srv[d] \/ (srv[d] = "none" /\ srv'[d] = "queued")
         /\ \A mid \in Seq(Bytes) :
               Whole(d, mid) => Reply(d)' \o mid \o inq'[d] = Stream(d)'
  BY <1>1, GoneStays, ClientKeepsWhole
<1>5. pc' \in {"enter", "wait", "handle", "exited"}
  BY <1>3 DEF Inv, TypeOK
<1> QED
  BY <1>2, <1>3, <1>4, <1>5, RingFacts, QuietKeepsInv

\* Steps that touch no connection.
LEMMA StillKeepsInv ==
    ASSUME Inv, UNCHANGED sockVars \/ Signal,
           UNCHANGED <<faulty, running, cq, connections, objFd, objBuf, fdtab, stats>>,
           ring' = ring \/ ring' = Submit(ring),
           pc' \in {"enter", "wait", "handle", "exited"}
    PROVE  Inv'
<1>1. SockOK'
  BY SameSock, SignalKeepsSock DEF Inv
<1>2. UNCHANGED <<link, srv, sent, inq, outq, got>> /\ (sig # "none" => sig' # "none")
  BY DEF sockVars, Signal, streamVars
<1>3. \A d \in Conns :
         /\ Gone(d) => Gone(d)'
         /\ srv'[d] = srv[d] \/ (srv[d] = "none" /\ srv'[d] = "queued")
         /\ \A mid \in Seq(Bytes) :
               Whole(d, mid) => Reply(d)' \o mid \o inq'[d] = Stream(d)'
  BY <1>2 DEF Gone, Whole, Reply, Stream
<1>4. /\ ring' \in Ring /\ Len(ring'.sq) <= QDepth /\ Placed(ring', cq)
      /\ Pend(ring', cq) = Pend(ring, cq) /\ Waiting(ring') = Waiting(ring)
  <2>1. CASE ring' = ring
    BY <2>1, RingFacts
  <2>2. CASE ring' = Submit(ring)
    <3>1. Len(<<>>) = 0 /\ QDepth \in Nat
      BY UringAssumption
    <3> QED
      BY <2>2, <3>1, RingFacts, SubmitFacts
  <2> QED
    BY <2>1, <2>2
<1> QED
  BY <1>1, <1>2, <1>3, <1>4, QuietKeepsInv

\* What a completion says stays true of the others when one is posted or handled.
LEMMA MeansStays ==
    ASSUME Inv, NEW e \in Cqes(cq), UNCHANGED <<link, sig>>,
           \A o \in Live : e.op = RecvOp(o) \/ e.op = SendOp(o) =>
               objBuf'[o] = objBuf[o] /\ ConnOf(o)' = ConnOf(o)
    PROVE  \/ AcceptMeans(e)' \/ SignalMeans(e)'
           \/ \E o \in Objs : RecvMeans(e, o)' \/ SendMeans(e, o)'
<1>1. CASE AcceptMeans(e) \/ SignalMeans(e)
  BY <1>1 DEF AcceptMeans, SignalMeans
<1>2. ASSUME NEW o \in Objs, RecvMeans(e, o) \/ SendMeans(e, o)
      PROVE  RecvMeans(e, o)' \/ SendMeans(e, o)'
  <2>1. o \in Live
    BY <1>2, PendFacts DEF RecvMeans, SendMeans, Pend
  <2> QED
    BY <1>2, <2>1 DEF RecvMeans, SendMeans, Gone
<1> QED
  BY <1>1, <1>2 DEF Inv, CqOK

\* The kernel posts e: what the rings hold.
LEMMA PostMoves ==
    ASSUME Inv, NEW e \in Cqe, e.op \in ring.inflight, Post(e.op, e.res, e.fd)
    PROVE  /\ ring' \in Ring /\ Len(ring'.sq) <= QDepth /\ cq' \in Seq(Cqe)
           /\ Cqes(cq') = Cqes(cq) \union {e} /\ Waiting(ring') = Waiting(ring) \ {e.op}
           /\ \A x \in Cqes(cq) : x.op # e.op
           /\ Placed(ring', cq') /\ Pend(ring', cq') = Pend(ring, cq)
           /\ e.op \in Waiting(ring) /\ e.op \in Pend(ring, cq)
<1>1. e = [op |-> e.op, res |-> e.res, fd |-> e.fd]
  BY DEF Cqe
<1>2. ring' = [ring EXCEPT !.inflight = @ \ {e.op}] /\ cq' = Append(cq, e)
  BY <1>1 DEF Post
<1>3. ring \in Ring /\ Len(ring.sq) <= QDepth /\ Placed(ring, cq) /\ cq \in Seq(Cqe)
  BY RingFacts
<1>4. PICK r, q : r = ring' /\ q = cq'
  OBVIOUS
<1>5. /\ r \in Ring /\ r.sq = ring.sq /\ r.inflight = ring.inflight \ {e.op}
      /\ q \in Seq(Cqe) /\ q = Append(cq, e)
  <2>1. Append(cq, e) \in Seq(Cqe)
    BY <1>3
  <2> QED
    BY <1>2, <1>3, <1>4, <2>1 DEF Ring
<1>6. /\ Len(cq) \in Nat /\ Len(q) = Len(cq) + 1 /\ q[Len(cq) + 1] = e
      /\ \A i \in 1 .. Len(cq) : q[i] = cq[i]
  BY <1>3, <1>5
<1>7. /\ \A i \in 1 .. Len(q) : i \in 1 .. Len(cq) \/ i = Len(cq) + 1
      /\ \A i \in 1 .. Len(cq) : i \in 1 .. Len(q)
      /\ Len(cq) + 1 \in 1 .. Len(q)
  BY <1>6
<1>8. Cqes(q) = Cqes(cq) \union {e}
  BY <1>6, <1>7 DEF Cqes
<1>9. /\ \A i \in 1 .. Len(cq) : cq[i].op # e.op
      /\ \A i \in 1 .. Len(ring.sq) : ring.sq[i] # e.op
  BY <1>3 DEF Placed
<1>10. Queued(r) = Queued(ring) /\ e.op \notin Queued(ring) /\ \A x \in Cqes(cq) : x.op # e.op
  BY <1>5, <1>9 DEF Queued, Cqes
<1>11. Placed(r, q)
  BY <1>3, <1>5, <1>6, <1>7, <1>9 DEF Placed
<1>12. Waiting(r) = Waiting(ring) \ {e.op} /\ Pend(r, q) = Pend(ring, cq)
  BY <1>5, <1>8, <1>10 DEF Pend, Waiting
<1> QED
  BY <1>3, <1>4, <1>5, <1>8, <1>10, <1>11, <1>12 DEF Waiting, Pend

\* A completion that moves no byte and opens nothing: an error, the end of a
\* stream, the signal.
LEMMA PostKeepsInv ==
    ASSUME Inv, NEW e \in Cqe, e.op \in ring.inflight, Post(e.op, e.res, e.fd), e.fd = None,
           UNCHANGED <<sockVars, faulty, pc, running, connections, objFd, objBuf, fdtab, stats>>,
           \/ AcceptMeans(e) \/ SignalMeans(e)
           \/ \E o \in Objs : e.res <= 0 /\ (RecvMeans(e, o) \/ SendMeans(e, o))
    PROVE  Inv'
<1>1. /\ ring' \in Ring /\ Len(ring'.sq) <= QDepth /\ cq' \in Seq(Cqe)
      /\ Cqes(cq') = Cqes(cq) \union {e} /\ Waiting(ring') = Waiting(ring) \ {e.op}
      /\ \A x \in Cqes(cq) : x.op # e.op
      /\ Placed(ring', cq') /\ Pend(ring', cq') = Pend(ring, cq)
  BY PostMoves
<1>2. UNCHANGED <<backlog, link, srv, sent, inq, outq, got, sig>> /\ SockOK'
  BY SameSock DEF sockVars, Inv
<1>3. TypeOK'
  BY <1>1, <1>2 DEF Inv, TypeOK, SockOK, Ring
<1>4. Live' = Live /\ \A o : ConnOf(o)' = ConnOf(o)
  BY DEF Live, ConnOf
<1>5. OpsOK' /\ MapOK' /\ BufOK' /\ StopOK'
  BY <1>1, <1>2, <1>4 DEF Inv, OpsOK, MapOK, BufOK, StopOK
<1>6. FdsOK'
  BY <1>1, <1>2, UringAssumption DEF Inv, FdsOK
<1>7. CqOK'
  <2>1. \/ AcceptMeans(e)' \/ SignalMeans(e)'
        \/ \E o \in Objs : RecvMeans(e, o)' \/ SendMeans(e, o)'
    BY <1>2, <1>4 DEF AcceptMeans, SignalMeans, RecvMeans, SendMeans, Gone
  <2>2. \A x \in Cqes(cq) :
           \/ AcceptMeans(x)' \/ SignalMeans(x)'
           \/ \E o \in Objs : RecvMeans(x, o)' \/ SendMeans(x, o)'
    BY <1>2, <1>4, MeansStays
  <2> QED
    BY <1>1, <2>1, <2>2 DEF CqOK
<1>8. DataOK'
  <2>1. \A o : ~SentBy(e, o)
    BY OpsDiffer DEF SentBy, AcceptMeans, SignalMeans, RecvMeans, SendMeans, Cqe
  <2>2. \A c, mid : Whole(c, mid)' <=> Whole(c, mid)
    BY <1>2 DEF Whole, Reply, Stream
  <2>3. \A o \in Live : ObjData(o)'
    BY <1>1, <1>4, <2>1, <2>2 DEF Inv, DataOK, ObjData, SentBy
  <2>4. \A x \in Cqes(cq') : x.fd # None => Whole(fdtab[x.fd], <<>>)'
    BY <1>1, <1>2 DEF Inv, DataOK, Whole, Reply, Stream
  <2>5. \A c \in Conns : srv'[c] \in {"none", "queued"} => Whole(c, <<>>)'
    BY <1>2 DEF Inv, DataOK, Whole, Reply, Stream
  <2> QED
    BY <1>4, <2>3, <2>4, <2>5 DEF DataOK
<1> QED
  BY <1>2, <1>3, <1>5, <1>6, <1>7, <1>8 DEF Inv

\* An accept takes the head of the listener's queue and a free descriptor.
LEMMA CompleteAcceptKeepsInv == Inv /\ CompleteAccept => Inv'
<1> SUFFICES ASSUME Inv, CompleteAccept PROVE Inv'
  OBVIOUS
<1>1. PICK c \in Conns :
         /\ c = Head(backlog) /\ srv[c] = "queued" /\ srv' = [srv EXCEPT ![c] = "open"]
         /\ UNCHANGED <<link, sent, inq, outq, got, sig>> /\ SockOK'
  BY AcceptKeepsSock DEF CompleteAccept, Inv
<1>2. PICK f \in Fds : f = Min(FreeFds) /\ fdtab[f] = None
  BY MinFacts, UringAssumption DEF CompleteAccept, FreeFds
<1>3. /\ UNCHANGED <<faulty, pc, running, connections, objFd, objBuf, stats>>
      /\ fdtab' = [fdtab EXCEPT ![f] = c]
  BY <1>1, <1>2 DEF CompleteAccept
<1>4. PICK e \in Cqe :
         /\ e.op = AcceptOp /\ e.res = 0 /\ e.fd = f
         /\ e.op \in ring.inflight /\ Post(e.op, e.res, e.fd)
  <2>1. [op |-> AcceptOp, res |-> 0, fd |-> f] \in Cqe
    BY OpsDiffer DEF Cqe
  <2> QED
    BY <1>2, <2>1 DEF CompleteAccept, Held
<1>5. /\ ring' \in Ring /\ Len(ring'.sq) <= QDepth /\ cq' \in Seq(Cqe)
      /\ Cqes(cq') = Cqes(cq) \union {e} /\ Waiting(ring') = Waiting(ring) \ {e.op}
      /\ Placed(ring', cq') /\ Pend(ring', cq') = Pend(ring, cq)
  BY <1>4, PostMoves
<1>6. /\ fdtab'[f] = c /\ c # None /\ f # None
      /\ \A g \in Fds : g # f => fdtab'[g] = fdtab[g]
      /\ connections[f] = None /\ \A x \in Cqes(cq) : x.fd # f
      /\ \A g \in Fds : fdtab[g] # None => fdtab[g] # c /\ g # f
  BY <1>1, <1>2, <1>3, UringAssumption DEF Inv, TypeOK, FdsOK
<1>7. TypeOK'
  BY <1>1, <1>3, <1>5 DEF Inv, TypeOK, SockOK, Ring
<1>8. Live' = Live /\ \A o \in Live : ConnOf(o)' = ConnOf(o) /\ ConnOf(o) # c
  <2>1. Live' = Live
    BY <1>3 DEF Live
  <2>2. ASSUME NEW o \in Live PROVE ConnOf(o)' = ConnOf(o) /\ ConnOf(o) # c
    <3>1. objFd[o] \in Fds /\ fdtab[objFd[o]] # None
      BY LiveFacts, UringAssumption DEF ConnOf
    <3> QED
      BY <1>3, <1>6, <3>1 DEF ConnOf
  <2> QED
    BY <2>1, <2>2
<1>9. OpsOK' /\ MapOK' /\ BufOK' /\ StopOK'
  BY <1>1, <1>3, <1>5, <1>8 DEF Inv, OpsOK, MapOK, BufOK, StopOK
<1>10. FdsOK'
  <2>1. \A d \in Conns : srv[d] = "open" => srv'[d] = "open"
    BY <1>1 DEF Inv, TypeOK, SocketsTypeOK
  <2>2. srv'[c] = "open"
    BY <1>1 DEF Inv, TypeOK, SocketsTypeOK
  <2>3. \A g \in Fds : fdtab'[g] # None <=>
           connections'[g] # None \/ \E x \in Cqes(cq') : x.fd = g
    BY <1>3, <1>4, <1>5, <1>6 DEF Inv, FdsOK
  <2>4. \A x \in Cqes(cq') : x.fd # None => connections'[x.fd] = None
    BY <1>3, <1>4, <1>5, <1>6 DEF Inv, FdsOK
  <2>5. \A g \in Fds : fdtab'[g] # None => srv'[fdtab'[g]] = "open"
    <3>1. \A g \in Fds : fdtab[g] # None => fdtab[g] \in Conns /\ srv[fdtab[g]] = "open"
      BY DEF Inv, TypeOK, FdsOK
    <3>2. \A g \in Fds : fdtab[g] # None => srv'[fdtab[g]] = "open"
      BY <2>1, <3>1
    <3> QED
      BY <1>6, <2>2, <3>2
  <2>6. \A g, h \in Fds : fdtab'[g] # None /\ fdtab'[g] = fdtab'[h] => g = h
    BY <1>6 DEF Inv, FdsOK
  <2> QED
    BY <2>3, <2>4, <2>5, <2>6 DEF FdsOK
<1>11. CqOK'
  <2>1. AcceptMeans(e)'
    BY <1>4, <1>6 DEF AcceptMeans
  <2>2. \A x \in Cqes(cq) :
           \/ AcceptMeans(x)' \/ SignalMeans(x)'
           \/ \E o \in Objs : RecvMeans(x, o)' \/ SendMeans(x, o)'
    BY <1>1, <1>3, <1>8, MeansStays
  <2> QED
    BY <1>5, <2>1, <2>2 DEF CqOK
<1>12. DataOK'
  <2>1. \A o : ~SentBy(e, o)
    BY <1>4, OpsDiffer DEF SentBy
  <2>2. \A d \in Conns : srv'[d] \in {"none", "queued"} => Whole(d, <<>>)'
    BY <1>1 DEF Inv, TypeOK, SocketsTypeOK, DataOK, Whole, Reply, Stream
  <2>3. ASSUME NEW x \in Cqes(cq'), x.fd # None PROVE Whole(fdtab[x.fd], <<>>)'
    <3>1. CASE x = e
      <4>1. Whole(c, <<>>)
        BY <1>1 DEF Inv, DataOK
      <4>2. Whole(c, <<>>)'
        BY <1>1, <4>1, SameStreams DEF Whole
      <4> QED
        BY <1>4, <1>6, <3>1, <4>2
    <3>2. CASE x \in Cqes(cq)
      <4>1. x.fd \in Fds /\ x.fd # f
        BY <1>6, <2>3, <3>2, CqeFacts
      <4> QED
        BY <1>1, <1>6, <2>3, <3>2, <4>1 DEF Inv, DataOK, Whole, Reply, Stream
    <3> QED
      BY <1>5, <3>1, <3>2
  <2>4. ASSUME NEW o \in Live PROVE ObjData(o)'
    <3>1. PICK d \in Conns : d = ConnOf(o)
      BY LiveFacts
    <3> QED
      BY <1>1, <1>3, <1>5, <1>8, <2>1, <3>1, ObjDataStays, SameStreams
  <2> QED
    BY <1>8, <2>2, <2>3, <2>4 DEF DataOK
<1> QED
  BY <1>1, <1>7, <1>9, <1>10, <1>11, <1>12 DEF Inv

\* A recv fills the Conn's empty buffer.
LEMMA CompleteRecvKeepsInv ==
    ASSUME Inv, NEW o \in Objs, CompleteRecv(o)
    PROVE  Inv'
<1>1. RecvOp(o) \in ring.inflight /\ RecvOp(o) \in Waiting(ring) /\ RecvOp(o) \in Pend(ring, cq)
  BY DEF CompleteRecv, Held, Waiting, Pend
<1>2. o \in Live /\ SendOp(o) \notin Pend(ring, cq) /\ objBuf[o] = <<>>
  BY <1>1, PendFacts DEF Inv, BufOK
<1>3. PICK c \in Conns : c = ConnOf(o) /\ srv[c] = "open" /\ \A p \in Live : ConnOf(p) = c => p = o
  BY <1>2, LiveFacts
<1>4. Whole(c, <<>>) /\ \A x \in Cqes(cq) : ~SentBy(x, o)
  <2>1. \A x \in Cqes(cq) : ~SentBy(x, o)
    BY <1>2 DEF SentBy, Pend
  <2> QED
    BY <1>2, <1>3, <2>1 DEF Inv, DataOK, ObjData
<1>5. PICK n \in Int : n = RecvSize(o) /\ n \in 0 .. Len(inq[c]) /\ (n = 0 => BufSize = 0)
  <2>1. inq[c] \in Seq(Bytes) /\ inq[c] # <<>>
    BY <1>3 DEF CompleteRecv, Inv, TypeOK, SocketsTypeOK
  <2>2. Len(inq[c]) \in Nat /\ Len(inq[c]) > 0 /\ BufSize \in Nat
    BY <2>1, UringAssumption
  <2> QED
    BY <1>3, <2>2 DEF RecvSize
<1> DEFINE a == SubSeq(inq[c], 1, n)
<1>6. /\ SockOK' /\ a \in Seq(Bytes) /\ Len(a) = n
      /\ Reply(c)' \o a \o inq'[c] = Stream(c)'
      /\ \A d \in Conns : d # c => inq'[d] = inq[d]
      /\ \A d \in Conns : Reply(d)' = Reply(d) /\ Stream(d)' = Stream(d)
      /\ UNCHANGED <<backlog, link, srv, sent, outq, got, sig>>
  BY <1>3, <1>4, <1>5, ReadFacts DEF CompleteRecv, Inv
<1>7. /\ UNCHANGED <<faulty, pc, running, connections, objFd, fdtab, stats>>
      /\ objBuf' = [objBuf EXCEPT ![o] = a]
  BY <1>3, <1>5 DEF CompleteRecv
<1> HIDE DEF a
<1>8. PICK e \in Cqe : /\ e.op = RecvOp(o) /\ e.res = n /\ e.fd = None
                       /\ e.op \in ring.inflight /\ Post(e.op, e.res, e.fd)
  <2>1. [op |-> RecvOp(o), res |-> n, fd |-> None] \in Cqe
    BY OpsDiffer DEF Cqe
  <2> QED
    BY <1>1, <1>5, <2>1 DEF CompleteRecv
<1>9. /\ ring' \in Ring /\ Len(ring'.sq) <= QDepth /\ cq' \in Seq(Cqe)
      /\ Cqes(cq') = Cqes(cq) \union {e} /\ Waiting(ring') = Waiting(ring) \ {e.op}
      /\ \A x \in Cqes(cq) : x.op # e.op
      /\ Placed(ring', cq') /\ Pend(ring', cq') = Pend(ring, cq)
  BY <1>8, PostMoves
<1>10. objBuf'[o] = a /\ \A p \in Objs : p # o => objBuf'[p] = objBuf[p]
  BY <1>7 DEF Inv, TypeOK
<1>11. Live' = Live /\ \A p : ConnOf(p)' = ConnOf(p)
  BY <1>7 DEF Live, ConnOf
<1>12. TypeOK'
  BY <1>6, <1>7, <1>9 DEF Inv, TypeOK, SockOK, Ring
<1>13. OpsOK' /\ MapOK' /\ StopOK'
  BY <1>6, <1>7, <1>9, <1>11 DEF Inv, OpsOK, MapOK, StopOK
<1>14. BufOK'
  BY <1>2, <1>8, <1>9, <1>10 DEF Inv, BufOK
<1>15. FdsOK'
  BY <1>6, <1>7, <1>8, <1>9, UringAssumption DEF Inv, FdsOK
<1>16. CqOK'
  <2>1. RecvMeans(e, o)'
    <3>1. n > 0 => a # <<>>
      BY <1>6
    <3>2. n <= 0 => BufSize = 0
      BY <1>5
    <3> QED
      BY <1>8, <1>10, <3>1, <3>2 DEF RecvMeans
  <2>2. \A x \in Cqes(cq) :
           \/ AcceptMeans(x)' \/ SignalMeans(x)'
           \/ \E p \in Objs : RecvMeans(x, p)' \/ SendMeans(x, p)'
    <3> SUFFICES ASSUME NEW x \in Cqes(cq)
                 PROVE  \/ AcceptMeans(x)' \/ SignalMeans(x)'
                        \/ \E p \in Objs : RecvMeans(x, p)' \/ SendMeans(x, p)'
      OBVIOUS
    <3>1. x.op # RecvOp(o) /\ x.op # SendOp(o)
      BY <1>2, <1>8, <1>9 DEF Pend
    <3>2. \A p \in Live : x.op = RecvOp(p) \/ x.op = SendOp(p) =>
             objBuf'[p] = objBuf[p] /\ ConnOf(p)' = ConnOf(p)
      BY <1>10, <1>11, <3>1, LiveFacts
    <3> QED
      BY <1>6, <3>2, MeansStays
  <2> QED
    BY <1>9, <2>1, <2>2 DEF CqOK
<1>17. DataOK'
  <2>0. \A d \in Conns : \A mid : d # c /\ Whole(d, mid) => Reply(d)' \o mid \o inq'[d] = Stream(d)'
    BY <1>6 DEF Whole
  <2>1. \A p : ~SentBy(e, p)
    BY <1>8, OpsDiffer DEF SentBy
  <2>2. \A d \in Conns : srv'[d] \in {"none", "queued"} => Whole(d, <<>>)'
    BY <1>3, <1>6, <2>0 DEF Inv, DataOK, Whole
  <2>3. ASSUME NEW x \in Cqes(cq'), x.fd # None PROVE Whole(fdtab[x.fd], <<>>)'
    <3>1. x \in Cqes(cq)
      BY <1>8, <1>9, <2>3
    <3>2. PICK d \in Conns : d = fdtab[x.fd]
      BY <2>3, <3>1, CqeFacts
    <3>3. d # c
      BY <1>2, <1>3, <2>3, <3>1, <3>2, HeldApart
    <3>4. Whole(d, <<>>)
      BY <2>3, <3>1, <3>2 DEF Inv, DataOK
    <3>5. Whole(d, <<>>)'
      BY <2>0, <3>3, <3>4 DEF Whole
    <3> QED
      BY <1>7, <3>2, <3>5
  <2>4. ASSUME NEW p \in Live PROVE ObjData(p)'
    <3>1. CASE p = o
      <4>1. Whole(ConnOf(o), objBuf[o])'
        BY <1>3, <1>6, <1>10, <1>11 DEF Whole
      <4> QED
        BY <1>3, <1>4, <1>9, <1>10, <1>11, <2>1, <3>1, <4>1 DEF ObjData, SentBy
    <3>2. CASE p # o
      <4>1. PICK d \in Conns : d = ConnOf(p) /\ d # c
        BY <1>3, <3>2, LiveFacts
      <4>2. objBuf'[p] = objBuf[p]
        BY <1>10, <3>2, LiveFacts
      <4> QED
        BY <1>9, <1>11, <2>0, <2>1, <4>1, <4>2, ObjDataStays
    <3> QED
      BY <3>1, <3>2
  <2> QED
    BY <1>11, <2>2, <2>3, <2>4 DEF DataOK
<1> QED
  BY <1>6, <1>12, <1>13, <1>14, <1>15, <1>16, <1>17 DEF Inv

\* A send takes the first bytes of the Conn's buffer to the client.
LEMMA CompleteSendFacts ==
    ASSUME Inv, NEW o \in Objs, CompleteSend(o)
    PROVE  \E c \in Conns, n \in Nat \ {0} :
              /\ c = ConnOf(o) /\ srv[c] = "open" /\ o \in Live
              /\ \A p \in Live : ConnOf(p) = c => p = o
              /\ n <= Len(objBuf[o])
              /\ SendOp(o) \in ring.inflight /\ Post(SendOp(o), n, None)
              /\ SockOK'
              /\ Reply(c)' \o SubSeq(objBuf[o], n + 1, Len(objBuf[o])) \o inq'[c] = Stream(c)'
              /\ Reply(c)' = Prefix(c, Len(Reply(c)) + n)
              /\ Len(Reply(c)) + n <= sent[c]
              /\ \A d \in Conns : d # c => Reply(d)' = Reply(d)
              /\ \A d \in Conns : Stream(d)' = Stream(d)
              /\ UNCHANGED <<backlog, link, srv, sent, inq, got, sig>>
<1>1. SendOp(o) \in ring.inflight /\ SendOp(o) \in Waiting(ring) /\ SendOp(o) \in Pend(ring, cq)
  BY DEF CompleteSend, Held, Waiting, Pend
<1>2. o \in Live
  BY <1>1, PendFacts
<1>3. PICK c \in Conns : c = ConnOf(o) /\ srv[c] = "open" /\ \A p \in Live : ConnOf(p) = c => p = o
  BY <1>2, LiveFacts
<1>4. Whole(c, objBuf[o])
  <2>1. \A i \in 1 .. Len(cq) : cq[i].op # SendOp(o)
    BY <1>1, RingFacts DEF Placed
  <2>2. \A x \in Cqes(cq) : ~SentBy(x, o)
    BY <2>1 DEF SentBy, Cqes
  <2> QED
    BY <1>2, <1>3, <2>2 DEF Inv, DataOK, ObjData
<1>5. PICK n \in Writable(c, Len(objBuf[o])) :
         PutOutput(c, SubSeq(objBuf[o], 1, n)) /\ Post(SendOp(o), n, None)
  BY <1>3 DEF CompleteSend
<1>6. /\ objBuf[o] \in Seq(Bytes) /\ Len(objBuf[o]) \in Nat
      /\ Len(outq[c]) \in Nat /\ SndBuf \in Nat
  BY <1>2, RestTypes, PieceTypes, SocketsAssumption DEF Inv, TypeOK
<1>7. n \in Nat \ {0} /\ n <= Len(objBuf[o]) /\ n \in 0 .. Len(objBuf[o])
  BY <1>5, <1>6 DEF Writable
<1>8. PICK b \in Seq(Bytes) : b = objBuf[o]
  BY <1>6
<1>9. /\ SockOK'
      /\ Reply(c)' \o SubSeq(b, n + 1, Len(b)) \o inq'[c] = Stream(c)'
      /\ Reply(c)' = Prefix(c, Len(Reply(c)) + n)
      /\ Len(Reply(c)) + n <= sent[c]
      /\ \A d \in Conns : d # c => Reply(d)' = Reply(d)
      /\ \A d \in Conns : Stream(d)' = Stream(d)
      /\ UNCHANGED <<backlog, link, srv, sent, inq, got, sig>>
  <2>1. Whole(c, b) /\ srv[c] # "none" /\ n \in 0 .. Len(b) /\ PutOutput(c, SubSeq(b, 1, n))
    BY <1>3, <1>4, <1>5, <1>7, <1>8
  <2> QED
    BY <2>1, WriteFacts DEF Inv
<1>10. PICK m \in Nat \ {0} : m = n
  BY <1>7
<1> WITNESS c \in Conns, m \in Nat \ {0}
<1> QED
  BY <1>1, <1>2, <1>3, <1>5, <1>7, <1>8, <1>9, <1>10

\* The rest of the buffer is what the server still holds.
LEMMA CompleteSendKeepsInv ==
    ASSUME Inv, NEW o \in Objs, CompleteSend(o)
    PROVE  Inv'
<1>1. PICK c \in Conns, n \in Nat \ {0} :
         /\ c = ConnOf(o) /\ srv[c] = "open" /\ o \in Live
         /\ \A p \in Live : ConnOf(p) = c => p = o
         /\ n <= Len(objBuf[o])
         /\ SendOp(o) \in ring.inflight /\ Post(SendOp(o), n, None)
         /\ SockOK'
         /\ Reply(c)' \o SubSeq(objBuf[o], n + 1, Len(objBuf[o])) \o inq'[c] = Stream(c)'
         /\ \A d \in Conns : d # c => Reply(d)' = Reply(d)
         /\ \A d \in Conns : Stream(d)' = Stream(d)
         /\ UNCHANGED <<backlog, link, srv, sent, inq, got, sig>>
  BY CompleteSendFacts
<1>2. UNCHANGED <<faulty, pc, running, connections, objFd, objBuf, fdtab, stats>>
  BY DEF CompleteSend
<1>3. PICK e \in Cqe : /\ e.op = SendOp(o) /\ e.res = n /\ e.fd = None
                       /\ e.op \in ring.inflight /\ Post(e.op, e.res, e.fd)
  <2>1. [op |-> SendOp(o), res |-> n, fd |-> None] \in Cqe
    BY OpsDiffer DEF Cqe
  <2> QED
    BY <1>1, <2>1
<1>4. /\ ring' \in Ring /\ Len(ring'.sq) <= QDepth /\ cq' \in Seq(Cqe)
      /\ Cqes(cq') = Cqes(cq) \union {e} /\ Waiting(ring') = Waiting(ring) \ {e.op}
      /\ \A x \in Cqes(cq) : x.op # e.op
      /\ Placed(ring', cq') /\ Pend(ring', cq') = Pend(ring, cq)
  BY <1>3, PostMoves
<1>5. Live' = Live /\ \A p : ConnOf(p)' = ConnOf(p)
  BY <1>2 DEF Live, ConnOf
<1>6. TypeOK'
  BY <1>1, <1>2, <1>4 DEF Inv, TypeOK, SockOK, Ring
<1>7. OpsOK' /\ MapOK' /\ StopOK' /\ BufOK'
  BY <1>1, <1>2, <1>4, <1>5 DEF Inv, OpsOK, MapOK, StopOK, BufOK
<1>8. FdsOK'
  BY <1>1, <1>2, <1>3, <1>4, UringAssumption DEF Inv, FdsOK
<1>9. CqOK'
  <2>1. SendMeans(e, o)'
    BY <1>1, <1>2, <1>3 DEF SendMeans
  <2>2. \A x \in Cqes(cq) :
           \/ AcceptMeans(x)' \/ SignalMeans(x)'
           \/ \E p \in Objs : RecvMeans(x, p)' \/ SendMeans(x, p)'
    BY <1>1, <1>2, <1>5, MeansStays
  <2> QED
    BY <1>4, <2>1, <2>2 DEF CqOK
<1>10. DataOK'
  <2>0. \A d \in Conns : \A mid : d # c /\ Whole(d, mid) => Reply(d)' \o mid \o inq'[d] = Stream(d)'
    BY <1>1 DEF Whole
  <2>1. \A p : SentBy(e, p) => p = o
    BY <1>3, OpsDiffer DEF SentBy
  <2>2. \A d \in Conns : srv'[d] \in {"none", "queued"} => Whole(d, <<>>)'
    BY <1>1, <2>0 DEF Inv, DataOK, Whole
  <2>3. ASSUME NEW x \in Cqes(cq'), x.fd # None PROVE Whole(fdtab[x.fd], <<>>)'
    <3>1. x \in Cqes(cq)
      BY <1>3, <1>4, <2>3
    <3>2. PICK d \in Conns : d = fdtab[x.fd]
      BY <2>3, <3>1, CqeFacts
    <3>3. d # c
      BY <1>1, <2>3, <3>1, <3>2, HeldApart
    <3>4. Whole(d, <<>>)
      BY <2>3, <3>1, <3>2 DEF Inv, DataOK
    <3>5. Whole(d, <<>>)'
      BY <2>0, <3>3, <3>4 DEF Whole
    <3> QED
      BY <1>2, <3>2, <3>5
  <2>4. ASSUME NEW p \in Live PROVE ObjData(p)'
    <3>1. CASE p = o
      <4>1. \A x \in Cqes(cq') : SentBy(x, o) => x = e
        BY <1>3, <1>4 DEF SentBy
      <4>2. Whole(ConnOf(o), SubSeq(objBuf[o], n + 1, Len(objBuf[o])))'
        BY <1>1, <1>2, <1>5 DEF Whole
      <4>3. SentBy(e, o) /\ e \in Cqes(cq')
        BY <1>3, <1>4 DEF SentBy
      <4> QED
        BY <1>3, <3>1, <4>1, <4>2, <4>3 DEF ObjData, SentBy
    <3>2. CASE p # o
      <4>1. PICK d \in Conns : d = ConnOf(p) /\ d # c
        BY <1>1, <3>2, LiveFacts
      <4> QED
        BY <1>2, <1>4, <1>5, <2>0, <2>1, <3>2, <4>1, ObjDataStays
    <3> QED
      BY <3>1, <3>2
  <2> QED
    BY <1>5, <2>2, <2>3, <2>4 DEF DataOK
<1> QED
  BY <1>1, <1>6, <1>7, <1>8, <1>9, <1>10 DEF Inv

\* A completion that belongs to no Conn is handled: the signal, or an accept
\* that failed.
LEMMA TakeKeepsInv ==
    ASSUME Inv, cq # <<>>, cq' = Tail(cq), Head(cq).fd = None,
           Head(cq).op = AcceptOp \/ Head(cq).op = SignalOp,
           ring' \in Ring, Len(ring'.sq) <= QDepth, Placed(ring', cq'),
           Waiting(ring') \subseteq Waiting(ring) \union {AcceptOp},
           Pend(ring', cq') \subseteq Pend(ring, cq),
           Pend(ring, cq) \subseteq Pend(ring', cq') \union {AcceptOp, SignalOp},
           ~faulty => AcceptOp \in Pend(ring', cq'),
           UNCHANGED <<sockVars, faulty, pc, connections, objFd, objBuf, fdtab, stats>>,
           running' = running \/ (running' = FALSE /\ sig # "none")
    PROVE  Inv'
<1>1. UNCHANGED <<backlog, link, srv, sent, inq, outq, got, sig>> /\ SockOK'
  BY SameSock DEF sockVars, Inv
<1>2. cq' \in Seq(Cqe) /\ Cqes(cq') = Cqes(cq) \ {Head(cq)}
  BY HeadFacts
<1>3. running' \in BOOLEAN
  BY DEF Inv, TypeOK
<1>4. TypeOK'
  BY <1>1, <1>2, <1>3 DEF Inv, TypeOK, SockOK, Ring
<1>5. Live' = Live /\ \A o : ConnOf(o)' = ConnOf(o)
  BY DEF Live, ConnOf
<1>6. /\ \A o : RecvOp(o) \in Pend(ring', cq') <=> RecvOp(o) \in Pend(ring, cq)
      /\ \A o : SendOp(o) \in Pend(ring', cq') <=> SendOp(o) \in Pend(ring, cq)
      /\ \A o : RecvOp(o) \in Waiting(ring') => RecvOp(o) \in Waiting(ring)
  BY OpsDiffer
<1>7. OpsOK'
  BY <1>5, <1>6 DEF Inv, OpsOK, GoodOp
<1>8. MapOK' /\ BufOK' /\ StopOK'
  BY <1>1, <1>6 DEF Inv, MapOK, BufOK, StopOK
<1>9. FdsOK'
  BY <1>1, <1>2, UringAssumption DEF Inv, FdsOK
<1>10. CqOK'
  BY <1>1, <1>2, <1>5, MeansStays DEF CqOK
<1>11. DataOK'
  <2>1. \A d \in Conns : srv'[d] \in {"none", "queued"} => Whole(d, <<>>)'
    BY <1>1, SameStreams DEF Inv, DataOK, Whole
  <2>2. \A x \in Cqes(cq') : x.fd # None => Whole(fdtab[x.fd], <<>>)'
    BY <1>1, <1>2, SameStreams DEF Inv, DataOK, Whole
  <2>3. ASSUME NEW o \in Live PROVE ObjData(o)'
    <3>1. PICK d \in Conns : d = ConnOf(o)
      BY LiveFacts
    <3>2. ~SentBy(Head(cq), o)
      BY OpsDiffer DEF SentBy
    <3> QED
      BY <1>1, <1>2, <1>5, <3>1, <3>2, ObjDataStays, SameStreams
  <2> QED
    BY <1>5, <2>1, <2>2, <2>3 DEF DataOK
<1> QED
  BY <1>1, <1>4, <1>7, <1>8, <1>9, <1>10, <1>11 DEF Inv

\* The server stops.
LEMMA HandleSignalKeepsInv == Inv /\ HandleSignal => Inv'
<1> SUFFICES ASSUME Inv, HandleSignal PROVE Inv'
  OBVIOUS
<1>1. /\ cq # <<>> /\ cq' = Tail(cq) /\ running' = FALSE
      /\ UNCHANGED <<sockVars, faulty, pc, ring, connections, objFd, objBuf, fdtab, stats>>
  BY DEF HandleSignal, Handling
<1>2. /\ Head(cq).op = SignalOp /\ Head(cq).fd = None /\ sig # "none"
      /\ Placed(ring, Tail(cq)) /\ Pend(ring, Tail(cq)) = Pend(ring, cq) \ {Head(cq).op}
  BY <1>1, HeadFacts DEF HandleSignal, Handling, SignalMeans
<1>3. ~faulty => AcceptOp \in Pend(ring', cq')
  BY <1>1, <1>2, OpsDiffer DEF Inv, OpsOK
<1> QED
  BY <1>1, <1>2, <1>3, RingFacts, TakeKeepsInv

\* A failed accept is followed by another.
LEMMA HandleAcceptErrorKeepsInv == Inv /\ HandleAcceptError => Inv'
<1> SUFFICES ASSUME Inv, HandleAcceptError PROVE Inv'
  OBVIOUS
<1>1. /\ cq # <<>> /\ cq' = Tail(cq)
      /\ UNCHANGED <<sockVars, faulty, pc, running, connections, objFd, objBuf, fdtab, stats>>
  BY DEF HandleAcceptError, Handling
<1>2. /\ Head(cq).op = AcceptOp /\ Head(cq).fd = None /\ Tail(cq) \in Seq(Cqe)
      /\ Placed(ring, Tail(cq)) /\ Pend(ring, Tail(cq)) = Pend(ring, cq) \ {AcceptOp}
      /\ AcceptOp \in Pend(ring, cq)
  BY <1>1, HeadFacts DEF HandleAcceptError, Handling, AcceptMeans, res
<1>3. PICK a \in Prep(ring, AcceptOp) : ring' = a.ring
  BY DEF HandleAcceptError
<1>4. /\ a.ring \in Ring /\ Len(a.ring.sq) <= QDepth /\ Placed(a.ring, Tail(cq))
      /\ Waiting(a.ring) \subseteq Waiting(ring) \union {AcceptOp}
      /\ a.ok => Pend(a.ring, Tail(cq)) = Pend(ring, Tail(cq)) \union {AcceptOp}
      /\ ~a.ok => a.ring = ring /\ faulty
  <2>1. PICK q \in Seq(Cqe) : q = Tail(cq) /\ Placed(ring, q) /\ AcceptOp \notin Pend(ring, q)
    BY <1>2
  <2>2. ring \in Ring /\ Len(ring.sq) <= QDepth /\ AcceptOp \in Op
    BY RingFacts, OpsDiffer
  <2>3. a.ring \in Ring /\ Len(a.ring.sq) <= QDepth /\ Placed(a.ring, q)
    BY <2>1, <2>2, PrepFacts
  <2>4. Waiting(a.ring) \subseteq Waiting(ring) \union {AcceptOp}
    BY <2>1, <2>2, PrepFacts
  <2>5. a.ok => Pend(a.ring, q) = Pend(ring, q) \union {AcceptOp}
    <3>1. a.ok => Adds(ring, a.ring, q, AcceptOp)
      BY <2>1, <2>2, PrepFacts
    <3> QED
      BY <3>1 DEF Adds
  <2>6. ~a.ok => a.ring = ring /\ faulty
    BY <2>1, <2>2, PrepFacts
  <2> QED
    BY <2>1, <2>3, <2>4, <2>5, <2>6
<1>5. /\ Pend(ring', cq') \subseteq Pend(ring, cq)
      /\ Pend(ring, cq) \subseteq Pend(ring', cq') \union {AcceptOp, SignalOp}
      /\ ~faulty => AcceptOp \in Pend(ring', cq')
  BY <1>1, <1>2, <1>3, <1>4
<1> QED
  BY <1>1, <1>2, <1>3, <1>4, <1>5, TakeKeepsInv

\* The completion of o's operation is at the head.
LEMMA ConnHead ==
    ASSUME Inv, Handling("recv") \/ Handling("send")
    PROVE  /\ obj \in Live /\ obj \in Objs /\ Head(cq).fd = None
           /\ Head(cq).op = RecvOp(obj) \/ Head(cq).op = SendOp(obj)
           /\ RecvOp(obj) \notin Pend(ring, Tail(cq)) /\ SendOp(obj) \notin Pend(ring, Tail(cq))
           /\ RecvOp(obj) \notin Waiting(ring) /\ SendOp(obj) \notin Waiting(ring)
           /\ Tail(cq) \in Seq(Cqe) /\ Placed(ring, Tail(cq))
           /\ Pend(ring, Tail(cq)) = Pend(ring, cq) \ {Head(cq).op}
           /\ Cqes(Tail(cq)) = Cqes(cq) \ {Head(cq)}
           /\ Head(cq).op \in Pend(ring, cq)
           /\ \A e \in Cqes(Tail(cq)) : e.op # RecvOp(obj) /\ e.op # SendOp(obj)
<1>1. /\ obj \in Live /\ obj \in Objs /\ Head(cq).fd = None
      /\ Head(cq).op = RecvOp(obj) \/ Head(cq).op = SendOp(obj)
      /\ Head(cq).op \in Pend(ring, cq) /\ Tail(cq) \in Seq(Cqe) /\ Placed(ring, Tail(cq))
      /\ Pend(ring, Tail(cq)) = Pend(ring, cq) \ {Head(cq).op}
      /\ Cqes(Tail(cq)) = Cqes(cq) \ {Head(cq)}
  BY HeadFacts, LiveFacts DEF Handling, RecvMeans, SendMeans
<1>2. RecvOp(obj) \notin Pend(ring, Tail(cq)) /\ SendOp(obj) \notin Pend(ring, Tail(cq))
  BY <1>1, PendFacts
<1>3. /\ RecvOp(obj) \notin Waiting(ring) /\ SendOp(obj) \notin Waiting(ring)
      /\ \A e \in Cqes(Tail(cq)) : e.op # RecvOp(obj) /\ e.op # SendOp(obj)
  BY <1>2 DEF Pend
<1> QED
  BY <1>1, <1>2, <1>3

\* The Conn whose completion was handled gets its next operation: its buffer is
\* b then, and with b none of its bytes is missing.
LEMMA NextOpKeepsInv ==
    ASSUME Inv, Handling("recv") \/ Handling("send"), cq' = Tail(cq),
           NEW op, NEW b \in Seq(Bytes),
           \/ op = RecvOp(obj) /\ b = <<>>
           \/ op = SendOp(obj) /\ b # <<>>,
           Whole(ConnOf(obj), b), objBuf' = [objBuf EXCEPT ![obj] = b],
           NEW p \in Prep(ring, op), p.ok, ring' = p.ring,
           UNCHANGED <<sockVars, faulty, pc, running, connections, objFd, fdtab>>,
           stats' \in [accepted : Nat, closed : Nat, requests : Nat, bytes : Nat],
           stats'.accepted = stats.accepted, stats'.closed = stats.closed
    PROVE  Inv'
<1>1. PICK o \in Objs : o = obj
  BY ConnHead
<1>2. /\ o \in Live /\ Head(cq).fd = None
      /\ Head(cq).op = RecvOp(o) \/ Head(cq).op = SendOp(o)
      /\ RecvOp(o) \notin Pend(ring, Tail(cq)) /\ SendOp(o) \notin Pend(ring, Tail(cq))
      /\ RecvOp(o) \notin Waiting(ring) /\ SendOp(o) \notin Waiting(ring)
      /\ cq' \in Seq(Cqe) /\ Placed(ring, Tail(cq))
      /\ Pend(ring, Tail(cq)) = Pend(ring, cq) \ {Head(cq).op}
      /\ Cqes(cq') = Cqes(cq) \ {Head(cq)}
      /\ \A e \in Cqes(cq') : e.op # RecvOp(o) /\ e.op # SendOp(o)
  BY <1>1, ConnHead
<1>3. /\ ring' \in Ring /\ Len(ring'.sq) <= QDepth /\ Placed(ring', cq')
      /\ Waiting(ring') \subseteq Waiting(ring) \union {op}
      /\ Pend(ring', cq') = (Pend(ring, cq) \ {Head(cq).op}) \union {op}
  <2>1. PICK q \in Seq(Cqe) : q = Tail(cq) /\ Placed(ring, q) /\ op \notin Pend(ring, q)
    BY <1>1, <1>2
  <2>2. ring \in Ring /\ Len(ring.sq) <= QDepth /\ op \in Op
    BY <1>1, RingFacts, OpsDiffer
  <2>3. p.ring \in Ring /\ Len(p.ring.sq) <= QDepth /\ Placed(p.ring, q)
    BY <2>1, <2>2, PrepFacts
  <2>4. Waiting(p.ring) \subseteq Waiting(ring) \union {op}
    BY <2>1, <2>2, PrepFacts
  <2>5. Pend(p.ring, q) = Pend(ring, q) \union {op}
    <3>1. Adds(ring, p.ring, q, op)
      BY <2>1, <2>2, PrepFacts
    <3> QED
      BY <3>1 DEF Adds
  <2> QED
    BY <1>2, <2>1, <2>3, <2>4, <2>5
<1>4. UNCHANGED <<backlog, link, srv, sent, inq, outq, got, sig>> /\ SockOK'
  BY SameSock DEF sockVars, Inv
<1>5. objBuf'[o] = b /\ \A q \in Objs : q # o => objBuf'[q] = objBuf[q]
  BY <1>1 DEF Inv, TypeOK
<1>6. TypeOK'
  BY <1>2, <1>3, <1>4 DEF Inv, TypeOK, SockOK, Ring
<1>7. Live' = Live /\ \A q : ConnOf(q)' = ConnOf(q)
  BY DEF Live, ConnOf
<1>8. \A q \in Objs : q # o =>
         /\ RecvOp(q) \in Pend(ring', cq') <=> RecvOp(q) \in Pend(ring, cq)
         /\ SendOp(q) \in Pend(ring', cq') <=> SendOp(q) \in Pend(ring, cq)
         /\ RecvOp(q) \in Waiting(ring') => RecvOp(q) \in Waiting(ring)
  BY <1>1, <1>2, <1>3, OpsDiffer
<1>9. /\ op = RecvOp(o) => RecvOp(o) \in Pend(ring', cq') /\ SendOp(o) \notin Pend(ring', cq')
      /\ op = SendOp(o) => SendOp(o) \in Pend(ring', cq') /\ RecvOp(o) \notin Pend(ring', cq')
  BY <1>2, <1>3, OpsDiffer
<1>10. OpsOK'
  <2>1. \A x \in Pend(ring', cq') : GoodOp(x)
    BY <1>1, <1>3 DEF Inv, OpsOK, GoodOp
  <2>2. ~faulty' => AcceptOp \in Pend(ring', cq')
    BY <1>2, <1>3, OpsDiffer DEF Inv, OpsOK
  <2>3. ASSUME NEW q \in Objs
        PROVE  /\ q \in Live' <=> RecvOp(q) \in Pend(ring', cq') \/ SendOp(q) \in Pend(ring', cq')
               /\ ~(RecvOp(q) \in Pend(ring', cq') /\ SendOp(q) \in Pend(ring', cq'))
    BY <1>1, <1>2, <1>7, <1>8, <1>9 DEF Inv, OpsOK
  <2> QED
    BY <1>3, <2>1, <2>2, <2>3 DEF OpsOK
<1>11. MapOK' /\ StopOK'
  BY <1>4 DEF Inv, MapOK, StopOK
<1>12. BufOK'
  <2>1. RecvOp(o) \in Waiting(ring') => b = <<>>
    BY <1>1, <1>2, <1>3, OpsDiffer
  <2>2. SendOp(o) \in Pend(ring', cq') => b # <<>>
    BY <1>1, <1>9, OpsDiffer
  <2> QED
    BY <1>5, <1>8, <2>1, <2>2 DEF Inv, BufOK
<1>13. FdsOK'
  BY <1>2, <1>4, UringAssumption DEF Inv, FdsOK
<1>14. CqOK'
  <2> SUFFICES ASSUME NEW x \in Cqes(cq')
               PROVE  \/ AcceptMeans(x)' \/ SignalMeans(x)'
                      \/ \E q \in Objs : RecvMeans(x, q)' \/ SendMeans(x, q)'
    BY DEF CqOK
  <2>1. \A q \in Live : x.op = RecvOp(q) \/ x.op = SendOp(q) =>
           objBuf'[q] = objBuf[q] /\ ConnOf(q)' = ConnOf(q)
    BY <1>2, <1>5, <1>7, LiveFacts
  <2> QED
    BY <1>2, <1>4, <2>1, MeansStays
<1>15. DataOK'
  <2>1. \A d \in Conns : srv'[d] \in {"none", "queued"} => Whole(d, <<>>)'
    BY <1>4, SameStreams DEF Inv, DataOK, Whole
  <2>2. \A x \in Cqes(cq') : x.fd # None => Whole(fdtab[x.fd], <<>>)'
    BY <1>2, <1>4, SameStreams DEF Inv, DataOK, Whole
  <2>3. ASSUME NEW q \in Live PROVE ObjData(q)'
    <3>1. PICK d \in Conns : d = ConnOf(q)
      BY LiveFacts
    <3>2. CASE q = o
      <4>1. \A x \in Cqes(cq') : ~SentBy(x, q)
        BY <1>2, <3>2 DEF SentBy
      <4>2. Whole(ConnOf(q), objBuf[q])'
        <5>1. Reply(d)' \o b \o inq'[d] = Stream(d)'
          BY <1>1, <1>4, <3>1, <3>2, SameStreams
        <5> QED
          BY <1>5, <1>7, <3>1, <3>2, <5>1 DEF Whole
      <4> QED
        BY <4>1, <4>2 DEF ObjData, SentBy
    <3>3. CASE q # o
      <4>1. ~SentBy(Head(cq), q)
        BY <1>2, <3>3, OpsDiffer DEF SentBy
      <4>2. objBuf'[q] = objBuf[q]
        BY <1>5, <3>3, LiveFacts
      <4>3. \A mid \in Seq(Bytes) : Whole(d, mid) => Reply(d)' \o mid \o inq'[d] = Stream(d)'
        BY <1>4, SameStreams
      <4> QED
        BY <1>2, <1>7, <3>1, <4>1, <4>2, <4>3, ObjDataStays
    <3> QED
      BY <3>2, <3>3
  <2> QED
    BY <1>7, <2>1, <2>2, <2>3 DEF DataOK
<1> QED
  BY <1>4, <1>6, <1>10, <1>11, <1>12, <1>13, <1>14, <1>15 DEF Inv

\* The map's entries.
LEMMA MapCount ==
    LET used == {f \in Fds : connections[f] # None}
    IN  IsFiniteSet(used) /\ Cardinality(used) \in Nat
<1>1. IsFiniteSet({f \in Fds : connections[f] # None})
  BY UringAssumption, FS_Subset, {f \in Fds : connections[f] # None} \subseteq Fds
<1> QED
  BY <1>1, FS_CardinalityType

\* close_connection on the Conn whose completion is handled.
LEMMA CloseKeepsInv ==
    ASSUME Inv, Handling("recv") \/ Handling("send"), cq' = Tail(cq), CloseConnection,
           NEW b \in Seq(Bytes), objBuf' = [objBuf EXCEPT ![obj] = b],
           UNCHANGED <<faulty, pc, running, ring>>,
           stats' \in [accepted : Nat, closed : Nat, requests : Nat, bytes : Nat],
           stats'.accepted = stats.accepted, stats'.closed = stats.closed + 1
    PROVE  Inv'
<1>1. PICK o \in Objs : o = obj
  BY ConnHead
<1>2. /\ o \in Live /\ Head(cq).fd = None
      /\ Head(cq).op = RecvOp(o) \/ Head(cq).op = SendOp(o)
      /\ RecvOp(o) \notin Pend(ring, Tail(cq)) /\ SendOp(o) \notin Pend(ring, Tail(cq))
      /\ RecvOp(o) \notin Waiting(ring) /\ SendOp(o) \notin Waiting(ring)
      /\ cq' \in Seq(Cqe) /\ Placed(ring, Tail(cq))
      /\ Pend(ring, Tail(cq)) = Pend(ring, cq) \ {Head(cq).op}
      /\ Cqes(cq') = Cqes(cq) \ {Head(cq)}
      /\ \A e \in Cqes(cq') : e.op # RecvOp(o) /\ e.op # SendOp(o)
  BY <1>1, ConnHead
<1>3. PICK f \in Fds, c \in Conns :
         /\ f = objFd[o] /\ connections[f] = o /\ c = fdtab[f] /\ srv[c] = "open"
         /\ c = ConnOf(o) /\ \A q \in Live : ConnOf(q) = c => q = o
  BY <1>2, LiveFacts DEF ConnOf
<1>4. /\ CloseSide(c) /\ fdtab' = [fdtab EXCEPT ![f] = None]
      /\ connections' = [connections EXCEPT ![f] = None]
      /\ objFd' = [objFd EXCEPT ![o] = None]
  BY <1>1, <1>3 DEF CloseConnection
<1>5. /\ srv' = [srv EXCEPT ![c] = "closed"]
      /\ UNCHANGED <<backlog, link, sent, inq, outq, got, sig>> /\ SockOK'
  BY <1>3, <1>4, CloseKeepsSock DEF Inv
<1>6. /\ \A q \in Objs : q # o => objBuf'[q] = objBuf[q] /\ objFd'[q] = objFd[q]
      /\ objFd'[o] = None
      /\ \A g \in Fds : g # f => connections'[g] = connections[g] /\ fdtab'[g] = fdtab[g]
      /\ connections'[f] = None /\ fdtab'[f] = None
      /\ \A d \in Conns : d # c => srv'[d] = srv[d]
      /\ srv'[c] = "closed"
  BY <1>1, <1>4, <1>5 DEF Inv, TypeOK, SocketsTypeOK
<1>7. TypeOK'
  BY <1>2, <1>4, <1>5, RingFacts DEF Inv, TypeOK, SockOK, Ring
<1>8. Live' = Live \ {o}
  <2>1. \A g \in Fds : connections[g] = o => g = f
    BY <1>3, UringAssumption DEF Inv, MapOK
  <2> QED
    BY <1>1, <1>3, <1>6, <2>1, UringAssumption DEF Live
<1>9. \A q \in Live : q # o => /\ q \in Objs /\ objFd[q] # f /\ ConnOf(q)' = ConnOf(q)
                               /\ objBuf'[q] = objBuf[q] /\ ConnOf(q) # c
  <2> SUFFICES ASSUME NEW q \in Live, q # o
               PROVE  /\ q \in Objs /\ objFd[q] # f /\ ConnOf(q)' = ConnOf(q)
                      /\ objBuf'[q] = objBuf[q] /\ ConnOf(q) # c
    OBVIOUS
  <2>1. q \in Objs /\ objFd[q] \in Fds /\ connections[objFd[q]] = q
    BY LiveFacts
  <2>2. objFd[q] # f
    BY <1>3, <2>1
  <2> QED
    BY <1>3, <1>6, <2>1, <2>2 DEF ConnOf
<1>10. /\ Pend(ring', cq') = Pend(ring, cq) \ {Head(cq).op} /\ Placed(ring', cq')
       /\ Waiting(ring') = Waiting(ring)
  BY <1>2
<1>11. \A q \in Objs : q # o =>
          /\ RecvOp(q) \in Pend(ring', cq') <=> RecvOp(q) \in Pend(ring, cq)
          /\ SendOp(q) \in Pend(ring', cq') <=> SendOp(q) \in Pend(ring, cq)
  BY <1>2, <1>10, OpsDiffer
<1>12. RecvOp(o) \notin Pend(ring', cq') /\ SendOp(o) \notin Pend(ring', cq')
  BY <1>2
<1>13. OpsOK'
  <2>1. \A x \in Pend(ring', cq') : GoodOp(x)
    BY <1>10 DEF Inv, OpsOK
  <2>2. ~faulty' => AcceptOp \in Pend(ring', cq')
    BY <1>2, <1>10, OpsDiffer DEF Inv, OpsOK
  <2>3. ASSUME NEW q \in Objs
        PROVE  /\ q \in Live' <=> RecvOp(q) \in Pend(ring', cq') \/ SendOp(q) \in Pend(ring', cq')
               /\ ~(RecvOp(q) \in Pend(ring', cq') /\ SendOp(q) \in Pend(ring', cq'))
    BY <1>8, <1>11, <1>12 DEF Inv, OpsOK
  <2> QED
    BY <1>10, <2>1, <2>2, <2>3 DEF OpsOK
<1>14. MapOK'
  <2>1. ASSUME NEW g \in Fds, connections'[g] # None PROVE objFd'[connections'[g]] = g
    <3>1. g # f /\ connections'[g] = connections[g]
      BY <1>6, <2>1
    <3>2. connections[g] \in Objs /\ objFd[connections[g]] = g
      BY <2>1, <3>1 DEF Inv, TypeOK, MapOK
    <3>3. connections[g] # o
      BY <1>3, <3>1, <3>2
    <3> QED
      BY <1>6, <3>1, <3>2, <3>3
  <2>2. ASSUME NEW q \in Objs, objFd'[q] # None PROVE connections'[objFd'[q]] = q
    <3>1. q # o /\ objFd'[q] = objFd[q]
      BY <1>6, <2>2
    <3>2. objFd[q] \in Fds /\ connections[objFd[q]] = q
      BY <2>2, <3>1 DEF Inv, TypeOK, MapOK
    <3>3. objFd[q] # f
      BY <1>3, <3>1, <3>2
    <3> QED
      BY <1>6, <3>1, <3>2, <3>3
  <2>3. {g \in Fds : connections'[g] # None} = {g \in Fds : connections[g] # None} \ {f}
    BY <1>6
  <2>4. f \in {g \in Fds : connections[g] # None}
    BY <1>3, UringAssumption
  <2>5. PICK S : S = {g \in Fds : connections[g] # None}
    OBVIOUS
  <2>6. Cardinality(S \ {f}) = Cardinality(S) - 1 /\ Cardinality(S) \in Nat
    BY <2>4, <2>5, MapCount, FS_RemoveElement
  <2>7. stats.accepted = stats.closed + Cardinality(S)
    BY <2>5 DEF Inv, MapOK
  <2>8. stats'.accepted = stats'.closed + Cardinality(S \ {f})
    BY <2>6, <2>7 DEF Inv, TypeOK
  <2> QED
    BY <2>1, <2>2, <2>3, <2>5, <2>8 DEF MapOK
<1>15. BufOK' /\ StopOK'
  BY <1>2, <1>5, <1>6, <1>10, <1>11, <1>12 DEF Inv, BufOK, StopOK
<1>16. FdsOK'
  <2>1. \A e \in Cqes(cq') : e.fd # f
    BY <1>2, <1>3, UringAssumption DEF Inv, FdsOK
  <2>2. \A g \in Fds : fdtab'[g] # None <=>
           connections'[g] # None \/ \E e \in Cqes(cq') : e.fd = g
    BY <1>2, <1>6, <2>1, UringAssumption DEF Inv, FdsOK
  <2>3. \A e \in Cqes(cq') : e.fd # None => connections'[e.fd] = None
    <3> SUFFICES ASSUME NEW e \in Cqes(cq'), e.fd # None PROVE connections'[e.fd] = None
      OBVIOUS
    <3>1. e.fd \in Fds /\ connections[e.fd] = None
      BY <1>2, CqeFacts
    <3> QED
      BY <1>6, <3>1
  <2>4. \A g \in Fds : g # f /\ fdtab[g] # None => fdtab[g] # c /\ fdtab[g] \in Conns
    BY <1>3, UringAssumption DEF Inv, FdsOK, TypeOK
  <2>5. \A g \in Fds : fdtab'[g] # None => srv'[fdtab'[g]] = "open"
    BY <1>6, <2>4 DEF Inv, FdsOK
  <2>6. \A g, h \in Fds : fdtab'[g] # None /\ fdtab'[g] = fdtab'[h] => g = h
    BY <1>6 DEF Inv, FdsOK
  <2> QED
    BY <2>2, <2>3, <2>5, <2>6 DEF FdsOK
<1>17. CqOK'
  <2> SUFFICES ASSUME NEW x \in Cqes(cq')
               PROVE  \/ AcceptMeans(x)' \/ SignalMeans(x)'
                      \/ \E q \in Objs : RecvMeans(x, q)' \/ SendMeans(x, q)'
    BY DEF CqOK
  <2>1. \A q \in Live : x.op = RecvOp(q) \/ x.op = SendOp(q) =>
           objBuf'[q] = objBuf[q] /\ ConnOf(q)' = ConnOf(q)
    BY <1>2, <1>9
  <2> QED
    BY <1>2, <1>5, <2>1, MeansStays
<1>18. DataOK'
  <2>1. \A d \in Conns : srv'[d] \in {"none", "queued"} => Whole(d, <<>>)'
    BY <1>5, <1>6, SameStreams DEF Inv, DataOK, Whole
  <2>2. ASSUME NEW x \in Cqes(cq'), x.fd # None PROVE Whole(fdtab[x.fd], <<>>)'
    <3>1. x \in Cqes(cq) /\ x.fd \in Fds /\ x.fd # f
      BY <1>2, <1>3, <2>2, CqeFacts, HeldApart
    <3>2. PICK d : d = fdtab[x.fd] /\ d = fdtab'[x.fd]
      BY <1>6, <3>1
    <3>3. Whole(d, <<>>)
      BY <2>2, <3>1, <3>2 DEF Inv, DataOK
    <3>4. Whole(d, <<>>)'
      BY <1>5, <3>3, SameStreams DEF Whole
    <3> QED
      BY <3>2, <3>4
  <2>3. ASSUME NEW q \in Live, q # o PROVE ObjData(q)'
    <3>1. PICK d \in Conns : d = ConnOf(q)
      BY LiveFacts
    <3>2. ~SentBy(Head(cq), q)
      BY <1>2, <2>3, OpsDiffer DEF SentBy
    <3>3. \A mid \in Seq(Bytes) : Whole(d, mid) => Reply(d)' \o mid \o inq'[d] = Stream(d)'
      BY <1>5, SameStreams
    <3> QED
      BY <1>2, <1>9, <2>3, <3>1, <3>2, <3>3, ObjDataStays
  <2> QED
    BY <1>8, <2>1, <2>2, <2>3 DEF DataOK
<1> QED
  BY <1>5, <1>7, <1>13, <1>14, <1>15, <1>16, <1>17, <1>18 DEF Inv

\* An empty buffer.
LEMMA NoBytes == <<>> \in Seq(Bytes)
OBVIOUS

Stats == [accepted : Nat, closed : Nat, requests : Nat, bytes : Nat]

\* The statistics a handler writes.
LEMMA StatsFacts ==
    ASSUME NEW s \in Stats, NEW n \in Nat
    PROVE  /\ [s EXCEPT !.requests = @ + 1, !.bytes = @ + n] \in Stats
           /\ [s EXCEPT !.requests = @ + 1, !.bytes = @ + n].accepted = s.accepted
           /\ [s EXCEPT !.requests = @ + 1, !.bytes = @ + n].closed = s.closed
           /\ [s EXCEPT !.closed = @ + 1] \in Stats
           /\ [s EXCEPT !.closed = @ + 1].accepted = s.accepted
           /\ [s EXCEPT !.closed = @ + 1].closed = s.closed + 1
           /\ [s EXCEPT !.accepted = @ + 1] \in Stats
           /\ [s EXCEPT !.accepted = @ + 1, !.closed = @ + 1] \in Stats
           /\ [s EXCEPT !.accepted = @ + 1, !.closed = @ + 1].accepted = s.accepted + 1
           /\ [s EXCEPT !.accepted = @ + 1, !.closed = @ + 1].closed = s.closed + 1
<1>1. s.accepted \in Nat /\ s.closed \in Nat /\ s.requests \in Nat /\ s.bytes \in Nat
  BY DEF Stats
<1>2. s.requests + 1 \in Nat /\ s.bytes + n \in Nat /\ s.closed + 1 \in Nat /\ s.accepted + 1 \in Nat
  BY <1>1
<1>3. \A x, y \in Nat : [[s EXCEPT !.requests = x] EXCEPT !.bytes = y] \in Stats
  BY DEF Stats
<1>4. \A x, y \in Nat : /\ [s EXCEPT !.closed = x] \in Stats
                        /\ [s EXCEPT !.accepted = y] \in Stats
                        /\ [[s EXCEPT !.accepted = y] EXCEPT !.closed = x] \in Stats
  BY DEF Stats
<1>5. /\ [s EXCEPT !.requests = @ + 1, !.bytes = @ + n] \in Stats
      /\ [s EXCEPT !.closed = @ + 1] \in Stats
      /\ [s EXCEPT !.accepted = @ + 1] \in Stats
      /\ [s EXCEPT !.accepted = @ + 1, !.closed = @ + 1] \in Stats
  BY <1>2, <1>3, <1>4
<1>6. /\ [s EXCEPT !.requests = @ + 1, !.bytes = @ + n].accepted = s.accepted
      /\ [s EXCEPT !.requests = @ + 1, !.bytes = @ + n].closed = s.closed
      /\ [s EXCEPT !.closed = @ + 1].accepted = s.accepted
      /\ [s EXCEPT !.closed = @ + 1].closed = s.closed + 1
      /\ [s EXCEPT !.accepted = @ + 1, !.closed = @ + 1].accepted = s.accepted + 1
      /\ [s EXCEPT !.accepted = @ + 1, !.closed = @ + 1].closed = s.closed + 1
  BY DEF Stats
<1> QED
  BY <1>5, <1>6

\* The Conn whose completion was handled gets its next operation, or is closed
\* because there is no entry for it.
LEMMA SubmitOrCloseKeepsInv ==
    ASSUME Inv, Handling("recv") \/ Handling("send"), cq' = Tail(cq),
           NEW op, NEW b \in Seq(Bytes),
           \/ op = RecvOp(obj) /\ b = <<>>
           \/ op = SendOp(obj) /\ b # <<>>,
           Whole(ConnOf(obj), b), objBuf' = [objBuf EXCEPT ![obj] = b],
           NEW counted \in Stats,
           counted.accepted = stats.accepted, counted.closed = stats.closed,
           SubmitOrClose(op, counted),
           UNCHANGED <<faulty, pc, running>>
    PROVE  Inv'
<1>1. PICK p \in Prep(ring, op) :
         /\ ring' = p.ring
         /\ \/ p.ok /\ stats' = counted /\ UNCHANGED <<sockVars, connections, objFd, fdtab>>
            \/ ~p.ok /\ stats' = [counted EXCEPT !.closed = @ + 1] /\ CloseConnection
  BY DEF SubmitOrClose
<1>2. CASE p.ok /\ stats' = counted /\ UNCHANGED <<sockVars, connections, objFd, fdtab>>
  BY <1>1, <1>2, NextOpKeepsInv DEF Stats
<1>3. CASE ~p.ok /\ stats' = [counted EXCEPT !.closed = @ + 1] /\ CloseConnection
  <2>1. ring' = ring
    <3>1. PICK q \in Seq(Cqe) : q = Tail(cq) /\ Placed(ring, q) /\ op \notin Pend(ring, q)
      BY ConnHead
    <3>2. ring \in Ring /\ Len(ring.sq) <= QDepth /\ op \in Op
      BY RingFacts, OpsDiffer, ConnHead
    <3>3. ~p.ok => p.ring = ring /\ faulty
      BY <3>1, <3>2, PrepFacts
    <3> QED
      BY <1>1, <1>3, <3>3
  <2>2. /\ stats' \in Stats
        /\ stats'.accepted = stats.accepted /\ stats'.closed = stats.closed + 1
    BY <1>3, StatsFacts, 0 \in Nat DEF Stats
  <2> QED
    BY <1>3, <2>1, <2>2, CloseKeepsInv DEF Stats
<1> QED
  BY <1>1, <1>2, <1>3

\* A handler's view of the buffer: what was received, or what a send left.
LEMMA HeadBytes ==
    ASSUME Inv
    PROVE  /\ Handling("recv") /\ res > 0 =>
                 objBuf[obj] # <<>> /\ Whole(ConnOf(obj), objBuf[obj])
           /\ Handling("send") /\ res > 0 =>
                 /\ res \in 1 .. Len(objBuf[obj])
                 /\ Whole(ConnOf(obj), SubSeq(objBuf[obj], res + 1, Len(objBuf[obj])))
<1>1. ASSUME Handling("recv"), res > 0
      PROVE  objBuf[obj] # <<>> /\ Whole(ConnOf(obj), objBuf[obj])
  <2>1. RecvMeans(Head(cq), obj) /\ obj \in Live /\ Head(cq) \in Cqes(cq) /\ res = Head(cq).res
    BY <1>1, HeadFacts DEF Handling, res
  <2>2. \A e \in Cqes(cq) : e = Head(cq) \/ e.op # SendOp(obj)
    BY <1>1, ConnHead
  <2>3. \A e \in Cqes(cq) : ~SentBy(e, obj)
    BY <2>1, <2>2, OpsDiffer DEF SentBy, RecvMeans
  <2> QED
    BY <1>1, <2>1, <2>3 DEF RecvMeans, Inv, DataOK, ObjData
<1>2. ASSUME Handling("send"), res > 0
      PROVE  /\ res \in 1 .. Len(objBuf[obj])
             /\ Whole(ConnOf(obj), SubSeq(objBuf[obj], res + 1, Len(objBuf[obj])))
  <2>1. SendMeans(Head(cq), obj) /\ obj \in Live /\ Head(cq) \in Cqes(cq) /\ res = Head(cq).res
    BY <1>2, HeadFacts DEF Handling, res
  <2>2. SentBy(Head(cq), obj)
    BY <1>2, <2>1 DEF SentBy, SendMeans
  <2> QED
    BY <2>1, <2>2, RestTypes DEF Inv, DataOK, ObjData
<1> QED
  BY <1>1, <1>2

\* The handlers of a recv and of a send that moved bytes.
LEMMA HandleBytesKeepsInv == Inv /\ (HandleRecv \/ HandleSendShort \/ HandleSendDone) => Inv'
<1> SUFFICES ASSUME Inv, HandleRecv \/ HandleSendShort \/ HandleSendDone PROVE Inv'
  OBVIOUS
<1>0. PICK t \in Stats : t = stats
  BY DEF Inv, TypeOK, Stats
<1>1. Handling("recv") \/ Handling("send")
  BY DEF HandleRecv, HandleSendShort, HandleSendDone
<1>2. obj \in Live /\ objBuf[obj] \in Seq(Bytes) /\ Len(objBuf[obj]) \in Nat /\ objBuf \in [Objs -> Seq(Bytes)]
  BY <1>1, ConnHead, RestTypes DEF Inv, TypeOK
<1>3. Head(cq) \in Cqe /\ res \in Int
  BY HeadFacts DEF HandleRecv, HandleSendShort, HandleSendDone, Handling, res, Cqe
<1>4. CASE HandleRecv
  <2>1. objBuf' = [objBuf EXCEPT ![obj] = objBuf[obj]]
    BY <1>2, <1>4 DEF HandleRecv
  <2>2. res \in Nat /\ Handling("recv") /\ res > 0
    BY <1>3, <1>4 DEF HandleRecv
  <2>3. PICK counted : counted = [stats EXCEPT !.requests = @ + 1, !.bytes = @ + res]
    OBVIOUS
  <2>4. /\ counted \in Stats
        /\ counted.accepted = stats.accepted /\ counted.closed = stats.closed
    BY <1>0, <2>2, <2>3, StatsFacts
  <2>5. SubmitOrClose(SendOp(obj), counted) /\ cq' = Tail(cq) /\ UNCHANGED <<faulty, pc, running>>
    BY <1>4, <2>3 DEF HandleRecv
  <2>6. objBuf[obj] # <<>> /\ Whole(ConnOf(obj), objBuf[obj])
    BY <2>2, HeadBytes
  <2> QED
    BY <1>1, <1>2, <2>1, <2>4, <2>5, <2>6, SubmitOrCloseKeepsInv
<1>5. CASE HandleSendShort
  <2>1. PICK b : b = SubSeq(objBuf[obj], res + 1, Len(objBuf[obj]))
    OBVIOUS
  <2>2. Handling("send") /\ res > 0 /\ res < Len(objBuf[obj]) /\ res \in 0 .. Len(objBuf[obj])
    BY <1>2, <1>3, <1>5 DEF HandleSendShort
  <2>3. b \in Seq(Bytes) /\ Len(b) = Len(objBuf[obj]) - res
    <3>1. \A s \in Seq(Bytes) : \A n \in 0 .. Len(s) :
             /\ SubSeq(s, n + 1, Len(s)) \in Seq(Bytes)
             /\ Len(SubSeq(s, n + 1, Len(s))) = Len(s) - n
      BY CutJoins
    <3> QED
      BY <1>2, <2>1, <2>2, <3>1
  <2>4. b # <<>>
    BY <1>2, <1>3, <2>2, <2>3
  <2>5. Whole(ConnOf(obj), b)
    BY <2>1, <2>2, HeadBytes
  <2>6. /\ objBuf' = [objBuf EXCEPT ![obj] = b] /\ SubmitOrClose(SendOp(obj), stats)
        /\ cq' = Tail(cq) /\ UNCHANGED <<faulty, pc, running>>
    BY <1>2, <1>5, <2>1 DEF HandleSendShort
  <2>7. SubmitOrClose(SendOp(obj), t) /\ t.accepted = stats.accepted /\ t.closed = stats.closed
    BY <1>0, <2>6
  <2> QED
    BY <1>1, <2>3, <2>4, <2>5, <2>6, <2>7, SubmitOrCloseKeepsInv
<1>6. CASE HandleSendDone
  <2>1. Handling("send") /\ res >= Len(objBuf[obj])
    BY <1>6 DEF HandleSendDone
  <2>2. res > 0
    <3>1. SendMeans(Head(cq), obj) /\ res = Head(cq).res
      BY <2>1, HeadFacts DEF Handling, res
    <3> QED
      BY <1>2, <1>3, <2>1, <3>1 DEF SendMeans
  <2>3. res = Len(objBuf[obj]) /\ Whole(ConnOf(obj), SubSeq(objBuf[obj], res + 1, Len(objBuf[obj])))
    BY <1>2, <1>3, <2>1, <2>2, HeadBytes
  <2>4. SubSeq(objBuf[obj], Len(objBuf[obj]) + 1, Len(objBuf[obj])) = <<>>
    BY <1>2
  <2>5. PICK b \in Seq(Bytes) : b = <<>>
    BY NoBytes
  <2>6. Whole(ConnOf(obj), b)
    BY <2>3, <2>4, <2>5
  <2>7. /\ objBuf' = [objBuf EXCEPT ![obj] = b] /\ SubmitOrClose(RecvOp(obj), t)
        /\ cq' = Tail(cq) /\ UNCHANGED <<faulty, pc, running>>
        /\ t.accepted = stats.accepted /\ t.closed = stats.closed
    BY <1>0, <1>6, <2>5 DEF HandleSendDone
  <2> QED
    BY <1>1, <2>5, <2>6, <2>7, SubmitOrCloseKeepsInv
<1> QED
  BY <1>4, <1>5, <1>6

\* The handler of an end of stream or an error.
LEMMA HandleEndKeepsInv == Inv /\ HandleEnd => Inv'
<1> SUFFICES ASSUME Inv, HandleEnd PROVE Inv'
  OBVIOUS
<1>1. /\ Handling("recv") \/ Handling("send")
      /\ cq' = Tail(cq) /\ CloseConnection /\ UNCHANGED <<faulty, pc, running, ring>>
      /\ stats' = [stats EXCEPT !.closed = @ + 1]
  BY DEF HandleEnd
<1>2. PICK b \in Seq(Bytes) : b = <<>>
  BY NoBytes
<1>3. objBuf' = [objBuf EXCEPT ![obj] = b]
  BY <1>2 DEF HandleEnd
<1>4. /\ stats' \in Stats
      /\ stats'.accepted = stats.accepted /\ stats'.closed = stats.closed + 1
  BY <1>1, StatsFacts, 0 \in Nat DEF Inv, TypeOK, Stats
<1> QED
  BY <1>1, <1>3, <1>4, CloseKeepsInv DEF Stats

\* An accept that returned a descriptor is at the head.
LEMMA AcceptedHead ==
    ASSUME Inv, Handling("accept"), res >= 0
    PROVE  \E f \in Fds, c \in Conns :
              /\ f = Head(cq).fd /\ c = fdtab[f] /\ srv[c] = "open" /\ connections[f] = None
              /\ Whole(c, <<>>)
              /\ \A o \in Live : ConnOf(o) # c /\ objFd[o] # f
              /\ \A e \in Cqes(Tail(cq)) : e.fd # f
              /\ \A g \in Fds : g # f /\ fdtab[g] # None => fdtab[g] # c
<1>1. /\ Head(cq) \in Cqe /\ Head(cq) \in Cqes(cq) /\ Head(cq).op = AcceptOp
      /\ Head(cq).fd # None
  BY HeadFacts DEF Handling, AcceptMeans, res, Cqe
<1>2. PICK f \in Fds, c \in Conns :
         f = Head(cq).fd /\ c = fdtab[f] /\ srv[c] = "open" /\ connections[f] = None
  BY <1>1, CqeFacts
<1>3. Whole(c, <<>>)
  BY <1>1, <1>2 DEF Inv, DataOK
<1>4. \A o \in Live : ConnOf(o) # c /\ objFd[o] # f
  BY <1>1, <1>2, HeldApart
<1>5. \A e \in Cqes(Tail(cq)) : e.fd # f
  <2> SUFFICES ASSUME NEW e \in Cqes(Tail(cq)), e.fd = f PROVE FALSE
    OBVIOUS
  <2>1. e \in Cqes(cq) /\ e.op # AcceptOp /\ e.fd # None
    BY <1>1, <1>2, HeadFacts DEF Handling
  <2>2. AcceptMeans(e) \/ SignalMeans(e) \/ \E o \in Objs : RecvMeans(e, o) \/ SendMeans(e, o)
    BY <2>1 DEF Inv, CqOK
  <2> QED
    BY <2>1, <2>2 DEF AcceptMeans, SignalMeans, RecvMeans, SendMeans
<1>6. \A g \in Fds : g # f /\ fdtab[g] # None => fdtab[g] # c
  BY <1>2, UringAssumption DEF Inv, FdsOK
<1> WITNESS f \in Fds, c \in Conns
<1> QED
  BY <1>2, <1>3, <1>4, <1>5, <1>6

\* The rings after the next accept and the new Conn's first recv were queued, or
\* one of them was not.
LEMMA AcceptRings ==
    ASSUME Inv, Handling("accept"), NEW o \in Objs, o \notin Live,
           NEW a \in Prep(ring, AcceptOp), NEW b \in Prep(a.ring, RecvOp(o))
    PROVE  /\ b.ring \in Ring /\ Len(b.ring.sq) <= QDepth /\ Placed(b.ring, Tail(cq))
           /\ Waiting(b.ring) \subseteq Waiting(ring) \union {AcceptOp, RecvOp(o)}
           /\ Pend(ring, cq) \subseteq Pend(b.ring, Tail(cq)) \union {AcceptOp}
           /\ ~faulty => AcceptOp \in Pend(b.ring, Tail(cq))
           /\ b.ok => /\ RecvOp(o) \in Pend(b.ring, Tail(cq))
                      /\ Pend(b.ring, Tail(cq)) \subseteq Pend(ring, cq) \union {RecvOp(o)}
           /\ ~b.ok => /\ Pend(b.ring, Tail(cq)) \subseteq Pend(ring, cq) /\ faulty
                       /\ Waiting(b.ring) \subseteq Waiting(ring) \union {AcceptOp}
<1>1. /\ Head(cq).op = AcceptOp /\ Tail(cq) \in Seq(Cqe) /\ Placed(ring, Tail(cq))
      /\ Pend(ring, Tail(cq)) = Pend(ring, cq) \ {AcceptOp} /\ AcceptOp \in Pend(ring, cq)
  BY HeadFacts DEF Handling, AcceptMeans
<1>2. PICK q \in Seq(Cqe) : q = Tail(cq) /\ Placed(ring, q) /\ AcceptOp \notin Pend(ring, q)
  BY <1>1
<1>3. ring \in Ring /\ Len(ring.sq) <= QDepth /\ AcceptOp \in Op /\ RecvOp(o) \in Op
  BY RingFacts, OpsDiffer
<1>4. a.ring \in Ring /\ Len(a.ring.sq) <= QDepth /\ Placed(a.ring, q)
  BY <1>2, <1>3, PrepFacts
<1>5. Waiting(a.ring) \subseteq Waiting(ring) \union {AcceptOp}
  BY <1>2, <1>3, PrepFacts
<1>6. a.ok => Pend(a.ring, q) = Pend(ring, q) \union {AcceptOp}
  <2>1. a.ok => Adds(ring, a.ring, q, AcceptOp)
    BY <1>2, <1>3, PrepFacts
  <2> QED
    BY <2>1 DEF Adds
<1>7. ~a.ok => a.ring = ring /\ faulty
  BY <1>2, <1>3, PrepFacts
<1>8. /\ Pend(a.ring, q) \subseteq Pend(ring, cq)
      /\ Pend(ring, cq) \subseteq Pend(a.ring, q) \union {AcceptOp}
      /\ ~faulty => AcceptOp \in Pend(a.ring, q)
  <2>1. CASE a.ok
    BY <1>1, <1>2, <1>6, <2>1
  <2>2. CASE ~a.ok
    BY <1>1, <1>2, <1>7, <2>2
  <2> QED
    BY <2>1, <2>2
<1>9. RecvOp(o) \notin Pend(a.ring, q)
  BY <1>8, PendFacts
<1>10. PICK s \in Ring : s = a.ring
  BY <1>4
<1>11. b.ring \in Ring /\ Len(b.ring.sq) <= QDepth /\ Placed(b.ring, q)
  BY <1>3, <1>4, <1>9, <1>10, PrepFacts
<1>12. Waiting(b.ring) \subseteq Waiting(s) \union {RecvOp(o)}
  BY <1>3, <1>4, <1>9, <1>10, PrepFacts
<1>13. b.ok => Pend(b.ring, q) = Pend(s, q) \union {RecvOp(o)}
  <2>1. b.ok => Adds(s, b.ring, q, RecvOp(o))
    BY <1>3, <1>4, <1>9, <1>10, PrepFacts
  <2> QED
    BY <2>1 DEF Adds
<1>14. ~b.ok => b.ring = s /\ faulty
  BY <1>3, <1>4, <1>9, <1>10, PrepFacts
<1>15. CASE b.ok
  BY <1>2, <1>5, <1>8, <1>10, <1>11, <1>12, <1>13, <1>15
<1>16. CASE ~b.ok
  BY <1>2, <1>5, <1>8, <1>10, <1>11, <1>14, <1>16
<1> QED
  BY <1>15, <1>16

\* The descriptor of an accept goes to a new Conn, which is entered in the map.
LEMMA EnterConnKeepsInv ==
    ASSUME Inv, Handling("accept"), res >= 0, cq' = Tail(cq),
           NEW o \in Objs, o \notin Live,
           NEW a \in Prep(ring, AcceptOp), NEW b \in Prep(a.ring, RecvOp(o)), b.ok,
           ring' = b.ring, objBuf' = [objBuf EXCEPT ![o] = <<>>],
           connections' = [connections EXCEPT ![Head(cq).fd] = o],
           objFd' = [objFd EXCEPT ![o] = Head(cq).fd],
           stats' = [stats EXCEPT !.accepted = @ + 1],
           UNCHANGED <<sockVars, fdtab, faulty, pc, running>>
    PROVE  Inv'
<1>1. PICK f \in Fds, c \in Conns :
         /\ f = Head(cq).fd /\ c = fdtab[f] /\ srv[c] = "open" /\ connections[f] = None
         /\ Whole(c, <<>>)
         /\ \A p \in Live : ConnOf(p) # c /\ objFd[p] # f
         /\ \A e \in Cqes(Tail(cq)) : e.fd # f
  BY AcceptedHead
<1>2. /\ ring' \in Ring /\ Len(ring'.sq) <= QDepth /\ Placed(ring', cq')
      /\ Waiting(ring') \subseteq Waiting(ring) \union {AcceptOp, RecvOp(o)}
      /\ Pend(ring, cq) \subseteq Pend(ring', cq') \union {AcceptOp}
      /\ ~faulty => AcceptOp \in Pend(ring', cq')
      /\ RecvOp(o) \in Pend(ring', cq')
      /\ Pend(ring', cq') \subseteq Pend(ring, cq) \union {RecvOp(o)}
  BY AcceptRings
<1>3. /\ cq' \in Seq(Cqe) /\ Cqes(cq') = Cqes(cq) \ {Head(cq)} /\ Head(cq).op = AcceptOp
      /\ Head(cq) \in Cqes(cq)
  BY HeadFacts DEF Handling, AcceptMeans
<1>4. UNCHANGED <<backlog, link, srv, sent, inq, outq, got, sig>> /\ SockOK'
  BY SameSock DEF sockVars, Inv
<1>5. /\ \A p \in Objs : p # o => objBuf'[p] = objBuf[p] /\ objFd'[p] = objFd[p]
      /\ objBuf'[o] = <<>> /\ objFd'[o] = f /\ o # None /\ f # None
      /\ \A g \in Fds : g # f => connections'[g] = connections[g]
      /\ connections'[f] = o
  BY <1>1, UringAssumption DEF Inv, TypeOK
<1>6. TypeOK'
  <2>1. stats' \in [accepted : Nat, closed : Nat, requests : Nat, bytes : Nat]
    BY StatsFacts, 0 \in Nat DEF Inv, TypeOK, Stats
  <2>2. objBuf' \in [Objs -> Seq(Bytes)]
    BY NoBytes DEF Inv, TypeOK
  <2> QED
    BY <1>1, <1>2, <1>3, <1>4, <2>1, <2>2 DEF Inv, TypeOK, SockOK, Ring
<1>7. Live' = Live \union {o}
  BY <1>1, <1>5, UringAssumption DEF Live
<1>8. /\ \A p \in Live : p # o /\ p \in Objs /\ ConnOf(p)' = ConnOf(p) /\ objBuf'[p] = objBuf[p]
      /\ ConnOf(o)' = c
  <2>1. \A p \in Live : p # o /\ p \in Objs
    BY LiveFacts
  <2> QED
    BY <1>1, <1>5, <2>1 DEF ConnOf
<1>9. /\ \A p \in Objs : p # o =>
            /\ RecvOp(p) \in Pend(ring', cq') <=> RecvOp(p) \in Pend(ring, cq)
            /\ RecvOp(p) \in Waiting(ring') => RecvOp(p) \in Waiting(ring)
      /\ \A p : SendOp(p) \in Pend(ring', cq') <=> SendOp(p) \in Pend(ring, cq)
      /\ SendOp(o) \notin Pend(ring, cq)
  BY <1>2, OpsDiffer, PendFacts
<1>10. OpsOK'
  <2>1. \A x \in Pend(ring', cq') : GoodOp(x)
    BY <1>2 DEF Inv, OpsOK, GoodOp
  <2>2. ASSUME NEW p \in Objs
        PROVE  /\ p \in Live' <=> RecvOp(p) \in Pend(ring', cq') \/ SendOp(p) \in Pend(ring', cq')
               /\ ~(RecvOp(p) \in Pend(ring', cq') /\ SendOp(p) \in Pend(ring', cq'))
    BY <1>2, <1>7, <1>9 DEF Inv, OpsOK
  <2> QED
    BY <1>2, <2>1, <2>2 DEF OpsOK
<1>11. MapOK'
  <2>1. ASSUME NEW g \in Fds, connections'[g] # None PROVE objFd'[connections'[g]] = g
    <3>1. CASE g = f
      BY <1>5, <3>1
    <3>2. CASE g # f
      <4>1. connections[g] \in Live /\ objFd[connections[g]] = g
        BY <1>5, <2>1, <3>2 DEF Inv, TypeOK, MapOK, Live
      <4> QED
        BY <1>5, <1>8, <3>2, <4>1
    <3> QED
      BY <3>1, <3>2
  <2>2. ASSUME NEW p \in Objs, objFd'[p] # None PROVE connections'[objFd'[p]] = p
    <3>1. CASE p = o
      BY <1>5, <3>1
    <3>2. CASE p # o
      <4>1. objFd[p] \in Fds /\ connections[objFd[p]] = p /\ p # None
        BY <1>5, <2>2, <3>2, UringAssumption DEF Inv, TypeOK, MapOK
      <4>2. objFd[p] # f
        BY <1>1, <4>1
      <4> QED
        BY <1>5, <3>2, <4>1, <4>2
    <3> QED
      BY <3>1, <3>2
  <2>3. {g \in Fds : connections'[g] # None} = {g \in Fds : connections[g] # None} \union {f}
    BY <1>5
  <2>4. f \notin {g \in Fds : connections[g] # None}
    BY <1>1
  <2>5. PICK S : S = {g \in Fds : connections[g] # None}
    OBVIOUS
  <2>6. Cardinality(S \union {f}) = Cardinality(S) + 1 /\ Cardinality(S) \in Nat
    BY <2>4, <2>5, MapCount, FS_AddElement
  <2>7. stats.accepted = stats.closed + Cardinality(S)
    BY <2>5 DEF Inv, MapOK
  <2>8. /\ stats'.accepted = stats.accepted + 1 /\ stats'.closed = stats.closed
        /\ stats.closed \in Nat
    BY DEF Inv, TypeOK
  <2>9. stats'.accepted = stats'.closed + Cardinality(S \union {f})
    BY <2>6, <2>7, <2>8
  <2> QED
    BY <2>1, <2>2, <2>3, <2>5, <2>9 DEF MapOK
<1>12. BufOK' /\ StopOK'
  BY <1>4, <1>5, <1>9 DEF Inv, BufOK, StopOK
<1>13. FdsOK'
  <2>1. \A g \in Fds : fdtab'[g] # None <=>
           connections'[g] # None \/ \E e \in Cqes(cq') : e.fd = g
    BY <1>1, <1>3, <1>5, UringAssumption DEF Inv, FdsOK
  <2>2. ASSUME NEW e \in Cqes(cq'), e.fd # None PROVE connections'[e.fd] = None
    BY <1>1, <1>3, <1>5, <2>2, CqeFacts
  <2> QED
    BY <1>4, <2>1, <2>2 DEF Inv, FdsOK
<1>14. CqOK'
  BY <1>3, <1>4, <1>8, MeansStays DEF CqOK
<1>15. DataOK'
  <2>1. \A d \in Conns : srv'[d] \in {"none", "queued"} => Whole(d, <<>>)'
    BY <1>4, SameStreams DEF Inv, DataOK, Whole
  <2>2. \A x \in Cqes(cq') : x.fd # None => Whole(fdtab[x.fd], <<>>)'
    BY <1>3, <1>4, SameStreams DEF Inv, DataOK, Whole
  <2>3. ASSUME NEW p \in Live PROVE ObjData(p)'
    <3>1. PICK d \in Conns : d = ConnOf(p)
      BY LiveFacts
    <3>2. ~SentBy(Head(cq), p)
      BY <1>3, OpsDiffer DEF SentBy
    <3>3. \A mid \in Seq(Bytes) : Whole(d, mid) => Reply(d)' \o mid \o inq'[d] = Stream(d)'
      BY <1>4, SameStreams
    <3> QED
      BY <1>3, <1>8, <3>1, <3>2, <3>3, ObjDataStays
  <2>4. ObjData(o)'
    <3>1. Whole(ConnOf(o), objBuf[o])'
      <4>1. Reply(c)' \o <<>> \o inq'[c] = Stream(c)'
        BY <1>1, <1>4, SameStreams
      <4> QED
        BY <1>5, <1>8, <4>1 DEF Whole
    <3>2. \A x \in Cqes(cq') : ~SentBy(x, o)
      BY <1>3, <1>9 DEF SentBy, Pend
    <3> QED
      BY <3>1, <3>2 DEF ObjData, SentBy
  <2> QED
    BY <1>7, <2>1, <2>2, <2>3, <2>4 DEF DataOK
<1> QED
  BY <1>4, <1>6, <1>10, <1>11, <1>12, <1>13, <1>14, <1>15 DEF Inv

\* A connection whose first recv got no entry is closed at once.
LEMMA DropConnKeepsInv ==
    ASSUME Inv, Handling("accept"), res >= 0, cq' = Tail(cq),
           NEW o \in Objs, o \notin Live,
           NEW a \in Prep(ring, AcceptOp), NEW b \in Prep(a.ring, RecvOp(o)), ~b.ok,
           ring' = b.ring, objBuf' = [objBuf EXCEPT ![o] = <<>>],
           CloseSide(fdtab[Head(cq).fd]), fdtab' = [fdtab EXCEPT ![Head(cq).fd] = None],
           stats' = [stats EXCEPT !.accepted = @ + 1, !.closed = @ + 1],
           UNCHANGED <<connections, objFd, faulty, pc, running>>
    PROVE  Inv'
<1>1. PICK f \in Fds, c \in Conns :
         /\ f = Head(cq).fd /\ c = fdtab[f] /\ srv[c] = "open" /\ connections[f] = None
         /\ \A p \in Live : ConnOf(p) # c /\ objFd[p] # f
         /\ \A e \in Cqes(Tail(cq)) : e.fd # f
         /\ \A g \in Fds : g # f /\ fdtab[g] # None => fdtab[g] # c
  BY AcceptedHead
<1>2. /\ ring' \in Ring /\ Len(ring'.sq) <= QDepth /\ Placed(ring', cq')
      /\ Waiting(ring') \subseteq Waiting(ring) \union {AcceptOp}
      /\ Pend(ring, cq) \subseteq Pend(ring', cq') \union {AcceptOp}
      /\ ~faulty => AcceptOp \in Pend(ring', cq')
      /\ Pend(ring', cq') \subseteq Pend(ring, cq)
  BY AcceptRings
<1>3. /\ cq' \in Seq(Cqe) /\ Cqes(cq') = Cqes(cq) \ {Head(cq)} /\ Head(cq).op = AcceptOp
  BY HeadFacts DEF Handling, AcceptMeans
<1>4. /\ srv' = [srv EXCEPT ![c] = "closed"]
      /\ UNCHANGED <<backlog, link, sent, inq, outq, got, sig>> /\ SockOK'
  BY <1>1, CloseKeepsSock DEF Inv
<1>5. /\ \A p \in Objs : p # o => objBuf'[p] = objBuf[p]
      /\ \A g \in Fds : g # f => fdtab'[g] = fdtab[g]
      /\ fdtab'[f] = None
      /\ \A d \in Conns : d # c => srv'[d] = srv[d]
      /\ srv'[c] = "closed"
  BY <1>1, <1>4 DEF Inv, TypeOK, SocketsTypeOK
<1>6. TypeOK'
  <2>1. stats' \in [accepted : Nat, closed : Nat, requests : Nat, bytes : Nat]
    BY StatsFacts, 0 \in Nat DEF Inv, TypeOK, Stats
  <2>2. objBuf' \in [Objs -> Seq(Bytes)]
    BY NoBytes DEF Inv, TypeOK
  <2>3. fdtab' \in [Fds -> Conns \union {None}]
    BY DEF Inv, TypeOK
  <2> QED
    BY <1>2, <1>3, <1>4, <2>1, <2>2, <2>3 DEF Inv, TypeOK, SockOK, Ring
<1>7. /\ Live' = Live
      /\ \A p \in Live : p # o /\ p \in Objs /\ ConnOf(p)' = ConnOf(p) /\ objBuf'[p] = objBuf[p]
  <2>1. \A p \in Live : p # o /\ p \in Objs /\ objFd[p] \in Fds
    BY LiveFacts
  <2>2. Live' = Live
    BY DEF Live
  <2> QED
    BY <1>1, <1>5, <2>1, <2>2 DEF ConnOf
<1>8. /\ \A p : /\ RecvOp(p) \in Pend(ring', cq') <=> RecvOp(p) \in Pend(ring, cq)
                /\ RecvOp(p) \in Waiting(ring') => RecvOp(p) \in Waiting(ring)
                /\ SendOp(p) \in Pend(ring', cq') <=> SendOp(p) \in Pend(ring, cq)
      /\ RecvOp(o) \notin Pend(ring, cq) /\ SendOp(o) \notin Pend(ring, cq)
      /\ RecvOp(o) \notin Waiting(ring)
  <2>1. RecvOp(o) \notin Pend(ring, cq) /\ SendOp(o) \notin Pend(ring, cq)
    BY PendFacts
  <2> QED
    BY <1>2, <2>1, OpsDiffer DEF Pend
<1>9. OpsOK'
  BY <1>2, <1>7, <1>8 DEF Inv, OpsOK
<1>10. MapOK'
  <2>1. PICK n : n = Cardinality({g \in Fds : connections[g] # None})
    OBVIOUS
  <2>2. n \in Nat /\ stats.accepted = stats.closed + n
    BY <2>1, MapCount DEF Inv, MapOK
  <2>3. /\ stats'.accepted = stats.accepted + 1 /\ stats'.closed = stats.closed + 1
        /\ stats.accepted \in Nat /\ stats.closed \in Nat
    BY StatsFacts, 0 \in Nat DEF Inv, TypeOK, Stats
  <2>4. stats'.accepted = stats'.closed + n
    BY <2>2, <2>3
  <2> QED
    BY <2>1, <2>4 DEF Inv, MapOK
<1>11. BufOK' /\ StopOK'
  BY <1>4, <1>5, <1>8 DEF Inv, BufOK, StopOK
<1>12. FdsOK'
  <2>1. \A g \in Fds : fdtab'[g] # None <=>
           connections'[g] # None \/ \E e \in Cqes(cq') : e.fd = g
    BY <1>1, <1>3, <1>5, UringAssumption DEF Inv, FdsOK
  <2>2. \A e \in Cqes(cq') : e.fd # None => connections'[e.fd] = None
    BY <1>3 DEF Inv, FdsOK
  <2>3. \A g \in Fds : fdtab'[g] # None => fdtab'[g] = fdtab[g] /\ fdtab[g] \in Conns /\ fdtab[g] # c
    BY <1>1, <1>5 DEF Inv, TypeOK
  <2>4. \A g \in Fds : fdtab'[g] # None => srv'[fdtab'[g]] = "open"
    BY <1>5, <2>3 DEF Inv, FdsOK
  <2>5. \A g, h \in Fds : fdtab'[g] # None /\ fdtab'[g] = fdtab'[h] => g = h
    BY <2>3 DEF Inv, FdsOK
  <2> QED
    BY <2>1, <2>2, <2>4, <2>5 DEF FdsOK
<1>13. CqOK'
  BY <1>3, <1>4, <1>7, MeansStays DEF CqOK
<1>14. DataOK'
  <2>1. \A d \in Conns : srv'[d] \in {"none", "queued"} => Whole(d, <<>>)'
    BY <1>4, <1>5, SameStreams DEF Inv, DataOK, Whole
  <2>2. ASSUME NEW x \in Cqes(cq'), x.fd # None PROVE Whole(fdtab[x.fd], <<>>)'
    <3>1. x \in Cqes(cq) /\ x.fd \in Fds /\ x.fd # f
      BY <1>1, <1>3, <2>2, CqeFacts
    <3>2. PICK d : d = fdtab[x.fd] /\ d = fdtab'[x.fd]
      BY <1>5, <3>1
    <3>3. Whole(d, <<>>)
      BY <2>2, <3>1, <3>2 DEF Inv, DataOK
    <3>4. Whole(d, <<>>)'
      BY <1>4, <3>3, SameStreams DEF Whole
    <3> QED
      BY <3>2, <3>4
  <2>3. ASSUME NEW p \in Live PROVE ObjData(p)'
    <3>1. PICK d \in Conns : d = ConnOf(p)
      BY LiveFacts
    <3>2. ~SentBy(Head(cq), p)
      BY <1>3, OpsDiffer DEF SentBy
    <3>3. \A mid \in Seq(Bytes) : Whole(d, mid) => Reply(d)' \o mid \o inq'[d] = Stream(d)'
      BY <1>4, SameStreams
    <3> QED
      BY <1>3, <1>7, <3>1, <3>2, <3>3, ObjDataStays
  <2> QED
    BY <1>7, <2>1, <2>2, <2>3 DEF DataOK
<1> QED
  BY <1>4, <1>6, <1>9, <1>10, <1>11, <1>12, <1>13, <1>14 DEF Inv

\* The handler of a new connection.
LEMMA HandleAcceptKeepsInv == Inv /\ HandleAccept => Inv'
<1> SUFFICES ASSUME Inv, HandleAccept PROVE Inv'
  OBVIOUS
<1>1. Handling("accept") /\ res >= 0 /\ cq' = Tail(cq) /\ UNCHANGED <<faulty, pc, running>>
  BY DEF HandleAccept
<1>2. PICK o : o = NewObj
  OBVIOUS
<1>3. o \in Objs /\ o \notin Live
  <2>1. PICK f \in Fds : connections[f] = None
    BY <1>1, AcceptedHead
  <2> QED
    BY <1>2, <2>1, NewObjFacts
<1>4. PICK a \in Prep(ring, AcceptOp) : \E b \in Prep(a.ring, RecvOp(o)) :
         /\ ring' = b.ring /\ objBuf' = [objBuf EXCEPT ![o] = <<>>]
         /\ \/ /\ b.ok
               /\ connections' = [connections EXCEPT ![Head(cq).fd] = o]
               /\ objFd' = [objFd EXCEPT ![o] = Head(cq).fd]
               /\ stats' = [stats EXCEPT !.accepted = @ + 1]
               /\ UNCHANGED <<sockVars, fdtab>>
            \/ /\ ~b.ok
               /\ CloseSide(fdtab[Head(cq).fd])
               /\ fdtab' = [fdtab EXCEPT ![Head(cq).fd] = None]
               /\ stats' = [stats EXCEPT !.accepted = @ + 1, !.closed = @ + 1]
               /\ UNCHANGED <<connections, objFd>>
  BY <1>2 DEF HandleAccept
<1>5. PICK b \in Prep(a.ring, RecvOp(o)) :
         /\ ring' = b.ring /\ objBuf' = [objBuf EXCEPT ![o] = <<>>]
         /\ \/ /\ b.ok
               /\ connections' = [connections EXCEPT ![Head(cq).fd] = o]
               /\ objFd' = [objFd EXCEPT ![o] = Head(cq).fd]
               /\ stats' = [stats EXCEPT !.accepted = @ + 1]
               /\ UNCHANGED <<sockVars, fdtab>>
            \/ /\ ~b.ok
               /\ CloseSide(fdtab[Head(cq).fd])
               /\ fdtab' = [fdtab EXCEPT ![Head(cq).fd] = None]
               /\ stats' = [stats EXCEPT !.accepted = @ + 1, !.closed = @ + 1]
               /\ UNCHANGED <<connections, objFd>>
  BY <1>4
<1>6. CASE b.ok
  BY <1>1, <1>3, <1>5, <1>6, EnterConnKeepsInv
<1>7. CASE ~b.ok
  BY <1>1, <1>3, <1>5, <1>7, DropConnKeepsInv
<1> QED
  BY <1>6, <1>7

\* The completions that post an error, an end of stream or the signal.
LEMMA CompletionsKeepInv ==
    ASSUME Inv,
           \/ CompleteAcceptError \/ CompleteSignal
           \/ \E o \in Objs : CompleteRecvEnd(o) \/ CompleteSendError(o)
    PROVE  Inv'
<1>1. UNCHANGED <<sockVars, faulty, pc, running, connections, objFd, objBuf, fdtab, stats>>
  BY DEF CompleteAcceptError, CompleteSignal, CompleteRecvEnd, CompleteSendError
<1>2. CASE CompleteAcceptError
  <2>1. PICK e : e = [op |-> AcceptOp, res |-> -1, fd |-> None]
    OBVIOUS
  <2>2. e \in Cqe /\ e.op = AcceptOp /\ e.res = -1 /\ e.fd = None
    BY <2>1, OpsDiffer DEF Cqe
  <2>3. e.op \in ring.inflight /\ Post(e.op, e.res, e.fd) /\ AcceptMeans(e)
    BY <1>2, <2>2 DEF CompleteAcceptError, Held, AcceptMeans
  <2> QED
    BY <1>1, <2>2, <2>3, PostKeepsInv
<1>3. CASE CompleteSignal
  <2>1. PICK e : e = [op |-> SignalOp, res |-> 1, fd |-> None]
    OBVIOUS
  <2>2. e \in Cqe /\ e.op = SignalOp /\ e.res = 1 /\ e.fd = None
    BY <2>1, OpsDiffer DEF Cqe
  <2>3. e.op \in ring.inflight /\ Post(e.op, e.res, e.fd) /\ SignalMeans(e)
    BY <1>3, <2>2 DEF CompleteSignal, Held, SignalMeans
  <2> QED
    BY <1>1, <2>2, <2>3, PostKeepsInv
<1>4. ASSUME NEW o \in Objs, CompleteRecvEnd(o) PROVE Inv'
  <2>0. PICK n \in {-1, 0} : n = IF HungUp(ConnOf(o)) THEN -1 ELSE 0
    OBVIOUS
  <2>1. PICK e : e = [op |-> RecvOp(o), res |-> n, fd |-> None]
    OBVIOUS
  <2>2. e \in Cqe /\ e.op = RecvOp(o) /\ e.res = n /\ e.fd = None /\ e.res <= 0
    BY <2>1, OpsDiffer DEF Cqe
  <2>3. e.op \in ring.inflight /\ Post(e.op, e.res, e.fd) /\ RecvMeans(e, o)
    BY <1>4, <2>0, <2>2 DEF CompleteRecvEnd, Held, RecvMeans
  <2> QED
    BY <1>1, <2>2, <2>3, PostKeepsInv
<1>5. ASSUME NEW o \in Objs, CompleteSendError(o) PROVE Inv'
  <2>1. PICK e : e = [op |-> SendOp(o), res |-> -1, fd |-> None]
    OBVIOUS
  <2>2. e \in Cqe /\ e.op = SendOp(o) /\ e.res = -1 /\ e.fd = None
    BY <2>1, OpsDiffer DEF Cqe
  <2>3. e.op \in ring.inflight /\ Post(e.op, e.res, e.fd) /\ SendMeans(e, o)
    BY <1>5, <2>2 DEF CompleteSendError, Held, SendMeans, HungUp, Gone
  <2> QED
    BY <1>1, <2>2, <2>3, PostKeepsInv
<1> QED
  BY <1>2, <1>3, <1>4, <1>5

\* Every step of the system preserves the invariant.
LEMMA NextKeepsInv == Inv /\ [Next]_vars => Inv'
<1> SUFFICES ASSUME Inv, [Next]_vars PROVE Inv'
  OBVIOUS
<1>1. CASE Enter \/ EnterFails \/ EnterReturns \/ Drained
  BY <1>1, StillKeepsInv DEF Enter, EnterFails, EnterReturns, Drained
<1>2. CASE HandleSignal \/ HandleAcceptError \/ HandleAccept \/ HandleEnd
  BY <1>2, HandleSignalKeepsInv, HandleAcceptErrorKeepsInv, HandleAcceptKeepsInv, HandleEndKeepsInv
<1>3. CASE HandleRecv \/ HandleSendShort \/ HandleSendDone
  BY <1>3, HandleBytesKeepsInv
<1>4. CASE CompleteAccept
  BY <1>4, CompleteAcceptKeepsInv
<1>5. CASE \/ CompleteAcceptError \/ CompleteSignal
           \/ \E o \in Objs : CompleteRecvEnd(o) \/ CompleteSendError(o)
  BY <1>5, CompletionsKeepInv
<1>6. ASSUME NEW o \in Objs, CompleteRecv(o) \/ CompleteSend(o) PROVE Inv'
  BY <1>6, CompleteRecvKeepsInv, CompleteSendKeepsInv
<1>7. ASSUME NEW c \in Conns, ClientStep(c) \/ ClientReads(c) PROVE Inv'
  BY <1>7, ClientKeepsInv DEF ClientStep, ClientReads, ClientAct
<1>8. CASE SignalArrives \/ Terminated \/ UNCHANGED vars
  <2>1. /\ UNCHANGED sockVars \/ Signal
        /\ UNCHANGED <<faulty, running, cq, connections, objFd, objBuf, fdtab, stats>>
        /\ ring' = ring /\ pc' = pc
    BY <1>8 DEF SignalArrives, Terminated, vars, serverVars
  <2>2. pc' \in {"enter", "wait", "handle", "exited"}
    BY <2>1 DEF Inv, TypeOK
  <2> QED
    BY <2>1, <2>2, StillKeepsInv
<1> HIDE DEF Inv
<1> QED
  BY <1>1, <1>2, <1>3, <1>4, <1>5, <1>6, <1>7, <1>8 DEF Next, ServerStep, KernelConnStep

\* The inductive invariant holds throughout.
THEOREM UringInvariant == Spec => []Inv
<1>1. Init => Inv
  BY InitInv
<1>2. Inv /\ [Next]_vars => Inv'
  BY NextKeepsInv
<1> QED
  BY <1>1, <1>2, PTL DEF Spec

-----------------------------------------------------------------------------
(* What the invariant says of the checked properties *)

\* TypeOK: the submission queue never holds more than kQueueDepth entries.
THEOREM TypeCorrect == Spec => []TypeOK
<1>1. Inv => TypeOK
  BY DEF Inv
<1> QED
  BY UringInvariant, <1>1, PTL

\* A set of positions that are all the same is empty or has one element.
LEMMA OnePosition ==
    ASSUME NEW S, \A i, j \in S : i = j
    PROVE  Cardinality(S) = IF S = {} THEN 0 ELSE 1
<1>1. CASE S = {}
  BY <1>1, FS_EmptySet
<1>2. CASE S # {}
  <2>1. PICK i : S = {i}
    BY <1>2
  <2> QED
    BY <1>2, <2>1, FS_Singleton
<1> QED
  BY <1>1, <1>2

\* An operation that is somewhere is outstanding once.
LEMMA OutstandingFacts ==
    ASSUME Inv, NEW op
    PROVE  Outstanding(op) = IF op \in Pend(ring, cq) THEN 1 ELSE 0
<1> DEFINE S == {i \in 1 .. Len(ring.sq) : ring.sq[i] = op}
<1> DEFINE Q == {i \in 1 .. Len(cq) : cq[i].op = op}
<1>1. Placed(ring, cq)
  BY DEF Inv, OpsOK
<1>2. /\ \A i, j \in S : i = j
      /\ \A i, j \in Q : i = j
      /\ op \in ring.inflight => S = {} /\ Q = {}
      /\ S # {} => Q = {}
  BY <1>1 DEF Placed
<1>3. op \in Pend(ring, cq) <=> S # {} \/ op \in ring.inflight \/ Q # {}
  BY DEF Pend, Waiting, Queued, Cqes
<1>4. Outstanding(op) = Cardinality(S) + (IF op \in ring.inflight THEN 1 ELSE 0) + Cardinality(Q)
  BY DEF Outstanding
<1> HIDE DEF S, Q
<1>5. Cardinality(S) = IF S = {} THEN 0 ELSE 1
  BY <1>2, OnePosition
<1>6. Cardinality(Q) = IF Q = {} THEN 0 ELSE 1
  BY <1>2, OnePosition
<1> QED
  BY <1>2, <1>3, <1>4, <1>5, <1>6

\* No operation or completion points to a freed Conn, and every Conn in the map
\* has exactly one under way, even when freed addresses are used again and
\* submissions fail.
THEOREM OneOpPerConnHolds == Spec => []OneOpPerConn
<1>1. Inv => OneOpPerConn
  <2> SUFFICES ASSUME Inv, NEW o \in Objs
               PROVE  Outstanding(RecvOp(o)) + Outstanding(SendOp(o)) = IF o \in Live THEN 1 ELSE 0
    BY DEF OneOpPerConn
  <2>1. /\ Outstanding(RecvOp(o)) = IF RecvOp(o) \in Pend(ring, cq) THEN 1 ELSE 0
        /\ Outstanding(SendOp(o)) = IF SendOp(o) \in Pend(ring, cq) THEN 1 ELSE 0
    BY OutstandingFacts
  <2>2. /\ o \in Live <=> RecvOp(o) \in Pend(ring, cq) \/ SendOp(o) \in Pend(ring, cq)
        /\ ~(RecvOp(o) \in Pend(ring, cq) /\ SendOp(o) \in Pend(ring, cq))
    BY DEF Inv, OpsOK
  <2> QED
    BY <2>1, <2>2
<1> QED
  BY UringInvariant, <1>1, PTL

\* The map, the descriptor table and the counters agree after every step.
THEOREM MapMatchesFdsHolds == Spec => []MapMatchesFds
<1>1. Inv => MapMatchesFds
  <2> SUFFICES ASSUME Inv PROVE MapMatchesFds
    OBVIOUS
  <2>1. \A f : (\E e \in Cqes(cq) : e.fd = f) <=> \E i \in 1 .. Len(cq) : cq[i].fd = f
    BY DEF Cqes
  <2> QED
    BY <2>1 DEF Inv, MapOK, FdsOK, MapMatchesFds
<1> QED
  BY UringInvariant, <1>1, PTL

\* "keep one accept outstanding at all times": one, while submissions work.
THEOREM AcceptArmedHolds == Spec => []AcceptArmed
<1>1. Inv => AcceptArmed
  BY OutstandingFacts DEF Inv, OpsOK, AcceptArmed
<1> QED
  BY UringInvariant, <1>1, PTL

\* Between a client's input and its output no byte is lost, doubled or
\* reordered, however sends are cut short.
THEOREM NoByteLostHolds == Spec => []NoByteLost
<1>1. Inv => NoByteLost
  <2> SUFFICES ASSUME Inv, NEW o \in Live
               PROVE  Reply(ConnOf(o)) \o Unsent(o) \o inq[ConnOf(o)] = Stream(ConnOf(o))
    BY DEF NoByteLost
  <2> DEFINE done == {i \in 1 .. Len(cq) : cq[i].op = SendOp(o) /\ cq[i].res > 0}
  <2>1. ObjData(o)
    BY DEF Inv, DataOK
  <2>2. CASE done = {}
    <3>1. \A e \in Cqes(cq) : ~SentBy(e, o)
      BY <2>2 DEF Cqes, SentBy
    <3>2. Unsent(o) = objBuf[o]
      BY <2>2 DEF Unsent
    <3> QED
      BY <2>1, <3>1, <3>2 DEF ObjData, Whole
  <2>3. CASE done # {}
    <3>1. done \subseteq Nat
      BY DEF Inv, TypeOK
    <3>2. PICK i \in done : i = Min(done)
      BY <2>3, <3>1, MinFacts
    <3>3. cq[i] \in Cqes(cq) /\ SentBy(cq[i], o)
      BY DEF Cqes, SentBy
    <3>4. Unsent(o) = SubSeq(objBuf[o], cq[i].res + 1, Len(objBuf[o]))
      BY <2>3, <3>2 DEF Unsent
    <3> QED
      BY <2>1, <3>3, <3>4 DEF ObjData, Whole
  <2> QED
    BY <2>2, <2>3
<1> QED
  BY UringInvariant, <1>1, PTL

-----------------------------------------------------------------------------
(* The refinement *)

Replies == [c \in Conns |-> Reply(c)]
Lives == [c \in Conns |-> IF srv[c] = "queued" THEN "pending" ELSE srv[c]]
Goners == [c \in Conns |-> Gone(c)]
Phase == IF ~Up THEN "down" ELSE IF sig = "none" THEN "serving" ELSE "stopping"

\* A step that changes none of the mapped variables is a stuttering step of
\* the service.
LEMMA MapsToStutter ==
    ASSUME sent' = sent, Replies' = Replies, Lives' = Lives, Goners' = Goners, Phase' = Phase,
           faulty' = faulty
    PROVE  UNCHANGED Abstract!vars
BY DEF Abstract!vars, Replies, Lives, Goners, Phase

\* The service is in its initial state when start() has returned.
LEMMA InitMaps == Init => Abstract!Init
<1> SUFFICES ASSUME Init PROVE Abstract!Init
  OBVIOUS
<1>0. faulty \in BOOLEAN
  BY InitInv DEF Inv, TypeOK
<1> USE DEF Init, SocketsInit
<1>1. Replies = [c \in Conns |-> <<>>]
  <2>1. \A c \in Conns : Reply(c) = <<>>
    BY DEF Reply
  <2> QED
    BY <2>1 DEF Replies
<1>2. Lives = [c \in Conns |-> "none"] /\ Phase = "serving" /\ sent = [c \in Conns |-> 0]
  BY DEF Lives, Phase, Up
<1>3. Goners = [c \in Conns |-> FALSE]
  <2>1. \A c \in Conns : Gone(c) = FALSE
    BY DEF Gone
  <2> QED
    BY <2>1, Zenon DEF Goners
<1> HIDE DEF Init, SocketsInit
<1> QED
  BY <1>0, <1>1, <1>2, <1>3 DEF Abstract!Init, Replies, Lives, Goners, Phase

\* A client's step is the same step of the service, or none.
LEMMA ClientMaps ==
    ASSUME Inv, NEW c \in Conns, ClientAct(c), Up, pc' = pc, faulty' = faulty
    PROVE  [Abstract!Next]_(Abstract!vars)
<1>1. SockOK /\ SocketsTypeOK
  BY DEF Inv, SockOK
<1>2. Up' /\ sig' = sig
  BY <1>1, GoneStays DEF Up
<1>3. CASE Connect(c)
  <2>1. /\ srv[c] = "none" /\ srv' = [srv EXCEPT ![c] = "queued"]
        /\ link[c] = "none" /\ link' = [link EXCEPT ![c] = "up"]
        /\ UNCHANGED <<sent, inq, outq, got>>
    BY <1>1, <1>3 DEF Connect, streamVars, SockOK, LinkOK
  <2>2. Replies' = Replies
    BY <2>1 DEF Replies, Reply
  <2>3. Goners' = Goners
    BY <1>1, <2>1 DEF Goners, Gone, SocketsTypeOK
  <2>4. Lives[c] = "none" /\ Lives' = [Lives EXCEPT ![c] = "pending"]
    BY <1>1, <2>1 DEF Lives, SocketsTypeOK
  <2>5. Phase' = Phase
    BY <1>2 DEF Phase
  <2>6. Abstract!Connect(c)
    BY <2>1, <2>2, <2>3, <2>4, <2>5 DEF Abstract!Connect, Replies, Lives, Goners, Phase
  <2> QED
    BY <2>6, <1>2 DEF Abstract!Next
<1>4. CASE ClientSend(c)
  <2>1. Abstract!Send(c)
    BY <1>1, <1>2, <1>4, ClientSendFacts DEF Abstract!Send, ClientSend, Gone, SocketsTypeOK
  <2> QED
    BY <2>1, <1>2 DEF Abstract!Next
<1>5. CASE ClientRecv(c)
  <2>1. \A d \in Conns : Reply(d)' = Reply(d)
    BY <1>1, <1>5, ClientRecvKeepsReply
  <2> QED
    BY <2>1, <1>2, <1>5, MapsToStutter DEF ClientRecv, Replies, Lives, Goners, Phase, Gone
<1>6. CASE ClientClose(c)
  <2>1. Abstract!Leave(c)
    BY <1>1, <1>2, <1>6
    DEF Abstract!Leave, ClientClose, streamVars, Reply, Gone, SocketsTypeOK, LinkOK, SockOK
  <2> QED
    BY <2>1, <1>2 DEF Abstract!Next
<1>7. CASE PeerReset(c)
  <2>1. Goners' = Goners
    BY <1>1, <1>7 DEF PeerReset, Goners, Gone, SocketsTypeOK
  <2> QED
    BY <2>1, <1>2, <1>7, MapsToStutter DEF PeerReset, streamVars, Replies, Lives, Phase, Reply
<1> QED
  BY <1>3, <1>4, <1>5, <1>6, <1>7 DEF ClientAct

\* A step that answers nothing and opens or closes nothing is a stuttering step.
LEMMA QuietMaps ==
    ASSUME UNCHANGED <<link, srv, sent, outq, got, sig, faulty>>, Up' = Up
    PROVE  UNCHANGED Abstract!vars
<1>1. Replies' = Replies /\ Lives' = Lives /\ Phase' = Phase
  BY DEF Replies, Reply, Lives, Phase
<1>2. Goners' = Goners
  BY DEF Goners, Gone
<1> QED
  BY <1>1, <1>2, MapsToStutter

\* The completion of an accept is the service's Accept.
LEMMA AcceptMaps == Inv /\ CompleteAccept => Abstract!Next
<1> SUFFICES ASSUME Inv, CompleteAccept PROVE Abstract!Next
  OBVIOUS
<1>1. PICK c \in Conns :
         /\ srv[c] = "queued" /\ srv' = [srv EXCEPT ![c] = "open"]
         /\ UNCHANGED <<link, sent, inq, outq, got, sig>>
  BY AcceptKeepsSock DEF CompleteAccept, Inv
<1>2. Up /\ Up' /\ faulty' = faulty
  BY DEF CompleteAccept, Held, Up
<1>3. Replies' = Replies /\ Phase' = Phase /\ Phase # "down"
  BY <1>1, <1>2 DEF Replies, Reply, Phase
<1>4. Goners' = Goners
  BY <1>1 DEF Goners, Gone
<1>5. Lives[c] = "pending" /\ Lives' = [Lives EXCEPT ![c] = "open"]
  BY <1>1 DEF Lives, Inv, TypeOK, SocketsTypeOK
<1>6. Abstract!Accept(c)
  BY <1>1, <1>3, <1>4, <1>5 DEF Abstract!Accept, Replies, Lives, Goners, Phase
<1> QED
  BY <1>2, <1>3, <1>6 DEF Abstract!Next, Phase

\* The completion of a send is the service's Echo.
LEMMA SendMaps ==
    ASSUME Inv, NEW o \in Objs, CompleteSend(o)
    PROVE  Abstract!Next
<1>1. PICK c \in Conns, n \in Nat \ {0} :
         /\ srv[c] = "open"
         /\ Reply(c)' = Prefix(c, Len(Reply(c)) + n)
         /\ Len(Reply(c)) + n <= sent[c]
         /\ \A d \in Conns : d # c => Reply(d)' = Reply(d)
         /\ UNCHANGED <<backlog, link, srv, sent, inq, got, sig>>
  BY CompleteSendFacts
<1>2. Up /\ Up' /\ faulty' = faulty
  BY DEF CompleteSend, Held, Up
<1>3. Len(Reply(c)) \in Nat /\ sent[c] \in Nat
  BY PieceTypes DEF Inv, TypeOK
<1>4. Lives' = Lives /\ Lives[c] = "open" /\ Phase' = Phase /\ Phase # "down"
  BY <1>1, <1>2 DEF Lives, Phase
<1>5. Goners' = Goners
  BY <1>1 DEF Goners, Gone
<1> DEFINE m == Len(Reply(c)) + n
<1>6. m \in Len(Replies[c]) + 1 .. sent[c]
  BY <1>1, <1>3 DEF Replies
<1>7. Replies' = [Replies EXCEPT ![c] = [i \in 1 .. m |-> <<c, i>>]]
  BY <1>1 DEF Replies, Prefix
<1> HIDE DEF m
<1>8. Abstract!Echo(c)
  BY <1>1, <1>4, <1>5, <1>6, <1>7 DEF Abstract!Echo, Replies, Lives, Goners, Phase
<1> QED
  BY <1>2, <1>4, <1>8 DEF Abstract!Next, Phase

\* A close() is the service's Close: the client is gone, or the submission of the
\* connection's next operation failed.
LEMMA CloseMaps ==
    ASSUME Inv, NEW c \in Conns, srv[c] = "open", CloseSide(c), Gone(c) \/ faulty,
           Up, Up', faulty' = faulty
    PROVE  Abstract!Next
<1>1. /\ srv' = [srv EXCEPT ![c] = "closed"]
      /\ UNCHANGED <<link, sent, inq, outq, got, sig>>
  BY DEF CloseSide, streamVars
<1>2. Replies' = Replies /\ Phase' = Phase /\ Phase # "down"
  BY <1>1 DEF Replies, Reply, Phase
<1>3. Goners' = Goners /\ (Goners[c] \/ faulty)
  BY <1>1 DEF Goners, Gone
<1>4. Lives[c] = "open" /\ Lives' = [Lives EXCEPT ![c] = "closed"]
  BY <1>1 DEF Lives, Inv, TypeOK, SocketsTypeOK
<1>5. Abstract!Close(c)
  BY <1>1, <1>2, <1>3, <1>4 DEF Abstract!Close, Replies, Lives, Goners, Phase
<1> QED
  BY <1>2, <1>5 DEF Abstract!Next, Phase

\* The handlers: nothing of the service changes, or one connection is closed.
LEMMA HandlersMap ==
    ASSUME BufSize # 0, Inv,
           HandleAccept \/ HandleRecv \/ HandleSendShort \/ HandleSendDone \/ HandleEnd
    PROVE  [Abstract!Next]_(Abstract!vars)
<1>1. Up /\ Up' /\ faulty' = faulty
  BY DEF HandleAccept, HandleRecv, HandleSendShort, HandleSendDone, HandleEnd, Handling, Up
<1>2. CASE UNCHANGED sockVars
  BY <1>1, <1>2, QuietMaps DEF sockVars
<1>3. CASE HandleAccept /\ ~UNCHANGED sockVars
  <2>1. PICK f \in Fds, c \in Conns : f = Head(cq).fd /\ c = fdtab[f] /\ srv[c] = "open"
    BY <1>3, AcceptedHead DEF HandleAccept
  <2>2. CloseSide(fdtab[Head(cq).fd])
    BY <1>3 DEF HandleAccept
  <2>3. faulty
    <3>1. PICK g \in Fds : connections[g] = None
      BY <1>3, AcceptedHead DEF HandleAccept
    <3>2. PICK o \in Objs : o = NewObj /\ o \notin Live
      BY <3>1, NewObjFacts
    <3>3. PICK a \in Prep(ring, AcceptOp) : \E b \in Prep(a.ring, RecvOp(o)) : ~b.ok
      BY <1>3, <3>2 DEF HandleAccept
    <3>4. PICK b \in Prep(a.ring, RecvOp(o)) : ~b.ok
      BY <3>3
    <3> QED
      BY <1>3, <3>2, <3>4, AcceptRings DEF HandleAccept
  <2> QED
    BY <1>1, <2>1, <2>2, <2>3, CloseMaps
<1>4. CASE (HandleRecv \/ HandleSendShort \/ HandleSendDone) /\ ~UNCHANGED sockVars
  <2>1. Handling("recv") \/ Handling("send")
    BY <1>4 DEF HandleRecv, HandleSendShort, HandleSendDone
  <2>2. PICK c \in Conns : c = ConnOf(obj) /\ srv[c] = "open"
    BY <2>1, ConnHead, LiveFacts
  <2>3. PICK op, counted : SubmitOrClose(op, counted) /\ (op = RecvOp(obj) \/ op = SendOp(obj))
    BY <1>4 DEF HandleRecv, HandleSendShort, HandleSendDone
  <2>4. PICK p \in Prep(ring, op) : ~p.ok /\ CloseConnection
    BY <1>4, <2>3 DEF SubmitOrClose
  <2>5. faulty
    <3>1. PICK q \in Seq(Cqe) : q = Tail(cq) /\ Placed(ring, q) /\ op \notin Pend(ring, q)
      BY <2>1, <2>3, ConnHead
    <3>2. ring \in Ring /\ Len(ring.sq) <= QDepth /\ op \in Op
      BY <2>1, <2>3, RingFacts, OpsDiffer, ConnHead
    <3> QED
      BY <2>4, <3>1, <3>2, PrepFacts
  <2> QED
    BY <1>1, <2>2, <2>4, <2>5, CloseMaps DEF CloseConnection
<1>5. CASE HandleEnd
  <2>1. /\ (Handling("recv") /\ res <= 0) \/ (Handling("send") /\ res < 0)
        /\ CloseConnection
    BY <1>5 DEF HandleEnd
  <2>2. PICK c \in Conns : c = ConnOf(obj) /\ srv[c] = "open"
    BY <2>1, ConnHead, LiveFacts
  <2>3. Head(cq) \in Cqe /\ res = Head(cq).res /\ res \in Int
    BY <2>1, HeadFacts DEF Handling, res, Cqe
  <2>4. Gone(c)
    BY <2>1, <2>2, <2>3, HeadFacts DEF Handling, RecvMeans, SendMeans
  <2> QED
    BY <1>1, <2>1, <2>2, <2>4, CloseMaps DEF CloseConnection
<1> QED
  BY <1>2, <1>3, <1>4, <1>5

\* The process goes down after a signal, or when a submission failed.
LEMMA DownMaps == Inv /\ (EnterFails \/ (Drained /\ ~running)) => Abstract!Next
<1> SUFFICES ASSUME Inv, EnterFails \/ (Drained /\ ~running) PROVE Abstract!Next
  OBVIOUS
<1>1. /\ Up /\ ~Up' /\ UNCHANGED <<link, srv, sent, inq, outq, got, sig, faulty>>
      /\ faulty \/ sig # "none"
  BY DEF EnterFails, Drained, Up, sockVars, Inv, StopOK
<1>2. Replies' = Replies /\ Lives' = Lives /\ Phase # "down" /\ Phase' = "down"
  BY <1>1 DEF Replies, Reply, Lives, Phase
<1>3. Goners' = Goners
  BY <1>1 DEF Goners, Gone
<1>4. Phase = "stopping" \/ faulty
  BY <1>1 DEF Phase
<1>5. Abstract!Down
  BY <1>1, <1>2, <1>3, <1>4 DEF Abstract!Down, Replies, Lives, Goners, Phase
<1> QED
  BY <1>1, <1>2, <1>5 DEF Abstract!Next, Phase

\* Every step of the backend is a step of the service, or changes nothing of it.
LEMMA NextMaps ==
    ASSUME BufSize # 0, Inv, [Next]_vars
    PROVE  [Abstract!Next]_(Abstract!vars)
<1>1. CASE Enter \/ EnterReturns \/ (Drained /\ running) \/ HandleSignal \/ HandleAcceptError
  BY <1>1, QuietMaps DEF Enter, EnterReturns, Drained, HandleSignal, HandleAcceptError, Handling,
                         sockVars, Up
<1>2. CASE EnterFails \/ (Drained /\ ~running)
  BY <1>2, DownMaps
<1>3. CASE HandleAccept \/ HandleRecv \/ HandleSendShort \/ HandleSendDone \/ HandleEnd
  BY <1>3, HandlersMap
<1>4. CASE CompleteAccept
  BY <1>4, AcceptMaps
<1>5. CASE \/ CompleteAcceptError \/ CompleteSignal
           \/ \E o \in Objs : CompleteRecvEnd(o) \/ CompleteSendError(o) \/ CompleteRecv(o)
  BY <1>5, QuietMaps DEF CompleteAcceptError, CompleteSignal, CompleteRecvEnd, CompleteSendError,
                         CompleteRecv, TakeInput, sockVars, Up
<1>6. ASSUME NEW o \in Objs, CompleteSend(o) PROVE [Abstract!Next]_(Abstract!vars)
  BY <1>6, SendMaps
<1>7. ASSUME NEW c \in Conns, ClientStep(c) \/ ClientReads(c)
      PROVE  [Abstract!Next]_(Abstract!vars)
  BY <1>7, ClientMaps DEF ClientStep, ClientReads, ClientAct, serverVars
<1>8. CASE SignalArrives
  <2>1. /\ Up /\ Up' /\ sig = "none" /\ sig' = "pending" /\ faulty' = faulty
        /\ UNCHANGED <<link, srv, sent, inq, outq, got>>
    BY <1>8 DEF SignalArrives, Signal, streamVars, serverVars, Up
  <2>2. Replies' = Replies /\ Lives' = Lives /\ Phase = "serving" /\ Phase' = "stopping"
    BY <2>1 DEF Replies, Reply, Lives, Phase
  <2>3. Goners' = Goners
    BY <2>1 DEF Goners, Gone
  <2>4. Abstract!Stop
    BY <2>1, <2>2, <2>3 DEF Abstract!Stop, Replies, Lives, Goners, Phase
  <2> QED
    BY <2>1, <2>2, <2>4 DEF Abstract!Next, Phase
<1>9. CASE Terminated \/ UNCHANGED vars
  BY <1>9, QuietMaps DEF Terminated, vars, sockVars, serverVars, Up
<1> QED
  BY <1>1, <1>2, <1>3, <1>4, <1>5, <1>6, <1>7, <1>8, <1>9 DEF Next, ServerStep, KernelConnStep

\* The io_uring backend implements the echo service, for any number of clients,
\* descriptors and queue entries, whether or not submissions fail, with every
\* buffer that holds at least a byte.  (With --buffer=0, which the command line
\* accepts, a recv completes with 0 at once and handle_completion takes it for the
\* end of the stream.)
THEOREM Refinement ==
    ASSUME BufSize # 0
    PROVE  Spec => ImplementsEchoService
<1>1. Inv /\ [Next]_vars => [Abstract!Next]_(Abstract!vars)
  BY NextMaps
<1> QED
  BY InitMaps, UringInvariant, <1>1, PTL DEF Spec, ImplementsEchoService, Abstract!Spec
=============================================================================
