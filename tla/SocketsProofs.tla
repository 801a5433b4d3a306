--------------------------- MODULE SocketsProofs ---------------------------
(***************************************************************************)
(* What the proofs about the three backends share: facts about sequences   *)
(* of bytes that are cut and moved, what the clients' steps and the        *)
(* server's calls do to the connections, and how a sum over all of them    *)
(* follows one that changes.                                               *)
(***************************************************************************)
EXTENDS Sockets, SequenceTheorems, FiniteSetTheorems, NaturalsInduction, TLAPS

-----------------------------------------------------------------------------
(* Sequences *)

\* Moving the first element of o to the end of g leaves g \o o as it was.
LEMMA HeadMoves ==
    ASSUME NEW T, NEW g \in Seq(T), NEW o \in Seq(T), o # <<>>
    PROVE  /\ Append(g, Head(o)) \in Seq(T) /\ Tail(o) \in Seq(T)
           /\ Append(g, Head(o)) \o Tail(o) = g \o o
OBVIOUS

\* Cutting s after n elements loses none.
LEMMA CutJoins ==
    ASSUME NEW T, NEW s \in Seq(T), NEW n \in 0 .. Len(s)
    PROVE  /\ SubSeq(s, 1, n) \in Seq(T) /\ Len(SubSeq(s, 1, n)) = n
           /\ SubSeq(s, n + 1, Len(s)) \in Seq(T)
           /\ Len(SubSeq(s, n + 1, Len(s))) = Len(s) - n
           /\ SubSeq(s, 1, n) \o SubSeq(s, n + 1, Len(s)) = s
<1>1. Len(s) \in Nat /\ n \in Nat /\ n <= Len(s)
  OBVIOUS
<1>2. SubSeq(s, 1, n) \in Seq(T) /\ Len(SubSeq(s, 1, n)) = n
  BY <1>1, SubSeqProperties
<1>3. /\ SubSeq(s, n + 1, Len(s)) \in Seq(T)
      /\ Len(SubSeq(s, n + 1, Len(s))) = Len(s) - n
  BY <1>1, SubSeqProperties
<1>4. SubSeq(s, 1, n) \o SubSeq(s, n + 1, Len(s)) = SubSeq(s, 1, Len(s))
  BY <1>1, ConcatAdjacentSubSeq, 1 \in 1 .. Len(s) + 1, n \in 1 - 1 .. Len(s),
     Len(s) \in n .. Len(s)
<1> QED
  BY <1>2, <1>3, <1>4, SubSeqFull

\* Appending to the last of three pieces appends to the whole.
LEMMA AppendToLast ==
    ASSUME NEW T, NEW a \in Seq(T), NEW b \in Seq(T), NEW e \in T
    PROVE  a \o Append(b, e) = Append(a \o b, e)
OBVIOUS

\* Concatenating bytes is associative and gives bytes.
LEMMA BytesConcat ==
    /\ \A a, b \in Seq(Bytes) :
          a \o b \in Seq(Bytes) /\ Len(a \o b) = Len(a) + Len(b)
    /\ \A a, b, d \in Seq(Bytes) : (a \o b) \o d = a \o (b \o d)
    /\ \A a \in Seq(Bytes) : a \o <<>> = a /\ <<>> \o a = a /\ Len(a) \in Nat
BY ConcatProperties, ConcatAssociative, ConcatEmptySeq, LenProperties

LEMMA BytesAssociate ==
    \A a, b, d \in Seq(Bytes) : (a \o b) \o d = a \o (b \o d)
BY BytesConcat

\* The first n bytes of client c.
Prefix(c, n) == [i \in 1 .. n |-> <<c, i>>]

\* The next byte client c sends goes to the end of its stream.
LEMMA PrefixFacts ==
    ASSUME NEW c \in Conns, NEW n \in Nat
    PROVE  /\ Prefix(c, n) \in Seq(Bytes) /\ Len(Prefix(c, n)) = n
           /\ <<c, n + 1>> \in Bytes
           /\ Append(Prefix(c, n), <<c, n + 1>>) = Prefix(c, n + 1)
BY DEF Prefix, Bytes

\* Nothing has been sent.
LEMMA PrefixZero ==
    Len(<<>>) = 0 /\ \A c \in Conns : Prefix(c, 0) = <<>>
BY DEF Prefix

\* If a piece a and a rest b are together the first n bytes, then a alone is
\* the first Len(a) bytes.
LEMMA PrefixOfStream ==
    ASSUME NEW c \in Conns, NEW n \in Nat,
           NEW a \in Seq(Bytes), NEW b \in Seq(Bytes), a \o b = Prefix(c, n)
    PROVE  a = Prefix(c, Len(a)) /\ n = Len(a) + Len(b)
<1>1. Len(a) \in Nat /\ Len(b) \in Nat /\ Len(a \o b) = Len(a) + Len(b)
  OBVIOUS
<1>2. n = Len(a) + Len(b)
  BY <1>1, PrefixFacts
<1>3. \A i \in 1 .. Len(a) : a[i] = (a \o b)[i]
  OBVIOUS
<1>4. \A i \in 1 .. Len(a) : a[i] = <<c, i>>
  <2> SUFFICES ASSUME NEW i \in 1 .. Len(a) PROVE a[i] = <<c, i>>
    OBVIOUS
  <2>1. i \in 1 .. n
    BY <1>1, <1>2
  <2> QED
    BY <1>3, <2>1 DEF Prefix
<1> QED
  BY <1>1, <1>2, <1>4 DEF Prefix

-----------------------------------------------------------------------------
(* The connections *)

\* The connections in the queue are the queued ones, each once.
QueueOK ==
    /\ \A i \in 1 .. Len(backlog) : srv[backlog[i]] = "queued"
    /\ \A i, j \in 1 .. Len(backlog) : backlog[i] = backlog[j] => i = j

\* A connection nobody has made has no state.
LinkOK ==
    \A c \in Conns :
        /\ srv[c] = "none" <=> link[c] = "none"
        /\ srv[c] = "none" => /\ sent[c] = 0 /\ inq[c] = <<>>
                              /\ outq[c] = <<>> /\ got[c] = <<>>

\* What a client was answered is a prefix of what it sent.
ReplyOK ==
    \A c \in Conns :
        /\ Reply(c) = Prefix(c, Len(Reply(c)))
        /\ Len(Reply(c)) <= sent[c]

SockOK == SocketsTypeOK /\ QueueOK /\ LinkOK /\ ReplyOK

\* No byte of c is missing if mid is what the server holds of it.
Whole(c, mid) == Reply(c) \o mid \o inq[c] = Stream(c)

\* Everything a client or the network does to connection c.
ClientAct(c) ==
    Connect(c) \/ ClientSend(c) \/ ClientRecv(c) \/ ClientClose(c) \/ PeerReset(c)

\* The pieces of a connection are sequences of bytes.
LEMMA PieceTypes ==
    ASSUME SocketsTypeOK, NEW c \in Conns
    PROVE  /\ inq[c] \in Seq(Bytes) /\ Len(inq[c]) \in Nat
           /\ outq[c] \in Seq(Bytes) /\ Len(outq[c]) \in Nat
           /\ got[c] \in Seq(Bytes) /\ Len(got[c]) \in Nat
           /\ Reply(c) \in Seq(Bytes) /\ Len(Reply(c)) \in Nat
           /\ Len(Reply(c)) = Len(got[c]) + Len(outq[c])
           /\ sent[c] \in Nat /\ Stream(c) = Prefix(c, sent[c])
<1>1. inq[c] \in Seq(Bytes) /\ outq[c] \in Seq(Bytes) /\ got[c] \in Seq(Bytes)
  BY DEF SocketsTypeOK
<1>2. sent[c] \in Nat /\ Stream(c) = Prefix(c, sent[c])
  BY DEF SocketsTypeOK, Stream, Prefix
<1>3. /\ Len(inq[c]) \in Nat /\ Len(outq[c]) \in Nat /\ Len(got[c]) \in Nat
      /\ got[c] \o outq[c] \in Seq(Bytes) /\ Len(got[c] \o outq[c]) \in Nat
      /\ Len(got[c] \o outq[c]) = Len(got[c]) + Len(outq[c])
  BY <1>1, LenProperties, ConcatProperties
<1>4. Reply(c) = got[c] \o outq[c]
  BY DEF Reply
<1> QED
  BY <1>1, <1>2, <1>3, <1>4

\* A server that holds the bytes mid of c answers with a prefix of the stream,
\* and the lengths add up.
LEMMA WholeFacts ==
    ASSUME SocketsTypeOK, NEW c \in Conns, NEW mid \in Seq(Bytes), Whole(c, mid)
    PROVE  /\ Reply(c) = Prefix(c, Len(Reply(c)))
           /\ Reply(c) \o mid = Prefix(c, Len(Reply(c)) + Len(mid))
           /\ Len(mid) \in Nat
           /\ sent[c] = Len(Reply(c)) + Len(mid) + Len(inq[c])
<1>1. /\ inq[c] \in Seq(Bytes) /\ Len(inq[c]) \in Nat
      /\ Reply(c) \in Seq(Bytes) /\ Len(Reply(c)) \in Nat
      /\ sent[c] \in Nat /\ Stream(c) = Prefix(c, sent[c])
  BY PieceTypes
<1>2. /\ Reply(c) \o mid \in Seq(Bytes) /\ Len(mid) \in Nat
      /\ Len(Reply(c) \o mid) = Len(Reply(c)) + Len(mid)
  BY <1>1
<1>3. (Reply(c) \o mid) \o inq[c] = Prefix(c, sent[c])
  BY <1>1 DEF Whole
<1>4. /\ Reply(c) \o mid = Prefix(c, Len(Reply(c) \o mid))
      /\ sent[c] = Len(Reply(c) \o mid) + Len(inq[c])
  <2>1. \A a, b \in Seq(Bytes) : a \o b = Prefix(c, sent[c]) =>
           a = Prefix(c, Len(a)) /\ sent[c] = Len(a) + Len(b)
    BY <1>1, PrefixOfStream
  <2> QED
    BY <1>1, <1>2, <1>3, <2>1
<1>5. Reply(c) = Prefix(c, Len(Reply(c)))
  BY <1>1, <1>2, <1>4, PrefixOfStream
<1> QED
  BY <1>1, <1>2, <1>4, <1>5

\* What a client reads moves from one end of its reply to the other.
LEMMA ClientRecvKeepsReply ==
    ASSUME SocketsTypeOK, NEW c \in Conns, ClientRecv(c)
    PROVE  /\ SocketsTypeOK'
           /\ \A d \in Conns : Reply(d)' = Reply(d)
<1>1. got[c] \in Seq(Bytes) /\ outq[c] \in Seq(Bytes) /\ outq[c] # <<>>
  BY PieceTypes DEF ClientRecv
<1>2. /\ Append(got[c], Head(outq[c])) \in Seq(Bytes) /\ Tail(outq[c]) \in Seq(Bytes)
      /\ Append(got[c], Head(outq[c])) \o Tail(outq[c]) = got[c] \o outq[c]
  BY <1>1, HeadMoves
<1>3. /\ got' = [got EXCEPT ![c] = Append(got[c], Head(outq[c]))]
      /\ outq' = [outq EXCEPT ![c] = Tail(outq[c])]
  BY DEF ClientRecv
<1>4. SocketsTypeOK'
  BY <1>2, <1>3 DEF ClientRecv, SocketsTypeOK
<1>5. got'[c] \o outq'[c] = got[c] \o outq[c]
  BY <1>2, <1>3 DEF SocketsTypeOK
<1>6. \A d \in Conns : d # c => got'[d] \o outq'[d] = got[d] \o outq[d]
  BY <1>3 DEF SocketsTypeOK
<1> QED
  BY <1>4, <1>5, <1>6 DEF Reply

\* What a client sends goes to the end of its stream and of the input.
LEMMA ClientSendFacts ==
    ASSUME SocketsTypeOK, NEW c \in Conns, ClientSend(c)
    PROVE  /\ SocketsTypeOK'
           /\ sent'[c] = sent[c] + 1 /\ inq'[c] = Append(inq[c], <<c, sent[c] + 1>>)
           /\ \A d \in Conns : d # c => sent'[d] = sent[d] /\ inq'[d] = inq[d]
           /\ \A d \in Conns : Reply(d)' = Reply(d)
           /\ UNCHANGED <<backlog, link, srv, outq, got, sig>>
           /\ link[c] = "up"
<1>0. inq[c] \in Seq(Bytes) /\ sent[c] \in Nat
  BY PieceTypes
<1>1. inq[c] \in Seq(Bytes) /\ sent[c] \in Nat /\ <<c, sent[c] + 1>> \in Bytes
  BY <1>0, PrefixFacts
<1>2. Append(inq[c], <<c, sent[c] + 1>>) \in Seq(Bytes)
  BY <1>1
<1>3. /\ sent' = [sent EXCEPT ![c] = sent[c] + 1]
      /\ inq' = [inq EXCEPT ![c] = Append(inq[c], <<c, sent[c] + 1>>)]
      /\ UNCHANGED <<backlog, link, srv, outq, got, sig>>
      /\ link[c] = "up"
  BY DEF ClientSend
<1>4. SocketsTypeOK'
  BY <1>1, <1>2, <1>3 DEF SocketsTypeOK
<1> QED
  BY <1>3, <1>4 DEF SocketsTypeOK, Reply

\* Connecting puts a connection at the end of the queue.
LEMMA ConnectKeepsQueue ==
    ASSUME SocketsTypeOK, QueueOK, NEW c \in Conns, Connect(c)
    PROVE  SocketsTypeOK' /\ QueueOK'
<1>1. /\ backlog \in Seq(Conns) /\ Len(backlog) \in Nat /\ srv[c] = "none"
      /\ backlog' = Append(backlog, c)
      /\ srv' = [srv EXCEPT ![c] = "queued"]
  BY DEF SocketsTypeOK, Connect
<1>2. /\ backlog' \in Seq(Conns) /\ Len(backlog') = Len(backlog) + 1
      /\ \A i \in 1 .. Len(backlog) : backlog'[i] = backlog[i]
      /\ backlog'[Len(backlog) + 1] = c
  BY <1>1
<1>3. SocketsTypeOK'
  BY <1>1, <1>2 DEF Connect, streamVars, SocketsTypeOK, Links, Sides
<1>4. \A i \in 1 .. Len(backlog) : backlog[i] \in Conns /\ backlog[i] # c
  BY <1>1 DEF QueueOK
<1>5. QueueOK'
  BY <1>1, <1>2, <1>4 DEF QueueOK, SocketsTypeOK
<1> QED
  BY <1>3, <1>5

\* Whatever a client does, the connections stay in order.
LEMMA ClientKeepsSock ==
    ASSUME SockOK, NEW c \in Conns, ClientAct(c)
    PROVE  SockOK'
<1> USE DEF SockOK
<1>1. CASE Connect(c)
  <2>1. SocketsTypeOK' /\ QueueOK'
    BY <1>1, ConnectKeepsQueue
  <2>2. LinkOK'
    BY <1>1 DEF Connect, streamVars, LinkOK, SocketsTypeOK
  <2>3. ReplyOK'
    BY <1>1 DEF Connect, streamVars, ReplyOK, Reply
  <2> QED
    BY <2>1, <2>2, <2>3
<1>2. CASE ClientSend(c)
  <2>1. QueueOK' /\ LinkOK'
    BY <1>2, ClientSendFacts DEF QueueOK, LinkOK
  <2>2. ReplyOK'
    <3>1. \A d \in Conns : sent[d] \in Nat /\ Len(Reply(d)) \in Nat
      BY PieceTypes
    <3>2. \A d \in Conns : sent'[d] = sent[d] + 1 \/ sent'[d] = sent[d]
      BY <1>2, ClientSendFacts
    <3>3. \A d \in Conns : Reply(d)' = Reply(d)
      BY <1>2, ClientSendFacts
    <3> QED
      BY <3>1, <3>2, <3>3 DEF ReplyOK
  <2> QED
    BY <1>2, <2>1, <2>2, ClientSendFacts
<1>3. CASE ClientRecv(c)
  <2>1. QueueOK' /\ LinkOK'
    BY <1>3 DEF ClientRecv, QueueOK, LinkOK, SocketsTypeOK
  <2>2. ReplyOK'
    BY <1>3, ClientRecvKeepsReply DEF ClientRecv, ReplyOK
  <2> QED
    BY <1>3, <2>1, <2>2, ClientRecvKeepsReply
<1>4. CASE ClientClose(c) \/ PeerReset(c)
  <2>0. /\ link[c] \in {"up", "fin"} /\ link' \in [Conns -> Links] /\ link'[c] # "none"
        /\ \A d \in Conns : d # c => link'[d] = link[d]
    BY <1>4 DEF ClientClose, PeerReset, SocketsTypeOK, Links
  <2>1. UNCHANGED <<backlog, srv, inq, outq, got, sent, sig>>
    BY <1>4 DEF ClientClose, PeerReset, streamVars
  <2>2. SocketsTypeOK' /\ QueueOK'
    BY <2>0, <2>1 DEF SocketsTypeOK, QueueOK
  <2>3. LinkOK'
    BY <2>0, <2>1 DEF LinkOK
  <2>4. ReplyOK'
    BY <2>1 DEF ReplyOK, Reply
  <2> QED
    BY <2>2, <2>3, <2>4
<1> QED
  BY <1>1, <1>2, <1>3, <1>4 DEF ClientAct

\* A client that leaves does not come back.
LEMMA GoneStays ==
    ASSUME SockOK, NEW c \in Conns, ClientAct(c), NEW d \in Conns
    PROVE  /\ Gone(d) => Gone(d)'
           /\ srv'[d] = srv[d] \/ (srv[d] = "none" /\ srv'[d] = "queued")
           /\ link[d] = "reset" => link'[d] = "reset"
           /\ HungUp(d) => HungUp(d)'
           /\ sig' = sig
BY DEF ClientAct, Connect, ClientSend, ClientRecv, ClientClose, PeerReset, Gone, HungUp, streamVars,
       SockOK, SocketsTypeOK, LinkOK

\* A step that is not about the connections leaves them as they are.
LEMMA SameSock ==
    SockOK /\ UNCHANGED sockVars => SockOK'
BY DEF SockOK, sockVars, SocketsTypeOK, QueueOK, LinkOK, ReplyOK, Reply

\* A signal touches no connection.
LEMMA SignalKeepsSock ==
    SockOK /\ Signal => SockOK'
BY DEF SockOK, Signal, streamVars, SocketsTypeOK, QueueOK, LinkOK, ReplyOK, Reply

\* Whatever a client does, no byte of any connection goes missing.
LEMMA ClientKeepsWhole ==
    ASSUME SocketsTypeOK, NEW c \in Conns, ClientAct(c),
           NEW d \in Conns, NEW mid \in Seq(Bytes), Whole(d, mid)
    PROVE  Reply(d)' \o mid \o inq'[d] = Stream(d)'
<1>1. /\ Reply(d) \in Seq(Bytes) /\ inq[d] \in Seq(Bytes) /\ sent[d] \in Nat
      /\ Stream(d) = Prefix(d, sent[d]) /\ Stream(d)' = Prefix(d, sent'[d])
      /\ Reply(d) \o mid \in Seq(Bytes)
      /\ (Reply(d) \o mid) \o inq[d] = Prefix(d, sent[d])
  BY PieceTypes, ConcatProperties DEF Stream, Prefix, Whole
<1>2. CASE ClientSend(c) /\ d = c
  <2>1. /\ sent'[d] = sent[d] + 1 /\ inq'[d] = Append(inq[d], <<d, sent[d] + 1>>)
        /\ Reply(d)' = Reply(d)
    BY <1>2, ClientSendFacts
  <2>2. (Reply(d) \o mid) \o Append(inq[d], <<d, sent[d] + 1>>)
           = Append((Reply(d) \o mid) \o inq[d], <<d, sent[d] + 1>>)
    <3>1. \A a, b \in Seq(Bytes), e \in Bytes : a \o Append(b, e) = Append(a \o b, e)
      BY AppendToLast
    <3>2. <<d, sent[d] + 1>> \in Bytes
      BY <1>1, PrefixFacts
    <3> QED
      BY <1>1, <3>1, <3>2
  <2>3. Append(Prefix(d, sent[d]), <<d, sent[d] + 1>>) = Prefix(d, sent[d] + 1)
    BY <1>1, PrefixFacts
  <2> QED
    BY <1>1, <2>1, <2>2, <2>3
<1>3. CASE ClientSend(c) /\ d # c
  BY <1>1, <1>3, ClientSendFacts
<1>4. CASE ClientRecv(c)
  BY <1>1, <1>4, ClientRecvKeepsReply DEF ClientRecv
<1>5. CASE Connect(c) \/ ClientClose(c) \/ PeerReset(c)
  BY <1>1, <1>5 DEF Connect, ClientClose, PeerReset, streamVars, Reply
<1> QED
  BY <1>2, <1>3, <1>4, <1>5 DEF ClientAct

-----------------------------------------------------------------------------
(* The server's calls *)

\* accept4() takes a queued connection, whatever becomes of it.
LEMMA AcceptKeepsSock ==
    ASSUME SockOK, backlog # <<>>, NEW side \in {"open", "closed"}, AcceptHead(side)
    PROVE  /\ Head(backlog) \in Conns /\ srv[Head(backlog)] = "queued"
           /\ srv' = [srv EXCEPT ![Head(backlog)] = side]
           /\ UNCHANGED <<link, sent, inq, outq, got, sig>>
           /\ SockOK'
<1> DEFINE c == Head(backlog)
<1>1. backlog \in Seq(Conns) /\ Len(backlog) \in Nat /\ Len(backlog) > 0
  BY DEF SockOK, SocketsTypeOK
<1>2. /\ c \in Conns /\ c = backlog[1] /\ srv[c] = "queued"
      /\ Tail(backlog) \in Seq(Conns) /\ Len(Tail(backlog)) = Len(backlog) - 1
      /\ \A i \in 1 .. Len(Tail(backlog)) : Tail(backlog)[i] = backlog[i + 1]
  BY <1>1 DEF SockOK, QueueOK
<1>3. /\ backlog' = Tail(backlog) /\ srv' = [srv EXCEPT ![c] = side]
      /\ UNCHANGED <<link, sent, inq, outq, got, sig>>
  BY DEF AcceptHead, streamVars
<1>4. SocketsTypeOK'
  BY <1>2, <1>3 DEF SockOK, SocketsTypeOK, Sides
<1>5. QueueOK'
  <2>1. \A i \in 1 .. Len(backlog') :
           backlog'[i] = backlog[i + 1] /\ backlog'[i] # c /\ backlog'[i] \in Conns
    BY <1>1, <1>2, <1>3 DEF SockOK, QueueOK
  <2> QED
    BY <1>1, <1>2, <1>3, <2>1 DEF SockOK, QueueOK, SocketsTypeOK
<1>6. LinkOK'
  BY <1>2, <1>3 DEF SockOK, LinkOK, SocketsTypeOK
<1>7. ReplyOK'
  BY <1>3 DEF SockOK, ReplyOK, Reply
<1> QED
  BY <1>2, <1>3, <1>4, <1>5, <1>6, <1>7 DEF SockOK

\* close() of a connection that was accepted.
LEMMA CloseKeepsSock ==
    ASSUME SockOK, NEW c \in Conns, srv[c] = "open", CloseSide(c)
    PROVE  /\ srv' = [srv EXCEPT ![c] = "closed"]
           /\ UNCHANGED <<backlog, link, sent, inq, outq, got, sig>>
           /\ SockOK'
<1>1. /\ srv' = [srv EXCEPT ![c] = "closed"]
      /\ UNCHANGED <<backlog, link, sent, inq, outq, got, sig>>
  BY DEF CloseSide, streamVars
<1>2. SocketsTypeOK'
  BY <1>1 DEF SockOK, SocketsTypeOK, Sides
<1>3. QueueOK'
  <2>1. \A i \in 1 .. Len(backlog) : backlog[i] \in Conns /\ backlog[i] # c
    BY DEF SockOK, QueueOK, SocketsTypeOK
  <2> QED
    BY <1>1, <2>1 DEF SockOK, QueueOK, SocketsTypeOK
<1>4. LinkOK' /\ ReplyOK'
  BY <1>1 DEF SockOK, LinkOK, ReplyOK, Reply, SocketsTypeOK
<1> QED
  BY <1>1, <1>2, <1>3, <1>4 DEF SockOK

\* The signal is read from the signalfd.
LEMMA TakeSignalKeepsSock ==
    SockOK /\ TakeSignal => SockOK'
BY DEF SockOK, TakeSignal, streamVars, SocketsTypeOK, QueueOK, LinkOK, ReplyOK, Reply

\* read() of n bytes into an empty buffer: what was input is in the buffer.
LEMMA ReadFacts ==
    ASSUME SockOK, NEW c \in Conns, srv[c] # "none", Whole(c, <<>>),
           NEW n \in 0 .. Len(inq[c]), TakeInput(c, n)
    PROVE  /\ SockOK'
           /\ SubSeq(inq[c], 1, n) \in Seq(Bytes) /\ Len(SubSeq(inq[c], 1, n)) = n
           /\ Reply(c)' \o SubSeq(inq[c], 1, n) \o inq'[c] = Stream(c)'
           /\ \A d \in Conns : d # c => inq'[d] = inq[d]
           /\ \A d \in Conns : Reply(d)' = Reply(d) /\ Stream(d)' = Stream(d)
           /\ UNCHANGED <<backlog, link, srv, sent, outq, got, sig>>
<1> DEFINE a == SubSeq(inq[c], 1, n)
<1> DEFINE b == SubSeq(inq[c], n + 1, Len(inq[c]))
<1>1. /\ inq[c] \in Seq(Bytes) /\ Reply(c) \in Seq(Bytes)
      /\ Reply(c) \o <<>> = Reply(c)
  BY PieceTypes, ConcatEmptySeq DEF SockOK
<1>2. a \in Seq(Bytes) /\ b \in Seq(Bytes) /\ Len(a) = n /\ a \o b = inq[c]
  BY <1>1, CutJoins
<1>3. /\ inq' = [inq EXCEPT ![c] = b]
      /\ UNCHANGED <<backlog, link, srv, sent, outq, got, sig>>
  BY DEF TakeInput
<1> HIDE DEF a, b
<1>4. /\ inq'[c] = b /\ \A d \in Conns : d # c => inq'[d] = inq[d]
      /\ \A d \in Conns : Reply(d)' = Reply(d) /\ Stream(d)' = Stream(d)
  BY <1>3 DEF SockOK, SocketsTypeOK, Reply, Stream
<1>5. Reply(c) \o (a \o b) = (Reply(c) \o a) \o b
  BY <1>1, <1>2, BytesConcat
<1>6. (Reply(c) \o a) \o b = Stream(c)
  BY <1>1, <1>2, <1>5 DEF Whole
<1>7. SockOK'
  <2>1. SocketsTypeOK'
    BY <1>2, <1>3 DEF SockOK, SocketsTypeOK
  <2>2. QueueOK' /\ LinkOK' /\ ReplyOK'
    BY <1>3, <1>4 DEF SockOK, QueueOK, LinkOK, ReplyOK
  <2> QED
    BY <2>1, <2>2 DEF SockOK
<1> QED
  BY <1>2, <1>3, <1>4, <1>6, <1>7 DEF a

\* write() of the first n bytes of the buffer b: the rest is still to be sent.
LEMMA WriteFacts ==
    ASSUME SockOK, NEW c \in Conns, srv[c] # "none",
           NEW b \in Seq(Bytes), Whole(c, b),
           NEW n \in 0 .. Len(b), PutOutput(c, SubSeq(b, 1, n))
    PROVE  /\ SockOK'
           /\ SubSeq(b, n + 1, Len(b)) \in Seq(Bytes)
           /\ Len(SubSeq(b, n + 1, Len(b))) = Len(b) - n
           /\ Reply(c)' \o SubSeq(b, n + 1, Len(b)) \o inq'[c] = Stream(c)'
           /\ Reply(c)' = Prefix(c, Len(Reply(c)) + n)
           /\ Len(Reply(c)) + n <= sent[c]
           /\ \A d \in Conns : d # c => Reply(d)' = Reply(d)
           /\ \A d \in Conns : Stream(d)' = Stream(d)
           /\ UNCHANGED <<backlog, link, srv, sent, inq, got, sig>>
<1> DEFINE x == SubSeq(b, 1, n)
<1> DEFINE y == SubSeq(b, n + 1, Len(b))
<1>1. /\ inq[c] \in Seq(Bytes) /\ outq[c] \in Seq(Bytes) /\ got[c] \in Seq(Bytes)
      /\ Reply(c) \in Seq(Bytes) /\ Len(Reply(c)) \in Nat /\ Len(inq[c]) \in Nat
      /\ sent[c] \in Nat
  BY PieceTypes DEF SockOK
<1>2. /\ x \in Seq(Bytes) /\ y \in Seq(Bytes)
      /\ Len(x) = n /\ Len(y) = Len(b) - n /\ x \o y = b
  BY CutJoins
<1>3. /\ outq' = [outq EXCEPT ![c] = outq[c] \o x]
      /\ UNCHANGED <<backlog, link, srv, sent, inq, got, sig>>
  BY DEF PutOutput
<1> HIDE DEF x, y
<1>4. outq[c] \o x \in Seq(Bytes)
  BY <1>1, <1>2, BytesConcat
<1>5. Reply(c)' = Reply(c) \o x
  <2>1. got'[c] = got[c] /\ outq'[c] = outq[c] \o x
    BY <1>3 DEF SockOK, SocketsTypeOK
  <2>2. got[c] \o (outq[c] \o x) = (got[c] \o outq[c]) \o x
    <3>1. got[c] \in Seq(Bytes) /\ outq[c] \in Seq(Bytes) /\ x \in Seq(Bytes)
      BY <1>1, <1>2
    <3> QED
      BY <3>1, BytesAssociate, Zenon
  <2> QED
    BY <2>1, <2>2 DEF Reply
<1>6. /\ \A d \in Conns : d # c => Reply(d)' = Reply(d)
      /\ \A d \in Conns : Stream(d)' = Stream(d)
  BY <1>3 DEF Reply, Stream, SockOK, SocketsTypeOK
<1>7. (Reply(c) \o x) \o y = Reply(c) \o b
  <2>1. Reply(c) \in Seq(Bytes) /\ x \in Seq(Bytes) /\ y \in Seq(Bytes)
    BY <1>1, <1>2
  <2>2. (Reply(c) \o x) \o y = Reply(c) \o (x \o y)
    BY <2>1, BytesAssociate, Zenon
  <2> QED
    BY <1>2, <2>2, Zenon
<1>8. Reply(c)' \o y \o inq'[c] = Stream(c)'
  BY <1>3, <1>5, <1>6, <1>7 DEF Whole
<1>9. /\ Reply(c) \o b = Prefix(c, Len(Reply(c)) + Len(b)) /\ Len(b) \in Nat
      /\ sent[c] = Len(Reply(c)) + Len(b) + Len(inq[c])
  BY WholeFacts DEF SockOK
<1>10. Reply(c) \o x \in Seq(Bytes) /\ Len(Reply(c) \o x) = Len(Reply(c)) + n
  BY <1>1, <1>2, BytesConcat
<1>11. Reply(c) \o x = Prefix(c, Len(Reply(c) \o x))
  <2>1. \A p, q \in Seq(Bytes), m \in Nat : p \o q = Prefix(c, m) => p = Prefix(c, Len(p))
    BY PrefixOfStream
  <2>2. (Reply(c) \o x) \o y = Prefix(c, Len(Reply(c)) + Len(b))
    BY <1>7, <1>9
  <2>3. Len(Reply(c)) + Len(b) \in Nat
    BY <1>1, <1>9
  <2> QED
    BY <1>2, <1>10, <2>1, <2>2, <2>3
<1>12. n \in Nat /\ n <= Len(b) /\ Len(Reply(c)) + n <= sent[c]
  <2>1. Len(b) \in Nat /\ sent[c] = Len(Reply(c)) + Len(b) + Len(inq[c])
    BY <1>9
  <2>2. n \in Nat /\ n <= Len(b)
    BY <2>1
  <2>3. \A r, m, l, i \in Nat : m <= l => r + m <= r + l + i
    OBVIOUS
  <2> QED
    BY <1>1, <2>1, <2>2, <2>3
<1>13. SockOK'
  <2>1. SocketsTypeOK'
    BY <1>3, <1>4 DEF SockOK, SocketsTypeOK
  <2>2. QueueOK' /\ LinkOK'
    BY <1>3 DEF SockOK, QueueOK, LinkOK, SocketsTypeOK
  <2>3. ReplyOK'
    BY <1>3, <1>5, <1>6, <1>10, <1>11, <1>12 DEF SockOK, ReplyOK
  <2> QED
    BY <2>1, <2>2, <2>3 DEF SockOK
<1> QED
  BY <1>2, <1>3, <1>5, <1>6, <1>8, <1>10, <1>11, <1>12, <1>13 DEF y
-----------------------------------------------------------------------------
(* Sums over the connections *)

AnyOf(s) == CHOOSE c \in s : TRUE

\* What the sum of f over s comes to, once the sum of the others is known.
SumStep(f, it, s) == IF s = {} THEN 0 ELSE f[AnyOf(s)] + it[s \ {AnyOf(s)}]

\* it holds the sums of f over all sets of connections.
Sums(f, it) == it = [s \in SUBSET Conns |-> SumStep(f, it, s)]

\* A set of naturals that is not empty has a smallest member.
LEMMA SmallestNat ==
    ASSUME NEW S, S \subseteq Nat, S # {}
    PROVE  \E x \in S : \A y \in S : x <= y
<1>1. PICK R : R = OpToRel(<, Nat)
  BY Zenon
<1>2. IsWellFoundedOn(R, Nat)
  BY <1>1, NatLessThanWellFounded, Zenon
<1>3. PICK x \in S : \A y \in S : ~(<<y, x>> \in R)
  BY <1>2, WFMin, Zenon
<1>4. \A y \in Nat, z \in Nat : y < z => <<y, z>> \in R
  BY <1>1 DEF OpToRel
<1>5. \A y \in S : ~(y < x)
  BY <1>3, <1>4
<1>6. \A y \in S : x <= y
  BY <1>5
<1> QED
  BY <1>3, <1>6

\* Cardinalities of sets of connections.
LEMMA SubsetCard ==
    /\ Cardinality(Conns) \in Nat
    /\ \A s \in SUBSET Conns :
          IsFiniteSet(s) /\ Cardinality(s) \in Nat /\ Cardinality(s) <= Cardinality(Conns)
    /\ \A s \in SUBSET Conns : s # {} => AnyOf(s) \in s
    /\ \A s \in SUBSET Conns, x \in Conns :
          x \in s => s \ {x} \in SUBSET Conns /\ Cardinality(s \ {x}) + 1 = Cardinality(s)
<1>1. \A s \in SUBSET Conns :
         IsFiniteSet(s) /\ Cardinality(s) \in Nat /\ Cardinality(s) <= Cardinality(Conns)
  BY SocketsAssumption, FS_Subset, FS_CardinalityType
<1>2. Cardinality(Conns) \in Nat
  BY SocketsAssumption, FS_CardinalityType
<1>3. \A s \in SUBSET Conns : s # {} => AnyOf(s) \in s
  BY DEF AnyOf
<1>4. ASSUME NEW s \in SUBSET Conns, NEW x \in Conns, x \in s
      PROVE  s \ {x} \in SUBSET Conns /\ Cardinality(s \ {x}) + 1 = Cardinality(s)
  <2>1. Cardinality(s \ {x}) = Cardinality(s) - 1
    BY <1>1, <1>4, FS_RemoveElement
  <2> QED
    BY <1>1, <2>1
<1> QED
  BY <1>1, <1>2, <1>3, <1>4

\* Induction over the sets of connections: a property (the sets Q it holds for)
\* of a set follows from the property of the sets with one member less.
LEMMA SubsetInduction ==
    ASSUME NEW Q,
           \A s \in SUBSET Conns : (\A x \in s : s \ {x} \in Q) => s \in Q
    PROVE  \A s \in SUBSET Conns : s \in Q
<1> SUFFICES ASSUME NEW t \in SUBSET Conns, t \notin Q PROVE FALSE
  OBVIOUS
<1>1. PICK S : S = {Cardinality(s) : s \in {u \in SUBSET Conns : u \notin Q}}
  OBVIOUS
<1>2. S \subseteq Nat /\ S # {}
  BY <1>1, SubsetCard
<1>3. PICK n \in S : \A m \in S : n <= m
  BY <1>2, SmallestNat
<1>4. PICK s \in SUBSET Conns : s \notin Q /\ n = Cardinality(s)
  BY <1>1
<1>5. ASSUME NEW x \in s PROVE s \ {x} \in Q
  <2>1. s \ {x} \in SUBSET Conns /\ Cardinality(s \ {x}) + 1 = n /\ Cardinality(s \ {x}) \in Nat
    BY <1>4, SubsetCard
  <2>2. PICK r \in SUBSET Conns : r = s \ {x}
    BY <2>1
  <2>3. Cardinality(r) \notin S
    BY <1>2, <1>3, <2>1, <2>2
  <2>4. r \notin Q => Cardinality(r) \in S
    BY <1>1
  <2> QED
    BY <2>2, <2>3, <2>4
<1> QED
  BY <1>4, <1>5

\* There is such a function: one that is right for the sets of up to n - 1 members
\* gives one that is right for n.
LEMMA SumsExist ==
    ASSUME NEW f \in [Conns -> Nat]
    PROVE  \E it \in [SUBSET Conns -> Nat] : Sums(f, it)
<1> DEFINE Good(n, it) == \A s \in SUBSET Conns : Cardinality(s) <= n => it[s] = SumStep(f, it, s)
           Bad == {n \in Nat : ~ \E it \in [SUBSET Conns -> Nat] : Good(n, it)}
<1>1. SUFFICES ASSUME Bad # {} PROVE FALSE
  <2>1. Cardinality(Conns) \in Nat
    BY SubsetCard
  <2>2. PICK it \in [SUBSET Conns -> Nat] : Good(Cardinality(Conns), it)
    BY <1>1, <2>1
  <2>3. \A s \in SUBSET Conns : it[s] = SumStep(f, it, s)
    BY <2>2, SubsetCard
  <2>4. it = [s \in SUBSET Conns |-> it[s]]
    OBVIOUS
  <2>5. it = [s \in SUBSET Conns |-> SumStep(f, it, s)]
    BY <2>3, <2>4
  <2> QED
    BY <2>5 DEF Sums
<1>2. PICK n \in Bad : \A m \in Bad : n <= m
  BY <1>1, SmallestNat
<1>3. n \in Nat
  OBVIOUS
<1>4. CASE n = 0
  <2>1. PICK it \in [SUBSET Conns -> Nat] : it = [s \in SUBSET Conns |-> 0]
    OBVIOUS
  <2>2. \A s \in SUBSET Conns : Cardinality(s) <= 0 => s = {}
    BY SubsetCard, FS_EmptySet
  <2>3. Good(n, it)
    BY <1>4, <2>1, <2>2 DEF SumStep
  <2> QED
    BY <1>2, <2>3
<1>5. CASE n # 0
  <2>1. n - 1 \in Nat /\ n - 1 \notin Bad
    <3> HIDE DEF Bad
    <3> QED
      BY <1>2, <1>3, <1>5
  <2>2. PICK g \in [SUBSET Conns -> Nat] : Good(n - 1, g)
    BY <2>1
  <2>3. PICK it : it = [s \in SUBSET Conns |-> IF Cardinality(s) <= n - 1 THEN g[s] ELSE SumStep(f, g, s)]
    OBVIOUS
  <2>4. \A s \in SUBSET Conns : SumStep(f, g, s) \in Nat
    <3> SUFFICES ASSUME NEW s \in SUBSET Conns, s # {}
                 PROVE  f[AnyOf(s)] + g[s \ {AnyOf(s)}] \in Nat
      BY DEF SumStep
    <3>1. f[AnyOf(s)] \in Nat /\ g[s \ {AnyOf(s)}] \in Nat
      BY SubsetCard
    <3> QED
      BY <3>1
  <2>5. it \in [SUBSET Conns -> Nat]
    BY <2>3, <2>4
  <2>6. ASSUME NEW s \in SUBSET Conns, Cardinality(s) <= n
        PROVE  it[s] = SumStep(f, it, s)
    <3>1. it[s] = SumStep(f, g, s)
      BY <2>2, <2>3
    <3>2. s # {} => g[s \ {AnyOf(s)}] = it[s \ {AnyOf(s)}]
      <4> SUFFICES ASSUME s # {} PROVE g[s \ {AnyOf(s)}] = it[s \ {AnyOf(s)}]
        OBVIOUS
      <4>1. s \ {AnyOf(s)} \in SUBSET Conns /\ Cardinality(s \ {AnyOf(s)}) <= n - 1
        <5>1. PICK x \in Conns : x = AnyOf(s) /\ x \in s
          BY SubsetCard
        <5>2. PICK k : k = Cardinality(s \ {x})
          OBVIOUS
        <5>3. k \in Nat /\ k + 1 = Cardinality(s) /\ Cardinality(s) \in Nat /\ s \ {x} \in SUBSET Conns
          BY <5>1, <5>2, SubsetCard
        <5>4. k <= n - 1
          BY <5>3, <2>6, <1>3
        <5> QED
          BY <5>1, <5>2, <5>3, <5>4
      <4> QED
        BY <4>1, <2>3
    <3> QED
      BY <3>1, <3>2 DEF SumStep
  <2>7. Good(n, it)
    BY <2>6
  <2> QED
    BY <1>2, <2>5, <2>7
<1> QED
  BY <1>4, <1>5

\* Such a function has natural values.
LEMMA SumsType ==
    ASSUME NEW f \in [Conns -> Nat], NEW it, Sums(f, it)
    PROVE  it \in [SUBSET Conns -> Nat]
<1>1. PICK Q : Q = {s \in SUBSET Conns : it[s] \in Nat}
  OBVIOUS
<1>2. ASSUME NEW s \in SUBSET Conns, \A x \in s : s \ {x} \in Q PROVE s \in Q
  <2>1. it[s] = SumStep(f, it, s)
    BY DEF Sums
  <2>2. CASE s = {}
    BY <1>1, <2>1, <2>2 DEF SumStep
  <2>3. CASE s # {}
    <3>1. PICK x \in Conns : x = AnyOf(s) /\ x \in s
      BY <2>3, SubsetCard
    <3>2. it[s] = f[x] + it[s \ {x}] /\ f[x] \in Nat /\ it[s \ {x}] \in Nat
      BY <1>1, <1>2, <2>1, <2>3, <3>1 DEF SumStep
    <3> QED
      BY <1>1, <3>2
  <2> QED
    BY <2>2, <2>3
<1>3. \A s \in SUBSET Conns : s \in Q
  BY <1>2, SubsetInduction
<1>4. \A s \in SUBSET Conns : it[s] \in Nat
  BY <1>1, <1>3
<1>5. it = [s \in SUBSET Conns |-> it[s]]
  BY DEF Sums
<1> QED
  BY <1>4, <1>5

\* What one more connection adds does not depend on the order.
LEMMA SumsRemove ==
    ASSUME NEW f \in [Conns -> Nat], NEW it, Sums(f, it)
    PROVE  \A s \in SUBSET Conns : \A x \in s : it[s] = f[x] + it[s \ {x}]
<1>0. it \in [SUBSET Conns -> Nat]
  BY SumsType
<1>1. PICK Q : Q = {s \in SUBSET Conns : \A x \in s : it[s] = f[x] + it[s \ {x}]}
  OBVIOUS
<1>2. ASSUME NEW s \in SUBSET Conns, \A x \in s : s \ {x} \in Q PROVE s \in Q
  <2> SUFFICES ASSUME NEW x \in s PROVE it[s] = f[x] + it[s \ {x}]
    BY <1>1
  <2>1. PICK y \in Conns : y = AnyOf(s) /\ y \in s
    BY SubsetCard
  <2>2. it[s] = f[y] + it[s \ {y}]
    BY <2>1 DEF Sums, SumStep
  <2>3. CASE x # y
    <3>1. it[s \ {y}] = f[x] + it[(s \ {y}) \ {x}]
      BY <1>1, <1>2, <2>1, <2>3
    <3>2. it[s \ {x}] = f[y] + it[(s \ {x}) \ {y}]
      BY <1>1, <1>2, <2>1, <2>3
    <3>3. (s \ {y}) \ {x} = (s \ {x}) \ {y} /\ (s \ {y}) \ {x} \in SUBSET Conns
      OBVIOUS
    <3>4. it[(s \ {y}) \ {x}] \in Nat /\ f[x] \in Nat /\ f[y] \in Nat
      BY <1>0, <3>3
    <3>5. PICK k \in Nat, l \in Nat, m \in Nat :
             k = it[(s \ {y}) \ {x}] /\ l = f[x] /\ m = f[y]
      BY <3>4
    <3>6. it[s] = m + (l + k) /\ f[x] + it[s \ {x}] = l + (m + k)
      BY <2>2, <3>1, <3>2, <3>3, <3>5
    <3> QED
      BY <3>6
  <2> QED
    BY <2>2, <2>3
<1>3. \A s \in SUBSET Conns : s \in Q
  BY <1>2, SubsetInduction
<1> QED
  BY <1>1, <1>3

\* Larger summands, larger sums.
LEMMA SumsGrow ==
    ASSUME NEW f \in [Conns -> Nat], NEW g \in [Conns -> Nat], NEW it, NEW iu,
           Sums(f, it), Sums(g, iu), NEW t \in SUBSET Conns,
           \A x \in t : f[x] <= g[x]
    PROVE  it[t] <= iu[t]
<1>0. it \in [SUBSET Conns -> Nat] /\ iu \in [SUBSET Conns -> Nat]
  BY SumsType
<1>1. PICK Q : Q = {s \in SUBSET Conns : (\A x \in s : f[x] <= g[x]) => it[s] <= iu[s]}
  OBVIOUS
<1>2. ASSUME NEW s \in SUBSET Conns, \A x \in s : s \ {x} \in Q PROVE s \in Q
  <2> SUFFICES ASSUME \A x \in s : f[x] <= g[x] PROVE it[s] <= iu[s]
    BY <1>1
  <2>1. CASE s = {}
    BY <2>1 DEF Sums, SumStep
  <2>2. CASE s # {}
    <3>1. PICK x \in Conns : x \in s
      BY <2>2
    <3>2. it[s] = f[x] + it[s \ {x}]
      BY <3>1, SumsRemove
    <3>5. iu[s] = g[x] + iu[s \ {x}]
      BY <3>1, SumsRemove
    <3>3. it[s \ {x}] <= iu[s \ {x}]
      BY <1>1, <1>2, <3>1
    <3>4. it[s \ {x}] \in Nat /\ iu[s \ {x}] \in Nat /\ f[x] \in Nat /\ g[x] \in Nat /\ f[x] <= g[x]
      BY <1>0, <3>1
    <3> QED
      BY <3>2, <3>3, <3>4, <3>5
  <2> QED
    BY <2>1, <2>2
<1>3. \A s \in SUBSET Conns : s \in Q
  BY <1>2, SubsetInduction
<1> QED
  BY <1>1, <1>3

\* The sum is the value of such a function for all connections.
LEMMA SumOverIs ==
    ASSUME NEW f \in [Conns -> Nat]
    PROVE  \E it \in [SUBSET Conns -> Nat] : Sums(f, it) /\ SumOver(f) = it[Conns]
<1> DEFINE F == CHOOSE it : it = [s \in SUBSET Conns |-> SumStep(f, it, s)]
<1>1. PICK g \in [SUBSET Conns -> Nat] : g = [s \in SUBSET Conns |-> SumStep(f, g, s)]
  BY SumsExist DEF Sums
<1>2. F = [s \in SUBSET Conns |-> SumStep(f, F, s)]
  BY <1>1
<1>3. SumOver(f) = F[Conns]
  BY Zenon DEF SumOver, MapThenSumSet, MapThenFoldSet, SumStep, AnyOf
<1>4. PICK it : it = F
  OBVIOUS
<1> HIDE DEF F
<1>5. Sums(f, it) /\ SumOver(f) = it[Conns]
  BY <1>2, <1>3, <1>4 DEF Sums
<1> QED
  BY <1>5, SumsType

\* A sum of naturals is one, and 0 if all of them are.
LEMMA SumOverType ==
    ASSUME NEW f \in [Conns -> Nat]
    PROVE  /\ SumOver(f) \in Nat
           /\ (\A c \in Conns : f[c] = 0) => SumOver(f) = 0
<1>1. PICK it \in [SUBSET Conns -> Nat] : Sums(f, it) /\ SumOver(f) = it[Conns]
  BY SumOverIs
<1>2. it[Conns] \in Nat
  OBVIOUS
<1>3. ASSUME \A c \in Conns : f[c] = 0 PROVE it[Conns] <= 0
  <2>1. PICK iu : iu = [s \in SUBSET Conns |-> 0]
    OBVIOUS
  <2>2. Sums(f, iu)
    <3>1. \A s \in SUBSET Conns : SumStep(f, iu, s) = 0
      BY <1>3, <2>1, SubsetCard DEF SumStep
    <3>2. iu = [s \in SUBSET Conns |-> SumStep(f, iu, s)]
      BY <2>1, <3>1
    <3> QED
      BY <3>2 DEF Sums
  <2>3. it[Conns] <= iu[Conns]
    BY <1>1, <2>2, SumsGrow
  <2> QED
    BY <2>1, <2>3
<1> QED
  BY <1>1, <1>2, <1>3

\* Larger summands, larger sum.
LEMMA SumOverGrows ==
    ASSUME NEW f \in [Conns -> Nat], NEW g \in [Conns -> Nat],
           \A c \in Conns : f[c] <= g[c]
    PROVE  SumOver(f) <= SumOver(g)
BY SumOverIs, SumsGrow

\* A sum changes as much as its one summand that changes.
LEMMA SumOverMoves ==
    ASSUME NEW f \in [Conns -> Nat], NEW g \in [Conns -> Nat], NEW c \in Conns, NEW d \in Int,
           g[c] = f[c] + d, \A b \in Conns \ {c} : g[b] = f[b]
    PROVE  SumOver(g) = SumOver(f) + d
<1>1. PICK it \in [SUBSET Conns -> Nat] : Sums(f, it) /\ SumOver(f) = it[Conns]
  BY SumOverIs
<1>2. PICK iu \in [SUBSET Conns -> Nat] : Sums(g, iu) /\ SumOver(g) = iu[Conns]
  BY SumOverIs
<1>3. PICK r \in SUBSET Conns : r = Conns \ {c}
  OBVIOUS
<1>4. it[Conns] = f[c] + it[r] /\ iu[Conns] = g[c] + iu[r]
  BY <1>1, <1>2, <1>3, SumsRemove
<1>5. it[r] \in Nat /\ iu[r] \in Nat /\ f[c] \in Nat /\ g[c] \in Nat
  OBVIOUS
<1>6. (\A x \in r : f[x] <= g[x]) /\ (\A x \in r : g[x] <= f[x])
  BY <1>3
<1>7. it[r] <= iu[r]
  BY <1>1, <1>2, <1>6, SumsGrow
<1>8. iu[r] <= it[r]
  BY <1>1, <1>2, <1>6, SumsGrow
<1> QED
  BY <1>1, <1>2, <1>4, <1>5, <1>7, <1>8

-----------------------------------------------------------------------------
(* What the counter of bytes counts *)

\* How much of every connection the server has read.
ReadBytes == [c \in Conns |-> sent[c] - Len(inq[c])]

\* Of what was read of c, all is answered but for n bytes the server holds; more
\* is missing only after a RST.
Flow(c, n) ==
    /\ Len(Reply(c)) + n + Len(inq[c]) <= sent[c]
    /\ Len(Reply(c)) + n + Len(inq[c]) # sent[c] => HungUp(c)

\* With that, the sum of what was read is a number.
LEMMA ReadBytesType ==
    ASSUME SocketsTypeOK, NEW h \in [Conns -> Nat], \A c \in Conns : Flow(c, h[c])
    PROVE  ReadBytes \in [Conns -> Nat]
<1> SUFFICES ASSUME NEW c \in Conns PROVE sent[c] - Len(inq[c]) \in Nat
  BY DEF ReadBytes
<1>1. Len(Reply(c)) \in Nat /\ Len(inq[c]) \in Nat /\ sent[c] \in Nat /\ h[c] \in Nat
  BY PieceTypes
<1>2. Len(Reply(c)) + h[c] + Len(inq[c]) <= sent[c]
  BY DEF Flow
<1>3. \A r, n, i, s \in Nat : r + n + i <= s => s - i \in Nat
  OBVIOUS
<1> QED
  BY <1>1, <1>2, <1>3

\* A step that moves no byte, except that the server may give up what it holds
\* of a connection that was reset.
LEMMA QuietFlow ==
    ASSUME SocketsTypeOK, UNCHANGED <<link, sent, inq, outq, got>>
    PROVE  /\ ReadBytes' = ReadBytes
           /\ \A c \in Conns, n \in Nat : Flow(c, n)' <=> Flow(c, n)
           /\ \A c \in Conns, n \in Nat : Flow(c, n) /\ HungUp(c) => Flow(c, 0)'
<1>1. ReadBytes' = ReadBytes /\ \A c \in Conns : HungUp(c)' = HungUp(c) /\ Reply(c)' = Reply(c)
  BY DEF ReadBytes, HungUp, Reply
<1>2. \A c \in Conns, n \in Nat : Flow(c, n)' <=> Flow(c, n)
  BY <1>1 DEF Flow
<1>3. ASSUME NEW c \in Conns, NEW n \in Nat, Flow(c, n), HungUp(c)
      PROVE  Flow(c, 0)
  <2>1. Len(Reply(c)) \in Nat /\ Len(inq[c]) \in Nat /\ sent[c] \in Nat
    BY PieceTypes
  <2>2. \A r, i, s \in Nat : r + n + i <= s => r + 0 + i <= s
    OBVIOUS
  <2> QED
    BY <1>3, <2>1, <2>2 DEF Flow
<1>4. \A c \in Conns : Flow(c, 0) => Flow(c, 0)'
  BY <1>2, 0 \in Nat
<1> QED
  BY <1>1, <1>2, <1>3, <1>4

\* What a client does is neither read nor answered.
LEMMA ClientFlow ==
    ASSUME SockOK, NEW c \in Conns, ClientAct(c)
    PROVE  /\ ReadBytes' = ReadBytes
           /\ \A d \in Conns, n \in Nat : Flow(d, n) => Flow(d, n)'
<1>0. SocketsTypeOK
  BY DEF SockOK
<1>1. \A d \in Conns : Reply(d)' = Reply(d)
  <2>1. CASE ClientSend(c)
    BY <1>0, <2>1, ClientSendFacts
  <2>2. CASE ClientRecv(c)
    BY <1>0, <2>2, ClientRecvKeepsReply
  <2>3. CASE Connect(c) \/ ClientClose(c) \/ PeerReset(c)
    BY <2>3 DEF Connect, ClientClose, PeerReset, streamVars, Reply
  <2> QED
    BY <2>1, <2>2, <2>3 DEF ClientAct
<1>2. \A d \in Conns : \/ sent'[d] = sent[d] /\ Len(inq'[d]) = Len(inq[d])
                       \/ sent'[d] = sent[d] + 1 /\ Len(inq'[d]) = Len(inq[d]) + 1
  <2>1. CASE ClientSend(c)
    <3>1. /\ sent'[c] = sent[c] + 1 /\ inq'[c] = Append(inq[c], <<c, sent[c] + 1>>)
          /\ \A d \in Conns : d # c => sent'[d] = sent[d] /\ inq'[d] = inq[d]
      BY <1>0, <2>1, ClientSendFacts
    <3>2. Len(Append(inq[c], <<c, sent[c] + 1>>)) = Len(inq[c]) + 1
      <4>1. inq[c] \in Seq(Bytes) /\ <<c, sent[c] + 1>> \in Bytes
        BY <1>0, PieceTypes, PrefixFacts
      <4> QED
        BY <4>1, AppendProperties
    <3> QED
      BY <3>1, <3>2
  <2>2. CASE ~ClientSend(c)
    BY <2>2 DEF ClientAct, Connect, ClientRecv, ClientClose, PeerReset, streamVars
  <2> QED
    BY <2>1, <2>2
<1>3. \A d \in Conns : Len(Reply(d)) \in Nat /\ Len(inq[d]) \in Nat /\ sent[d] \in Nat
  BY <1>0, PieceTypes
<1>4. \A d \in Conns : sent'[d] - Len(inq'[d]) = sent[d] - Len(inq[d])
  <2>1. \A a, b \in Nat : (a + 1) - (b + 1) = a - b
    OBVIOUS
  <2> QED
    BY <1>2, <1>3, <2>1, Zenon
<1>5. ReadBytes' = ReadBytes
  BY <1>4 DEF ReadBytes
<1>6. ASSUME NEW d \in Conns, NEW n \in Nat, Flow(d, n)
      PROVE  Flow(d, n)'
  <2>1. HungUp(d) => HungUp(d)'
    BY GoneStays
  <2>2. PICK r \in Nat, i \in Nat, s \in Nat : r = Len(Reply(d)) /\ i = Len(inq[d]) /\ s = sent[d]
    BY <1>3
  <2>3. r + n + i <= s /\ (r + n + i # s => HungUp(d))
    BY <1>6, <2>2 DEF Flow
  <2>4. CASE sent'[d] = s /\ Len(inq'[d]) = i
    BY <1>1, <2>1, <2>2, <2>3, <2>4 DEF Flow
  <2>5. CASE sent'[d] = s + 1 /\ Len(inq'[d]) = i + 1
    <3>1. r + n + (i + 1) <= s + 1 /\ (r + n + (i + 1) # s + 1 => r + n + i # s)
      BY <2>3
    <3> QED
      BY <1>1, <2>1, <2>2, <2>3, <2>5, <3>1 DEF Flow
  <2> QED
    BY <1>2, <2>2, <2>4, <2>5
<1> QED
  BY <1>5, <1>6

\* read() of n bytes of a connection of which the server holds nothing.
LEMMA ReadFlow ==
    ASSUME SockOK, NEW c \in Conns, NEW n \in Nat, n <= Len(inq[c]), TakeInput(c, n),
           NEW h \in [Conns -> Nat], h[c] = 0, \A d \in Conns : Flow(d, h[d])
    PROVE  /\ Flow(c, n)'
           /\ \A d \in Conns : d # c => (\A m \in Nat : Flow(d, m) => Flow(d, m)')
           /\ SumOver(ReadBytes') = SumOver(ReadBytes) + n
<1>0. SocketsTypeOK
  BY DEF SockOK
<1>1. /\ inq' = [inq EXCEPT ![c] = SubSeq(inq[c], n + 1, Len(inq[c]))]
      /\ UNCHANGED <<link, sent, outq, got>>
  BY DEF TakeInput
<1>2. inq[c] \in Seq(Bytes) /\ n \in 0 .. Len(inq[c])
  <2>1. inq[c] \in Seq(Bytes) /\ Len(inq[c]) \in Nat
    BY <1>0, PieceTypes
  <2>2. \A l \in Nat : n <= l => n \in 0 .. l
    OBVIOUS
  <2> QED
    BY <2>1, <2>2
<1>3. /\ Len(inq'[c]) = Len(inq[c]) - n
      /\ \A d \in Conns : d # c => inq'[d] = inq[d]
      /\ \A d \in Conns : Reply(d)' = Reply(d) /\ HungUp(d)' = HungUp(d)
  <2>1. Len(SubSeq(inq[c], n + 1, Len(inq[c]))) = Len(inq[c]) - n
    BY <1>2, CutJoins
  <2>2. inq'[c] = SubSeq(inq[c], n + 1, Len(inq[c])) /\ \A d \in Conns : d # c => inq'[d] = inq[d]
    BY <1>0, <1>1 DEF SocketsTypeOK
  <2> QED
    BY <1>1, <2>1, <2>2 DEF Reply, HungUp
<1>4. PICK r \in Nat, i \in Nat, s \in Nat : r = Len(Reply(c)) /\ i = Len(inq[c]) /\ s = sent[c]
  BY <1>0, PieceTypes
<1>5. r + 0 + i <= s /\ (r + 0 + i # s => HungUp(c))
  BY <1>4 DEF Flow
<1>6. Flow(c, n)'
  <2>1. \A x, y, z \in Nat : x + z + (y - z) = x + 0 + y
    OBVIOUS
  <2>2. r + n + (i - n) = r + 0 + i
    BY <2>1
  <2> QED
    BY <1>1, <1>3, <1>4, <1>5, <2>2 DEF Flow
<1>7. \A d \in Conns : d # c => (\A m \in Nat : Flow(d, m) => Flow(d, m)')
  BY <1>1, <1>3 DEF Flow
<1>8. SumOver(ReadBytes') = SumOver(ReadBytes) + n
  <2>1. PICK f, g : f = ReadBytes /\ g = ReadBytes'
    OBVIOUS
  <2>2. f \in [Conns -> Nat]
    BY <1>0, <2>1, ReadBytesType
  <2>3. f[c] = s - i /\ g[c] = s - (i - n) /\ \A d \in Conns \ {c} : g[d] = f[d]
    BY <1>1, <1>3, <1>4, <2>1 DEF ReadBytes
  <2>4. g \in [Conns -> Nat]
    <3>1. g[c] \in Nat
      BY <1>4, <1>5, <2>3
    <3>2. \A d \in Conns : g[d] \in Nat
      BY <2>2, <2>3, <3>1
    <3>3. g = [d \in Conns |-> g[d]]
      BY <2>1 DEF ReadBytes
    <3> QED
      BY <3>2, <3>3
  <2>5. g[c] = f[c] + n
    BY <2>3
  <2>6. SumOver(g) = SumOver(f) + n
    BY <2>2, <2>3, <2>4, <2>5, SumOverMoves, n \in Int
  <2> QED
    BY <2>1, <2>6
<1> QED
  BY <1>6, <1>7, <1>8

\* write() of n bytes of the m the server holds.
LEMMA WriteFlow ==
    ASSUME SockOK, NEW c \in Conns, NEW n \in Nat, NEW m \in Nat, n <= m, Flow(c, m),
           Len(Reply(c)') = Len(Reply(c)) + n,
           \A d \in Conns : d # c => Reply(d)' = Reply(d),
           UNCHANGED <<link, sent, inq>>
    PROVE  /\ Flow(c, m - n)'
           /\ \A d \in Conns : d # c => (\A k \in Nat : Flow(d, k) => Flow(d, k)')
           /\ ReadBytes' = ReadBytes
<1>1. ReadBytes' = ReadBytes /\ \A d \in Conns : HungUp(d)' = HungUp(d)
  BY DEF ReadBytes, HungUp
<1>2. \A d \in Conns : d # c => (\A k \in Nat : Flow(d, k) => Flow(d, k)')
  BY <1>1 DEF Flow
<1>3. PICK r \in Nat, i \in Nat, s \in Nat : r = Len(Reply(c)) /\ i = Len(inq[c]) /\ s = sent[c]
  BY PieceTypes DEF SockOK
<1>4. r + n + (m - n) + i = r + m + i
  OBVIOUS
<1>5. Flow(c, m - n)'
  BY <1>1, <1>3, <1>4 DEF Flow
<1> QED
  BY <1>1, <1>2, <1>5

\* The bytes read are at least those answered, and no more if nothing is held
\* and no connection was reset.
LEMMA FlowSum ==
    ASSUME SocketsTypeOK, NEW h \in [Conns -> Nat], \A c \in Conns : Flow(c, h[c])
    PROVE  /\ SumOver(ReadBytes) \in Nat
           /\ SumOver(ReadBytes) >= SumOver([c \in Conns |-> Len(Reply(c))])
           /\ (\A c \in Conns : h[c] = 0 /\ ~HungUp(c)) =>
                 SumOver(ReadBytes) = SumOver([c \in Conns |-> Len(Reply(c))])
<1>1. PICK f, g : f = ReadBytes /\ g = [c \in Conns |-> Len(Reply(c))]
  OBVIOUS
<1>2. f \in [Conns -> Nat] /\ g \in [Conns -> Nat]
  BY <1>1, ReadBytesType, PieceTypes
<1>3. ASSUME NEW c \in Conns
      PROVE  g[c] <= f[c] /\ (h[c] = 0 /\ ~HungUp(c) => g[c] = f[c])
  <2>1. PICK r \in Nat, i \in Nat, s \in Nat : r = Len(Reply(c)) /\ i = Len(inq[c]) /\ s = sent[c]
    BY PieceTypes
  <2>2. r + h[c] + i <= s /\ (r + h[c] + i # s => HungUp(c)) /\ h[c] \in Nat
    BY <2>1 DEF Flow
  <2>3. f[c] = s - i /\ g[c] = r
    BY <1>1, <2>1 DEF ReadBytes
  <2>4. r <= s - i
    BY <2>2
  <2>5. h[c] = 0 /\ ~HungUp(c) => r = s - i
    BY <2>2
  <2> QED
    BY <2>3, <2>4, <2>5
<1>4. SumOver(f) \in Nat /\ SumOver(g) \in Nat
  BY <1>2, SumOverType
<1>5. SumOver(g) <= SumOver(f)
  BY <1>2, <1>3, SumOverGrows
<1>6. (\A c \in Conns : h[c] = 0 /\ ~HungUp(c)) => f = g
  <2>1. f = [c \in Conns |-> f[c]] /\ g = [c \in Conns |-> g[c]]
    BY <1>2
  <2> QED
    BY <1>3, <2>1
<1> QED
  BY <1>1, <1>4, <1>5, <1>6
=============================================================================
