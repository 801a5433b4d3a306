---------------------------- MODULE EchoService ----------------------------
(***************************************************************************)
(* What evserver promises its clients, whatever the backend               *)
(* (ev/server.hpp: start(), then run() "until SIGINT/SIGTERM arrives"):    *)
(* every connection is answered with its own bytes, in order, and is       *)
(* closed only once the client is gone or the server was told to stop.     *)
(* The backends' specifications are shown to implement this one.           *)
(*                                                                         *)
(* life[c]  "none", "pending" (connected, not accepted), "open", "closed"  *)
(* gone[c]  the client closed its side                                     *)
(* phase    "serving", "stopping" (a signal was sent), "down"              *)
(***************************************************************************)
EXTENDS Integers, Sequences, FiniteSets

CONSTANTS Conns,
          MayRefuse,   \* a new connection may be dropped for want of resources
          SigPipeKills, \* answering a client that is gone may end the process
          MaxServed     \* accepting more connections than this may end it

VARIABLES sent, reply, life, gone, phase,
          mayDrop   \* its queues may fail: it may drop a connection, or end

vars == <<sent, reply, life, gone, phase, mayDrop>>

Init ==
    /\ sent  = [c \in Conns |-> 0]
    /\ reply = [c \in Conns |-> <<>>]
    /\ life  = [c \in Conns |-> "none"]
    /\ gone  = [c \in Conns |-> FALSE]
    /\ phase = "serving"
    /\ mayDrop \in BOOLEAN

Connect(c) ==
    /\ life[c] = "none"
    /\ life' = [life EXCEPT ![c] = "pending"]
    /\ UNCHANGED <<sent, reply, gone, phase>>

Send(c) ==
    /\ life[c] \in {"pending", "open"} /\ ~gone[c]
    /\ sent' = [sent EXCEPT ![c] = @ + 1]
    /\ UNCHANGED <<reply, life, gone, phase>>

Leave(c) ==
    /\ life[c] # "none" /\ ~gone[c]
    /\ gone' = [gone EXCEPT ![c] = TRUE]
    /\ UNCHANGED <<sent, reply, life, phase>>

Accept(c) ==
    /\ life[c] = "pending"
    /\ life' = [life EXCEPT ![c] = "open"]
    /\ UNCHANGED <<sent, reply, gone, phase>>

Refuse(c) ==
    /\ MayRefuse
    /\ life[c] = "pending"
    /\ life' = [life EXCEPT ![c] = "closed"]
    /\ UNCHANGED <<sent, reply, gone, phase>>

\* The next bytes of c's own stream, none skipped, none twice.
Echo(c) ==
    /\ life[c] = "open"
    /\ \E n \in Len(reply[c]) + 1 .. sent[c] :
          reply' = [reply EXCEPT ![c] = [i \in 1 .. n |-> <<c, i>>]]
    /\ UNCHANGED <<sent, life, gone, phase>>

Close(c) ==
    /\ life[c] = "open"
    /\ gone[c] \/ phase = "stopping" \/ mayDrop
    /\ life' = [life EXCEPT ![c] = "closed"]
    /\ UNCHANGED <<sent, reply, gone, phase>>

Stop ==
    /\ phase = "serving"
    /\ phase' = "stopping"
    /\ UNCHANGED <<sent, reply, life, gone>>

Served == {c \in Conns : life[c] \in {"open", "closed"}}

\* The process ends: it was asked to, SIGPIPE killed it because of a client
\* that left before it was answered in full, it served too many, or its queues
\* failed.
Down ==
    /\ \/ phase = "stopping" \/ mayDrop
       \/ /\ phase = "serving" /\ SigPipeKills
          /\ \E c \in Conns : life[c] = "open" /\ gone[c] /\ Len(reply[c]) < sent[c]
       \/ phase = "serving" /\ Cardinality(Served) > MaxServed
    /\ phase' = "down"
    /\ UNCHANGED <<sent, reply, life, gone>>

Next ==
    /\ phase # "down"
    /\ \/ \E c \in Conns :
             \/ Connect(c) \/ Send(c) \/ Leave(c)
             \/ Accept(c) \/ Refuse(c) \/ Echo(c) \/ Close(c)
       \/ Stop
       \/ Down
    /\ UNCHANGED mayDrop

Spec == Init /\ [][Next]_vars
=============================================================================
