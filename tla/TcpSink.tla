------------------------------ MODULE TcpSink ------------------------------
(***************************************************************************)
(* The TCP sink of the 3A+ (ingest/src/sinks/tcp.py): ticks are buffered    *)
(* until the consumer acknowledges them, resent after a reconnect, and      *)
(* dropped, oldest first, only when the buffer is over its byte cap.        *)
(*                                                                          *)
(* asyncio is cooperative: an action runs from one await to the next.  The  *)
(* consumer is external: it gets what is on the wire in order and           *)
(* acknowledges the highest seq it has, cumulatively.                       *)
(***************************************************************************)
EXTENDS Integers, Sequences, FiniteSetsExt

CONSTANTS
    MaxSeq,         \* bound: ticks sent by the process
    Size,           \* Size[n]: bytes of entry n, its overhead included
    MaxBufferBytes, \* max_buffer_bytes
    WireMax,        \* lines drain() lets onto the wire before it blocks
    AckMax,         \* bound: acknowledgements in flight
    MaxLosses,      \* bound: losses of the connection
    MaxBadAcks,     \* bound: ack lines that are not what the sink expects
    MaxStops        \* bound: 1 if the process may be stopped

Seqs == 1 .. MaxSeq

ASSUME SinkAssumption ==
    /\ MaxSeq \in Nat \ {0} /\ MaxBufferBytes \in Nat
    /\ WireMax \in Nat \ {0} /\ AckMax \in Nat \ {0}
    /\ MaxLosses \in Nat /\ MaxBadAcks \in Nat /\ MaxStops \in Nat
    /\ Size \in [Seqs -> Nat \ {0}]

VARIABLES
    nextSeq,    \* _next_seq
    unsent,     \* _unsent: seqs not written on the current connection
    unacked,    \* _unacked: seqs written and not acknowledged
    buffered,   \* _buffered_bytes
    hasData,    \* _has_data
    run,        \* where the task _run is
    waiting,    \* the send loop awaits _has_data
    dropped,    \* seqs evicted at the cap (the code counts them)
    wire,       \* seqs on their way to the consumer
    acks,       \* ack lines on their way to the sink
    received,   \* seqs the consumer has received
    faults      \* how often each fault has happened

queues == <<unsent, unacked>>
peer   == <<wire, acks, received>>
vars   == <<nextSeq, queues, buffered, hasData, run, waiting, dropped, peer, faults>>

\* Ack lines: n stands for {"ack": n}; a line may also be JSON whose ack is
\* not a number, be no JSON or hold no ack, or not be UTF-8 at all.
NotANumber  == 0
Unreadable  == -1
Undecodable == -2
BadAcks     == {NotANumber, Unreadable, Undecodable}

Held == unacked \o unsent
Ids(q) == {q[k] : k \in DOMAIN q}

TypeOK ==
    /\ nextSeq \in 1 .. MaxSeq + 1
    /\ unsent \in Seq(Seqs) /\ unacked \in Seq(Seqs)
    /\ buffered \in Nat
    /\ hasData \in BOOLEAN /\ waiting \in BOOLEAN
    /\ run \in {"connecting", "connected", "failed", "stopped"}
    /\ dropped \subseteq Seqs
    /\ wire \in Seq(Seqs) /\ acks \in Seq(Seqs \cup BadAcks)
    /\ received \subseteq Seqs
    /\ faults \in [{"loss", "bad ack", "stop"} -> Nat]

Init ==
    /\ nextSeq = 1 /\ unsent = <<>> /\ unacked = <<>> /\ buffered = 0
    /\ hasData = FALSE /\ run = "connecting" /\ waiting = FALSE /\ dropped = {}
    /\ wire = <<>> /\ acks = <<>> /\ received = {}
    /\ faults = [f \in {"loss", "bad ack", "stop"} |-> 0]

Fault(f, max) == faults[f] < max /\ faults' = [faults EXCEPT ![f] = @ + 1]

Bytes(q) == MapThenSumSet(LAMBDA k : Size[q[k]], DOMAIN q)
First(q, k) == SubSeq(q, 1, k)
After(q, k) == SubSeq(q, k + 1, Len(q))

-----------------------------------------------------------------------------
(* send: number and buffer the tick, then evict from the front of _unacked, *)
(* and of _unsent when that is empty, until the buffer is within its cap.   *)

\* How many entries of a queue q that takes up `bytes' are evicted: the fewest
\* that bring it within the cap.
Fits(q, bytes, k) == bytes - Bytes(First(q, k)) <= MaxBufferBytes

MutantEvictionsNone(q, bytes) == {0}
Evictions(q, bytes) ==
    {k \in 0 .. Len(q) : Fits(q, bytes, k) /\ \A j \in 0 .. k - 1 : ~Fits(q, bytes, j)}

\* Where evicted entries leave: the first k of p \o q leave p, then q.
MutantLeftBehind(p, q, k) ==
    IF k <= Len(q) THEN <<p, After(q, k)>> ELSE <<After(p, k - Len(q)), <<>>>>
LeftBehind(p, q, k) ==
    IF k <= Len(p) THEN <<After(p, k), q>> ELSE <<<<>>, After(q, k - Len(p))>>

MutantWokenNever == hasData
Woken == TRUE

Send ==
    /\ nextSeq <= MaxSeq /\ run # "stopped"
    /\ nextSeq' = nextSeq + 1
    /\ LET all  == Append(Held, nextSeq)
           size == buffered + Size[nextSeq]
       IN  \E k \in Evictions(all, size) :
              /\ unacked' = LeftBehind(unacked, Append(unsent, nextSeq), k)[1]
              /\ unsent' = LeftBehind(unacked, Append(unsent, nextSeq), k)[2]
              /\ buffered' = size - Bytes(First(all, k))
              /\ dropped' = dropped \cup (Ids(all) \ Ids(unacked' \o unsent'))
    /\ hasData' = Woken
    /\ UNCHANGED <<run, waiting, peer, faults>>

-----------------------------------------------------------------------------
(* _run: connect, and put what was written but never acknowledged back in   *)
(* front of the queue; when either loop fails, close and connect again.     *)

MutantRequeuedDropped == unsent
MutantRequeuedBehind == unsent \o unacked
Requeued == unacked \o unsent

Connect ==
    /\ run = "connecting"
    /\ run' = "connected"
    /\ unsent' = Requeued /\ unacked' = <<>>
    /\ hasData' = (hasData \/ Requeued # <<>>)
    /\ waiting' = FALSE
    /\ UNCHANGED <<nextSeq, buffered, dropped, peer, faults>>

Closed == wire' = <<>> /\ acks' = <<>> /\ waiting' = FALSE /\ UNCHANGED received

ConnectionLost ==
    /\ run = "connected"
    /\ Fault("loss", MaxLosses)
    /\ run' = "connecting"
    /\ Closed
    /\ UNCHANGED <<nextSeq, queues, buffered, hasData, dropped>>

(* stop: both tasks are cancelled; what is buffered is lost with the        *)
(* process.                                                                 *)
Stop ==
    /\ run # "stopped"
    /\ Fault("stop", MaxStops)
    /\ run' = "stopped"
    /\ Closed
    /\ UNCHANGED <<nextSeq, queues, buffered, hasData, dropped>>

-----------------------------------------------------------------------------
(* _send_loop.                                                              *)

SendWait ==
    /\ run = "connected" /\ ~waiting /\ unsent = <<>>
    /\ hasData' = FALSE /\ waiting' = TRUE
    /\ UNCHANGED <<nextSeq, queues, buffered, run, dropped, peer, faults>>

SendWake ==
    /\ run = "connected" /\ waiting /\ hasData
    /\ waiting' = FALSE
    /\ UNCHANGED <<nextSeq, queues, buffered, hasData, run, dropped, peer, faults>>

Write ==
    /\ run = "connected" /\ ~waiting /\ unsent # <<>>
    /\ Len(wire) < WireMax
    /\ unsent' = Tail(unsent)
    /\ unacked' = Append(unacked, Head(unsent))
    /\ wire' = Append(wire, Head(unsent))
    /\ UNCHANGED <<nextSeq, buffered, hasData, run, waiting, dropped, acks, received, faults>>

-----------------------------------------------------------------------------
(* _ack_loop.  {"ack": n} pops what is at the front of _unacked up to n.    *)
(* A line that is not JSON is skipped with a warning.  One whose ack is not *)
(* a number fails in the comparison, outside the try, and one that is not   *)
(* UTF-8 in json.loads, with an error the try does not name: either ends    *)
(* _run, which only expects connection errors.                              *)

\* How many entries {"ack": n} pops: all up to the first above n.
MutantAcknowledgedBeyond(n) ==
    {k \in 0 .. Len(unacked) : /\ \A j \in 1 .. k : unacked[j] <= n + 1
                               /\ k < Len(unacked) => unacked[k + 1] > n + 1}
Acknowledged(n) ==
    {k \in 0 .. Len(unacked) : /\ \A j \in 1 .. k : unacked[j] <= n
                               /\ k < Len(unacked) => unacked[k + 1] > n}

AckRead ==
    /\ run = "connected" /\ acks # <<>>
    /\ Head(acks) \in Seqs
    /\ \E k \in Acknowledged(Head(acks)) :
        /\ unacked' = After(unacked, k)
        /\ buffered' = buffered - Bytes(First(unacked, k))
    /\ acks' = Tail(acks)
    /\ UNCHANGED <<nextSeq, unsent, hasData, run, waiting, dropped, wire, received, faults>>

BadAckIgnored ==
    /\ run = "connected" /\ acks # <<>>
    /\ Head(acks) = Unreadable \/ (Head(acks) = NotANumber /\ unacked = <<>>)
    /\ acks' = Tail(acks)
    /\ UNCHANGED <<nextSeq, queues, buffered, hasData, run, waiting, dropped,
                   wire, received, faults>>

BadAckFails ==
    /\ run = "connected" /\ acks # <<>>
    /\ Head(acks) = Undecodable \/ (Head(acks) = NotANumber /\ unacked # <<>>)
    /\ run' = "failed"
    /\ Closed
    /\ UNCHANGED <<nextSeq, queues, buffered, hasData, dropped, faults>>

-----------------------------------------------------------------------------
(* The consumer.                                                            *)

Receive ==
    /\ wire # <<>>
    /\ received' = received \cup {Head(wire)}
    /\ wire' = Tail(wire)
    /\ UNCHANGED <<nextSeq, queues, buffered, hasData, run, waiting, dropped, acks, faults>>

Acknowledge ==
    /\ run = "connected" /\ Len(acks) < AckMax
    /\ \E n \in received : (\A m \in received : m <= n) /\ acks' = Append(acks, n)
    /\ UNCHANGED <<nextSeq, queues, buffered, hasData, run, waiting, dropped,
                   wire, received, faults>>

AcknowledgeBadly ==
    /\ run = "connected" /\ Len(acks) < AckMax
    /\ Fault("bad ack", MaxBadAcks)
    /\ \E line \in BadAcks : acks' = Append(acks, line)
    /\ UNCHANGED <<nextSeq, queues, buffered, hasData, run, waiting, dropped, wire, received>>

Next ==
    \/ Send \/ Connect \/ ConnectionLost \/ Stop
    \/ SendWait \/ SendWake \/ Write
    \/ AckRead \/ BadAckIgnored \/ BadAckFails
    \/ Receive \/ Acknowledge \/ AcknowledgeBadly

Spec == Init /\ [][Next]_vars

-----------------------------------------------------------------------------
(* What is held is one run of seqs ending at the newest tick, across any    *)
(* order of writes, acknowledgements, evictions and reconnects: nothing is  *)
(* skipped, reordered or held twice.                                        *)
HeldInOrder ==
    \A k \in 1 .. Len(Held) : Held[k] = nextSeq - Len(Held) + k - 1

(* The byte counter is the size of what is held, and within the cap.        *)
BufferAccounted == buffered = Bytes(Held) /\ buffered <= MaxBufferBytes

(* A tick that is no longer held was received or is counted as dropped.     *)
NoneLostSilently ==
    \A n \in 1 .. nextSeq - 1 : n \in Ids(Held) \cup received \cup dropped

(* The sink is the abstract channel, across reconnects and failures.        *)
Channel == INSTANCE TickChannel WITH
             sent      <- nextSeq - 1,
             confirmed <- nextSeq - 1 - Len(Held),
             delivered <- received,
             lost      <- dropped
ImplementsChannel == Channel!Spec

(* Every tick is received, or counted as dropped, unless the process is     *)
(* stopped or a bad ack has ended the task.                                 *)
Ended == run \in {"stopped", "failed"}
EventuallyDelivered ==
    \A n \in Seqs : n < nextSeq ~> n \in received \cup dropped \/ Ended

(* The event loop runs every ready task, connecting is retried for ever,    *)
(* the network carries what is written and the consumer acknowledges.       *)
FairSpec ==
    /\ Spec
    /\ WF_vars(Connect) /\ WF_vars(SendWait) /\ WF_vars(SendWake) /\ WF_vars(Write)
    /\ WF_vars(AckRead \/ BadAckIgnored \/ BadAckFails)
    /\ WF_vars(Receive) /\ WF_vars(Acknowledge)
=============================================================================
