--------------------------- MODULE TcpSinkProofs ---------------------------
(***************************************************************************)
(* For every number and size of ticks, every cap and every number of        *)
(* faults: the sink holds one run of seqs, in order, and a tick it no       *)
(* longer holds was received by the consumer or is counted as dropped; the  *)
(* byte counter is the size of what is held.                                *)
(*                                                                          *)
(* The inductive invariant follows a tick along its way: what is below the  *)
(* held run is received or dropped; what the consumer has, and what is on   *)
(* the wire, leaves no earlier tick behind it; an acknowledgement in flight *)
(* names a tick the consumer has.                                           *)
(***************************************************************************)
EXTENDS TcpSink, SequenceTheorems, FiniteSetTheorems, WellFoundedInduction, TLAPS

(* q is the run of consecutive numbers that ends at last.                   *)
InOrder(q, last) == \A k \in 1 .. Len(q) : q[k] = last - Len(q) + k

QueuesTyped ==
    /\ nextSeq \in 1 .. MaxSeq + 1
    /\ unsent \in Seq(Seqs) /\ unacked \in Seq(Seqs)

QueuesInOrder ==
    /\ InOrder(unsent, nextSeq - 1)
    /\ InOrder(unacked, nextSeq - 1 - Len(unsent))

OrderInv == QueuesTyped /\ QueuesInOrder

(* Two runs that follow each other are one run.                             *)
LEMMA ConcatInOrder ==
  ASSUME NEW p \in Seq(Int), NEW q \in Seq(Int), NEW last \in Int,
         InOrder(q, last), InOrder(p, last - Len(q))
  PROVE  InOrder(p \o q, last)
<1>1. Len(p) \in Nat /\ Len(q) \in Nat /\ Len(p \o q) = Len(p) + Len(q)
  OBVIOUS
<1> SUFFICES ASSUME NEW k \in 1 .. Len(p \o q)
             PROVE  (p \o q)[k] = last - Len(p \o q) + k
  BY DEF InOrder
<1>2. CASE k <= Len(p)
  <2>1. (p \o q)[k] = p[k]
    BY <1>1, <1>2
  <2>2. p[k] = last - Len(q) - Len(p) + k
    BY <1>1, <1>2 DEF InOrder
  <2> QED
    BY <1>1, <2>1, <2>2
<1>3. CASE k > Len(p)
  <2>1. (p \o q)[k] = q[k - Len(p)]
    BY <1>1, <1>3
  <2>2. q[k - Len(p)] = last - Len(q) + (k - Len(p))
    BY <1>1, <1>3 DEF InOrder
  <2> QED
    BY <1>1, <2>1, <2>2
<1> QED
  BY <1>1, <1>2, <1>3

(* Taking entries off the front of a run leaves a run.                      *)
LEMMA AfterInOrder ==
  ASSUME NEW q \in Seq(Seqs), NEW last \in Int, InOrder(q, last), NEW k \in 0 .. Len(q)
  PROVE  After(q, k) \in Seq(Seqs) /\ Len(After(q, k)) = Len(q) - k /\ InOrder(After(q, k), last)
<1>1. Len(q) \in Nat /\ k \in Nat
  OBVIOUS
<1>2. After(q, k) \in Seq(Seqs) /\ Len(After(q, k)) = Len(q) - k
  BY <1>1 DEF After
<1>3. \A j \in 1 .. Len(q) - k : After(q, k)[j] = q[k + j]
  BY <1>1 DEF After
<1>4. \A j \in 1 .. Len(q) - k : After(q, k)[j] = last - (Len(q) - k) + j
  BY <1>1, <1>3 DEF InOrder
<1> QED
  BY <1>2, <1>4 DEF InOrder

(* A run continued by the next number is a run.                             *)
LEMMA AppendInOrder ==
  ASSUME NEW q \in Seq(Seqs), NEW n \in Seqs, InOrder(q, n - 1)
  PROVE  Append(q, n) \in Seq(Seqs) /\ InOrder(Append(q, n), n)
<1>1. Len(q) \in Nat /\ n \in Int
  BY SinkAssumption DEF Seqs
<1>2. Append(q, n) \in Seq(Seqs) /\ Len(Append(q, n)) = Len(q) + 1
  OBVIOUS
<1>3. \A k \in 1 .. Len(q) + 1 : Append(q, n)[k] = n - (Len(q) + 1) + k
  BY <1>1 DEF InOrder
<1> QED
  BY <1>2, <1>3 DEF InOrder

LEMMA SeqsAreInts == /\ Seqs \subseteq Int /\ MaxSeq \in Nat \ {0}
                     /\ \A q \in Seq(Seqs) : q \in Seq(Int) /\ Len(q) \in Nat
BY SinkAssumption DEF Seqs

(* A queue that ends at last, and what is evicted from it and its            *)
(* predecessor: both stay runs, whatever number of entries leaves.           *)
LEMMA LeftBehindInOrder ==
  ASSUME NEW p \in Seq(Seqs), NEW q \in Seq(Seqs), NEW last \in Int,
         InOrder(q, last), InOrder(p, last - Len(q)),
         NEW k \in 0 .. Len(p) + Len(q)
  PROVE  /\ LeftBehind(p, q, k)[1] \in Seq(Seqs) /\ LeftBehind(p, q, k)[2] \in Seq(Seqs)
         /\ InOrder(LeftBehind(p, q, k)[2], last)
         /\ InOrder(LeftBehind(p, q, k)[1], last - Len(LeftBehind(p, q, k)[2]))
         /\ Len(LeftBehind(p, q, k)[1]) + Len(LeftBehind(p, q, k)[2]) = Len(p) + Len(q) - k
         /\ Len(LeftBehind(p, q, k)[2]) <= Len(q)
         /\ Len(LeftBehind(p, q, k)[2]) < Len(q) => LeftBehind(p, q, k)[1] = <<>>
<1> DEFINE left == LeftBehind(p, q, k)
<1> SUFFICES /\ left[1] \in Seq(Seqs) /\ left[2] \in Seq(Seqs)
             /\ InOrder(left[2], last) /\ InOrder(left[1], last - Len(left[2]))
             /\ Len(left[1]) + Len(left[2]) = Len(p) + Len(q) - k
             /\ Len(left[2]) <= Len(q)
             /\ Len(left[2]) < Len(q) => left[1] = <<>>
  OBVIOUS
<1>1. Len(p) \in Nat /\ Len(q) \in Nat /\ k \in Nat
  OBVIOUS
<1>2. CASE k <= Len(p)
  <2>1. left[1] = After(p, k) /\ left[2] = q /\ k \in 0 .. Len(p)
    BY <1>1, <1>2 DEF LeftBehind
  <2>2. /\ After(p, k) \in Seq(Seqs) /\ Len(After(p, k)) = Len(p) - k
        /\ InOrder(After(p, k), last - Len(q))
    BY <1>1, <2>1, AfterInOrder
  <2> HIDE DEF left
  <2> QED
    BY <1>1, <2>1, <2>2
<1>3. CASE k > Len(p)
  <2>1. left[1] = <<>> /\ left[2] = After(q, k - Len(p)) /\ k - Len(p) \in 0 .. Len(q)
    BY <1>1, <1>3 DEF LeftBehind
  <2>2. /\ After(q, k - Len(p)) \in Seq(Seqs) /\ Len(After(q, k - Len(p))) = Len(q) - (k - Len(p))
        /\ InOrder(After(q, k - Len(p)), last)
    BY <1>1, <2>1, AfterInOrder
  <2>3. <<>> \in Seq(Seqs) /\ Len(<<>>) = 0 /\ \A n : InOrder(<<>>, n)
    BY DEF InOrder
  <2> HIDE DEF left
  <2>4. Len(left[1]) + Len(left[2]) = Len(p) + Len(q) - k
    BY <1>1, <1>3, <2>1, <2>2, <2>3
  <2>5. left[1] \in Seq(Seqs) /\ left[2] \in Seq(Seqs) /\ left[1] = <<>>
    BY <2>1, <2>2, <2>3
  <2>6. InOrder(left[2], last) /\ InOrder(left[1], last - Len(left[2]))
    BY <2>1, <2>2, <2>3
  <2>7. Len(left[2]) <= Len(q)
    BY <1>1, <1>3, <2>1, <2>2
  <2> QED
    BY <2>4, <2>5, <2>6, <2>7
<1> HIDE DEF left
<1>4. k <= Len(p) \/ k > Len(p)
  BY <1>1
<1> QED
  BY <1>2, <1>3, <1>4

(* What is held is the two runs, one after the other.                        *)
LEMMA ConcatRun ==
  ASSUME NEW p \in Seq(Seqs), NEW q \in Seq(Seqs), NEW n \in Int,
         InOrder(q, n - 1), InOrder(p, n - 1 - Len(q))
  PROVE  p \o q \in Seq(Seqs) /\ Len(p \o q) = Len(p) + Len(q) /\ InOrder(p \o q, n - 1)
<1>1. n - 1 \in Int /\ p \in Seq(Int) /\ q \in Seq(Int)
  BY SeqsAreInts
<1> QED
  BY <1>1, ConcatInOrder

LEMMA HeldRun ==
  ASSUME OrderInv
  PROVE  /\ Held \in Seq(Seqs) /\ Len(Held) = Len(unacked) + Len(unsent)
         /\ InOrder(Held, nextSeq - 1)
<1>1. nextSeq \in Int
  BY SinkAssumption DEF OrderInv, QueuesTyped
<1> QED
  BY <1>1, ConcatRun DEF Held, OrderInv, QueuesTyped, QueuesInOrder

LEMMA OrderInit == Init => OrderInv
<1> SUFFICES ASSUME Init PROVE OrderInv
  OBVIOUS
<1>0. nextSeq = 1 /\ unsent = <<>> /\ unacked = <<>>
  BY DEF Init
<1>1. QueuesTyped
  BY <1>0, SinkAssumption DEF QueuesTyped
<1>2. QueuesInOrder
  BY <1>0 DEF QueuesInOrder, InOrder
<1> QED
  BY <1>1, <1>2 DEF OrderInv

(* send: the new tick continues the queue, and evictions take from its       *)
(* front.                                                                    *)
LEMMA SendOrder ==
  ASSUME OrderInv, Send
  PROVE  /\ OrderInv'
         /\ nextSeq \in Seqs /\ nextSeq' = nextSeq + 1
         /\ Len(unsent') <= Len(unsent) + 1
         /\ Len(unsent') < Len(unsent) + 1 => unacked' = <<>>
         /\ Len(unacked') + Len(unsent') <= Len(unacked) + Len(unsent) + 1
<1> DEFINE longer == Append(unsent, nextSeq)
           all == Append(Held, nextSeq)
<1>1. nextSeq \in Seqs /\ nextSeq' = nextSeq + 1 /\ nextSeq \in Int
  BY SinkAssumption DEF Send, OrderInv, QueuesTyped, Seqs
<1>2. unsent \in Seq(Seqs) /\ unacked \in Seq(Seqs) /\ Len(unsent) \in Nat /\ Len(unacked) \in Nat
  BY DEF OrderInv, QueuesTyped
<1>3. longer \in Seq(Seqs) /\ Len(longer) = Len(unsent) + 1 /\ InOrder(longer, nextSeq)
  BY <1>1, <1>2, AppendInOrder DEF OrderInv, QueuesInOrder
<1>4. InOrder(unacked, nextSeq - Len(longer))
  <2>1. nextSeq - Len(longer) = nextSeq - 1 - Len(unsent)
    BY <1>1, <1>2, <1>3
  <2> QED
    BY <2>1 DEF OrderInv, QueuesInOrder
<1>5. Len(all) = Len(unacked) + Len(longer)
  BY <1>1, <1>2, <1>3, HeldRun
<1>6. PICK k \in 0 .. Len(all) : /\ unacked' = LeftBehind(unacked, longer, k)[1]
                                 /\ unsent' = LeftBehind(unacked, longer, k)[2]
  BY DEF Send, Evictions
<1> HIDE DEF longer, all
<1>7. /\ unacked' \in Seq(Seqs) /\ unsent' \in Seq(Seqs)
      /\ InOrder(unsent', nextSeq) /\ InOrder(unacked', nextSeq - Len(unsent'))
      /\ Len(unacked') + Len(unsent') = Len(unacked) + Len(longer) - k
      /\ Len(unsent') <= Len(longer)
      /\ Len(unsent') < Len(longer) => unacked' = <<>>
  BY <1>1, <1>2, <1>3, <1>4, <1>5, <1>6, LeftBehindInOrder
<1>8. QueuesTyped'
  BY <1>1, <1>7, SinkAssumption DEF QueuesTyped, Seqs
<1>9. QueuesInOrder'
  <2>1. nextSeq' - 1 = nextSeq
    BY <1>1
  <2> QED
    BY <1>7, <2>1 DEF QueuesInOrder
<1>10. Len(unsent') <= Len(unsent) + 1 /\ (Len(unsent') < Len(unsent) + 1 => unacked' = <<>>)
  BY <1>3, <1>7
<1>11. Len(unacked') + Len(unsent') <= Len(unacked) + Len(unsent) + 1
  BY <1>2, <1>3, <1>5, <1>7
<1>12. OrderInv'
  BY <1>8, <1>9 DEF OrderInv
<1> QED
  BY <1>1, <1>10, <1>11, <1>12

(* Connect: the two queues become one.                                       *)
LEMMA ConnectOrder ==
  ASSUME OrderInv, Connect
  PROVE  OrderInv'
<1>1. unsent' = Held /\ unacked' = <<>> /\ nextSeq' = nextSeq
  BY DEF Connect, Requeued, Held
<1>2. InOrder(unsent', nextSeq' - 1) /\ unsent' \in Seq(Seqs)
  BY <1>1, HeldRun
<1>3. InOrder(unacked', nextSeq' - 1 - Len(unsent')) /\ unacked' \in Seq(Seqs)
  BY <1>1 DEF InOrder
<1> QED
  BY <1>1, <1>2, <1>3 DEF OrderInv, QueuesTyped, QueuesInOrder

(* Write: the oldest unsent tick becomes the newest unacknowledged one.      *)
LEMMA WriteOrder ==
  ASSUME OrderInv, Write
  PROVE  /\ OrderInv' /\ nextSeq' = nextSeq
         /\ Len(unsent') = Len(unsent) - 1 /\ Len(unacked') = Len(unacked) + 1
         /\ Head(unsent) = nextSeq - Len(unsent) /\ Head(unsent) \in Seqs
<1>1. /\ unsent' = Tail(unsent) /\ unacked' = Append(unacked, Head(unsent))
      /\ unsent # <<>> /\ nextSeq' = nextSeq
  BY DEF Write
<1>2. /\ unsent \in Seq(Seqs) /\ unacked \in Seq(Seqs) /\ nextSeq \in Int
      /\ Len(unsent) \in Nat \ {0} /\ Len(unacked) \in Nat
  BY <1>1 DEF OrderInv, QueuesTyped
<1>3. Head(unsent) = nextSeq - Len(unsent) /\ Head(unsent) \in Seqs
  <2>1. Head(unsent) = unsent[1] /\ Head(unsent) \in Seqs
    BY <1>1, <1>2
  <2>2. unsent[1] = nextSeq - 1 - Len(unsent) + 1
    BY <1>2 DEF OrderInv, QueuesInOrder, InOrder
  <2> QED
    BY <1>2, <2>1, <2>2
<1>4. /\ unsent' \in Seq(Seqs) /\ Len(unsent') = Len(unsent) - 1
      /\ \A j \in 1 .. Len(unsent) - 1 : unsent'[j] = unsent[j + 1]
  BY <1>1, <1>2
<1>5. InOrder(unsent', nextSeq - 1)
  <2>1. \A j \in 1 .. Len(unsent) - 1 : unsent'[j] = nextSeq - 1 - (Len(unsent) - 1) + j
    BY <1>2, <1>4 DEF OrderInv, QueuesInOrder, InOrder
  <2> QED
    BY <1>4, <2>1 DEF InOrder
<1>6. unacked' \in Seq(Seqs) /\ InOrder(unacked', Head(unsent))
  <2>1. InOrder(unacked, Head(unsent) - 1)
    <3>1. Head(unsent) - 1 = nextSeq - 1 - Len(unsent)
      BY <1>2, <1>3
    <3> QED
      BY <3>1 DEF OrderInv, QueuesInOrder
  <2> QED
    BY <1>1, <1>2, <1>3, <2>1, AppendInOrder
<1>7. Head(unsent) = nextSeq' - 1 - Len(unsent')
  BY <1>1, <1>2, <1>3, <1>4
<1>8. Len(unacked') = Len(unacked) + 1
  BY <1>1, <1>2, <1>3
<1> QED
  BY <1>1, <1>3, <1>4, <1>5, <1>6, <1>7, <1>8 DEF OrderInv, QueuesTyped, QueuesInOrder

(* AckRead: entries leave the front of _unacked.                             *)
LEMMA AckReadOrder ==
  ASSUME OrderInv, AckRead
  PROVE  /\ OrderInv' /\ nextSeq' = nextSeq /\ unsent' = unsent
         /\ \E k \in 0 .. Len(unacked) :
                /\ Len(unacked') = Len(unacked) - k
                /\ \A j \in 1 .. k : unacked[j] <= Head(acks)
<1>1. PICK k \in 0 .. Len(unacked) : /\ unacked' = After(unacked, k)
                                     /\ \A j \in 1 .. k : unacked[j] <= Head(acks)
  BY DEF AckRead, Acknowledged
<1>2. unsent' = unsent /\ nextSeq' = nextSeq
  BY DEF AckRead
<1>3. /\ unacked \in Seq(Seqs) /\ nextSeq - 1 - Len(unsent) \in Int
      /\ InOrder(unacked, nextSeq - 1 - Len(unsent))
  BY DEF OrderInv, QueuesTyped, QueuesInOrder
<1>4. /\ unacked' \in Seq(Seqs) /\ Len(unacked') = Len(unacked) - k
      /\ InOrder(unacked', nextSeq - 1 - Len(unsent))
  BY <1>1, <1>3, AfterInOrder
<1> QED
  BY <1>1, <1>2, <1>4 DEF OrderInv, QueuesTyped, QueuesInOrder

(* The other steps leave the queues alone.                                   *)
QueuesUnchanged == UNCHANGED <<nextSeq, unsent, unacked>>

LEMMA OtherOrder ==
  ASSUME OrderInv, QueuesUnchanged
  PROVE  OrderInv'
BY DEF OrderInv, QueuesTyped, QueuesInOrder, QueuesUnchanged

LEMMA NextOrder == OrderInv /\ [Next]_vars => OrderInv'
<1> SUFFICES ASSUME OrderInv, [Next]_vars PROVE OrderInv'
  OBVIOUS
<1>1. CASE Send
  BY <1>1, SendOrder
<1>2. CASE Connect
  BY <1>2, ConnectOrder
<1>3. CASE Write
  BY <1>3, WriteOrder
<1>4. CASE AckRead
  BY <1>4, AckReadOrder
<1>5. CASE \/ ConnectionLost \/ Stop \/ SendWait \/ SendWake \/ BadAckIgnored \/ BadAckFails
           \/ Receive \/ Acknowledge \/ AcknowledgeBadly \/ UNCHANGED vars
  <2>1. QueuesUnchanged
    BY <1>5 DEF QueuesUnchanged, queues, vars, ConnectionLost, Stop, SendWait, SendWake,
                BadAckIgnored, BadAckFails, Receive, Acknowledge, AcknowledgeBadly
  <2> QED
    BY <2>1, OtherOrder
<1> QED
  BY <1>1, <1>2, <1>3, <1>4, <1>5 DEF Next

(* Whatever is written, acknowledged, evicted or put back, the sink holds    *)
(* one run of consecutive seqs that ends at the newest tick.                 *)
THEOREM HeldAlwaysInOrder == Spec => []HeldInOrder
<1>1. OrderInv => HeldInOrder
  <2> SUFFICES ASSUME OrderInv, NEW k \in 1 .. Len(Held)
               PROVE  Held[k] = nextSeq - Len(Held) + k - 1
    BY DEF HeldInOrder
  <2>1. Held[k] = nextSeq - 1 - Len(Held) + k
    BY HeldRun DEF InOrder
  <2>2. nextSeq \in Int /\ Len(Held) \in Nat
    BY HeldRun DEF OrderInv, QueuesTyped
  <2> QED
    BY <2>1, <2>2
<1> QED
  BY <1>1, OrderInit, NextOrder, PTL DEF Spec

-----------------------------------------------------------------------------

Got == received \cup dropped
OnWire(m, k) == \E j \in 1 .. k : wire[j] = m

PeerTyped ==
    /\ wire \in Seq(Seqs) /\ received \subseteq Seqs
    /\ acks \in Seq(Seqs \cup BadAcks)

(* Below what is held everything is accounted for.                           *)
Below == \A n \in 1 .. nextSeq - 1 - (Len(unacked) + Len(unsent)) : n \in Got

(* The consumer has no tick without having every earlier one, or its drop.   *)
NoneBehind == \A r \in received : \A m \in 1 .. r : m \in Got

(* So will it be when it takes the next line off the wire.                   *)
NoneSkipped == \A k \in 1 .. Len(wire) : \A m \in 1 .. wire[k] - 1 : m \in Got \/ OnWire(m, k - 1)

(* On this connection, everything up to the unsent queue has been written.   *)
Written ==
    run = "connected" =>
        \A m \in 1 .. nextSeq - 1 - Len(unsent) : m \in Got \/ OnWire(m, Len(wire))

(* Acknowledgements are of ticks the consumer has.                           *)
AcksEarned == \A k \in 1 .. Len(acks) : acks[k] \in Seqs => acks[k] \in received

(* A line only gets onto the wire of a live connection.                      *)
WireDead == run \in {"connecting", "connected", "failed", "stopped"}
            /\ (run # "connected" => wire = <<>>)

DeliveryInv ==
    /\ OrderInv /\ PeerTyped /\ Below /\ NoneBehind /\ NoneSkipped /\ Written
    /\ AcksEarned /\ WireDead

LEMMA DeliveryInit == Init => DeliveryInv
<1> SUFFICES ASSUME Init PROVE DeliveryInv
  OBVIOUS
<1>1. /\ nextSeq = 1 /\ unsent = <<>> /\ unacked = <<>> /\ run = "connecting"
      /\ wire = <<>> /\ acks = <<>> /\ received = {}
  BY DEF Init
<1>2. PeerTyped /\ Below /\ NoneBehind /\ NoneSkipped /\ Written /\ AcksEarned /\ WireDead
  BY <1>1 DEF PeerTyped, Below, NoneBehind, NoneSkipped, Written, AcksEarned, WireDead
<1> QED
  BY <1>2, OrderInit DEF DeliveryInv

(* What was got stays got; with the same peers, the claims about it stay.    *)
LEMMA MoreGot ==
  ASSUME DeliveryInv, UNCHANGED peer, dropped \subseteq dropped'
  PROVE  PeerTyped' /\ NoneBehind' /\ NoneSkipped' /\ AcksEarned' /\ Got \subseteq Got'
<1>1. received' = received /\ wire' = wire /\ acks' = acks /\ Got \subseteq Got'
  BY DEF peer, Got
<1>2. PeerTyped' /\ AcksEarned' /\ NoneBehind'
  BY <1>1 DEF DeliveryInv, PeerTyped, AcksEarned, NoneBehind
<1>3. NoneSkipped'
  BY <1>1 DEF DeliveryInv, NoneSkipped, OnWire
<1> QED
  BY <1>1, <1>2, <1>3

LEMMA Lengths ==
  ASSUME OrderInv
  PROVE  Len(unsent) \in Nat /\ Len(unacked) \in Nat /\ nextSeq \in Nat
BY SinkAssumption DEF OrderInv, QueuesTyped

(* send: what is evicted is counted as dropped.                              *)
LEMMA SendDelivery ==
  ASSUME DeliveryInv, Send
  PROVE  DeliveryInv'
<1>1. /\ OrderInv' /\ nextSeq \in Seqs /\ nextSeq' = nextSeq + 1
      /\ Len(unsent') <= Len(unsent) + 1
      /\ Len(unsent') < Len(unsent) + 1 => unacked' = <<>>
      /\ Len(unacked') + Len(unsent') <= Len(unacked) + Len(unsent) + 1
  BY SendOrder DEF DeliveryInv
<1>2. /\ UNCHANGED peer /\ run' = run
      /\ dropped' = dropped \cup (Ids(Append(Held, nextSeq)) \ Ids(Held'))
  BY DEF Send, Held
<1>3. PeerTyped' /\ NoneBehind' /\ NoneSkipped' /\ AcksEarned' /\ Got \subseteq Got'
  BY <1>2, MoreGot
<1>4. /\ Held \in Seq(Seqs) /\ Len(Held) = Len(unacked) + Len(unsent)
      /\ InOrder(Held, nextSeq - 1)
  BY HeldRun DEF DeliveryInv
<1>5. /\ Held' \in Seq(Seqs) /\ Len(Held') = Len(unacked') + Len(unsent')
      /\ InOrder(Held', nextSeq' - 1)
  <2>1. OrderInv' /\ nextSeq' \in Int
    BY <1>1, SeqsAreInts
  <2>2. /\ unacked' \in Seq(Seqs) /\ unsent' \in Seq(Seqs)
        /\ InOrder(unsent', nextSeq' - 1) /\ InOrder(unacked', nextSeq' - 1 - Len(unsent'))
    BY <2>1 DEF OrderInv, QueuesTyped, QueuesInOrder
  <2>3. Held' = unacked' \o unsent'
    BY DEF Held
  <2> QED
    BY <2>1, <2>2, <2>3, ConcatRun
<1>6. /\ Len(unsent) \in Nat /\ Len(unacked) \in Nat /\ nextSeq \in Nat
      /\ Len(unsent') \in Nat /\ Len(unacked') \in Nat /\ nextSeq' \in Nat
  BY <1>1, Lengths DEF DeliveryInv
<1>7. Below'
  <2> SUFFICES ASSUME NEW n \in 1 .. nextSeq' - 1 - (Len(unacked') + Len(unsent'))
               PROVE  n \in Got'
    BY DEF Below
  <2>1. n \in Nat \ {0} /\ n < nextSeq' - Len(Held')
    BY <1>5, <1>6
  <2>2. CASE n <= nextSeq - 1 - Len(Held)
    BY <1>3, <1>4, <1>6, <2>1, <2>2 DEF DeliveryInv, Below
  <2>3. CASE n > nextSeq - 1 - Len(Held)
    <3>1. n \in Ids(Append(Held, nextSeq))
      <4>1. CASE n = nextSeq
        <5>1. Append(Held, nextSeq)[Len(Held) + 1] = nextSeq /\ Len(Held) + 1 \in DOMAIN Append(Held, nextSeq)
          BY <1>1, <1>4
        <5> QED
          BY <4>1, <5>1 DEF Ids
      <4>2. CASE n # nextSeq
        <5> DEFINE j == n - (nextSeq - 1 - Len(Held))
        <5>1. j \in 1 .. Len(Held)
          BY <1>1, <1>4, <1>6, <2>1, <2>3, <4>2
        <5>2. Held[j] = n
          BY <1>4, <1>6, <2>1, <5>1 DEF InOrder
        <5>3. Append(Held, nextSeq)[j] = Held[j] /\ j \in DOMAIN Append(Held, nextSeq)
          BY <1>1, <1>4, <5>1
        <5> QED
          BY <5>2, <5>3 DEF Ids
      <4> QED
        BY <4>1, <4>2
    <3>2. n \notin Ids(Held')
      <4> SUFFICES ASSUME NEW j \in 1 .. Len(Held'), Held'[j] = n PROVE FALSE
        BY <1>5 DEF Ids
      <4>1. Held'[j] = nextSeq' - 1 - Len(Held') + j
        BY <1>5 DEF InOrder
      <4> QED
        BY <1>5, <1>6, <2>1, <4>1
    <3> QED
      BY <1>2, <3>1, <3>2 DEF Got
  <2> QED
    BY <1>4, <1>6, <2>1, <2>2, <2>3
<1>8. Written'
  <2> SUFFICES ASSUME run' = "connected", NEW m \in 1 .. nextSeq' - 1 - Len(unsent')
               PROVE  m \in Got' \/ OnWire(m, Len(wire))'
    BY DEF Written
  <2>1. CASE Len(unsent') < Len(unsent) + 1
    <3>1. unacked' = <<>>
      BY <1>1, <2>1
    <3>2. m \in Got'
      BY <1>6, <1>7, <3>1 DEF Below
    <3> QED
      BY <3>2
  <2>2. CASE Len(unsent') = Len(unsent) + 1
    <3>1. m \in 1 .. nextSeq - 1 - Len(unsent)
      BY <1>1, <1>6, <2>2
    <3>2. m \in Got \/ OnWire(m, Len(wire))
      BY <1>2, <3>1 DEF DeliveryInv, Written
    <3> QED
      BY <1>2, <1>3, <3>2 DEF OnWire, peer
  <2> QED
    BY <1>1, <1>6, <2>1, <2>2
<1>9. WireDead'
  BY <1>2 DEF DeliveryInv, WireDead, peer
<1> QED
  BY <1>1, <1>3, <1>7, <1>8, <1>9 DEF DeliveryInv

(* Connect: everything below the requeued run is accounted for.              *)
LEMMA ConnectDelivery ==
  ASSUME DeliveryInv, Connect
  PROVE  DeliveryInv'
<1>1. /\ unsent' = Held /\ unacked' = <<>> /\ nextSeq' = nextSeq
      /\ UNCHANGED <<dropped, peer>> /\ run' = "connected" /\ run = "connecting"
  BY DEF Connect, Requeued, Held
<1>2. OrderInv'
  BY ConnectOrder DEF DeliveryInv
<1>3. PeerTyped' /\ NoneBehind' /\ NoneSkipped' /\ AcksEarned' /\ Got \subseteq Got'
  BY <1>1, MoreGot
<1>4. Len(unsent') = Len(unacked) + Len(unsent) /\ Len(unacked') = 0
  BY <1>1, HeldRun DEF DeliveryInv
<1>5. Len(unsent) \in Nat /\ Len(unacked) \in Nat /\ nextSeq \in Nat
  BY Lengths DEF DeliveryInv
<1>6. \A n \in 1 .. nextSeq - 1 - Len(unsent') : n \in Got'
  BY <1>3, <1>4, <1>5 DEF DeliveryInv, Below
<1>7. Below' /\ Written'
  BY <1>1, <1>4, <1>5, <1>6 DEF Below, Written
<1>8. WireDead'
  BY <1>1 DEF WireDead
<1> QED
  BY <1>2, <1>3, <1>7, <1>8 DEF DeliveryInv

(* Write: the tick written is the one after everything written before.       *)
LEMMA WriteDelivery ==
  ASSUME DeliveryInv, Write
  PROVE  DeliveryInv'
<1> DEFINE h == Head(unsent)
<1>1. /\ OrderInv' /\ nextSeq' = nextSeq
      /\ Len(unsent') = Len(unsent) - 1 /\ Len(unacked') = Len(unacked) + 1
      /\ h = nextSeq - Len(unsent) /\ h \in Seqs
  BY WriteOrder DEF DeliveryInv
<1>2. /\ wire' = Append(wire, h) /\ run = "connected" /\ run' = run
      /\ received' = received /\ dropped' = dropped /\ acks' = acks
  BY DEF Write
<1>3. Len(unsent) \in Nat /\ Len(unacked) \in Nat /\ nextSeq \in Nat /\ Got' = Got
  BY <1>2, Lengths DEF DeliveryInv, Got
<1> HIDE DEF h
<1>4. /\ wire \in Seq(Seqs) /\ Len(wire) \in Nat /\ Len(wire') = Len(wire) + 1
      /\ \A j \in 1 .. Len(wire) : wire'[j] = wire[j]
      /\ wire'[Len(wire) + 1] = h /\ wire' \in Seq(Seqs)
  BY <1>1, <1>2 DEF DeliveryInv, PeerTyped
<1>5. \A m : \A k \in 0 .. Len(wire) : OnWire(m, k) => OnWire(m, k)'
  BY <1>4 DEF OnWire
<1>6. PeerTyped' /\ NoneBehind' /\ AcksEarned' /\ WireDead'
  BY <1>2, <1>3, <1>4 DEF DeliveryInv, PeerTyped, NoneBehind, AcksEarned, WireDead
<1>7. Below'
  BY <1>1, <1>3 DEF DeliveryInv, Below
<1>8. \A m \in 1 .. h - 1 : m \in Got \/ OnWire(m, Len(wire))
  BY <1>1, <1>2, <1>3 DEF DeliveryInv, Written
<1>9. NoneSkipped'
  <2> SUFFICES ASSUME NEW k \in 1 .. Len(wire'), NEW m \in 1 .. wire'[k] - 1
               PROVE  m \in Got' \/ OnWire(m, k - 1)'
    BY DEF NoneSkipped
  <2>1. CASE k = Len(wire) + 1
    BY <1>3, <1>4, <1>5, <1>8, <2>1
  <2>2. CASE k # Len(wire) + 1
    <3>1. k \in 1 .. Len(wire) /\ k - 1 \in 0 .. Len(wire) /\ wire'[k] = wire[k]
      BY <1>4, <2>2
    <3>2. m \in Got \/ OnWire(m, k - 1)
      BY <3>1 DEF DeliveryInv, NoneSkipped
    <3> QED
      BY <1>3, <1>5, <3>1, <3>2
  <2> QED
    BY <2>1, <2>2
<1>10. Written'
  <2> SUFFICES ASSUME NEW m \in 1 .. nextSeq' - 1 - Len(unsent')
               PROVE  m \in Got' \/ OnWire(m, Len(wire))'
    BY DEF Written
  <2>1. m \in 1 .. h
    BY <1>1, <1>3
  <2>2. CASE m = h
    BY <1>4, <2>2 DEF OnWire
  <2>3. CASE m # h
    <3>0. m \in 1 .. h - 1
      BY <1>1, <1>3, <2>1, <2>3
    <3>1. m \in Got \/ OnWire(m, Len(wire))
      BY <1>8, <3>0
    <3>2. OnWire(m, Len(wire)) => OnWire(m, Len(wire))'
      BY <1>4 DEF OnWire
    <3> QED
      BY <1>3, <3>1, <3>2
  <2> QED
    BY <2>2, <2>3
<1> QED
  BY <1>1, <1>6, <1>7, <1>9, <1>10 DEF DeliveryInv

(* AckRead: what leaves _unacked is at most the acknowledged tick.           *)
LEMMA AckReadDelivery ==
  ASSUME DeliveryInv, AckRead
  PROVE  DeliveryInv'
<1>1. OrderInv' /\ nextSeq' = nextSeq /\ unsent' = unsent
  BY AckReadOrder DEF DeliveryInv
<1>2. PICK k \in 0 .. Len(unacked) :
        Len(unacked') = Len(unacked) - k /\ \A j \in 1 .. k : unacked[j] <= Head(acks)
  BY AckReadOrder DEF DeliveryInv
<1>3. /\ acks # <<>> /\ acks' = Tail(acks) /\ Head(acks) \in Seqs
      /\ run' = run /\ wire' = wire /\ received' = received /\ dropped' = dropped
  BY DEF AckRead
<1>4. Len(unsent) \in Nat /\ Len(unacked) \in Nat /\ nextSeq \in Nat /\ Got' = Got
  BY <1>3, Lengths DEF DeliveryInv, Got
<1>5. acks \in Seq(Seqs \cup BadAcks)
  BY DEF DeliveryInv, PeerTyped
<1>6. /\ Head(acks) \in received
      /\ acks' \in Seq(Seqs \cup BadAcks)
      /\ \A j \in 1 .. Len(acks') : j + 1 \in 1 .. Len(acks) /\ acks'[j] = acks[j + 1]
  BY <1>3, <1>5 DEF DeliveryInv, AcksEarned
<1>7. PeerTyped' /\ NoneBehind' /\ AcksEarned' /\ WireDead'
  BY <1>3, <1>4, <1>6 DEF DeliveryInv, PeerTyped, NoneBehind, AcksEarned, WireDead
<1>8. NoneSkipped' /\ Written'
  BY <1>1, <1>3, <1>4 DEF DeliveryInv, NoneSkipped, Written, OnWire
<1>9. Below'
  <2> SUFFICES ASSUME NEW n \in 1 .. nextSeq - 1 - (Len(unacked) - k + Len(unsent))
               PROVE  n \in Got
    BY <1>1, <1>2, <1>4 DEF Below
  <2>1. CASE n <= nextSeq - 1 - (Len(unacked) + Len(unsent))
    BY <1>4, <2>1 DEF DeliveryInv, Below
  <2>2. CASE n > nextSeq - 1 - (Len(unacked) + Len(unsent))
    <3> DEFINE j == n - (nextSeq - 1 - (Len(unacked) + Len(unsent)))
    <3>1. j \in 1 .. k /\ j \in 1 .. Len(unacked)
      BY <1>4, <2>2
    <3>2. unacked[j] = nextSeq - 1 - Len(unsent) - Len(unacked) + j
      BY <3>1 DEF DeliveryInv, OrderInv, QueuesInOrder, InOrder
    <3>3. n <= Head(acks)
      BY <1>2, <1>4, <3>1, <3>2
    <3>4. n \in 1 .. Head(acks)
      BY <1>3, <1>4, <3>3, SeqsAreInts
    <3> QED
      BY <1>6, <3>4 DEF DeliveryInv, NoneBehind
  <2> QED
    BY <1>4, <2>1, <2>2
<1> QED
  BY <1>1, <1>7, <1>8, <1>9 DEF DeliveryInv

(* Receive: the first line on the wire has nothing behind it.                *)
LEMMA ReceiveDelivery ==
  ASSUME DeliveryInv, Receive
  PROVE  DeliveryInv'
<1> DEFINE h == Head(wire)
<1>1. /\ wire # <<>> /\ received' = received \cup {h} /\ wire' = Tail(wire)
      /\ QueuesUnchanged /\ run' = run /\ dropped' = dropped /\ acks' = acks
  BY DEF Receive, QueuesUnchanged, queues
<1>2. OrderInv'
  BY <1>1, OtherOrder DEF DeliveryInv
<1>3. /\ wire \in Seq(Seqs) /\ Len(wire) \in Nat \ {0} /\ h = wire[1] /\ h \in Seqs
      /\ wire' \in Seq(Seqs) /\ Len(wire') = Len(wire) - 1
      /\ \A j \in 1 .. Len(wire) - 1 : wire'[j] = wire[j + 1]
  BY <1>1 DEF DeliveryInv, PeerTyped
<1> HIDE DEF h
<1>4. Got' = Got \cup {h} /\ nextSeq' = nextSeq /\ unsent' = unsent /\ unacked' = unacked
  BY <1>1 DEF Got, QueuesUnchanged
<1>5. \A m : \A k \in 1 .. Len(wire) : OnWire(m, k) => m \in Got' \/ OnWire(m, k - 1)'
  <2> SUFFICES ASSUME NEW m, NEW k \in 1 .. Len(wire), NEW j \in 1 .. k, wire[j] = m
               PROVE  m \in Got' \/ OnWire(m, k - 1)'
    BY DEF OnWire
  <2>1. CASE j = 1
    BY <1>3, <1>4, <2>1
  <2>2. CASE j # 1
    <3>1. j - 1 \in 1 .. k - 1 /\ j - 1 \in 1 .. Len(wire) - 1 /\ (j - 1) + 1 = j
      BY <1>3, <2>2
    <3>2. wire'[j - 1] = m
      BY <1>3, <3>1
    <3> QED
      BY <3>1, <3>2 DEF OnWire
  <2> QED
    BY <2>1, <2>2
<1>6. PeerTyped' /\ AcksEarned' /\ Below'
  BY <1>1, <1>3, <1>4 DEF DeliveryInv, PeerTyped, AcksEarned, Below
<1>7. WireDead'
  BY <1>1 DEF DeliveryInv, WireDead
<1>8. NoneBehind'
  <2> SUFFICES ASSUME NEW r \in received', NEW m \in 1 .. r PROVE m \in Got'
    BY DEF NoneBehind
  <2>1. CASE r \in received
    BY <1>4, <2>1 DEF DeliveryInv, NoneBehind
  <2>2. CASE r = h
    <3>1. CASE m = h
      BY <1>4, <3>1
    <3>2. CASE m # h
      <4>1. m \in 1 .. wire[1] - 1 /\ 1 \in 1 .. Len(wire)
        BY <1>3, <2>2, <3>2, SeqsAreInts
      <4>2. m \in Got \/ OnWire(m, 0)
        BY <4>1 DEF DeliveryInv, NoneSkipped
      <4> QED
        BY <1>4, <4>2 DEF OnWire
    <3> QED
      BY <3>1, <3>2
  <2> QED
    BY <1>1, <2>1, <2>2
<1>9. NoneSkipped'
  <2> SUFFICES ASSUME NEW k \in 1 .. Len(wire) - 1, NEW m \in 1 .. wire[k + 1] - 1
               PROVE  m \in Got' \/ OnWire(m, k - 1)'
    BY <1>3 DEF NoneSkipped
  <2>1. k + 1 \in 1 .. Len(wire) /\ k \in 1 .. Len(wire) /\ (k + 1) - 1 = k
    BY <1>3
  <2>2. m \in Got \/ OnWire(m, k)
    BY <2>1 DEF DeliveryInv, NoneSkipped
  <2> QED
    BY <1>4, <1>5, <2>1, <2>2
<1>10. Written'
  <2> SUFFICES ASSUME run = "connected", NEW m \in 1 .. nextSeq - 1 - Len(unsent)
               PROVE  m \in Got' \/ OnWire(m, Len(wire))'
    BY <1>1, <1>4 DEF Written
  <2>1. CASE m \in Got
    BY <1>4, <2>1
  <2>2. CASE m \notin Got
    <3>1. PICK j \in 1 .. Len(wire) : wire[j] = m
      BY <2>2 DEF DeliveryInv, Written, OnWire
    <3>2. CASE j = 1
      BY <1>3, <1>4, <3>1, <3>2
    <3>3. CASE j # 1
      <4>1. j - 1 \in 1 .. Len(wire) - 1 /\ (j - 1) + 1 = j
        BY <1>3, <3>3
      <4>2. wire'[j - 1] = m /\ j - 1 \in 1 .. Len(wire')
        BY <1>3, <3>1, <4>1
      <4> QED
        BY <4>2 DEF OnWire
    <3> QED
      BY <3>2, <3>3
  <2> QED
    BY <2>1, <2>2
<1> QED
  BY <1>2, <1>6, <1>7, <1>8, <1>9, <1>10 DEF DeliveryInv

(* Acknowledgements, good ones of what was received and bad ones, and what    *)
(* becomes of the bad.                                                       *)
LEMMA AcksDelivery ==
  ASSUME DeliveryInv, QueuesUnchanged, UNCHANGED <<dropped, run, wire, received>>,
         acks' \in Seq(Seqs \cup BadAcks), AcksEarned'
  PROVE  DeliveryInv'
<1>1. OrderInv'
  BY OtherOrder DEF DeliveryInv
<1>2. PeerTyped' /\ Below' /\ NoneBehind' /\ WireDead'
  BY DEF DeliveryInv, PeerTyped, Below, NoneBehind, WireDead, Got, QueuesUnchanged
<1>3. NoneSkipped' /\ Written'
  BY DEF DeliveryInv, NoneSkipped, Written, Got, OnWire, QueuesUnchanged
<1> QED
  BY <1>1, <1>2, <1>3 DEF DeliveryInv

(* The connection ends: nothing is on the wire any more.                     *)
LEMMA ClosedDelivery ==
  ASSUME DeliveryInv, QueuesUnchanged, dropped' = dropped, Closed,
         run' \in {"connecting", "failed", "stopped"}
  PROVE  DeliveryInv'
<1>1. wire' = <<>> /\ acks' = <<>> /\ received' = received /\ Got' = Got
  BY DEF Closed, Got
<1>2. OrderInv'
  BY OtherOrder DEF DeliveryInv
<1>3. PeerTyped' /\ Below' /\ NoneBehind' /\ WireDead'
  BY <1>1 DEF DeliveryInv, PeerTyped, Below, NoneBehind, WireDead, QueuesUnchanged
<1>4. NoneSkipped' /\ Written' /\ AcksEarned'
  BY <1>1 DEF NoneSkipped, Written, AcksEarned
<1> QED
  BY <1>2, <1>3, <1>4 DEF DeliveryInv

LEMMA NextDelivery == DeliveryInv /\ [Next]_vars => DeliveryInv'
<1> SUFFICES ASSUME DeliveryInv, [Next]_vars PROVE DeliveryInv'
  OBVIOUS
<1>0. acks \in Seq(Seqs \cup BadAcks) /\ AcksEarned /\ Len(acks) \in Nat
  BY DEF DeliveryInv, PeerTyped
<1>1. CASE Send
  BY <1>1, SendDelivery
<1>2. CASE Connect
  BY <1>2, ConnectDelivery
<1>3. CASE Write
  BY <1>3, WriteDelivery
<1>4. CASE AckRead
  BY <1>4, AckReadDelivery
<1>5. CASE Receive
  BY <1>5, ReceiveDelivery
<1>6. CASE ConnectionLost \/ Stop \/ BadAckFails
  <2>1. /\ QueuesUnchanged /\ dropped' = dropped /\ Closed
        /\ run' \in {"connecting", "failed", "stopped"}
    BY <1>6 DEF QueuesUnchanged, queues, ConnectionLost, Stop, BadAckFails
  <2> QED
    BY <2>1, ClosedDelivery
<1>7. CASE SendWait \/ SendWake \/ UNCHANGED vars
  <2>1. QueuesUnchanged /\ UNCHANGED <<dropped, run, wire, received, acks>>
    BY <1>7 DEF QueuesUnchanged, queues, vars, peer, SendWait, SendWake
  <2> QED
    BY <1>0, <2>1, AcksDelivery DEF AcksEarned
<1>8. CASE BadAckIgnored
  <2>1. /\ QueuesUnchanged /\ UNCHANGED <<dropped, run, wire, received>>
        /\ acks' = Tail(acks) /\ acks # <<>>
    BY <1>8 DEF QueuesUnchanged, queues, BadAckIgnored
  <2>2. /\ acks' \in Seq(Seqs \cup BadAcks)
        /\ \A j \in 1 .. Len(acks') : j + 1 \in 1 .. Len(acks) /\ acks'[j] = acks[j + 1]
    BY <1>0, <2>1
  <2>3. AcksEarned'
    BY <1>0, <2>1, <2>2 DEF AcksEarned
  <2> QED
    BY <2>1, <2>2, <2>3, AcksDelivery
<1>9. CASE Acknowledge \/ AcknowledgeBadly
  <2>1. /\ QueuesUnchanged /\ UNCHANGED <<dropped, run, wire, received>>
        /\ \E line \in received \cup BadAcks : acks' = Append(acks, line)
    BY <1>9 DEF QueuesUnchanged, queues, Acknowledge, AcknowledgeBadly
  <2>2. PICK line \in received \cup BadAcks : acks' = Append(acks, line)
    BY <2>1
  <2>3. line \in Seqs \cup BadAcks /\ (line \in Seqs => line \in received)
    BY <2>2 DEF DeliveryInv, PeerTyped, Seqs, BadAcks, NotANumber, Unreadable, Undecodable
  <2>4. /\ acks' \in Seq(Seqs \cup BadAcks) /\ Len(acks') = Len(acks) + 1
        /\ \A j \in 1 .. Len(acks) : acks'[j] = acks[j]
        /\ acks'[Len(acks) + 1] = line
    BY <1>0, <2>2, <2>3
  <2>5. AcksEarned'
    BY <1>0, <2>1, <2>3, <2>4 DEF AcksEarned
  <2> QED
    BY <2>1, <2>4, <2>5, AcksDelivery
<1> QED
  BY <1>1, <1>2, <1>3, <1>4, <1>5, <1>6, <1>7, <1>8, <1>9 DEF Next

(* At-least-once: across reconnects, acknowledgements in any state and       *)
(* evictions, a tick the sink has let go of was received by the consumer or  *)
(* is counted as dropped.                                                    *)
THEOREM NoneEverLostSilently == Spec => []NoneLostSilently
<1>1. DeliveryInv => NoneLostSilently
  <2> SUFFICES ASSUME DeliveryInv, NEW n \in 1 .. nextSeq - 1
               PROVE  n \in Ids(Held) \cup received \cup dropped
    BY DEF NoneLostSilently
  <2>1. /\ Held \in Seq(Seqs) /\ Len(Held) = Len(unacked) + Len(unsent) /\ Len(Held) \in Nat
        /\ InOrder(Held, nextSeq - 1) /\ nextSeq \in Nat
    BY HeldRun, Lengths DEF DeliveryInv
  <2>2. CASE n <= nextSeq - 1 - Len(Held)
    BY <2>1, <2>2 DEF DeliveryInv, Below, Got
  <2>3. CASE n > nextSeq - 1 - Len(Held)
    <3> DEFINE j == n - (nextSeq - 1 - Len(Held))
    <3>1. j \in 1 .. Len(Held)
      BY <2>1, <2>3
    <3>2. Held[j] = n
      BY <2>1, <3>1 DEF InOrder
    <3>3. j \in DOMAIN Held
      BY <2>1, <3>1
    <3> QED
      BY <3>2, <3>3 DEF Ids
  <2> QED
    BY <2>1, <2>2, <2>3
<1> QED
  BY <1>1, DeliveryInit, NextDelivery, PTL DEF Spec

-----------------------------------------------------------------------------
(* The sink implements the channel.  A tick below the held run is confirmed; *)
(* what is dropped is among those, and what is on the wire has been sent.    *)

Confirmed == nextSeq - 1 - Len(Held)

DroppedConfirmed == dropped \subseteq 1 .. Confirmed
WireSent == \A k \in 1 .. Len(wire) : wire[k] \in 1 .. nextSeq - 1

ChannelInv == DeliveryInv /\ DroppedConfirmed /\ WireSent

(* The ids of a run are an interval.                                         *)
LEMMA RunIds ==
  ASSUME NEW q \in Seq(Seqs), NEW last \in Int, InOrder(q, last)
  PROVE  Ids(q) = (last - Len(q) + 1) .. last
<1>1. Len(q) \in Nat /\ DOMAIN q = 1 .. Len(q)
  OBVIOUS
<1>2. ASSUME NEW n \in Ids(q) PROVE n \in (last - Len(q) + 1) .. last
  <2>1. PICK k \in 1 .. Len(q) : n = q[k]
    BY <1>1, <1>2 DEF Ids
  <2>2. n = last - Len(q) + k
    BY <2>1 DEF InOrder
  <2> QED
    BY <1>1, <2>2
<1>3. ASSUME NEW n \in (last - Len(q) + 1) .. last PROVE n \in Ids(q)
  <2> DEFINE k == n - (last - Len(q))
  <2>1. k \in 1 .. Len(q) /\ n = last - Len(q) + k
    BY <1>1
  <2>2. q[k] = n
    BY <2>1 DEF InOrder
  <2> QED
    BY <1>1, <2>1, <2>2 DEF Ids
<1> QED
  BY <1>2, <1>3

LEMMA HeldIs ==
  ASSUME NEW p \in Seq(Seqs), NEW q \in Seq(Seqs), NEW n \in Nat \ {0},
         InOrder(q, n - 1), InOrder(p, n - 1 - Len(q))
  PROVE  /\ Len(p) \in Nat /\ Len(q) \in Nat /\ Len(p \o q) = Len(p) + Len(q)
         /\ n - 1 - Len(p \o q) \in 0 .. n - 1
         /\ Ids(p \o q) = (n - 1 - Len(p \o q)) + 1 .. n - 1
<1> DEFINE h == p \o q
           c == n - 1 - Len(h)
<1>1. h \in Seq(Seqs) /\ Len(h) = Len(p) + Len(q) /\ InOrder(h, n - 1)
  BY ConcatRun
<1>2. Len(p) \in Nat /\ Len(q) \in Nat /\ Len(h) \in Nat
  BY <1>1
<1> HIDE DEF h
<1>3. Ids(h) = ((n - 1) - Len(h) + 1) .. n - 1
  BY <1>1, RunIds
<1>4. c \in 0 .. n - 1
  <2>1. CASE Len(h) = 0
    BY <2>1
  <2>2. CASE Len(h) # 0
    <3>1. 1 \in 1 .. Len(h)
      BY <1>2, <2>2
    <3>2. h[1] = n - 1 - Len(h) + 1 /\ h[1] \in Seqs
      BY <1>1, <3>1 DEF InOrder
    <3> QED
      BY <1>2, <3>2 DEF Seqs
  <2> QED
    BY <2>1, <2>2
<1> QED
  BY <1>1, <1>2, <1>3, <1>4 DEF h

LEMMA ChannelInit == Init => ChannelInv /\ Channel!Init
<1> SUFFICES ASSUME Init PROVE ChannelInv /\ Channel!Init
  OBVIOUS
<1>1. nextSeq = 1 /\ wire = <<>> /\ received = {} /\ dropped = {} /\ unacked = <<>> /\ unsent = <<>>
  BY DEF Init
<1>3. Len(Held) = 0
  <2>1. Len(<<>> \o <<>>) = 0
    OBVIOUS
  <2> QED
    BY <1>1, <2>1 DEF Held
<1>2. DroppedConfirmed /\ WireSent
  BY <1>1 DEF DroppedConfirmed, WireSent
<1> QED
  BY <1>1, <1>2, <1>3, DeliveryInit DEF ChannelInv, Channel!Init

(* send, with its evictions.                                                 *)
LEMMA SendStep ==
  ASSUME ChannelInv, Send
  PROVE  DroppedConfirmed' /\ WireSent' /\ Channel!Send
<1>1. OrderInv /\ OrderInv' /\ nextSeq \in Seqs /\ nextSeq' = nextSeq + 1
  BY SendOrder DEF ChannelInv, DeliveryInv
<1>2. Len(unacked') + Len(unsent') <= Len(unacked) + Len(unsent) + 1
  BY SendOrder DEF ChannelInv, DeliveryInv
<1>3. /\ UNCHANGED <<wire, received>>
      /\ dropped' = dropped \cup (Ids(Append(Held, nextSeq)) \ Ids(Held'))
  BY DEF Send, Held, peer
<1>4. /\ nextSeq \in Nat \ {0} /\ Confirmed \in Int /\ Confirmed \in 0 .. nextSeq - 1
      /\ Ids(Held) = Confirmed + 1 .. nextSeq - 1
      /\ Len(Held) = Len(unacked) + Len(unsent)
      /\ Len(unacked) \in Nat /\ Len(unsent) \in Nat
  BY <1>1, HeldIs DEF Held, Confirmed, OrderInv, QueuesTyped, QueuesInOrder, Seqs
<1>5. /\ nextSeq' \in Nat \ {0} /\ Confirmed' \in Int /\ Confirmed' \in 0 .. nextSeq' - 1
      /\ Ids(Held') = Confirmed' + 1 .. nextSeq' - 1
      /\ Len(Held') = Len(unacked') + Len(unsent')
      /\ Len(unacked') \in Nat /\ Len(unsent') \in Nat
  BY <1>1, HeldIs DEF Held, Confirmed, OrderInv, QueuesTyped, QueuesInOrder, Seqs
<1>6. Confirmed <= Confirmed' /\ Confirmed' <= nextSeq
  BY <1>1, <1>2, <1>4, <1>5 DEF Confirmed
<1>7. Ids(Append(Held, nextSeq)) = Confirmed + 1 .. nextSeq
  <2>1. Held \in Seq(Seqs) /\ InOrder(Held, nextSeq - 1)
    BY <1>1, HeldRun
  <2>2. /\ Append(Held, nextSeq) \in Seq(Seqs) /\ InOrder(Append(Held, nextSeq), nextSeq)
        /\ Len(Append(Held, nextSeq)) = Len(Held) + 1
    BY <1>1, <2>1, AppendInOrder
  <2>3. Ids(Append(Held, nextSeq)) = (nextSeq - Len(Append(Held, nextSeq)) + 1) .. nextSeq
    <3> DEFINE all == Append(Held, nextSeq)
    <3>1. all \in Seq(Seqs) /\ InOrder(all, nextSeq) /\ nextSeq \in Int
      BY <1>4, <2>2
    <3> HIDE DEF all
    <3>2. Ids(all) = (nextSeq - Len(all) + 1) .. nextSeq
      BY <3>1, RunIds
    <3> QED
      BY <3>2 DEF all
  <2>4. nextSeq - (Len(Held) + 1) + 1 = (nextSeq - 1 - Len(Held)) + 1
    BY <1>4
  <2> QED
    BY <2>2, <2>3, <2>4 DEF Confirmed
<1>8. dropped' = dropped \cup (Confirmed + 1 .. Confirmed')
  BY <1>1, <1>3, <1>4, <1>5, <1>6, <1>7
<1>9. DroppedConfirmed'
  <2>1. 1 .. Confirmed \subseteq 1 .. Confirmed' /\ Confirmed + 1 .. Confirmed' \subseteq 1 .. Confirmed'
    BY <1>4, <1>5, <1>6
  <2> QED
    BY <1>8, <2>1 DEF ChannelInv, DroppedConfirmed
<1>10. WireSent'
  BY <1>1, <1>3, <1>4 DEF ChannelInv, WireSent
<1>11. /\ (nextSeq - 1)' = (nextSeq - 1) + 1
       /\ Confirmed' \in Confirmed .. (nextSeq - 1) + 1
  BY <1>1, <1>4, <1>5, <1>6
<1> QED
  BY <1>3, <1>8, <1>9, <1>10, <1>11 DEF Channel!Send, Confirmed

(* AckRead: what leaves _unacked up to the acknowledged tick is not among    *)
(* the dropped, so the consumer has it.                                      *)
LEMMA AckReadStep ==
  ASSUME ChannelInv, AckRead
  PROVE  DroppedConfirmed' /\ WireSent' /\ Channel!Confirm
<1>1. OrderInv /\ OrderInv' /\ nextSeq' = nextSeq /\ unsent' = unsent
  BY AckReadOrder DEF ChannelInv, DeliveryInv
<1>2. PICK k \in 0 .. Len(unacked) :
        Len(unacked') = Len(unacked) - k /\ \A j \in 1 .. k : unacked[j] <= Head(acks)
  BY AckReadOrder DEF ChannelInv, DeliveryInv
<1>3. /\ acks # <<>> /\ Head(acks) \in Seqs
      /\ wire' = wire /\ received' = received /\ dropped' = dropped
  BY DEF AckRead
<1>4. /\ nextSeq \in Nat \ {0} /\ Confirmed \in Int /\ Confirmed \in 0 .. nextSeq - 1
      /\ Len(Held) = Len(unacked) + Len(unsent)
      /\ Len(unacked) \in Nat /\ Len(unsent) \in Nat
  BY <1>1, HeldIs DEF Held, Confirmed, OrderInv, QueuesTyped, QueuesInOrder, Seqs
<1>5. /\ Confirmed' \in Int /\ Confirmed' \in 0 .. nextSeq' - 1
      /\ Len(Held') = Len(unacked') + Len(unsent')
  BY <1>1, HeldIs DEF Held, Confirmed, OrderInv, QueuesTyped, QueuesInOrder, Seqs
<1>6. Confirmed' = Confirmed + k
  BY <1>1, <1>2, <1>4, <1>5 DEF Confirmed
<1>7. Head(acks) \in received
  <2>1. acks \in Seq(Seqs \cup BadAcks)
    BY DEF ChannelInv, DeliveryInv, PeerTyped
  <2>2. Head(acks) = acks[1] /\ 1 \in 1 .. Len(acks)
    BY <1>3, <2>1
  <2> QED
    BY <1>3, <2>2 DEF ChannelInv, DeliveryInv, AcksEarned
<1>8. Confirmed + 1 .. Confirmed' \subseteq received
  <2> SUFFICES ASSUME NEW n \in Confirmed + 1 .. Confirmed' PROVE n \in received
    OBVIOUS
  <2> DEFINE j == n - Confirmed
  <2>1. j \in 1 .. k /\ j \in 1 .. Len(unacked) /\ n \in Nat \ {0}
    BY <1>2, <1>4, <1>5, <1>6
  <2>2. unacked[j] = nextSeq - 1 - Len(unsent) - Len(unacked) + j
    BY <1>1, <2>1 DEF OrderInv, QueuesInOrder, InOrder
  <2>3. unacked[j] = n
    BY <1>4, <2>1, <2>2 DEF Confirmed
  <2>4. n \in 1 .. Head(acks)
    <3>1. n <= Head(acks)
      BY <1>2, <2>1, <2>3
    <3> QED
      BY <1>3, <2>1, <3>1, SeqsAreInts
  <2>5. n \in Got
    BY <1>7, <2>4 DEF ChannelInv, DeliveryInv, NoneBehind
  <2>6. n \notin dropped
    <3>1. n \notin 1 .. Confirmed
      BY <1>4
    <3> QED
      BY <3>1 DEF ChannelInv, DroppedConfirmed
  <2> QED
    BY <2>5, <2>6 DEF Got
<1>9. DroppedConfirmed' /\ WireSent'
  <2>1. 1 .. Confirmed \subseteq 1 .. Confirmed'
    BY <1>2, <1>4, <1>6
  <2> QED
    BY <1>1, <1>3, <2>1 DEF ChannelInv, DroppedConfirmed, WireSent
<1>10. Confirmed' \in Confirmed .. nextSeq - 1
  BY <1>1, <1>2, <1>4, <1>5, <1>6
<1> QED
  BY <1>1, <1>3, <1>8, <1>9, <1>10 DEF Channel!Confirm, Confirmed

(* Receive: what is on the wire has been sent.                               *)
LEMMA ReceiveStep ==
  ASSUME ChannelInv, Receive
  PROVE  DroppedConfirmed' /\ WireSent' /\ Channel!Deliver
<1> DEFINE h == Head(wire)
<1>1. /\ wire # <<>> /\ received' = received \cup {h} /\ wire' = Tail(wire)
      /\ UNCHANGED <<nextSeq, unsent, unacked, dropped>>
  BY DEF Receive, queues
<1>2. /\ wire \in Seq(Seqs) /\ Len(wire) \in Nat \ {0} /\ h = wire[1]
      /\ Len(wire') = Len(wire) - 1
      /\ \A j \in 1 .. Len(wire) - 1 : j + 1 \in 1 .. Len(wire) /\ wire'[j] = wire[j + 1]
  BY <1>1 DEF ChannelInv, DeliveryInv, PeerTyped
<1> HIDE DEF h
<1>3. h \in 1 .. nextSeq - 1
  BY <1>2 DEF ChannelInv, WireSent
<1>4. DroppedConfirmed' /\ WireSent'
  BY <1>1, <1>2 DEF ChannelInv, DroppedConfirmed, WireSent, Confirmed, Held
<1> QED
  BY <1>1, <1>3, <1>4 DEF Channel!Deliver, Held

(* Connect and Write move ticks between the queues, and what is written has  *)
(* been sent.                                                                *)
LEMMA MovesStep ==
  ASSUME ChannelInv, Connect \/ Write
  PROVE  DroppedConfirmed' /\ WireSent' /\ UNCHANGED Channel!channelVars
<1>1. OrderInv /\ OrderInv'
  BY ConnectOrder, WriteOrder DEF ChannelInv, DeliveryInv
<1>2. /\ nextSeq \in Nat \ {0} /\ Len(Held) = Len(unacked) + Len(unsent)
      /\ Len(unacked) \in Nat /\ Len(unsent) \in Nat
  BY <1>1, HeldIs DEF Held, Confirmed, OrderInv, QueuesTyped, QueuesInOrder, Seqs
<1>3. Len(Held') = Len(unacked') + Len(unsent')
  BY <1>1, HeldIs DEF Held, OrderInv, QueuesTyped, QueuesInOrder, Seqs
<1>4. UNCHANGED <<nextSeq, received, dropped>>
  BY DEF Connect, Write, peer
<1>5. Len(Held') = Len(Held)
  <2>1. CASE Connect
    <3>1. unsent' = Held /\ unacked' = <<>>
      BY <2>1 DEF Connect, Requeued, Held
    <3>2. Len(<<>>) = 0 /\ Len(Held) \in Nat
      BY <1>2
    <3> QED
      BY <1>3, <3>1, <3>2
  <2>2. CASE Write
    <3>1. Len(unsent') = Len(unsent) - 1 /\ Len(unacked') = Len(unacked) + 1
      BY <2>2, WriteOrder DEF ChannelInv, DeliveryInv
    <3> QED
      BY <1>2, <1>3, <3>1
  <2> QED
    BY <2>1, <2>2
<1>6. WireSent'
  <2>1. CASE Connect
    BY <1>4, <2>1 DEF ChannelInv, WireSent, Connect, peer
  <2>2. CASE Write
    <3> DEFINE h == Head(unsent)
    <3>1. h = nextSeq - Len(unsent) /\ h \in Seqs /\ Len(unsent') = Len(unsent) - 1
      BY <2>2, WriteOrder DEF ChannelInv, DeliveryInv
    <3>2. h \in 1 .. nextSeq - 1
      <4>1. Len(unsent) > 0
        BY <1>1, <1>2, <3>1 DEF OrderInv, QueuesTyped
      <4> QED
        BY <1>2, <3>1, <4>1 DEF Seqs
    <3>3. wire' = Append(wire, h) /\ wire \in Seq(Seqs)
      BY <2>2 DEF Write, ChannelInv, DeliveryInv, PeerTyped
    <3> HIDE DEF h
    <3>4. \A k \in 1 .. Len(wire') : wire'[k] = h \/ (k \in 1 .. Len(wire) /\ wire'[k] = wire[k])
      BY <3>1, <3>3
    <3> QED
      BY <1>4, <3>2, <3>4 DEF ChannelInv, WireSent
  <2> QED
    BY <2>1, <2>2
<1>7. DroppedConfirmed'
  BY <1>4, <1>5 DEF ChannelInv, DroppedConfirmed, Confirmed
<1> QED
  BY <1>4, <1>5, <1>6, <1>7 DEF Channel!channelVars

(* The others leave the channel alone.                                       *)
LEMMA OtherStep ==
  ASSUME ChannelInv, QueuesUnchanged, UNCHANGED <<dropped, received>>, wire' = wire \/ wire' = <<>>
  PROVE  DroppedConfirmed' /\ WireSent' /\ UNCHANGED Channel!channelVars
<1>1. UNCHANGED <<nextSeq, Held>>
  BY DEF QueuesUnchanged, Held
<1>2. DroppedConfirmed'
  BY <1>1 DEF ChannelInv, DroppedConfirmed, Confirmed
<1>3. WireSent'
  BY <1>1 DEF ChannelInv, WireSent
<1> QED
  BY <1>1, <1>2, <1>3 DEF Channel!channelVars

LEMMA ChannelStep ==
  ChannelInv /\ [Next]_vars => ChannelInv' /\ [Channel!Next]_(Channel!channelVars)
<1> SUFFICES ASSUME ChannelInv, [Next]_vars
             PROVE  ChannelInv' /\ [Channel!Next]_(Channel!channelVars)
  OBVIOUS
<1>0. DeliveryInv'
  BY NextDelivery DEF ChannelInv
<1>1. CASE Send
  BY <1>0, <1>1, SendStep DEF ChannelInv, Channel!Next
<1>2. CASE AckRead
  BY <1>0, <1>2, AckReadStep DEF ChannelInv, Channel!Next
<1>3. CASE Receive
  BY <1>0, <1>3, ReceiveStep DEF ChannelInv, Channel!Next
<1>4. CASE Connect \/ Write
  BY <1>0, <1>4, MovesStep DEF ChannelInv
<1>5. CASE \/ ConnectionLost \/ Stop \/ SendWait \/ SendWake \/ BadAckIgnored \/ BadAckFails
           \/ Acknowledge \/ AcknowledgeBadly \/ UNCHANGED vars
  <2>1. QueuesUnchanged /\ UNCHANGED <<dropped, received>> /\ (wire' = wire \/ wire' = <<>>)
    BY <1>5 DEF QueuesUnchanged, queues, peer, vars, ConnectionLost, Stop, SendWait, SendWake,
                BadAckIgnored, BadAckFails, Acknowledge, AcknowledgeBadly, Closed
  <2> QED
    BY <1>0, <2>1, OtherStep DEF ChannelInv
<1> QED
  BY <1>1, <1>2, <1>3, <1>4, <1>5 DEF Next

(* The sink is the abstract channel: each of its steps, with the buffer, the *)
(* connection and the acknowledgements hidden, takes in a tick and gives up  *)
(* the oldest, delivers one that was sent, confirms what was delivered, or   *)
(* changes nothing.                                                          *)
THEOREM SinkImplementsChannel == Spec => ImplementsChannel
BY ChannelInit, ChannelStep, PTL DEF Spec, ImplementsChannel, Channel!Spec

-----------------------------------------------------------------------------
(* Sums over finite sets.  MapThenSumSet adds the elements in an order of its *)
(* own; whatever that is, any element may be added last.  Induction is over   *)
(* cardinalities, as the least counterexample.                               *)

LEMMA LeastExists ==
  ASSUME NEW S \in SUBSET Nat, S # {}
  PROVE  \E m \in S : \A y \in S : m <= y
<1> DEFINE Less == {p \in Nat \X Nat : p[1] < p[2]}
<1>1. IsWellFoundedOn(Less, Nat)
  BY NatLessThanWellFounded DEF OpToRel
<1> HIDE DEF Less
<1>2. PICK m \in S : \A y \in S : ~ (<<y, m>> \in Less)
  BY <1>1, WFMin
<1>3. ASSUME NEW y \in S
      PROVE  m <= y
  <2>1. m \in Nat /\ y \in Nat /\ ~ (<<y, m>> \in Less)
    BY <1>2
  <2>2. ~ (y < m)
    BY <2>1 DEF Less
  <2> QED
    BY <2>1, <2>2
<1> QED
  BY <1>3

Pick(s) == CHOOSE x \in s : TRUE

\* f[s] is the sum of g over s, for each part s of S.
IsSum(f, g, S) == f = [s \in SUBSET S |-> IF s = {} THEN 0 ELSE g[Pick(s)] + f[s \ {Pick(s)}]]

LEMMA SmallParts ==
  ASSUME NEW S, IsFiniteSet(S), NEW s \in SUBSET S
  PROVE  /\ IsFiniteSet(s) /\ Cardinality(s) \in Nat
         /\ Cardinality(s) = 0 <=> s = {}
         /\ \A x \in s : Cardinality(s \ {x}) = Cardinality(s) - 1 /\ s \ {x} \in SUBSET S
         /\ s # {} => Pick(s) \in s
<1>1. IsFiniteSet(s)
  BY FS_Subset
<1>2. Cardinality(s) \in Nat /\ (Cardinality(s) = 0 <=> s = {})
  BY <1>1, FS_CardinalityType, FS_EmptySet
<1>3. \A x \in s : Cardinality(s \ {x}) = Cardinality(s) - 1
  BY <1>1, FS_RemoveElement
<1>4. s # {} => Pick(s) \in s
  BY DEF Pick
<1> QED
  BY <1>1, <1>2, <1>3, <1>4

LEMMA SumExists ==
  ASSUME NEW S, IsFiniteSet(S), NEW g
  PROVE  \E f : IsSum(f, g, S)
<1> DEFINE Parts(n) == {s \in SUBSET S : Cardinality(s) <= n}
           Upto(f, n) == f = [s \in Parts(n) |->
                                IF s = {} THEN 0 ELSE g[Pick(s)] + f[s \ {Pick(s)}]]
           Without == {n \in Nat : ~ \E f : Upto(f, n)}
<1>1. Without = {}
  <2>1. SUFFICES ASSUME Without # {} PROVE FALSE
    OBVIOUS
  <2>2. PICK n \in Without : \A m \in Without : n <= m
    BY <2>1, LeastExists
  <2>3. n # 0
    <3>1. SUFFICES ASSUME n = 0 PROVE FALSE
      OBVIOUS
    <3>2. \A s \in Parts(0) : s = {}
      BY SmallParts
    <3>3. Upto([s \in Parts(0) |-> 0], 0)
      BY <3>2
    <3> QED
      BY <2>2, <3>1, <3>3
  <2>4. n - 1 \in Nat /\ n - 1 \notin Without
    <3>1. n \in Nat
      BY <2>2
    <3>2. n - 1 \in Nat /\ ~ (n <= n - 1)
      BY <2>3, <3>1
    <3> QED
      BY <2>2, <3>2
  <2>5. PICK h : Upto(h, n - 1)
    BY <2>4
  <2> DEFINE f == [s \in Parts(n) |-> IF s = {} THEN 0 ELSE g[Pick(s)] + h[s \ {Pick(s)}]]
  <2>6. ASSUME NEW s \in Parts(n), s # {}
        PROVE  f[s \ {Pick(s)}] = h[s \ {Pick(s)}]
    <3> DEFINE r == s \ {Pick(s)}
    <3>1. r \in Parts(n - 1) /\ r \in Parts(n)
      <4>1. Cardinality(s) \in Nat /\ Cardinality(r) = Cardinality(s) - 1 /\ r \in SUBSET S /\ n \in Nat
        BY <2>2, <2>6, SmallParts
      <4> HIDE DEF r
      <4> QED
        BY <4>1, <2>6
    <3> HIDE DEF r
    <3>2. f[r] = IF r = {} THEN 0 ELSE g[Pick(r)] + h[r \ {Pick(r)}]
      BY <3>1
    <3> HIDE DEF f
    <3>3. h[r] = IF r = {} THEN 0 ELSE g[Pick(r)] + h[r \ {Pick(r)}]
      BY <2>5, <3>1
    <3>4. f[r] = h[r]
      BY <3>2, <3>3
    <3> QED
      BY <3>4 DEF r
  <2>7. Upto(f, n)
    <3>1. [s \in Parts(n) |-> IF s = {} THEN 0 ELSE g[Pick(s)] + h[s \ {Pick(s)}]]
          = [s \in Parts(n) |-> IF s = {} THEN 0 ELSE g[Pick(s)] + f[s \ {Pick(s)}]]
      <4> HIDE DEF f
      <4> QED
        BY <2>6
    <3> QED
      BY <3>1
  <2> QED
    BY <2>2, <2>7
<1>2. Cardinality(S) \in Nat
  BY FS_CardinalityType
<1>3. PICK f : Upto(f, Cardinality(S))
  BY <1>1, <1>2
<1>4. Parts(Cardinality(S)) = SUBSET S
  BY FS_Subset
<1>5. IsSum(f, g, S)
  BY <1>3, <1>4 DEF IsSum
<1> QED
  BY <1>5

\* Two sums agree where what is added does.
LEMMA SumsAgree ==
  ASSUME NEW S, NEW T, NEW g, NEW h, NEW f, NEW e, IsFiniteSet(S),
         IsSum(f, g, S), IsSum(e, h, T), NEW s, s \in SUBSET S, s \in SUBSET T,
         \A x \in s : g[x] = h[x]
  PROVE  f[s] = e[s]
<1> DEFINE Apart == {n \in Nat : \E r \in SUBSET s : Cardinality(r) = n /\ f[r] # e[r]}
<1>1. SUFFICES ASSUME f[s] # e[s] PROVE FALSE
  OBVIOUS
<1>2. Cardinality(s) \in Apart
  BY <1>1, SmallParts
<1>3. PICK n \in Apart : \A m \in Apart : n <= m
  BY <1>2, LeastExists
<1>4. PICK r \in SUBSET s : Cardinality(r) = n /\ f[r] # e[r]
  BY <1>3
<1>5. /\ f[r] = IF r = {} THEN 0 ELSE g[Pick(r)] + f[r \ {Pick(r)}]
      /\ e[r] = IF r = {} THEN 0 ELSE h[Pick(r)] + e[r \ {Pick(r)}]
  BY DEF IsSum
<1>6. r # {} /\ Pick(r) \in r /\ g[Pick(r)] = h[Pick(r)]
  BY <1>4, <1>5, SmallParts
<1>7. f[r \ {Pick(r)}] # e[r \ {Pick(r)}]
  BY <1>4, <1>5, <1>6
<1>8. Cardinality(r \ {Pick(r)}) = n - 1 /\ n \in Nat /\ n - 1 \in Nat
  <2>1. Cardinality(r) # 0 /\ Cardinality(r) \in Nat /\ Cardinality(r \ {Pick(r)}) = Cardinality(r) - 1
    BY <1>6, SmallParts
  <2> QED
    BY <1>4, <2>1
<1>9. n - 1 \in Apart
  BY <1>6, <1>7, <1>8
<1> QED
  BY <1>3, <1>8, <1>9

\* A sum is a natural number, and any element may be added last.
LEMMA SumIs ==
  ASSUME NEW S, IsFiniteSet(S), NEW g \in [S -> Nat], NEW f, IsSum(f, g, S)
  PROVE  /\ f[{}] = 0
         /\ \A s \in SUBSET S : f[s] \in Nat
         /\ \A s \in SUBSET S : \A x \in s : f[s] = g[x] + f[s \ {x}]
<1>1. \A s \in SUBSET S : f[s] = IF s = {} THEN 0 ELSE g[Pick(s)] + f[s \ {Pick(s)}]
  BY DEF IsSum
<1>2. f[{}] = 0
  BY <1>1
<1>3. ASSUME NEW s \in SUBSET S, f[s] \notin Nat PROVE FALSE
  <2> DEFINE Bad == {n \in Nat : \E r \in SUBSET S : Cardinality(r) = n /\ f[r] \notin Nat}
  <2>1. Cardinality(s) \in Bad
    BY <1>3, SmallParts
  <2>2. PICK n \in Bad : \A m \in Bad : n <= m
    BY <2>1, LeastExists
  <2>3. PICK r \in SUBSET S : Cardinality(r) = n /\ f[r] \notin Nat
    BY <2>2
  <2>4. r # {} /\ Pick(r) \in r /\ Pick(r) \in S
    BY <1>2, <2>3, SmallParts
  <2>5. f[r \ {Pick(r)}] \notin Nat
    <3>1. g[Pick(r)] \in Nat
      BY <2>4
    <3>2. f[r] = g[Pick(r)] + f[r \ {Pick(r)}]
      BY <1>1, <2>3, <2>4
    <3> QED
      BY <2>3, <3>1, <3>2
  <2>6. Cardinality(r \ {Pick(r)}) = n - 1 /\ n \in Nat /\ n - 1 \in Nat /\ r \ {Pick(r)} \in SUBSET S
    <3>1. Cardinality(r) # 0 /\ Cardinality(r) \in Nat /\ Cardinality(r \ {Pick(r)}) = Cardinality(r) - 1
      BY <2>4, SmallParts
    <3> QED
      BY <2>3, <3>1
  <2>7. n - 1 \in Bad
    BY <2>5, <2>6
  <2> QED
    BY <2>2, <2>6, <2>7
<1>4. ASSUME NEW s \in SUBSET S, NEW x \in s, f[s] # g[x] + f[s \ {x}] PROVE FALSE
  <2> DEFINE Bad == {n \in Nat : \E r \in SUBSET S : \E y \in r :
                        Cardinality(r) = n /\ f[r] # g[y] + f[r \ {y}]}
  <2>1. Cardinality(s) \in Bad
    BY <1>4, SmallParts
  <2>2. PICK n \in Bad : \A m \in Bad : n <= m
    BY <2>1, LeastExists
  <2>0. PICK r \in SUBSET S : \E y \in r : Cardinality(r) = n /\ f[r] # g[y] + f[r \ {y}]
    BY <2>2
  <2>3. PICK y \in r : Cardinality(r) = n /\ f[r] # g[y] + f[r \ {y}]
    BY <2>0
  <2> DEFINE p == Pick(r)
             q == r \ {p}
             t == r \ {y}
  <2>4. p \in r /\ f[r] = g[p] + f[q] /\ y # p
    BY <1>1, <2>3, SmallParts
  <2>5. q \in SUBSET S /\ t \in SUBSET S /\ y \in q /\ p \in t /\ q \ {y} = t \ {p}
    BY <2>3, <2>4
  <2>6. Cardinality(q) = n - 1 /\ Cardinality(t) = n - 1 /\ n - 1 \in Nat /\ n \in Nat
    <3>1. Cardinality(r) # 0 /\ Cardinality(r) \in Nat
          /\ Cardinality(q) = Cardinality(r) - 1 /\ Cardinality(t) = Cardinality(r) - 1
      BY <2>3, <2>4, SmallParts
    <3> QED
      BY <2>3, <3>1
  <2>7. n - 1 \notin Bad
    <3>1. ~ (n <= n - 1)
      BY <2>6
    <3> QED
      BY <2>2, <3>1
  <2>8. f[q] = g[y] + f[q \ {y}] /\ f[t] = g[p] + f[t \ {p}]
    BY <2>5, <2>6, <2>7
  <2>9. g[y] \in Nat /\ g[p] \in Nat /\ f[q \ {y}] \in Nat
    BY <1>3, <2>3, <2>4, <2>5
  <2>10. f[r] # g[y] + f[t]
    BY <2>3
  <2>11. f[t \ {p}] = f[q \ {y}]
    BY <2>5
  <2> HIDE DEF p, q, t
  <2>12. f[r] = g[p] + (g[y] + f[q \ {y}])
    BY <2>4, <2>8
  <2>13. f[t] = g[p] + f[q \ {y}]
    BY <2>8, <2>11
  <2>14. g[p] + (g[y] + f[q \ {y}]) = g[y] + (g[p] + f[q \ {y}])
    BY <2>9
  <2> QED
    BY <2>10, <2>12, <2>13, <2>14
<1> QED
  BY <1>2, <1>3, <1>4

-----------------------------------------------------------------------------
(* The byte counter.  Bytes sums over the positions of a queue.              *)

Sizes(q) == [k \in 1 .. Len(q) |-> Size[q[k]]]

LEMMA BytesIs ==
  ASSUME NEW q \in Seq(Seqs)
  PROVE  \E f : IsSum(f, Sizes(q), 1 .. Len(q)) /\ Bytes(q) = f[1 .. Len(q)]
<1> DEFINE S == DOMAIN q
           f == CHOOSE f : f = [s \in SUBSET S |-> IF s = {} THEN 0
                                   ELSE Size[q[Pick(s)]] + f[s \ {Pick(s)}]]
<1>1. S = 1 .. Len(q) /\ IsFiniteSet(S)
  BY FS_Interval
<1>2. PICK h : IsSum(h, Sizes(q), S)
  BY <1>1, SumExists
<1>3. ASSUME NEW e
      PROVE  IsSum(e, Sizes(q), S) <=>
             e = [s \in SUBSET S |-> IF s = {} THEN 0 ELSE Size[q[Pick(s)]] + e[s \ {Pick(s)}]]
  <2>1. \A s \in SUBSET S : s # {} => Sizes(q)[Pick(s)] = Size[q[Pick(s)]]
    BY <1>1 DEF Pick, Sizes
  <2> HIDE DEF S
  <2>2. [s \in SUBSET S |-> IF s = {} THEN 0 ELSE Size[q[Pick(s)]] + e[s \ {Pick(s)}]]
        = [s \in SUBSET S |-> IF s = {} THEN 0 ELSE Sizes(q)[Pick(s)] + e[s \ {Pick(s)}]]
    BY <2>1
  <2> QED
    BY <2>2 DEF IsSum
<1>4. IsSum(f, Sizes(q), S)
  BY <1>2, <1>3
<1>5. Bytes(q) = f[S]
  BY Zenon DEF Bytes, MapThenSumSet, MapThenFoldSet, Pick
<1> QED
  BY <1>1, <1>4, <1>5

LEMMA SizesTyped ==
  ASSUME NEW q \in Seq(Seqs)
  PROVE  /\ Sizes(q) \in [1 .. Len(q) -> Nat] /\ IsFiniteSet(1 .. Len(q)) /\ Len(q) \in Nat
         /\ \A k \in 1 .. Len(q) : q[k] \in Seqs /\ Sizes(q)[k] = Size[q[k]]
<1>1. Len(q) \in Nat /\ \A k \in 1 .. Len(q) : q[k] \in Seqs
  OBVIOUS
<1>2. \A n \in Seqs : Size[n] \in Nat
  BY SinkAssumption
<1>3. IsFiniteSet(1 .. Len(q))
  BY <1>1, FS_Interval
<1> QED
  BY <1>1, <1>2, <1>3 DEF Sizes

LEMMA BytesTyped ==
  /\ Bytes(<<>>) = 0
  /\ \A q \in Seq(Seqs) : Bytes(q) \in Nat
<1>1. ASSUME NEW q \in Seq(Seqs) PROVE Bytes(q) \in Nat /\ (q = <<>> => Bytes(q) = 0)
  <2>1. PICK f : IsSum(f, Sizes(q), 1 .. Len(q)) /\ Bytes(q) = f[1 .. Len(q)]
    BY BytesIs
  <2>2. f[{}] = 0 /\ f[1 .. Len(q)] \in Nat
    BY <2>1, SizesTyped, SumIs
  <2>3. q = <<>> => 1 .. Len(q) = {}
    OBVIOUS
  <2> QED
    BY <2>1, <2>2, <2>3
<1>2. <<>> \in Seq(Seqs)
  OBVIOUS
<1> QED
  BY <1>1, <1>2

(* A queue with one more entry takes up the size of that entry more.         *)
LEMMA BytesOneMore ==
  ASSUME NEW p \in Seq(Seqs), NEW q \in Seq(Seqs), Len(q) = Len(p) + 1,
         \A k \in 1 .. Len(p) : q[k] = p[k]
  PROVE  Bytes(q) = Bytes(p) + Size[q[Len(q)]]
<1> DEFINE n == Len(p)
           m == Len(q)
<1>1. PICK f : IsSum(f, Sizes(q), 1 .. m) /\ Bytes(q) = f[1 .. m]
  BY BytesIs
<1>2. PICK e : IsSum(e, Sizes(p), 1 .. n) /\ Bytes(p) = e[1 .. n]
  BY BytesIs
<1>3. n \in Nat /\ m = n + 1 /\ m \in 1 .. m /\ (1 .. m) \ {m} = 1 .. n /\ 1 .. n \subseteq 1 .. m
  BY SizesTyped
<1>4. f[1 .. m] = Sizes(q)[m] + f[1 .. n]
  <2> DEFINE M == 1 .. m
             N == 1 .. n
             g == Sizes(q)
  <2>1. g \in [M -> Nat] /\ IsFiniteSet(M) /\ M \in SUBSET M /\ m \in M /\ M \ {m} = N
    BY <1>3, SizesTyped
  <2>2. IsSum(f, g, M)
    BY <1>1
  <2> HIDE DEF M, N, g, m, n
  <2>3. f[M] = g[m] + f[M \ {m}]
    BY <2>1, <2>2, SumIs
  <2> QED
    BY <2>1, <2>3 DEF M, N, g
<1>5. \A k \in 1 .. n : Sizes(q)[k] = Sizes(p)[k]
  BY <1>3, SizesTyped
<1>6. f[1 .. n] = e[1 .. n]
  <2> DEFINE M == 1 .. m
             N == 1 .. n
             g == Sizes(q)
             h == Sizes(p)
  <2>1. IsFiniteSet(M) /\ N \in SUBSET N /\ N \in SUBSET M /\ \A x \in N : g[x] = h[x]
    BY <1>3, <1>5, SizesTyped
  <2>2. IsSum(f, g, M) /\ IsSum(e, h, N)
    BY <1>1, <1>2
  <2> HIDE DEF M, N, g, h, m, n
  <2>3. f[N] = e[N]
    <3>1. \A x \in N : g[x] = h[x]
      BY <2>1
    <3>2. IsFiniteSet(M) /\ N \in SUBSET N /\ N \in SUBSET M
      BY <2>1
    <3> QED
      BY <2>2, <3>1, <3>2, SumsAgree
  <2> QED
    BY <2>3 DEF N
<1>7. Sizes(q)[m] = Size[q[m]] /\ Sizes(q)[m] \in Nat /\ e[1 .. n] \in Nat
  BY <1>2, <1>3, SizesTyped, BytesTyped
<1> QED
  BY <1>1, <1>2, <1>4, <1>6, <1>7

(* The parts of a queue.                                                     *)
LEMMA Parts ==
  ASSUME NEW q \in Seq(Seqs), NEW k \in 0 .. Len(q)
  PROVE  /\ First(q, k) \in Seq(Seqs) /\ Len(First(q, k)) = k
         /\ \A j \in 1 .. k : First(q, k)[j] = q[j]
         /\ After(q, k) \in Seq(Seqs) /\ Len(After(q, k)) = Len(q) - k
         /\ \A j \in 1 .. Len(q) - k : After(q, k)[j] = q[k + j]
<1>1. Len(q) \in Nat /\ k \in Nat
  OBVIOUS
<1>2. First(q, k) \in Seq(Seqs) /\ Len(First(q, k)) = k /\ \A j \in 1 .. k : First(q, k)[j] = q[j]
  BY <1>1 DEF First
<1>3. /\ After(q, k) \in Seq(Seqs) /\ Len(After(q, k)) = Len(q) - k
      /\ \A j \in 1 .. Len(q) - k : After(q, k)[j] = q[k + j]
  BY <1>1 DEF After
<1> QED
  BY <1>2, <1>3

(* What is taken off the front and what is left add up.                      *)
LEMMA BytesSplit ==
  ASSUME NEW q \in Seq(Seqs), NEW k \in 0 .. Len(q)
  PROVE  Bytes(q) = Bytes(First(q, k)) + Bytes(After(q, k))
<1> DEFINE a == After(q, k)
           Splits(n) == Bytes(First(q, k + n)) = Bytes(First(q, k)) + Bytes(First(a, n))
           Not == {n \in Nat : n <= Len(q) - k /\ ~Splits(n)}
<1>1. /\ Len(q) \in Nat /\ k \in Nat /\ Len(q) - k \in Nat
      /\ a \in Seq(Seqs) /\ Len(a) = Len(q) - k
      /\ \A j \in 1 .. Len(q) - k : a[j] = q[k + j]
  BY Parts
<1> HIDE DEF a
<1>2. Not = {}
  <2>1. SUFFICES ASSUME Not # {} PROVE FALSE
    OBVIOUS
  <2>2. PICK n \in Not : \A m \in Not : n <= m
    BY <2>1, LeastExists
  <2>3. n \in Nat /\ n <= Len(q) - k /\ ~Splits(n)
    BY <2>2
  <2>4. CASE n = 0
    <3>1. First(a, 0) \in Seq(Seqs) /\ Len(First(a, 0)) = 0
      BY <1>1, Parts
    <3>2. First(a, 0) = <<>>
      BY <3>1
    <3>3. Bytes(First(q, k)) \in Nat /\ Bytes(First(a, 0)) = 0
      BY <3>2, Parts, BytesTyped
    <3>4. k + 0 = k
      BY <1>1
    <3> QED
      BY <2>3, <2>4, <3>3, <3>4
  <2>5. CASE n # 0
    <3> DEFINE l == n - 1
    <3>1. l \in Nat /\ l <= Len(q) - k /\ ~(n <= l) /\ k + n = (k + l) + 1 /\ n = l + 1
      BY <1>1, <2>3, <2>5
    <3> HIDE DEF l
    <3>2. Splits(l)
      BY <2>2, <3>1
    <3>3. Bytes(First(q, k + n)) = Bytes(First(q, k + l)) + Size[q[k + n]]
      <4> DEFINE u == First(q, k + n)
                 v == First(q, k + l)
      <4>1. k + n \in 0 .. Len(q) /\ k + l \in 0 .. Len(q)
        BY <1>1, <2>3, <3>1
      <4>2. /\ u \in Seq(Seqs) /\ Len(u) = k + n /\ \A j \in 1 .. k + n : u[j] = q[j]
            /\ v \in Seq(Seqs) /\ Len(v) = k + l /\ \A j \in 1 .. k + l : v[j] = q[j]
        BY <4>1, Parts
      <4> HIDE DEF u, v
      <4>3. Len(u) = Len(v) + 1 /\ (\A j \in 1 .. Len(v) : u[j] = v[j]) /\ u[Len(u)] = q[k + n]
        BY <1>1, <2>3, <3>1, <4>2
      <4>4. Bytes(u) = Bytes(v) + Size[u[Len(u)]]
        BY <4>2, <4>3, BytesOneMore
      <4> QED
        BY <4>3, <4>4 DEF u, v
    <3>4. Bytes(First(a, n)) = Bytes(First(a, l)) + Size[q[k + n]]
      <4> DEFINE u == First(a, n)
                 v == First(a, l)
      <4>1. n \in 0 .. Len(a) /\ l \in 0 .. Len(a)
        BY <1>1, <2>3, <3>1
      <4>2. /\ u \in Seq(Seqs) /\ Len(u) = n /\ \A j \in 1 .. n : u[j] = a[j]
            /\ v \in Seq(Seqs) /\ Len(v) = l /\ \A j \in 1 .. l : v[j] = a[j]
        BY <1>1, <4>1, Parts
      <4> HIDE DEF u, v
      <4>3. Len(u) = Len(v) + 1 /\ (\A j \in 1 .. Len(v) : u[j] = v[j]) /\ u[Len(u)] = q[k + n]
        <5>1. Len(u) = Len(v) + 1 /\ Len(v) \in Nat /\ \A j \in 1 .. Len(v) : j \in 1 .. n
          BY <3>1, <4>2
        <5>2. n \in 1 .. n /\ n \in 1 .. Len(q) - k
          BY <1>1, <2>3, <3>1
        <5> QED
          BY <1>1, <4>2, <5>1, <5>2
      <4>4. Bytes(u) = Bytes(v) + Size[u[Len(u)]]
        BY <4>2, <4>3, BytesOneMore
      <4> QED
        BY <4>3, <4>4 DEF u, v
    <3>5. /\ Bytes(First(q, k)) \in Nat /\ Bytes(First(a, l)) \in Nat
          /\ Size[q[k + n]] \in Nat
      <4>1. l \in 0 .. Len(a) /\ k + n \in 1 .. Len(q)
        BY <1>1, <2>3, <3>1
      <4>2. First(q, k) \in Seq(Seqs) /\ First(a, l) \in Seq(Seqs)
        BY <1>1, <4>1, Parts
      <4>3. q[k + n] \in Seqs
        BY <4>1
      <4>4. Size[q[k + n]] \in Nat
        BY <4>3, SinkAssumption
      <4> QED
        BY <4>2, <4>4, BytesTyped
    <3>6. Bytes(First(q, k + n)) = Bytes(First(q, k)) + Bytes(First(a, n))
      BY <3>2, <3>3, <3>4, <3>5
    <3> QED
      BY <2>3, <3>6
  <2> QED
    BY <2>4, <2>5
<1> DEFINE n == Len(q) - k
<1>3. Splits(n)
  <2>1. n \in Nat /\ n <= Len(q) - k
    BY <1>1
  <2> HIDE DEF n
  <2> QED
    BY <1>2, <2>1
<1>4. First(q, k + n) = q /\ First(a, n) = a
  <2>1. ASSUME NEW s \in Seq(Seqs) PROVE First(s, Len(s)) = s
    <3>1. Len(s) \in 0 .. Len(s)
      OBVIOUS
    <3>2. /\ First(s, Len(s)) \in Seq(Seqs) /\ Len(First(s, Len(s))) = Len(s)
          /\ \A j \in 1 .. Len(s) : First(s, Len(s))[j] = s[j]
      BY <3>1, Parts
    <3> QED
      BY <3>2, SeqEqual
  <2>2. k + n = Len(q) /\ n = Len(a)
    BY <1>1
  <2> QED
    BY <1>1, <2>1, <2>2
<1> QED
  BY <1>3, <1>4 DEF a

(* A run is settled by its length and its last number.                       *)
LEMMA SameRun ==
  ASSUME NEW p \in Seq(Seqs), NEW q \in Seq(Seqs), NEW last \in Int,
         InOrder(p, last), InOrder(q, last), Len(p) = Len(q)
  PROVE  p = q
<1>1. \A k \in 1 .. Len(p) : p[k] = q[k]
  BY DEF InOrder
<1> QED
  BY <1>1, SeqEqual

\* What the counter says is what is held, within the cap, and what is held is
\* one run.
CountInv == OrderInv /\ BufferAccounted

LEMMA CountInit == Init => CountInv
<1> SUFFICES ASSUME Init PROVE CountInv
  OBVIOUS
<1>1. buffered = 0 /\ MaxBufferBytes \in Nat
  BY SinkAssumption DEF Init
<1>2. Held = <<>>
  <2>1. <<>> \o <<>> = <<>>
    OBVIOUS
  <2> QED
    BY <2>1 DEF Init, Held
<1> QED
  BY <1>1, <1>2, BytesTyped, OrderInit DEF CountInv, BufferAccounted

(* send: what is evicted leaves the counter as it leaves the queue.          *)
LEMMA SendCount ==
  ASSUME CountInv, Send
  PROVE  BufferAccounted'
<1> DEFINE all == Append(Held, nextSeq)
           longer == Append(unsent, nextSeq)
           size == buffered + Size[nextSeq]
<1>1. /\ OrderInv /\ OrderInv' /\ nextSeq \in Seqs /\ nextSeq \in Int /\ nextSeq' - 1 = nextSeq
      /\ buffered = Bytes(Held)
  BY SendOrder, SinkAssumption DEF CountInv, BufferAccounted, Seqs
<1>2. /\ Held \in Seq(Seqs) /\ Len(Held) = Len(unacked) + Len(unsent) /\ InOrder(Held, nextSeq - 1)
      /\ Len(unacked) \in Nat /\ Len(unsent) \in Nat
  BY <1>1, HeldRun DEF OrderInv, QueuesTyped
<1>3. /\ all \in Seq(Seqs) /\ Len(all) = Len(Held) + 1 /\ InOrder(all, nextSeq)
      /\ all[Len(all)] = nextSeq /\ \A k \in 1 .. Len(Held) : all[k] = Held[k]
  BY <1>1, <1>2, AppendInOrder
<1>4. PICK k \in 0 .. Len(all) :
        /\ Fits(all, size, k)
        /\ unacked' = LeftBehind(unacked, longer, k)[1]
        /\ unsent' = LeftBehind(unacked, longer, k)[2]
        /\ buffered' = size - Bytes(First(all, k))
  <2>1. PICK k \in Evictions(all, size) :
          /\ unacked' = LeftBehind(unacked, longer, k)[1]
          /\ unsent' = LeftBehind(unacked, longer, k)[2]
          /\ buffered' = size - Bytes(First(all, k))
    BY Zenon DEF Send
  <2> HIDE DEF all, longer, size
  <2> QED
    BY <2>1 DEF Evictions
<1>5. size = Bytes(all)
  BY <1>1, <1>2, <1>3, BytesOneMore
<1> HIDE DEF all, size
<1>6. Held' = After(all, k)
  <2>1. longer \in Seq(Seqs) /\ Len(longer) = Len(unsent) + 1 /\ InOrder(longer, nextSeq)
    BY <1>1, AppendInOrder DEF OrderInv, QueuesTyped, QueuesInOrder
  <2>2. InOrder(unacked, nextSeq - Len(longer)) /\ unacked \in Seq(Seqs)
    <3>1. nextSeq - Len(longer) = nextSeq - 1 - Len(unsent)
      BY <1>1, <1>2, <2>1
    <3> QED
      BY <1>1, <3>1 DEF OrderInv, QueuesTyped, QueuesInOrder
  <2> HIDE DEF longer
  <2>3. k \in 0 .. Len(unacked) + Len(longer)
    BY <1>2, <1>3, <2>1
  <2>4. Len(unacked') + Len(unsent') = Len(unacked) + Len(longer) - k
    BY <1>1, <1>4, <2>1, <2>2, <2>3, LeftBehindInOrder
  <2>5. /\ Held' \in Seq(Seqs) /\ InOrder(Held', nextSeq)
        /\ Len(Held') = Len(unacked') + Len(unsent')
    <3> DEFINE h == unacked' \o unsent'
    <3>1. /\ unacked' \in Seq(Seqs) /\ unsent' \in Seq(Seqs) /\ nextSeq' \in Int
          /\ InOrder(unsent', nextSeq' - 1) /\ InOrder(unacked', nextSeq' - 1 - Len(unsent'))
      BY <1>1, SinkAssumption DEF OrderInv, QueuesTyped, QueuesInOrder
    <3>2. h \in Seq(Seqs) /\ Len(h) = Len(unacked') + Len(unsent') /\ InOrder(h, nextSeq' - 1)
      BY <3>1, ConcatRun
    <3> QED
      BY <1>1, <3>2 DEF Held
  <2>6. /\ After(all, k) \in Seq(Seqs) /\ Len(After(all, k)) = Len(all) - k
        /\ InOrder(After(all, k), nextSeq)
    BY <1>1, <1>3, AfterInOrder
  <2>7. Len(Held') = Len(After(all, k))
    BY <1>2, <1>3, <2>1, <2>4, <2>5, <2>6
  <2> QED
    BY <1>1, <2>5, <2>6, <2>7, SameRun
<1>7. Bytes(all) = Bytes(First(all, k)) + Bytes(Held')
  BY <1>3, <1>6, BytesSplit
<1>8. Bytes(First(all, k)) \in Nat /\ Bytes(Held') \in Nat
  BY <1>3, <1>6, Parts, BytesTyped
<1>9. buffered' = Bytes(Held')
  BY <1>4, <1>5, <1>7, <1>8
<1>10. buffered' <= MaxBufferBytes
  BY <1>4, Zenon DEF Fits
<1> QED
  BY <1>9, <1>10 DEF BufferAccounted

(* AckRead: what is popped off _unacked is the front of what is held.        *)
LEMMA AckReadCount ==
  ASSUME CountInv, AckRead
  PROVE  BufferAccounted'
<1>1. /\ OrderInv /\ OrderInv' /\ nextSeq' = nextSeq /\ unsent' = unsent /\ nextSeq - 1 \in Int
      /\ buffered = Bytes(Held) /\ buffered <= MaxBufferBytes /\ MaxBufferBytes \in Nat
  BY AckReadOrder, SinkAssumption DEF CountInv, BufferAccounted, OrderInv, QueuesTyped
<1>2. PICK k \in 0 .. Len(unacked) : /\ unacked' = After(unacked, k)
                                     /\ buffered' = buffered - Bytes(First(unacked, k))
  BY DEF AckRead, Acknowledged
<1>3. /\ Held \in Seq(Seqs) /\ Len(Held) = Len(unacked) + Len(unsent) /\ InOrder(Held, nextSeq - 1)
      /\ Held' \in Seq(Seqs) /\ Len(Held') = Len(unacked') + Len(unsent)
      /\ InOrder(Held', nextSeq - 1)
      /\ unacked \in Seq(Seqs) /\ unsent \in Seq(Seqs)
      /\ Len(unacked) \in Nat /\ Len(unsent) \in Nat
  <2>1. /\ Held' \in Seq(Seqs) /\ Len(Held') = Len(unacked') + Len(unsent')
        /\ InOrder(Held', nextSeq' - 1)
    <3> DEFINE h == unacked' \o unsent'
    <3>1. /\ unacked' \in Seq(Seqs) /\ unsent' \in Seq(Seqs) /\ nextSeq' \in Int
          /\ InOrder(unsent', nextSeq' - 1) /\ InOrder(unacked', nextSeq' - 1 - Len(unsent'))
      BY <1>1, SinkAssumption DEF OrderInv, QueuesTyped, QueuesInOrder
    <3>2. h \in Seq(Seqs) /\ Len(h) = Len(unacked') + Len(unsent') /\ InOrder(h, nextSeq' - 1)
      BY <3>1, ConcatRun
    <3> QED
      BY <3>2 DEF Held
  <2> QED
    BY <1>1, <2>1, HeldRun DEF OrderInv, QueuesTyped
<1>4. k \in 0 .. Len(Held) /\ k \in Nat
  BY <1>3
<1>5. Held' = After(Held, k)
  <2>1. /\ After(Held, k) \in Seq(Seqs) /\ Len(After(Held, k)) = Len(Held) - k
        /\ InOrder(After(Held, k), nextSeq - 1)
    BY <1>1, <1>3, <1>4, AfterInOrder
  <2>2. Len(unacked') = Len(unacked) - k
    BY <1>2, <1>3, Parts
  <2>3. Len(Held') = Len(After(Held, k))
    BY <1>3, <1>4, <2>1, <2>2
  <2> QED
    BY <1>1, <1>3, <2>1, <2>3, SameRun
<1>6. First(unacked, k) = First(Held, k)
  <2>1. /\ First(unacked, k) \in Seq(Seqs) /\ Len(First(unacked, k)) = k
        /\ \A j \in 1 .. k : First(unacked, k)[j] = unacked[j]
    BY <1>3, Parts
  <2>2. /\ First(Held, k) \in Seq(Seqs) /\ Len(First(Held, k)) = k
        /\ \A j \in 1 .. k : First(Held, k)[j] = Held[j]
    BY <1>3, <1>4, Parts
  <2>3. \A j \in 1 .. k : Held[j] = unacked[j]
    BY <1>3, <1>4 DEF Held
  <2> QED
    BY <2>1, <2>2, <2>3, SeqEqual
<1>7. Bytes(Held) = Bytes(First(Held, k)) + Bytes(Held')
  BY <1>3, <1>4, <1>5, BytesSplit
<1>8. Bytes(First(Held, k)) \in Nat /\ Bytes(Held') \in Nat
  BY <1>3, <1>4, Parts, BytesTyped
<1>9. buffered' = Bytes(Held') /\ buffered' <= MaxBufferBytes
  BY <1>1, <1>2, <1>6, <1>7, <1>8
<1> QED
  BY <1>9 DEF BufferAccounted

(* Connect and Write move entries between the queues; the rest leaves both   *)
(* alone.                                                                    *)
LEMMA MovesCount ==
  ASSUME CountInv, Connect \/ Write
  PROVE  BufferAccounted'
<1>0. OrderInv /\ OrderInv' /\ nextSeq' = nextSeq /\ buffered' = buffered
  BY ConnectOrder, WriteOrder DEF CountInv, Connect, Write
<1>1. OrderInv /\ OrderInv' /\ nextSeq' = nextSeq /\ buffered' = buffered /\ nextSeq - 1 \in Int
  BY <1>0 DEF OrderInv, QueuesTyped
<1>2. /\ Held \in Seq(Seqs) /\ Len(Held) = Len(unacked) + Len(unsent) /\ InOrder(Held, nextSeq - 1)
      /\ Len(unacked) \in Nat /\ Len(unsent) \in Nat
  BY <1>1, HeldRun DEF OrderInv, QueuesTyped
<1>3. CASE Connect
  <2>1. unsent' = Held /\ unacked' = <<>>
    BY <1>3 DEF Connect, Requeued, Held
  <2>2. <<>> \o Held = Held
    BY <1>2
  <2>3. Held' = Held
    BY <2>1, <2>2 DEF Held
  <2> QED
    BY <1>1, <2>3 DEF CountInv, BufferAccounted
<1>4. CASE Write
  <2> DEFINE h == unacked' \o unsent'
  <2>1. /\ unacked' \in Seq(Seqs) /\ unsent' \in Seq(Seqs) /\ nextSeq' \in Int
        /\ InOrder(unsent', nextSeq' - 1) /\ InOrder(unacked', nextSeq' - 1 - Len(unsent'))
    BY <1>1, SinkAssumption DEF OrderInv, QueuesTyped, QueuesInOrder
  <2>2. h \in Seq(Seqs) /\ Len(h) = Len(unacked') + Len(unsent') /\ InOrder(h, nextSeq' - 1)
    BY <2>1, ConcatRun
  <2> HIDE DEF h
  <2>3. Len(h) = Len(Held)
    BY <1>2, <1>4, <2>2, WriteOrder DEF CountInv
  <2>4. h = Held
    BY <1>1, <1>2, <2>2, <2>3, SameRun
  <2>5. Held' = Held
    BY <2>4 DEF h, Held
  <2> QED
    BY <1>1, <2>5 DEF CountInv, BufferAccounted
<1> QED
  BY <1>3, <1>4

LEMMA NextCount == CountInv /\ [Next]_vars => CountInv'
<1> SUFFICES ASSUME CountInv, [Next]_vars PROVE CountInv'
  OBVIOUS
<1>1. OrderInv'
  BY NextOrder DEF CountInv
<1>2. CASE Send
  BY <1>1, <1>2, SendCount DEF CountInv
<1>3. CASE AckRead
  BY <1>1, <1>3, AckReadCount DEF CountInv
<1>4. CASE Connect \/ Write
  BY <1>1, <1>4, MovesCount DEF CountInv
<1>5. CASE \/ ConnectionLost \/ Stop \/ SendWait \/ SendWake \/ BadAckIgnored \/ BadAckFails
           \/ Receive \/ Acknowledge \/ AcknowledgeBadly \/ UNCHANGED vars
  <2>1. UNCHANGED <<unsent, unacked, buffered>>
    BY <1>5 DEF queues, vars, ConnectionLost, Stop, SendWait, SendWake,
                BadAckIgnored, BadAckFails, Receive, Acknowledge, AcknowledgeBadly
  <2>2. BufferAccounted'
    BY <2>1 DEF CountInv, BufferAccounted, Held
  <2> QED
    BY <1>1, <2>2 DEF CountInv
<1> QED
  BY <1>2, <1>3, <1>4, <1>5 DEF Next

(* The counter that decides on evictions is the size of what is held, and    *)
(* within the cap, whatever the sizes are.                                   *)
THEOREM BufferAlwaysAccounted == Spec => []BufferAccounted
<1>1. CountInv => BufferAccounted
  BY DEF CountInv
<1> QED
  BY <1>1, CountInit, NextCount, PTL DEF Spec

-----------------------------------------------------------------------------
(* The rest of the state.                                                    *)

Rest ==
    /\ hasData \in BOOLEAN /\ waiting \in BOOLEAN
    /\ run \in {"connecting", "connected", "failed", "stopped"}
    /\ faults \in [{"loss", "bad ack", "stop"} -> Nat]

TypeInv == CountInv /\ ChannelInv /\ Rest

LEMMA RestStep ==
  ASSUME Rest, [Next]_vars
  PROVE  Rest'
<1>0. \A n \in Nat : n + 1 \in Nat
  OBVIOUS
<1>1. ASSUME NEW f \in {"loss", "bad ack", "stop"}, NEW m \in Nat, Fault(f, m)
      PROVE  faults' \in [{"loss", "bad ack", "stop"} -> Nat]
  <2> DEFINE F == {"loss", "bad ack", "stop"}
  <2>1. faults \in [F -> Nat] /\ f \in F /\ faults' = [faults EXCEPT ![f] = @ + 1]
    BY <1>1 DEF Fault, Rest
  <2> HIDE DEF F
  <2>3. faults' \in [F -> Nat]
    BY <1>0, <2>1, Zenon
  <2> QED
    BY <2>3 DEF F
<1>2. MaxLosses \in Nat /\ MaxStops \in Nat /\ MaxBadAcks \in Nat
  BY SinkAssumption
<1>3. CASE Send
  BY <1>3 DEF Rest, Send, Woken
<1>4. CASE Connect
  BY <1>4 DEF Rest, Connect
<1>5. CASE ConnectionLost
  BY <1>1, <1>2, <1>5 DEF Rest, ConnectionLost, Closed
<1>6. CASE Stop
  BY <1>1, <1>2, <1>6 DEF Rest, Stop, Closed
<1>7. CASE SendWait \/ SendWake
  BY <1>7 DEF Rest, SendWait, SendWake
<1>8. CASE AcknowledgeBadly
  BY <1>1, <1>2, <1>8 DEF Rest, AcknowledgeBadly
<1>9. CASE BadAckFails
  BY <1>9 DEF Rest, BadAckFails, Closed
<1>10. CASE Write \/ AckRead \/ BadAckIgnored \/ Receive \/ Acknowledge \/ UNCHANGED vars
  BY <1>10 DEF Rest, Write, AckRead, BadAckIgnored, Receive, Acknowledge, vars
<1> QED
  BY <1>3, <1>4, <1>5, <1>6, <1>7, <1>8, <1>9, <1>10 DEF Next

LEMMA TypeInvTypes == TypeInv => TypeOK
<1> SUFFICES ASSUME TypeInv PROVE TypeOK
  OBVIOUS
<1>1. /\ nextSeq \in 1 .. MaxSeq + 1 /\ unsent \in Seq(Seqs) /\ unacked \in Seq(Seqs)
  BY DEF TypeInv, CountInv, OrderInv, QueuesTyped
<1>2. buffered \in Nat
  BY HeldRun, BytesTyped DEF TypeInv, CountInv, BufferAccounted
<1>3. wire \in Seq(Seqs) /\ received \subseteq Seqs /\ acks \in Seq(Seqs \cup BadAcks)
  BY DEF TypeInv, ChannelInv, DeliveryInv, PeerTyped
<1>4. dropped \subseteq Seqs
  <2>1. Confirmed \in 0 .. nextSeq - 1
    BY <1>1, HeldIs, SinkAssumption
       DEF Held, Confirmed, TypeInv, CountInv, OrderInv, QueuesTyped, QueuesInOrder
  <2>2. 1 .. Confirmed \subseteq Seqs
    BY <1>1, <2>1, SinkAssumption DEF Seqs
  <2> QED
    BY <2>2 DEF TypeInv, ChannelInv, DroppedConfirmed
<1> QED
  BY <1>1, <1>2, <1>3, <1>4 DEF TypeOK, TypeInv, Rest

(* Every variable keeps its type.                                            *)
THEOREM TypeCorrect == Spec => []TypeOK
<1>1. Init => TypeInv
  <2>1. Init => Rest
    <3>1. Init => faults \in [{"loss", "bad ack", "stop"} -> Nat]
      <4> DEFINE F == {"loss", "bad ack", "stop"}
      <4> HIDE DEF F
      <4>1. [f \in F |-> 0] \in [F -> Nat]
        OBVIOUS
      <4> QED
        BY <4>1, Zenon DEF Init, F
    <3> QED
      BY <3>1 DEF Init, Rest
  <2> QED
    BY <2>1, CountInit, ChannelInit DEF TypeInv
<1>2. TypeInv /\ [Next]_vars => TypeInv'
  BY NextCount, ChannelStep, RestStep DEF TypeInv
<1> QED
  BY <1>1, <1>2, TypeInvTypes, PTL DEF Spec

=============================================================================
