----------------------------- MODULE IngestProofs -----------------------------
(***************************************************************************)
(* For every number of trades, every cap of either queue and every number   *)
(* of faults: what the exchange trades is on its way, with the broker or    *)
(* given up for a known reason, and a subscriber that keeps only the        *)
(* highest id processes what its session kept, once and in order.           *)
(*                                                                          *)
(* The inductive invariant follows an id.  Up to the broker ids ascend in   *)
(* the direction of travel, above all the broker got, except for those that *)
(* are sent again, and those the broker got before.  In the session an id   *)
(* can stand behind a larger one only when it was processed or refused      *)
(* before or stands in front of that one too: so what the subscriber finds  *)
(* at or below its mark it has processed, in this life or an earlier one.   *)
(***************************************************************************)
EXTENDS Ingest, SequenceTheorems, TLAPS

USE IngestAssumption

-----------------------------------------------------------------------------
(* Sequences.                                                                *)

LEMMA TailIs ==
    ASSUME NEW S, NEW q \in Seq(S), q # <<>>
    PROVE  /\ Head(q) \in S /\ Head(q) = q[1] /\ Tail(q) \in Seq(S)
           /\ Len(q) \in Nat \ {0} /\ Len(Tail(q)) = Len(q) - 1
           /\ DOMAIN q = 1 .. Len(q) /\ DOMAIN Tail(q) = 1 .. Len(q) - 1
           /\ \A k \in 1 .. Len(q) - 1 : k + 1 \in 1 .. Len(q) /\ Tail(q)[k] = q[k + 1]
OBVIOUS

LEMMA AppendIs ==
    ASSUME NEW S, NEW q \in Seq(S), NEW x \in S
    PROVE  /\ Append(q, x) \in Seq(S) /\ Len(Append(q, x)) = Len(q) + 1 /\ Len(q) \in Nat
           /\ DOMAIN q = 1 .. Len(q) /\ DOMAIN Append(q, x) = 1 .. Len(q) + 1
           /\ \A k \in 1 .. Len(q) : Append(q, x)[k] = q[k]
           /\ Append(q, x)[Len(q) + 1] = x
OBVIOUS

LEMMA InRange ==
    ASSUME NEW q, NEW x
    PROVE  x \in Range(q) <=> \E k \in DOMAIN q : q[k] = x
BY Zenon DEF Range

LEMMA RangeIs ==
    ASSUME NEW S, NEW q \in Seq(S)
    PROVE  /\ Range(q) \subseteq S
           /\ q # <<>> => Range(q) = {Head(q)} \cup Range(Tail(q))
           /\ \A x \in S : Range(Append(q, x)) = Range(q) \cup {x}
<1>1. DOMAIN q = 1 .. Len(q) /\ \A k \in 1 .. Len(q) : q[k] \in S
  OBVIOUS
<1>2. ASSUME q # <<>> PROVE Range(q) = {Head(q)} \cup Range(Tail(q))
  <2> DEFINE t == Tail(q)
  <2>1. /\ Head(q) = q[1] /\ Len(q) \in Nat \ {0} /\ DOMAIN t = 1 .. Len(q) - 1
        /\ \A k \in 1 .. Len(q) - 1 : k + 1 \in 1 .. Len(q) /\ t[k] = q[k + 1]
    BY <1>2, TailIs
  <2> HIDE DEF t
  <2>2. ASSUME NEW x \in Range(q) PROVE x = q[1] \/ x \in Range(t)
    <3>1. PICK k \in 1 .. Len(q) : x = q[k]
      BY <1>1, InRange
    <3>2. CASE k # 1
      <4>1. k - 1 \in 1 .. Len(q) - 1 /\ t[k - 1] = q[(k - 1) + 1] /\ (k - 1) + 1 = k
        BY <2>1, <3>2
      <4> QED BY <2>1, <3>1, <4>1, InRange
    <3> QED BY <3>1, <3>2
  <2>3. ASSUME NEW x \in Range(t) PROVE x \in Range(q)
    <3>1. PICK k \in 1 .. Len(q) - 1 : x = t[k]
      BY <2>1, InRange
    <3> QED BY <1>1, <2>1, <3>1, InRange
  <2>4. q[1] \in Range(q)
    BY <1>1, <2>1, InRange
  <2> QED BY <2>1, <2>2, <2>3, <2>4 DEF t
<1>3. ASSUME NEW x \in S PROVE Range(Append(q, x)) = Range(q) \cup {x}
  <2> DEFINE a == Append(q, x)
  <2>1. /\ DOMAIN a = 1 .. Len(q) + 1 /\ Len(q) \in Nat /\ a[Len(q) + 1] = x
        /\ \A k \in 1 .. Len(q) : a[k] = q[k]
    BY AppendIs
  <2> HIDE DEF a
  <2>2. ASSUME NEW y \in Range(a) PROVE y = x \/ y \in Range(q)
    <3>1. PICK k \in 1 .. Len(q) + 1 : y = a[k]
      BY <2>1, InRange
    <3>2. k = Len(q) + 1 \/ k \in 1 .. Len(q)
      BY <2>1
    <3> QED BY <1>1, <2>1, <3>1, <3>2, InRange
  <2>3. ASSUME NEW y \in Range(q) PROVE y \in Range(a)
    <3>1. PICK k \in 1 .. Len(q) : y = q[k]
      BY <1>1, InRange
    <3>2. k \in 1 .. Len(q) + 1 /\ a[k] = y
      BY <2>1, <3>1
    <3> QED BY <2>1, <3>2, InRange
  <2>4. x \in Range(a)
    <3>1. Len(q) + 1 \in 1 .. Len(q) + 1
      BY <2>1
    <3> QED BY <2>1, <3>1, InRange
  <2> QED BY <2>2, <2>3, <2>4 DEF a
<1> QED BY <1>1, <1>2, <1>3, InRange

(* What a broken connection leaves of a sequence, and what it loses.         *)
LEMMA PrefixIs ==
    ASSUME NEW S, NEW q \in Seq(S), NEW n \in 0 .. Len(q)
    PROVE  /\ SubSeq(q, 1, n) \in Seq(S) /\ Len(SubSeq(q, 1, n)) = n
           /\ DOMAIN SubSeq(q, 1, n) = 1 .. n
           /\ \A k \in 1 .. n : k \in 1 .. Len(q) /\ SubSeq(q, 1, n)[k] = q[k]
           /\ Range(SubSeq(q, n + 1, Len(q))) \subseteq S
           /\ Range(q) \subseteq Range(SubSeq(q, 1, n)) \cup Range(SubSeq(q, n + 1, Len(q)))
<1> DEFINE p == SubSeq(q, 1, n)
           r == SubSeq(q, n + 1, Len(q))
<1>1. Len(q) \in Nat /\ n \in Nat /\ n <= Len(q) /\ DOMAIN q = 1 .. Len(q) /\ \A k \in 1 .. Len(q) : q[k] \in S
  OBVIOUS
<1>2. /\ p \in Seq(S) /\ Len(p) = n /\ DOMAIN p = 1 .. n
      /\ \A k \in 1 .. n : k \in 1 .. Len(q) /\ p[k] = q[k]
  BY <1>1
<1>3. /\ r \in Seq(S) /\ Len(r) = (IF n + 1 <= Len(q) THEN Len(q) - (n + 1) + 1 ELSE 0)
      /\ \A k \in 1 .. Len(q) - (n + 1) + 1 : r[k] = q[(n + 1) + k - 1]
  BY <1>1, SubSeqProperties
<1> HIDE DEF p, r
<1>4. Len(r) = Len(q) - n
  <2>1. CASE n + 1 <= Len(q)
    BY <1>1, <1>3, <2>1
  <2>2. CASE ~ (n + 1 <= Len(q))
    <3>1. n = Len(q) /\ Len(q) - n = 0
      <4>1. \A a, b \in Nat : b <= a /\ ~ (b + 1 <= a) => b = a /\ a - b = 0
        OBVIOUS
      <4> QED BY <1>1, <2>2, <4>1
    <3>2. Len(r) = 0
      BY <1>3, <2>2
    <3> QED BY <3>1, <3>2
  <2> QED BY <2>1, <2>2
<1>5. DOMAIN r = 1 .. Len(q) - n
  BY <1>3, <1>4
<1>6. ASSUME NEW x \in Range(q) PROVE x \in Range(p) \/ x \in Range(r)
  <2>1. PICK k \in 1 .. Len(q) : x = q[k]
    BY <1>1, InRange
  <2>2. CASE k <= n
    <3>1. k \in 1 .. n /\ p[k] = x
      BY <1>1, <1>2, <2>1, <2>2
    <3> QED BY <1>2, <3>1, InRange
  <2>3. CASE k > n
    <3>1. k - n \in 1 .. Len(q) - n /\ r[k - n] = x
      <4>1. k - n \in 1 .. Len(q) - (n + 1) + 1 /\ (n + 1) + (k - n) - 1 = k
        BY <1>1, <2>3
      <4>2. k - n \in 1 .. Len(q) - n
        BY <1>1, <2>3
      <4> QED BY <1>3, <2>1, <4>1, <4>2
    <3> QED BY <1>5, <3>1, InRange
  <2> QED BY <1>1, <2>2, <2>3
<1>7. Range(r) \subseteq S
  BY <1>3, RangeIs
<1> QED BY <1>2, <1>6, <1>7 DEF p, r

-----------------------------------------------------------------------------
(* Type correctness.                                                         *)

LEMMA FaultTyped ==
    ASSUME NEW f \in FaultKinds, NEW max, faults \in [FaultKinds -> Nat], Fault(f, max)
    PROVE  faults' \in [FaultKinds -> Nat]
BY DEF Fault

LEMMA InitTyped == Init => TypeOK
<1> SUFFICES ASSUME Init PROVE TypeOK
  OBVIOUS
<1>1. <<>> \in Seq(Ids) /\ Len(<<>>) = 0 /\ 0 \in 0 .. 0
  OBVIOUS
<1>2. 0 \in 0 .. MaxId /\ InitialBackoff \in InitialBackoff .. MaxBackoff /\ 0 <= MaxQueued /\ 0 <= MaxSession
  OBVIOUS
<1> QED BY <1>1, <1>2 DEF Init, TypeOK, WsStates

(* The process ends, however it does.                                        *)
LEMMA EndTyped ==
    ASSUME TypeOK, NEW state \in {"down", "stopped"}, End(state)
    PROVE  TypeOK'
<1> USE DEF TypeOK, WsStates, brokerVars, subscriberVars, receiverVars
<1>1. gone' \subseteq Ids
  <2>1. Range(out) \subseteq Ids /\ Range(unread) \subseteq Ids
    BY RangeIs
  <2> QED BY <2>1 DEF End
<1>2. /\ <<>> \in Seq(Ids) /\ Len(<<>>) = 0 /\ 0 \in 0 .. 0
      /\ InitialBackoff \in InitialBackoff .. MaxBackoff /\ 0 <= MaxQueued
  OBVIOUS
<1>3. faults' \in [FaultKinds -> Nat]
  BY FaultTyped DEF End, FaultKinds
<1> QED BY <1>1, <1>2, <1>3 DEF End

LEMMA StepTyped == TypeOK /\ [Next]_vars => TypeOK'
<1> SUFFICES ASSUME TypeOK, [Next]_vars PROVE TypeOK'
  OBVIOUS
<1> USE DEF TypeOK, WsStates, streamVars, sinkVars, brokerVars, subscriberVars, receiverVars, lostVars
<1>ids. Ids \subseteq Nat /\ None \notin Ids /\ traded \in Nat
  BY DEF Ids, None
<1>1. CASE Trade
  <2>1. traded' \in Ids /\ traded' \in 0 .. MaxId
    BY <1>1 DEF Trade, Ids
  <2>2. unread' \in Seq(Ids) /\ missed' \subseteq Ids /\ (unread' # <<>> => ws \in {"open", "closed", "lost"})
    <3>1. CASE ws = "open"
      <4>1. unread' = Append(unread, traded') /\ missed' = missed
        BY <1>1, <3>1 DEF Trade
      <4> QED BY <2>1, <3>1, <4>1
    <3>2. CASE ws # "open"
      BY <1>1, <2>1, <3>2 DEF Trade
    <3> QED BY <3>1, <3>2
  <2> QED BY <1>1, <2>1, <2>2 DEF Trade
<1>3. CASE Closes
  BY <1>3, FaultTyped DEF Closes, FaultKinds
<1>4. CASE Breaks
  <2>1. PICK k \in 0 .. Len(unread) :
            /\ unread' = SubSeq(unread, 1, k)
            /\ missed' = missed \cup Range(SubSeq(unread, k + 1, Len(unread)))
    BY <1>4 DEF Breaks
  <2>2. unread' \in Seq(Ids) /\ missed' \subseteq Ids
    <3>1. unread \in Seq(Ids)
      OBVIOUS
    <3>2. /\ SubSeq(unread, 1, k) \in Seq(Ids)
          /\ Range(SubSeq(unread, k + 1, Len(unread))) \subseteq Ids
      BY <3>1, PrefixIs
    <3> QED BY <2>1, <3>2
  <2>3. ws' = "lost" /\ ws = "open"
    BY <1>4 DEF Breaks
  <2> QED BY <1>4, <2>2, <2>3, FaultTyped DEF Breaks, FaultKinds
<1>5. CASE Dial
  BY <1>5 DEF Dial
<1>6. CASE DialFails
  BY <1>6, FaultTyped DEF DialFails, FaultKinds
<1>7. CASE StreamEnds
  BY <1>7 DEF StreamEnds, AfterClose
<1>8. CASE Wake
  <2>1. backoff' \in InitialBackoff .. MaxBackoff
    BY <1>8 DEF Wake, NextBackoff
  <2> QED BY <1>8, <2>1 DEF Wake
<1>9. CASE Read
  <2>1. Head(unread) \in Ids /\ unread' \in Seq(Ids) /\ unread # <<>>
    BY <1>9 DEF Read
  <2>2. CASE Fault("bad", MaxBadFrames) /\ skipped' = skipped \cup {Head(unread)} /\ UNCHANGED <<out, dropped>>
    BY <1>9, <2>1, <2>2, FaultTyped DEF Read, FaultKinds
  <2>3. CASE Send(Head(unread)) /\ UNCHANGED <<skipped, faults>> /\ Len(out) < MaxQueued
    <3>1. out' = Append(out, Head(unread)) /\ dropped' = dropped
      BY <2>3 DEF Send
    <3>2. out' \in Seq(Ids) /\ Len(out') = Len(out) + 1 /\ Len(out) \in Nat
      BY <2>1, <3>1
    <3>3. Len(out') <= MaxQueued /\ sent \in 0 .. Len(out')
      BY <2>3, <3>2
    <3> QED BY <1>9, <2>1, <2>3, <3>1, <3>2, <3>3 DEF Read
  <2>4. CASE Send(Head(unread)) /\ UNCHANGED <<skipped, faults>> /\ ~ (Len(out) < MaxQueued)
    <3>1. out' = out /\ dropped' = dropped \cup {Head(unread)}
      BY <2>4 DEF Send, DroppedWith
    <3> QED BY <1>9, <2>1, <2>4, <3>1 DEF Read
  <2> QED BY <1>9, <2>2, <2>3, <2>4 DEF Read
<1>10. CASE Connect
  BY <1>10 DEF Connect
<1>11. CASE Publish
  <2>1. sent' = sent + 1 /\ sent' \in 1 .. Len(out) /\ out[sent'] \in Ids /\ linkUp
    BY <1>11 DEF Publish
  <2>2. got' \subseteq Ids
    BY <1>11, <2>1 DEF Publish
  <2>3. backlog' \in Seq(Ids) /\ Len(backlog') <= MaxSession /\ shed' \subseteq Ids /\ handed \in 0 .. Len(backlog')
    <3>1. CASE Len(backlog) < MaxSession
      <4>1. backlog' = Append(backlog, out[sent']) /\ shed' = shed
        BY <1>11, <3>1 DEF Publish
      <4>2. backlog' \in Seq(Ids) /\ Len(backlog') = Len(backlog) + 1 /\ Len(backlog) \in Nat
        BY <2>1, <4>1
      <4> QED BY <3>1, <4>1, <4>2
    <3>2. CASE ~ (Len(backlog) < MaxSession)
      BY <1>11, <2>1, <3>2 DEF Publish
    <3> QED BY <3>1, <3>2
  <2>4. UNCHANGED <<traded, ws, unread, backoff, up, out, linkUp, dropped, subLink, handed, mark, processed,
                    ever, missed, skipped, gone, faults>>
    BY <1>11 DEF Publish
  <2> QED BY <2>1, <2>2, <2>3, <2>4
<1>12. CASE Puback
  <2>1. out # <<>> /\ sent \in 1 .. Len(out)
    BY <1>12 DEF Puback
  <2>2. /\ Tail(out) \in Seq(Ids) /\ Len(out) \in Nat \ {0} /\ Len(Tail(out)) = Len(out) - 1
    BY <2>1, TailIs
  <2>3. out' = Tail(out) /\ sent' = sent - 1 /\ linkUp
        /\ UNCHANGED <<traded, streamVars, up, linkUp, dropped, brokerVars, subscriberVars, lostVars, faults>>
    BY <1>12 DEF Puback
  <2>4. sent' \in 0 .. Len(out') /\ Len(out') <= MaxQueued
    BY <2>1, <2>2, <2>3
  <2> QED BY <2>2, <2>3, <2>4
<1>13. CASE LinkLoss
  <2>1. 0 \in 0 .. Len(out)
    OBVIOUS
  <2> QED BY <1>13, <2>1, FaultTyped DEF LinkLoss, FaultKinds
<1>14. CASE SubConnect
  BY <1>14 DEF SubConnect
<1>15. CASE Deliver
  <2>1. handed' = handed + 1 /\ handed' \in 1 .. Len(backlog) /\ backlog[handed'] \in Ids /\ subLink
    BY <1>15 DEF Deliver
  <2>2. processed' \in Seq(Ids) /\ mark' \in Ids \cup {None} /\ ever' \subseteq Ids
    <3>1. CASE Duplicate(backlog[handed'])
      BY <1>15, <3>1 DEF Deliver
    <3>2. CASE ~ Duplicate(backlog[handed'])
      <4>1. /\ mark' = backlog[handed'] /\ processed' = Append(processed, backlog[handed'])
            /\ ever' = ever \cup {backlog[handed']}
        BY <1>15, <3>2 DEF Deliver
      <4> QED BY <2>1, <4>1
    <3> QED BY <3>1, <3>2
  <2>3. UNCHANGED <<traded, ws, unread, backoff, up, out, sent, linkUp, dropped, got, backlog, shed, subLink,
                    missed, skipped, gone, faults>>
    BY <1>15 DEF Deliver
  <2> QED BY <2>1, <2>2, <2>3
<1>16. CASE SubAck
  <2>1. backlog # <<>> /\ handed \in 1 .. Len(backlog)
    BY <1>16 DEF SubAck
  <2>2. /\ Tail(backlog) \in Seq(Ids) /\ Len(backlog) \in Nat \ {0} /\ Len(Tail(backlog)) = Len(backlog) - 1
    BY <2>1, TailIs
  <2>3. backlog' = Tail(backlog) /\ handed' = handed - 1 /\ subLink
        /\ UNCHANGED <<traded, streamVars, up, sinkVars, got, shed, subLink, receiverVars, lostVars, faults>>
    BY <1>16 DEF SubAck
  <2>4. handed' \in 0 .. Len(backlog') /\ Len(backlog') <= MaxSession
    BY <2>1, <2>2, <2>3
  <2> QED BY <2>2, <2>3, <2>4
<1>17. CASE SubLinkLoss
  <2>1. 0 \in 0 .. Len(backlog)
    OBVIOUS
  <2> QED BY <1>17, <2>1, FaultTyped DEF SubLinkLoss, FaultKinds
<1>18. CASE SubRestart
  <2>1. 0 \in 0 .. Len(backlog) /\ <<>> \in Seq(Ids)
    OBVIOUS
  <2> QED BY <1>18, <2>1, FaultTyped DEF SubRestart, FaultKinds
<1>19. CASE Crash \/ Stop
  BY <1>19, EndTyped DEF Crash, Stop
<1>20. CASE Restart \/ Start
  BY <1>20 DEF Restart, Start, Begin
<1>21. CASE UNCHANGED vars
  BY <1>21 DEF vars
<1> QED BY <1>1, <1>3, <1>4, <1>5, <1>6, <1>7, <1>8, <1>9, <1>10, <1>11, <1>12,
           <1>13, <1>14, <1>15, <1>16, <1>17, <1>18, <1>19, <1>20, <1>21 DEF Next, Process

(* Every reachable state of the ingest process, paho's queue, the broker's   *)
(* session and the subscriber is well typed, whatever caps and faults.       *)
THEOREM TypeCorrect == Spec => []TypeOK
BY InitTyped, StepTyped, PTL DEF Spec

-----------------------------------------------------------------------------
(* Where ids are.                                                            *)

(* What is unread ascends, above everything queued and everything got.       *)
UnreadAscends ==
    /\ \A k \in DOMAIN unread : unread[k] <= traded
    /\ \A j, k \in DOMAIN unread : j < k => unread[j] < unread[k]
    /\ \A j \in DOMAIN out, k \in DOMAIN unread : out[j] < unread[k]
    /\ \A i \in got, k \in DOMAIN unread : i < unread[k]

(* paho's queue ascends, and nothing is ahead of the exchange.               *)
OutAscends ==
    /\ \A i \in got : i <= traded
    /\ \A k \in DOMAIN out : out[k] <= traded
    /\ \A j, k \in DOMAIN out : j < k => out[j] < out[k]

(* The broker got what was sent on this connection, and of what is queued to *)
(* be sent again, all that is below something it got.                        *)
SentIsGot ==
    /\ \A k \in 1 .. sent : out[k] \in got
    /\ \A k \in DOMAIN out, i \in got : out[k] <= i => out[k] \in got

StreamInv == UnreadAscends /\ OutAscends /\ SentIsGot

(* Ids that may be behind a mark without having been in the session for it.  *)
Settled == ever \cup shed

(* An id behind a larger one is settled, or before that one already.         *)
FirstsAscend ==
    \A p, q \in DOMAIN backlog :
        p < q /\ backlog[q] < backlog[p] =>
            \/ backlog[q] \in Settled
            \/ \E r \in DOMAIN backlog : r < p /\ backlog[r] = backlog[q]

(* What was handed over is settled, and so is what is at or below the mark.  *)
HandedSettled ==
    /\ \A k \in 1 .. handed : backlog[k] \in Settled
    /\ \A k \in DOMAIN backlog : backlog[k] <= mark => backlog[k] \in Settled

SessionInv ==
    /\ got \subseteq Range(backlog) \cup Settled
    /\ \A k \in DOMAIN backlog : backlog[k] \in got
    /\ mark # None => mark \in got
    /\ FirstsAscend /\ HandedSettled

ProcessedToMark ==
    /\ \A j, k \in DOMAIN processed : j < k => processed[j] < processed[k]
    /\ \A k \in DOMAIN processed : processed[k] <= mark

WayInv == StreamInv /\ SessionInv /\ ProcessedToMark /\ AllAccounted

IInv == TypeOK /\ WayInv

LEMMA Numbers ==
    ASSUME TypeOK
    PROVE  /\ traded \in Nat /\ mark \in Int /\ (mark = None \/ mark \in Ids) /\ Ids \subseteq Nat
           /\ sent \in Nat /\ sent <= Len(out) /\ Len(out) \in Nat /\ Len(unread) \in Nat
           /\ handed \in Nat /\ handed <= Len(backlog) /\ Len(backlog) \in Nat /\ Len(processed) \in Nat
           /\ DOMAIN unread = 1 .. Len(unread) /\ DOMAIN out = 1 .. Len(out)
           /\ DOMAIN backlog = 1 .. Len(backlog) /\ DOMAIN processed = 1 .. Len(processed)
           /\ \A k \in DOMAIN unread : unread[k] \in Ids /\ unread[k] \in Nat
           /\ \A k \in DOMAIN out : out[k] \in Ids /\ out[k] \in Nat
           /\ \A k \in DOMAIN backlog : backlog[k] \in Ids /\ backlog[k] \in Nat
           /\ \A k \in DOMAIN processed : processed[k] \in Ids /\ processed[k] \in Nat
           /\ \A i \in got : i \in Ids /\ i \in Nat
           /\ out \in Seq(Ids) /\ unread \in Seq(Ids) /\ backlog \in Seq(Ids) /\ processed \in Seq(Ids)
<1>1. Ids \subseteq Nat /\ None \in Int
  BY DEF Ids, None
<1>2. /\ traded \in Nat /\ sent \in Nat /\ sent <= Len(out) /\ mark \in Ids \cup {None}
      /\ handed \in Nat /\ handed <= Len(backlog) /\ got \subseteq Ids
  BY DEF TypeOK
<1>3. out \in Seq(Ids) /\ unread \in Seq(Ids) /\ backlog \in Seq(Ids) /\ processed \in Seq(Ids)
  BY DEF TypeOK
<1>4. ASSUME NEW q \in Seq(Ids)
      PROVE  DOMAIN q = 1 .. Len(q) /\ Len(q) \in Nat /\ \A k \in DOMAIN q : q[k] \in Ids
  OBVIOUS
<1>5. /\ DOMAIN unread = 1 .. Len(unread) /\ Len(unread) \in Nat
      /\ DOMAIN out = 1 .. Len(out) /\ Len(out) \in Nat
      /\ DOMAIN backlog = 1 .. Len(backlog) /\ Len(backlog) \in Nat
      /\ DOMAIN processed = 1 .. Len(processed) /\ Len(processed) \in Nat
  BY <1>3, <1>4
<1>6. /\ \A k \in DOMAIN unread : unread[k] \in Ids
      /\ \A k \in DOMAIN out : out[k] \in Ids
      /\ \A k \in DOMAIN backlog : backlog[k] \in Ids
      /\ \A k \in DOMAIN processed : processed[k] \in Ids
  BY <1>3, <1>4
<1>7. /\ \A k \in DOMAIN unread : unread[k] \in Nat
      /\ \A k \in DOMAIN out : out[k] \in Nat
      /\ \A k \in DOMAIN backlog : backlog[k] \in Nat
      /\ \A k \in DOMAIN processed : processed[k] \in Nat
  BY <1>1, <1>6
<1>8. /\ \A i \in got : i \in Ids /\ i \in Nat
      /\ mark \in Int /\ (mark = None \/ mark \in Ids)
  BY <1>1, <1>2
<1> QED BY <1>1, <1>2, <1>3, <1>5, <1>6, <1>7, <1>8

LEMMA InitWay == Init => WayInv
<1> SUFFICES ASSUME Init PROVE WayInv
  OBVIOUS
<1>1. /\ traded = 0 /\ unread = <<>> /\ out = <<>> /\ sent = 0 /\ got = {} /\ processed = <<>>
      /\ backlog = <<>> /\ handed = 0 /\ mark = None
  BY DEF Init
<1>2. DOMAIN <<>> = {} /\ 1 .. 0 = {}
  OBVIOUS
<1> QED BY <1>1, <1>2 DEF WayInv, StreamInv, UnreadAscends, OutAscends, SentIsGot, SessionInv,
           FirstsAscend, HandedSettled, ProcessedToMark, AllAccounted

-----------------------------------------------------------------------------
(* Steps of one side leave the other as it was.                              *)

LEMMA SessionStays ==
    ASSUME IInv, UNCHANGED <<brokerVars, subscriberVars>>
    PROVE  SessionInv' /\ ProcessedToMark'
<1>1. UNCHANGED <<got, backlog, shed, handed, mark, processed, ever>>
  BY DEF brokerVars, subscriberVars, receiverVars
<1> QED BY <1>1 DEF IInv, WayInv, SessionInv, FirstsAscend, HandedSettled, Settled, ProcessedToMark

LEMMA StreamStays ==
    ASSUME IInv, UNCHANGED <<traded, unread, out, dropped, got, lostVars>>,
           sent' = sent \/ sent' = 0
    PROVE  StreamInv' /\ AllAccounted'
<1>1. \A k \in 1 .. sent' : k \in 1 .. sent
  BY Numbers DEF IInv
<1>2. StreamInv'
  BY <1>1 DEF IInv, WayInv, StreamInv, UnreadAscends, OutAscends, SentIsGot
<1>3. AllAccounted'
  BY DEF IInv, WayInv, AllAccounted, lostVars
<1> QED BY <1>2, <1>3

LEMMA BothStay ==
    ASSUME IInv, UNCHANGED <<traded, unread, out, dropped, brokerVars, subscriberVars, lostVars>>,
           sent' = sent \/ sent' = 0
    PROVE  WayInv'
BY SessionStays, StreamStays DEF brokerVars, WayInv

-----------------------------------------------------------------------------
(* The exchange and the websocket.                                           *)

LEMMA FrameArrives ==
    ASSUME IInv, Trade, ws = "open"
    PROVE  WayInv'
<1> DEFINE m == traded + 1
<1>n. /\ traded \in Nat /\ Len(unread) \in Nat /\ DOMAIN unread = 1 .. Len(unread)
      /\ \A k \in DOMAIN unread : unread[k] \in Nat
      /\ \A k \in DOMAIN out : out[k] \in Nat
      /\ \A i \in got : i \in Nat
      /\ unread \in Seq(Ids)
  BY Numbers DEF IInv
<1>s. /\ unread' = Append(unread, m) /\ traded' = m /\ m \in Ids
      /\ UNCHANGED <<out, sent, dropped, got, missed, skipped, gone>>
  <2>1. traded < MaxId
    BY DEF Trade
  <2> QED BY <1>n, <2>1 DEF Trade, sinkVars, brokerVars, Ids
<1>1. /\ DOMAIN unread' = 1 .. Len(unread) + 1
      /\ \A k \in 1 .. Len(unread) : unread'[k] = unread[k]
      /\ unread'[Len(unread) + 1] = m
      /\ Range(unread') = Range(unread) \cup {m}
  BY <1>n, <1>s, AppendIs, RangeIs
<1>2. \A k \in DOMAIN unread' :
          \/ k \in DOMAIN unread /\ unread'[k] = unread[k] /\ unread[k] <= traded
          \/ k = Len(unread) + 1 /\ unread'[k] = m
  BY <1>n, <1>1 DEF IInv, WayInv, StreamInv, UnreadAscends
<1>3. UnreadAscends'
  <2>1. \A k \in DOMAIN unread' : unread'[k] <= traded'
    BY <1>n, <1>s, <1>2
  <2>2. ASSUME NEW j \in DOMAIN unread', NEW k \in DOMAIN unread', j < k
        PROVE  unread'[j] < unread'[k]
    <3>1. j \in DOMAIN unread /\ unread'[j] = unread[j] /\ unread[j] <= traded
      BY <1>n, <1>1, <1>2, <2>2
    <3>2. CASE k \in DOMAIN unread /\ unread'[k] = unread[k]
      BY <2>2, <3>1, <3>2 DEF IInv, WayInv, StreamInv, UnreadAscends
    <3>3. CASE unread'[k] = m
      BY <1>n, <3>1, <3>3
    <3> QED BY <1>2, <3>2, <3>3
  <2>3. ASSUME NEW i \in Nat, i <= traded, \A k \in DOMAIN unread : i < unread[k]
        PROVE  \A k \in DOMAIN unread' : i < unread'[k]
    BY <1>n, <1>2, <2>3
  <2>4. ASSUME NEW j \in DOMAIN out', NEW k \in DOMAIN unread' PROVE out'[j] < unread'[k]
    <3>1. out[j] \in Nat /\ out[j] <= traded /\ \A l \in DOMAIN unread : out[j] < unread[l]
      BY <1>n, <1>s DEF IInv, WayInv, StreamInv, UnreadAscends, OutAscends
    <3> QED BY <1>s, <2>3, <3>1
  <2>5. ASSUME NEW i \in got', NEW k \in DOMAIN unread' PROVE i < unread'[k]
    <3>1. i \in Nat /\ i <= traded /\ \A l \in DOMAIN unread : i < unread[l]
      BY <1>n, <1>s DEF IInv, WayInv, StreamInv, UnreadAscends, OutAscends
    <3> QED BY <2>3, <3>1
  <2> QED BY <2>1, <2>2, <2>4, <2>5 DEF UnreadAscends
<1>4. OutAscends'
  <2>1. \A a \in Nat : a <= traded => a <= traded'
    BY <1>n, <1>s
  <2> QED BY <1>n, <1>s, <2>1 DEF IInv, WayInv, StreamInv, OutAscends
<1>5. SentIsGot'
  BY <1>s DEF IInv, WayInv, StreamInv, SentIsGot
<1>6. AllAccounted'
  <2>1. \A i \in 1 .. traded' : i \in 1 .. traded \/ i = m
    BY <1>n, <1>s
  <2> QED BY <1>1, <1>s, <2>1 DEF IInv, WayInv, AllAccounted
<1>7. SessionInv' /\ ProcessedToMark'
  BY SessionStays DEF Trade
<1> QED BY <1>3, <1>4, <1>5, <1>6, <1>7 DEF WayInv, StreamInv

(* A trade while no websocket is open.                                       *)
LEMMA TradeMissed ==
    ASSUME IInv, Trade, ws # "open"
    PROVE  WayInv'
<1>s. /\ UNCHANGED <<unread, out, sent, dropped, got, skipped, gone>>
      /\ traded' = traded + 1 /\ missed' = missed \cup {traded'}
  BY DEF Trade, sinkVars, brokerVars
<1>n. /\ traded \in Nat
      /\ \A k \in DOMAIN unread : unread[k] \in Nat
      /\ \A k \in DOMAIN out : out[k] \in Nat
      /\ \A i \in got : i \in Nat
  BY Numbers DEF IInv
<1>a. \A a \in Nat : a <= traded => a <= traded'
  BY <1>n, <1>s
<1>1. UnreadAscends'
  BY <1>n, <1>s, <1>a DEF IInv, WayInv, StreamInv, UnreadAscends
<1>2. OutAscends'
  BY <1>n, <1>s, <1>a DEF IInv, WayInv, StreamInv, OutAscends
<1>3. SentIsGot'
  BY <1>s DEF IInv, WayInv, StreamInv, SentIsGot
<1>4. AllAccounted'
  <2>1. \A i \in 1 .. traded' : i \in 1 .. traded \/ i = traded'
    BY <1>n, <1>s
  <2> QED BY <1>s, <2>1 DEF IInv, WayInv, AllAccounted
<1>5. SessionInv' /\ ProcessedToMark'
  BY SessionStays DEF Trade
<1> QED BY <1>1, <1>2, <1>3, <1>4, <1>5 DEF WayInv, StreamInv

(* A broken connection leaves a prefix of unread; what it cuts off is missed. *)
LEMMA BreaksKeeps ==
    ASSUME IInv, Breaks
    PROVE  WayInv'
<1>s. UNCHANGED <<out, sent, dropped, got, skipped, gone, traded>>
  BY DEF Breaks, sinkVars, brokerVars
<1>n. Len(unread) \in Nat /\ DOMAIN unread = 1 .. Len(unread) /\ unread \in Seq(Ids)
  BY Numbers DEF IInv
<1>0. PICK n \in 0 .. Len(unread) :
          /\ unread' = SubSeq(unread, 1, n)
          /\ missed' = missed \cup Range(SubSeq(unread, n + 1, Len(unread)))
  BY DEF Breaks
<1>1. /\ DOMAIN unread' = 1 .. n
      /\ \A k \in 1 .. n : k \in 1 .. Len(unread) /\ unread'[k] = unread[k]
      /\ Range(unread) \subseteq Range(unread') \cup Range(SubSeq(unread, n + 1, Len(unread)))
  BY <1>n, <1>0, PrefixIs
<1>2. \A k \in DOMAIN unread' : k \in DOMAIN unread /\ unread'[k] = unread[k]
  BY <1>n, <1>1
<1>3. UnreadAscends'
  BY <1>s, <1>2 DEF IInv, WayInv, StreamInv, UnreadAscends
<1>4. OutAscends' /\ SentIsGot'
  BY <1>s DEF IInv, WayInv, StreamInv, OutAscends, SentIsGot
<1>5. AllAccounted'
  BY <1>0, <1>1, <1>s DEF IInv, WayInv, AllAccounted
<1>6. SessionInv' /\ ProcessedToMark'
  BY SessionStays DEF Breaks
<1> QED BY <1>3, <1>4, <1>5, <1>6 DEF WayInv, StreamInv

-----------------------------------------------------------------------------
(* The process.                                                              *)

(* A frame is read: it goes to the end of paho's queue, is dropped, or is    *)
(* skipped.                                                                  *)
LEMMA ReadKeeps ==
    ASSUME IInv, Read
    PROVE  WayInv'
<1> DEFINE m == Head(unread)
<1>s. /\ unread # <<>> /\ unread' = Tail(unread)
      /\ UNCHANGED <<traded, sent, got, missed, gone>>
  BY DEF Read, brokerVars
<1>n. /\ traded \in Nat /\ sent \in Nat /\ sent <= Len(out) /\ Len(out) \in Nat
      /\ DOMAIN unread = 1 .. Len(unread) /\ DOMAIN out = 1 .. Len(out) /\ Len(unread) \in Nat
      /\ \A k \in DOMAIN unread : unread[k] \in Nat
      /\ \A k \in DOMAIN out : out[k] \in Nat
      /\ \A i \in got : i \in Nat
      /\ out \in Seq(Ids) /\ unread \in Seq(Ids)
  BY Numbers DEF IInv
<1>1. /\ m \in Ids /\ m = unread[1] /\ 1 \in DOMAIN unread
      /\ DOMAIN unread' = 1 .. Len(unread) - 1
      /\ \A k \in DOMAIN unread' : k + 1 \in DOMAIN unread /\ unread'[k] = unread[k + 1] /\ 1 < k + 1
      /\ Range(unread) = {m} \cup Range(unread')
  BY <1>n, <1>s, TailIs, RangeIs
<1>2. /\ m \in Nat /\ m <= traded
      /\ \A j \in DOMAIN out : out[j] < m
      /\ \A i \in got : i < m
      /\ \A k \in DOMAIN unread' : m < unread'[k]
  BY <1>n, <1>1 DEF IInv, WayInv, StreamInv, UnreadAscends
<1>3. /\ \A k \in DOMAIN unread' : unread'[k] <= traded
      /\ \A j, k \in DOMAIN unread' : j < k => unread'[j] < unread'[k]
      /\ \A j \in DOMAIN out, k \in DOMAIN unread' : out[j] < unread'[k]
      /\ \A i \in got, k \in DOMAIN unread' : i < unread'[k]
  <2>1. \A k \in DOMAIN unread' : unread'[k] <= traded
    BY <1>1 DEF IInv, WayInv, StreamInv, UnreadAscends
  <2>2. ASSUME NEW j \in DOMAIN unread', NEW k \in DOMAIN unread', j < k
        PROVE  unread'[j] < unread'[k]
    <3>1. j + 1 < k + 1
      BY <1>n, <1>1, <2>2
    <3> QED BY <1>1, <3>1 DEF IInv, WayInv, StreamInv, UnreadAscends
  <2>3. /\ \A j \in DOMAIN out, k \in DOMAIN unread' : out[j] < unread'[k]
        /\ \A i \in got, k \in DOMAIN unread' : i < unread'[k]
    BY <1>1 DEF IInv, WayInv, StreamInv, UnreadAscends
  <2> QED BY <2>1, <2>2, <2>3
<1>4. SessionInv' /\ ProcessedToMark'
  BY SessionStays DEF Read
<1> HIDE DEF m
<1>5. ASSUME out' = out, m \in dropped' \cup skipped', dropped \subseteq dropped', skipped \subseteq skipped'
      PROVE  WayInv'
  <2>1. StreamInv'
    BY <1>s, <1>3, <1>5 DEF IInv, WayInv, StreamInv, UnreadAscends, OutAscends, SentIsGot
  <2>2. AllAccounted'
    BY <1>s, <1>1, <1>5 DEF IInv, WayInv, AllAccounted
  <2> QED BY <1>4, <2>1, <2>2 DEF WayInv
<1>6. CASE skipped' = skipped \cup {m} /\ UNCHANGED <<out, dropped>>
  BY <1>5, <1>6
<1>7. CASE Send(m) /\ UNCHANGED <<skipped, faults>> /\ ~ (Len(out) < MaxQueued)
  <2>1. out' = out /\ dropped' = dropped \cup {m}
    BY <1>7 DEF Send, DroppedWith
  <2> QED BY <1>5, <1>7, <2>1
<1>8. CASE Send(m) /\ UNCHANGED <<skipped, faults>> /\ Len(out) < MaxQueued
  <2>1. out' = Append(out, m) /\ dropped' = dropped /\ skipped' = skipped
    BY <1>8 DEF Send
  <2>2. /\ DOMAIN out' = 1 .. Len(out) + 1
        /\ \A k \in 1 .. Len(out) : out'[k] = out[k]
        /\ out'[Len(out) + 1] = m /\ Range(out') = Range(out) \cup {m}
    BY <1>n, <1>1, <2>1, AppendIs, RangeIs
  <2>3. \A k \in DOMAIN out' :
            \/ k \in DOMAIN out /\ out'[k] = out[k]
            \/ k = Len(out) + 1 /\ out'[k] = m
    BY <1>n, <2>2
  <2>4. UnreadAscends'
    <3>1. ASSUME NEW j \in DOMAIN out', NEW k \in DOMAIN unread'
          PROVE  out'[j] < unread'[k]
      BY <1>2, <1>3, <2>3
    <3> QED BY <1>s, <1>3, <3>1 DEF UnreadAscends
  <2>5. OutAscends'
    <3>1. ASSUME NEW j \in DOMAIN out', NEW k \in DOMAIN out', j < k
          PROVE  out'[j] < out'[k]
      <4>1. j \in DOMAIN out /\ out'[j] = out[j]
        BY <1>n, <2>2, <3>1
      <4>2. CASE k \in DOMAIN out /\ out'[k] = out[k]
        BY <3>1, <4>1, <4>2 DEF IInv, WayInv, StreamInv, OutAscends
      <4>3. CASE out'[k] = m
        BY <1>2, <4>1, <4>3
      <4> QED BY <2>3, <4>2, <4>3
    <3>2. \A k \in DOMAIN out' : out'[k] <= traded
      BY <1>2, <2>3 DEF IInv, WayInv, StreamInv, OutAscends
    <3>3. \A i \in got' : i <= traded'
      BY <1>s DEF IInv, WayInv, StreamInv, OutAscends
    <3> QED BY <1>s, <3>1, <3>2, <3>3 DEF OutAscends
  <2>6. SentIsGot'
    <3>1. \A k \in 1 .. sent : k \in 1 .. Len(out) /\ out'[k] = out[k]
      BY <1>n, <2>2
    <3>2. \A k \in DOMAIN out', i \in got : out'[k] <= i => k \in DOMAIN out /\ out'[k] = out[k]
      <4>1. \A i \in got : ~ (m <= i)
        BY <1>n, <1>2
      <4> QED BY <2>3, <4>1
    <3> QED BY <1>s, <3>1, <3>2 DEF IInv, WayInv, StreamInv, SentIsGot
  <2>7. AllAccounted'
    BY <1>s, <1>1, <2>1, <2>2 DEF IInv, WayInv, AllAccounted
  <2> QED BY <1>4, <2>4, <2>5, <2>6, <2>7 DEF WayInv, StreamInv
<1> QED BY <1>6, <1>7, <1>8 DEF Read, m

(* The process ends: what was unread or queued is gone.                      *)
LEMMA EndKeeps ==
    ASSUME IInv, NEW state, End(state)
    PROVE  WayInv'
<1>s. /\ unread' = <<>> /\ out' = <<>> /\ sent' = 0
      /\ gone' = gone \cup Range(out) \cup Range(unread)
      /\ UNCHANGED <<traded, dropped, got, missed, skipped>>
  BY DEF End, brokerVars
<1>1. DOMAIN <<>> = {} /\ 1 .. 0 = {}
  OBVIOUS
<1>2. StreamInv'
  BY <1>s, <1>1 DEF IInv, WayInv, StreamInv, UnreadAscends, OutAscends, SentIsGot
<1>3. AllAccounted'
  BY <1>s DEF IInv, WayInv, AllAccounted
<1>4. SessionInv' /\ ProcessedToMark'
  BY SessionStays DEF End
<1> QED BY <1>2, <1>3, <1>4 DEF WayInv

-----------------------------------------------------------------------------
(* The broker and the subscriber.                                            *)

(* A message reaches the broker: it is at the end of the session, or shed.   *)
LEMMA PublishKeeps ==
    ASSUME IInv, Publish
    PROVE  WayInv'
<1> DEFINE i == out[sent + 1]
<1>n. /\ traded \in Nat /\ mark \in Int /\ sent \in Nat /\ sent <= Len(out) /\ Len(out) \in Nat
      /\ handed \in Nat /\ handed <= Len(backlog) /\ Len(backlog) \in Nat
      /\ DOMAIN out = 1 .. Len(out) /\ DOMAIN backlog = 1 .. Len(backlog)
      /\ \A k \in DOMAIN out : out[k] \in Ids /\ out[k] \in Nat
      /\ \A k \in DOMAIN backlog : backlog[k] \in Nat
      /\ \A g \in got : g \in Nat
      /\ backlog \in Seq(Ids) /\ None = -1
  BY Numbers DEF IInv, None
<1>s. /\ sent' = sent + 1 /\ sent + 1 \in DOMAIN out /\ got' = got \cup {i}
      /\ UNCHANGED <<traded, unread, out, dropped, handed, mark, processed, ever, missed, skipped, gone>>
  BY <1>n DEF Publish, streamVars, subscriberVars, receiverVars, lostVars
<1>t. \/ backlog' = Append(backlog, i) /\ shed' = shed
      \/ backlog' = backlog /\ shed' = shed \cup {i}
  BY <1>s DEF Publish
<1>1. i \in Nat /\ i \in Ids /\ i <= traded
  BY <1>n, <1>s DEF IInv, WayInv, StreamInv, OutAscends
<1>2. \A g \in got : i <= g => i \in got
  BY <1>s DEF IInv, WayInv, StreamInv, SentIsGot
<1>3. StreamInv'
  <2>1. UnreadAscends'
    BY <1>s DEF IInv, WayInv, StreamInv, UnreadAscends
  <2>2. OutAscends'
    BY <1>s, <1>1 DEF IInv, WayInv, StreamInv, OutAscends
  <2>3. \A k \in 1 .. sent' : k \in 1 .. sent \/ k = sent + 1
    BY <1>n, <1>s
  <2>4. \A k \in 1 .. sent' : out[k] \in got'
    BY <1>s, <2>3 DEF IInv, WayInv, StreamInv, SentIsGot
  <2>5. ASSUME NEW k \in DOMAIN out, out[k] <= i PROVE k \in 1 .. sent'
    <3>1. ASSUME k > sent + 1 PROVE FALSE
      <4>1. i < out[k]
        BY <1>n, <1>s, <3>1 DEF IInv, WayInv, StreamInv, OutAscends
      <4> QED BY <1>n, <1>1, <2>5, <4>1
    <3> QED BY <1>n, <1>s, <3>1
  <2>6. ASSUME NEW k \in DOMAIN out, NEW g \in got', out[k] <= g PROVE out[k] \in got'
    <3>1. CASE g \in got
      BY <1>s, <2>6, <3>1 DEF IInv, WayInv, StreamInv, SentIsGot
    <3>2. CASE g = i
      BY <2>4, <2>5, <2>6, <3>2
    <3> QED BY <1>s, <3>1, <3>2
  <2>7. SentIsGot'
    BY <1>s, <2>4, <2>6 DEF SentIsGot
  <2> QED BY <2>1, <2>2, <2>7 DEF StreamInv
<1>4. AllAccounted'
  BY <1>s DEF IInv, WayInv, AllAccounted
<1>5. ProcessedToMark'
  BY <1>s DEF IInv, WayInv, ProcessedToMark
<1>6. (mark' # None => mark' \in got') /\ Settled \subseteq Settled'
  BY <1>s, <1>t DEF IInv, WayInv, SessionInv, Settled
<1> HIDE DEF i
<1>7. CASE backlog' = backlog /\ shed' = shed \cup {i}
  <2>1. got' \subseteq Range(backlog') \cup Settled' /\ \A k \in DOMAIN backlog' : backlog'[k] \in got'
    BY <1>s, <1>6, <1>7 DEF IInv, WayInv, SessionInv, Settled
  <2>2. FirstsAscend' /\ HandedSettled'
    BY <1>s, <1>6, <1>7 DEF IInv, WayInv, SessionInv, FirstsAscend, HandedSettled
  <2> QED BY <1>3, <1>4, <1>5, <1>6, <2>1, <2>2 DEF WayInv, SessionInv
<1>8. CASE backlog' = Append(backlog, i) /\ shed' = shed
  <2>1. /\ DOMAIN backlog' = 1 .. Len(backlog) + 1
        /\ \A k \in 1 .. Len(backlog) : backlog'[k] = backlog[k]
        /\ backlog'[Len(backlog) + 1] = i
        /\ Range(backlog') = Range(backlog) \cup {i}
    BY <1>n, <1>1, <1>8, AppendIs, RangeIs
  <2>2. /\ \A k \in DOMAIN backlog : k \in DOMAIN backlog' /\ backlog'[k] = backlog[k]
        /\ \A k \in DOMAIN backlog' :
            \/ k \in DOMAIN backlog /\ backlog'[k] = backlog[k]
            \/ k = Len(backlog) + 1 /\ backlog'[k] = i
    BY <1>n, <2>1
  <2>3. Settled' = Settled
    BY <1>s, <1>8 DEF Settled
  <2>4. got' \subseteq Range(backlog') \cup Settled' /\ \A k \in DOMAIN backlog' : backlog'[k] \in got'
    BY <1>s, <2>1, <2>2, <2>3 DEF IInv, WayInv, SessionInv
  <2>5. i \in got => i \in Settled \/ \E k \in DOMAIN backlog : backlog[k] = i
    BY InRange DEF IInv, WayInv, SessionInv
  <2>6. HandedSettled'
    <3>1. \A k \in 1 .. handed' : backlog'[k] \in Settled'
      <4>1. \A k \in 1 .. handed : k \in DOMAIN backlog
        BY <1>n
      <4> QED BY <1>s, <2>2, <2>3, <4>1 DEF IInv, WayInv, SessionInv, HandedSettled
    <3>2. ASSUME i <= mark PROVE i \in Settled
      <4>1. mark \in got
        BY <1>n, <1>1, <3>2 DEF IInv, WayInv, SessionInv
      <4>2. i \in got
        BY <1>2, <3>2, <4>1
      <4> QED BY <2>5, <3>2, <4>2 DEF IInv, WayInv, SessionInv, HandedSettled
    <3>3. \A k \in DOMAIN backlog' : backlog'[k] <= mark' => backlog'[k] \in Settled'
      BY <1>s, <2>2, <2>3, <3>2 DEF IInv, WayInv, SessionInv, HandedSettled
    <3> QED BY <3>1, <3>3 DEF HandedSettled
  <2>7. FirstsAscend'
    <3> SUFFICES ASSUME NEW p \in DOMAIN backlog', NEW q \in DOMAIN backlog', p < q, backlog'[q] < backlog'[p]
                 PROVE  \/ backlog'[q] \in Settled'
                        \/ \E r \in DOMAIN backlog' : r < p /\ backlog'[r] = backlog'[q]
      BY DEF FirstsAscend
    <3>1. p \in DOMAIN backlog /\ backlog'[p] = backlog[p]
      BY <1>n, <2>1
    <3>2. ASSUME NEW o \in DOMAIN backlog, backlog[o] < backlog[p]
          PROVE  \/ backlog[o] \in Settled
                 \/ \E r \in DOMAIN backlog : r < p /\ backlog[r] = backlog[o]
      <4>1. CASE p < o
        BY <3>1, <3>2, <4>1 DEF IInv, WayInv, SessionInv, FirstsAscend
      <4>2. CASE o < p
        BY <4>2
      <4>3. o # p
        BY <1>n, <3>1, <3>2
      <4> QED BY <1>n, <3>1, <4>1, <4>2, <4>3
    <3>3. \E o \in DOMAIN backlog : backlog[o] = backlog'[q] \/ backlog'[q] \in Settled
      <4>1. CASE q \in DOMAIN backlog /\ backlog'[q] = backlog[q]
        BY <4>1
      <4>2. CASE backlog'[q] = i
        <5>1. backlog[p] \in got /\ i <= backlog[p]
          BY <1>n, <1>1, <3>1, <4>2 DEF IInv, WayInv, SessionInv
        <5> QED BY <1>2, <2>5, <3>1, <4>2, <5>1
      <4> QED BY <2>2, <4>1, <4>2
    <3> QED BY <2>2, <2>3, <3>1, <3>2, <3>3
  <2> QED BY <1>3, <1>4, <1>5, <1>6, <2>4, <2>6, <2>7 DEF WayInv, SessionInv
<1> QED BY <1>t, <1>7, <1>8

(* A PUBACK takes the first message off the queue: it was sent, so the       *)
(* broker has it.                                                            *)
LEMMA PubackKeeps ==
    ASSUME IInv, Puback
    PROVE  WayInv'
<1>n. /\ sent \in Nat /\ sent <= Len(out) /\ Len(out) \in Nat
      /\ DOMAIN out = 1 .. Len(out) /\ out \in Seq(Ids)
  BY Numbers DEF IInv
<1>s. /\ sent > 0 /\ out' = Tail(out) /\ sent' = sent - 1
      /\ UNCHANGED <<traded, unread, dropped, got, missed, skipped, gone>>
  BY DEF Puback, streamVars, brokerVars, lostVars
<1>1. out # <<>>
  BY <1>n, <1>s
<1>2. /\ Head(out) = out[1] /\ DOMAIN out' = 1 .. Len(out) - 1
      /\ \A k \in DOMAIN out' : k + 1 \in DOMAIN out /\ out'[k] = out[k + 1]
      /\ Range(out) = {Head(out)} \cup Range(out')
  BY <1>n, <1>s, <1>1, TailIs, RangeIs
<1>3. UnreadAscends'
  BY <1>s, <1>2 DEF IInv, WayInv, StreamInv, UnreadAscends
<1>4. OutAscends'
  <2>1. ASSUME NEW j \in DOMAIN out', NEW k \in DOMAIN out', j < k
        PROVE  out'[j] < out'[k]
    <3>1. j + 1 < k + 1
      BY <1>n, <1>2, <2>1
    <3> QED BY <1>2, <3>1 DEF IInv, WayInv, StreamInv, OutAscends
  <2> QED BY <1>s, <1>2, <2>1 DEF IInv, WayInv, StreamInv, OutAscends
<1>5. SentIsGot'
  <2>1. \A k \in 1 .. sent' : k + 1 \in 1 .. sent /\ k \in DOMAIN out'
    BY <1>n, <1>s, <1>2
  <2> QED BY <1>s, <1>2, <2>1 DEF IInv, WayInv, StreamInv, SentIsGot
<1>6. AllAccounted'
  <2>1. 1 \in 1 .. sent
    BY <1>n, <1>s
  <2>2. Head(out) \in got
    BY <1>2, <2>1 DEF IInv, WayInv, StreamInv, SentIsGot
  <2> QED BY <1>s, <1>2, <2>2 DEF IInv, WayInv, AllAccounted
<1>7. SessionInv' /\ ProcessedToMark'
  BY SessionStays DEF Puback
<1> QED BY <1>3, <1>4, <1>5, <1>6, <1>7 DEF WayInv, StreamInv

(* A message is handed over: it is processed, or was settled before.         *)
LEMMA DeliverKeeps ==
    ASSUME IInv, Deliver
    PROVE  WayInv'
<1> DEFINE i == backlog[handed + 1]
<1>n. /\ mark \in Int
      /\ handed \in Nat /\ handed <= Len(backlog) /\ Len(backlog) \in Nat
      /\ DOMAIN backlog = 1 .. Len(backlog)
      /\ DOMAIN processed = 1 .. Len(processed) /\ Len(processed) \in Nat
      /\ \A k \in DOMAIN backlog : backlog[k] \in Nat /\ backlog[k] \in Ids
      /\ \A k \in DOMAIN processed : processed[k] \in Nat
      /\ processed \in Seq(Ids)
  BY Numbers DEF IInv
<1>s. /\ handed' = handed + 1 /\ handed + 1 \in DOMAIN backlog
      /\ UNCHANGED <<traded, unread, out, sent, dropped, got, backlog, shed, missed, skipped, gone>>
  BY <1>n DEF Deliver, streamVars, sinkVars, brokerVars, lostVars
<1>1. i \in Nat /\ i \in Ids /\ i \in got
  BY <1>n, <1>s DEF IInv, WayInv, SessionInv
<1>2. \A k \in 1 .. handed' : k \in 1 .. handed \/ k = handed + 1
  BY <1>n, <1>s
<1>3. StreamInv' /\ AllAccounted'
  BY <1>s, StreamStays DEF lostVars
<1>4. CASE Duplicate(i)
  <2>1. UNCHANGED <<mark, processed, ever>> /\ i <= mark
    BY <1>s, <1>4 DEF Deliver, Duplicate, receiverVars
  <2>2. ProcessedToMark' /\ FirstsAscend' /\ Settled' = Settled
    BY <1>s, <2>1 DEF IInv, WayInv, SessionInv, ProcessedToMark, FirstsAscend, Settled
  <2>3. i \in Settled
    BY <1>s, <2>1 DEF IInv, WayInv, SessionInv, HandedSettled
  <2>4. HandedSettled'
    BY <1>s, <1>2, <2>1, <2>2, <2>3 DEF IInv, WayInv, SessionInv, HandedSettled
  <2>5. SessionInv'
    BY <1>s, <2>1, <2>2, <2>4 DEF IInv, WayInv, SessionInv
  <2> QED BY <1>3, <2>2, <2>5 DEF WayInv
<1>5. CASE ~ Duplicate(i)
  <2>1. mark' = i /\ processed' = Append(processed, i) /\ ever' = ever \cup {i} /\ mark < i
    <3>1. mark' = i /\ processed' = Append(processed, i) /\ ever' = ever \cup {i}
      BY <1>s, <1>5 DEF Deliver
    <3> QED BY <1>n, <1>1, <1>5, <3>1 DEF Duplicate
  <2>2. Settled' = Settled \cup {i}
    BY <1>s, <2>1 DEF Settled
  <2>3. FirstsAscend'
    BY <1>s, <2>2 DEF IInv, WayInv, SessionInv, FirstsAscend
  <2>4. HandedSettled'
    <3>1. \A k \in 1 .. handed' : backlog[k] \in Settled'
      BY <1>2, <2>2 DEF IInv, WayInv, SessionInv, HandedSettled
    <3>2. ASSUME NEW k \in DOMAIN backlog, backlog[k] <= i PROVE backlog[k] \in Settled'
      <4>1. CASE k <= handed + 1
        <5>1. k \in 1 .. handed'
          BY <1>n, <1>s, <4>1
        <5> QED BY <3>1, <5>1
      <4>2. CASE handed + 1 < k /\ backlog[k] < i
        <5>1. \/ backlog[k] \in Settled
              \/ \E r \in DOMAIN backlog : r < handed + 1 /\ backlog[r] = backlog[k]
          BY <1>s, <4>2 DEF IInv, WayInv, SessionInv, FirstsAscend
        <5>2. \A r \in DOMAIN backlog : r < handed + 1 => r \in 1 .. handed'
          BY <1>n, <1>s
        <5> QED BY <2>2, <3>1, <5>1, <5>2
      <4>3. CASE backlog[k] = i
        BY <2>2, <4>3
      <4> QED BY <1>n, <1>1, <1>s, <3>2, <4>1, <4>2, <4>3
    <3> QED BY <1>s, <2>1, <3>1, <3>2 DEF HandedSettled
  <2>5. SessionInv'
    BY <1>s, <1>1, <2>1, <2>2, <2>3, <2>4 DEF IInv, WayInv, SessionInv
  <2> HIDE DEF i
  <2>6. /\ DOMAIN processed' = 1 .. Len(processed) + 1
        /\ \A k \in 1 .. Len(processed) : processed'[k] = processed[k]
        /\ processed'[Len(processed) + 1] = i
    BY <1>n, <1>1, <2>1, AppendIs
  <2>7. \A k \in DOMAIN processed' :
            \/ k \in DOMAIN processed /\ processed'[k] = processed[k]
            \/ k = Len(processed) + 1 /\ processed'[k] = i
    BY <1>n, <2>6
  <2>8. \A k \in DOMAIN processed : processed[k] < i
    BY <1>n, <1>1, <2>1 DEF IInv, WayInv, ProcessedToMark
  <2>9. ProcessedToMark'
    <3>1. \A k \in DOMAIN processed' : processed'[k] <= mark'
      BY <1>n, <1>1, <2>1, <2>7, <2>8
    <3>2. ASSUME NEW j \in DOMAIN processed', NEW k \in DOMAIN processed', j < k
          PROVE  processed'[j] < processed'[k]
      <4>1. j \in DOMAIN processed /\ processed'[j] = processed[j]
        BY <1>n, <2>6, <3>2
      <4>2. CASE k \in DOMAIN processed /\ processed'[k] = processed[k]
        BY <3>2, <4>1, <4>2 DEF IInv, WayInv, ProcessedToMark
      <4>3. CASE processed'[k] = i
        BY <2>8, <4>1, <4>3
      <4> QED BY <2>7, <4>2, <4>3
    <3> QED BY <3>1, <3>2 DEF ProcessedToMark
  <2> QED BY <1>3, <2>5, <2>9 DEF WayInv
<1> QED BY <1>4, <1>5

(* An acknowledgement takes the first message off the session: it was handed *)
(* over, so it is settled.                                                   *)
LEMMA SubAckKeeps ==
    ASSUME IInv, SubAck
    PROVE  WayInv'
<1>n. /\ handed \in Nat /\ handed <= Len(backlog) /\ Len(backlog) \in Nat
      /\ DOMAIN backlog = 1 .. Len(backlog) /\ backlog \in Seq(Ids)
  BY Numbers DEF IInv
<1>s. /\ handed > 0 /\ backlog' = Tail(backlog) /\ handed' = handed - 1
      /\ UNCHANGED <<traded, unread, out, sent, dropped, got, shed, mark, processed, ever, missed, skipped, gone>>
  BY DEF SubAck, streamVars, sinkVars, receiverVars, lostVars
<1>1. backlog # <<>>
  BY <1>n, <1>s
<1>2. /\ Head(backlog) = backlog[1] /\ DOMAIN backlog' = 1 .. Len(backlog) - 1
      /\ \A k \in DOMAIN backlog' : k + 1 \in DOMAIN backlog /\ backlog'[k] = backlog[k + 1]
      /\ Range(backlog) = {Head(backlog)} \cup Range(backlog')
  BY <1>n, <1>s, <1>1, TailIs, RangeIs
<1>3. StreamInv' /\ AllAccounted'
  BY <1>s, StreamStays DEF lostVars
<1>4. Settled' = Settled /\ ProcessedToMark'
  BY <1>s DEF IInv, WayInv, ProcessedToMark, Settled
<1>5. backlog[1] \in Settled
  <2>1. 1 \in 1 .. handed
    BY <1>n, <1>s
  <2> QED BY <2>1 DEF IInv, WayInv, SessionInv, HandedSettled
<1>6. got' \subseteq Range(backlog') \cup Settled' /\ \A k \in DOMAIN backlog' : backlog'[k] \in got'
  BY <1>s, <1>2, <1>4, <1>5 DEF IInv, WayInv, SessionInv
<1>7. HandedSettled'
  <2>1. \A k \in 1 .. handed' : k + 1 \in 1 .. handed /\ k \in DOMAIN backlog'
    BY <1>n, <1>s, <1>2
  <2> QED BY <1>s, <1>2, <1>4, <2>1 DEF IInv, WayInv, SessionInv, HandedSettled
<1>8. FirstsAscend'
  <2> SUFFICES ASSUME NEW p \in DOMAIN backlog', NEW q \in DOMAIN backlog', p < q, backlog'[q] < backlog'[p]
               PROVE  \/ backlog'[q] \in Settled'
                      \/ \E r \in DOMAIN backlog' : r < p /\ backlog'[r] = backlog'[q]
    BY DEF FirstsAscend
  <2>1. p + 1 < q + 1 /\ backlog[q + 1] < backlog[p + 1] /\ p + 1 \in DOMAIN backlog /\ q + 1 \in DOMAIN backlog
    BY <1>n, <1>2
  <2>2. CASE backlog[q + 1] \in Settled
    BY <1>2, <1>4, <2>2
  <2>3. CASE \E r \in DOMAIN backlog : r < p + 1 /\ backlog[r] = backlog[q + 1]
    <3>1. PICK r \in DOMAIN backlog : r < p + 1 /\ backlog[r] = backlog[q + 1]
      BY <2>3
    <3>2. CASE r = 1
      BY <1>2, <1>4, <1>5, <3>1, <3>2
    <3>3. CASE r # 1
      <4>1. r - 1 \in DOMAIN backlog' /\ r - 1 < p /\ (r - 1) + 1 = r
        BY <1>n, <1>2, <3>1, <3>3
      <4>2. backlog'[r - 1] = backlog'[q]
        BY <1>2, <3>1, <4>1
      <4> QED BY <4>1, <4>2
    <3> QED BY <3>2, <3>3
  <2> QED BY <2>1, <2>2, <2>3 DEF IInv, WayInv, SessionInv, FirstsAscend
<1> QED BY <1>3, <1>4, <1>6, <1>7, <1>8, <1>s DEF IInv, WayInv, SessionInv

(* The subscriber's connection breaks, or it starts again and forgets its    *)
(* mark: nothing is handed over any more.                                    *)
LEMMA SubscriberGone ==
    ASSUME IInv, SubLinkLoss \/ SubRestart
    PROVE  WayInv'
<1>s. /\ handed' = 0
      /\ UNCHANGED <<traded, unread, out, sent, dropped, got, backlog, shed, ever, missed, skipped, gone>>
      /\ \/ UNCHANGED <<mark, processed>>
         \/ mark' = None /\ processed' = <<>>
  BY DEF SubLinkLoss, SubRestart, streamVars, sinkVars, brokerVars, receiverVars, lostVars
<1>n. /\ \A k \in DOMAIN backlog : backlog[k] \in Nat
      /\ None = -1
  BY Numbers DEF IInv, None
<1>1. StreamInv' /\ AllAccounted'
  BY <1>s, StreamStays DEF lostVars
<1>2. DOMAIN <<>> = {} /\ 1 .. 0 = {}
  OBVIOUS
<1>3. ProcessedToMark'
  BY <1>s, <1>2 DEF IInv, WayInv, ProcessedToMark
<1>4. Settled' = Settled /\ FirstsAscend'
  BY <1>s DEF IInv, WayInv, SessionInv, FirstsAscend, Settled
<1>5. HandedSettled'
  <2>1. CASE mark' = None
    <3>1. \A k \in DOMAIN backlog : ~ (backlog[k] <= mark')
      BY <1>n, <2>1
    <3> QED BY <1>s, <1>2, <3>1 DEF HandedSettled
  <2>2. CASE mark' = mark
    BY <1>s, <1>2, <1>4, <2>2 DEF IInv, WayInv, SessionInv, HandedSettled
  <2> QED BY <1>s, <2>1, <2>2
<1>6. SessionInv'
  BY <1>s, <1>4, <1>5 DEF IInv, WayInv, SessionInv
<1> QED BY <1>1, <1>3, <1>6 DEF WayInv

-----------------------------------------------------------------------------
LEMMA StepWay == IInv /\ [Next]_vars => WayInv'
<1> SUFFICES ASSUME IInv, [Next]_vars PROVE WayInv'
  OBVIOUS
<1>1. CASE Trade
  BY <1>1, FrameArrives, TradeMissed
<1>2. CASE Closes
  BY <1>2, BothStay DEF Closes, sinkVars, lostVars
<1>3. CASE Breaks
  BY <1>3, BreaksKeeps
<1>4. CASE Dial
  BY <1>4, BothStay DEF Dial, sinkVars
<1>5. CASE DialFails
  BY <1>5, BothStay DEF DialFails, sinkVars
<1>6. CASE StreamEnds
  BY <1>6, BothStay DEF StreamEnds, sinkVars
<1>7. CASE Wake
  BY <1>7, BothStay DEF Wake, sinkVars
<1>8. CASE Read
  BY <1>8, ReadKeeps
<1>9. CASE Connect
  BY <1>9, BothStay DEF Connect, streamVars
<1>10. CASE Publish
  BY <1>10, PublishKeeps
<1>11. CASE Puback
  BY <1>11, PubackKeeps
<1>12. CASE LinkLoss
  BY <1>12, BothStay DEF LinkLoss, streamVars
<1>13. CASE SubConnect
  <2>1. UNCHANGED <<got, backlog, shed, handed, mark, processed, ever>>
    BY <1>13 DEF SubConnect, brokerVars, receiverVars
  <2>2. SessionInv' /\ ProcessedToMark'
    BY <2>1 DEF IInv, WayInv, SessionInv, FirstsAscend, HandedSettled, Settled, ProcessedToMark
  <2>3. StreamInv' /\ AllAccounted'
    BY <1>13, <2>1, StreamStays DEF SubConnect, streamVars, sinkVars
  <2> QED BY <2>2, <2>3 DEF WayInv
<1>14. CASE Deliver
  BY <1>14, DeliverKeeps
<1>15. CASE SubAck
  BY <1>15, SubAckKeeps
<1>16. CASE SubLinkLoss \/ SubRestart
  BY <1>16, SubscriberGone
<1>17. CASE Crash \/ Stop
  BY <1>17, EndKeeps DEF Crash, Stop
<1>18. CASE Restart \/ Start
  BY <1>18, BothStay DEF Restart, Start, Begin, sinkVars
<1>19. CASE UNCHANGED vars
  BY <1>19, BothStay DEF vars, streamVars, sinkVars
<1> QED BY <1>1, <1>2, <1>3, <1>4, <1>5, <1>6, <1>7, <1>8, <1>9, <1>10, <1>11, <1>12,
           <1>13, <1>14, <1>15, <1>16, <1>17, <1>18, <1>19 DEF Next, Process

LEMMA Inductive == Spec => []IInv
<1>1. Init => IInv
  BY InitTyped, InitWay DEF IInv
<1>2. IInv /\ [Next]_vars => IInv'
  BY StepTyped, StepWay DEF IInv
<1> QED BY <1>1, <1>2, PTL DEF Spec

(* Of what the exchange traded, every trade is in the websocket, in paho's   *)
(* queue, with the broker, dropped and counted by send, missed between       *)
(* websockets, skipped as unreadable, or gone with the process: run() and    *)
(* send() lose none beyond that, whatever the cap and the order of faults.   *)
THEOREM AlwaysAccounted == Spec => []AllAccounted
<1>1. IInv => AllAccounted
  BY DEF IInv, WayInv
<1> QED BY <1>1, Inductive, PTL

(* One number is enough to tell duplicates: over any number of reconnects    *)
(* and restarts of both processes, and whatever either queue refuses, the    *)
(* receiver processes a trade at most once and in order between its own      *)
(* restarts, and takes for a duplicate only what it has processed or what    *)
(* its session had refused.                                                  *)
THEOREM AlwaysProcessedOnce == Spec => []ProcessedOnce
<1>1. IInv => ProcessedOnce
  BY DEF IInv, WayInv, SessionInv, Settled, ProcessedToMark, ProcessedOnce
<1> QED BY <1>1, Inductive, PTL

=============================================================================
