---------------------------- MODULE RecorderProofs ----------------------------
(***************************************************************************)
(* For every number of ticks, days, threads and faults: the recorder's      *)
(* states are well typed; what is acknowledged can be accounted for, and    *)
(* what was flushed stays readable, on every day whose file is not          *)
(* compressed twice; and while the process lives the lines of a file        *)
(* ascend.                                                                  *)
(*                                                                          *)
(* What has to be known for the first two: the file that is written to is   *)
(* that of the mark's day, and the days that threads compress are before    *)
(* it.  A day whose one thread has started has no archive yet, so as long   *)
(* as no second one is started the archive is a copy of the plain file.     *)
(***************************************************************************)
EXTENDS Recorder, SequenceTheorems, TLAPS

USE RecorderAssumption

-----------------------------------------------------------------------------
(* Sequences.                                                                *)

LEMMA InRange ==
    ASSUME NEW q, NEW x
    PROVE  x \in Range(q) <=> \E k \in DOMAIN q : q[k] = x
BY Zenon DEF Range

LEMMA EmptyIs == Range(<<>>) = {} /\ DOMAIN <<>> = {} /\ Len(<<>>) = 0
<1>1. DOMAIN <<>> = {} /\ Len(<<>>) = 0
  OBVIOUS
<1> QED BY <1>1, InRange

LEMMA ConcatIs ==
    ASSUME NEW S, NEW p \in Seq(S), NEW q \in Seq(S)
    PROVE  /\ p \o q \in Seq(S)
           /\ Len(p) \in Nat /\ Len(q) \in Nat /\ DOMAIN p = 1 .. Len(p) /\ DOMAIN q = 1 .. Len(q)
           /\ DOMAIN (p \o q) = 1 .. Len(p) + Len(q)
           /\ \A k \in 1 .. Len(p) : (p \o q)[k] = p[k]
           /\ \A k \in 1 .. Len(q) :
                Len(p) + k \in 1 .. Len(p) + Len(q) /\ (p \o q)[Len(p) + k] = q[k]
OBVIOUS

LEMMA ConcatRange ==
    ASSUME NEW S, NEW p \in Seq(S), NEW q \in Seq(S)
    PROVE  Range(p \o q) = Range(p) \cup Range(q)
<1> DEFINE c == p \o q
<1>1. /\ Len(p) \in Nat /\ Len(q) \in Nat /\ DOMAIN p = 1 .. Len(p) /\ DOMAIN q = 1 .. Len(q)
      /\ DOMAIN c = 1 .. Len(p) + Len(q)
      /\ \A k \in 1 .. Len(p) : c[k] = p[k]
      /\ \A k \in 1 .. Len(q) : Len(p) + k \in 1 .. Len(p) + Len(q) /\ c[Len(p) + k] = q[k]
  BY ConcatIs
<1> HIDE DEF c
<1>2. ASSUME NEW x \in Range(c) PROVE x \in Range(p) \/ x \in Range(q)
  <2>1. PICK k \in 1 .. Len(p) + Len(q) : c[k] = x
    BY <1>1, InRange
  <2>2. CASE k \in 1 .. Len(p)
    BY <1>1, <2>1, <2>2, InRange
  <2>3. CASE k \notin 1 .. Len(p)
    <3>1. k - Len(p) \in 1 .. Len(q) /\ Len(p) + (k - Len(p)) = k
      BY <1>1, <2>3
    <3>2. q[k - Len(p)] = x
      BY <1>1, <2>1, <3>1
    <3> QED BY <1>1, <3>1, <3>2, InRange
  <2> QED BY <2>2, <2>3
<1>3. ASSUME NEW x \in Range(p) PROVE x \in Range(c)
  <2>1. PICK k \in 1 .. Len(p) : p[k] = x
    BY <1>1, InRange
  <2>2. k \in 1 .. Len(p) + Len(q) /\ c[k] = x
    BY <1>1, <2>1
  <2> QED BY <1>1, <2>2, InRange
<1>4. ASSUME NEW x \in Range(q) PROVE x \in Range(c)
  <2>1. PICK k \in 1 .. Len(q) : q[k] = x
    BY <1>1, InRange
  <2> QED BY <1>1, <2>1, InRange
<1> QED BY <1>2, <1>3, <1>4 DEF c

LEMMA AppendIs ==
    ASSUME NEW S, NEW q \in Seq(S), NEW x \in S
    PROVE  /\ Append(q, x) \in Seq(S) /\ Len(q) \in Nat /\ DOMAIN q = 1 .. Len(q)
           /\ DOMAIN Append(q, x) = 1 .. Len(q) + 1
           /\ \A k \in 1 .. Len(q) : Append(q, x)[k] = q[k]
           /\ Append(q, x)[Len(q) + 1] = x
           /\ Append(q, x) # <<>>
           /\ Range(Append(q, x)) = Range(q) \cup {x}
<1> DEFINE a == Append(q, x)
<1>1. /\ a \in Seq(S) /\ Len(q) \in Nat /\ DOMAIN q = 1 .. Len(q)
      /\ DOMAIN a = 1 .. Len(q) + 1 /\ Len(a) = Len(q) + 1
      /\ \A k \in 1 .. Len(q) : a[k] = q[k]
      /\ a[Len(q) + 1] = x
  OBVIOUS
<1> HIDE DEF a
<1>2. a # <<>>
  BY <1>1, EmptyIs
<1>3. \A k \in 1 .. Len(q) : k \in 1 .. Len(q) + 1
  BY <1>1
<1>4. \A k \in 1 .. Len(q) + 1 : k \in 1 .. Len(q) \/ k = Len(q) + 1
  BY <1>1
<1>5. Len(q) + 1 \in 1 .. Len(q) + 1
  BY <1>1
<1>6. Range(a) = Range(q) \cup {x}
  <2>1. ASSUME NEW y \in Range(a) PROVE y \in Range(q) \cup {x}
    BY <1>1, <1>4, <2>1, InRange
  <2>2. ASSUME NEW y \in Range(q) PROVE y \in Range(a)
    BY <1>1, <1>3, <2>2, InRange
  <2>3. x \in Range(a)
    BY <1>1, <1>5, InRange
  <2> QED BY <2>1, <2>2, <2>3
<1> QED BY <1>1, <1>2, <1>6 DEF a

LEMMA RangeIn ==
    ASSUME NEW S, NEW q \in Seq(S)
    PROVE  Range(q) \subseteq S
<1>1. \A k \in DOMAIN q : q[k] \in S
  OBVIOUS
<1> QED BY <1>1, InRange

(* A stretch of a sequence, and the three it leaves of the whole.            *)
LEMMA StretchIs ==
    ASSUME NEW S, NEW q \in Seq(S), NEW k \in 0 .. Len(q), NEW n \in k .. Len(q)
    PROVE  /\ SubSeq(q, k + 1, n) \in Seq(S)
           /\ DOMAIN SubSeq(q, k + 1, n) = 1 .. n - k
           /\ \A j \in 1 .. n - k : k + j \in 1 .. Len(q) /\ SubSeq(q, k + 1, n)[j] = q[k + j]
<1>1. Len(q) \in Nat /\ k \in Int /\ n \in Int /\ k <= n /\ 0 <= k /\ n <= Len(q) /\ k + 1 \in Int
  OBVIOUS
<1>2. \A j \in k + 1 .. n : q[j] \in S
  BY <1>1
<1>3. /\ SubSeq(q, k + 1, n) \in Seq(S)
      /\ Len(SubSeq(q, k + 1, n)) = IF k + 1 <= n THEN n - (k + 1) + 1 ELSE 0
      /\ \A j \in 1 .. n - (k + 1) + 1 : SubSeq(q, k + 1, n)[j] = q[(k + 1) + j - 1]
  BY <1>1, <1>2, SubSeqProperties
<1>4. Len(SubSeq(q, k + 1, n)) = n - k /\ n - (k + 1) + 1 = n - k
  BY <1>1, <1>3
<1>5. \A j \in 1 .. n - k : (k + 1) + j - 1 = k + j /\ k + j \in 1 .. Len(q)
  BY <1>1
<1> QED BY <1>3, <1>4, <1>5

LEMMA StretchesRange ==
    ASSUME NEW S, NEW q \in Seq(S), NEW k \in 0 .. Len(q), NEW n \in k .. Len(q)
    PROVE  /\ Range(SubSeq(q, k + 1, n)) \subseteq Range(q)
           /\ Range(q) \subseteq Range(SubSeq(q, 1, k)) \cup Range(SubSeq(q, k + 1, n))
                                \cup Range(SubSeq(q, n + 1, Len(q)))
<1> DEFINE a == SubSeq(q, 1, k)
           b == SubSeq(q, k + 1, n)
           c == SubSeq(q, n + 1, Len(q))
<1>1. Len(q) \in Nat /\ DOMAIN q = 1 .. Len(q) /\ 0 \in 0 .. Len(q) /\ k \in 0 .. Len(q)
      /\ n \in 0 .. Len(q) /\ Len(q) \in n .. Len(q) /\ 0 + 1 = 1 /\ k - 0 = k
  OBVIOUS
<1>2. DOMAIN a = 1 .. k /\ \A j \in 1 .. k : a[j] = q[j]
  BY <1>1, StretchIs
<1>3. DOMAIN b = 1 .. n - k /\ \A j \in 1 .. n - k : k + j \in 1 .. Len(q) /\ b[j] = q[k + j]
  BY StretchIs
<1>4. DOMAIN c = 1 .. Len(q) - n /\ \A j \in 1 .. Len(q) - n : c[j] = q[n + j]
  BY <1>1, StretchIs
<1> HIDE DEF a, b, c
<1>5. ASSUME NEW x \in Range(b) PROVE x \in Range(q)
  BY <1>1, <1>3, InRange
<1>6. ASSUME NEW x \in Range(q) PROVE x \in Range(a) \cup Range(b) \cup Range(c)
  <2>1. PICK j \in 1 .. Len(q) : q[j] = x
    BY <1>1, InRange
  <2>2. CASE j \in 1 .. k
    BY <1>2, <2>1, <2>2, InRange
  <2>3. CASE j \in k + 1 .. n
    <3>1. j - k \in 1 .. n - k /\ k + (j - k) = j
      BY <1>1, <2>3
    <3>2. b[j - k] = x
      BY <1>3, <2>1, <3>1
    <3> QED BY <1>3, <3>1, <3>2, InRange
  <2>4. CASE j \in n + 1 .. Len(q)
    <3>1. j - n \in 1 .. Len(q) - n /\ n + (j - n) = j
      BY <1>1, <2>4
    <3>2. c[j - n] = x
      BY <1>4, <2>1, <3>1
    <3> QED BY <1>4, <3>1, <3>2, InRange
  <2> QED BY <1>1, <2>2, <2>3, <2>4
<1> QED BY <1>5, <1>6 DEF a, b, c

-----------------------------------------------------------------------------
(* Types.                                                                    *)

LEMMA CountedTyped ==
    ASSUME TypeOK, NEW f \in FaultKinds, Counted(f)
    PROVE  /\ faults' \in [FaultKinds -> Nat]
           /\ \A g \in FaultKinds : faults'[g] = IF g = f THEN faults[g] + 1 ELSE faults[g]
BY DEF TypeOK, Counted

LEMMA FaultTyped ==
    ASSUME TypeOK, NEW f \in FaultKinds, (\E max : Fault(f, max)) \/ DiskFault(f)
    PROVE  /\ faults' \in [FaultKinds -> Nat]
           /\ \A g \in FaultKinds : faults'[g] = IF g = f THEN faults[g] + 1 ELSE faults[g]
BY CountedTyped DEF Fault, DiskFault

LEMMA DayTyped ==
    /\ \A i \in Ids : DayOf[i] \in Days /\ DayOf[i] \in Nat /\ i \in Nat /\ i # None
    /\ \A d \in Days : d \in Nat /\ d # None
    /\ None \notin Ids /\ None \notin Days
    /\ \A i, j \in Ids : i <= j => DayOf[i] <= DayOf[j]
BY DEF Ids, Days, None

(* What the threads are.                                                     *)
ThreadsTyped ==
    /\ thread \in [Threads -> [day : Days \cup {None}, stage : Stages, lines : Seq(Ids)]]
    /\ \A t \in Threads : thread[t].stage = "idle" <=> thread[t].day = None

LEMMA IdleTyped ==
    /\ Idle \in [day : Days \cup {None}, stage : Stages, lines : Seq(Ids)]
    /\ Idle.stage = "idle" /\ Idle.day = None
<1>1. <<>> \in Seq(Ids)
  OBVIOUS
<1> QED BY <1>1 DEF Idle, Stages

LEMMA InitTyped == Init => TypeOK
<1> SUFFICES ASSUME Init PROVE TypeOK
  OBVIOUS
<1>1. <<>> \in Seq(Ids) /\ 0 \in 0 .. MaxId /\ 0 \in 0 .. 0
  OBVIOUS
<1>2. thread = [t \in Threads |-> Idle]
  BY DEF Init
<1>3. ThreadsTyped
  BY <1>2, IdleTyped DEF ThreadsTyped
<1>4. plain \in [Days -> Seq(Ids)] /\ gz \in [Days -> Seq(Ids) \cup {Partial}]
  BY <1>1 DEF Init
<1>5. file \in [day : Days \cup {None}, closed : BOOLEAN]
  BY DEF Init, NoFile
<1>6. faults \in [FaultKinds -> Nat]
  BY DEF Init
<1> QED BY <1>1, <1>3, <1>4, <1>5, <1>6 DEF Init, TypeOK, ThreadsTyped

(* Writing the first k lines of the buffer.                                  *)
LEMMA FlushedIs ==
    ASSUME TypeOK, NEW k \in 0 .. Len(unflushed)
    PROVE  /\ Flushed(k) \in [Days -> Seq(Ids)]
           /\ file.day # None => Flushed(k)[file.day] = plain[file.day] \o SubSeq(unflushed, 1, k)
           /\ \A d \in Days : d # file.day \/ unflushed = <<>> => Flushed(k)[d] = plain[d]
           /\ SubSeq(unflushed, 1, k) \in Seq(Ids) /\ BufferedFrom(k) \subseteq Ids
<1>1. unflushed \in Seq(Ids) /\ plain \in [Days -> Seq(Ids)]
  BY DEF TypeOK
<1>2. /\ 0 \in 0 .. Len(unflushed) /\ k \in 0 .. k /\ Len(unflushed) \in k .. Len(unflushed)
      /\ k \in 0 .. Len(unflushed) /\ 0 + 1 = 1
  BY <1>1
<1>3. SubSeq(unflushed, 1, k) \in Seq(Ids) /\ SubSeq(unflushed, k + 1, Len(unflushed)) \in Seq(Ids)
  BY <1>1, <1>2, StretchIs
<1>4. BufferedFrom(k) \subseteq Ids
  BY <1>3, RangeIn DEF BufferedFrom
<1>5. CASE file.day = None
  BY <1>1, <1>3, <1>4, <1>5 DEF Flushed
<1>6. CASE file.day # None
  <2>1. file.day \in Days
    BY <1>6 DEF TypeOK
  <2>2. plain[file.day] \o SubSeq(unflushed, 1, k) \in Seq(Ids)
    BY <1>1, <1>3, <2>1, ConcatIs
  <2>3. /\ Flushed(k) \in [Days -> Seq(Ids)]
        /\ Flushed(k)[file.day] = plain[file.day] \o SubSeq(unflushed, 1, k)
        /\ \A d \in Days : d # file.day => Flushed(k)[d] = plain[d]
    BY <1>1, <1>6, <2>1, <2>2 DEF Flushed
  <2>4. unflushed = <<>> => Flushed(k)[file.day] = plain[file.day]
    <3>1. unflushed = <<>> => k = 0
      BY EmptyIs
    <3>2. SubSeq(unflushed, 1, 0) = <<>>
      BY SubSeqEmpty
    <3>3. plain[file.day] \o <<>> = plain[file.day]
      BY <1>1, <2>1
    <3> QED BY <2>3, <3>1, <3>2, <3>3
  <2> QED BY <1>3, <1>4, <2>3, <2>4
<1> QED BY <1>5, <1>6

LEMMA AllIsIndex ==
    ASSUME TypeOK
    PROVE  /\ Len(unflushed) \in 0 .. Len(unflushed) /\ 0 \in 0 .. Len(unflushed)
           /\ Len(unflushed) \in Nat
BY DEF TypeOK

LEMMA TornTyped ==
    ASSUME TypeOK, TornOrNot
    PROVE  torn' \subseteq Days
BY DEF TypeOK, TornOrNot

(* A new line at the end of a buffer p.                                      *)
LEMMA LineIs ==
    ASSUME TypeOK, NEW i \in Ids, NEW p \in Seq(Ids), unflushed' = p \o LinesOf(i), LostIfGlued(i)
    PROVE  /\ unflushed' \in Seq(Ids) /\ lost' \subseteq Ids /\ torn' \subseteq Days
           /\ Range(p) \subseteq Range(unflushed') /\ Range(unflushed') \subseteq Range(p) \cup {i}
           /\ lost \subseteq lost' /\ i \in Range(unflushed') \cup lost'
<1>1. lost \subseteq Ids /\ torn \subseteq Days
  BY DEF TypeOK
<1>2. lost \subseteq lost' /\ lost' \subseteq Ids /\ torn' \subseteq Days
  BY <1>1 DEF LostIfGlued
<1>3. CASE Glued(i)
  <2>1. unflushed' = p /\ i \in lost'
    BY <1>3 DEF LinesOf, LostIfGlued
  <2> QED BY <1>2, <2>1
<1>4. CASE ~ Glued(i)
  <2>1. unflushed' = Append(p, i)
    BY <1>4 DEF LinesOf
  <2> QED BY <1>2, <2>1, AppendIs
<1> QED BY <1>3, <1>4

LEMMA ThreadStartedTyped ==
    ASSUME TypeOK, ThreadStarted
    PROVE  /\ ThreadsTyped' /\ begun \subseteq begun' /\ again \subseteq again'
           /\ again' \subseteq begun' /\ begun' \subseteq Days
           /\ begun' \subseteq begun \cup ({file.day} \ {None})
           /\ \A t \in Threads :
                \/ thread'[t] = thread[t]
                \/ /\ file.day # None /\ thread[t] = Idle
                   /\ thread'[t].day = file.day /\ thread'[t].stage = "started"
                   /\ file.day \in begun' /\ (file.day \in begun => file.day \in again')
           /\ \A t, u \in Threads : thread'[t] # thread[t] /\ thread'[u] # thread[u] => t = u
<1>1. CASE file.day = None
  <2>1. thread' = thread /\ begun' = begun /\ again' = again
    BY <1>1 DEF ThreadStarted, threadVars
  <2>2. ThreadsTyped
    BY DEF TypeOK, ThreadsTyped
  <2>3. ThreadsTyped'
    BY <2>1, <2>2 DEF ThreadsTyped
  <2>4. \A t \in Threads : thread'[t] = thread[t]
    BY <2>1
  <2> QED BY <2>1, <2>3, <2>4 DEF TypeOK
<1>2. CASE file.day # None
  <2>1. PICK t \in Threads :
            /\ thread[t] = Idle
            /\ thread' = [thread EXCEPT ![t] = [day |-> file.day, stage |-> "started", lines |-> <<>>]]
    BY <1>2 DEF ThreadStarted, ThreadFor
  <2>0. begun' = begun \cup {file.day} /\ again' = again \cup ({file.day} \cap begun)
    BY <1>2 DEF ThreadStarted, ThreadFor
  <2>2. /\ file.day \in Days /\ <<>> \in Seq(Ids) /\ "started" \in Stages
        /\ [day |-> file.day, stage |-> "started", lines |-> <<>>]
                \in [day : Days \cup {None}, stage : Stages, lines : Seq(Ids)]
    <3>1. file.day \in Days /\ <<>> \in Seq(Ids) /\ "started" \in Stages
      BY <1>2 DEF TypeOK, Stages
    <3> QED BY <3>1
  <2>3. ThreadsTyped
    BY DEF TypeOK, ThreadsTyped
  <2>4. /\ thread' \in [Threads -> [day : Days \cup {None}, stage : Stages, lines : Seq(Ids)]]
        /\ thread'[t].day = file.day /\ thread'[t].stage = "started"
        /\ \A u \in Threads \ {t} : thread'[u] = thread[u]
    BY <2>1, <2>2, <2>3 DEF ThreadsTyped
  <2>5. ThreadsTyped'
    BY <1>2, <2>3, <2>4 DEF ThreadsTyped
  <2>6. \A u \in Threads : u = t \/ thread'[u] = thread[u]
    BY <2>4
  <2>7. /\ begun \subseteq begun' /\ again \subseteq again' /\ again' \subseteq begun' /\ begun' \subseteq Days
        /\ begun' \subseteq begun \cup ({file.day} \ {None})
    BY <1>2, <2>0, <2>2 DEF TypeOK
  <2>8. file.day \in begun' /\ (file.day \in begun => file.day \in again')
    BY <2>0
  <2> QED BY <1>2, <2>1, <2>4, <2>5, <2>6, <2>7, <2>8
<1> QED BY <1>1, <1>2

LEMMA DieTyped ==
    ASSUME TypeOK, Die, plain' \in [Days -> Seq(Ids)], lost' \subseteq Ids, torn' \subseteq Days,
           faults' \in [FaultKinds -> Nat]
    PROVE  TypeOK'
<1>1. /\ up' = FALSE /\ mark' = None /\ file' = NoFile /\ unflushed' = <<>>
      /\ thread' = [t \in Threads |-> Idle]
      /\ linkUp' = FALSE /\ handed' = acked
      /\ UNCHANGED <<published, acked, gz, begun, again>>
  BY DEF Die
<1>2. acked' \in 0 .. handed' /\ handed' \in 0 .. published'
  BY <1>1 DEF TypeOK
<1>3. unflushed' \in Seq(Ids) /\ file' \in [day : Days \cup {None}, closed : BOOLEAN]
  BY <1>1 DEF NoFile
<1>4. ThreadsTyped'
  BY <1>1, IdleTyped DEF ThreadsTyped
<1> QED BY <1>1, <1>2, <1>3, <1>4 DEF TypeOK, ThreadsTyped

LEMMA DeliverTyped == TypeOK /\ Deliver => TypeOK'
<1> SUFFICES ASSUME TypeOK, Deliver PROVE TypeOK'
  OBVIOUS
<1>1. /\ linkUp /\ handed' = handed + 1 /\ handed' \in 0 .. published /\ acked \in 0 .. handed'
      /\ UNCHANGED <<published, acked, linkUp, gz>> /\ handed' \in Ids /\ handed' # None
  BY DEF TypeOK, Deliver, Ids, None
<1>2. CASE Duplicate(handed')
  BY <1>1, <1>2 DEF TypeOK, Deliver, procVars, threadVars
<1>3. CASE ~ Duplicate(handed')
  <2> DEFINE i == handed'
  <2>1. mark' = i /\ up' = up /\ DayOf[i] \in Days
    BY <1>1, <1>3, DayTyped DEF Deliver
  <2>2. AppendLine(i) \/ WriteFails(i) \/ Rollover(i) \/ CloseFails(i) \/ OpenFails(i)
    BY <1>3 DEF Deliver
  <2>3. i \in Ids /\ <<>> \in Seq(Ids)
    BY <1>1
  <2>a. ASSUME ThreadsTyped', plain' \in [Days -> Seq(Ids)],
               file' \in [day : Days \cup {None}, closed : BOOLEAN],
               unflushed' \in Seq(Ids), unflushed' # <<>> => file'.day # None /\ ~ file'.closed,
               lost' \subseteq Ids, torn' \subseteq Days,
               again' \subseteq begun', begun' \subseteq Days, faults' \in [FaultKinds -> Nat]
        PROVE  TypeOK'
    BY <1>1, <2>1, <2>a DEF TypeOK, ThreadsTyped, i
  <2>b. ASSUME UNCHANGED threadVars
        PROVE  ThreadsTyped' /\ again' \subseteq begun' /\ begun' \subseteq Days
    BY <2>b DEF TypeOK, ThreadsTyped, threadVars
  <2> HIDE DEF i
  <2>4. CASE AppendLine(i)
    <3>1. /\ unflushed' = unflushed \o LinesOf(i) /\ LostIfGlued(i)
          /\ file = [day |-> DayOf[i], closed |-> FALSE]
          /\ UNCHANGED <<file, plain, threadVars, faults>>
      BY <2>4 DEF AppendLine
    <3>2. file'.day # None /\ ~ file'.closed
      BY <2>1, <3>1, DayTyped
    <3>3. unflushed \in Seq(Ids)
      BY DEF TypeOK
    <3>4. unflushed' \in Seq(Ids) /\ lost' \subseteq Ids /\ torn' \subseteq Days
      BY <2>3, <3>1, <3>3, LineIs
    <3> QED BY <2>a, <2>b, <3>1, <3>2, <3>4 DEF TypeOK
  <2>5. CASE WriteFails(i)
    <3>0. PICK k \in 0 .. Len(unflushed) : \E n \in k .. Len(unflushed) :
              /\ plain' = Flushed(k)
              /\ unflushed' = SubSeq(unflushed, k + 1, n)
              /\ lost' = lost \cup {i} \cup BufferedFrom(n)
              /\ IF n = k THEN TornOrNot ELSE UNCHANGED torn
      BY <2>5 DEF WriteFails
    <3>1. PICK n \in k .. Len(unflushed) :
              /\ plain' = Flushed(k)
              /\ unflushed' = SubSeq(unflushed, k + 1, n)
              /\ lost' = lost \cup {i} \cup BufferedFrom(n)
              /\ IF n = k THEN TornOrNot ELSE UNCHANGED torn
      BY <3>0
    <3>2. unflushed \in Seq(Ids) /\ n \in 0 .. Len(unflushed)
      BY <3>1 DEF TypeOK
    <3>3. unflushed' \in Seq(Ids)
      BY <3>1, <3>2, StretchIs
    <3>4. plain' \in [Days -> Seq(Ids)] /\ lost' \subseteq Ids /\ torn' \subseteq Days
      BY <2>3, <3>1, <3>2, FlushedIs, TornTyped DEF TypeOK
    <3>5. file' = file /\ file.day # None /\ ~ file.closed /\ UNCHANGED threadVars
      BY <2>1, <2>5, DayTyped DEF WriteFails
    <3>6. faults' \in [FaultKinds -> Nat]
      BY <2>5, FaultTyped DEF WriteFails, FaultKinds
    <3> QED BY <2>a, <2>b, <3>3, <3>4, <3>5, <3>6 DEF TypeOK
  <2>6. CASE Rollover(i)
    <3>1. /\ plain' = Flushed(Len(unflushed)) /\ ThreadStarted /\ LostIfGlued(i)
          /\ file' = [day |-> DayOf[i], closed |-> FALSE]
          /\ unflushed' = LinesOf(i) /\ UNCHANGED faults
      BY <2>6 DEF Rollover, Closed
    <3>2. /\ plain' \in [Days -> Seq(Ids)] /\ ThreadsTyped'
          /\ again' \subseteq begun' /\ begun' \subseteq Days
      BY <3>1, AllIsIndex, FlushedIs, ThreadStartedTyped
    <3>3. /\ file' \in [day : Days \cup {None}, closed : BOOLEAN]
          /\ file'.day # None /\ ~ file'.closed
      BY <2>1, <3>1, DayTyped
    <3>4. unflushed' = <<>> \o LinesOf(i)
      <4>1. LinesOf(i) \in Seq(Ids)
        BY <2>3 DEF LinesOf
      <4> QED BY <3>1, <4>1
    <3>5. unflushed' \in Seq(Ids) /\ lost' \subseteq Ids /\ torn' \subseteq Days
      BY <2>3, <3>1, <3>4, LineIs
    <3> QED BY <2>a, <3>1, <3>2, <3>3, <3>5 DEF TypeOK
  <2>7. CASE CloseFails(i)
    <3>1. PICK k \in 0 .. Len(unflushed) : plain' = Flushed(k) /\ lost' = lost \cup {i} \cup BufferedFrom(k)
      BY <2>7 DEF CloseFails
    <3>2. plain' \in [Days -> Seq(Ids)] /\ lost' \subseteq Ids /\ torn' \subseteq Days
      BY <2>3, <2>7, <3>1, FlushedIs, TornTyped DEF CloseFails, TypeOK
    <3>3. /\ file' \in [day : Days \cup {None}, closed : BOOLEAN] /\ unflushed' = <<>>
          /\ UNCHANGED threadVars
      BY <2>7 DEF CloseFails, TypeOK
    <3>4. faults' \in [FaultKinds -> Nat]
      BY <2>7, FaultTyped DEF CloseFails, FaultKinds
    <3> QED BY <2>3, <2>a, <2>b, <3>2, <3>3, <3>4
  <2>8. CASE OpenFails(i)
    <3>1. plain' = Flushed(Len(unflushed)) /\ ThreadStarted /\ unflushed' = <<>>
          /\ lost' = lost \cup {i} /\ torn' = torn
      BY <2>8 DEF OpenFails, Closed
    <3>2. /\ plain' \in [Days -> Seq(Ids)] /\ ThreadsTyped'
          /\ again' \subseteq begun' /\ begun' \subseteq Days
      BY <3>1, AllIsIndex, FlushedIs, ThreadStartedTyped
    <3>3. file' \in [day : Days \cup {None}, closed : BOOLEAN]
      BY <2>8 DEF OpenFails, TypeOK, NoFile
    <3>4. lost' \subseteq Ids /\ torn' \subseteq Days
      BY <2>3, <3>1 DEF TypeOK
    <3>5. faults' \in [FaultKinds -> Nat]
      BY <2>8, FaultTyped DEF OpenFails, FaultKinds
    <3> QED BY <2>3, <2>a, <3>1, <3>2, <3>3, <3>4, <3>5
  <2> QED BY <2>2, <2>4, <2>5, <2>6, <2>7, <2>8
<1> QED BY <1>2, <1>3

LEMMA ThreadTyped ==
    ASSUME TypeOK, NEW t \in Threads, ~ Stage(t, "idle")
    PROVE  /\ thread[t].day \in Days /\ thread[t].day # None /\ thread[t].lines \in Seq(Ids)
           /\ plain[thread[t].day] \in Seq(Ids)
           /\ gz[thread[t].day] \in Seq(Ids) \cup {Partial}
<1>1. thread[t].day \in Days /\ thread[t].lines \in Seq(Ids)
  BY DEF TypeOK, Stage
<1> QED BY <1>1, DayTyped DEF TypeOK

LEMMA EndsTyped ==
    ASSUME TypeOK, NEW t \in Threads, Ends(t)
    PROVE  ThreadsTyped'
<1>1. /\ thread \in [Threads -> [day : Days \cup {None}, stage : Stages, lines : Seq(Ids)]]
      /\ \A u \in Threads : thread[u].stage = "idle" <=> thread[u].day = None
  BY DEF TypeOK
<1>2. thread' = [thread EXCEPT ![t] = Idle]
  BY DEF Ends
<1> QED BY <1>1, <1>2, IdleTyped DEF ThreadsTyped

LEMMA CompressTyped == TypeOK /\ (\E t \in Threads : Compress(t) \/ CompressFails(t)) => TypeOK'
<1> SUFFICES ASSUME TypeOK, NEW t \in Threads, Compress(t) \/ CompressFails(t) PROVE TypeOK'
  OBVIOUS
<1> DEFINE d == thread[t].day
<1>1. CASE CompressOpen(t)
  <2>1. d \in Days /\ plain[d] \in Seq(Ids) /\ d # None
    BY <1>1, ThreadTyped DEF CompressOpen, Stage
  <2>2. gz' \in [Days -> Seq(Ids) \cup {Partial}]
    BY <1>1, <2>1 DEF CompressOpen, TypeOK
  <2>3. ThreadsTyped'
    <3>1. ThreadsTyped
      BY DEF TypeOK, ThreadsTyped
    <3>2. thread' = [thread EXCEPT ![t].stage = "copying", ![t].lines = plain[d]]
      BY <1>1 DEF CompressOpen
    <3>3. "copying" \in Stages
      BY DEF Stages
    <3> QED BY <2>1, <3>1, <3>2, <3>3 DEF ThreadsTyped
  <2> QED BY <1>1, <2>2, <2>3 DEF CompressOpen, TypeOK, ThreadsTyped, sessionVars, procVars
<1>2. CASE CompressNotFound(t)
  BY <1>2, EndsTyped DEF CompressNotFound, TypeOK, ThreadsTyped, sessionVars, procVars, diskVars
<1>3. CASE CompressCopy(t)
  <2>1. d \in Days /\ thread[t].lines \in Seq(Ids) /\ d # None
    BY <1>3, ThreadTyped DEF CompressCopy, Stage
  <2>2. gz' \in [Days -> Seq(Ids) \cup {Partial}]
    <3>1. PICK lines \in Copied(t) : gz' = [gz EXCEPT ![d] = lines]
      BY <1>3 DEF CompressCopy
    <3>2. lines \in Seq(Ids) \cup {Partial}
      BY <2>1, <3>1 DEF Copied
    <3> QED BY <2>1, <3>1, <3>2 DEF TypeOK
  <2>3. ThreadsTyped'
    <3>1. ThreadsTyped
      BY DEF TypeOK, ThreadsTyped
    <3>2. thread' = [thread EXCEPT ![t].stage = "copied"]
      BY <1>3 DEF CompressCopy
    <3>3. "copied" \in Stages
      BY DEF Stages
    <3> QED BY <2>1, <3>1, <3>2, <3>3 DEF ThreadsTyped
  <2> QED BY <1>3, <2>2, <2>3 DEF CompressCopy, TypeOK, ThreadsTyped, sessionVars, procVars
<1>4. CASE CompressUnlink(t)
  <2>1. plain' \in [Days -> Seq(Ids)]
    <3>1. <<>> \in Seq(Ids)
      OBVIOUS
    <3> QED BY <1>4, <3>1 DEF CompressUnlink, TypeOK
  <2>2. ThreadsTyped'
    BY <1>4, EndsTyped DEF CompressUnlink
  <2> QED BY <1>4, <2>1, <2>2 DEF CompressUnlink, TypeOK, ThreadsTyped, sessionVars, procVars
<1>5. CASE CompressFails(t)
  <2>1. ThreadsTyped'
    BY <1>5, EndsTyped DEF CompressFails
  <2>2. faults' \in [FaultKinds -> Nat]
    BY <1>5, FaultTyped DEF CompressFails, FaultKinds
  <2> QED BY <1>5, <2>1, <2>2 DEF CompressFails, TypeOK, ThreadsTyped, sessionVars, procVars, diskVars
<1> QED BY <1>1, <1>2, <1>3, <1>4, <1>5 DEF Compress

LEMMA StepTyped == TypeOK /\ [Next]_vars => TypeOK'
<1> SUFFICES ASSUME TypeOK, [Next]_vars PROVE TypeOK'
  OBVIOUS
<1>1. CASE Publish
  <2>1. published' \in 0 .. MaxId /\ handed \in 0 .. published'
    BY <1>1 DEF Publish, TypeOK
  <2> QED BY <1>1, <2>1 DEF Publish, TypeOK, procVars, diskVars, threadVars
<1>2. CASE Connect
  BY <1>2 DEF Connect, TypeOK, procVars, diskVars, threadVars
<1>3. CASE Deliver
  BY <1>3, DeliverTyped
<1>4. CASE Ack
  <2>1. acked' \in 0 .. handed
    BY <1>4 DEF Ack, TypeOK
  <2> QED BY <1>4, <2>1 DEF Ack, TypeOK, procVars, diskVars, threadVars
<1>5. CASE LinkLoss
  <2>1. acked \in 0 .. acked /\ acked \in 0 .. published
    BY DEF TypeOK
  <2>2. faults' \in [FaultKinds -> Nat]
    BY <1>5, FaultTyped DEF LinkLoss, FaultKinds
  <2> QED BY <1>5, <2>1, <2>2 DEF LinkLoss, TypeOK, procVars, diskVars, threadVars
<1>6. CASE Flush
  <2>1. plain' = Flushed(Len(unflushed)) /\ unflushed' = <<>> /\ <<>> \in Seq(Ids)
    BY <1>6 DEF Flush, Closed
  <2>2. plain' \in [Days -> Seq(Ids)]
    BY <2>1, AllIsIndex, FlushedIs
  <2> QED BY <1>6, <2>1, <2>2 DEF Flush, TypeOK, sessionVars, threadVars
<1>7. CASE FlushRaises
  <2>1. faults' \in [FaultKinds -> Nat]
    BY <1>7, CountedTyped DEF FlushRaises, FaultKinds
  <2> QED BY <1>7, <2>1, DieTyped DEF FlushRaises, TypeOK
<1>8. CASE Crash
  <2>1. faults' \in [FaultKinds -> Nat]
    BY <1>8, FaultTyped DEF Crash, FaultKinds
  <2>2. PICK k \in 0 .. Len(unflushed) : plain' = Flushed(k) /\ lost' = lost \cup BufferedFrom(k)
    BY <1>8 DEF Crash
  <2>3. plain' \in [Days -> Seq(Ids)] /\ lost' \subseteq Ids /\ torn' \subseteq Days
    BY <1>8, <2>2, FlushedIs, TornTyped DEF Crash, TypeOK
  <2> QED BY <1>8, <2>1, <2>3, DieTyped DEF Crash
<1>9. CASE Stop
  <2>1. faults' \in [FaultKinds -> Nat]
    BY <1>9, FaultTyped DEF Stop, FaultKinds
  <2>2. plain' \in [Days -> Seq(Ids)]
    BY <1>9, AllIsIndex, FlushedIs DEF Stop, Closed
  <2> QED BY <1>9, <2>1, <2>2, DieTyped DEF Stop, TypeOK
<1>10. CASE Restart
  BY <1>10 DEF Restart, TypeOK, sessionVars, diskVars, threadVars
<1>11. CASE \E t \in Threads : Compress(t) \/ CompressFails(t)
  BY <1>11, CompressTyped
<1>12. CASE UNCHANGED vars
  BY <1>12 DEF vars, TypeOK, sessionVars, procVars, diskVars, threadVars
<1> QED BY <1>1, <1>2, <1>3, <1>4, <1>5, <1>6, <1>7, <1>8, <1>9, <1>10, <1>11, <1>12 DEF Next

(* Every reachable state of the session, the process, its threads and the    *)
(* disk is well typed: nothing is in the buffer without an open file, and a  *)
(* .gz is a whole file or known not to be.                                   *)
THEOREM TypeCorrect == Spec => []TypeOK
BY InitTyped, StepTyped, PTL DEF Spec

-----------------------------------------------------------------------------
(* The inductive invariants.                                                 *)

(* The file that is written to is that of the mark's day, and the lines in   *)
(* the buffer are of that day.                                               *)
FileOfMark ==
    /\ file.day # None => /\ mark # None /\ file.day <= DayOf[mark]
                          /\ ~ file.closed => file.day = DayOf[mark]
    /\ \A i \in Range(unflushed) : DayOf[i] = file.day

(* Days that are being compressed are before it.                             *)
ThreadsBehind ==
    \A t \in Threads : thread[t].day # None =>
        mark # None /\ thread[t].day < DayOf[mark] /\ thread[t].day \in begun

(* No .gz comes from anything but a thread.                                  *)
BegunFirst == \A d \in Days \ begun : gz[d] = <<>>

(* A day for which no second thread was started has one at most, and what    *)
(* that copies stays the plain file until it removes it.                     *)
OneThread ==
    \A t, u \in Threads :
        thread[t].day # None /\ thread[t].day \notin again /\ thread[t].day = thread[u].day => t = u

ThreadCopies(t) ==
    /\ Stage(t, "started") => gz[thread[t].day] = <<>>
    /\ Stage(t, "copying") => gz[thread[t].day] = Partial /\ thread[t].lines = plain[thread[t].day]
    /\ Stage(t, "copied") =>
        gz[thread[t].day] = plain[thread[t].day] /\ thread[t].lines = plain[thread[t].day]

ThreadsCopy == \A t \in Threads : thread[t].day \notin again => ThreadCopies(t)

ThreadInv == ThreadsBehind /\ BegunFirst /\ OneThread /\ ThreadsCopy

(* What was handed over is at or below the mark, and up to there written,    *)
(* buffered or counted as lost.                                              *)
HandedIsMarked == handed = acked \/ handed <= mark

Accounted(i) == i \in Written(DayOf[i]) \cup Range(unflushed) \cup lost

MarkedIsAccounted ==
    \A i \in Ids : (i <= acked \/ i <= mark) /\ DayOf[i] \notin again => Accounted(i)

IInv == TypeOK /\ HandedIsMarked /\ FileOfMark /\ ThreadInv /\ MarkedIsAccounted

(* The lines of a day, those in the buffer included.                         *)
Lines(d) == plain[d] \o (IF file.day = d THEN unflushed ELSE <<>>)

AscendsTo(q, m) ==
    /\ \A k \in DOMAIN q : q[k] <= m
    /\ \A j, k \in DOMAIN q : j < k => q[j] < q[k]

LinesInv == \A d \in Days : AscendsTo(Lines(d), mark)

AscendInv == TypeOK /\ (faults["death"] = 0 => LinesInv)

-----------------------------------------------------------------------------
(* What can be read, and what can be accounted for.                          *)

(* Whatever part of the buffer is written, what could be read stays; and the *)
(* lines not written are kept or lost.                                       *)
LEMMA FlushedKeeps ==
    ASSUME TypeOK, FileOfMark, gz' = gz,
           NEW k \in 0 .. Len(unflushed), NEW n \in k .. Len(unflushed), plain' = Flushed(k),
           Range(SubSeq(unflushed, k + 1, n)) \subseteq Range(unflushed'),
           lost \subseteq lost', BufferedFrom(n) \subseteq lost'
    PROVE  /\ \A d \in Days : Written(d) \subseteq Written(d)'
           /\ \A i \in Ids : Accounted(i) => Accounted(i)'
<1>1. unflushed \in Seq(Ids) /\ plain \in [Days -> Seq(Ids)]
  BY DEF TypeOK
<1>c. \A p, q \in Seq(Ids) : Range(p \o q) = Range(p) \cup Range(q)
  BY ConcatRange
<1>2. \A d \in Days : Range(plain[d]) \subseteq Range(plain'[d])
  <2> SUFFICES ASSUME NEW d \in Days PROVE Range(plain[d]) \subseteq Range(plain'[d])
    OBVIOUS
  <2>1. CASE d = file.day
    <3>1. plain'[d] = plain[d] \o SubSeq(unflushed, 1, k) /\ SubSeq(unflushed, 1, k) \in Seq(Ids)
      BY <2>1, FlushedIs, DayTyped
    <3>2. plain[d] \in Seq(Ids)
      BY <1>1
    <3> QED BY <1>c, <3>1, <3>2, Zenon
  <2>2. CASE d # file.day
    BY <2>2, FlushedIs
  <2> QED BY <2>1, <2>2
<1>3. \A d \in Days : Written(d) \subseteq Written(d)'
  BY <1>2 DEF Written
<1>4. Range(unflushed) \subseteq Range(SubSeq(unflushed, 1, k)) \cup Range(unflushed') \cup lost'
  BY <1>1, StretchesRange DEF BufferedFrom
<1>5. ASSUME NEW i \in Range(SubSeq(unflushed, 1, k)), i \in Range(unflushed)
      PROVE  i \in Written(DayOf[i])'
  <2>1. DayOf[i] = file.day
    BY <1>5 DEF FileOfMark
  <2>2. file.day # None /\ file.day \in Days
    BY <1>5, EmptyIs DEF TypeOK
  <2>3. plain'[file.day] = plain[file.day] \o SubSeq(unflushed, 1, k) /\ SubSeq(unflushed, 1, k) \in Seq(Ids)
    BY <2>2, FlushedIs
  <2>4. plain[file.day] \in Seq(Ids)
    BY <1>1, <2>2
  <2>6. i \in Range(plain'[file.day])
    BY <1>5, <1>c, <2>3, <2>4, Zenon
  <2> QED BY <2>1, <2>6 DEF Written
<1>6. ASSUME NEW i \in Ids, Accounted(i) PROVE Accounted(i)'
  <2>1. CASE i \in Written(DayOf[i])
    BY <1>3, <2>1, DayTyped DEF Accounted
  <2>2. CASE i \in Range(unflushed)
    BY <1>4, <1>5, <2>2 DEF Accounted
  <2>3. CASE i \in lost
    BY <2>3 DEF Accounted
  <2> QED BY <1>6, <2>1, <2>2, <2>3 DEF Accounted
<1> QED BY <1>3, <1>6

(* All of it: close and flush.                                               *)
LEMMA ClosedKeeps ==
    ASSUME TypeOK, FileOfMark, gz' = gz, plain' = Flushed(Len(unflushed)), lost \subseteq lost'
    PROVE  /\ \A d \in Days : Written(d) \subseteq Written(d)'
           /\ \A i \in Ids : Accounted(i) => Accounted(i)'
<1>1. Len(unflushed) \in 0 .. Len(unflushed) /\ Len(unflushed) \in Len(unflushed) .. Len(unflushed)
      /\ Len(unflushed) < Len(unflushed) + 1 /\ Len(unflushed) \in Int /\ Len(unflushed) + 1 \in Int
  BY AllIsIndex
<1>2. SubSeq(unflushed, Len(unflushed) + 1, Len(unflushed)) = <<>>
  BY <1>1, SubSeqEmpty
<1>3. /\ Range(SubSeq(unflushed, Len(unflushed) + 1, Len(unflushed))) \subseteq Range(unflushed')
      /\ BufferedFrom(Len(unflushed)) \subseteq lost'
  BY <1>2, EmptyIs DEF BufferedFrom
<1> QED BY <1>1, <1>3, FlushedKeeps

(* A part, and the rest is lost: a close that raises, or a death.            *)
LEMMA CutKeeps ==
    ASSUME TypeOK, FileOfMark, gz' = gz, NEW k \in 0 .. Len(unflushed), plain' = Flushed(k),
           lost \subseteq lost', BufferedFrom(k) \subseteq lost'
    PROVE  /\ \A d \in Days : Written(d) \subseteq Written(d)'
           /\ \A i \in Ids : Accounted(i) => Accounted(i)'
<1>1. k \in k .. Len(unflushed) /\ k < k + 1 /\ k \in Int /\ k + 1 \in Int
  BY AllIsIndex
<1>2. SubSeq(unflushed, k + 1, k) = <<>>
  BY <1>1, SubSeqEmpty
<1>3. Range(SubSeq(unflushed, k + 1, k)) \subseteq Range(unflushed')
  BY <1>2, EmptyIs
<1> QED BY <1>1, <1>3, FlushedKeeps

LEMMA CompressKeeps ==
    ASSUME TypeOK, OneThread, ThreadsCopy, NEW t \in Threads, Compress(t) \/ CompressFails(t)
    PROVE  /\ UNCHANGED <<acked, mark, file, unflushed, lost, begun, again>>
           /\ \A e \in Days \ again : Written(e) \subseteq Written(e)'
<1> DEFINE d == thread[t].day
<1>s. UNCHANGED <<acked, mark, file, unflushed, lost, begun, again>>
  BY DEF Compress, CompressOpen, CompressNotFound, CompressCopy, CompressUnlink, CompressFails,
         sessionVars, procVars
<1>1. CASE UNCHANGED <<plain, gz>>
  BY <1>s, <1>1 DEF Written
<1>2. CASE CompressOpen(t)
  <2>1. d \in Days /\ plain' = plain /\ gz' = [gz EXCEPT ![d] = Partial]
    BY <1>2, ThreadTyped DEF CompressOpen, Stage
  <2>2. d \notin again => Range(gz[d]) = {}
    BY <1>2, EmptyIs DEF CompressOpen, ThreadsCopy, ThreadCopies
  <2> QED BY <1>s, <2>1, <2>2 DEF Written, TypeOK
<1>3. CASE CompressCopy(t)
  <2>1. d \in Days /\ plain' = plain /\ (d \notin again => gz[d] = Partial)
    BY <1>3, ThreadTyped DEF CompressCopy, Stage, ThreadsCopy, ThreadCopies
  <2>2. PICK lines \in Copied(t) : gz' = [gz EXCEPT ![d] = lines]
    BY <1>3 DEF CompressCopy
  <2> QED BY <1>s, <2>1, <2>2 DEF Written, TypeOK
<1>4. CASE CompressUnlink(t)
  <2>1. /\ d \in Days /\ gz' = gz /\ (d \notin again => gz[d] = plain[d])
        /\ plain' = [plain EXCEPT ![d] = <<>>] /\ plain[d] \in Seq(Ids)
    BY <1>4, ThreadTyped DEF CompressUnlink, Unlinkable, Stage, ThreadsCopy, ThreadCopies
  <2>2. d \notin again => gz[d] # Partial
    <3>1. Partial[1] = None /\ 1 \in DOMAIN Partial
      BY DEF Partial
    <3>2. \A k \in DOMAIN plain[d] : plain[d][k] # None
      BY <2>1, DayTyped
    <3> QED BY <2>1, <3>1, <3>2
  <2> QED BY <1>s, <2>1, <2>2 DEF Written, TypeOK
<1> QED BY <1>1, <1>2, <1>3, <1>4 DEF Compress, CompressNotFound, CompressFails, diskVars

-----------------------------------------------------------------------------
(* The threads.                                                              *)

(* Only the open file is written to, and no thread copies that.              *)
LEMMA WriterKeepsThreads ==
    ASSUME TypeOK, FileOfMark, ThreadInv, UNCHANGED <<gz, thread, begun, again>>,
           NEW k \in 0 .. Len(unflushed), plain' = Flushed(k)
    PROVE  BegunFirst' /\ OneThread' /\ ThreadsCopy'
<1>1. BegunFirst' /\ OneThread'
  BY DEF ThreadInv, BegunFirst, OneThread
<1>2. ASSUME NEW t \in Threads, thread[t].day \notin again PROVE ThreadCopies(t)'
  <2>1. CASE Stage(t, "idle")
    BY <2>1 DEF ThreadCopies, Stage
  <2>2. CASE ~ Stage(t, "idle")
    <3>1. thread[t].day \in Days /\ thread[t].day # None
      BY <2>2, ThreadTyped
    <3>2. thread[t].day # file.day \/ unflushed = <<>>
      BY <3>1, DayTyped DEF ThreadInv, ThreadsBehind, FileOfMark, TypeOK
    <3>3. plain'[thread[t].day] = plain[thread[t].day]
      BY <3>1, <3>2, FlushedIs
    <3> QED BY <1>2, <3>3 DEF ThreadInv, ThreadsCopy, ThreadCopies, Stage
  <2> QED BY <2>1, <2>2
<1> QED BY <1>1, <1>2 DEF ThreadsCopy

(* A rollover: the closed file's day gets a thread, its first or not.        *)
LEMMA ThreadStartedKeeps ==
    ASSUME TypeOK, FileOfMark, ThreadInv, ThreadStarted, gz' = gz, plain' = Flushed(Len(unflushed)),
           mark' \in Ids, mark # None => DayOf[mark] <= DayOf[mark'], file.day # DayOf[mark']
    PROVE  ThreadInv'
<1>t. /\ \A t \in Threads :
            \/ thread'[t] = thread[t]
            \/ /\ file.day # None /\ thread[t] = Idle
               /\ thread'[t].day = file.day /\ thread'[t].stage = "started"
               /\ file.day \in begun' /\ (file.day \in begun => file.day \in again')
      /\ \A t, u \in Threads : thread'[t] # thread[t] /\ thread'[u] # thread[u] => t = u
      /\ begun \subseteq begun' /\ again \subseteq again'
  BY ThreadStartedTyped
<1>f. file.day # None => file.day < DayOf[mark'] /\ file.day \in Days
  BY DayTyped DEF FileOfMark, TypeOK
<1>1. ThreadsBehind'
  <2> SUFFICES ASSUME NEW t \in Threads, thread'[t].day # None
               PROVE  mark' # None /\ thread'[t].day < DayOf[mark'] /\ thread'[t].day \in begun'
    BY DEF ThreadsBehind
  <2>1. CASE thread'[t] = thread[t]
    <3>1. mark # None /\ thread[t].day < DayOf[mark] /\ thread[t].day \in begun /\ mark \in Ids
          /\ thread[t].day \in Days
      BY <2>1 DEF ThreadInv, ThreadsBehind, TypeOK
    <3>2. thread[t].day \in Nat /\ DayOf[mark] \in Nat /\ DayOf[mark'] \in Nat /\ mark' # None
      BY <3>1, DayTyped
    <3> QED BY <1>t, <2>1, <3>1, <3>2
  <2>2. CASE thread'[t] # thread[t]
    BY <1>t, <1>f, <2>2, DayTyped
  <2> QED BY <2>1, <2>2
<1>2. BegunFirst'
  BY <1>t DEF ThreadInv, BegunFirst
<1>3. OneThread'
  <2> SUFFICES ASSUME NEW t \in Threads, NEW u \in Threads, thread'[t].day # None,
                      thread'[t].day \notin again', thread'[t].day = thread'[u].day
               PROVE  t = u
    BY DEF OneThread
  <2>1. CASE thread'[t] = thread[t] /\ thread'[u] = thread[u]
    BY <1>t, <2>1 DEF ThreadInv, OneThread
  <2>2. CASE thread'[t] # thread[t] /\ thread'[u] # thread[u]
    BY <1>t, <2>2
  <2>3. ~ (thread'[t] # thread[t] /\ thread'[u] = thread[u])
    BY <1>t DEF ThreadInv, ThreadsBehind
  <2>4. ~ (thread'[t] = thread[t] /\ thread'[u] # thread[u])
    BY <1>t DEF ThreadInv, ThreadsBehind
  <2> QED BY <2>1, <2>2, <2>3, <2>4
<1>4. ThreadsCopy'
  <2> SUFFICES ASSUME NEW t \in Threads, thread'[t].day \notin again' PROVE ThreadCopies(t)'
    BY DEF ThreadsCopy
  <2>1. CASE thread'[t] = thread[t]
    <3>1. thread[t].day \notin again
      BY <1>t, <2>1
    <3>2. CASE Stage(t, "idle")
      BY <2>1, <3>2 DEF ThreadCopies, Stage
    <3>3. CASE ~ Stage(t, "idle")
      <4>1. thread[t].day \in Days /\ thread[t].day # None
        BY <3>3, ThreadTyped
      <4>2. thread[t].day # file.day \/ unflushed = <<>>
        BY <4>1, DayTyped DEF ThreadInv, ThreadsBehind, FileOfMark, TypeOK
      <4>3. plain'[thread[t].day] = plain[thread[t].day]
        BY <4>1, <4>2, AllIsIndex, FlushedIs
      <4> QED BY <2>1, <3>1, <4>3 DEF ThreadInv, ThreadsCopy, ThreadCopies, Stage
    <3> QED BY <3>2, <3>3
  <2>2. CASE thread'[t] # thread[t]
    <3>1. /\ thread'[t].day = file.day /\ thread'[t].stage = "started" /\ file.day \in Days
          /\ file.day \notin begun
      BY <1>t, <1>f, <2>2
    <3>2. gz[file.day] = <<>>
      BY <3>1 DEF ThreadInv, BegunFirst
    <3> QED BY <3>1, <3>2 DEF ThreadCopies, Stage
  <2> QED BY <2>1, <2>2
<1> QED BY <1>1, <1>2, <1>3, <1>4 DEF ThreadInv

(* A thread that ends, or goes a stage further.                              *)
LEMMA ThreadMoves ==
    ASSUME TypeOK, ThreadInv, NEW t \in Threads, UNCHANGED <<mark, begun, again>>,
           thread'[t].day \in {None, thread[t].day},
           \A u \in Threads \ {t} : thread'[u] = thread[u],
           \A e \in Days : e # thread[t].day => gz'[e] = gz[e] /\ plain'[e] = plain[e],
           thread[t].day = None => UNCHANGED <<plain, gz>>,
           thread'[t].day \notin again => ThreadCopies(t)'
    PROVE  ThreadInv'
<1>1. ThreadsBehind'
  BY DEF ThreadInv, ThreadsBehind
<1>2. OneThread'
  <2>1. \A u \in Threads : thread'[u].day \in {None, thread[u].day}
    OBVIOUS
  <2> QED BY <2>1 DEF ThreadInv, OneThread
<1>3. BegunFirst'
  BY DEF ThreadInv, BegunFirst, ThreadsBehind
<1>4. ThreadsCopy'
  <2>1. ASSUME NEW u \in Threads, u # t, thread[u].day \notin again PROVE ThreadCopies(u)'
    <3>1. CASE Stage(u, "idle")
      BY <2>1, <3>1 DEF ThreadCopies, Stage
    <3>2. CASE ~ Stage(u, "idle")
      <4>1. thread[u].day \in Days /\ thread[u].day # None
        BY <3>2, ThreadTyped
      <4>2. thread[u].day # thread[t].day
        BY <2>1, <4>1 DEF ThreadInv, OneThread
      <4>3. /\ gz'[thread[u].day] = gz[thread[u].day] /\ plain'[thread[u].day] = plain[thread[u].day]
            /\ thread'[u] = thread[u]
        BY <2>1, <4>1, <4>2
      <4> QED BY <2>1, <4>3 DEF ThreadInv, ThreadsCopy, ThreadCopies, Stage
    <3> QED BY <3>1, <3>2
  <2> QED BY <2>1 DEF ThreadsCopy
<1> QED BY <1>1, <1>2, <1>3, <1>4 DEF ThreadInv

LEMMA EndsIs ==
    ASSUME TypeOK, NEW t \in Threads, Ends(t)
    PROVE  /\ thread'[t].day = None /\ ThreadCopies(t)'
           /\ \A u \in Threads \ {t} : thread'[u] = thread[u]
<1>1. thread'[t] = Idle /\ \A u \in Threads \ {t} : thread'[u] = thread[u]
  BY DEF Ends, TypeOK
<1> QED BY <1>1, IdleTyped DEF ThreadCopies, Stage

LEMMA CompressStep ==
    ASSUME TypeOK, ThreadInv, NEW t \in Threads, Compress(t) \/ CompressFails(t)
    PROVE  ThreadInv'
<1> DEFINE d == thread[t].day
<1>s. UNCHANGED <<mark, begun, again>>
  BY CompressKeeps DEF ThreadInv
<1>1. CASE CompressOpen(t)
  <2>1. /\ thread' = [thread EXCEPT ![t].stage = "copying", ![t].lines = plain[d]]
        /\ gz' = [gz EXCEPT ![d] = Partial] /\ plain' = plain
    BY <1>1 DEF CompressOpen
  <2>2. d \in Days /\ d # None
    BY <1>1, ThreadTyped DEF CompressOpen, Stage
  <2>3. /\ thread'[t].day = d /\ thread'[t].stage = "copying" /\ thread'[t].lines = plain[d]
        /\ \A u \in Threads \ {t} : thread'[u] = thread[u]
    BY <2>1 DEF TypeOK
  <2>4. gz'[d] = Partial /\ \A e \in Days : e # d => gz'[e] = gz[e]
    BY <2>1, <2>2 DEF TypeOK
  <2>5. ThreadCopies(t)'
    BY <2>1, <2>3, <2>4 DEF ThreadCopies, Stage
  <2> QED BY <1>s, <2>1, <2>2, <2>3, <2>4, <2>5, ThreadMoves
<1>2. CASE CompressCopy(t)
  <2>1. thread' = [thread EXCEPT ![t].stage = "copied"] /\ plain' = plain
    BY <1>2 DEF CompressCopy
  <2>2. d \in Days /\ d # None
    BY <1>2, ThreadTyped DEF CompressCopy, Stage
  <2>3. /\ thread'[t].day = d /\ thread'[t].stage = "copied" /\ thread'[t].lines = thread[t].lines
        /\ \A u \in Threads \ {t} : thread'[u] = thread[u]
    BY <2>1, <2>2 DEF TypeOK
  <2>4. PICK lines \in Copied(t) : gz' = [gz EXCEPT ![d] = lines]
    BY <1>2 DEF CompressCopy
  <2>5. \A e \in Days : e # d => gz'[e] = gz[e]
    BY <2>4 DEF TypeOK
  <2>6. ASSUME d \notin again PROVE ThreadCopies(t)'
    <3>1. thread[t].lines = plain[d]
      BY <1>2, <2>6 DEF CompressCopy, ThreadInv, ThreadsCopy, ThreadCopies
    <3>2. Copied(t) = {thread[t].lines}
      BY <2>2, <2>6 DEF Copied, ThreadInv, OneThread
    <3>3. gz'[d] = plain[d]
      BY <2>2, <2>4, <3>1, <3>2 DEF TypeOK
    <3> QED BY <2>1, <2>3, <3>1, <3>3 DEF ThreadCopies, Stage
  <2> QED BY <1>s, <2>1, <2>2, <2>3, <2>5, <2>6, ThreadMoves
<1>3. CASE CompressUnlink(t)
  <2>1. Ends(t) /\ gz' = gz /\ plain' = [plain EXCEPT ![d] = <<>>]
    BY <1>3 DEF CompressUnlink
  <2>2. d \in Days /\ d # None
    BY <1>3, ThreadTyped DEF CompressUnlink, Unlinkable, Stage
  <2>3. \A e \in Days : e # d => plain'[e] = plain[e]
    BY <2>1 DEF TypeOK
  <2> QED BY <1>s, <2>1, <2>2, <2>3, EndsIs, ThreadMoves
<1>4. CASE CompressNotFound(t) \/ CompressFails(t)
  <2>1. Ends(t) /\ UNCHANGED <<plain, gz>>
    BY <1>4 DEF CompressNotFound, CompressFails, diskVars
  <2> QED BY <1>s, <2>1, EndsIs, ThreadMoves
<1> QED BY <1>1, <1>2, <1>3, <1>4 DEF Compress

-----------------------------------------------------------------------------
(* The steps.                                                                *)

(* What a step may not do to the data: take back a line that can be read on  *)
(* a day that stays accounted for, or a tick from the accounts.              *)
Kept ==
    /\ again \subseteq again'
    /\ \A d \in Days \ again' : Written(d) \subseteq Written(d)'
    /\ \A i \in Ids : DayOf[i] \notin again' /\ Accounted(i) => Accounted(i)'

(* Steps that touch no tick.                                                 *)
LEMMA Untouched ==
    ASSUME FileOfMark, ThreadInv, UNCHANGED <<mark, file, unflushed, plain, gz, thread, begun, again, lost>>
    PROVE  FileOfMark' /\ ThreadInv' /\ Kept
<1>1. FileOfMark'
  BY DEF FileOfMark
<1>2. ThreadsBehind' /\ BegunFirst' /\ OneThread'
  BY DEF ThreadInv, ThreadsBehind, BegunFirst, OneThread
<1>3. ThreadsCopy'
  BY DEF ThreadInv, ThreadsCopy, ThreadCopies, Stage
<1>4. Kept
  BY DEF Kept, Written, Accounted
<1> QED BY <1>1, <1>2, <1>3, <1>4 DEF ThreadInv

(* A new tick is beyond the mark, and its day not before the mark's.         *)
LEMMA NewTick ==
    ASSUME TypeOK, HandedIsMarked, Deliver, ~ Duplicate(handed')
    PROVE  /\ handed' \in Ids /\ mark' = handed' /\ mark < handed'
           /\ mark # None => mark \in Ids /\ DayOf[mark] <= DayOf[handed']
           /\ \A i \in Ids : i <= handed' => i <= acked \/ i <= mark \/ i = handed'
           /\ acked' = acked /\ gz' = gz
<1>1. /\ handed' = handed + 1 /\ handed \in Nat /\ acked \in Nat /\ mark \in Nat
      /\ acked <= handed /\ handed' \in Ids /\ mark < handed' /\ acked' = acked /\ gz' = gz
      /\ mark' = handed'
  BY DEF Deliver, TypeOK, Duplicate, Ids, None
<1>2. mark # None => mark \in Ids /\ DayOf[mark] <= DayOf[handed']
  BY <1>1, DayTyped DEF TypeOK
<1>3. \A i \in Ids : i <= handed' => i <= acked \/ i <= mark \/ i = handed'
  BY <1>1 DEF HandedIsMarked, Ids
<1> QED BY <1>1, <1>2, <1>3

(* A tick appended, or given up by a write that raises: file and threads     *)
(* stay as they are.                                                         *)
LEMMA AppendKeeps ==
    ASSUME TypeOK, HandedIsMarked, FileOfMark, ThreadInv, Deliver, ~ Duplicate(handed'),
           NEW i, i = handed', AppendLine(i) \/ WriteFails(i)
    PROVE  FileOfMark' /\ ThreadInv' /\ Kept /\ Accounted(i)'
<1>n. /\ i \in Ids /\ mark' = i /\ gz' = gz /\ DayOf[i] \in Nat
      /\ mark # None => mark \in Ids /\ DayOf[mark] <= DayOf[i] /\ DayOf[mark] \in Nat
  BY NewTick, DayTyped
<1>s. /\ file = [day |-> DayOf[i], closed |-> FALSE] /\ file' = file
      /\ UNCHANGED <<thread, begun, again>>
  BY DEF AppendLine, WriteFails, threadVars
<1>u. unflushed \in Seq(Ids)
  BY DEF TypeOK
<1>1. /\ Range(unflushed') \subseteq Range(unflushed) \cup {i} /\ i \in Range(unflushed') \cup lost'
      /\ \E k \in 0 .. Len(unflushed) : plain' = Flushed(k)
      /\ \A d \in Days : Written(d) \subseteq Written(d)'
      /\ \A j \in Ids : Accounted(j) => Accounted(j)'
  <2>1. CASE AppendLine(i)
    <3>1. /\ unflushed' = unflushed \o LinesOf(i) /\ LostIfGlued(i) /\ plain' = plain
      BY <2>1 DEF AppendLine
    <3>2. /\ Range(unflushed) \subseteq Range(unflushed')
          /\ Range(unflushed') \subseteq Range(unflushed) \cup {i}
          /\ lost \subseteq lost' /\ i \in Range(unflushed') \cup lost'
      BY <1>n, <1>u, <3>1, LineIs
    <3>3. Flushed(0) = plain
      <4>1. SubSeq(unflushed, 1, 0) = <<>>
        BY SubSeqEmpty
      <4>2. \A d \in Days : Flushed(0)[d] = plain[d]
        <5> SUFFICES ASSUME NEW d \in Days PROVE Flushed(0)[d] = plain[d]
          OBVIOUS
        <5>1. plain[d] \o <<>> = plain[d]
          BY DEF TypeOK
        <5> QED BY <4>1, <5>1, AllIsIndex, FlushedIs, DayTyped
      <4>3. Flushed(0) \in [Days -> Seq(Ids)] /\ plain \in [Days -> Seq(Ids)]
        BY AllIsIndex, FlushedIs DEF TypeOK
      <4> QED BY <4>2, <4>3
    <3> QED BY <1>n, <3>1, <3>2, <3>3, AllIsIndex DEF Written, Accounted
  <2>2. CASE WriteFails(i)
    <3>0. PICK k \in 0 .. Len(unflushed) : \E n \in k .. Len(unflushed) :
              /\ plain' = Flushed(k)
              /\ unflushed' = SubSeq(unflushed, k + 1, n)
              /\ lost' = lost \cup {i} \cup BufferedFrom(n)
      BY <2>2 DEF WriteFails
    <3>1. PICK n \in k .. Len(unflushed) :
              /\ plain' = Flushed(k)
              /\ unflushed' = SubSeq(unflushed, k + 1, n)
              /\ lost' = lost \cup {i} \cup BufferedFrom(n)
      BY <3>0
    <3>2. Range(unflushed') \subseteq Range(unflushed)
      BY <1>u, <3>1, StretchesRange
    <3>3. /\ \A d \in Days : Written(d) \subseteq Written(d)'
          /\ \A j \in Ids : Accounted(j) => Accounted(j)'
      <4>1. /\ Range(SubSeq(unflushed, k + 1, n)) \subseteq Range(unflushed')
            /\ lost \subseteq lost' /\ BufferedFrom(n) \subseteq lost'
        BY <3>1
      <4> QED BY <1>n, <3>1, <4>1, FlushedKeeps
    <3> QED BY <3>1, <3>2, <3>3
  <2> QED BY <2>1, <2>2
<1>2. FileOfMark'
  BY <1>n, <1>s, <1>1, DayTyped DEF FileOfMark
<1>3. ThreadInv'
  <2>1. ThreadsBehind'
    <3> SUFFICES ASSUME NEW t \in Threads, thread[t].day # None
                 PROVE  mark' # None /\ thread[t].day < DayOf[mark'] /\ thread[t].day \in begun
      BY <1>s DEF ThreadsBehind
    <3>1. mark # None /\ thread[t].day < DayOf[mark] /\ thread[t].day \in begun /\ thread[t].day \in Days
      BY DEF ThreadInv, ThreadsBehind, TypeOK
    <3> QED BY <1>n, <3>1, DayTyped
  <2> QED BY <1>n, <1>s, <1>1, <2>1, WriterKeepsThreads DEF ThreadInv
<1>4. Kept
  BY <1>s, <1>1 DEF Kept
<1>5. Accounted(i)'
  BY <1>1 DEF Accounted
<1> QED BY <1>2, <1>3, <1>4, <1>5

(* A rollover whose close raises: the file stays, closed.                    *)
LEMMA CloseFailsKeeps ==
    ASSUME TypeOK, HandedIsMarked, FileOfMark, ThreadInv, Deliver, ~ Duplicate(handed'),
           NEW i, i = handed', CloseFails(i)
    PROVE  FileOfMark' /\ ThreadInv' /\ Kept /\ Accounted(i)'
<1>n. /\ i \in Ids /\ mark' = i /\ gz' = gz /\ DayOf[i] \in Nat
      /\ mark # None => mark \in Ids /\ DayOf[mark] <= DayOf[i] /\ DayOf[mark] \in Nat
  BY NewTick, DayTyped
<1>s. /\ file.day \notin {None, DayOf[i]} /\ file' = [file EXCEPT !.closed = TRUE] /\ unflushed' = <<>>
      /\ UNCHANGED <<thread, begun, again>> /\ file'.day = file.day /\ file'.closed
  BY DEF CloseFails, threadVars, TypeOK
<1>1. PICK k \in 0 .. Len(unflushed) : plain' = Flushed(k) /\ lost' = lost \cup {i} \cup BufferedFrom(k)
  BY DEF CloseFails
<1>2. FileOfMark'
  <2>1. mark # None /\ file.day <= DayOf[mark] /\ file.day \in Nat
    BY <1>s, DayTyped DEF FileOfMark, TypeOK
  <2>2. file.day <= DayOf[i] /\ i # None
    BY <1>n, <2>1, DayTyped
  <2> QED BY <1>n, <1>s, <2>2, EmptyIs DEF FileOfMark
<1>3. ThreadInv'
  <2>1. ThreadsBehind'
    <3> SUFFICES ASSUME NEW t \in Threads, thread[t].day # None
                 PROVE  mark' # None /\ thread[t].day < DayOf[mark'] /\ thread[t].day \in begun
      BY <1>s DEF ThreadsBehind
    <3>1. mark # None /\ thread[t].day < DayOf[mark] /\ thread[t].day \in begun /\ thread[t].day \in Days
      BY DEF ThreadInv, ThreadsBehind, TypeOK
    <3> QED BY <1>n, <3>1, DayTyped
  <2> QED BY <1>n, <1>s, <1>1, <2>1, WriterKeepsThreads DEF ThreadInv
<1>4. Kept
  <2>1. lost \subseteq lost' /\ BufferedFrom(k) \subseteq lost'
    BY <1>1
  <2> QED BY <1>n, <1>s, <1>1, <2>1, CutKeeps DEF Kept
<1>5. Accounted(i)'
  BY <1>1 DEF Accounted
<1> QED BY <1>2, <1>3, <1>4, <1>5

(* A rollover, to a new file or to one that cannot be opened.                *)
LEMMA RolloverKeeps ==
    ASSUME TypeOK, HandedIsMarked, FileOfMark, ThreadInv, Deliver, ~ Duplicate(handed'),
           NEW i, i = handed', Rollover(i) \/ OpenFails(i)
    PROVE  FileOfMark' /\ ThreadInv' /\ Kept /\ Accounted(i)'
<1>n. /\ i \in Ids /\ mark' = i /\ gz' = gz /\ DayOf[i] \in Nat
      /\ mark # None => mark \in Ids /\ DayOf[mark] <= DayOf[i] /\ DayOf[mark] \in Nat
  BY NewTick, DayTyped
<1>s. file.day # DayOf[i] /\ plain' = Flushed(Len(unflushed)) /\ ThreadStarted
  BY DEF Rollover, OpenFails, Closed
<1>t. again \subseteq again'
  BY <1>s, ThreadStartedTyped
<1>1. /\ lost \subseteq lost' /\ i \in Range(unflushed') \cup lost' /\ FileOfMark'
  <2>1. CASE Rollover(i)
    <3>1. /\ file' = [day |-> DayOf[i], closed |-> FALSE] /\ unflushed' = LinesOf(i) /\ LostIfGlued(i)
      BY <2>1 DEF Rollover
    <3>2. unflushed' = <<>> \o LinesOf(i) /\ <<>> \in Seq(Ids)
      <4>1. LinesOf(i) \in Seq(Ids)
        BY <1>n DEF LinesOf
      <4> QED BY <3>1, <4>1
    <3>3. /\ Range(unflushed') \subseteq {i}
          /\ lost \subseteq lost' /\ i \in Range(unflushed') \cup lost'
      BY <1>n, <3>1, <3>2, LineIs, EmptyIs
    <3>4. FileOfMark'
      BY <1>n, <3>1, <3>3, DayTyped DEF FileOfMark
    <3> QED BY <3>3, <3>4
  <2>2. CASE OpenFails(i)
    <3>1. /\ file' = IF file.day = None THEN NoFile ELSE [file EXCEPT !.closed = TRUE]
          /\ unflushed' = <<>> /\ lost' = lost \cup {i}
      BY <2>2 DEF OpenFails
    <3>2. file'.day = file.day /\ (file.day # None => file'.closed)
      BY <3>1 DEF NoFile, TypeOK
    <3>3. file.day # None => file.day <= DayOf[i]
      BY <1>n, DayTyped DEF FileOfMark, TypeOK
    <3>4. FileOfMark'
      BY <1>n, <3>1, <3>2, <3>3, EmptyIs, DayTyped DEF FileOfMark
    <3> QED BY <3>1, <3>4
  <2> QED BY <2>1, <2>2
<1>2. ThreadInv'
  BY <1>n, <1>s, ThreadStartedKeeps
<1>3. Kept
  BY <1>n, <1>s, <1>t, <1>1, ClosedKeeps DEF Kept
<1>4. Accounted(i)'
  BY <1>1 DEF Accounted
<1> QED BY <1>1, <1>2, <1>3, <1>4

(* A death takes mark, file and threads.                                     *)
LEMMA DeathKeeps ==
    ASSUME TypeOK, FileOfMark, ThreadInv, Crash \/ Stop \/ FlushRaises
    PROVE  FileOfMark' /\ ThreadInv' /\ Kept
<1>s. /\ mark' = None /\ file' = NoFile /\ unflushed' = <<>> /\ thread' = [t \in Threads |-> Idle]
      /\ UNCHANGED <<acked, gz, begun, again>>
  BY DEF Crash, Stop, FlushRaises, Die
<1>i. \A t \in Threads : thread'[t].day = None /\ thread'[t].stage = "idle"
  BY <1>s, IdleTyped
<1>1. FileOfMark'
  BY <1>s, EmptyIs DEF FileOfMark, NoFile
<1>2. ThreadInv'
  <2>1. ThreadsBehind' /\ OneThread'
    BY <1>i DEF ThreadsBehind, OneThread
  <2>2. BegunFirst'
    BY <1>s DEF ThreadInv, BegunFirst
  <2>3. ThreadsCopy'
    BY <1>i DEF ThreadsCopy, ThreadCopies, Stage
  <2> QED BY <2>1, <2>2, <2>3 DEF ThreadInv
<1>3. /\ \A d \in Days : Written(d) \subseteq Written(d)'
      /\ \A i \in Ids : Accounted(i) => Accounted(i)'
  <2>1. CASE Crash
    <3>1. PICK k \in 0 .. Len(unflushed) : plain' = Flushed(k) /\ lost' = lost \cup BufferedFrom(k)
      BY <2>1 DEF Crash
    <3>2. lost \subseteq lost' /\ BufferedFrom(k) \subseteq lost'
      BY <3>1
    <3> QED BY <1>s, <3>1, <3>2, CutKeeps
  <2>2. CASE Stop
    <3>1. plain' = Flushed(Len(unflushed)) /\ lost' = lost
      BY <2>2 DEF Stop, Closed
    <3> QED BY <1>s, <3>1, ClosedKeeps
  <2>3. CASE FlushRaises
    <3>1. plain' = plain /\ lost' = lost /\ unflushed = <<>>
      BY <2>3 DEF FlushRaises, TypeOK
    <3> QED BY <1>s, <3>1, EmptyIs DEF Written, Accounted
  <2> QED BY <2>1, <2>2, <2>3
<1> QED BY <1>s, <1>1, <1>2, <1>3 DEF Kept

LEMMA FlushKeeps ==
    ASSUME TypeOK, FileOfMark, ThreadInv, Flush
    PROVE  FileOfMark' /\ ThreadInv' /\ Kept
<1>s. /\ unflushed' = <<>> /\ plain' = Flushed(Len(unflushed))
      /\ UNCHANGED <<acked, mark, file, gz, thread, begun, again, lost>>
  BY DEF Flush, Closed, sessionVars, threadVars
<1>1. FileOfMark'
  BY <1>s, EmptyIs DEF FileOfMark
<1>2. ThreadInv'
  BY <1>s, AllIsIndex, WriterKeepsThreads DEF ThreadInv, ThreadsBehind
<1>3. Kept
  BY <1>s, ClosedKeeps DEF Kept
<1> QED BY <1>1, <1>2, <1>3

LEMMA StepHanded == TypeOK /\ HandedIsMarked /\ [Next]_vars => HandedIsMarked'
<1> SUFFICES ASSUME TypeOK, HandedIsMarked, [Next]_vars PROVE HandedIsMarked'
  OBVIOUS
<1>1. CASE Deliver
  <2>1. handed' = handed + 1 /\ acked' = acked /\ handed' \in Nat
    BY <1>1 DEF Deliver, TypeOK
  <2>2. CASE Duplicate(handed')
    BY <1>1, <2>1, <2>2 DEF Deliver, Duplicate, HandedIsMarked, procVars
  <2>3. CASE ~ Duplicate(handed')
    BY <1>1, <2>1, <2>3 DEF Deliver, HandedIsMarked
  <2> QED BY <2>2, <2>3
<1>2. CASE Ack
  BY <1>2 DEF Ack, HandedIsMarked, TypeOK, procVars
<1>3. CASE LinkLoss \/ Crash \/ Stop \/ FlushRaises
  BY <1>3 DEF LinkLoss, Crash, Stop, FlushRaises, Die, HandedIsMarked
<1>4. CASE UNCHANGED <<acked, handed, mark>>
  BY <1>4 DEF HandedIsMarked
<1>5. ASSUME NEW t \in Threads, Compress(t) \/ CompressFails(t) PROVE UNCHANGED <<acked, handed, mark>>
  BY <1>5 DEF Compress, CompressOpen, CompressNotFound, CompressCopy, CompressUnlink, CompressFails,
              sessionVars, procVars
<1>6. CASE Publish \/ Connect \/ Flush \/ Restart \/ UNCHANGED vars
  BY <1>4, <1>6 DEF Publish, Connect, Flush, Restart, vars, sessionVars, procVars
<1> QED BY <1>1, <1>2, <1>3, <1>4, <1>5, <1>6 DEF Next

LEMMA StepKept ==
    ASSUME IInv, [Next]_vars
    PROVE  FileOfMark' /\ ThreadInv' /\ MarkedIsAccounted' /\ Kept
<1>0. TypeOK /\ HandedIsMarked /\ FileOfMark /\ ThreadInv /\ MarkedIsAccounted
  BY DEF IInv
<1>m. ASSUME Kept, UNCHANGED acked, UNCHANGED mark \/ mark' = None
      PROVE  MarkedIsAccounted'
  <2> SUFFICES ASSUME NEW i \in Ids, i <= acked' \/ i <= mark', DayOf[i] \notin again'
               PROVE  Accounted(i)'
    BY DEF MarkedIsAccounted
  <2>1. i <= acked \/ i <= mark
    BY <1>m DEF Ids, None
  <2> QED BY <1>0, <1>m, <2>1 DEF Kept, MarkedIsAccounted
<1>1. CASE Deliver
  <2>1. CASE Duplicate(handed')
    <3>1. UNCHANGED <<acked, mark, file, unflushed, plain, gz, thread, begun, again, lost>>
      BY <1>1, <2>1 DEF Deliver, procVars, threadVars
    <3> QED BY <1>0, <1>m, <3>1, Untouched
  <2>2. CASE ~ Duplicate(handed')
    <3>0. PICK i : i = handed'
      OBVIOUS
    <3>1. FileOfMark' /\ ThreadInv' /\ Kept /\ Accounted(i)'
      <4>1. AppendLine(i) \/ WriteFails(i) \/ Rollover(i) \/ CloseFails(i) \/ OpenFails(i)
        BY <1>1, <2>2, <3>0 DEF Deliver
      <4> QED BY <1>0, <1>1, <2>2, <3>0, <4>1, AppendKeeps, CloseFailsKeeps, RolloverKeeps
    <3>2. MarkedIsAccounted'
      <4> SUFFICES ASSUME NEW j \in Ids, j <= acked' \/ j <= mark', DayOf[j] \notin again'
                   PROVE  Accounted(j)'
        BY DEF MarkedIsAccounted
      <4>1. j <= acked \/ j <= mark \/ j = i
        BY <1>0, <1>1, <2>2, <3>0, NewTick
      <4>2. CASE j = i
        BY <3>1, <4>2 DEF Accounted
      <4>3. CASE j <= acked \/ j <= mark
        BY <1>0, <3>1, <4>3 DEF Kept, MarkedIsAccounted
      <4> QED BY <4>1, <4>2, <4>3
    <3> QED BY <3>1, <3>2
  <2> QED BY <2>1, <2>2
<1>2. CASE Ack
  <2>1. /\ acked < handed /\ acked' = acked + 1 /\ acked \in Nat /\ handed \in Nat /\ mark \in Nat
        /\ UNCHANGED <<mark, file, unflushed, plain, gz, thread, begun, again, lost>>
    BY <1>0, <1>2 DEF Ack, procVars, diskVars, threadVars, TypeOK, Ids, None
  <2>2. FileOfMark' /\ ThreadInv' /\ Kept
    BY <1>0, <2>1, Untouched
  <2>3. \A i \in Ids : i <= acked' => i <= acked \/ i <= mark
    BY <1>0, <2>1 DEF HandedIsMarked, Ids
  <2>4. MarkedIsAccounted'
    BY <1>0, <2>1, <2>2, <2>3 DEF MarkedIsAccounted, Kept
  <2> QED BY <2>2, <2>4
<1>3. CASE Flush
  <2>1. UNCHANGED <<acked, mark>>
    BY <1>3 DEF Flush, sessionVars
  <2> QED BY <1>0, <1>m, <1>3, <2>1, FlushKeeps
<1>4. CASE Crash \/ Stop \/ FlushRaises
  <2>1. UNCHANGED acked /\ mark' = None
    BY <1>4 DEF Crash, Stop, FlushRaises, Die
  <2> QED BY <1>0, <1>m, <1>4, <2>1, DeathKeeps
<1>5. ASSUME NEW t \in Threads, Compress(t) \/ CompressFails(t)
      PROVE  FileOfMark' /\ ThreadInv' /\ MarkedIsAccounted' /\ Kept
  <2>1. /\ UNCHANGED <<acked, mark, file, unflushed, lost, begun, again>>
        /\ \A e \in Days \ again : Written(e) \subseteq Written(e)'
    BY <1>0, <1>5, CompressKeeps DEF ThreadInv
  <2>2. FileOfMark' /\ ThreadInv'
    BY <1>0, <1>5, <2>1, CompressStep DEF FileOfMark
  <2>3. Kept
    BY <2>1, DayTyped DEF Kept, Accounted
  <2> QED BY <1>m, <2>1, <2>2, <2>3
<1>6. CASE Publish \/ Connect \/ LinkLoss \/ Restart \/ UNCHANGED vars
  <2>1. UNCHANGED <<acked, mark, file, unflushed, plain, gz, thread, begun, again, lost>>
    BY <1>6 DEF Publish, Connect, LinkLoss, Restart, vars, sessionVars, procVars, diskVars, threadVars
  <2> QED BY <1>0, <1>m, <2>1, Untouched
<1> QED BY <1>1, <1>2, <1>3, <1>4, <1>5, <1>6 DEF Next

LEMMA InitKept == Init => IInv
<1> SUFFICES ASSUME Init PROVE IInv
  OBVIOUS
<1>1. TypeOK
  BY InitTyped
<1>2. /\ handed = acked /\ acked = 0 /\ mark = None /\ file = NoFile /\ unflushed = <<>>
      /\ gz = [d \in Days |-> <<>>] /\ thread = [t \in Threads |-> Idle]
  BY DEF Init
<1>3. \A t \in Threads : thread[t].day = None /\ thread[t].stage = "idle"
  BY <1>2, IdleTyped
<1>4. FileOfMark
  BY <1>2, EmptyIs DEF FileOfMark, NoFile
<1>5. ThreadInv
  BY <1>2, <1>3 DEF ThreadInv, ThreadsBehind, BegunFirst, OneThread, ThreadsCopy, ThreadCopies, Stage
<1>6. MarkedIsAccounted
  BY <1>2 DEF MarkedIsAccounted, Ids, None
<1> QED BY <1>1, <1>2, <1>4, <1>5, <1>6 DEF IInv, HandedIsMarked

LEMMA Inductive == Spec => []IInv
<1>1. Init => IInv
  BY InitKept
<1>2. IInv /\ [Next]_vars => IInv'
  BY StepTyped, StepHanded, StepKept DEF IInv
<1> QED BY <1>1, <1>2, PTL DEF Spec

(* Whatever links, processes, opens, writes, closes and compressions fail:   *)
(* on a day that is not compressed twice no tick is acknowledged and gone    *)
(* unseen.  mark, rollover, flush and gzip_file drop none of them.           *)
THEOREM AlwaysAccounted == Spec => []AckedIsAccounted
<1>1. IInv => AckedIsAccounted
  <2> SUFFICES ASSUME IInv, NEW i \in 1 .. acked, DayOf[i] \notin again
               PROVE  i \in Written(DayOf[i]) \cup Range(unflushed) \cup lost
    BY DEF AckedIsAccounted
  <2>1. i \in Ids /\ i <= acked
    BY DEF IInv, TypeOK, Ids
  <2> QED BY <2>1 DEF IInv, MarkedIsAccounted, Accounted
<1> QED BY <1>1, Inductive, PTL

(* What was flushed stays readable: a thread of gzip_file removes the plain  *)
(* file only when the .gz holds all of it, and no one writes to it between,  *)
(* nor does a write, close or open that raises take anything back.           *)
THEOREM AlwaysKept == Spec => FlushedKept
<1>1. IInv /\ [Next]_vars => [\A d \in Days \ again' : Written(d) \subseteq Written(d)']_vars
  BY StepKept DEF Kept
<1> QED BY <1>1, Inductive, PTL DEF Spec, FlushedKept

-----------------------------------------------------------------------------
(* The order of a file's lines: the mark itself keeps it as long as no death *)
(* takes it.                                                                 *)

LEMMA ConcatAppend ==
    ASSUME NEW p \in Seq(Ids), NEW q \in Seq(Ids), NEW m \in Nat, NEW i \in Ids, m < i,
           AscendsTo(p \o q, m)
    PROVE  AscendsTo(p \o Append(q, i), i)
<1> DEFINE c == p \o q
           a == Append(c, i)
<1>1. p \o Append(q, i) = a
  OBVIOUS
<1>2. c \in Seq(Ids)
  BY ConcatIs
<1>3. /\ Len(c) \in Nat /\ DOMAIN c = 1 .. Len(c) /\ DOMAIN a = 1 .. Len(c) + 1
      /\ \A k \in 1 .. Len(c) : a[k] = c[k]
      /\ a[Len(c) + 1] = i
  BY <1>2, AppendIs
<1>4. AscendsTo(c, m)
  OBVIOUS
<1> HIDE DEF a, c
<1>5. /\ \A k \in DOMAIN c : c[k] <= m /\ c[k] \in Nat
      /\ \A j, k \in DOMAIN c : j < k => c[j] < c[k]
  <2>1. \A k \in DOMAIN c : c[k] \in Ids
    BY <1>2
  <2> QED BY <1>4, <2>1, DayTyped DEF AscendsTo
<1>0. i \in Nat
  BY DayTyped
<1>6. \A k \in DOMAIN a : (k \in DOMAIN c /\ a[k] = c[k]) \/ (k = Len(c) + 1 /\ a[k] = i)
  BY <1>3
<1>7. \A k \in DOMAIN c : c[k] < i
  BY <1>0, <1>5
<1>8. \A k \in DOMAIN a : a[k] <= i
  BY <1>0, <1>5, <1>6, <1>7
<1>9. ASSUME NEW j \in DOMAIN a, NEW k \in DOMAIN a, j < k PROVE a[j] < a[k]
  <2>1. j \in DOMAIN c /\ a[j] = c[j]
    BY <1>3, <1>9
  <2> QED BY <1>5, <1>6, <1>7, <1>9, <2>1
<1> QED BY <1>1, <1>8, <1>9 DEF AscendsTo

LEMMA ConcatParts ==
    ASSUME NEW p \in Seq(Ids), NEW q \in Seq(Ids), NEW m \in Nat, AscendsTo(p \o q, m)
    PROVE  /\ AscendsTo(<<>> \o q, m)
           /\ AscendsTo((p \o q) \o <<>>, m)
<1>1. /\ Len(p) \in Nat /\ Len(q) \in Nat /\ DOMAIN p = 1 .. Len(p) /\ DOMAIN q = 1 .. Len(q)
      /\ DOMAIN (p \o q) = 1 .. Len(p) + Len(q)
      /\ \A k \in 1 .. Len(q) : Len(p) + k \in 1 .. Len(p) + Len(q) /\ (p \o q)[Len(p) + k] = q[k]
  BY ConcatIs
<1>2. <<>> \o q = q /\ (p \o q) \o <<>> = p \o q
  OBVIOUS
<1>3. \A k \in DOMAIN q : q[k] <= m
  BY <1>1 DEF AscendsTo
<1>4. ASSUME NEW j \in DOMAIN q, NEW k \in DOMAIN q, j < k PROVE q[j] < q[k]
  <2>1. Len(p) + j < Len(p) + k
    BY <1>1, <1>4
  <2> QED BY <1>1, <2>1 DEF AscendsTo
<1> QED BY <1>2, <1>3, <1>4 DEF AscendsTo

(* A write that stops within the buffer leaves a beginning of the lines.     *)
LEMMA ConcatCut ==
    ASSUME NEW p \in Seq(Ids), NEW q \in Seq(Ids), NEW m \in Nat, AscendsTo(p \o q, m),
           NEW k \in 0 .. Len(q), NEW n \in k .. Len(q)
    PROVE  /\ AscendsTo((p \o SubSeq(q, 1, k)) \o SubSeq(q, k + 1, n), m)
           /\ AscendsTo((p \o SubSeq(q, 1, k)) \o <<>>, m)
<1> DEFINE a == SubSeq(q, 1, k)
           b == SubSeq(q, k + 1, n)
           c == p \o q
<1>1. /\ Len(p) \in Nat /\ Len(q) \in Nat /\ DOMAIN p = 1 .. Len(p) /\ DOMAIN q = 1 .. Len(q)
      /\ DOMAIN c = 1 .. Len(p) + Len(q)
      /\ \A j \in 1 .. Len(p) : c[j] = p[j]
      /\ \A j \in 1 .. Len(q) : c[Len(p) + j] = q[j]
  BY ConcatIs
<1>2. 0 \in 0 .. Len(q) /\ k \in 0 .. Len(q) /\ 0 + 1 = 1 /\ k - 0 = k /\ k \in Nat /\ n \in Nat
      /\ k <= n /\ n <= Len(q)
  BY <1>1
<1>3. a \in Seq(Ids) /\ DOMAIN a = 1 .. k /\ \A j \in 1 .. k : a[j] = q[j]
  BY <1>2, StretchIs
<1>4. b \in Seq(Ids) /\ DOMAIN b = 1 .. n - k /\ \A j \in 1 .. n - k : b[j] = q[k + j]
  BY StretchIs
<1> DEFINE f == p \o a
           g == f \o b
<1>5. /\ f \in Seq(Ids) /\ Len(f) = Len(p) + k /\ DOMAIN f = 1 .. Len(p) + k
      /\ \A j \in 1 .. Len(p) + k : f[j] = IF j <= Len(p) THEN p[j] ELSE a[j - Len(p)]
  BY <1>1, <1>2, <1>3
<1>6. /\ DOMAIN g = 1 .. Len(p) + n
      /\ \A j \in 1 .. Len(p) + n : g[j] = IF j <= Len(p) + k THEN f[j] ELSE b[j - (Len(p) + k)]
  <2>0. Len(b) \in Nat /\ DOMAIN b = 1 .. Len(b) /\ n - k \in Nat /\ DOMAIN b = 1 .. n - k
    BY <1>2, <1>4
  <2> HIDE DEF f, b
  <2>1. Len(b) = n - k
    BY <2>0
  <2>2. /\ DOMAIN (f \o b) = 1 .. Len(f) + Len(b)
        /\ \A j \in 1 .. Len(f) + Len(b) : (f \o b)[j] = IF j <= Len(f) THEN f[j] ELSE b[j - Len(f)]
    <3>1. f \in Seq(Ids) /\ b \in Seq(Ids)
      BY <1>4, <1>5
    <3> QED BY <3>1
  <2>3. Len(f) + Len(b) = Len(p) + n
    BY <1>1, <1>2, <1>5, <2>1
  <2> QED BY <1>5, <2>2, <2>3
<1>7. f \o <<>> = f
  BY <1>5
<1>8. AscendsTo(c, m)
  OBVIOUS
<1> HIDE DEF a, b, c, f, g
<1>9. \A j \in 1 .. Len(p) + k : j \in DOMAIN c /\ f[j] = c[j]
  <2> SUFFICES ASSUME NEW j \in 1 .. Len(p) + k PROVE j \in DOMAIN c /\ f[j] = c[j]
    OBVIOUS
  <2>1. CASE j <= Len(p)
    BY <1>1, <1>2, <1>5, <2>1
  <2>2. CASE ~ (j <= Len(p))
    <3>1. j - Len(p) \in 1 .. k /\ j - Len(p) \in 1 .. Len(q) /\ Len(p) + (j - Len(p)) = j
      BY <1>1, <1>2, <2>2
    <3>2. a[j - Len(p)] = q[j - Len(p)] /\ c[j] = q[j - Len(p)]
      BY <1>1, <1>3, <3>1
    <3> QED BY <1>1, <1>2, <1>5, <2>2, <3>2
  <2> QED BY <2>1, <2>2
<1>10. \A j \in 1 .. Len(p) + n : j \in DOMAIN c /\ g[j] = c[j]
  <2> SUFFICES ASSUME NEW j \in 1 .. Len(p) + n PROVE j \in DOMAIN c /\ g[j] = c[j]
    OBVIOUS
  <2>1. CASE j <= Len(p) + k
    BY <1>1, <1>2, <1>6, <1>9, <2>1
  <2>2. CASE ~ (j <= Len(p) + k)
    <3> DEFINE l == j - (Len(p) + k)
    <3>1. l \in 1 .. n - k /\ k + l \in 1 .. Len(q) /\ Len(p) + (k + l) = j
      BY <1>1, <1>2, <2>2
    <3>2. b[l] = q[k + l] /\ c[Len(p) + (k + l)] = q[k + l]
      BY <1>1, <1>4, <3>1
    <3>3. g[j] = b[l] /\ j \in DOMAIN c
      BY <1>1, <1>2, <1>6, <2>2
    <3> QED BY <3>1, <3>2, <3>3
  <2> QED BY <2>1, <2>2
<1>11. AscendsTo(f, m)
  BY <1>5, <1>8, <1>9 DEF AscendsTo
<1>12. AscendsTo(g, m)
  BY <1>6, <1>8, <1>10 DEF AscendsTo
<1> QED BY <1>7, <1>11, <1>12 DEF a, b, f, g

LEMMA AscendsLater ==
    ASSUME NEW q \in Seq(Ids), NEW m \in Nat, NEW n \in Nat, m <= n, AscendsTo(q, m)
    PROVE  AscendsTo(q, n)
<1>1. \A k \in DOMAIN q : q[k] \in Nat
  BY DayTyped
<1> QED BY <1>1 DEF AscendsTo

LEMMA LinesTyped ==
    ASSUME TypeOK, NEW d \in Days
    PROVE  plain[d] \in Seq(Ids) /\ unflushed \in Seq(Ids) /\ Lines(d) \in Seq(Ids) /\ mark \in Nat
<1>1. plain[d] \in Seq(Ids) /\ unflushed \in Seq(Ids) /\ <<>> \in Seq(Ids) /\ mark \in Nat
  BY DayTyped DEF TypeOK, None
<1> QED BY <1>1, ConcatIs DEF Lines

(* Whatever part of the buffer is written, and whatever stretch after that   *)
(* is kept, the lines ascend.                                                *)
LEMMA FlushedAscends ==
    ASSUME TypeOK, LinesInv, NEW k \in 0 .. Len(unflushed), NEW n \in k .. Len(unflushed),
           plain' = Flushed(k), NEW d \in Days
    PROVE  /\ plain'[d] \in Seq(Ids) /\ AscendsTo(plain'[d] \o <<>>, mark)
           /\ file.day = d => AscendsTo(plain'[d] \o SubSeq(unflushed, k + 1, n), mark)
<1>1. plain[d] \in Seq(Ids) /\ unflushed \in Seq(Ids) /\ mark \in Nat
  BY LinesTyped
<1>2. AscendsTo(Lines(d), mark)
  BY DEF LinesInv
<1>3. plain'[d] \in Seq(Ids)
  BY FlushedIs
<1>4. CASE file.day = d
  <2>1. plain'[d] = plain[d] \o SubSeq(unflushed, 1, k) /\ Lines(d) = plain[d] \o unflushed
    BY <1>4, FlushedIs, DayTyped DEF Lines
  <2>2. AscendsTo(plain[d] \o unflushed, mark)
    BY <1>2, <2>1
  <2>3. /\ AscendsTo((plain[d] \o SubSeq(unflushed, 1, k)) \o SubSeq(unflushed, k + 1, n), mark)
        /\ AscendsTo((plain[d] \o SubSeq(unflushed, 1, k)) \o <<>>, mark)
    BY <1>1, <2>2, ConcatCut
  <2> QED BY <1>3, <2>1, <2>3
<1>5. CASE file.day # d
  <2>1. plain'[d] = plain[d] /\ Lines(d) = plain[d] \o <<>>
    BY <1>5, FlushedIs DEF Lines
  <2> QED BY <1>2, <1>3, <1>5, <2>1
<1> QED BY <1>4, <1>5

(* All of it.                                                                *)
LEMMA ClosedAscends ==
    ASSUME TypeOK, LinesInv, plain' = Flushed(Len(unflushed)), NEW d \in Days
    PROVE  plain'[d] \in Seq(Ids) /\ AscendsTo(plain'[d] \o <<>>, mark)
<1>1. Len(unflushed) \in 0 .. Len(unflushed) /\ Len(unflushed) \in Len(unflushed) .. Len(unflushed)
  BY AllIsIndex
<1> QED BY <1>1, FlushedAscends

(* A new line, glued or not, behind lines p and buffer q.                    *)
LEMMA LineAscends ==
    ASSUME NEW p \in Seq(Ids), NEW q \in Seq(Ids), NEW m \in Nat, NEW i \in Ids, m < i,
           AscendsTo(p \o q, m)
    PROVE  AscendsTo(p \o (q \o LinesOf(i)), i)
<1>1. CASE Glued(i)
  <2>1. q \o LinesOf(i) = q
    BY <1>1 DEF LinesOf
  <2>2. i \in Nat /\ m <= i /\ p \o q \in Seq(Ids)
    BY DayTyped, ConcatIs
  <2> QED BY <2>1, <2>2, AscendsLater
<1>2. CASE ~ Glued(i)
  <2>1. q \o LinesOf(i) = Append(q, i)
    BY <1>2 DEF LinesOf
  <2>2. AscendsTo(p \o Append(q, i), i)
    BY ConcatAppend
  <2> QED BY <2>1, <2>2
<1> QED BY <1>1, <1>2

LEMMA DeliverAscends ==
    ASSUME TypeOK, LinesInv, Deliver
    PROVE  LinesInv'
<1>1. CASE Duplicate(handed')
  <2>1. UNCHANGED <<mark, file, unflushed, plain>>
    BY <1>1 DEF Deliver, procVars
  <2> QED BY <2>1 DEF LinesInv, Lines
<1>2. CASE ~ Duplicate(handed')
  <2> DEFINE i == handed'
  <2>1. /\ mark' = i /\ i \in Ids /\ i \in Nat /\ mark < i /\ mark \in Nat /\ mark <= i
        /\ AppendLine(i) \/ WriteFails(i) \/ Rollover(i) \/ CloseFails(i) \/ OpenFails(i)
    BY <1>2 DEF Deliver, TypeOK, Duplicate, Ids, None
  <2> HIDE DEF i
  <2> SUFFICES ASSUME NEW d \in Days PROVE AscendsTo(Lines(d)', mark')
    BY DEF LinesInv
  <2>2. plain[d] \in Seq(Ids) /\ unflushed \in Seq(Ids) /\ <<>> \in Seq(Ids) /\ AscendsTo(Lines(d), mark)
    BY LinesTyped DEF LinesInv
  <2>3. CASE AppendLine(i)
    <3>1. unflushed' = unflushed \o LinesOf(i) /\ UNCHANGED <<file, plain>>
      BY <2>3 DEF AppendLine
    <3>2. CASE file.day = d
      <4>1. Lines(d) = plain[d] \o unflushed /\ Lines(d)' = plain[d] \o (unflushed \o LinesOf(i))
        BY <3>1, <3>2 DEF Lines
      <4> QED BY <2>1, <2>2, <4>1, LineAscends
    <3>3. CASE file.day # d
      <4>1. Lines(d)' = Lines(d) /\ Lines(d) \in Seq(Ids)
        BY <3>1, <3>3, LinesTyped DEF Lines
      <4> QED BY <2>1, <2>2, <4>1, AscendsLater
    <3> QED BY <3>2, <3>3
  <2>a. ASSUME NEW q \in Seq(Ids), AscendsTo(q, mark), Lines(d)' = q PROVE AscendsTo(Lines(d)', mark')
    BY <2>1, <2>a, AscendsLater
  <2>4. CASE WriteFails(i)
    <3>0. PICK k \in 0 .. Len(unflushed) : \E n \in k .. Len(unflushed) :
              plain' = Flushed(k) /\ unflushed' = SubSeq(unflushed, k + 1, n)
      BY <2>4 DEF WriteFails
    <3>1. PICK n \in k .. Len(unflushed) :
              plain' = Flushed(k) /\ unflushed' = SubSeq(unflushed, k + 1, n)
      BY <3>0
    <3>2. file' = file /\ unflushed' \in Seq(Ids)
      BY <2>2, <2>4, <3>1, StretchIs DEF WriteFails
    <3>3. /\ plain'[d] \in Seq(Ids) /\ AscendsTo(plain'[d] \o <<>>, mark)
          /\ file.day = d => AscendsTo(plain'[d] \o unflushed', mark)
      BY <3>1, FlushedAscends
    <3>4. plain'[d] \o <<>> \in Seq(Ids) /\ plain'[d] \o unflushed' \in Seq(Ids)
      BY <2>2, <3>2, <3>3, ConcatIs
    <3>5. Lines(d)' = IF file.day = d THEN plain'[d] \o unflushed' ELSE plain'[d] \o <<>>
      BY <3>2 DEF Lines
    <3> QED BY <2>a, <3>3, <3>4, <3>5
  <2>5. CASE Rollover(i)
    <3>1. /\ file.day # DayOf[i] /\ plain' = Flushed(Len(unflushed)) /\ unflushed' = LinesOf(i)
          /\ file' = [day |-> DayOf[i], closed |-> FALSE]
      BY <2>5 DEF Rollover, Closed
    <3>2. AscendsTo(plain'[d] \o <<>>, mark) /\ plain'[d] \in Seq(Ids) /\ plain'[d] \o <<>> \in Seq(Ids)
      BY <2>2, <3>1, ClosedAscends, ConcatIs
    <3>3. CASE DayOf[i] = d
      <4>1. LinesOf(i) \in Seq(Ids)
        BY <2>1 DEF LinesOf
      <4>2. Lines(d)' = plain'[d] \o (<<>> \o LinesOf(i))
        BY <3>1, <3>3, <4>1 DEF Lines
      <4> QED BY <2>1, <2>2, <3>2, <4>2, LineAscends
    <3>4. CASE DayOf[i] # d
      <4>1. Lines(d)' = plain'[d] \o <<>>
        BY <3>1, <3>4 DEF Lines
      <4> QED BY <2>a, <3>2, <4>1
    <3> QED BY <3>3, <3>4
  <2>6. CASE CloseFails(i) \/ OpenFails(i)
    <3>1. unflushed' = <<>> /\ \E k \in 0 .. Len(unflushed) : plain' = Flushed(k)
      BY <2>6, AllIsIndex DEF CloseFails, OpenFails, Closed
    <3>2. PICK k \in 0 .. Len(unflushed) : plain' = Flushed(k)
      BY <3>1
    <3>3. k \in k .. Len(unflushed)
      BY <2>2
    <3>4. AscendsTo(plain'[d] \o <<>>, mark) /\ plain'[d] \o <<>> \in Seq(Ids)
      BY <2>2, <3>2, <3>3, FlushedAscends, ConcatIs
    <3>5. Lines(d)' = plain'[d] \o <<>>
      BY <3>1 DEF Lines
    <3> QED BY <2>a, <3>4, <3>5
  <2> QED BY <2>1, <2>3, <2>4, <2>5, <2>6
<1> QED BY <1>1, <1>2

LEMMA CompressAscends ==
    ASSUME TypeOK, LinesInv, NEW t \in Threads, Compress(t) \/ CompressFails(t)
    PROVE  LinesInv'
<1>1. UNCHANGED <<mark, file, unflushed>>
  BY DEF Compress, CompressOpen, CompressNotFound, CompressCopy, CompressUnlink, CompressFails, procVars
<1>2. CASE plain' = plain
  BY <1>1, <1>2 DEF LinesInv, Lines
<1>3. CASE CompressUnlink(t)
  <2>1. \A d \in Days : plain'[d] = plain[d] \/ plain'[d] = <<>>
    BY <1>3 DEF CompressUnlink, TypeOK
  <2>2. ASSUME NEW d \in Days, plain'[d] = <<>> PROVE AscendsTo(Lines(d)', mark)
    <3> DEFINE q == IF file.day = d THEN unflushed ELSE <<>>
    <3>1. q \in Seq(Ids) /\ plain[d] \in Seq(Ids) /\ mark \in Nat
      <4>1. <<>> \in Seq(Ids)
        OBVIOUS
      <4> QED BY <4>1, LinesTyped
    <3>2. Lines(d) = plain[d] \o q /\ Lines(d)' = <<>> \o q
      BY <1>1, <2>2 DEF Lines
    <3>3. AscendsTo(Lines(d), mark)
      BY DEF LinesInv
    <3> HIDE DEF q
    <3> QED BY <3>1, <3>2, <3>3, ConcatParts
  <2>3. ASSUME NEW d \in Days, plain'[d] = plain[d] PROVE AscendsTo(Lines(d)', mark)
    BY <1>1, <2>3 DEF LinesInv, Lines
  <2> QED BY <1>1, <2>1, <2>2, <2>3 DEF LinesInv
<1> QED BY <1>2, <1>3 DEF Compress, CompressOpen, CompressNotFound, CompressCopy, CompressFails, diskVars

LEMMA StepAscends == AscendInv /\ [Next]_vars => AscendInv'
<1> SUFFICES ASSUME AscendInv, [Next]_vars PROVE AscendInv'
  OBVIOUS
<1>0. TypeOK /\ TypeOK'
  BY StepTyped DEF AscendInv
<1>1. faults["death"] \in Nat /\ "death" \in FaultKinds
  BY <1>0 DEF TypeOK, FaultKinds
<1>2. /\ Crash \/ Stop \/ FlushRaises => faults'["death"] = faults["death"] + 1
      /\ ~ (Crash \/ Stop \/ FlushRaises) => faults'["death"] = faults["death"]
  <2>1. Crash \/ Stop \/ FlushRaises => faults'["death"] = faults["death"] + 1
    BY <1>0, <1>1, FaultTyped, CountedTyped DEF Crash, Stop, FlushRaises
  <2>2. CASE Deliver
    <3>1. \A i : WriteFails(i) => faults'["death"] = faults["death"]
      BY <1>0, <1>1, FaultTyped DEF WriteFails, FaultKinds
    <3>2. \A i : CloseFails(i) => faults'["death"] = faults["death"]
      BY <1>0, <1>1, FaultTyped DEF CloseFails, FaultKinds
    <3>3. \A i : OpenFails(i) => faults'["death"] = faults["death"]
      BY <1>0, <1>1, FaultTyped DEF OpenFails, FaultKinds
    <3>4. faults'["death"] = faults["death"]
      BY <2>2, <3>1, <3>2, <3>3 DEF Deliver, AppendLine, Rollover
    <3> QED BY <2>1, <3>4
  <2>3. CASE LinkLoss
    <3>1. faults'["death"] = faults["death"]
      BY <1>0, <1>1, <2>3, FaultTyped DEF LinkLoss, FaultKinds
    <3> QED BY <2>1, <3>1
  <2>4. ASSUME NEW t \in Threads, Compress(t) \/ CompressFails(t) PROVE faults'["death"] = faults["death"]
    <3>1. CASE CompressFails(t)
      BY <1>0, <1>1, <3>1, FaultTyped DEF CompressFails, FaultKinds
    <3>2. CASE Compress(t)
      BY <3>2 DEF Compress, CompressOpen, CompressNotFound, CompressCopy, CompressUnlink
    <3> QED BY <2>4, <3>1, <3>2
  <2>5. CASE Publish \/ Connect \/ Ack \/ Flush \/ Restart \/ UNCHANGED vars
    <3>1. faults'["death"] = faults["death"]
      BY <2>5 DEF Publish, Connect, Ack, Flush, Restart, vars
    <3> QED BY <2>1, <3>1
  <2> QED BY <2>1, <2>2, <2>3, <2>4, <2>5 DEF Next
<1>3. ASSUME faults'["death"] = 0 PROVE LinesInv'
  <2>1. ~ Crash /\ ~ Stop /\ ~ FlushRaises /\ LinesInv
    BY <1>1, <1>2, <1>3 DEF AscendInv
  <2>2. CASE Deliver
    BY <1>0, <2>1, <2>2, DeliverAscends
  <2>3. CASE Flush
    <3>1. plain' = Flushed(Len(unflushed)) /\ unflushed' = <<>> /\ UNCHANGED <<file, mark>>
      BY <2>3 DEF Flush, Closed
    <3>2. \A d \in Days : Lines(d)' = plain'[d] \o <<>>
      BY <3>1 DEF Lines
    <3> QED BY <1>0, <2>1, <3>1, <3>2, ClosedAscends DEF LinesInv
  <2>4. CASE \E t \in Threads : Compress(t) \/ CompressFails(t)
    BY <1>0, <2>1, <2>4, CompressAscends
  <2>5. CASE Publish \/ Connect \/ Ack \/ LinkLoss \/ Restart \/ UNCHANGED vars
    <3>1. UNCHANGED <<mark, file, unflushed, plain>>
      BY <2>5 DEF Publish, Connect, Ack, LinkLoss, Restart, vars, procVars, diskVars
    <3> QED BY <2>1, <3>1 DEF LinesInv, Lines
  <2> QED BY <2>1, <2>2, <2>3, <2>4, <2>5 DEF Next
<1> QED BY <1>0, <1>3 DEF AscendInv

LEMMA InitAscends == Init => AscendInv
<1> SUFFICES ASSUME Init PROVE AscendInv
  OBVIOUS
<1>1. TypeOK
  BY InitTyped
<1>2. /\ file = NoFile /\ plain = [d \in Days |-> <<>>] /\ unflushed = <<>>
      /\ <<>> \o <<>> = <<>>
  BY DEF Init
<1>3. \A d \in Days : Lines(d) = <<>>
  BY <1>2 DEF Lines
<1>4. LinesInv
  BY <1>2, <1>3, EmptyIs DEF LinesInv, AscendsTo, NoFile
<1> QED BY <1>1, <1>4 DEF AscendInv, LinesInv

(* As long as no process has died, the lines of a day's file ascend, those   *)
(* in the buffer behind them: links that break, disks that fail and threads  *)
(* that remove the file write no tick twice and none out of order.           *)
THEOREM AlwaysAscending == Spec => []LinesAscend
<1>1. AscendInv => LinesAscend
  BY DEF AscendInv, LinesInv, AscendsTo, LinesAscend, Lines
<1> QED BY <1>1, InitAscends, StepAscends, PTL DEF Spec

=============================================================================
