------------------------- MODULE FeedHandlerProofs -------------------------
(***************************************************************************)
(* Proofs about FeedHandler, for every number of symbols, ids, days and     *)
(* every size of queue, batch and page.  First what holds under every fault *)
(* of the specification: the types, and that the dedup floor covers the     *)
(* RDB.  Then what it keeps once the process is not stopped (only killed)   *)
(* and the clocks agree: partitions are written in the order of their dates *)
(* and each of them once, so that nothing on disk is lost and the dedup     *)
(* floor is the newest row of the whole store.                              *)
(***************************************************************************)
EXTENDS FeedHandler, SequenceTheorems, FiniteSetTheorems, WellFoundedInduction, TLAPS

(* While a bridge is in progress br holds it.                               *)
BridgeTyped ==
    mode \in {"bridge", "bridged"} =>
        br \in [sym : Trades, target : Ids \cup {None}, next : Nat]

(* No row is twice in an in-memory table.                                   *)
Unique == \A s \in Streams : \A i \in Ids : rdb[s][i] <= 1

Bridging(s) == mode \in {"bridge", "bridged"} /\ s = br.sym

(* Every row of the RDB is at or below the floor of its stream, or below    *)
(* the next id of the bridge that is filling the stream.                    *)
Covered ==
    mode # "stopped" =>
        \A s \in Streams : \A i \in RowIds(rdb[s]) :
            IF Bridging(s) THEN i < br.next ELSE i <= lastId[s]

(* The inductive invariant.                                                 *)
IInv == TypeOK /\ BridgeTyped /\ Unique /\ Covered

-----------------------------------------------------------------------------
(* Lemmas about the extrema of sets of ids and of dates.                    *)

(* A non-empty set of naturals up to n has a maximum.                       *)
LEMMA MaxOfBounded ==
  ASSUME NEW n \in Nat, NEW S \in SUBSET (0 .. n), S # {}
  PROVE  Max(S) \in S /\ \A y \in S : y <= Max(S)
<1> DEFINE Less == {ss \in Nat \X Nat : ss[1] < ss[2]}
           T == {n - x : x \in S}
<1>1. IsWellFoundedOn(Less, Nat)
  BY NatLessThanWellFounded DEF OpToRel
<1>2. \A x \in S : x \in Nat /\ x <= n /\ n - x \in Nat
  OBVIOUS
<1>3. T \subseteq Nat /\ T # {}
  BY <1>2
<1> HIDE DEF T, Less
<1>4. \E t \in T : \A u \in T : ~ (<<u, t>> \in Less)
  BY <1>1, <1>3, WFMin
<1>5. PICK t \in T : \A u \in T : ~ (u < t)
  BY <1>3, <1>4 DEF Less
<1>6. PICK m \in S : t = n - m
  BY DEF T
<1>7. \A y \in S : m >= y
  <2> TAKE y \in S
  <2>1. n - y \in T
    BY DEF T
  <2>2. ~ (n - y < n - m)
    BY <1>5, <1>6, <2>1
  <2> QED
    BY <1>2, <2>2
<1>8. \E x \in S : \A y \in S : x >= y
  BY <1>7
<1>9. Max(S) \in S /\ \A y \in S : Max(S) >= y
  BY <1>8 DEF Max
<1> QED
  BY <1>2, <1>9

(* A non-empty set of naturals has a minimum.                               *)
LEMMA MinOfNats ==
  ASSUME NEW S \in SUBSET Nat, S # {}
  PROVE  Min(S) \in S
<1> DEFINE Less == {ss \in Nat \X Nat : ss[1] < ss[2]}
<1>1. IsWellFoundedOn(Less, Nat)
  BY NatLessThanWellFounded DEF OpToRel
<1> HIDE DEF Less
<1>2. \E t \in S : \A u \in S : ~ (<<u, t>> \in Less)
  BY <1>1, WFMin
<1>3. PICK t \in S : \A u \in S : ~ (u < t)
  BY <1>2 DEF Less
<1>4. \A u \in S : t <= u
  BY <1>3
<1> QED
  BY <1>4 DEF Min

(* What the code's max() returns for a set of ids, None included.           *)
LEMMA LastOfIds ==
  ASSUME NEW S \in SUBSET Ids
  PROVE  LastOf(S) \in Ids \cup {None} /\ \A y \in S : y <= LastOf(S)
<1>1. CASE S = {}
  BY <1>1 DEF LastOf
<1>2. CASE S # {}
  <2>1. S \in SUBSET (0 .. MaxId) /\ MaxId \in Nat
    BY BoundsAssumption DEF Ids
  <2>2. Max(S) \in S /\ \A y \in S : y <= Max(S)
    BY <1>2, <2>1, MaxOfBounded
  <2> QED
    BY <1>2, <2>2 DEF LastOf
<1> QED
  BY <1>1, <1>2

(* The floor taken from the store covers the RDB.                           *)
LEMMA StoredIdCoversRdb ==
  ASSUME StoreTypeOK, NEW s \in Streams
  PROVE  /\ MaxStoredId(s) \in Ids \cup {None}
         /\ \A i \in RowIds(rdb[s]) : i <= MaxStoredId(s)
<1>1. RowIds(rdb[s]) \in SUBSET Ids
  BY DEF RowIds
<1>2. NewestPartitionIds(s) \in SUBSET Ids
  BY DEF NewestPartitionIds, RowIds
<1> QED
  BY <1>1, <1>2, LastOfIds DEF MaxStoredId

-----------------------------------------------------------------------------
(* Lemmas about the operations of the store.                                *)

(* Inserting ids above every row of a stream keeps its rows unique.         *)
LEMMA InsertAbove ==
  ASSUME NEW r \in [Streams -> Table], NEW s \in Streams, NEW ids \in SUBSET Ids,
         \A t \in Streams : \A i \in Ids : r[t][i] <= 1,
         \A i \in RowIds(r[s]) : \A j \in ids : i < j
  PROVE  /\ Inserted(r, s, ids) \in [Streams -> Table]
         /\ \A t \in Streams : \A i \in Ids : Inserted(r, s, ids)[t][i] <= 1
         /\ RowIds(Inserted(r, s, ids)[s]) = RowIds(r[s]) \cup ids
         /\ \A t \in Streams : t # s => Inserted(r, s, ids)[t] = r[t]
<1> DEFINE new == Appended(r[s], ids)
<1>1. r[s] \in Table
  OBVIOUS
<1>2. new \in Table /\ \A i \in Ids : new[i] = r[s][i] + (IF i \in ids THEN 1 ELSE 0)
  BY <1>1 DEF Appended, Table
<1>3. \A i \in Ids : r[s][i] \in Nat
  BY <1>1 DEF Table
<1>4. \A i \in ids : r[s][i] = 0
  <2> TAKE i \in ids
  <2>1. i \in Ids /\ i \in Int
    BY DEF Ids
  <2>2. i \notin RowIds(r[s])
    BY <2>1
  <2> QED
    BY <1>3, <2>1, <2>2 DEF RowIds
<1>5. \A i \in Ids : new[i] <= 1
  BY <1>2, <1>3, <1>4
<1>6. RowIds(new) = RowIds(r[s]) \cup ids
  BY <1>2, <1>3 DEF RowIds
<1>7. Inserted(r, s, ids) = [r EXCEPT ![s] = new]
  BY DEF Inserted
<1> HIDE DEF new
<1> QED
  BY <1>2, <1>5, <1>6, <1>7

(* A savedown writes tables into a partition.                               *)
LEMMA SavedDownType ==
  ASSUME StoreTypeOK, NEW d \in Days
  PROVE  SavedDown(d) \in [Days -> [Streams -> Table]]
<1>1. [s \in Streams |-> IF Nonempty(rdb, TableOf(s)) THEN rdb[s] ELSE hdb[d][s]]
        \in [Streams -> Table]
  BY DEF StoreTypeOK
<1> QED
  BY <1>1 DEF SavedDown, StoreTypeOK

LEMMA EmptyTablesType ==
  /\ EmptyTables \in [Streams -> Table]
  /\ \A s \in Streams : RowIds(EmptyTables[s]) = {} /\ \A i \in Ids : EmptyTables[s][i] <= 1
BY DEF EmptyTables, NoRows, Table, RowIds

(* RdbRoller.feed with ids above the stream's rows: the RDB stays unique    *)
(* and gains no row but the chunk's.                                        *)
LEMMA FeedAbove ==
  ASSUME StoreTypeOK, Unique, NEW s \in Streams, NEW ids \in SUBSET Ids, ids # {},
         \A i \in RowIds(rdb[s]) : \A j \in ids : i < j,
         Feed(s, ids)
  PROVE  /\ StoreTypeOK' /\ Unique'
         /\ \A i \in RowIds(rdb'[s]) : i \in RowIds(rdb[s]) \/ i \in ids
         /\ \A t \in Streams : t # s => RowIds(rdb'[t]) \subseteq RowIds(rdb[t])
<1> DEFINE r == IF Past(DayOf[s][Max(ids)]) THEN EmptyTables ELSE rdb
<1>1. /\ r \in [Streams -> Table]
      /\ \A t \in Streams : \A i \in Ids : r[t][i] <= 1
      /\ \A t \in Streams : RowIds(r[t]) \subseteq RowIds(rdb[t])
  BY EmptyTablesType DEF StoreTypeOK, Unique
<1>2. rdb' = Inserted(r, s, ids)
  BY DEF Feed
<1> HIDE DEF r
<1>3. \A i \in RowIds(r[s]) : \A j \in ids : i < j
  BY <1>1
<1>4. /\ rdb' \in [Streams -> Table]
      /\ \A t \in Streams : \A i \in Ids : rdb'[t][i] <= 1
      /\ RowIds(rdb'[s]) = RowIds(r[s]) \cup ids
      /\ \A t \in Streams : t # s => rdb'[t] = r[t]
  BY <1>1, <1>2, <1>3, InsertAbove
<1>5. DayOf[s][Max(ids)] \in Days
  <2>1. ids \in SUBSET (0 .. MaxId) /\ MaxId \in Nat
    BY BoundsAssumption DEF Ids
  <2>2. Max(ids) \in Ids
    BY <2>1, MaxOfBounded
  <2> QED
    BY <2>2, DayOfAssumption
<1>6. hdb' \in [Days -> [Streams -> Table]] /\ day' \in Days \cup {None}
  <2>1. CASE Past(DayOf[s][Max(ids)])
    <3>1. day \in Days
      BY <2>1 DEF Past, StoreTypeOK
    <3> QED
      BY <2>1, <3>1, <1>5, SavedDownType DEF Feed
  <2>2. CASE ~ Past(DayOf[s][Max(ids)])
    BY <2>2, <1>5 DEF Feed, StoreTypeOK
  <2> QED
    BY <2>1, <2>2
<1> QED
  BY <1>1, <1>4, <1>6 DEF StoreTypeOK, Unique

-----------------------------------------------------------------------------
(* The inductive invariant, action by action.                               *)

LEMMA InitIInv == Init => IInv
<1> SUFFICES ASSUME Init PROVE IInv
  OBVIOUS
<1>1. StoreTypeOK
  <2>1. \A d \in Days : InitTables(d) \in [Streams -> Table]
    BY DEF InitTables, Table
  <2> QED
    BY <2>1, EmptyTablesType DEF Init, StoreTypeOK
<1>2. published \in [Streams -> Ids]
  BY BoundsAssumption DEF Init, Ids
<1>3. queue \in Seq(Record) /\ backlog \in Seq(Record) /\ Len(queue) <= QueueMax
  BY SizesAssumption, EmptySeq DEF Init, SessionInit
<1>4. lastId \in [Streams -> Ids \cup {None}] /\ faults \in [Faults -> Nat]
  BY DEF Init
<1>5. TypeOK
  BY <1>1, <1>2, <1>3, <1>4 DEF Init, TypeOK, SessionInit, Modes
<1> QED
  BY <1>5, EmptyTablesType DEF Init, IInv, BridgeTyped, Unique, Covered

(* The queue stays a bounded sequence of records.                           *)
LEMMA EnqueuedType ==
  ASSUME queue \in Seq(Record), Len(queue) <= QueueMax, NEW m \in Record, Enqueued(m)
  PROVE  queue' \in Seq(Record) /\ Len(queue') <= QueueMax
BY SizesAssumption, AppendProperties, LenProperties DEF Enqueued

(* Steps that touch neither the store nor the main thread only have to      *)
(* keep the types.                                                          *)
LEMMA NetworkStep ==
  ASSUME IInv, TypeOK', UNCHANGED <<storeVars, mainVars>>
  PROVE  IInv'
BY DEF IInv, BridgeTyped, Unique, Covered, Bridging, storeVars, mainVars, RowIds

LEMMA PublishStep ==
  ASSUME IInv, NEW s \in Streams, Publish(s)
  PROVE  IInv'
<1>1. published[s] + 1 \in Ids
  BY BoundsAssumption DEF IInv, TypeOK, Publish, Ids
<1>2. published' \in [Streams -> Ids]
  BY <1>1 DEF IInv, TypeOK, Publish
<1>3. [stream |-> s, id |-> published[s] + 1] \in Record
  BY <1>1 DEF Record
<1>4. backlog' \in Seq(Record) /\ subscribed' \in BOOLEAN /\ linkUp' \in BOOLEAN
  BY <1>3, AppendProperties DEF IInv, TypeOK, Publish, Enqueue
<1>5. TypeOK'
  BY <1>2, <1>4 DEF IInv, TypeOK, StoreTypeOK, Publish, storeVars, mainVars
<1> QED
  BY <1>5, NetworkStep DEF Publish

LEMMA ConnectStep ==
  ASSUME IInv, Connect
  PROVE  IInv'
<1>1. TypeOK'
  BY DEF IInv, TypeOK, StoreTypeOK, Connect, Accept, FlaggedOnConnect, storeVars, mainVars
<1> QED
  BY <1>1, NetworkStep DEF Connect

LEMMA DeliverStep ==
  ASSUME IInv, Deliver \/ DeliverAckLost
  PROVE  IInv'
<1>1. backlog \in Seq(Record) /\ backlog # <<>>
  BY DEF IInv, TypeOK, Deliver, DeliverAckLost, Acked, AckLost
<1>2. Head(backlog) \in Record /\ Tail(backlog) \in Seq(Record)
  BY <1>1, HeadTailProperties
<1>3. backlog' \in Seq(Record) /\ linkUp' \in BOOLEAN /\ subscribed' \in BOOLEAN
  BY <1>1, <1>2 DEF IInv, TypeOK, Deliver, DeliverAckLost, Acked, AckLost
<1>4. queue' \in Seq(Record) /\ Len(queue') <= QueueMax
  BY <1>2, EnqueuedType DEF IInv, TypeOK, Deliver, DeliverAckLost
<1>5. faults' \in [Faults -> Nat]
  BY DEF IInv, TypeOK, Deliver, DeliverAckLost, Fault
<1>6. TypeOK'
  BY <1>3, <1>4, <1>5
  DEF IInv, TypeOK, StoreTypeOK, Deliver, DeliverAckLost, storeVars, mainVars
<1> QED
  BY <1>6, NetworkStep DEF Deliver, DeliverAckLost

LEMMA LinkStep ==
  ASSUME IInv, LinkLoss \/ SessionLoss
  PROVE  IInv'
<1>1. faults' \in [Faults -> Nat]
  <2>1. faults \in [Faults -> Nat]
    BY DEF IInv, TypeOK
  <2>2. CASE LinkLoss
    BY <2>1, <2>2 DEF LinkLoss, Fault, Faults
  <2>3. CASE SessionLoss
    BY <2>1, <2>3 DEF SessionLoss, Fault, Faults
  <2> QED
    BY <2>2, <2>3
<1>2. backlog' \in Seq(Record) /\ linkUp' \in BOOLEAN /\ subscribed' \in BOOLEAN
  BY EmptySeq DEF IInv, TypeOK, LinkLoss, SessionLoss, Disconnect, LoseSession
<1>3. UNCHANGED <<storeVars, mainVars, published, queue, pendingRebridge, connectedOnce>>
  BY DEF LinkLoss, SessionLoss
<1>4. TypeOK'
  BY <1>1, <1>2, <1>3 DEF IInv, TypeOK, StoreTypeOK, storeVars, mainVars
<1> QED
  BY <1>3, <1>4, NetworkStep

(* What StartBridge establishes for the symbol it starts on.                *)
LEMMA BridgeStarts ==
  ASSUME IInv, mode # "stopped", NEW s \in Trades, NEW target \in Ids \cup {None},
         StartBridge(s, target), UNCHANGED <<storeVars, lastId>>,
         mode \notin {"bridge", "bridged"}
  PROVE  /\ br' \in [sym : Trades, target : Ids \cup {None}, next : Nat]
         /\ mode' \in {"bridge", "bridged"}
         /\ Unique' /\ Covered'
<1>1. /\ MaxStoredId(s) \in Ids \cup {None}
      /\ \A i \in RowIds(rdb[s]) : i <= MaxStoredId(s)
  BY StoredIdCoversRdb DEF IInv, TypeOK, Streams
<1>2. br'.sym = s /\ br'.next = MaxStoredId(s) + 1 /\ MaxStoredId(s) \in Nat
  BY <1>1 DEF StartBridge, Ids, None
<1>3. br' \in [sym : Trades, target : Ids \cup {None}, next : Nat]
  BY <1>2 DEF StartBridge
<1>4. mode' \in {"bridge", "bridged"}
  BY DEF StartBridge
<1>5. Unique'
  BY DEF IInv, Unique, storeVars
<1>6. Covered'
  <2> SUFFICES ASSUME NEW t \in Streams, NEW i \in RowIds(rdb[t])
               PROVE  IF t = s THEN i < MaxStoredId(s) + 1 ELSE i <= lastId[t]
    BY <1>2, <1>4 DEF Covered, Bridging, storeVars, RowIds
  <2>1. i \in Nat
    BY DEF RowIds, Ids
  <2>2. i <= lastId[t]
    BY DEF IInv, Covered, Bridging
  <2> QED
    BY <1>1, <1>2, <2>1, <2>2
<1> QED
  BY <1>3, <1>4, <1>5, <1>6

(* Main-thread steps leave the session and the published stream alone, and  *)
(* the types of the rest follow from what they assign.                      *)
LEMMA MainStepType ==
  ASSUME TypeOK, StoreTypeOK',
         UNCHANGED <<sessionVars, published, connectedOnce, faults>>,
         queue' \in Seq(Record) /\ Len(queue') <= QueueMax,
         pendingRebridge' \subseteq Trades,
         mode' \in Modes, todo' \subseteq Trades, batch' \subseteq Record,
         lastId' \in [Streams -> Ids \cup {None}],
         br' \in [sym : Trades, target : Ids \cup {None}, next : Nat] \cup {NoBridge}
  PROVE  TypeOK'
BY DEF TypeOK, sessionVars

LEMMA StartupBridgeStep ==
  ASSUME IInv, NEW s \in Trades, StartupBridge(s)
  PROVE  IInv'
<1>1. /\ br' \in [sym : Trades, target : Ids \cup {None}, next : Nat]
      /\ mode' \in {"bridge", "bridged"}
      /\ Unique' /\ Covered'
  BY BridgeStarts DEF StartupBridge
<1>2. TypeOK'
  BY <1>1, MainStepType DEF IInv, TypeOK, StoreTypeOK, StartupBridge, storeVars, Modes
<1> QED
  BY <1>1, <1>2 DEF IInv, BridgeTyped

(* The ids of a batch that belong to a stream are ids.                      *)
LEMMA FreshIds ==
  ASSUME TypeOK, NEW s \in Streams, NEW f
  PROVE  Fresh(Group(s), f) \in SUBSET Ids
BY DEF TypeOK, Fresh, Group, Record

LEMMA RebridgeStep ==
  ASSUME IInv, NEW s \in Trades, Rebridge(s)
  PROVE  IInv'
<1> DEFINE new == Fresh(Group(s), lastId[s])
<1>1. new \in SUBSET Ids /\ new # {}
  BY FreshIds DEF IInv, Rebridge, GapBefore, Streams
<1>2. Min(new) \in Ids
  <2>1. new \in SUBSET Nat
    BY <1>1 DEF Ids
  <2> QED
    BY <1>1, <2>1, MinOfNats
<1>3. StartBridge(s, Min(new)) /\ mode = "live" /\ UNCHANGED <<storeVars, lastId>>
  BY DEF Rebridge
<1> HIDE DEF new
<1>4. /\ br' \in [sym : Trades, target : Ids \cup {None}, next : Nat]
      /\ mode' \in {"bridge", "bridged"}
      /\ Unique' /\ Covered'
  BY <1>2, <1>3, BridgeStarts
<1>5. TypeOK'
  BY <1>4, MainStepType DEF IInv, TypeOK, StoreTypeOK, Rebridge, storeVars, Modes
<1> QED
  BY <1>4, <1>5 DEF IInv, BridgeTyped

LEMMA BridgePageStep ==
  ASSUME IInv, BridgePage
  PROVE  IInv'
<1>1. br \in [sym : Trades, target : Ids \cup {None}, next : Nat] /\ mode = "bridge"
  BY DEF IInv, BridgeTyped, BridgePage
<1> DEFINE sym == br.sym
<1>2. sym \in Streams /\ br.next \in Nat
  BY <1>1 DEF Streams
<1>3. PICK tip : LET ids    == Wanted(tip)
                     nextId == IF ids = {} THEN br.next ELSE Max(ids) + 1
                 IN  /\ rdb' = IF ids = {} THEN rdb ELSE Inserted(rdb, br.sym, ids)
                     /\ br' = [br EXCEPT !.next = nextId]
                     /\ mode' \in {"bridge", "bridged"}
  BY DEF BridgePage
<1> DEFINE ids    == Wanted(tip)
           nextId == IF ids = {} THEN br.next ELSE Max(ids) + 1
<1>4. ids \in SUBSET Ids /\ \A i \in ids : br.next <= i
  BY DEF Wanted
<1>5. nextId \in Nat /\ br.next <= nextId /\ \A i \in ids : i < nextId
  <2>1. CASE ids = {}
    BY <1>2, <2>1
  <2>2. CASE ids # {}
    <3>1. ids \in SUBSET (0 .. MaxId) /\ MaxId \in Nat
      BY <1>4, BoundsAssumption DEF Ids
    <3>2. Max(ids) \in ids /\ \A i \in ids : i <= Max(ids)
      BY <2>2, <3>1, MaxOfBounded
    <3>3. Max(ids) \in Nat /\ br.next <= Max(ids) /\ \A i \in ids : i \in Nat
      BY <1>4, <3>1, <3>2
    <3> QED
      BY <1>2, <2>2, <3>2, <3>3
  <2> QED
    BY <2>1, <2>2
<1>6. /\ rdb \in [Streams -> Table]
      /\ \A t \in Streams : \A i \in Ids : rdb[t][i] <= 1
      /\ \A i \in RowIds(rdb[sym]) : i < br.next
      /\ \A t \in Streams : t # sym => \A i \in RowIds(rdb[t]) : i <= lastId[t]
  BY <1>1, <1>2 DEF IInv, TypeOK, StoreTypeOK, Unique, Covered, Bridging
<1>7. /\ rdb' = IF ids = {} THEN rdb ELSE Inserted(rdb, sym, ids)
      /\ br' = [br EXCEPT !.next = nextId]
      /\ mode' \in {"bridge", "bridged"}
  BY <1>3
<1>8. /\ br' \in [sym : Trades, target : Ids \cup {None}, next : Nat]
      /\ br'.sym = sym /\ br'.next = nextId
  BY <1>1, <1>5, <1>7
<1> HIDE DEF ids, nextId
<1>9. /\ rdb' \in [Streams -> Table]
      /\ \A t \in Streams : \A i \in Ids : rdb'[t][i] <= 1
      /\ \A i \in RowIds(rdb'[sym]) : i \in RowIds(rdb[sym]) \/ i \in ids
      /\ \A t \in Streams : t # sym => rdb'[t] = rdb[t]
  <2>1. CASE ids = {}
    BY <1>6, <1>7, <2>1
  <2>2. CASE ids # {}
    <3>1. \A i \in RowIds(rdb[sym]) : \A j \in ids : i < j
      <4> SUFFICES ASSUME NEW i \in RowIds(rdb[sym]), NEW j \in ids PROVE i < j
        OBVIOUS
      <4>1. i \in Nat /\ j \in Nat /\ i < br.next /\ br.next <= j
        BY <1>4, <1>6 DEF RowIds, Ids
      <4> QED
        BY <1>2, <4>1
    <3> QED
      BY <1>2, <1>4, <1>6, <1>7, <2>2, <3>1, InsertAbove
  <2> QED
    BY <2>1, <2>2
<1>10. StoreTypeOK' /\ UNCHANGED <<sessionVars, published, queue, pendingRebridge,
                                  connectedOnce, todo, batch, lastId, faults>>
  BY <1>9 DEF IInv, TypeOK, StoreTypeOK, BridgePage
<1>11. TypeOK'
  BY <1>7, <1>8, <1>10, MainStepType DEF IInv, TypeOK, Modes
<1>12. Covered'
  <2> SUFFICES ASSUME NEW t \in Streams, NEW i \in RowIds(rdb'[t])
               PROVE  IF t = sym THEN i < nextId ELSE i <= lastId[t]
    BY <1>7, <1>8, <1>10 DEF Covered, Bridging, RowIds
  <2>1. CASE t = sym
    <3>1. i \in Ids
      BY DEF RowIds
    <3>2. CASE i \in ids
      BY <1>5, <2>1, <3>2
    <3>3. CASE i \in RowIds(rdb[sym])
      <4>1. i < br.next /\ i \in Nat
        BY <1>6, <3>1, <3>3 DEF Ids
      <4> QED
        BY <1>2, <1>5, <2>1, <4>1
    <3> QED
      BY <1>9, <2>1, <3>2, <3>3
  <2>2. CASE t # sym
    BY <1>6, <1>9, <2>2
  <2> QED
    BY <2>1, <2>2
<1> QED
  BY <1>8, <1>9, <1>11, <1>12 DEF IInv, BridgeTyped, Unique

(* Applying one stream's records of the batch over a floor that covers its  *)
(* rows: the common step of Rebridged, ApplyTrades and ApplyQuotes.         *)
LEMMA ApplyGroupAbove ==
  ASSUME IInv, NEW s \in Streams, NEW floor \in Ids \cup {None},
         \A i \in RowIds(rdb[s]) : i <= floor,
         \A t \in Streams : t # s => \A i \in RowIds(rdb[t]) : i <= lastId[t],
         ApplyGroup(s, floor)
  PROVE  /\ StoreTypeOK' /\ Unique'
         /\ lastId' \in [Streams -> Ids \cup {None}]
         /\ \A t \in Streams : \A i \in RowIds(rdb'[t]) : i <= lastId'[t]
         /\ batch' \subseteq Record
<1> DEFINE fresh == Fresh(Group(s), floor)
<1>1. fresh \in SUBSET Ids /\ \A j \in fresh : floor < j
  <2>1. fresh \in SUBSET Ids
    BY FreshIds DEF IInv
  <2>2. \A j \in fresh : j > floor
    BY DEF Fresh
  <2> QED
    BY <2>1, <2>2 DEF Ids, None
<1>2. StoreTypeOK /\ Unique /\ lastId \in [Streams -> Ids \cup {None}]
  BY DEF IInv, TypeOK
<1>3. /\ IF fresh = {} THEN UNCHANGED storeVars ELSE Feed(s, fresh)
      /\ lastId' = [lastId EXCEPT ![s] = IF fresh = {} THEN floor ELSE Max(fresh)]
      /\ batch' \subseteq batch
  BY DEF ApplyGroup
<1>4. batch' \subseteq Record
  BY <1>3 DEF IInv, TypeOK
<1> HIDE DEF fresh
<1>5. CASE fresh = {}
  <2>1. UNCHANGED storeVars /\ lastId' = [lastId EXCEPT ![s] = floor]
    BY <1>3, <1>5
  <2>2. lastId' \in [Streams -> Ids \cup {None}]
    BY <1>2, <2>1
  <2>3. StoreTypeOK' /\ Unique'
    BY <1>2, <2>1 DEF StoreTypeOK, Unique, storeVars
  <2>4. \A t \in Streams : \A i \in RowIds(rdb'[t]) : i <= lastId'[t]
    BY <1>2, <2>1 DEF storeVars
  <2> QED
    BY <1>4, <2>2, <2>3, <2>4
<1>6. CASE fresh # {}
  <2>1. fresh \in SUBSET (0 .. MaxId) /\ MaxId \in Nat
    BY <1>1, BoundsAssumption DEF Ids
  <2>2. Max(fresh) \in fresh /\ \A y \in fresh : y <= Max(fresh)
    BY <1>6, <2>1, MaxOfBounded
  <2>9. Max(fresh) \in Nat
    <3> DEFINE top == Max(fresh)
    <3>1. top \in 0 .. MaxId
      BY <2>1, <2>2
    <3> HIDE DEF top
    <3>2. top \in Nat
      BY <3>1
    <3> QED
      BY <3>2 DEF top
  <2>3. lastId' = [lastId EXCEPT ![s] = Max(fresh)] /\ Feed(s, fresh)
    BY <1>3, <1>6
  <2>4. lastId' \in [Streams -> Ids \cup {None}]
    BY <1>1, <1>2, <2>2, <2>3
  <2>5. \A i \in RowIds(rdb[s]) : \A j \in fresh : i < j
    <3> SUFFICES ASSUME NEW i \in RowIds(rdb[s]), NEW j \in fresh PROVE i < j
      OBVIOUS
    <3>1. i \in Nat /\ j \in Nat /\ floor \in Nat
      BY <1>1 DEF RowIds, Ids, None
    <3> QED
      BY <1>1, <3>1
  <2>6. /\ StoreTypeOK' /\ Unique'
        /\ \A i \in RowIds(rdb'[s]) : i \in RowIds(rdb[s]) \/ i \in fresh
        /\ \A t \in Streams : t # s => RowIds(rdb'[t]) \subseteq RowIds(rdb[t])
    BY <1>1, <1>2, <1>6, <2>3, <2>5, FeedAbove
  <2>7. \A i \in RowIds(rdb'[s]) : i <= lastId'[s]
    <3> SUFFICES ASSUME NEW i \in RowIds(rdb'[s]) PROVE i <= Max(fresh)
      BY <1>2, <2>3
    <3>1. CASE i \in fresh
      BY <2>2, <3>1
    <3>2. CASE i \in RowIds(rdb[s])
      <4>1. i < Max(fresh)
        BY <2>2, <2>5, <3>2
      <4>2. i \in Nat
        BY DEF RowIds, Ids
      <4> QED
        BY <2>9, <4>1, <4>2
    <3> QED
      BY <2>6, <3>1, <3>2
  <2>8. \A t \in Streams : \A i \in RowIds(rdb'[t]) : i <= lastId'[t]
    BY <1>2, <2>3, <2>6, <2>7
  <2> QED
    BY <1>4, <2>4, <2>6, <2>8
<1> QED
  BY <1>5, <1>6

(* What Covered says of the streams that no bridge is filling.              *)
LEMMA CoveredElsewhere ==
  ASSUME IInv, mode # "stopped"
  PROVE  \A t \in Streams : ~ Bridging(t) => \A i \in RowIds(rdb[t]) : i <= lastId[t]
BY DEF IInv, Covered

LEMMA RebridgedStep ==
  ASSUME IInv, Rebridged
  PROVE  IInv'
<1>1. mode = "bridged" /\ br \in [sym : Trades, target : Ids \cup {None}, next : Nat]
  BY DEF IInv, BridgeTyped, Rebridged
<1>2. br.sym \in Streams
  BY <1>1 DEF Streams
<1>3. /\ MaxStoredId(br.sym) \in Ids \cup {None}
      /\ \A i \in RowIds(rdb[br.sym]) : i <= MaxStoredId(br.sym)
  BY <1>2, StoredIdCoversRdb DEF IInv, TypeOK
<1>4. \A t \in Streams : t # br.sym => \A i \in RowIds(rdb[t]) : i <= lastId[t]
  BY <1>1, CoveredElsewhere DEF Bridging
<1>5. ApplyGroup(br.sym, MaxStoredId(br.sym))
  BY DEF Rebridged
<1>6. /\ StoreTypeOK' /\ Unique'
      /\ lastId' \in [Streams -> Ids \cup {None}]
      /\ \A t \in Streams : \A i \in RowIds(rdb'[t]) : i <= lastId'[t]
      /\ batch' \subseteq Record
  BY <1>2, <1>3, <1>4, <1>5, ApplyGroupAbove
<1>7. TypeOK'
  BY <1>6, MainStepType DEF IInv, TypeOK, Rebridged, sessionVars, Modes, Unflag
<1> QED
  BY <1>6, <1>7 DEF IInv, BridgeTyped, Covered, Bridging, Rebridged

LEMMA ApplyStep ==
  ASSUME IInv, NEW s \in Streams, ApplyTrades(s) \/ ApplyQuotes(s)
  PROVE  IInv'
<1>1. mode = "live" /\ mode' = "live" /\ ApplyGroup(s, lastId[s])
  BY DEF ApplyTrades, ApplyQuotes
<1>2. \A t \in Streams : \A i \in RowIds(rdb[t]) : i <= lastId[t]
  BY <1>1, CoveredElsewhere DEF Bridging
<1>3. lastId[s] \in Ids \cup {None}
  BY DEF IInv, TypeOK
<1>4. /\ StoreTypeOK' /\ Unique'
      /\ lastId' \in [Streams -> Ids \cup {None}]
      /\ \A t \in Streams : \A i \in RowIds(rdb'[t]) : i <= lastId'[t]
      /\ batch' \subseteq Record
  BY <1>1, <1>2, <1>3, ApplyGroupAbove
<1>5. pendingRebridge' \subseteq Trades
  BY DEF IInv, TypeOK, ApplyTrades, ApplyQuotes, Unflag
<1>6. UNCHANGED <<sessionVars, published, queue, connectedOnce, mode, todo, br, faults>>
  BY DEF ApplyTrades, ApplyQuotes
<1>7. TypeOK'
  BY <1>4, <1>5, <1>6, MainStepType DEF IInv, TypeOK
<1> QED
  BY <1>1, <1>4, <1>7 DEF IInv, BridgeTyped, Covered, Bridging

LEMMA StartupBridgedStep ==
  ASSUME IInv, StartupBridged
  PROVE  IInv'
<1>1. mode = "bridged" /\ br \in [sym : Trades, target : Ids \cup {None}, next : Nat]
  BY DEF IInv, BridgeTyped, StartupBridged
<1>2. br.sym \in Streams
  BY <1>1 DEF Streams
<1>3. /\ MaxStoredId(br.sym) \in Ids \cup {None}
      /\ \A i \in RowIds(rdb[br.sym]) : i <= MaxStoredId(br.sym)
  BY <1>2, StoredIdCoversRdb DEF IInv, TypeOK
<1>4. \A t \in Streams : t # br.sym => \A i \in RowIds(rdb[t]) : i <= lastId[t]
  BY <1>1, CoveredElsewhere DEF Bridging
<1>5. /\ lastId' = [lastId EXCEPT ![br.sym] = MaxStoredId(br.sym)]
      /\ mode' = "startup" /\ UNCHANGED storeVars
  BY DEF StartupBridged
<1>6. lastId' \in [Streams -> Ids \cup {None}] /\ StoreTypeOK' /\ Unique'
  BY <1>3, <1>5 DEF IInv, TypeOK, StoreTypeOK, Unique, storeVars
<1>7. \A t \in Streams : \A i \in RowIds(rdb'[t]) : i <= lastId'[t]
  BY <1>3, <1>4, <1>5 DEF IInv, TypeOK, storeVars
<1>8. TypeOK'
  BY <1>6, MainStepType DEF IInv, TypeOK, StartupBridged, sessionVars, Modes
<1> QED
  BY <1>5, <1>6, <1>7, <1>8 DEF IInv, BridgeTyped, Covered, Bridging

LEMMA GoLiveStep ==
  ASSUME IInv, GoLive
  PROVE  IInv'
<1>1. \A t \in Streams : /\ MaxStoredId(t) \in Ids \cup {None}
                         /\ \A i \in RowIds(rdb[t]) : i <= MaxStoredId(t)
  BY StoredIdCoversRdb DEF IInv, TypeOK
<1>2. /\ lastId' = [s \in Streams |-> IF s \in Quotes THEN MaxStoredId(s) ELSE lastId[s]]
      /\ mode = "startup" /\ mode' = "live" /\ UNCHANGED storeVars
  BY DEF GoLive
<1>3. \A t \in Streams : \A i \in RowIds(rdb[t]) : i <= lastId[t]
  BY <1>2, CoveredElsewhere DEF Bridging
<1>4. lastId' \in [Streams -> Ids \cup {None}] /\ StoreTypeOK' /\ Unique'
  BY <1>1, <1>2 DEF IInv, TypeOK, StoreTypeOK, Unique, storeVars
<1>5. \A t \in Streams : \A i \in RowIds(rdb'[t]) : i <= lastId'[t]
  BY <1>1, <1>2, <1>3 DEF storeVars
<1>6. TypeOK'
  BY <1>4, MainStepType DEF IInv, TypeOK, GoLive, sessionVars, Modes
<1> QED
  BY <1>2, <1>4, <1>5, <1>6 DEF IInv, BridgeTyped, Covered, Bridging

LEMMA DrainStep ==
  ASSUME IInv, Drain
  PROVE  IInv'
<1>1. Drained \in 1 .. Len(queue) /\ queue \in Seq(Record)
  BY SizesAssumption, LenProperties, EmptySeq DEF IInv, TypeOK, Drain, Drained
<1>2. batch' \subseteq Record
  BY <1>1, ElementOfSeq DEF Drain
<1>3. queue' \in Seq(Record) /\ Len(queue') <= Len(queue)
  BY <1>1, SubSeqProperties, LenProperties DEF Drain
<1>4. Len(queue') <= QueueMax
  BY <1>1, <1>3, LenProperties, SizesAssumption DEF IInv, TypeOK
<1>5. StoreTypeOK' /\ Unique'
  BY DEF IInv, TypeOK, StoreTypeOK, Unique, Drain, storeVars
<1>6. TypeOK'
  BY <1>2, <1>3, <1>4, <1>5, MainStepType DEF IInv, TypeOK, Drain, sessionVars
<1> QED
  BY <1>5, <1>6 DEF IInv, BridgeTyped, Covered, Bridging, Drain, storeVars, RowIds

(* The end of the process and its next start.                               *)
LEMMA EndStep ==
  ASSUME IInv, Stop \/ Crash \/ Restart
  PROVE  IInv'
<1>1. StoreTypeOK' /\ Unique'
  <2>1. CASE Stop
    <3>1. day # None => SavedDown(day) \in [Days -> [Streams -> Table]]
      BY SavedDownType DEF IInv, TypeOK, StoreTypeOK
    <3> QED
      BY <2>1, <3>1, EmptyTablesType
      DEF Stop, Flush, IInv, TypeOK, StoreTypeOK, Unique
  <2>2. CASE Crash \/ Restart
    BY <2>2, EmptyTablesType
    DEF Crash, Restart, LoseMemory, IInv, TypeOK, StoreTypeOK, Unique
  <2> QED
    BY <2>1, <2>2
<1>2. faults' \in [Faults -> Nat]
  <2>1. faults \in [Faults -> Nat]
    BY DEF IInv, TypeOK
  <2>2. CASE Stop
    BY <2>1, <2>2 DEF Stop, Fault, Faults
  <2>3. CASE Crash
    BY <2>1, <2>3 DEF Crash, Fault, Faults
  <2>4. CASE Restart
    BY <2>1, <2>4 DEF Restart
  <2> QED
    BY <2>2, <2>3, <2>4
<1>3. CASE Stop \/ Crash
  <2>1. Dead /\ mode' \in {"stopped", "startup"}
    BY <1>3 DEF Stop, Crash
  <2>2. queue' \in Seq(Record) /\ Len(queue') <= QueueMax
    BY <2>1, EmptySeq, SizesAssumption DEF Dead
  <2>3. lastId' \in [Streams -> Ids \cup {None}]
    BY <2>1 DEF Dead
  <2>4. TypeOK'
    BY <1>1, <1>2, <2>1, <2>2, <2>3 DEF IInv, TypeOK, Dead, Modes
  <2>5. Covered'
    BY <1>3, EmptyTablesType DEF Covered, Stop, Crash, LoseMemory
  <2> QED
    BY <1>1, <2>1, <2>4, <2>5 DEF IInv, BridgeTyped
<1>4. CASE Restart
  <2>1. TypeOK'
    BY <1>1, <1>2, <1>4 DEF IInv, TypeOK, Restart, sessionVars, Modes
  <2>2. Covered'
    BY <1>4, EmptyTablesType DEF Covered, Restart
  <2> QED
    BY <1>1, <1>4, <2>1, <2>2 DEF IInv, BridgeTyped, Restart
<1> QED
  BY <1>3, <1>4

LEMMA NextIInv == IInv /\ [Next]_vars => IInv'
<1> SUFFICES ASSUME IInv, [Next]_vars PROVE IInv'
  OBVIOUS
<1>1. CASE Next
  <2>1. CASE \E s \in Streams : Publish(s)
    BY <2>1, PublishStep
  <2>2. CASE Connect
    BY <2>2, ConnectStep
  <2>3. CASE Deliver \/ DeliverAckLost
    BY <2>3, DeliverStep
  <2>4. CASE LinkLoss \/ SessionLoss
    BY <2>4, LinkStep
  <2>5. CASE Main
    <3>1. \A s \in Trades \cup Quotes : s \in Streams
      BY DEF Streams
    <3> QED
      BY <2>5, <3>1, BridgePageStep, StartupBridgedStep, GoLiveStep, DrainStep, RebridgedStep,
         StartupBridgeStep, RebridgeStep, ApplyStep DEF Main
  <2>6. CASE Stop \/ Crash \/ Restart
    BY <2>6, EndStep
  <2> QED
    BY <1>1, <2>1, <2>2, <2>3, <2>4, <2>5, <2>6 DEF Next
<1>2. CASE UNCHANGED vars
  BY <1>2 DEF vars, storeVars, sessionVars, mainVars, IInv, TypeOK, StoreTypeOK, BridgeTyped,
              Unique, Covered, Bridging, RowIds
<1> QED
  BY <1>1, <1>2

-----------------------------------------------------------------------------
(* Every variable keeps its type in every behaviour.                        *)
THEOREM TypeCorrect == Spec => []TypeOK
<1>1. IInv => TypeOK
  BY DEF IInv
<1> QED
  BY <1>1, InitIInv, NextIInv, PTL DEF Spec

(* The dedup floor covers the RDB: whatever outages, redeliveries,          *)
(* overflows, REST lags, crashes and restarts happen, the in-memory tables  *)
(* never hold a row twice nor, while live, a row above its floor.           *)
THEOREM RdbAlwaysSound == Spec => []RdbSound
<1>1. IInv => RdbSound
  BY DEF IInv, Unique, Covered, Bridging, RdbSound
<1> QED
  BY <1>1, InitIInv, NextIInv, PTL DEF Spec

-----------------------------------------------------------------------------
(* Sequences of messages whose elements are pairwise related.               *)

Msgs(q) == {q[k] : k \in 1 .. Len(q)}

Chain(q, R) == \A k, l \in 1 .. Len(q) : k < l => <<q[k], q[l]>> \in R

LEMMA ChainEmpty ==
  ASSUME NEW R
  PROVE  Chain(<<>>, R) /\ Msgs(<<>>) = {}
<1>1. Len(<<>>) = 0
  OBVIOUS
<1> QED
  BY <1>1 DEF Chain, Msgs

LEMMA ChainAppend ==
  ASSUME NEW S, NEW R, NEW q \in Seq(S), NEW m \in S, Chain(q, R),
         \A x \in Msgs(q) : <<x, m>> \in R
  PROVE  Chain(Append(q, m), R) /\ Msgs(Append(q, m)) = Msgs(q) \cup {m}
<1> DEFINE a == Append(q, m)
<1>1. /\ Len(q) \in Nat /\ Len(a) = Len(q) + 1
      /\ \A k \in 1 .. Len(q) : a[k] = q[k]
      /\ a[Len(q) + 1] = m
  BY AppendProperties, LenProperties
<1> HIDE DEF a
<1>2. \A k \in 1 .. Len(a) : k \in 1 .. Len(q) \/ k = Len(q) + 1
  BY <1>1
<1>3. \A k \in 1 .. Len(q) : k \in 1 .. Len(a)
  BY <1>1
<1>4. Len(q) + 1 \in 1 .. Len(a)
  BY <1>1
<1>5. Chain(a, R)
  <2> SUFFICES ASSUME NEW k \in 1 .. Len(a), NEW l \in 1 .. Len(a), k < l
               PROVE  <<a[k], a[l]>> \in R
    BY DEF Chain
  <2>1. k \in 1 .. Len(q)
    BY <1>1
  <2>2. CASE l \in 1 .. Len(q)
    BY <1>1, <2>1, <2>2 DEF Chain
  <2>3. CASE l = Len(q) + 1
    BY <1>1, <2>1, <2>3 DEF Msgs
  <2> QED
    BY <1>2, <2>2, <2>3
<1>6. Msgs(a) = Msgs(q) \cup {m}
  BY <1>1, <1>2, <1>3, <1>4 DEF Msgs
<1> QED
  BY <1>5, <1>6 DEF a

LEMMA ChainTail ==
  ASSUME NEW S, NEW R, NEW q \in Seq(S), q # <<>>, Chain(q, R)
  PROVE  /\ Chain(Tail(q), R)
         /\ Head(q) \in Msgs(q) /\ Msgs(q) = Msgs(Tail(q)) \cup {Head(q)}
         /\ \A x \in Msgs(Tail(q)) : <<Head(q), x>> \in R
<1> DEFINE t == Tail(q)
<1>1. /\ Len(q) \in Nat /\ Len(q) >= 1 /\ Len(t) = Len(q) - 1
      /\ \A k \in 1 .. Len(t) : t[k] = q[k + 1]
      /\ Head(q) = q[1]
  BY HeadTailProperties, LenProperties, EmptySeq
<1> HIDE DEF t
<1>2. \A k \in 1 .. Len(t) : k + 1 \in 1 .. Len(q) /\ 1 < k + 1
  BY <1>1
<1>3. 1 \in 1 .. Len(q)
  BY <1>1
<1>4. \A x \in Msgs(t) : <<q[1], x>> \in R /\ x \in Msgs(q)
  BY <1>1, <1>2, <1>3 DEF Msgs, Chain
<1>5. Chain(t, R)
  <2> SUFFICES ASSUME NEW k \in 1 .. Len(t), NEW l \in 1 .. Len(t), k < l
               PROVE  <<t[k], t[l]>> \in R
    BY DEF Chain
  <2>1. k + 1 \in 1 .. Len(q) /\ l + 1 \in 1 .. Len(q) /\ k + 1 < l + 1
    BY <1>1
  <2> QED
    BY <1>1, <2>1 DEF Chain
<1>6. Msgs(q) \subseteq Msgs(t) \cup {q[1]}
  <2> SUFFICES ASSUME NEW k \in 1 .. Len(q), k # 1 PROVE q[k] \in Msgs(t)
    BY DEF Msgs
  <2>1. k - 1 \in 1 .. Len(t) /\ (k - 1) + 1 = k
    BY <1>1
  <2> QED
    BY <1>1, <2>1 DEF Msgs
<1>7. q[1] \in Msgs(q)
  BY <1>3 DEF Msgs
<1> QED
  BY <1>1, <1>4, <1>5, <1>6, <1>7 DEF t

LEMMA ChainSplit ==
  ASSUME NEW S, NEW R, NEW q \in Seq(S), NEW n \in 1 .. Len(q), Chain(q, R)
  PROVE  LET first == {q[k] : k \in 1 .. n}
             rest  == SubSeq(q, n + 1, Len(q))
         IN  /\ Chain(rest, R)
             /\ Msgs(q) = first \cup Msgs(rest)
             /\ \A x \in first : \A y \in Msgs(rest) : <<x, y>> \in R
<1> DEFINE first == {q[k] : k \in 1 .. n}
           rest  == SubSeq(q, n + 1, Len(q))
<1>1. /\ Len(q) \in Nat /\ n \in Nat /\ Len(rest) = Len(q) - n
      /\ \A k \in 1 .. Len(rest) : rest[k] = q[n + k]
  <2>1. Len(q) \in Nat
    BY LenProperties
  <2>2. n + 1 \in 1 .. Len(q) + 1
    BY <2>1
  <2>3. Len(rest) = IF n + 1 <= Len(q) THEN Len(q) - (n + 1) + 1 ELSE 0
    BY <2>1, <2>2, SubSeqProperties
  <2>4. \A k \in 1 .. Len(q) - (n + 1) + 1 : rest[k] = q[n + 1 + k - 1]
    BY <2>1, <2>2, SubSeqProperties
  <2> HIDE DEF rest
  <2> QED
    BY <2>1, <2>3, <2>4
<1> HIDE DEF rest
<1>2. \A k \in 1 .. Len(rest) : n + k \in 1 .. Len(q) /\ n + k > n
  BY <1>1
<1>3. Chain(rest, R)
  <2> SUFFICES ASSUME NEW k \in 1 .. Len(rest), NEW l \in 1 .. Len(rest), k < l
               PROVE  <<rest[k], rest[l]>> \in R
    BY DEF Chain
  <2>1. n + k \in 1 .. Len(q) /\ n + l \in 1 .. Len(q) /\ n + k < n + l
    BY <1>1
  <2> QED
    BY <1>1, <2>1 DEF Chain
<1>4. \A k \in 1 .. Len(q) : k \in 1 .. n \/ (k - n \in 1 .. Len(rest) /\ n + (k - n) = k)
  BY <1>1
<1>5. \A k \in 1 .. n : k \in 1 .. Len(q)
  BY <1>1
<1>6. Msgs(q) = first \cup Msgs(rest)
  <2>1. first \subseteq Msgs(q) /\ Msgs(rest) \subseteq Msgs(q)
    BY <1>1, <1>2, <1>5 DEF Msgs
  <2>2. ASSUME NEW k \in 1 .. Len(q)
        PROVE  q[k] \in first \cup Msgs(rest)
    <3>1. CASE k \in 1 .. n
      BY <3>1
    <3>2. CASE k - n \in 1 .. Len(rest) /\ n + (k - n) = k
      <4>1. rest[k - n] = q[k]
        BY <1>1, <3>2
      <4> QED
        BY <3>2, <4>1 DEF Msgs
    <3> QED
      BY <1>4, <3>1, <3>2
  <2> QED
    BY <2>1, <2>2 DEF Msgs
<1>7. \A x \in first : \A y \in Msgs(rest) : <<x, y>> \in R
  <2> SUFFICES ASSUME NEW k \in 1 .. n, NEW l \in 1 .. Len(rest)
               PROVE  <<q[k], rest[l]>> \in R
    BY DEF Msgs
  <2>1. n + l \in 1 .. Len(q) /\ k < n + l
    BY <1>1
  <2> QED
    BY <1>1, <1>5, <2>1 DEF Chain
<1> QED
  BY <1>3, <1>6, <1>7 DEF rest

(* The records of a sequence of records.                                    *)
LEMMA MsgsTyped ==
  ASSUME NEW q \in Seq(Record)
  PROVE  Msgs(q) \subseteq Record
BY ElementOfSeq DEF Msgs

-----------------------------------------------------------------------------
(* Dates.  Messages come in the order of their dates (ClocksSynced), so a   *)
(* partition is written when no message of its date can come any more.      *)

(* The rows that a first start finds on disk are older than those to come.  *)
FirstRowsOlder ==
    \A s, t \in Streams : \A i \in Ids : i >= 2 => DayOf[s][1] < DayOf[t][i]

Date(m) == DayOf[m.stream][m.id]

DateRel == {r \in Record \X Record : Date(r[1]) <= Date(r[2])}

Held(d) == \E s \in Streams : RowIds(hdb[d][s]) # {}

(* Batch, queue and the broker's backlog are in the order of their dates,   *)
(* and nothing is in them that was not published.                           *)
InDateOrder ==
    /\ Chain(queue, DateRel) /\ Chain(backlog, DateRel)
    /\ \A m \in Msgs(queue) : \A n \in Msgs(backlog) : Date(m) <= Date(n)
    /\ \A m \in batch : \A n \in Msgs(queue) \cup Msgs(backlog) : Date(m) <= Date(n)
    /\ \A m \in batch \cup Msgs(queue) \cup Msgs(backlog) : m.id <= published[m.stream]

(* Row i of s could be published next, as far as the clocks go.             *)
Publishable(s, i) ==
    i > published[s] /\ \A t \in Streams : DayOf[t][published[t]] <= DayOf[s][i]

(* No message that is still to be applied first is of date d or before.     *)
Over(d) ==
    /\ day # None => d < day
    /\ \A n \in Msgs(queue) \cup Msgs(backlog) : d < Date(n)
    /\ day = None => \A m \in batch : d < Date(m)
    /\ \A s \in Streams : \A i \in Ids : Publishable(s, i) => d < DayOf[s][i]

DayReached ==
    day # None =>
        /\ \A n \in Msgs(queue) \cup Msgs(backlog) : day <= Date(n)
        /\ \E t \in Streams : day <= DayOf[t][published[t]]

DatesInv ==
    /\ InDateOrder
    /\ DayReached
    /\ \A d \in Days : Held(d) => Over(d)
    /\ mode # "stopped"

LEMMA DateTyped ==
  ASSUME NEW m \in Record
  PROVE  Date(m) \in Days /\ Date(m) \in Nat
BY DayOfAssumption DEF Date, Record, Days

LEMMA DateRelIs ==
  ASSUME NEW m \in Record, NEW n \in Record
  PROVE  <<m, n>> \in DateRel <=> Date(m) <= Date(n)
BY DEF DateRel

LEMMA DayOfNat ==
  ASSUME NEW s \in Streams, NEW i \in Ids
  PROVE  DayOf[s][i] \in Days /\ DayOf[s][i] \in Nat
BY DayOfAssumption DEF Days

(* What is published is of the date of its newest row or before.            *)
LEMMA PublishedDate ==
  ASSUME published \in [Streams -> Ids], NEW m \in Record, m.id <= published[m.stream]
  PROVE  Date(m) <= DayOf[m.stream][published[m.stream]]
BY DayOfAssumption DEF Record, Date

LEMMA DatesInit ==
  ASSUME Init, FirstRowsOlder
  PROVE  DatesInv
<1>1. Msgs(queue) = {} /\ Msgs(backlog) = {} /\ batch = {} /\ day = None
      /\ Chain(queue, DateRel) /\ Chain(backlog, DateRel)
  BY ChainEmpty DEF Init, SessionInit
<1>2. ASSUME NEW d \in Days, Held(d)
      PROVE  Over(d)
  <2>1. PICK s \in Streams : RowIds(InitTables(d)[s]) # {}
    BY <1>2 DEF Init, Held
  <2>2. DayOf[s][1] = d
    <3>1. PICK i \in Ids : InitTables(d)[s][i] > 0
      BY <2>1 DEF RowIds
    <3>2. InitTables(d)[s][i] = (IF i = 1 /\ DayOf[s][1] = d THEN 1 ELSE 0)
      BY DEF InitTables
    <3> QED
      BY <3>1, <3>2
  <2>3. \A t \in Streams : \A i \in Ids : i > 1 => d < DayOf[t][i]
    BY <2>2 DEF FirstRowsOlder, Ids
  <2>4. \A t \in Streams : published[t] = 1
    BY DEF Init
  <2> QED
    BY <1>1, <2>3, <2>4 DEF Over, Publishable
<1> QED
  BY <1>1, <1>2 DEF DatesInv, InDateOrder, DayReached, Init

(* Steps that leave the messages and the partitions alone.                  *)
LEMMA DatesSame ==
  ASSUME DatesInv, UNCHANGED <<queue, backlog, batch, published, day, hdb>>, mode' # "stopped"
  PROVE  DatesInv'
BY DEF DatesInv, InDateOrder, DayReached, Held, Over, Publishable

(* What is on its way is made of records.                                   *)
LEMMA OnItsWay ==
  ASSUME TypeOK
  PROVE  batch \cup Msgs(queue) \cup Msgs(backlog) \subseteq Record
BY MsgsTyped DEF TypeOK

LEMMA DatesPublish ==
  ASSUME IInv, DatesInv, ClocksSynced, NEW s \in Streams, Publish(s)
  PROVE  DatesInv'
<1> DEFINE m == [stream |-> s, id |-> published[s] + 1]
<1>typed. TypeOK /\ published \in [Streams -> Ids] /\ backlog \in Seq(Record)
  BY DEF IInv, TypeOK
<1>1. /\ published[s] + 1 \in Ids
      /\ \A t \in Streams : DayOf[t][published[t]] <= DayOf[s][published[s] + 1]
      /\ published' = [published EXCEPT ![s] = @ + 1]
      /\ UNCHANGED <<rdb, hdb, day, queue, batch, mode>>
      /\ backlog' = (IF subscribed /\ Len(backlog) < MaxQueued THEN Append(backlog, m) ELSE backlog)
  BY <1>typed, BoundsAssumption DEF Publish, Enqueue, Ids, storeVars, mainVars
<1>2. m \in Record /\ m.stream = s /\ m.id = published[s] + 1 /\ Date(m) = DayOf[s][published[s] + 1]
  BY <1>1 DEF Record, Date
<1> HIDE DEF m
<1>3. ASSUME NEW x \in batch \cup Msgs(queue) \cup Msgs(backlog)
      PROVE  x \in Record /\ Date(x) <= Date(m)
  <2>1. x \in Record /\ x.id <= published[x.stream]
    BY <1>typed, OnItsWay DEF DatesInv, InDateOrder
  <2>2. Date(x) <= DayOf[x.stream][published[x.stream]]
    BY <1>typed, <2>1, PublishedDate
  <2>3. x.stream \in Streams
    BY <2>1 DEF Record
  <2>4. DayOf[x.stream][published[x.stream]] <= Date(m)
    BY <1>1, <1>2, <2>3
  <2>5. DayOf[x.stream][published[x.stream]] \in Nat /\ Date(x) \in Nat /\ Date(m) \in Nat
    BY <1>typed, <1>2, <2>1, <2>3, DayOfNat, DateTyped
  <2> QED
    BY <2>1, <2>2, <2>4, <2>5
<1>4. Chain(backlog', DateRel) /\ Msgs(backlog') \subseteq Msgs(backlog) \cup {m}
  <2>1. Chain(backlog, DateRel)
    BY DEF DatesInv, InDateOrder
  <2>2. \A x \in Msgs(backlog) : <<x, m>> \in DateRel
    BY <1>2, <1>3, DateRelIs
  <2>3. Chain(Append(backlog, m), DateRel) /\ Msgs(Append(backlog, m)) = Msgs(backlog) \cup {m}
    BY <1>typed, <1>2, <2>1, <2>2, ChainAppend
  <2> QED
    BY <1>1, <2>1, <2>3
<1>5. \A t \in Streams : /\ published'[t] \in Ids /\ published[t] \in Ids /\ published[t] <= published'[t]
                         /\ DayOf[t][published[t]] <= DayOf[t][published'[t]]
  <2> TAKE t \in Streams
  <2>1. published'[t] \in Ids /\ published[t] \in Ids /\ published[t] <= published'[t]
    BY <1>typed, <1>1 DEF Ids
  <2> QED
    BY <2>1, DayOfAssumption
<1>6. InDateOrder'
  <2>1. \A x \in batch \cup Msgs(queue) : \A y \in Msgs(backlog') : Date(x) <= Date(y)
    BY <1>3, <1>4 DEF DatesInv, InDateOrder
  <2>2. \A x \in batch \cup Msgs(queue) \cup Msgs(backlog') : x.id <= published'[x.stream]
    <3> TAKE x \in batch \cup Msgs(queue) \cup Msgs(backlog')
    <3>1. CASE x = m
      <4>1. published'[s] = published[s] + 1 /\ published[s] + 1 \in Int
        BY <1>1, <1>typed DEF Ids
      <4> QED
        BY <1>2, <3>1, <4>1
    <3>2. CASE x \in batch \cup Msgs(queue) \cup Msgs(backlog)
      <4>1. x \in Record /\ x.id <= published[x.stream]
        BY <1>3, <3>2 DEF DatesInv, InDateOrder
      <4>2. x.stream \in Streams /\ x.id \in Nat
        BY <4>1 DEF Record, Ids
      <4> QED
        BY <1>5, <4>1, <4>2 DEF Ids
    <3> QED
      BY <1>4, <3>1, <3>2
  <2> QED
    BY <1>1, <1>4, <2>1, <2>2 DEF DatesInv, InDateOrder
<1>7. DayReached'
  <2> SUFFICES ASSUME day # None
               PROVE  /\ \A n \in Msgs(queue) \cup Msgs(backlog') : day <= Date(n)
                      /\ \E t \in Streams : day <= DayOf[t][published'[t]]
    BY <1>1 DEF DayReached
  <2>1. PICK t \in Streams : day <= DayOf[t][published[t]]
    BY DEF DatesInv, DayReached
  <2>2. /\ day \in Nat /\ DayOf[t][published[t]] \in Nat /\ DayOf[t][published'[t]] \in Nat
        /\ DayOf[s][published[s] + 1] \in Nat
    BY <1>typed, <1>1, <1>5, DayOfNat DEF TypeOK, StoreTypeOK, Days, None
  <2>3. day <= DayOf[t][published'[t]]
    BY <1>5, <2>1, <2>2
  <2>4. day <= Date(m)
    BY <1>1, <1>2, <2>1, <2>2
  <2> QED
    BY <1>4, <2>3, <2>4 DEF DatesInv, DayReached
<1>8. ASSUME NEW d \in Days, Held(d)
      PROVE  Over(d)'
  <2>1. Over(d)
    BY <1>8 DEF DatesInv
  <2>2. d < Date(m)
    <3>1. Publishable(s, published[s] + 1)
      BY <1>typed, <1>1 DEF Publishable, Ids
    <3> QED
      BY <1>1, <1>2, <2>1, <3>1 DEF Over
  <2>3. ASSUME NEW t \in Streams, NEW i \in Ids, Publishable(t, i)'
        PROVE  Publishable(t, i)
    <3>1. \A u \in Streams : DayOf[u][published'[u]] <= DayOf[t][i] /\ i > published'[t]
      BY <2>3 DEF Publishable
    <3>2. \A u \in Streams : DayOf[u][published[u]] \in Nat /\ DayOf[u][published'[u]] \in Nat
      BY <1>5, DayOfNat
    <3>3. \A u \in Streams : DayOf[u][published[u]] <= DayOf[t][i]
      BY <1>5, <3>1, <3>2, DayOfNat
    <3>4. i > published[t]
      BY <1>5, <3>1 DEF Ids
    <3> QED
      BY <3>3, <3>4 DEF Publishable
  <2>4. /\ \A n \in Msgs(queue) \cup Msgs(backlog') : d < Date(n)
        /\ \A t \in Streams : \A i \in Ids : Publishable(t, i)' => d < DayOf[t][i]
    BY <1>4, <2>1, <2>2, <2>3 DEF Over
  <2> QED
    BY <1>1, <2>1, <2>4 DEF Over
<1>9. \A d \in Days : Held(d)' => Held(d)
  BY <1>1 DEF Held
<1> QED
  BY <1>1, <1>6, <1>7, <1>8, <1>9 DEF DatesInv

(* A message goes from the broker into the queue, or is dropped there.      *)
LEMMA DatesDeliver ==
  ASSUME IInv, DatesInv, Deliver \/ DeliverAckLost
  PROVE  DatesInv'
<1> DEFINE h == Head(backlog)
<1>typed. TypeOK /\ queue \in Seq(Record) /\ backlog \in Seq(Record)
  BY DEF IInv, TypeOK
<1>1. /\ backlog # <<>> /\ (backlog' = Tail(backlog) \/ backlog' = backlog)
      /\ queue' = Append(queue, h) \/ queue' = queue
      /\ UNCHANGED <<batch, published, day, hdb, mode>>
  BY DEF Deliver, DeliverAckLost, Acked, AckLost, Enqueued, storeVars, mainVars
<1>2. /\ Chain(Tail(backlog), DateRel)
      /\ h \in Msgs(backlog) /\ Msgs(backlog) = Msgs(Tail(backlog)) \cup {h}
      /\ \A x \in Msgs(Tail(backlog)) : <<h, x>> \in DateRel
  BY <1>1, <1>typed, ChainTail DEF DatesInv, InDateOrder
<1>3. h \in Record
  BY <1>2, <1>typed, OnItsWay
<1> HIDE DEF h
<1>4. \A x \in Msgs(backlog) : x \in Record /\ Date(h) <= Date(x)
  <2> TAKE x \in Msgs(backlog)
  <2>1. x \in Record
    BY <1>typed, OnItsWay
  <2>2. CASE x = h
    BY <1>3, <2>2, DateTyped
  <2>3. CASE x \in Msgs(Tail(backlog))
    BY <1>2, <1>3, <2>1, <2>3, DateRelIs
  <2> QED
    BY <1>2, <2>1, <2>2, <2>3
<1>5. Chain(backlog', DateRel) /\ Msgs(backlog') \subseteq Msgs(backlog)
  BY <1>1, <1>2 DEF DatesInv, InDateOrder
<1>6. Chain(queue', DateRel) /\ Msgs(queue') \subseteq Msgs(queue) \cup {h}
  <2>1. Chain(queue, DateRel)
    BY DEF DatesInv, InDateOrder
  <2>2. \A x \in Msgs(queue) : <<x, h>> \in DateRel
    BY <1>2, <1>3, <1>typed, OnItsWay, DateRelIs DEF DatesInv, InDateOrder
  <2>3. Chain(Append(queue, h), DateRel) /\ Msgs(Append(queue, h)) = Msgs(queue) \cup {h}
    BY <1>typed, <1>3, <2>1, <2>2, ChainAppend
  <2> QED
    BY <1>1, <2>1, <2>3
<1>7. InDateOrder'
  BY <1>1, <1>2, <1>4, <1>5, <1>6 DEF DatesInv, InDateOrder
<1>8. DayReached'
  BY <1>1, <1>2, <1>5, <1>6 DEF DatesInv, DayReached
<1>9. \A d \in Days : Held(d)' => Over(d)'
  BY <1>1, <1>2, <1>5, <1>6 DEF DatesInv, Held, Over, Publishable
<1> QED
  BY <1>1, <1>7, <1>8, <1>9 DEF DatesInv

(* The broker loses the session and its backlog.                            *)
LEMMA DatesSessionLoss ==
  ASSUME DatesInv, SessionLoss
  PROVE  DatesInv'
<1>1. Chain(backlog', DateRel) /\ Msgs(backlog') = {}
  BY ChainEmpty DEF SessionLoss, LoseSession
<1>2. UNCHANGED <<queue, batch, published, day, hdb, mode>>
  BY DEF SessionLoss, storeVars, mainVars
<1> QED
  BY <1>1, <1>2 DEF DatesInv, InDateOrder, DayReached, Held, Over, Publishable

LEMMA DatesDrain ==
  ASSUME IInv, DatesInv, Drain
  PROVE  DatesInv'
<1>1. Drained \in 1 .. Len(queue) /\ queue \in Seq(Record)
  BY SizesAssumption, LenProperties, EmptySeq DEF IInv, TypeOK, Drain, Drained
<1>2. /\ batch = {} /\ batch' = {queue[k] : k \in 1 .. Drained}
      /\ queue' = SubSeq(queue, Drained + 1, Len(queue))
      /\ UNCHANGED <<backlog, published, day, hdb, mode>> /\ mode = "live"
  BY DEF Drain, storeVars, sessionVars
<1>3. /\ Chain(queue', DateRel) /\ Msgs(queue) = batch' \cup Msgs(queue')
      /\ \A x \in batch' : \A y \in Msgs(queue') : <<x, y>> \in DateRel
  <2> DEFINE first == {queue[k] : k \in 1 .. Drained}
             rest  == SubSeq(queue, Drained + 1, Len(queue))
  <2>1. Chain(queue, DateRel)
    BY DEF DatesInv, InDateOrder
  <2>2. /\ Chain(rest, DateRel) /\ Msgs(queue) = first \cup Msgs(rest)
        /\ \A x \in first : \A y \in Msgs(rest) : <<x, y>> \in DateRel
    BY <1>1, <2>1, ChainSplit
  <2>3. batch' = first /\ queue' = rest
    BY <1>2
  <2> HIDE DEF first, rest
  <2> QED
    BY <2>2, <2>3
<1>4. Msgs(queue) \subseteq Record
  BY <1>1, MsgsTyped
<1>5. \A x \in batch' : \A y \in Msgs(queue') : Date(x) <= Date(y)
  BY <1>3, <1>4, DateRelIs
<1>6. InDateOrder'
  BY <1>2, <1>3, <1>5 DEF DatesInv, InDateOrder
<1>7. DayReached'
  BY <1>2, <1>3 DEF DatesInv, DayReached
<1>8. \A d \in Days : Held(d)' => Over(d)'
  BY <1>2, <1>3 DEF DatesInv, Held, Over, Publishable
<1> QED
  BY <1>2, <1>6, <1>7, <1>8 DEF DatesInv

(* A chunk of the batch: its date, and the partitions it may close.         *)
LEMMA ChunkDate ==
  ASSUME TypeOK, NEW s \in Streams, NEW floor, Fresh(Group(s), floor) # {}
  PROVE  \E m \in batch : /\ m \in Record /\ m.stream = s
                          /\ m.id = Max(Fresh(Group(s), floor))
                          /\ Date(m) = DayOf[s][Max(Fresh(Group(s), floor))]
<1> DEFINE fresh == Fresh(Group(s), floor)
<1>1. fresh \in SUBSET Ids /\ fresh # {}
  BY FreshIds
<1>2. Max(fresh) \in fresh
  <2>1. fresh \in SUBSET (0 .. MaxId) /\ MaxId \in Nat
    BY <1>1, BoundsAssumption DEF Ids
  <2> HIDE DEF fresh
  <2> QED
    BY <1>1, <2>1, MaxOfBounded
<1>3. Max(fresh) \in Group(s)
  BY <1>2 DEF Fresh
<1> HIDE DEF fresh
<1>4. PICK m \in batch : m.stream = s /\ m.id = Max(fresh)
  BY <1>3 DEF Group
<1> QED
  BY <1>4 DEF Date, TypeOK, fresh

LEMMA DatesApply ==
  ASSUME IInv, DatesInv, NEW s \in Streams, NEW floor, ApplyGroup(s, floor),
         UNCHANGED <<queue, backlog, published>>, mode' # "stopped"
  PROVE  DatesInv'
<1> DEFINE fresh == Fresh(Group(s), floor)
           e == DayOf[s][Max(fresh)]
<1>typed. TypeOK /\ StoreTypeOK /\ day \in Nat
  BY DEF IInv, TypeOK, StoreTypeOK, Days, None
<1>1. batch' \subseteq batch
  BY DEF ApplyGroup
<1>2. CASE fresh = {}
  <2>1. UNCHANGED <<day, hdb>>
    BY <1>2 DEF ApplyGroup, storeVars
  <2> QED
    BY <1>1, <2>1 DEF DatesInv, InDateOrder, DayReached, Held, Over, Publishable
<1>3. CASE fresh # {}
  <2>1. PICK m \in batch : m \in Record /\ m.stream = s /\ Date(m) = e
    BY <1>3, <1>typed, ChunkDate
  <2>2. /\ day' = (IF day = None \/ Past(e) THEN e ELSE day)
        /\ hdb' = (IF Past(e) THEN SavedDown(day) ELSE hdb)
    BY <1>3 DEF ApplyGroup, Feed
  <2> HIDE DEF e, fresh
  <2>3. e \in Nat /\ e # None /\ e \in Days
    BY <2>1, DateTyped DEF Days, None
  <2>4. \A n \in Msgs(queue) \cup Msgs(backlog) : e <= Date(n) /\ Date(n) \in Nat
    BY <2>1, <1>typed, OnItsWay, DateTyped DEF DatesInv, InDateOrder
  <2>5. e <= DayOf[s][published[s]] /\ DayOf[s][published[s]] \in Nat
    <3>1. published \in [Streams -> Ids] /\ m.id <= published[s]
      BY <1>typed, <2>1 DEF TypeOK, DatesInv, InDateOrder
    <3> QED
      BY <2>1, <3>1, PublishedDate, DayOfNat
  <2>6. \A t \in Streams : \A i \in Ids : Publishable(t, i) => e <= DayOf[t][i] /\ DayOf[t][i] \in Nat
    <3> TAKE t \in Streams
    <3> TAKE i \in Ids
    <3>1. DayOf[t][i] \in Nat
      BY DayOfNat
    <3> QED
      BY <2>3, <2>5, <3>1 DEF Publishable
  <2>7. \A d \in Days : Held(d)' => Held(d) \/ (Past(e) /\ d = day)
    <3>1. \A d \in Days : d # day => hdb'[d] = hdb[d] \/ ~ Past(e)
      BY <2>2, <1>typed DEF SavedDown, StoreTypeOK
    <3>2. ~ Past(e) => hdb' = hdb
      BY <2>2
    <3> QED
      BY <3>1, <3>2 DEF Held
  <2>8. day' # None /\ (day # None => day <= day') /\ (Past(e) => day < e /\ day' = e) /\ day' \in Nat
        /\ (day = None => day' = e)
    BY <2>2, <2>3, <1>typed DEF Past
  <2>9. InDateOrder'
    BY <1>1 DEF DatesInv, InDateOrder
  <2>10. DayReached'
    <3>1. day' = e \/ (day' = day /\ day # None)
      BY <2>2
    <3> QED
      BY <2>4, <2>5, <3>1 DEF DatesInv, DayReached
  <2>11. ASSUME NEW d \in Days, Held(d)'
         PROVE  Over(d)'
    <3>1. d \in Nat
      BY DEF Days
    <3>2. CASE Held(d)
      <4>1. Over(d)
        BY <3>2 DEF DatesInv
      <4>2. d < day'
        BY <2>1, <2>8, <3>1, <4>1, <1>typed DEF Over
      <4> QED
        BY <2>8, <4>1, <4>2 DEF Over, Publishable
    <3>3. CASE Past(e) /\ d = day
      <4>1. \A n \in Msgs(queue) \cup Msgs(backlog) : d < Date(n)
        BY <2>3, <2>4, <2>8, <3>1, <3>3
      <4>2. \A t \in Streams : \A i \in Ids : Publishable(t, i) => d < DayOf[t][i]
        BY <2>3, <2>6, <2>8, <3>1, <3>3
      <4> QED
        BY <2>8, <3>3, <4>1, <4>2 DEF Over, Publishable
    <3> QED
      BY <2>7, <2>11, <3>2, <3>3
  <2> QED
    BY <2>9, <2>10, <2>11 DEF DatesInv
<1> QED
  BY <1>2, <1>3

LEMMA NoStop ==
  ASSUME IInv, MaxStops = 0, Stop
  PROVE  FALSE
<1>1. faults["stop"] \in Nat
  BY DEF IInv, TypeOK, Faults
<1> QED
  BY <1>1 DEF Stop, Fault

LEMMA DatesCrash ==
  ASSUME DatesInv, Crash
  PROVE  DatesInv'
<1>1. /\ queue' = <<>> /\ batch' = {} /\ day' = None /\ mode' = "startup"
      /\ UNCHANGED <<hdb, backlog, published>>
  BY DEF Crash, LoseMemory, Dead
<1>2. Chain(queue', DateRel) /\ Msgs(queue') = {}
  BY <1>1, ChainEmpty
<1> QED
  BY <1>1, <1>2 DEF DatesInv, InDateOrder, DayReached, Held, Over, Publishable

LEMMA DatesStep ==
  ASSUME IInv, DatesInv, ClocksSynced, MaxStops = 0, [Next]_vars
  PROVE  DatesInv'
<1>1. CASE \E s \in Streams : Publish(s)
  BY <1>1, DatesPublish
<1>2. CASE Connect
  BY <1>2, DatesSame DEF Connect, Accept, storeVars, mainVars, DatesInv
<1>3. CASE Deliver \/ DeliverAckLost
  BY <1>3, DatesDeliver
<1>4. CASE LinkLoss
  BY <1>4, DatesSame DEF LinkLoss, Disconnect, storeVars, mainVars, DatesInv
<1>5. CASE SessionLoss
  BY <1>5, DatesSessionLoss
<1>6. CASE BridgePage
  <2>1. UNCHANGED <<queue, backlog, batch, published, day, hdb>>
    BY <1>6 DEF BridgePage, sessionVars
  <2>2. mode' # "stopped"
    BY <1>6 DEF BridgePage
  <2> QED
    BY <2>1, <2>2, DatesSame
<1>7. CASE StartupBridged \/ GoLive
  <2>1. UNCHANGED <<queue, backlog, batch, published, day, hdb>>
    BY <1>7 DEF StartupBridged, GoLive, sessionVars, storeVars
  <2>2. mode' # "stopped"
    BY <1>7 DEF StartupBridged, GoLive
  <2> QED
    BY <2>1, <2>2, DatesSame
<1>8. CASE Drain
  BY <1>8, DatesDrain
<1>9. CASE Rebridged
  <2>1. br.sym \in Streams
    BY <1>9 DEF Rebridged, IInv, BridgeTyped, Streams
  <2>2. ApplyGroup(br.sym, MaxStoredId(br.sym)) /\ UNCHANGED <<queue, backlog, published>>
        /\ mode' # "stopped"
    BY <1>9 DEF Rebridged, sessionVars
  <2> QED
    BY <2>1, <2>2, DatesApply
<1>10. CASE \E s \in Trades : StartupBridge(s) \/ Rebridge(s)
  <2>1. UNCHANGED <<queue, backlog, batch, published, day, hdb>>
    BY <1>10 DEF StartupBridge, Rebridge, sessionVars, storeVars
  <2>2. mode' # "stopped"
    BY <1>10 DEF StartupBridge, Rebridge, StartBridge
  <2> QED
    BY <2>1, <2>2, DatesSame
<1>11. ASSUME NEW s \in Streams, ApplyTrades(s) \/ ApplyQuotes(s)
       PROVE  DatesInv'
  <2>1. ApplyGroup(s, lastId[s]) /\ UNCHANGED <<queue, backlog, published>> /\ mode' # "stopped"
    BY <1>11 DEF ApplyTrades, ApplyQuotes, sessionVars
  <2> QED
    BY <2>1, DatesApply
<1>12. CASE Stop \/ Crash \/ Restart
  BY <1>12, NoStop, DatesCrash DEF Restart, DatesInv
<1>13. CASE UNCHANGED vars
  BY <1>13, DatesSame DEF vars, storeVars, sessionVars, mainVars, DatesInv
<1> QED
  BY <1>1, <1>2, <1>3, <1>4, <1>5, <1>6, <1>7, <1>8, <1>9, <1>10, <1>11, <1>12, <1>13
  DEF Next, Main, Streams

-----------------------------------------------------------------------------
(* No partition is written twice, so what is on disk stays there.           *)

LEMMA OwnTable ==
  ASSUME NEW s \in Streams
  PROVE  s \in TableOf(s) /\ TableOf(s) \subseteq Streams
BY DEF Streams, TableOf

(* Saving the RDB down as a date without a partition.                       *)
LEMMA SaveDownRows ==
  ASSUME StoreTypeOK, NEW d \in Days, ~ Held(d)
  PROVE  /\ \A s \in Streams : RowIds(SavedDown(d)[d][s]) = RowIds(rdb[s])
         /\ \A e \in Days : e # d => SavedDown(d)[e] = hdb[e]
         /\ \A s \in Streams : SavedDown(d)[d][s] \in {rdb[s], hdb[d][s]}
<1>1. /\ \A e \in Days : e # d => SavedDown(d)[e] = hdb[e]
      /\ \A s \in Streams : SavedDown(d)[d][s] =
              (IF Nonempty(rdb, TableOf(s)) THEN rdb[s] ELSE hdb[d][s])
  BY DEF SavedDown, StoreTypeOK
<1>2. ASSUME NEW s \in Streams
      PROVE  RowIds(SavedDown(d)[d][s]) = RowIds(rdb[s])
  <2>1. CASE Nonempty(rdb, TableOf(s))
    BY <1>1, <2>1
  <2>2. CASE ~ Nonempty(rdb, TableOf(s))
    <3>1. RowIds(rdb[s]) = {}
      BY <2>2, OwnTable DEF Nonempty
    <3>2. RowIds(hdb[d][s]) = {}
      BY DEF Held
    <3> QED
      BY <1>1, <2>2, <3>1, <3>2
  <2> QED
    BY <2>1, <2>2
<1> QED
  BY <1>1, <1>2

LEMMA DayNotHeld ==
  ASSUME IInv, DatesInv, day # None
  PROVE  day \in Days /\ ~ Held(day)
<1>1. day \in Days /\ day \in Nat
  BY DEF IInv, TypeOK, StoreTypeOK, Days
<1>2. ~ Over(day)
  BY <1>1 DEF Over
<1> QED
  BY <1>1, <1>2 DEF DatesInv

(* The only step that writes to the disk is a roll of the day.              *)
LEMMA DiskStep ==
  ASSUME IInv, DatesInv, MaxStops = 0, [Next]_vars
  PROVE  hdb' = hdb \/ (day # None /\ hdb' = SavedDown(day))
<1>1. ASSUME NEW s \in Streams, NEW floor, ApplyGroup(s, floor)
      PROVE  hdb' = hdb \/ (day # None /\ hdb' = SavedDown(day))
  BY <1>1 DEF ApplyGroup, Feed, Past, storeVars
<1>2. CASE Rebridged
  <2>1. br.sym \in Streams /\ ApplyGroup(br.sym, MaxStoredId(br.sym))
    BY <1>2 DEF Rebridged, IInv, BridgeTyped, Streams
  <2> QED
    BY <1>1, <2>1
<1>3. ASSUME NEW s \in Streams, ApplyTrades(s) \/ ApplyQuotes(s)
      PROVE  hdb' = hdb \/ (day # None /\ hdb' = SavedDown(day))
  BY <1>1, <1>3 DEF ApplyTrades, ApplyQuotes
<1>4. CASE Stop
  BY <1>4, NoStop
<1>5. CASE UNCHANGED vars
  BY <1>5 DEF vars, storeVars
<1>6. CASE \/ \E s \in Streams : Publish(s)
           \/ Connect \/ Deliver \/ DeliverAckLost \/ LinkLoss \/ SessionLoss
  BY <1>6 DEF Publish, Connect, Deliver, DeliverAckLost, LinkLoss, SessionLoss, storeVars
<1>7. CASE BridgePage \/ StartupBridged \/ GoLive \/ Drain \/ Crash \/ Restart
  BY <1>7 DEF BridgePage, StartupBridged, GoLive, Drain, Crash, LoseMemory, Restart, storeVars
<1>8. CASE \E s \in Trades : StartupBridge(s) \/ Rebridge(s)
  BY <1>8 DEF StartupBridge, Rebridge, storeVars
<1> QED
  BY <1>2, <1>3, <1>4, <1>5, <1>6, <1>7, <1>8 DEF Next, Main, Streams

LEMMA RowsKept ==
  ASSUME IInv, DatesInv, MaxStops = 0, [Next]_vars
  PROVE  \A d \in Days, s \in Streams : RowIds(hdb[d][s]) \subseteq RowIds(hdb'[d][s])
<1>1. CASE hdb' = hdb
  BY <1>1
<1>2. CASE day # None /\ hdb' = SavedDown(day)
  <2>1. day \in Days /\ ~ Held(day) /\ StoreTypeOK
    BY <1>2, DayNotHeld DEF IInv, TypeOK
  <2>2. \A d \in Days : d # day => hdb'[d] = hdb[d]
    BY <1>2, <2>1, SaveDownRows
  <2>3. \A s \in Streams : RowIds(hdb[day][s]) = {}
    BY <2>1 DEF Held
  <2> QED
    BY <2>2, <2>3
<1> QED
  BY <1>1, <1>2, DiskStep

(* Rows on disk stay on disk, under every outage, overflow, lost session,   *)
(* lag of REST and crash: a partition is never written a second time, as    *)
(* long as the clocks agree and the process is not stopped and started      *)
(* within a day.                                                            *)
THEOREM SavedRowsAlwaysKept ==
  ClocksSynced /\ FirstRowsOlder /\ MaxStops = 0 => (Spec => SavedRowsKept)
<1> SUFFICES ASSUME ClocksSynced, FirstRowsOlder, MaxStops = 0
             PROVE  Spec => SavedRowsKept
  OBVIOUS
<1> DEFINE Inv == IInv /\ DatesInv
           Kept == \A d \in Days, s \in Streams : RowIds(hdb[d][s]) \subseteq RowIds(hdb'[d][s])
<1>1. Init => Inv
  BY InitIInv, DatesInit
<1>2. Inv /\ [Next]_vars => Inv'
  BY NextIInv, DatesStep
<1>3. Inv /\ [Next]_vars => [Kept]_vars
  BY RowsKept
<1> HIDE DEF Inv, Kept
<1>4. Spec => [][Kept]_vars
  BY <1>1, <1>2, <1>3, PTL DEF Spec
<1> QED
  BY <1>4 DEF SavedRowsKept, Kept

-----------------------------------------------------------------------------
(* Ids.  Each partition holds newer rows than the ones before it, the RDB   *)
(* newer ones still, and each row is in one of them only.                   *)

Disk(h, s) == UNION {RowIds(h[d][s]) : d \in Days}

Ordered(r, h) ==
    /\ \A s \in Streams : \A i \in Disk(h, s) : \A j \in RowIds(r[s]) : i < j
    /\ \A s \in Streams : \A d, e \in Days :
          d < e => \A i \in RowIds(h[d][s]) : \A j \in RowIds(h[e][s]) : i < j
    /\ \A d \in Days : \A s \in Streams : \A i \in Ids : h[d][s][i] <= 1

(* _max_id looks into one partition only: this is what it takes for granted.*)
NewestHasAll ==
    \A s \in Streams : PartitionsOf(TableOf(s)) # {} => NewestPartitionIds(s) # {}

Top(s) == LastOf(Stored(s))

LEMMA StoredIs == \A s : Stored(s) = RowIds(rdb[s]) \cup Disk(hdb, s)
BY DEF Stored, Disk

LEMMA RowsAreIds ==
  /\ \A t : RowIds(t) \subseteq Ids
  /\ \A h, s : Disk(h, s) \subseteq Ids
  /\ \A s : Stored(s) \subseteq Ids
BY DEF RowIds, Disk, Stored

LEMMA LastOfIs ==
  ASSUME NEW S \in SUBSET Ids, NEW x \in S, \A y \in S : y <= x
  PROVE  LastOf(S) = x
<1>1. S \in SUBSET (0 .. MaxId) /\ MaxId \in Nat /\ S # {}
  BY BoundsAssumption DEF Ids
<1>2. PICK m \in S : m = Max(S) /\ \A y \in S : y <= m
  BY <1>1, MaxOfBounded
<1>3. m \in Int /\ x \in Int /\ m <= x /\ x <= m
  BY <1>1, <1>2
<1>4. m = x
  BY <1>3
<1> QED
  BY <1>1, <1>2, <1>4 DEF LastOf

LEMMA TopBounds ==
  ASSUME NEW s \in Streams
  PROVE  /\ Top(s) \in Nat /\ Top(s) \in Ids \cup {None}
         /\ \A i \in Stored(s) : i \in Ids /\ i \in Nat /\ i <= Top(s)
<1>1. Stored(s) \in SUBSET Ids
  BY RowsAreIds
<1>2. LastOf(Stored(s)) \in Ids \cup {None} /\ \A y \in Stored(s) : y <= LastOf(Stored(s))
  BY <1>1, LastOfIds
<1> QED
  BY <1>1, <1>2 DEF Top, Ids, None

(* The highest id of the RDB, or else of the newest partition, is the       *)
(* highest id there is.                                                     *)
LEMMA MaxStoredIsTop ==
  ASSUME StoreTypeOK, Ordered(rdb, hdb), NewestHasAll, NEW s \in Streams
  PROVE  MaxStoredId(s) = Top(s)
<1>1. Stored(s) = RowIds(rdb[s]) \cup Disk(hdb, s) /\ Stored(s) \in SUBSET Ids
  BY StoredIs, RowsAreIds
<1>2. CASE RowIds(rdb[s]) # {}
  <2>1. RowIds(rdb[s]) \in SUBSET (0 .. MaxId) /\ MaxId \in Nat
    BY RowsAreIds, BoundsAssumption DEF Ids
  <2>2. PICK x \in RowIds(rdb[s]) : x = Max(RowIds(rdb[s])) /\ \A y \in RowIds(rdb[s]) : y <= x
    BY <1>2, <2>1, MaxOfBounded
  <2>3. \A y \in Stored(s) : y <= x
    <3> TAKE y \in Stored(s)
    <3>1. y \in Int /\ x \in Int
      BY <1>1, <2>1 DEF Ids
    <3>2. CASE y \in Disk(hdb, s)
      BY <2>2, <3>1, <3>2 DEF Ordered
    <3> QED
      BY <1>1, <2>2, <3>2
  <2>4. x \in Stored(s)
    BY <1>1, <2>2
  <2>5. LastOf(Stored(s)) = x
    BY <1>1, <2>3, <2>4, LastOfIs
  <2>6. MaxStoredId(s) = x
    BY <1>2, <2>2 DEF MaxStoredId, LastOf
  <2> QED
    BY <2>5, <2>6 DEF Top
<1>3. CASE RowIds(rdb[s]) = {} /\ PartitionsOf(TableOf(s)) = {}
  <2>1. \A d \in Days : RowIds(hdb[d][s]) = {}
    BY <1>3, OwnTable DEF PartitionsOf, Nonempty
  <2>2. Stored(s) = {}
    BY <1>1, <1>3, <2>1 DEF Disk
  <2> QED
    BY <1>3, <2>2 DEF MaxStoredId, NewestPartitionIds, LastOf, Top
<1>4. CASE RowIds(rdb[s]) = {} /\ PartitionsOf(TableOf(s)) # {}
  <2> DEFINE held == PartitionsOf(TableOf(s))
  <2>1. held \in SUBSET (0 .. MaxDay) /\ MaxDay \in Nat /\ held # {} /\ held \subseteq Days
    BY <1>4, BoundsAssumption DEF PartitionsOf, Days
  <2>2. PICK d \in held : d = Max(held) /\ \A e \in held : e <= d
    <3> HIDE DEF held
    <3> QED
      BY <2>1, MaxOfBounded
  <2>3. NewestPartitionIds(s) = RowIds(hdb[d][s]) /\ RowIds(hdb[d][s]) # {}
    BY <1>4, <2>2 DEF NewestPartitionIds, NewestHasAll
  <2>4. d \in Days /\ RowIds(hdb[d][s]) \in SUBSET (0 .. MaxId) /\ MaxId \in Nat
    BY <2>1, RowsAreIds, BoundsAssumption DEF Ids
  <2>5. PICK x \in RowIds(hdb[d][s]) :
            x = Max(RowIds(hdb[d][s])) /\ \A y \in RowIds(hdb[d][s]) : y <= x
    BY <2>3, <2>4, MaxOfBounded
  <2>6. \A y \in Stored(s) : y <= x
    <3> TAKE y \in Stored(s)
    <3>1. PICK e \in Days : y \in RowIds(hdb[e][s])
      BY <1>1, <1>4 DEF Disk
    <3>2. e \in held
      BY <3>1, OwnTable DEF PartitionsOf, Nonempty
    <3>3. e = d \/ e < d
      BY <2>2, <2>4, <3>2 DEF Days
    <3>4. y \in Int /\ x \in Int
      BY <1>1, <2>4 DEF Ids
    <3>5. CASE e < d
      BY <2>4, <2>5, <3>1, <3>4, <3>5 DEF Ordered
    <3> QED
      BY <2>5, <3>1, <3>3, <3>5
  <2>7. x \in Stored(s)
    BY <1>1, <2>4, <2>5 DEF Disk
  <2>8. LastOf(Stored(s)) = x
    BY <1>1, <2>6, <2>7, LastOfIs
  <2>9. MaxStoredId(s) = x
    BY <1>4, <2>3, <2>5 DEF MaxStoredId, LastOf
  <2> QED
    BY <2>8, <2>9 DEF Top
<1> QED
  BY <1>2, <1>3, <1>4

(* Rolling the day moves all rows of the RDB to a new newest partition.     *)
LEMMA RollOrdered ==
  ASSUME StoreTypeOK, Unique, Ordered(rdb, hdb), day \in Days, ~ Held(day),
         \A d \in Days : Held(d) => d < day
  PROVE  /\ Ordered(EmptyTables, SavedDown(day))
         /\ \A s \in Streams : Disk(SavedDown(day), s) = Stored(s)
<1> DEFINE h == SavedDown(day)
<1>1. /\ \A s \in Streams : RowIds(h[day][s]) = RowIds(rdb[s])
      /\ \A e \in Days : e # day => h[e] = hdb[e]
      /\ \A s \in Streams : h[day][s] \in {rdb[s], hdb[day][s]}
  BY SaveDownRows
<1> HIDE DEF h
<1>2. \A s \in Streams : RowIds(hdb[day][s]) = {}
  BY DEF Held
<1>3. \A s \in Streams : Disk(h, s) = Stored(s)
  <2> TAKE s \in Streams
  <2>1. \A e \in Days : RowIds(h[e][s]) \subseteq Stored(s)
    BY <1>1 DEF Stored
  <2>2. \A e \in Days : RowIds(hdb[e][s]) \subseteq RowIds(h[e][s])
    BY <1>1, <1>2
  <2>3. RowIds(rdb[s]) = RowIds(h[day][s])
    BY <1>1
  <2> QED
    BY <2>1, <2>2, <2>3 DEF Stored, Disk
<1>4. ASSUME NEW s \in Streams, NEW d \in Days, NEW e \in Days, d < e,
             NEW i \in RowIds(h[d][s]), NEW j \in RowIds(h[e][s])
      PROVE  i < j
  <2>1. CASE d # day /\ e # day
    BY <1>1, <1>4, <2>1 DEF Ordered
  <2>2. CASE e = day
    <3>1. d # day /\ i \in RowIds(hdb[d][s]) /\ j \in RowIds(rdb[s])
      BY <1>1, <1>4, <2>2 DEF Days
    <3> QED
      BY <3>1 DEF Ordered, Disk
  <2>3. CASE d = day
    <3>1. e # day /\ j \in RowIds(hdb[e][s])
      BY <1>1, <1>4, <2>3 DEF Days
    <3>2. e < day
      BY <3>1 DEF Held
    <3> QED
      BY <1>4, <2>3, <3>2 DEF Days
  <2> QED
    BY <2>1, <2>2, <2>3
<1>5. ASSUME NEW d \in Days, NEW s \in Streams, NEW i \in Ids
      PROVE  h[d][s][i] <= 1
  <2>1. rdb[s][i] <= 1 /\ hdb[d][s][i] <= 1
    BY DEF Unique, Ordered
  <2> QED
    BY <1>1, <2>1
<1>6. \A s \in Streams : RowIds(EmptyTables[s]) = {}
  BY EmptyTablesType
<1> QED
  BY <1>3, <1>4, <1>5, <1>6 DEF Ordered, h

LEMMA InsertOrdered ==
  ASSUME NEW r \in [Streams -> Table], NEW h, NEW s \in Streams, NEW ids \in SUBSET Ids,
         \A t \in Streams : \A i \in Ids : r[t][i] <= 1,
         Ordered(r, h),
         \A i \in RowIds(r[s]) \cup Disk(h, s) : \A j \in ids : i < j
  PROVE  /\ Ordered(Inserted(r, s, ids), h)
         /\ RowIds(Inserted(r, s, ids)[s]) = RowIds(r[s]) \cup ids
         /\ \A t \in Streams : t # s => Inserted(r, s, ids)[t] = r[t]
<1> DEFINE new == Inserted(r, s, ids)
<1>1. /\ RowIds(new[s]) = RowIds(r[s]) \cup ids
      /\ \A t \in Streams : t # s => new[t] = r[t]
  BY InsertAbove
<1> HIDE DEF new
<1>2. ASSUME NEW t \in Streams, NEW i \in Disk(h, t), NEW j \in RowIds(new[t])
      PROVE  i < j
  <2>1. CASE t = s
    BY <1>1, <2>1 DEF Ordered
  <2>2. CASE t # s
    BY <1>1, <2>2 DEF Ordered
  <2> QED
    BY <2>1, <2>2
<1>3. Ordered(new, h)
  BY <1>2 DEF Ordered
<1> QED
  BY <1>1, <1>3 DEF new

(* Rows above the newest one of a stream make the last of them the newest,  *)
(* and the other streams keep theirs.                                       *)
LEMMA TopAfter ==
  ASSUME NEW s \in Streams, NEW ids \in SUBSET Ids, ids # {},
         \A i \in Stored(s) : \A j \in ids : i < j,
         Stored(s)' = Stored(s) \cup ids
  PROVE  Top(s)' = Max(ids)
<1>1. ids \in SUBSET (0 .. MaxId) /\ MaxId \in Nat
  BY BoundsAssumption DEF Ids
<1>2. PICK m \in ids : m = Max(ids) /\ \A y \in ids : y <= m
  BY <1>1, MaxOfBounded
<1>3. \A y \in Stored(s) \cup ids : y <= m
  <2> TAKE y \in Stored(s) \cup ids
  <2>1. Stored(s) \cup ids \subseteq Ids
    BY RowsAreIds
  <2>2. y \in Int /\ m \in Int
    BY <2>1, BoundsAssumption DEF Ids
  <2> QED
    BY <1>2, <2>2
<1>4. Stored(s) \cup ids \in SUBSET Ids
  BY RowsAreIds
<1>5. LastOf(Stored(s) \cup ids) = m
  BY <1>2, <1>3, <1>4, LastOfIs
<1> QED
  BY <1>2, <1>5 DEF Top

(* RdbRoller.feed with rows above all that are stored.                      *)
LEMMA FeedStored ==
  ASSUME IInv, DatesInv, Ordered(rdb, hdb), NEW s \in Streams, NEW ids \in SUBSET Ids,
         ids # {}, \A i \in Stored(s) : \A j \in ids : i < j, Feed(s, ids)
  PROVE  /\ Ordered(rdb', hdb')
         /\ Stored(s)' = Stored(s) \cup ids
         /\ \A t \in Streams : t # s => Stored(t)' = Stored(t)
         /\ \/ \A t \in Streams : Disk(hdb', t) = Disk(hdb, t)
            \/ \A t \in Streams : Disk(hdb', t) = Stored(t)
<1> DEFINE rolled == Past(DayOf[s][Max(ids)])
<1>typed. StoreTypeOK /\ Unique
  BY DEF IInv, TypeOK
<1>1. PICK r, h : r = (IF rolled THEN EmptyTables ELSE rdb) /\ h = (IF rolled THEN SavedDown(day) ELSE hdb)
  OBVIOUS
<1>2. rdb' = Inserted(r, s, ids) /\ hdb' = h
  BY <1>1 DEF Feed
<1>3. /\ r \in [Streams -> Table] /\ \A t \in Streams : \A i \in Ids : r[t][i] <= 1
      /\ Ordered(r, h)
      /\ \A t \in Streams : RowIds(r[t]) \cup Disk(h, t) = Stored(t)
      /\ \/ \A t \in Streams : Disk(h, t) = Disk(hdb, t)
         \/ \A t \in Streams : Disk(h, t) = Stored(t)
  <2>1. CASE ~ rolled
    BY <1>1, <1>typed, <2>1, StoredIs DEF StoreTypeOK, Unique
  <2>2. CASE rolled
    <3>1. day # None
      BY <2>2 DEF Past
    <3>2. day \in Days /\ ~ Held(day)
      BY <3>1, DayNotHeld
    <3>3. \A d \in Days : Held(d) => d < day
      BY <3>1 DEF DatesInv, Over
    <3>4. /\ Ordered(EmptyTables, SavedDown(day))
          /\ \A t \in Streams : Disk(SavedDown(day), t) = Stored(t)
      BY <1>typed, <3>2, <3>3, RollOrdered
    <3>5. r = EmptyTables /\ h = SavedDown(day)
      BY <1>1, <2>2
    <3> QED
      BY <3>4, <3>5, EmptyTablesType
  <2> QED
    BY <2>1, <2>2
<1> HIDE DEF rolled
<1>4. \A i \in RowIds(r[s]) \cup Disk(h, s) : \A j \in ids : i < j
  BY <1>3
<1>5. /\ Ordered(rdb', h)
      /\ RowIds(rdb'[s]) = RowIds(r[s]) \cup ids
      /\ \A t \in Streams : t # s => rdb'[t] = r[t]
  BY <1>2, <1>3, <1>4, InsertOrdered
<1>6. \A t \in Streams : Stored(t)' = RowIds(rdb'[t]) \cup Disk(h, t)
  BY <1>2 DEF Stored, Disk
<1> QED
  BY <1>2, <1>3, <1>5, <1>6

-----------------------------------------------------------------------------
(* Floors.                                                                  *)

Rebridging == mode \in {"bridge", "bridged"} /\ br.target # None

(* The streams whose dedup floor has been taken from the store.             *)
Known(s) == mode = "live" \/ Rebridging \/ (s \in Trades /\ s \notin todo)

(* A floor is the newest row of its stream, and a bridge asks for the next. *)
FloorsInv ==
    \A s \in Streams :
        /\ Bridging(s) => br.next = Top(s) + 1
        /\ ~ Bridging(s) /\ Known(s) => lastId[s] = Top(s)

OrderInv == Ordered(rdb, hdb) /\ FloorsInv

LEMMA OrderInit ==
  ASSUME Init
  PROVE  OrderInv
<1>1. \A d \in Days : \A s \in Streams : \A i \in Ids :
          hdb[d][s][i] = (IF i = 1 /\ DayOf[s][1] = d THEN 1 ELSE 0)
  BY DEF Init, InitTables
<1>2. \A d \in Days : \A s \in Streams : \A i \in RowIds(hdb[d][s]) : DayOf[s][1] = d
  BY <1>1 DEF RowIds
<1>3. \A s \in Streams : \A d, e \in Days :
          d < e => \A i \in RowIds(hdb[d][s]) : \A j \in RowIds(hdb[e][s]) : i < j
  BY <1>2 DEF Days
<1>4. Ordered(rdb, hdb)
  <2>1. \A s \in Streams : RowIds(rdb[s]) = {}
    BY EmptyTablesType DEF Init
  <2>2. \A d \in Days : \A s \in Streams : \A i \in Ids : hdb[d][s][i] <= 1
    BY <1>1
  <2> QED
    BY <1>3, <2>1, <2>2 DEF Ordered
<1> QED
  BY <1>4 DEF OrderInv, FloorsInv, Known, Bridging, Rebridging, Init

LEMMA OrderSame ==
  ASSUME OrderInv, UNCHANGED <<rdb, hdb, mode, todo, lastId, br>>
  PROVE  OrderInv'
BY DEF OrderInv, FloorsInv, Known, Bridging, Rebridging, Top, Stored, Ordered, Disk

(* A bridge starts at the row after the newest.                             *)
LEMMA OrderStartBridge ==
  ASSUME IInv, OrderInv, NewestHasAll, NEW s \in Trades,
         StartupBridge(s) \/ Rebridge(s)
  PROVE  OrderInv'
<1>1. PICK target : StartBridge(s, target) /\ (StartupBridge(s) => target = None)
  BY DEF StartupBridge, Rebridge
<1>2. UNCHANGED <<rdb, hdb, todo, lastId>> /\ mode \in {"startup", "live"}
      /\ (Rebridge(s) => mode = "live")
  BY DEF StartupBridge, Rebridge, storeVars
<1>3. MaxStoredId(s) = Top(s) /\ s \in Streams
  BY MaxStoredIsTop DEF IInv, TypeOK, OrderInv, Streams
<1>4. br'.sym = s /\ br'.target = target /\ br'.next = Top(s) + 1 /\ mode' \in {"bridge", "bridged"}
  BY <1>1, <1>3 DEF StartBridge
<1>5. \A t \in Streams : Top(t)' = Top(t)
  BY <1>2 DEF Top, Stored
<1>6. \A t \in Streams : Known(t)' => Known(t)
  BY <1>1, <1>2, <1>4 DEF Known, Rebridging
<1>7. \A t \in Streams : ~ Bridging(t)
  BY <1>2 DEF Bridging
<1>8. Ordered(rdb, hdb)'
  BY <1>2 DEF OrderInv, Ordered, Disk
<1> QED
  BY <1>2, <1>3, <1>4, <1>5, <1>6, <1>7, <1>8 DEF OrderInv, FloorsInv, Bridging

LEMMA OrderStartupBridged ==
  ASSUME IInv, OrderInv, NewestHasAll, StartupBridged
  PROVE  OrderInv'
<1>1. br.sym \in Trades /\ br.sym \in Streams /\ mode = "bridged"
  BY DEF StartupBridged, IInv, BridgeTyped, Streams
<1>2. MaxStoredId(br.sym) = Top(br.sym)
  BY <1>1, MaxStoredIsTop DEF IInv, TypeOK, OrderInv
<1>3. /\ lastId' = [lastId EXCEPT ![br.sym] = Top(br.sym)] /\ todo' = todo \ {br.sym}
      /\ mode' = "startup" /\ UNCHANGED <<rdb, hdb>>
  BY <1>2 DEF StartupBridged, storeVars
<1>4. lastId \in [Streams -> Ids \cup {None}]
  BY DEF IInv, TypeOK
<1>5. \A t \in Streams : Top(t)' = Top(t)
  BY <1>3 DEF Top, Stored
<1>6. Ordered(rdb, hdb)'
  BY <1>3 DEF OrderInv, Ordered, Disk
<1>7. \A t \in Streams : Known(t)' => lastId'[t] = Top(t)
  <2> SUFFICES ASSUME NEW t \in Streams, Known(t)' PROVE lastId'[t] = Top(t)
    OBVIOUS
  <2>1. t \in Trades /\ t \notin todo'
    BY <1>3 DEF Known, Rebridging
  <2>2. CASE t = br.sym
    BY <1>3, <1>4, <2>2
  <2>3. CASE t # br.sym
    BY <1>3, <1>4, <2>1, <2>3 DEF OrderInv, FloorsInv, Known, Bridging
  <2> QED
    BY <2>2, <2>3
<1> QED
  BY <1>3, <1>5, <1>6, <1>7 DEF OrderInv, FloorsInv, Bridging

LEMMA OrderGoLive ==
  ASSUME IInv, OrderInv, NewestHasAll, GoLive
  PROVE  OrderInv'
<1>1. \A s \in Streams : MaxStoredId(s) = Top(s)
  BY MaxStoredIsTop DEF IInv, TypeOK, OrderInv
<1>2. /\ lastId' = [s \in Streams |-> IF s \in Quotes THEN MaxStoredId(s) ELSE lastId[s]]
      /\ mode = "startup" /\ todo = {} /\ mode' = "live" /\ UNCHANGED <<rdb, hdb>>
  BY DEF GoLive, storeVars
<1>3. \A t \in Streams : Top(t)' = Top(t)
  BY <1>2 DEF Top, Stored
<1>4. Ordered(rdb, hdb)'
  BY <1>2 DEF OrderInv, Ordered, Disk
<1>5. \A t \in Streams : lastId'[t] = Top(t)
  BY <1>1, <1>2 DEF OrderInv, FloorsInv, Known, Bridging, Streams
<1> QED
  BY <1>2, <1>3, <1>4, <1>5 DEF OrderInv, FloorsInv, Bridging

LEMMA OrderCrash ==
  ASSUME OrderInv, Crash
  PROVE  OrderInv'
<1>1. rdb' = EmptyTables /\ hdb' = hdb /\ mode' = "startup" /\ todo' = Trades
  BY DEF Crash, LoseMemory, Dead
<1>2. Ordered(rdb', hdb')
  BY <1>1, EmptyTablesType DEF OrderInv, Ordered
<1> QED
  BY <1>1, <1>2 DEF OrderInv, FloorsInv, Known, Bridging, Rebridging

(* A page of a bridge: its rows follow the newest one.                      *)
LEMMA PageRows ==
  ASSUME IInv, BridgePage
  PROVE  \E tip \in RestTips(br.sym) :
            /\ Wanted(tip) \in SUBSET Ids /\ \A i \in Wanted(tip) : br.next <= i
            /\ IF Wanted(tip) = {}
               THEN rdb' = rdb /\ br'.next = br.next
               ELSE rdb' = Inserted(rdb, br.sym, Wanted(tip)) /\ br'.next = Max(Wanted(tip)) + 1
            /\ br'.sym = br.sym /\ br'.target = br.target
            /\ mode' = IF ShortPage(Wanted(tip)) \/ BridgeOver(br'.next, br.target)
                       THEN "bridged" ELSE "bridge"
<1>1. br \in [sym : Trades, target : Ids \cup {None}, next : Nat]
  BY DEF IInv, BridgeTyped, BridgePage
<1>2. PICK tip \in RestTips(br.sym) :
        LET ids    == Wanted(tip)
            nextId == IF ids = {} THEN br.next ELSE Max(ids) + 1
        IN  /\ rdb' = IF ids = {} THEN rdb ELSE Inserted(rdb, br.sym, ids)
            /\ br' = [br EXCEPT !.next = nextId]
            /\ mode' = IF ShortPage(ids) \/ BridgeOver(nextId, br.target)
                          THEN "bridged" ELSE "bridge"
  BY DEF BridgePage
<1>3. Wanted(tip) \in SUBSET Ids /\ \A i \in Wanted(tip) : br.next <= i
  BY DEF Wanted
<1>4. PICK ids : ids = Wanted(tip)
  OBVIOUS
<1>5. PICK nextId : nextId = (IF ids = {} THEN br.next ELSE Max(ids) + 1)
  OBVIOUS
<1>6. /\ rdb' = IF ids = {} THEN rdb ELSE Inserted(rdb, br.sym, ids)
      /\ br' = [br EXCEPT !.next = nextId]
      /\ mode' = IF ShortPage(ids) \/ BridgeOver(nextId, br.target) THEN "bridged" ELSE "bridge"
  BY <1>2, <1>4, <1>5
<1>7. br'.next = nextId /\ br'.sym = br.sym /\ br'.target = br.target
  BY <1>1, <1>6
<1>8. IF ids = {} THEN rdb' = rdb /\ br'.next = br.next
      ELSE rdb' = Inserted(rdb, br.sym, ids) /\ br'.next = Max(ids) + 1
  BY <1>5, <1>6, <1>7
<1>9. mode' = IF ShortPage(ids) \/ BridgeOver(br'.next, br.target) THEN "bridged" ELSE "bridge"
  BY <1>6, <1>7
<1> QED
  BY <1>3, <1>4, <1>7, <1>8, <1>9

LEMMA OrderBridgePage ==
  ASSUME IInv, OrderInv, BridgePage, NEW s \in Streams, s = br.sym
  PROVE  /\ OrderInv'
         /\ \E tip \in RestTips(s) : Stored(s)' = Stored(s) \cup Wanted(tip)
         /\ \A t \in Streams : t # s => Stored(t)' = Stored(t)
<1>typed. StoreTypeOK /\ Unique
  BY DEF IInv, TypeOK
<1>1. mode = "bridge" /\ br.next \in Nat /\ UNCHANGED <<hdb, todo, lastId>>
  BY DEF IInv, BridgeTyped, BridgePage
<1>2. PICK tip \in RestTips(s) :
            /\ Wanted(tip) \in SUBSET Ids /\ \A i \in Wanted(tip) : br.next <= i
            /\ IF Wanted(tip) = {}
               THEN rdb' = rdb /\ br'.next = br.next
               ELSE rdb' = Inserted(rdb, s, Wanted(tip)) /\ br'.next = Max(Wanted(tip)) + 1
            /\ br'.sym = s /\ br'.target = br.target /\ mode' \in {"bridge", "bridged"}
  BY PageRows
<1>3. PICK ids : ids = Wanted(tip)
  OBVIOUS
<1>4. br.next = Top(s) + 1
  BY <1>1 DEF OrderInv, FloorsInv, Bridging
<1>5. \A i \in Stored(s) : \A j \in ids : i < j
  <2> SUFFICES ASSUME NEW i \in Stored(s), NEW j \in ids PROVE i < j
    OBVIOUS
  <2>1. i \in Nat /\ i <= Top(s) /\ Top(s) \in Nat
    BY TopBounds
  <2>2. j \in Nat /\ Top(s) + 1 <= j
    BY <1>2, <1>3, <1>4 DEF Ids
  <2> QED
    BY <2>1, <2>2
<1>6. /\ Ordered(rdb', hdb')
      /\ Stored(s)' = Stored(s) \cup ids
      /\ \A t \in Streams : t # s => Stored(t)' = Stored(t)
      /\ br'.next = Top(s)' + 1
  <2>1. CASE ids = {}
    <3>1. rdb' = rdb /\ br'.next = br.next
      BY <1>2, <1>3, <2>1
    <3>2. \A t : Stored(t)' = Stored(t)
      BY <1>1, <3>1 DEF Stored
    <3>3. Top(s)' = Top(s)
      BY <3>2 DEF Top
    <3> QED
      BY <1>1, <1>4, <2>1, <3>1, <3>2, <3>3 DEF OrderInv
  <2>2. CASE ids # {}
    <3>1. rdb' = Inserted(rdb, s, ids) /\ br'.next = Max(ids) + 1
      BY <1>2, <1>3, <2>2
    <3>2. rdb \in [Streams -> Table] /\ \A t \in Streams : \A i \in Ids : rdb[t][i] <= 1
      BY <1>typed DEF StoreTypeOK, Unique
    <3>3. \A i \in RowIds(rdb[s]) \cup Disk(hdb, s) : \A j \in ids : i < j
      BY <1>5, StoredIs
    <3>4. /\ Ordered(rdb', hdb)
          /\ RowIds(rdb'[s]) = RowIds(rdb[s]) \cup ids
          /\ \A t \in Streams : t # s => rdb'[t] = rdb[t]
      <4>1. ids \in SUBSET Ids /\ Ordered(rdb, hdb)
        BY <1>2, <1>3 DEF OrderInv
      <4> QED
        BY <3>1, <3>2, <3>3, <4>1, InsertOrdered
    <3>5. Stored(s)' = Stored(s) \cup ids
      BY <1>1, <3>4 DEF Stored
    <3>6. \A t \in Streams : t # s => Stored(t)' = Stored(t)
      BY <1>1, <3>4 DEF Stored
    <3>7. Top(s)' = Max(ids)
      BY <1>2, <1>3, <1>5, <2>2, <3>5, TopAfter
    <3> QED
      BY <1>1, <3>1, <3>4, <3>5, <3>6, <3>7
  <2> QED
    BY <2>1, <2>2
<1>7. FloorsInv'
  <2> SUFFICES ASSUME NEW t \in Streams
               PROVE  /\ t = s => br'.next = Top(t)' + 1
                      /\ t # s /\ Known(t)' => lastId[t] = Top(t)'
    BY <1>1, <1>2 DEF FloorsInv, Bridging
  <2>1. CASE t = s
    BY <1>6, <2>1
  <2>2. CASE t # s
    <3>1. Known(t)' => Known(t)
      BY <1>1, <1>2 DEF Known, Rebridging
    <3>2. Top(t)' = Top(t)
      BY <1>6, <2>2 DEF Top
    <3>3. Known(t) => lastId[t] = Top(t)
      BY <1>1, <2>2 DEF OrderInv, FloorsInv, Bridging
    <3> QED
      BY <2>2, <3>1, <3>2, <3>3
  <2> QED
    BY <2>1, <2>2
<1> QED
  BY <1>2, <1>3, <1>6, <1>7 DEF OrderInv

(* Applying one stream's records over the floor that is its newest row.     *)
LEMMA ApplyStored ==
  ASSUME IInv, DatesInv, Ordered(rdb, hdb), NEW s \in Streams, ApplyGroup(s, Top(s))
  PROVE  /\ Ordered(rdb', hdb')
         /\ Stored(s)' = Stored(s) \cup Fresh(Group(s), Top(s))
         /\ \A t \in Streams : t # s => Stored(t)' = Stored(t) /\ lastId'[t] = lastId[t]
         /\ lastId'[s] = Top(s)'
         /\ \/ \A t \in Streams : Disk(hdb', t) = Disk(hdb, t)
            \/ \A t \in Streams : Disk(hdb', t) = Stored(t)
<1> DEFINE fresh == Fresh(Group(s), Top(s))
<1>typed. StoreTypeOK /\ Unique /\ lastId \in [Streams -> Ids \cup {None}] /\ TypeOK
  BY DEF IInv, TypeOK
<1>1. fresh \in SUBSET Ids /\ \A j \in fresh : Top(s) < j
  <2>1. fresh \in SUBSET Ids /\ \A j \in fresh : j > Top(s)
    BY <1>typed, FreshIds DEF Fresh
  <2>2. Top(s) \in Nat
    BY TopBounds
  <2> QED
    BY <2>1, <2>2 DEF Ids
<1>2. /\ IF fresh = {} THEN UNCHANGED storeVars ELSE Feed(s, fresh)
      /\ lastId' = [lastId EXCEPT ![s] = IF fresh = {} THEN Top(s) ELSE Max(fresh)]
  BY DEF ApplyGroup
<1> HIDE DEF fresh
<1>3. \A i \in Stored(s) : \A j \in fresh : i < j
  <2> SUFFICES ASSUME NEW i \in Stored(s), NEW j \in fresh PROVE i < j
    OBVIOUS
  <2>1. i \in Nat /\ i <= Top(s) /\ Top(s) \in Nat
    BY TopBounds
  <2>2. j \in Nat /\ Top(s) < j
    BY <1>1 DEF Ids
  <2> QED
    BY <2>1, <2>2
<1>4. CASE fresh = {}
  <2>1. UNCHANGED <<rdb, hdb>> /\ lastId' = [lastId EXCEPT ![s] = Top(s)]
    BY <1>2, <1>4 DEF storeVars
  <2>2. \A t : Stored(t)' = Stored(t) /\ Disk(hdb', t) = Disk(hdb, t)
    BY <2>1 DEF Stored
  <2>3. Top(s)' = Top(s)
    BY <2>2 DEF Top
  <2>4. Ordered(rdb', hdb')
    BY <2>1
  <2> QED
    BY <1>typed, <1>4, <2>1, <2>2, <2>3, <2>4 DEF fresh
<1>5. CASE fresh # {}
  <2>1. Feed(s, fresh) /\ lastId' = [lastId EXCEPT ![s] = Max(fresh)]
    BY <1>2, <1>5
  <2>2. /\ Ordered(rdb', hdb')
        /\ Stored(s)' = Stored(s) \cup fresh
        /\ \A t \in Streams : t # s => Stored(t)' = Stored(t)
        /\ \/ \A t \in Streams : Disk(hdb', t) = Disk(hdb, t)
           \/ \A t \in Streams : Disk(hdb', t) = Stored(t)
    BY <1>1, <1>3, <1>5, <2>1, FeedStored
  <2>3. Top(s)' = Max(fresh)
    BY <1>1, <1>3, <1>5, <2>2, TopAfter
  <2> QED
    BY <1>typed, <2>1, <2>2, <2>3 DEF fresh
<1> QED
  BY <1>4, <1>5

LEMMA OrderApply ==
  ASSUME IInv, DatesInv, OrderInv, NEW s \in Streams, ApplyGroup(s, Top(s)),
         Rebridging \/ mode = "live", \A t \in Streams : Bridging(t) => t = s, mode' = "live"
  PROVE  OrderInv'
<1>1. /\ Ordered(rdb', hdb')
      /\ \A t \in Streams : t # s => Stored(t)' = Stored(t) /\ lastId'[t] = lastId[t]
      /\ lastId'[s] = Top(s)'
  BY ApplyStored DEF OrderInv
<1>2. \A t \in Streams : t # s => Top(t)' = Top(t)
  BY <1>1 DEF Top
<1>3. \A t \in Streams : t # s => lastId[t] = Top(t)
  BY DEF OrderInv, FloorsInv, Known
<1> QED
  BY <1>1, <1>2, <1>3 DEF OrderInv, FloorsInv, Bridging

LEMMA OrderStep ==
  ASSUME IInv, DatesInv, OrderInv, NewestHasAll, MaxStops = 0, [Next]_vars
  PROVE  OrderInv'
<1>1. CASE \/ \E s \in Streams : Publish(s)
           \/ Connect \/ Deliver \/ DeliverAckLost \/ LinkLoss \/ SessionLoss
           \/ Drain \/ UNCHANGED vars
  <2>1. UNCHANGED <<rdb, hdb, mode, todo, lastId, br>>
    BY <1>1 DEF Publish, Connect, Deliver, DeliverAckLost, LinkLoss, SessionLoss, Drain,
                storeVars, mainVars, vars
  <2> QED
    BY <2>1, OrderSame
<1>2. CASE BridgePage
  <2>1. br.sym \in Streams
    BY <1>2 DEF IInv, BridgeTyped, BridgePage, Streams
  <2> QED
    BY <1>2, <2>1, OrderBridgePage
<1>3. CASE StartupBridged
  BY <1>3, OrderStartupBridged
<1>4. CASE GoLive
  BY <1>4, OrderGoLive
<1>5. CASE Rebridged
  <2>1. br.sym \in Streams /\ Rebridging /\ mode' = "live"
    BY <1>5 DEF IInv, BridgeTyped, Rebridged, Streams, Rebridging
  <2>2. MaxStoredId(br.sym) = Top(br.sym)
    BY <2>1, MaxStoredIsTop DEF IInv, TypeOK, OrderInv
  <2>3. ApplyGroup(br.sym, Top(br.sym))
    BY <1>5, <2>2 DEF Rebridged
  <2>4. \A t \in Streams : Bridging(t) => t = br.sym
    BY DEF Bridging
  <2> QED
    BY <2>1, <2>3, <2>4, OrderApply
<1>6. CASE \E s \in Trades : StartupBridge(s) \/ Rebridge(s)
  BY <1>6, OrderStartBridge
<1>7. ASSUME NEW s \in Streams, ApplyTrades(s) \/ ApplyQuotes(s)
      PROVE  OrderInv'
  <2>1. mode = "live" /\ mode' = "live" /\ ApplyGroup(s, lastId[s])
    BY <1>7 DEF ApplyTrades, ApplyQuotes
  <2>2. lastId[s] = Top(s) /\ \A t \in Streams : ~ Bridging(t)
    BY <2>1 DEF OrderInv, FloorsInv, Known, Bridging
  <2> QED
    BY <2>1, <2>2, OrderApply
<1>8. CASE Stop \/ Crash \/ Restart
  BY <1>8, NoStop, OrderCrash DEF Restart, DatesInv
<1> QED
  BY <1>1, <1>2, <1>3, <1>4, <1>5, <1>6, <1>7, <1>8 DEF Next, Main, Streams

(* What the rest of this module assumes of a run: the clocks agree, the     *)
(* process is not stopped, and the partition that _max_id looks into holds  *)
(* every stream of its table.                                               *)
Undisturbed == ClocksSynced /\ FirstRowsOlder /\ MaxStops = 0

LEMMA AlwaysOrdered ==
  Undisturbed => (Spec /\ []NewestHasAll => [](IInv /\ DatesInv /\ OrderInv))
<1> SUFFICES ASSUME Undisturbed
             PROVE  Spec /\ []NewestHasAll => [](IInv /\ DatesInv /\ OrderInv)
  OBVIOUS
<1> DEFINE Inv == IInv /\ DatesInv /\ OrderInv
<1>1. Init => Inv
  BY InitIInv, DatesInit, OrderInit DEF Undisturbed
<1>2. Inv /\ NewestHasAll /\ [Next]_vars => Inv'
  BY NextIInv, DatesStep, OrderStep DEF Undisturbed
<1> HIDE DEF Inv
<1>3. Spec /\ []NewestHasAll => []Inv
  BY <1>1, <1>2, PTL DEF Spec
<1> QED
  BY <1>3 DEF Inv

(* The dedup floor of a live symbol is the newest row of the whole store:   *)
(* a lower one would let duplicates in, a higher one would drop rows.       *)
THEOREM FloorAlwaysHighest ==
  Undisturbed => (Spec /\ []NewestHasAll => []FloorIsHighestStored)
<1>1. OrderInv => FloorIsHighestStored
  BY DEF OrderInv, FloorsInv, Known, Bridging, Top, FloorIsHighestStored
<1> QED
  BY <1>1, AlwaysOrdered, PTL

(* No row is in the store twice, whatever is redelivered after an outage,   *)
(* dropped at a full queue, bridged ahead of the stream, or lost and bridged*)
(* again after a crash.                                                     *)
THEOREM AlwaysAtMostOnce ==
  Undisturbed => (Spec /\ []NewestHasAll => []AtMostOnce)
<1>1. IInv /\ OrderInv => AtMostOnce
  <2> SUFFICES ASSUME IInv, OrderInv, NEW s \in Streams, NEW i \in Ids, NEW d \in Days
               PROVE  /\ rdb[s][i] + hdb[d][s][i] <= 1
                      /\ \A e \in Days \ {d} : hdb[d][s][i] = 0 \/ hdb[e][s][i] = 0
    BY DEF AtMostOnce, InOnePlace
  <2>1. /\ rdb[s][i] \in Nat /\ rdb[s][i] <= 1
        /\ \A e \in Days : hdb[e][s][i] \in Nat /\ hdb[e][s][i] <= 1
    BY DEF IInv, TypeOK, StoreTypeOK, Table, Unique, OrderInv, Ordered
  <2>2. \A e \in Days : hdb[e][s][i] # 0 => i \in RowIds(hdb[e][s])
    BY <2>1 DEF RowIds
  <2>3. rdb[s][i] # 0 => i \in RowIds(rdb[s])
    BY <2>1 DEF RowIds
  <2>4. ~ (i < i)
    BY DEF Ids
  <2>5. rdb[s][i] = 0 \/ hdb[d][s][i] = 0
    BY <2>2, <2>3, <2>4 DEF OrderInv, Ordered, Disk
  <2>6. \A e \in Days \ {d} : hdb[d][s][i] = 0 \/ hdb[e][s][i] = 0
    <3> SUFFICES ASSUME NEW e \in Days, e # d, i \in RowIds(hdb[d][s]), i \in RowIds(hdb[e][s])
                 PROVE  FALSE
      BY <2>2
    <3>1. d < e \/ e < d
      BY DEF Days
    <3> QED
      BY <2>4, <3>1 DEF OrderInv, Ordered
  <2> QED
    BY <2>1, <2>5, <2>6
<1> QED
  BY <1>1, AlwaysOrdered, PTL

-----------------------------------------------------------------------------
(* The flow of messages.  Between two connections with an idle main thread  *)
(* (QuietReconnect) what is in hand, and what is in hand or still waits in  *)
(* the broker's session, are runs of ids without a hole.                    *)

(* Neither the queue nor the session is at its limit.                       *)
NoOverflow == Len(queue) < QueueMax /\ Len(backlog) < MaxQueued

Msg(s, i) == [stream |-> s, id |-> i]

IdRel == {r \in Record \X Record : r[1].stream = r[2].stream => r[1].id < r[2].id}

IdsIn(M, s) == {i \in Ids : Msg(s, i) \in M}

InHand == batch \cup Msgs(queue)
OnWay  == InHand \cup Msgs(backlog)

Convex(S) == \A i, j \in S : i .. j \subseteq S

InIdOrder ==
    /\ Chain(queue, IdRel) /\ Chain(backlog, IdRel)
    /\ \A m \in batch : \A n \in Msgs(queue) : <<m, n>> \in IdRel
    /\ linkUp => \A m \in InHand : \A n \in Msgs(backlog) : <<m, n>> \in IdRel
    \* a message whose acknowledgement was lost is in hand and waits
    /\ \A s \in Trades : \A i \in IdsIn(InHand, s) : \A j \in IdsIn(Msgs(backlog), s) : i <= j

Unbroken ==
    \A s \in Trades :
        /\ Convex(IdsIn(InHand, s))
        /\ subscribed => \A i \in IdsIn(Msgs(backlog), s) :
                             i .. published[s] \subseteq IdsIn(Msgs(backlog), s)
        /\ subscribed => \A i \in IdsIn(InHand, s) : i .. published[s] \subseteq IdsIn(OnWay, s)

Live == mode = "live" \/ Rebridging

Phases ==
    /\ ~ subscribed => ~ linkUp /\ backlog = <<>>
    /\ ~ connectedOnce => queue = <<>> /\ batch = {} /\ ~ linkUp
    /\ ~ Live => ~ connectedOnce
    /\ Live /\ ~ connectedOnce => pendingRebridge = Trades
    /\ Rebridging => /\ br.target \in Group(br.sym)
                     /\ \A i \in Group(br.sym) : i > lastId[br.sym] => i >= br.target

(* The trades on their way to an unflagged symbol continue its floor.       *)
Continues(s) ==
    IF subscribed
    THEN lastId[s] + 1 .. published[s] \subseteq IdsIn(OnWay, s)
    ELSE \A i \in IdsIn(InHand, s) : lastId[s] + 1 .. i \subseteq IdsIn(InHand, s)

FlowInv ==
    /\ InIdOrder /\ Unbroken /\ Phases
    /\ Live => \A s \in Trades \ pendingRebridge : Continues(s)

LEMMA GroupIs ==
  ASSUME TypeOK, NEW s \in Streams
  PROVE  Group(s) = IdsIn(batch, s)
<1>1. \A m \in batch : m \in Record
  BY DEF TypeOK
<1>2. \A m \in Record : m = Msg(m.stream, m.id) /\ m.id \in Ids
  BY DEF Record, Msg
<1>3. \A i \in Ids : Msg(s, i).stream = s /\ Msg(s, i).id = i
  BY DEF Msg
<1> QED
  BY <1>1, <1>2, <1>3 DEF Group, IdsIn

LEMMA MsgIs ==
  ASSUME NEW s \in Streams, NEW i \in Ids
  PROVE  Msg(s, i) \in Record /\ Msg(s, i).stream = s /\ Msg(s, i).id = i
BY DEF Msg, Record

LEMMA IdRelIs ==
  ASSUME NEW s \in Streams, NEW i \in Ids, NEW j \in Ids, <<Msg(s, i), Msg(s, j)>> \in IdRel
  PROVE  i < j
BY MsgIs DEF IdRel

LEMMA IdRelOf ==
  ASSUME NEW m \in Record, NEW n \in Record, m.stream = n.stream => m.id < n.id
  PROVE  <<m, n>> \in IdRel
BY DEF IdRel

(* The ids of a set with one message more.                                  *)
LEMMA IdsInMore ==
  ASSUME NEW M, NEW m \in Record, NEW s \in Streams
  PROVE  IdsIn(M \cup {m}, s) = IdsIn(M, s) \cup (IF m.stream = s THEN {m.id} ELSE {})
<1>1. m = Msg(m.stream, m.id) /\ m.id \in Ids
  BY DEF Record, Msg
<1>2. \A i \in Ids : Msg(s, i) = m <=> (m.stream = s /\ m.id = i)
  BY <1>1 DEF Msg
<1> QED
  BY <1>1, <1>2 DEF IdsIn

LEMMA FlowInit ==
  ASSUME Init
  PROVE  FlowInv
<1>1. Msgs(queue) = {} /\ Msgs(backlog) = {} /\ batch = {}
      /\ Chain(queue, IdRel) /\ Chain(backlog, IdRel)
  BY ChainEmpty DEF Init, SessionInit
<1>2. \A s : IdsIn({}, s) = {}
  BY DEF IdsIn
<1>3. InHand = {} /\ OnWay = {}
  BY <1>1 DEF InHand, OnWay
<1>4. InIdOrder /\ Unbroken
  BY <1>1, <1>2, <1>3 DEF InIdOrder, Unbroken, Convex
<1>5. ~ Live /\ ~ linkUp /\ ~ subscribed /\ ~ connectedOnce /\ queue = <<>> /\ backlog = <<>>
  BY DEF Init, SessionInit, Live, Rebridging
<1> QED
  BY <1>1, <1>4, <1>5 DEF FlowInv, Phases, Live

LEMMA FlowPublish ==
  ASSUME IInv, DatesInv, FlowInv, NoOverflow, NEW s \in Streams, Publish(s)
  PROVE  FlowInv'
<1> DEFINE m == Msg(s, published[s] + 1)
<1>typed. TypeOK /\ published \in [Streams -> Ids] /\ backlog \in Seq(Record)
  BY DEF IInv, TypeOK
<1>1. /\ published[s] + 1 \in Ids /\ published[s] \in Ids
      /\ published' = [published EXCEPT ![s] = published[s] + 1]
      /\ UNCHANGED <<queue, batch, mode, br, lastId, pendingRebridge, connectedOnce,
                     subscribed, linkUp>>
      /\ backlog' = (IF subscribed THEN Append(backlog, m) ELSE backlog)
  BY <1>typed, BoundsAssumption DEF Publish, Enqueue, Ids, storeVars, mainVars, NoOverflow, Msg
<1>2. m \in Record /\ m.stream = s /\ m.id = published[s] + 1
  BY <1>1, MsgIs
<1> HIDE DEF m
<1>3. InHand' = InHand /\ (\A t \in Streams : Group(t)' = Group(t)) /\ Live' = Live
      /\ Rebridging' = Rebridging
  BY <1>1 DEF InHand, Group, Live, Rebridging
<1>sym. Rebridging => br.sym \in Streams
  BY DEF IInv, BridgeTyped, Rebridging, Streams
<1>4. CASE ~ subscribed
  <2>1. backlog' = backlog /\ ~ subscribed'
    BY <1>1, <1>4
  <2>2. OnWay' = OnWay
    BY <1>3, <2>1 DEF OnWay
  <2>3. InIdOrder'
    BY <1>1, <1>3, <2>1 DEF FlowInv, InIdOrder
  <2>4. Unbroken'
    BY <1>3, <2>1 DEF FlowInv, Unbroken
  <2>5. Phases'
    <3>1. ~ linkUp /\ backlog = <<>>
      BY <1>4 DEF FlowInv, Phases
    <3>2. Rebridging => Group(br.sym)' = Group(br.sym) /\ br' = br
      BY <1>1, <1>3, <1>sym
    <3> QED
      BY <1>1, <1>3, <2>1, <3>1, <3>2 DEF FlowInv, Phases
  <2>6. ASSUME Live, NEW t \in Trades \ pendingRebridge
        PROVE  Continues(t)'
    BY <1>1, <1>3, <1>4, <2>1, <2>6 DEF FlowInv, Continues
  <2> QED
    BY <1>1, <1>3, <2>3, <2>4, <2>5, <2>6 DEF FlowInv
<1>5. CASE subscribed
  <2>1. \A x \in OnWay : x \in Record /\ (x.stream = s => x.id < m.id)
    <3> TAKE x \in OnWay
    <3>1. x \in Record /\ x.id <= published[x.stream]
      BY <1>typed, OnItsWay DEF OnWay, InHand, DatesInv, InDateOrder
    <3>2. x.id \in Int /\ published[s] \in Int
      BY <1>1, <3>1 DEF Record, Ids
    <3> QED
      BY <1>2, <3>1, <3>2
  <2>2. \A x \in OnWay : <<x, m>> \in IdRel
    BY <1>2, <2>1, IdRelOf
  <2>3. Chain(backlog', IdRel) /\ Msgs(backlog') = Msgs(backlog) \cup {m}
    <3>1. Chain(backlog, IdRel)
      BY DEF FlowInv, InIdOrder
    <3>2. \A x \in Msgs(backlog) : <<x, m>> \in IdRel
      BY <2>2 DEF OnWay
    <3>3. Chain(Append(backlog, m), IdRel)
          /\ Msgs(Append(backlog, m)) = Msgs(backlog) \cup {m}
      BY <1>typed, <1>2, <3>1, <3>2, ChainAppend
    <3> QED
      BY <1>1, <1>5, <3>3
  <2>4. OnWay' = OnWay \cup {m}
    BY <1>3, <2>3 DEF OnWay
  <2>5. \A t \in Trades :
          /\ t \in Streams
          /\ t # s => /\ IdsIn(Msgs(backlog'), t) = IdsIn(Msgs(backlog), t)
                      /\ IdsIn(OnWay', t) = IdsIn(OnWay, t) /\ published'[t] = published[t]
          /\ t = s => /\ IdsIn(Msgs(backlog'), t) = IdsIn(Msgs(backlog), t) \cup {published[t] + 1}
                      /\ IdsIn(OnWay', t) = IdsIn(OnWay, t) \cup {published[t] + 1}
                      /\ published'[t] = published[t] + 1
    <3> SUFFICES ASSUME NEW t \in Trades
                 PROVE  /\ t \in Streams
                        /\ t # s => /\ IdsIn(Msgs(backlog'), t) = IdsIn(Msgs(backlog), t)
                                    /\ IdsIn(OnWay', t) = IdsIn(OnWay, t) /\ published'[t] = published[t]
                        /\ t = s => /\ IdsIn(Msgs(backlog'), t) = IdsIn(Msgs(backlog), t) \cup {published[t] + 1}
                                    /\ IdsIn(OnWay', t) = IdsIn(OnWay, t) \cup {published[t] + 1}
                                    /\ published'[t] = published[t] + 1
      OBVIOUS
    <3>1. t \in Streams
      BY DEF Streams
    <3>2. IdsIn(Msgs(backlog'), t) = IdsIn(Msgs(backlog), t) \cup (IF m.stream = t THEN {m.id} ELSE {})
      BY <1>2, <2>3, <3>1, IdsInMore
    <3>3. IdsIn(OnWay', t) = IdsIn(OnWay, t) \cup (IF m.stream = t THEN {m.id} ELSE {})
      BY <1>2, <2>4, <3>1, IdsInMore
    <3>4. published'[t] = IF t = s THEN published[s] + 1 ELSE published[t]
      BY <1>typed, <1>1, <3>1
    <3>5. CASE t = s
      BY <1>2, <3>1, <3>2, <3>3, <3>4, <3>5
    <3>6. CASE t # s
      BY <1>2, <3>1, <3>2, <3>3, <3>4, <3>6
    <3> QED
      BY <3>5, <3>6
  <2>6. InIdOrder'
    <3>1. linkUp' => \A x \in InHand' : \A y \in Msgs(backlog') : <<x, y>> \in IdRel
      BY <1>1, <1>3, <2>2, <2>3 DEF FlowInv, InIdOrder, OnWay
    <3>2. ASSUME NEW t \in Trades, NEW i \in IdsIn(InHand', t), NEW j \in IdsIn(Msgs(backlog'), t)
          PROVE  i <= j
      <4>1. CASE j \in IdsIn(Msgs(backlog), t)
        BY <1>3, <4>1 DEF FlowInv, InIdOrder
      <4>2. CASE t = s /\ j = published[s] + 1
        <5>1. i \in Ids /\ Msg(s, i) \in OnWay
          BY <1>3, <4>2 DEF IdsIn, OnWay
        <5>2. i < j
          BY <1>2, <2>1, <4>2, <5>1, MsgIs
        <5> QED
          BY <1>1, <4>2, <5>1, <5>2 DEF Ids
      <4> QED
        BY <2>5, <4>1, <4>2
    <3> QED
      BY <1>1, <2>3, <3>1, <3>2 DEF FlowInv, InIdOrder
  <2>7. Unbroken'
    <3> SUFFICES ASSUME NEW t \in Trades
                 PROVE  /\ \A i \in IdsIn(Msgs(backlog'), t) :
                              i .. published'[t] \subseteq IdsIn(Msgs(backlog'), t)
                        /\ \A i \in IdsIn(InHand, t) : i .. published'[t] \subseteq IdsIn(OnWay', t)
      BY <1>3 DEF FlowInv, Unbroken
    <3>1. /\ \A i \in IdsIn(Msgs(backlog), t) :
                i .. published[t] \subseteq IdsIn(Msgs(backlog), t)
          /\ \A i \in IdsIn(InHand, t) : i .. published[t] \subseteq IdsIn(OnWay, t)
      BY <1>5 DEF FlowInv, Unbroken
    <3>2. CASE t # s
      BY <2>5, <3>1, <3>2
    <3>3. CASE t = s
      <4>1. \A i \in Int : \A k \in i .. published[t] + 1 : k \in i .. published[t] \/ k = published[t] + 1
        BY <1>1, <3>3 DEF Ids
      <4>2. \A i \in IdsIn(Msgs(backlog'), t) \cup IdsIn(InHand, t) : i \in Int
        BY DEF IdsIn, Ids
      <4>3. \A k \in published[t] + 1 .. published[t] + 1 : k = published[t] + 1
        BY <1>1, <3>3 DEF Ids
      <4> QED
        BY <2>5, <3>1, <3>3, <4>1, <4>2, <4>3
    <3> QED
      BY <3>2, <3>3
  <2>8. ASSUME Live, NEW t \in Trades \ pendingRebridge
        PROVE  Continues(t)'
    <3>1. lastId[t] + 1 .. published[t] \subseteq IdsIn(OnWay, t)
      BY <1>5, <2>8 DEF FlowInv, Continues
    <3>2. lastId[t] \in Int /\ published[t] \in Int
      BY <1>typed DEF TypeOK, Ids, None, Streams
    <3>3. lastId[t] + 1 .. published'[t] \subseteq IdsIn(OnWay', t)
      <4>1. CASE t = s
        <5>1. \A k \in lastId[t] + 1 .. published[t] + 1 :
                 k \in lastId[t] + 1 .. published[t] \/ k = published[t] + 1
          BY <3>2
        <5> QED
          BY <2>5, <3>1, <4>1, <5>1
      <4>2. CASE t # s
        BY <2>5, <3>1, <4>2
      <4> QED
        BY <4>1, <4>2
    <3> QED
      BY <1>1, <1>5, <3>3 DEF Continues
  <2>9. Phases'
    <3>1. subscribed'
      BY <1>1, <1>5
    <3>2. Rebridging => Group(br.sym)' = Group(br.sym) /\ br' = br
      BY <1>1, <1>3, <1>sym
    <3> QED
      BY <1>1, <1>3, <3>1, <3>2 DEF FlowInv, Phases
  <2> QED
    BY <1>1, <1>3, <2>6, <2>7, <2>8, <2>9 DEF FlowInv
<1> QED
  BY <1>4, <1>5

LEMMA IdsBefore ==
  ASSUME NEW M, NEW N, NEW s \in Streams, \A m \in M : \A n \in N : <<m, n>> \in IdRel
  PROVE  \A i \in IdsIn(M, s) : \A j \in IdsIn(N, s) : i < j
BY IdRelIs DEF IdsIn

(* Ids on their way are of published messages.                              *)
LEMMA OnWayIds ==
  ASSUME TypeOK, DatesInv, NEW s \in Streams
  PROVE  /\ IdsIn(InHand, s) \subseteq IdsIn(OnWay, s) /\ IdsIn(Msgs(backlog), s) \subseteq IdsIn(OnWay, s)
         /\ IdsIn(OnWay, s) = IdsIn(InHand, s) \cup IdsIn(Msgs(backlog), s)
         /\ \A i \in IdsIn(OnWay, s) : i \in Nat /\ i <= published[s]
         /\ published[s] \in Nat /\ lastId[s] \in Nat
<1>1. published[s] \in Nat /\ lastId[s] \in Nat
  BY DEF TypeOK, Ids, None
<1>2. \A i \in IdsIn(OnWay, s) : i \in Nat /\ i <= published[s]
  <2> SUFFICES ASSUME NEW i \in IdsIn(OnWay, s) PROVE i \in Nat /\ i <= published[s]
    OBVIOUS
  <2>1. i \in Ids /\ Msg(s, i) \in OnWay
    BY DEF IdsIn
  <2>2. Msg(s, i).stream = s /\ Msg(s, i).id = i
    BY <2>1, MsgIs
  <2>3. Msg(s, i).id <= published[Msg(s, i).stream]
    BY <2>1 DEF OnWay, InHand, DatesInv, InDateOrder
  <2> QED
    BY <2>1, <2>2, <2>3 DEF Ids
<1> QED
  BY <1>1, <1>2 DEF OnWay, IdsIn

(* The broker's network thread runs once the handler is live.               *)
LEMMA LoopIsLive ==
  ASSUME TypeOK, LoopRunning
  PROVE  Live
BY DEF TypeOK, Modes, LoopRunning, StartingUp, Live, Rebridging

LEMMA FlowConnect ==
  ASSUME IInv, DatesInv, FlowInv, QuietReconnect, Connect
  PROVE  FlowInv'
<1>1. /\ UNCHANGED <<queue, batch, mode, br, lastId, backlog, published>>
      /\ linkUp' /\ subscribed' /\ connectedOnce'
      /\ pendingRebridge' = (IF connectedOnce THEN Trades ELSE pendingRebridge)
      /\ LoopRunning
      /\ connectedOnce => mode = "live" /\ batch = {} /\ queue = <<>>
  BY DEF Connect, Accept, FlaggedOnConnect, mainVars
<1>2. Live
  BY <1>1, LoopIsLive DEF IInv
<1>3. batch = {} /\ queue = <<>>
  BY <1>1 DEF FlowInv, Phases
<1>4. InHand = {} /\ InHand' = {} /\ Live' = Live /\ Rebridging' = Rebridging
  BY <1>1, <1>3, ChainEmpty DEF InHand, Live, Rebridging
<1>5. \A s : IdsIn({}, s) = {}
  BY DEF IdsIn
<1>6. pendingRebridge' = Trades
  BY <1>1, <1>2 DEF FlowInv, Phases
<1>7. InIdOrder'
  BY <1>1, <1>3, <1>4, <1>5 DEF FlowInv, InIdOrder
<1>8. Unbroken'
  <2>1. ~ subscribed => Msgs(backlog) = {}
    BY ChainEmpty DEF FlowInv, Phases
  <2> QED
    BY <1>1, <1>4, <1>5, <2>1 DEF FlowInv, Unbroken, Convex
<1>9. Phases'
  <2>1. ~ Rebridging
    BY <1>3, <1>4 DEF FlowInv, Phases, Group
  <2> QED
    BY <1>1, <1>2, <1>4, <2>1 DEF Phases
<1> QED
  BY <1>6, <1>7, <1>8, <1>9 DEF FlowInv

(* A message goes from the broker into the queue, acknowledged or not.      *)
LEMMA FlowDeliver ==
  ASSUME IInv, DatesInv, FlowInv, NoOverflow, Deliver \/ DeliverAckLost
  PROVE  FlowInv'
<1> DEFINE h == Head(backlog)
<1>typed. TypeOK /\ queue \in Seq(Record) /\ backlog \in Seq(Record)
  BY DEF IInv, TypeOK
<1>1. /\ backlog # <<>> /\ linkUp /\ LoopRunning
      /\ \/ backlog' = Tail(backlog) /\ linkUp' = linkUp
         \/ backlog' = backlog /\ ~ linkUp'
      /\ queue' = Append(queue, h)
      /\ UNCHANGED <<batch, published, mode, br, lastId, subscribed, connectedOnce, pendingRebridge>>
  BY DEF Deliver, DeliverAckLost, Acked, AckLost, Enqueued, NoOverflow, mainVars
<1>2. /\ Chain(Tail(backlog), IdRel)
      /\ h \in Msgs(backlog) /\ Msgs(backlog) = Msgs(Tail(backlog)) \cup {h}
      /\ \A x \in Msgs(Tail(backlog)) : <<h, x>> \in IdRel
  BY <1>1, <1>typed, ChainTail DEF FlowInv, InIdOrder
<1>3. h \in Record
  BY <1>2, <1>typed, OnItsWay
<1> HIDE DEF h
<1>4. subscribed /\ connectedOnce /\ Live /\ Live' = Live /\ Rebridging' = Rebridging
  BY <1>1, <1>typed, LoopIsLive DEF FlowInv, Phases, Live, Rebridging
<1>5. \A x \in InHand : <<x, h>> \in IdRel
  BY <1>1, <1>2 DEF FlowInv, InIdOrder
<1>6. Chain(queue', IdRel) /\ Msgs(queue') = Msgs(queue) \cup {h}
  <2>1. Chain(queue, IdRel)
    BY DEF FlowInv, InIdOrder
  <2>2. \A x \in Msgs(queue) : <<x, h>> \in IdRel
    BY <1>5 DEF InHand
  <2> QED
    BY <1>typed, <1>1, <1>3, <2>1, <2>2, ChainAppend
<1>7. InHand' = InHand \cup {h} /\ OnWay' = OnWay
  BY <1>1, <1>2, <1>6 DEF InHand, OnWay
<1>8. Chain(backlog', IdRel) /\ Msgs(backlog') \subseteq Msgs(backlog)
      /\ (linkUp' => Msgs(backlog') = Msgs(Tail(backlog)))
  BY <1>1, <1>2 DEF FlowInv, InIdOrder
<1>9. \A s \in Streams :
        /\ IdsIn(InHand', s) = IdsIn(InHand, s) \cup (IF h.stream = s THEN {h.id} ELSE {})
        /\ \A i \in IdsIn(InHand, s) : \A j \in IdsIn(Msgs(backlog), s) : i < j
        /\ h.stream = s => /\ h.id \in IdsIn(Msgs(backlog), s)
                           /\ \A j \in IdsIn(Msgs(backlog), s) : h.id <= j
                           /\ \A j \in IdsIn(Msgs(Tail(backlog)), s) : h.id < j
        /\ IdsIn(Msgs(backlog), s) =
              IdsIn(Msgs(Tail(backlog)), s) \cup (IF h.stream = s THEN {h.id} ELSE {})
  <2> TAKE s \in Streams
  <2>1. IdsIn(InHand', s) = IdsIn(InHand, s) \cup (IF h.stream = s THEN {h.id} ELSE {})
    BY <1>3, <1>7, IdsInMore
  <2>2. IdsIn(Msgs(backlog), s) =
              IdsIn(Msgs(Tail(backlog)), s) \cup (IF h.stream = s THEN {h.id} ELSE {})
    BY <1>2, <1>3, IdsInMore
  <2>3. \A x \in InHand : \A y \in Msgs(backlog) : <<x, y>> \in IdRel
    BY <1>1 DEF FlowInv, InIdOrder
  <2>4. \A i \in IdsIn(InHand, s) : \A j \in IdsIn(Msgs(backlog), s) : i < j
    BY <2>3, IdsBefore
  <2>5. ASSUME h.stream = s, NEW j \in IdsIn(Msgs(Tail(backlog)), s)
        PROVE  h.id < j
    <3>1. j \in Ids /\ <<h, Msg(s, j)>> \in IdRel
      BY <1>2, <2>5 DEF IdsIn
    <3>2. Msg(s, j).stream = s /\ Msg(s, j).id = j
      BY <3>1, MsgIs
    <3> QED
      BY <2>5, <3>1, <3>2 DEF IdRel
  <2>6. h.id \in Nat /\ IdsIn(Msgs(Tail(backlog)), s) \subseteq Nat
    BY <1>3 DEF Record, Ids, IdsIn
  <2>7. h.stream = s => \A j \in IdsIn(Msgs(backlog), s) : h.id <= j
    BY <2>2, <2>5, <2>6
  <2> QED
    BY <2>1, <2>2, <2>4, <2>5, <2>7
<1>10. \A s \in Trades : s \in Streams
  BY DEF Streams
<1>11. InIdOrder'
  <2>1. \A x \in batch' : \A y \in Msgs(queue') : <<x, y>> \in IdRel
    BY <1>1, <1>5, <1>6 DEF FlowInv, InIdOrder, InHand
  <2>2. linkUp' => \A x \in InHand' : \A y \in Msgs(backlog') : <<x, y>> \in IdRel
    <3>1. \A x \in InHand : \A y \in Msgs(backlog) : <<x, y>> \in IdRel
      BY <1>1 DEF FlowInv, InIdOrder
    <3> QED
      BY <1>2, <1>7, <1>8, <3>1
  <2>3. ASSUME NEW s \in Trades, NEW i \in IdsIn(InHand', s), NEW j \in IdsIn(Msgs(backlog'), s)
        PROVE  i <= j
    <3>1. j \in IdsIn(Msgs(backlog), s)
      BY <1>8 DEF IdsIn
    <3>2. CASE i \in IdsIn(InHand, s)
      BY <3>2 , <3>1, <1>9, <1>10 DEF IdsIn, Ids
    <3>3. CASE h.stream = s /\ i = h.id
      BY <3>3 , <3>1, <1>9, <1>10
    <3> QED
      BY <1>9, <1>10, <3>2, <3>3
  <2> QED
    BY <1>6, <1>8, <2>1, <2>2, <2>3 DEF InIdOrder
<1>12. Unbroken'
  <2> SUFFICES ASSUME NEW s \in Trades
               PROVE  /\ Convex(IdsIn(InHand', s))
                      /\ \A i \in IdsIn(Msgs(backlog'), s) :
                             i .. published[s] \subseteq IdsIn(Msgs(backlog'), s)
                      /\ \A i \in IdsIn(InHand', s) : i .. published[s] \subseteq IdsIn(OnWay, s)
    BY <1>1, <1>7 DEF Unbroken
  <2> DEFINE H == IdsIn(InHand, s)
             W == IdsIn(Msgs(backlog), s)
             O == IdsIn(OnWay, s)
  <2>1. /\ Convex(H)
        /\ \A i \in W : i .. published[s] \subseteq W
        /\ \A i \in H : i .. published[s] \subseteq O
    BY <1>4 DEF FlowInv, Unbroken
  <2>2. /\ O = H \cup W /\ (\A i \in O : i \in Nat /\ i <= published[s]) /\ published[s] \in Nat
    BY <1>typed, <1>10, OnWayIds
  <2>3. /\ IdsIn(InHand', s) = H \cup (IF h.stream = s THEN {h.id} ELSE {})
        /\ \A i \in H : \A j \in W : i < j
        /\ h.stream = s => h.id \in W /\ \A j \in W : h.id <= j
    BY <1>9, <1>10
  <2>4. linkUp' => \A i \in IdsIn(Msgs(backlog'), s) :
                             i .. published[s] \subseteq IdsIn(Msgs(backlog'), s)
    <3>1. W = IdsIn(Msgs(Tail(backlog)), s) \cup (IF h.stream = s THEN {h.id} ELSE {})
      BY <1>9, <1>10
    <3>2. h.stream = s => \A j \in IdsIn(Msgs(Tail(backlog)), s) : h.id < j
      BY <1>9, <1>10
    <3>3. PICK V : V = IdsIn(Msgs(Tail(backlog)), s)
      OBVIOUS
    <3>4. W = V \cup (IF h.stream = s THEN {h.id} ELSE {}) /\ (h.stream = s => \A j \in V : h.id < j)
      BY <3>1, <3>2, <3>3
    <3>5. linkUp' => IdsIn(Msgs(backlog'), s) = V
      BY <1>8, <3>3
    <3> HIDE DEF W, H, O
    <3>6. \A i \in V : i .. published[s] \subseteq V
      <4> SUFFICES ASSUME NEW i \in V, NEW k \in i .. published[s] PROVE k \in V
        OBVIOUS
      <4>1. k \in W /\ i \in Nat /\ k \in Int /\ i <= k
        BY <2>1, <2>2, <3>4
      <4>2. h.stream = s => k # h.id
        BY <2>2, <2>3, <3>4, <4>1
      <4> QED
        BY <3>4, <4>1, <4>2
    <3> QED
      BY <3>5, <3>6
  <2>5. ~ linkUp' => Msgs(backlog') = Msgs(backlog)
    BY <1>1
  <2>6. PICK G : G = IdsIn(InHand', s)
    OBVIOUS
  <2>7. G = H \cup (IF h.stream = s THEN {h.id} ELSE {})
    BY <2>3, <2>6
  <2>8. \A i \in IdsIn(Msgs(backlog'), s) : i .. published[s] \subseteq IdsIn(Msgs(backlog'), s)
    BY <2>1, <2>4, <2>5
  <2> HIDE DEF H, W, O
  <2>9. Convex(G)
    <3> SUFFICES ASSUME NEW i \in G, NEW j \in G, NEW k \in i .. j PROVE k \in G
      BY DEF Convex
    <3>1. i \in Nat /\ j \in Nat /\ k \in Int /\ i <= k /\ k <= j
      BY <2>2, <2>3, <2>7
    <3>2. CASE i \in H /\ j \in H
      BY <2>1, <2>7, <3>2 DEF Convex
    <3>3. CASE h.stream = s /\ i = h.id
      <4>1. j = h.id
        <5>1. j \in H => j < h.id
          BY <2>3, <3>3
        <5> QED
          BY <2>7, <3>1, <3>3, <5>1
      <4> QED
        BY <2>7, <3>1, <3>3, <4>1
    <3>4. CASE h.stream = s /\ i \in H /\ j = h.id
      <4>1. k \in i .. published[s]
        BY <2>2, <2>3, <3>1, <3>4
      <4>2. k \in H \cup W
        BY <2>1, <2>2, <3>4, <4>1
      <4>3. k \in W => k = h.id
        BY <2>2, <2>3, <3>1, <3>4
      <4> QED
        BY <2>7, <3>4, <4>2, <4>3
    <3> QED
      BY <2>7, <3>2, <3>3, <3>4
  <2>10. \A i \in G : i .. published[s] \subseteq O
    BY <2>1, <2>2, <2>3, <2>7
  <2> QED
    BY <2>6, <2>8, <2>9, <2>10 DEF O
<1>13. Phases'
  BY <1>1, <1>4 DEF FlowInv, Phases, Group
<1>14. \A s \in Trades \ pendingRebridge : Continues(s)'
  BY <1>1, <1>4, <1>7 DEF FlowInv, Continues
<1> QED
  BY <1>1, <1>11, <1>12, <1>13, <1>14 DEF FlowInv

(* The link breaks: order between what is in hand and what waits is weak.   *)
LEMMA FlowLinkLoss ==
  ASSUME FlowInv, LinkLoss
  PROVE  FlowInv'
<1>1. /\ UNCHANGED <<queue, batch, mode, br, lastId, backlog, published, subscribed,
                     connectedOnce, pendingRebridge>>
      /\ ~ linkUp'
  BY DEF LinkLoss, Disconnect, mainVars
<1>2. InHand' = InHand /\ OnWay' = OnWay /\ Live' = Live /\ Rebridging' = Rebridging
  BY <1>1 DEF InHand, OnWay, Live, Rebridging
<1>3. InIdOrder' /\ Unbroken'
  BY <1>1, <1>2 DEF FlowInv, InIdOrder, Unbroken
<1>4. Phases'
  BY <1>1, <1>2 DEF FlowInv, Phases, Group
<1>5. \A s \in Trades \ pendingRebridge : Continues(s)' = Continues(s)
  BY <1>1, <1>2 DEF Continues
<1> QED
  BY <1>1, <1>2, <1>3, <1>4, <1>5 DEF FlowInv

(* The broker forgets what waits: what is in hand still has no hole.        *)
LEMMA FlowSessionLoss ==
  ASSUME IInv, DatesInv, FlowInv, SessionLoss
  PROVE  FlowInv'
<1>1. /\ UNCHANGED <<queue, batch, mode, br, lastId, published, connectedOnce, pendingRebridge>>
      /\ subscribed /\ ~ linkUp' /\ ~ subscribed' /\ backlog' = <<>>
  BY DEF SessionLoss, LoseSession, mainVars
<1>2. InHand' = InHand /\ Live' = Live /\ Rebridging' = Rebridging
      /\ Chain(backlog', IdRel) /\ Msgs(backlog') = {}
  BY <1>1, ChainEmpty DEF InHand, Live, Rebridging
<1>3. \A s : IdsIn({}, s) = {}
  BY DEF IdsIn
<1>4. InIdOrder' /\ Unbroken'
  BY <1>1, <1>2, <1>3 DEF FlowInv, InIdOrder, Unbroken
<1>5. Phases'
  BY <1>1, <1>2 DEF FlowInv, Phases, Group
<1>6. ASSUME Live, NEW s \in Trades \ pendingRebridge
      PROVE  Continues(s)'
  <2> DEFINE H == IdsIn(InHand, s)
             W == IdsIn(Msgs(backlog), s)
  <2>1. lastId[s] + 1 .. published[s] \subseteq IdsIn(OnWay, s)
    BY <1>1, <1>6 DEF FlowInv, Continues
  <2>2. \A i \in H : \A j \in W : i <= j
    BY DEF FlowInv, InIdOrder
  <2>3. /\ IdsIn(OnWay, s) = H \cup W /\ published[s] \in Nat /\ lastId[s] \in Nat
        /\ \A i \in IdsIn(OnWay, s) : i \in Nat /\ i <= published[s]
    BY OnWayIds DEF IInv, Streams
  <2> HIDE DEF H, W
  <2>4. \A i \in H : lastId[s] + 1 .. i \subseteq H
    <3> SUFFICES ASSUME NEW i \in H, NEW k \in lastId[s] + 1 .. i PROVE k \in H
      OBVIOUS
    <3>1. i \in Nat /\ i <= published[s] /\ k \in Int /\ k <= i
      BY <2>3
    <3>2. k \in H \cup W
      BY <2>1, <2>3, <3>1
    <3>3. k \in W => k = i
      BY <2>2, <3>1
    <3> QED
      BY <3>2, <3>3
  <2> QED
    BY <1>1, <1>2, <2>4 DEF Continues, H
<1> QED
  BY <1>1, <1>2, <1>4, <1>5, <1>6 DEF FlowInv

LEMMA FlowDrain ==
  ASSUME IInv, FlowInv, Drain
  PROVE  FlowInv'
<1>1. Drained \in 1 .. Len(queue) /\ queue \in Seq(Record)
  BY SizesAssumption, LenProperties, EmptySeq DEF IInv, TypeOK, Drain, Drained
<1>2. /\ batch = {} /\ batch' = {queue[k] : k \in 1 .. Drained}
      /\ queue' = SubSeq(queue, Drained + 1, Len(queue))
      /\ mode = "live"
      /\ UNCHANGED <<mode, br, lastId, backlog, published, subscribed, linkUp,
                     connectedOnce, pendingRebridge>>
  BY DEF Drain, sessionVars
<1>3. /\ Chain(queue', IdRel) /\ Msgs(queue) = batch' \cup Msgs(queue')
      /\ \A x \in batch' : \A y \in Msgs(queue') : <<x, y>> \in IdRel
  <2> DEFINE first == {queue[k] : k \in 1 .. Drained}
             rest  == SubSeq(queue, Drained + 1, Len(queue))
  <2>1. Chain(queue, IdRel)
    BY DEF FlowInv, InIdOrder
  <2>2. /\ Chain(rest, IdRel) /\ Msgs(queue) = first \cup Msgs(rest)
        /\ \A x \in first : \A y \in Msgs(rest) : <<x, y>> \in IdRel
    BY <1>1, <2>1, ChainSplit
  <2>3. batch' = first /\ queue' = rest
    BY <1>2
  <2> HIDE DEF first, rest
  <2> QED
    BY <2>2, <2>3
<1>4. InHand' = InHand /\ OnWay' = OnWay
  BY <1>2, <1>3 DEF InHand, OnWay
<1>5. InIdOrder' /\ Unbroken'
  BY <1>2, <1>3, <1>4 DEF FlowInv, InIdOrder, Unbroken
<1>6. Live /\ Live' /\ ~ Rebridging' /\ connectedOnce
  BY <1>2 DEF FlowInv, Phases, Live, Rebridging, Drain
<1>7. Phases'
  BY <1>2, <1>6 DEF FlowInv, Phases
<1>8. \A s \in Trades \ pendingRebridge : Continues(s)'
  BY <1>2, <1>4, <1>6 DEF FlowInv, Continues
<1> QED
  BY <1>2, <1>5, <1>7, <1>8 DEF FlowInv

(* Starting up: nothing is connected yet, and going live flags every symbol.*)
LEMMA FlowStartup ==
  ASSUME FlowInv, GoLive \/ StartupBridged \/ \E s \in Trades : StartupBridge(s)
  PROVE  FlowInv'
<1>1. /\ UNCHANGED <<queue, batch, backlog, published, subscribed, linkUp, connectedOnce>>
      /\ mode \in {"startup", "bridged"} /\ ~ Live
      /\ \/ mode' = "live" /\ pendingRebridge' = Trades
         \/ mode' # "live" /\ ~ Rebridging'
  BY DEF GoLive, StartupBridged, StartupBridge, StartBridge, sessionVars, Live, Rebridging
<1>2. InHand' = InHand /\ OnWay' = OnWay
  BY <1>1 DEF InHand, OnWay
<1>3. InIdOrder' /\ Unbroken'
  BY <1>1, <1>2 DEF FlowInv, InIdOrder, Unbroken
<1>4. ~ connectedOnce
  BY <1>1 DEF FlowInv, Phases
<1>5. Phases' /\ (Live' => pendingRebridge' = Trades)
  BY <1>1, <1>4 DEF FlowInv, Phases, Live, Rebridging
<1> QED
  BY <1>3, <1>5 DEF FlowInv

(* What the code's min() returns.                                           *)
LEMMA MinIsLeast ==
  ASSUME NEW S \in SUBSET Nat, S # {}
  PROVE  Min(S) \in S /\ \A i \in S : Min(S) <= i
<1> DEFINE Less == {ss \in Nat \X Nat : ss[1] < ss[2]}
<1>1. IsWellFoundedOn(Less, Nat)
  BY NatLessThanWellFounded DEF OpToRel
<1> HIDE DEF Less
<1>2. \E t \in S : \A u \in S : ~ (<<u, t>> \in Less)
  BY <1>1, WFMin
<1>3. PICK t \in S : \A u \in S : ~ (u < t)
  BY <1>2 DEF Less
<1>4. \A u \in S : t <= u
  BY <1>3
<1> QED
  BY <1>4 DEF Min

LEMMA FlowRebridge ==
  ASSUME IInv, FlowInv, NEW s \in Trades, Rebridge(s)
  PROVE  FlowInv'
<1> DEFINE new == Fresh(Group(s), lastId[s])
<1>1. /\ UNCHANGED <<queue, batch, backlog, published, subscribed, linkUp, connectedOnce,
                     lastId, pendingRebridge>>
      /\ mode = "live" /\ new # {} /\ StartBridge(s, Min(new))
  BY DEF Rebridge, GapBefore, sessionVars
<1>typed. s \in Streams /\ TypeOK
  BY DEF IInv, Streams
<1>2. Group(s) \subseteq Ids /\ new \subseteq Ids
  BY <1>typed, FreshIds DEF TypeOK, Group, Record
<1>3. new = {i \in Group(s) : i > lastId[s]}
  BY DEF Fresh
<1> HIDE DEF new
<1>4. new \in SUBSET Nat
  BY <1>2 DEF Ids
<1>5. Min(new) \in new /\ \A i \in new : Min(new) <= i
  BY <1>1, <1>4, MinIsLeast
<1>6. PICK target : target = Min(new)
  OBVIOUS
<1>7. target \in Group(s) /\ target # None /\ \A i \in Group(s) : i > lastId[s] => i >= target
  BY <1>2, <1>3, <1>5, <1>6 DEF Ids, None
<1>8. /\ br'.sym = s /\ br'.target = target /\ mode' \in {"bridge", "bridged"}
      /\ Group(s)' = Group(s)
  BY <1>1, <1>6 DEF StartBridge, Group
<1>9. InHand' = InHand /\ OnWay' = OnWay /\ Live /\ Live' /\ Rebridging'
  BY <1>1, <1>7, <1>8 DEF InHand, OnWay, Live, Rebridging
<1>10. InIdOrder' /\ Unbroken'
  BY <1>1, <1>9 DEF FlowInv, InIdOrder, Unbroken
<1>11. Group(br.sym)' = Group(s)
  BY <1>1, <1>8 DEF Group
<1>12. Phases'
  BY <1>1, <1>7, <1>8, <1>9, <1>11 DEF FlowInv, Phases
<1>13. \A t \in Trades \ pendingRebridge : Continues(t)'
  BY <1>1, <1>9 DEF FlowInv, Continues
<1> QED
  BY <1>1, <1>10, <1>12, <1>13 DEF FlowInv

LEMMA FlowBridgePage ==
  ASSUME IInv, FlowInv, BridgePage
  PROVE  FlowInv'
<1>1. /\ UNCHANGED <<queue, batch, backlog, published, subscribed, linkUp, connectedOnce,
                     lastId, pendingRebridge>>
      /\ mode = "bridge"
  BY DEF BridgePage, sessionVars
<1>2. br'.sym = br.sym /\ br'.target = br.target /\ mode' \in {"bridge", "bridged"}
  BY PageRows
<1>3. InHand' = InHand /\ OnWay' = OnWay /\ Live' = Live /\ Rebridging' = Rebridging
  BY <1>1, <1>2 DEF InHand, OnWay, Live, Rebridging
<1>4. InIdOrder' /\ Unbroken'
  BY <1>1, <1>3 DEF FlowInv, InIdOrder, Unbroken
<1>5. Group(br.sym)' = Group(br.sym)
  BY <1>1, <1>2 DEF Group
<1>6. Phases'
  BY <1>1, <1>2, <1>3, <1>5 DEF FlowInv, Phases
<1>7. Live => \A t \in Trades \ pendingRebridge : Continues(t)'
  BY <1>1, <1>3 DEF FlowInv, Continues
<1> QED
  BY <1>1, <1>3, <1>4, <1>6, <1>7 DEF FlowInv

LEMMA FlowCrash ==
  ASSUME FlowInv, Crash
  PROVE  FlowInv'
<1>1. /\ queue' = <<>> /\ batch' = {} /\ ~ linkUp' /\ ~ connectedOnce' /\ mode' = "startup"
      /\ UNCHANGED <<subscribed, backlog, published>>
  BY DEF Crash, Dead
<1>2. Chain(queue', IdRel) /\ InHand' = {} /\ ~ Live' /\ ~ Rebridging'
  BY <1>1, ChainEmpty DEF InHand, Live, Rebridging
<1>3. \A s : IdsIn({}, s) = {}
  BY DEF IdsIn
<1>4. InIdOrder'
  BY <1>1, <1>2, <1>3 DEF FlowInv, InIdOrder
<1>5. Unbroken'
  BY <1>1, <1>2, <1>3 DEF FlowInv, Unbroken, Convex
<1>6. Phases'
  BY <1>1, <1>2 DEF FlowInv, Phases
<1> QED
  BY <1>2, <1>4, <1>5, <1>6 DEF FlowInv

(* A group is applied: its stream's floor is above all of it.               *)
LEMMA ApplyBatch ==
  ASSUME IInv, DatesInv, Ordered(rdb, hdb), NEW s \in Streams, ApplyGroup(s, Top(s))
  PROVE  /\ \A t \in Streams : t # s => /\ IdsIn(batch', t) = IdsIn(batch, t)
                                        /\ lastId'[t] = lastId[t]
         /\ IdsIn(batch', s) = {}
         /\ lastId'[s] \in Nat /\ \A i \in IdsIn(batch, s) : i <= lastId'[s]
         /\ batch' \subseteq batch
<1>typed. TypeOK /\ lastId \in [Streams -> Ids \cup {None}]
  BY DEF IInv, TypeOK
<1>1. batch' = {b \in batch : b.stream # s}
  BY DEF ApplyGroup
<1>2. \A t \in Streams : \A i \in Ids : Msg(t, i).stream = t
  BY MsgIs
<1>3. \A t \in Streams : t # s => IdsIn(batch', t) = IdsIn(batch, t)
  BY <1>1, <1>2 DEF IdsIn
<1>4. IdsIn(batch', s) = {}
  BY <1>1, <1>2 DEF IdsIn
<1>5. PICK fresh : fresh = Fresh(Group(s), Top(s))
  OBVIOUS
<1>6. /\ lastId' = [lastId EXCEPT ![s] = IF fresh = {} THEN Top(s) ELSE Max(fresh)]
  BY <1>5 DEF ApplyGroup
<1>7. fresh \in SUBSET Ids /\ fresh = {i \in IdsIn(batch, s) : i > Top(s)}
  BY <1>5, <1>typed, FreshIds, GroupIs DEF Fresh
<1>8. Top(s) \in Nat
  BY TopBounds
<1>9. lastId'[s] \in Nat /\ Top(s) <= lastId'[s] /\ \A i \in fresh : i <= lastId'[s]
  <2>1. CASE fresh = {}
    BY <1>typed, <1>6, <1>8, <2>1
  <2>2. CASE fresh # {}
    <3>1. fresh \in SUBSET (0 .. MaxId) /\ MaxId \in Nat
      BY <1>7, BoundsAssumption DEF Ids
    <3>2. PICK m \in fresh : m = Max(fresh) /\ \A y \in fresh : y <= m
      BY <2>2, <3>1, MaxOfBounded
    <3>3. m \in Nat /\ Top(s) <= m
      BY <1>7, <1>8, <3>1, <3>2
    <3> QED
      BY <1>typed, <1>6, <2>2, <3>2, <3>3
  <2> QED
    BY <2>1, <2>2
<1>10. \A i \in IdsIn(batch, s) : i <= lastId'[s]
  <2> SUFFICES ASSUME NEW i \in IdsIn(batch, s) PROVE i <= lastId'[s]
    OBVIOUS
  <2>1. i \in Nat
    BY DEF IdsIn, Ids
  <2> QED
    BY <1>7, <1>8, <1>9, <2>1
<1> QED
  BY <1>typed, <1>1, <1>3, <1>4, <1>6, <1>9, <1>10

LEMMA FlowApply ==
  ASSUME IInv, DatesInv, OrderInv, FlowInv, NEW s \in Streams, ApplyGroup(s, Top(s)),
         Live, Group(s) # {}, mode' = "live",
         UNCHANGED <<queue, backlog, published, subscribed, linkUp, connectedOnce>>,
         pendingRebridge \ {s} \subseteq pendingRebridge'
  PROVE  FlowInv'
<1>typed. TypeOK
  BY DEF IInv
<1>1. /\ \A t \in Streams : t # s => /\ IdsIn(batch', t) = IdsIn(batch, t)
                                     /\ lastId'[t] = lastId[t]
      /\ IdsIn(batch', s) = {}
      /\ lastId'[s] \in Nat /\ \A i \in IdsIn(batch, s) : i <= lastId'[s]
      /\ batch' \subseteq batch
  BY ApplyBatch DEF OrderInv
<1>2. /\ InHand = batch \cup Msgs(queue) /\ InHand' = batch' \cup Msgs(queue)
      /\ OnWay = InHand \cup Msgs(backlog) /\ OnWay' = InHand' \cup Msgs(backlog)
  BY DEF InHand, OnWay
<1>3. InHand' \subseteq InHand /\ OnWay' \subseteq OnWay
  BY <1>1, <1>2
<1>parts. \A t \in Streams :
            /\ IdsIn(InHand', t) = IdsIn(batch', t) \cup IdsIn(Msgs(queue), t)
            /\ IdsIn(InHand, t) = IdsIn(batch, t) \cup IdsIn(Msgs(queue), t)
            /\ IdsIn(OnWay', t) = IdsIn(InHand', t) \cup IdsIn(Msgs(backlog), t)
            /\ IdsIn(OnWay, t) = IdsIn(InHand, t) \cup IdsIn(Msgs(backlog), t)
  BY <1>2 DEF IdsIn
<1>4. \A t \in Streams : t # s => /\ IdsIn(InHand', t) = IdsIn(InHand, t)
                                  /\ IdsIn(OnWay', t) = IdsIn(OnWay, t)
  BY <1>1, <1>parts
<1> DEFINE G == IdsIn(batch, s)
           Q == IdsIn(Msgs(queue), s)
           W == IdsIn(Msgs(backlog), s)
<1>5. /\ IdsIn(InHand', s) = Q /\ IdsIn(InHand, s) = G \cup Q
      /\ IdsIn(OnWay', s) = Q \cup W /\ IdsIn(OnWay, s) = G \cup Q \cup W
  BY <1>1, <1>parts
<1>6. \A i \in G : \A j \in Q : i < j
  <2>1. \A x \in batch : \A y \in Msgs(queue) : <<x, y>> \in IdRel
    BY DEF FlowInv, InIdOrder
  <2> QED
    BY <2>1, IdsBefore
<1>7. G \subseteq Nat /\ Q \subseteq Nat /\ W \subseteq Nat /\ published[s] \in Nat
  BY <1>typed DEF IdsIn, Ids, TypeOK
<1>8. G # {}
  BY <1>typed, GroupIs
<1>9. s \in Trades => /\ Convex(G \cup Q)
                      /\ subscribed => \A i \in G \cup Q : i .. published[s] \subseteq G \cup Q \cup W
  BY <1>5 DEF FlowInv, Unbroken
<1>10. \A i \in G : i <= lastId'[s]
  BY <1>1
<1>11. \A t \in Trades : t \in Streams
  BY DEF Streams
<1> HIDE DEF G, Q, W
<1>12. InIdOrder'
  <2>1. \A t \in Trades : \A i \in IdsIn(InHand', t) : \A j \in IdsIn(Msgs(backlog), t) : i <= j
    BY <1>3 DEF FlowInv, InIdOrder, IdsIn
  <2> QED
    BY <1>1, <1>3, <2>1 DEF FlowInv, InIdOrder
<1>13. Unbroken'
  <2> SUFFICES ASSUME NEW t \in Trades
               PROVE  /\ Convex(IdsIn(InHand', t))
                      /\ subscribed => \A i \in IdsIn(InHand', t) :
                                           i .. published[t] \subseteq IdsIn(OnWay', t)
    BY DEF FlowInv, Unbroken
  <2>1. CASE t # s
    BY <1>4, <1>11, <2>1 DEF FlowInv, Unbroken
  <2>2. CASE t = s
    <3>1. Convex(Q)
      <4> SUFFICES ASSUME NEW i \in Q, NEW j \in Q, NEW k \in i .. j PROVE k \in Q
        BY DEF Convex
      <4>1. k \in G \cup Q
        BY <1>9, <2>2 DEF Convex
      <4>2. k \in G => k < i
        BY <1>6
      <4> QED
        BY <1>7, <4>1, <4>2
    <3>2. ASSUME subscribed, NEW i \in Q, NEW k \in i .. published[s]
          PROVE  k \in Q \cup W
      <4>1. k \in G \cup Q \cup W
        BY <1>9, <2>2, <3>2
      <4>2. k \in G => k < i
        BY <1>6
      <4> QED
        BY <1>7, <4>1, <4>2
    <3> QED
      BY <1>5, <2>2, <3>1, <3>2
  <2> QED
    BY <2>1, <2>2
<1>14. connectedOnce
  <2>1. batch # {}
    BY <1>8 DEF G, IdsIn
  <2> QED
    BY <2>1 DEF FlowInv, Phases
<1>15. Phases'
  BY <1>14 DEF FlowInv, Phases, Live, Rebridging
<1>16. ASSUME NEW t \in Trades \ pendingRebridge'
       PROVE  Continues(t)'
  <2>1. CASE t # s
    <3>1. t \in Streams /\ t \notin pendingRebridge
      BY <1>11, <1>16, <2>1
    <3>2. Continues(t)
      BY <3>1 DEF FlowInv
    <3>3. lastId'[t] = lastId[t] /\ IdsIn(InHand', t) = IdsIn(InHand, t)
          /\ IdsIn(OnWay', t) = IdsIn(OnWay, t)
      BY <1>1, <1>4, <2>1, <3>1
    <3> QED
      BY <3>2, <3>3 DEF Continues
  <2>2. CASE t = s
    <3>1. PICK g \in G : TRUE
      BY <1>8
    <3>2. PICK f : f = lastId'[s]
      OBVIOUS
    <3>3. f \in Nat /\ g <= f /\ g \in Nat /\ \A i \in G : i <= f
      BY <1>1, <1>7, <1>10, <3>2
    <3>4. ASSUME subscribed, NEW k \in f + 1 .. published[s]
          PROVE  k \in Q \cup W
      <4>1. k \in g .. published[s] /\ k > f /\ k \in Int
        BY <1>7, <3>3
      <4>2. k \in G \cup Q \cup W
        BY <1>9, <2>2, <3>4, <4>1
      <4>3. k \notin G
        BY <3>3, <4>1
      <4> QED
        BY <4>2, <4>3
    <3>5. ASSUME NEW i \in Q, NEW k \in f + 1 .. i
          PROVE  k \in Q
      <4>1. k \in g .. i /\ k > f /\ k \in Int
        BY <1>7, <3>3
      <4>2. k \in G \cup Q
        BY <1>9, <2>2, <4>1 DEF Convex
      <4>3. k \notin G
        BY <3>3, <4>1
      <4> QED
        BY <4>2, <4>3
    <3> QED
      BY <1>5, <2>2, <3>2, <3>4, <3>5 DEF Continues
  <2> QED
    BY <2>1, <2>2
<1> QED
  BY <1>12, <1>13, <1>15, <1>16 DEF FlowInv

LEMMA FlowStep ==
  ASSUME IInv, DatesInv, OrderInv, FlowInv, NewestHasAll, NoOverflow, QuietReconnect,
         MaxStops = 0, [Next]_vars
  PROVE  FlowInv'
<1>1. CASE \E s \in Streams : Publish(s)
  BY <1>1, FlowPublish
<1>2. CASE Connect
  BY <1>2, FlowConnect
<1>3. CASE Deliver \/ DeliverAckLost
  BY <1>3, FlowDeliver
<1>4. CASE LinkLoss \/ SessionLoss
  BY <1>4, FlowLinkLoss, FlowSessionLoss
<1>5. CASE Drain
  BY <1>5, FlowDrain
<1>6. CASE BridgePage
  BY <1>6, FlowBridgePage
<1>7. CASE GoLive \/ StartupBridged \/ \E s \in Trades : StartupBridge(s)
  BY <1>7, FlowStartup
<1>8. CASE \E s \in Trades : Rebridge(s)
  BY <1>8, FlowRebridge
<1>9. CASE Rebridged
  <2>1. br.sym \in Streams /\ Rebridging /\ mode' = "live"
    BY <1>9 DEF IInv, BridgeTyped, Rebridged, Streams, Rebridging
  <2>2. MaxStoredId(br.sym) = Top(br.sym)
    BY <2>1, MaxStoredIsTop DEF IInv, TypeOK, OrderInv
  <2>3. PICK s \in Streams : s = br.sym
    BY <2>1
  <2>4. ApplyGroup(s, Top(s)) /\ pendingRebridge' = pendingRebridge \ {s}
        /\ UNCHANGED <<queue, backlog, published, subscribed, linkUp, connectedOnce>>
    BY <1>9, <2>2, <2>3 DEF Rebridged, Unflag, sessionVars
  <2>5. Live /\ Group(s) # {}
    BY <2>1, <2>3 DEF FlowInv, Phases, Live
  <2> QED
    BY <2>1, <2>4, <2>5, FlowApply
<1>10. ASSUME NEW s \in Streams, ApplyTrades(s) \/ ApplyQuotes(s)
       PROVE  FlowInv'
  <2>1. /\ mode = "live" /\ mode' = "live" /\ ApplyGroup(s, lastId[s]) /\ Group(s) # {}
        /\ UNCHANGED <<queue, backlog, published, subscribed, linkUp, connectedOnce>>
        /\ pendingRebridge \ {s} \subseteq pendingRebridge'
    BY <1>10 DEF ApplyTrades, ApplyQuotes, Unflag, sessionVars
  <2>2. lastId[s] = Top(s) /\ Live
    BY <2>1 DEF OrderInv, FloorsInv, Known, Bridging, Live
  <2> QED
    BY <2>1, <2>2, FlowApply
<1>11. CASE Stop \/ Crash \/ Restart
  BY <1>11, NoStop, FlowCrash DEF Restart, DatesInv
<1>12. CASE UNCHANGED vars
  <2>1. UNCHANGED <<queue, batch, backlog, published, subscribed, linkUp, connectedOnce,
                    mode, br, lastId, pendingRebridge>>
    BY <1>12 DEF vars, sessionVars, mainVars
  <2>2. InHand' = InHand /\ OnWay' = OnWay /\ Live' = Live /\ Rebridging' = Rebridging
        /\ Group(br.sym)' = Group(br.sym)
    BY <2>1 DEF InHand, OnWay, Live, Rebridging, Group
  <2>3. InIdOrder' /\ Unbroken' /\ Phases'
    BY <2>1, <2>2 DEF FlowInv, InIdOrder, Unbroken, Phases
  <2>4. \A t \in Trades : Continues(t)' = Continues(t)
    BY <2>1, <2>2 DEF Continues
  <2> QED
    BY <2>1, <2>2, <2>3, <2>4 DEF FlowInv
<1> QED
  BY <1>1, <1>2, <1>3, <1>4, <1>5, <1>6, <1>7, <1>8, <1>9, <1>10, <1>11, <1>12
  DEF Next, Main, Streams

(* Starting from what is flagged, in the broker's session and in hand, the  *)
(* messages keep their order and have no hole that nobody knows of.         *)
LEMMA AlwaysFlowing ==
  Undisturbed /\ QuietReconnect =>
    (Spec /\ []NewestHasAll /\ []NoOverflow => [](IInv /\ DatesInv /\ OrderInv /\ FlowInv))
<1> SUFFICES ASSUME Undisturbed, QuietReconnect
             PROVE  Spec /\ []NewestHasAll /\ []NoOverflow
                      => [](IInv /\ DatesInv /\ OrderInv /\ FlowInv)
  OBVIOUS
<1> DEFINE Inv == IInv /\ DatesInv /\ OrderInv /\ FlowInv
<1>1. Init => Inv
  BY InitIInv, DatesInit, OrderInit, FlowInit DEF Undisturbed
<1>2. Inv /\ NewestHasAll /\ NoOverflow /\ [Next]_vars => Inv'
  BY NextIInv, DatesStep, OrderStep, FlowStep DEF Undisturbed
<1> HIDE DEF Inv
<1>3. Spec /\ []NewestHasAll /\ []NoOverflow => []Inv
  BY <1>1, <1>2, PTL DEF Spec
<1> QED
  BY <1>3 DEF Inv

(* A symbol whose rebridge flag is down has no gap between its floor and    *)
(* the trades on their way: a flag may be dropped by the first new record   *)
(* of the symbol, as the main loop does, after any sequence of outages,     *)
(* redeliveries, lost sessions and crashes.                                 *)
THEOREM UnflaggedNeverHasGap ==
  Undisturbed /\ QuietReconnect =>
    (Spec /\ []NewestHasAll /\ []NoOverflow => []UnflaggedHasNoGap)
<1>1. IInv /\ DatesInv /\ FlowInv => UnflaggedHasNoGap
  <2> SUFFICES ASSUME IInv, DatesInv, FlowInv, mode = "live",
                      NEW s \in Trades \ pendingRebridge, NEW i \in Ahead(s),
                      NEW k \in lastId[s] + 1 .. i
               PROVE  k \in Ahead(s)
    BY DEF UnflaggedHasNoGap
  <2>typed. TypeOK /\ s \in Streams
    BY DEF IInv, Streams
  <2>1. \A j : j \in Ahead(s) <=> j \in IdsIn(OnWay, s) /\ j > lastId[s]
    BY <2>typed, GroupIs DEF Ahead, IdsIn, OnWay, InHand, Msgs, Msg
  <2>2. /\ IdsIn(OnWay, s) = IdsIn(InHand, s) \cup IdsIn(Msgs(backlog), s)
        /\ \A j \in IdsIn(OnWay, s) : j \in Nat /\ j <= published[s]
        /\ published[s] \in Nat /\ lastId[s] \in Nat
    BY <2>typed, OnWayIds
  <2>3. Continues(s)
    BY DEF FlowInv, Live
  <2>4. i \in IdsIn(OnWay, s) /\ k \in Int /\ k > lastId[s] /\ k <= i /\ i <= published[s] /\ i \in Nat
    BY <2>1, <2>2
  <2>5. CASE subscribed
    <3>1. k \in lastId[s] + 1 .. published[s]
      BY <2>2, <2>4
    <3> QED
      BY <2>1, <2>3, <2>4, <2>5, <3>1 DEF Continues
  <2>6. CASE ~ subscribed
    <3>1. Msgs(backlog) = {}
      BY <2>6, ChainEmpty DEF FlowInv, Phases
    <3>2. i \in IdsIn(InHand, s)
      BY <2>2, <2>4, <3>1 DEF IdsIn
    <3>3. k \in IdsIn(InHand, s)
      BY <2>3, <2>6, <3>2 DEF Continues
    <3> QED
      BY <2>1, <2>2, <2>4, <3>3
  <2> QED
    BY <2>5, <2>6
<1> QED
  BY <1>1, AlwaysFlowing, PTL

-----------------------------------------------------------------------------
(* No hole in the store.                                                    *)

FromOne(S) == \A i \in S : 1 .. i \subseteq S

(* A symbol's rows, on disk and altogether, are all there are up to the     *)
(* newest; a bridge that has returned has reached its target.               *)
WholeInv ==
    /\ \A s \in Trades : 1 \in Disk(hdb, s) /\ FromOne(Disk(hdb, s)) /\ FromOne(Stored(s))
    /\ mode = "bridged" /\ br.target # None => br.next >= br.target

LEMMA FromOneMore ==
  ASSUME NEW S \in SUBSET Ids, NEW N \in SUBSET Ids, FromOne(S),
         \A i \in N : LastOf(S) + 1 .. i \subseteq N
  PROVE  FromOne(S \cup N)
<1> SUFFICES ASSUME NEW i \in N, NEW k \in 1 .. i PROVE k \in S \cup N
  BY DEF FromOne
<1>1. LastOf(S) \in Nat /\ i \in Nat /\ k \in Int /\ 1 <= k /\ k <= i
  BY LastOfIds DEF Ids, None
<1>2. CASE k > LastOf(S)
  BY <1>1, <1>2
<1>3. CASE k <= LastOf(S)
  <2>1. S # {}
    BY <1>1, <1>3 DEF LastOf, None
  <2>2. S \in SUBSET (0 .. MaxId) /\ MaxId \in Nat
    BY BoundsAssumption DEF Ids
  <2>3. LastOf(S) \in S
    BY <2>1, <2>2, MaxOfBounded DEF LastOf
  <2>4. k \in 1 .. LastOf(S)
    BY <1>1, <1>3
  <2> QED
    BY <2>3, <2>4 DEF FromOne
<1> QED
  BY <1>1, <1>2, <1>3

LEMMA WholeInit ==
  ASSUME Init
  PROVE  WholeInv
<1>1. \A d \in Days : \A s \in Streams : \A i \in Ids :
          hdb[d][s][i] = (IF i = 1 /\ DayOf[s][1] = d THEN 1 ELSE 0)
  BY DEF Init, InitTables
<1>2. ASSUME NEW s \in Trades
      PROVE  Disk(hdb, s) = {1} /\ Stored(s) = {1}
  <2>1. s \in Streams /\ 1 \in Ids /\ DayOf[s][1] \in Days
    BY BoundsAssumption, DayOfNat DEF Streams, Ids
  <2>2. \A d \in Days : RowIds(hdb[d][s]) \subseteq {1}
    BY <1>1, <2>1 DEF RowIds
  <2>3. 1 \in RowIds(hdb[DayOf[s][1]][s])
    BY <1>1, <2>1 DEF RowIds
  <2>4. Disk(hdb, s) = {1}
    BY <2>1, <2>2, <2>3 DEF Disk
  <2>5. RowIds(rdb[s]) = {}
    BY <2>1, EmptyTablesType DEF Init
  <2> QED
    BY <2>4, <2>5, StoredIs
<1>3. FromOne({1})
  BY DEF FromOne
<1> QED
  BY <1>2, <1>3 DEF WholeInv, Init

LEMMA WholeSame ==
  ASSUME WholeInv, UNCHANGED <<rdb, hdb>>, mode' = "bridged" /\ br'.target # None => UNCHANGED <<mode, br>>
  PROVE  WholeInv'
<1>1. \A s : Stored(s)' = Stored(s)
  BY DEF Stored
<1> QED
  BY <1>1 DEF WholeInv, Disk

(* _maybe_rebridge: with a row stored, bridge is skipped only at its target.*)
LEMMA WholeRebridge ==
  ASSUME IInv, OrderInv, WholeInv, NewestHasAll, NEW s \in Trades, Rebridge(s)
  PROVE  WholeInv'
<1>1. UNCHANGED <<rdb, hdb>>
  BY DEF Rebridge, storeVars
<1>2. s \in Streams
  BY DEF Streams
<1>3. MaxStoredId(s) = Top(s)
  BY <1>2, MaxStoredIsTop DEF IInv, TypeOK, OrderInv
<1>4. 1 \in Stored(s)
  BY StoredIs DEF WholeInv
<1>5. Top(s) # None
  BY <1>2, <1>4, TopBounds DEF None
<1>6. mode' = "bridged" /\ br'.target # None => br'.next >= br'.target
  BY <1>3, <1>5 DEF Rebridge, StartBridge, BridgeOver
<1>7. \A t : Stored(t)' = Stored(t)
  BY <1>1 DEF Stored
<1> QED
  BY <1>1, <1>6, <1>7 DEF WholeInv, Disk

(* A short page below its target has everything up to the target, if REST   *)
(* is not behind the stream.                                                *)
LEMMA ShortPageEnds ==
  ASSUME NEW next \in Nat, next >= 1, NEW target \in Ids, NEW tip \in Ids, target <= tip,
         NEW ids, ids = {i \in Ids : /\ next <= i /\ i < next + Page /\ i <= tip /\ i < target},
         Cardinality(ids) < Page
  PROVE  IF ids = {} THEN next >= target ELSE Max(ids) + 1 >= target
<1>typed. /\ Page \in Nat /\ Page >= 1 /\ MaxId \in Nat /\ target \in Nat /\ tip \in Nat
          /\ target <= MaxId /\ tip <= MaxId
  BY SizesAssumption, BoundsAssumption DEF Ids
<1>1. next + Page > target
  <2> SUFFICES ASSUME next + Page <= target PROVE FALSE
    BY <1>typed
  <2>1. PICK last \in Int : last = next + Page - 1
    BY <1>typed
  <2>2. ids = next .. last
    <3>1. ids \subseteq next .. last
      BY <1>typed, <2>1 DEF Ids
    <3>2. next .. last \subseteq ids
      BY <1>typed, <2>1 DEF Ids
    <3> QED
      BY <3>1, <3>2
  <2>3. Cardinality(next .. last) = (IF next > last THEN 0 ELSE last - next + 1)
    <3>1. next \in Int
      OBVIOUS
    <3> QED
      BY <2>1, <3>1, FS_Interval
  <2>4. Cardinality(next .. last) = Page
    BY <1>typed, <2>1, <2>3
  <2>5. Cardinality(ids) = Page
    BY <2>2, <2>4
  <2> QED
    BY <1>typed, <2>5
<1>2. CASE ids = {}
  <2>1. ~ (next < target)
    <3> SUFFICES ASSUME next < target PROVE FALSE
      OBVIOUS
    <3>1. next \in ids
      BY <1>typed DEF Ids
    <3> QED
      BY <1>2, <3>1
  <2>2. next >= target
    BY <1>typed, <2>1
  <2> QED
    BY <1>2, <2>2
<1>3. CASE ids # {}
  <2>1. ids \in SUBSET (0 .. MaxId)
    BY <1>typed DEF Ids
  <2>2. PICK m \in ids : m = Max(ids) /\ \A y \in ids : y <= m
    BY <1>3, <1>typed, <2>1, MaxOfBounded
  <2>3. next < target
    BY <1>3, <1>typed DEF Ids
  <2>4. target - 1 \in ids
    BY <1>1, <1>typed, <2>3 DEF Ids
  <2>5. target - 1 <= m /\ m \in Nat
    BY <2>1, <2>2, <2>4
  <2> QED
    BY <1>3, <1>typed, <2>2, <2>5
<1> QED
  BY <1>2, <1>3

LEMMA WholeBridgePage ==
  ASSUME IInv, DatesInv, OrderInv, FlowInv, WholeInv, RestLag = 0, BridgePage,
         NEW s \in Streams, s = br.sym
  PROVE  WholeInv'
<1>1. /\ br \in [sym : Trades, target : Ids \cup {None}, next : Nat] /\ s \in Trades
      /\ mode = "bridge" /\ UNCHANGED <<hdb, batch, lastId, published>>
  BY DEF IInv, BridgeTyped, BridgePage
<1>2. br.next = Top(s) + 1
  BY <1>1 DEF OrderInv, FloorsInv, Bridging
<1>3. PICK tip \in RestTips(s) : Stored(s)' = Stored(s) \cup Wanted(tip)
  BY OrderBridgePage
<1>4. \A t \in Streams : t # s => Stored(t)' = Stored(t)
  BY OrderBridgePage
<1>5. FromOne(Stored(s) \cup Wanted(tip))
  <2>1. PICK N : N = Wanted(tip)
    OBVIOUS
  <2>2. N \in SUBSET Ids /\ \A i \in N : Top(s) + 1 .. i \subseteq N
    <3> SUFFICES ASSUME NEW i \in N, NEW k \in Top(s) + 1 .. i PROVE k \in N
      BY <2>1 DEF Wanted
    <3>1. /\ i \in Ids /\ br.next <= i /\ i < br.next + Page /\ i <= tip
          /\ br.target # None => i < br.target
      BY <2>1 DEF Wanted
    <3>2. Top(s) \in Nat /\ Page \in Nat /\ tip \in Int /\ MaxId \in Nat
          /\ br.target \in Nat /\ br.next \in Nat
      BY <1>1, TopBounds, SizesAssumption, BoundsAssumption DEF RestTips, Ids, None
    <3>3. k \in Ids /\ br.next <= k /\ k <= i
      BY <1>2, <3>1, <3>2 DEF Ids
    <3> QED
      BY <2>1, <3>1, <3>2, <3>3 DEF Wanted, Ids
  <2>3. Stored(s) \in SUBSET Ids /\ FromOne(Stored(s))
    BY <1>1, RowsAreIds DEF WholeInv
  <2> QED
    BY <2>1, <2>2, <2>3, FromOneMore DEF Top
<1>6. ASSUME mode' = "bridged", br'.target # None
      PROVE  br'.next >= br'.target
  <2>1. PICK t \in RestTips(s) :
            /\ IF Wanted(t) = {}
               THEN br'.next = br.next
               ELSE br'.next = Max(Wanted(t)) + 1
            /\ br'.sym = br.sym /\ br'.target = br.target
            /\ mode' = IF ShortPage(Wanted(t)) \/ BridgeOver(br'.next, br.target)
                       THEN "bridged" ELSE "bridge"
    BY PageRows
  <2>2. br.target \in Ids /\ br.target # None /\ Rebridging
    BY <1>1, <1>6, <2>1 DEF Rebridging
  <2>3. CASE BridgeOver(br'.next, br.target)
    BY <2>1, <2>3 DEF BridgeOver
  <2>4. CASE ShortPage(Wanted(t))
    <3>1. br.target \in IdsIn(OnWay, s)
      <4>1. br.target \in Group(s)
        BY <2>2 DEF FlowInv, Phases
      <4>2. br.target \in IdsIn(batch, s)
        BY <4>1, GroupIs DEF IInv
      <4> QED
        BY <4>2 DEF IdsIn, OnWay, InHand
    <3>2. br.target <= published[s] /\ published[s] \in Nat /\ br.target \in Nat
      BY <3>1, OnWayIds DEF IInv
    <3>3. t \in Ids /\ br.target <= t
      BY <3>2 DEF RestTips, Ids
    <3>4. br.next \in Nat /\ br.next >= 1
      BY <1>1, <1>2, TopBounds
    <3>5. PICK ids : ids = Wanted(t)
      OBVIOUS
    <3>6. PICK target : target = br.target
      OBVIOUS
    <3>7. PICK next : next = br.next
      OBVIOUS
    <3>8. ids = {i \in Ids : /\ next <= i /\ i < next + Page /\ i <= t /\ i < target}
      BY <2>2, <3>5, <3>6, <3>7 DEF Wanted
    <3>9. Cardinality(ids) < Page
      BY <2>4, <3>5 DEF ShortPage
    <3>10. IF ids = {} THEN next >= target ELSE Max(ids) + 1 >= target
      BY <2>2, <3>3, <3>4, <3>6, <3>7, <3>8, <3>9, ShortPageEnds
    <3> QED
      BY <2>1, <3>5, <3>6, <3>7, <3>10
  <2> QED
    BY <1>6, <2>1, <2>3, <2>4
<1>7. \A t \in Trades : t # s => Stored(t)' = Stored(t)
  BY <1>4 DEF Streams
<1>8. \A t \in Trades : FromOne(Stored(t)')
  BY <1>3, <1>5, <1>7 DEF WholeInv
<1>9. \A t \in Trades : 1 \in Disk(hdb', t) /\ FromOne(Disk(hdb', t))
  BY <1>1 DEF WholeInv
<1> QED
  BY <1>6, <1>8, <1>9 DEF WholeInv

(* A group is one run of ids.                                               *)
LEMMA GroupConvex ==
  ASSUME TypeOK, FlowInv, NEW s \in Trades
  PROVE  /\ Convex(Group(s)) /\ Group(s) \subseteq Ids
         /\ IdsIn(InHand, s) = Group(s) \cup IdsIn(Msgs(queue), s)
         /\ \A i \in Group(s) : \A j \in IdsIn(Msgs(queue), s) : i < j
<1> DEFINE Q == IdsIn(Msgs(queue), s)
<1>1. s \in Streams /\ Group(s) = IdsIn(batch, s)
  BY GroupIs DEF Streams
<1>2. PICK G : G = Group(s)
  OBVIOUS
<1>3. IdsIn(InHand, s) = G \cup Q /\ G \subseteq Ids /\ Q \subseteq Ids
  BY <1>1, <1>2 DEF InHand, IdsIn
<1>4. \A i \in G : \A j \in Q : i < j
  <2>1. \A x \in batch : \A y \in Msgs(queue) : <<x, y>> \in IdRel
    BY DEF FlowInv, InIdOrder
  <2> QED
    BY <1>1, <1>2, <2>1, IdsBefore
<1>5. Convex(G \cup Q)
  BY <1>3 DEF FlowInv, Unbroken
<1> HIDE DEF Q
<1>6. Convex(G)
  <2> SUFFICES ASSUME NEW i \in G, NEW j \in G, NEW k \in i .. j PROVE k \in G
    BY DEF Convex
  <2>1. k \in G \cup Q
    BY <1>5 DEF Convex
  <2>2. k \in Q => j < k
    BY <1>4
  <2>3. i \in Int /\ j \in Int /\ k \in Int /\ k <= j
    BY <1>3 DEF Ids
  <2> QED
    BY <2>1, <2>2, <2>3
<1> QED
  BY <1>2, <1>3, <1>4, <1>6 DEF Q

(* The new records of a group continue the floor.                           *)
FreshContinues(s) ==
    \A i \in Fresh(Group(s), Top(s)) : Top(s) + 1 .. i \subseteq Fresh(Group(s), Top(s))

(* They do when one of them is, or precedes, the row after the floor,       *)
LEMMA FreshFrom ==
  ASSUME TypeOK, FlowInv, NEW s \in Trades, NEW g \in Group(s), g <= Top(s) + 1
  PROVE  FreshContinues(s)
<1>1. Convex(Group(s)) /\ Group(s) \subseteq Ids /\ s \in Streams
  BY GroupConvex DEF Streams
<1>2. PICK top : top = Top(s) /\ top \in Nat
  BY <1>1, TopBounds
<1>3. ASSUME NEW i \in Group(s), i > top, NEW k \in top + 1 .. i
      PROVE  k \in Group(s) /\ k > top
  <2>1. i \in Nat /\ g \in Nat /\ k \in Int /\ top + 1 <= k /\ k <= i /\ g <= top + 1
    BY <1>1, <1>2, <1>3 DEF Ids
  <2>2. k \in g .. i
    BY <1>2, <2>1
  <2> QED
    BY <1>1, <1>2, <2>1, <2>2 DEF Convex
<1> QED
  BY <1>2, <1>3 DEF FreshContinues, Fresh

(* and they do when the symbol's flag is down.                              *)
LEMMA FreshUnflagged ==
  ASSUME TypeOK, DatesInv, FlowInv, NEW s \in Trades \ pendingRebridge, Live, lastId[s] = Top(s)
  PROVE  FreshContinues(s)
<1>1. s \in Streams /\ Continues(s)
  BY DEF FlowInv, Streams
<1> DEFINE Q == IdsIn(Msgs(queue), s)
           W == IdsIn(Msgs(backlog), s)
           O == IdsIn(OnWay, s)
           H == IdsIn(InHand, s)
<1>2. PICK G : G = Group(s)
  OBVIOUS
<1>3. H = G \cup Q /\ G \subseteq Ids /\ \A i \in G : \A j \in Q : i < j
  BY <1>2, GroupConvex
<1>4. O = H \cup W /\ published[s] \in Nat /\ \A i \in O : i \in Nat /\ i <= published[s]
  BY <1>1, OnWayIds
<1>5. \A i \in H : \A j \in W : i <= j
  BY DEF FlowInv, InIdOrder
<1>6. PICK top : top = Top(s) /\ top \in Nat
  BY <1>1, TopBounds
<1>7. IF subscribed THEN top + 1 .. published[s] \subseteq O
      ELSE \A i \in H : top + 1 .. i \subseteq H
  BY <1>1, <1>6 DEF Continues
<1> HIDE DEF Q, W, O, H
<1>8. ASSUME NEW i \in G, i > top, NEW k \in top + 1 .. i
      PROVE  k \in G /\ k > top
  <2>1. i \in Nat /\ k \in Int /\ top + 1 <= k /\ k <= i /\ i <= published[s] /\ i \in H /\ k > top
    BY <1>3, <1>4, <1>6, <1>8 DEF Ids
  <2>2. k \in O
    <3>1. CASE subscribed
      <4>1. k \in top + 1 .. published[s]
        BY <1>4, <1>6, <2>1
      <4> QED
        BY <1>7, <3>1, <4>1
    <3>2. CASE ~ subscribed
      BY <1>4, <1>7, <2>1, <3>2
    <3> QED
      BY <3>1, <3>2
  <2>3. k \in Q => i < k
    BY <1>3
  <2>4. k \in W => i <= k
    BY <1>5, <2>1
  <2>5. k \in W => k = i
    BY <2>1, <2>4
  <2> QED
    BY <1>3, <1>4, <2>1, <2>2, <2>3, <2>5
<1> QED
  BY <1>2, <1>6, <1>8 DEF FreshContinues, Fresh

LEMMA WholeApply ==
  ASSUME IInv, DatesInv, OrderInv, WholeInv, NEW s \in Streams, ApplyGroup(s, Top(s)),
         s \in Trades => FreshContinues(s), mode' = "live"
  PROVE  WholeInv'
<1> DEFINE fresh == Fresh(Group(s), Top(s))
<1>typed. TypeOK
  BY DEF IInv
<1>1. /\ Stored(s)' = Stored(s) \cup fresh
      /\ \A t \in Streams : t # s => Stored(t)' = Stored(t)
      /\ \/ \A t \in Streams : Disk(hdb', t) = Disk(hdb, t)
         \/ \A t \in Streams : Disk(hdb', t) = Stored(t)
  BY ApplyStored DEF OrderInv
<1>2. fresh \in SUBSET Ids
  BY <1>typed, FreshIds
<1>3. s \in Trades => \A i \in fresh : Top(s) + 1 .. i \subseteq fresh
  BY DEF FreshContinues
<1> HIDE DEF fresh
<1>4. s \in Trades => FromOne(Stored(s) \cup fresh)
  <2>1. Stored(s) \in SUBSET Ids
    BY RowsAreIds
  <2> QED
    BY <1>2, <1>3, <2>1, FromOneMore DEF WholeInv, Top
<1>5. \A t \in Trades : FromOne(Stored(t)')
  BY <1>1, <1>4 DEF WholeInv, Streams
<1>6. \A t \in Trades : 1 \in Disk(hdb', t) /\ FromOne(Disk(hdb', t))
  <2>1. \A t \in Trades : t \in Streams /\ 1 \in Stored(t)
    BY StoredIs DEF WholeInv, Streams
  <2> QED
    BY <1>1, <2>1 DEF WholeInv
<1> QED
  BY <1>5, <1>6 DEF WholeInv

LEMMA WholeCrash ==
  ASSUME WholeInv, Crash
  PROVE  WholeInv' /\ (\A s \in Trades : Stored(s)' = Disk(hdb, s)) /\ hdb' = hdb
<1>1. rdb' = EmptyTables /\ hdb' = hdb /\ mode' = "startup"
  BY DEF Crash, LoseMemory, Dead
<1>2. \A s \in Trades : Stored(s)' = Disk(hdb, s)
  <2> TAKE s \in Trades
  <2>1. RowIds(rdb'[s]) = {}
    BY <1>1, EmptyTablesType DEF Streams
  <2> QED
    BY <1>1, <2>1 DEF Stored, Disk
<1> QED
  BY <1>1, <1>2 DEF WholeInv

(* What a step does to the store of trades: it leaves it alone, or one      *)
(* stream gets new rows at its end, the rows of before going to the disk or *)
(* not, or the process dies.                                                *)
StoreStep ==
    \/ \E s \in Streams :
          /\ Stored(s) \subseteq Stored(s)'
          /\ \A t \in Streams : t # s => Stored(t)' = Stored(t)
          /\ \/ \A t \in Streams : Disk(hdb', t) = Disk(hdb, t)
             \/ \A t \in Streams : Disk(hdb', t) = Stored(t)
    \/ \A t \in Trades : Stored(t)' = Disk(hdb, t) /\ Disk(hdb', t) = Disk(hdb, t)
    \/ UNCHANGED <<rdb, hdb>>

LEMMA WholeStep ==
  ASSUME IInv, DatesInv, OrderInv, FlowInv, WholeInv, NewestHasAll, RestLag = 0,
         MaxStops = 0, [Next]_vars
  PROVE  WholeInv' /\ StoreStep
<1>1. CASE \/ \E s \in Streams : Publish(s)
           \/ Connect \/ Deliver \/ DeliverAckLost \/ LinkLoss \/ SessionLoss
           \/ Drain \/ UNCHANGED vars
  <2>1. UNCHANGED <<rdb, hdb, mode, br>>
    BY <1>1 DEF Publish, Connect, Deliver, DeliverAckLost, LinkLoss, SessionLoss, Drain,
                storeVars, mainVars, vars
  <2> QED
    BY <2>1, WholeSame DEF StoreStep
<1>2. CASE GoLive \/ StartupBridged
  <2>1. UNCHANGED <<rdb, hdb>> /\ mode' # "bridged"
    BY <1>2 DEF GoLive, StartupBridged, storeVars
  <2> QED
    BY <2>1, WholeSame DEF StoreStep
<1>3. CASE \E s \in Trades : StartupBridge(s)
  <2>1. UNCHANGED <<rdb, hdb>> /\ br'.target = None
    BY <1>3 DEF StartupBridge, StartBridge, storeVars
  <2> QED
    BY <2>1, WholeSame DEF StoreStep
<1>4. CASE \E s \in Trades : Rebridge(s)
  <2>1. UNCHANGED <<rdb, hdb>>
    BY <1>4 DEF Rebridge, storeVars
  <2> QED
    BY <1>4, <2>1, WholeRebridge DEF StoreStep
<1>5. CASE BridgePage
  <2>1. PICK s \in Streams : s = br.sym
    BY <1>5 DEF IInv, BridgeTyped, BridgePage, Streams
  <2>2. hdb' = hdb
    BY <1>5 DEF BridgePage
  <2>3. /\ Stored(s) \subseteq Stored(s)'
        /\ \A t \in Streams : t # s => Stored(t)' = Stored(t)
    BY <1>5, <2>1, OrderBridgePage
  <2>4. WholeInv'
    BY <1>5, <2>1, WholeBridgePage
  <2> QED
    BY <2>2, <2>3, <2>4 DEF StoreStep
<1>6. ASSUME NEW s \in Streams, ApplyGroup(s, Top(s)), mode' = "live",
             s \in Trades => FreshContinues(s)
      PROVE  WholeInv' /\ StoreStep
  <2>1. /\ Stored(s) \subseteq Stored(s)'
        /\ \A t \in Streams : t # s => Stored(t)' = Stored(t)
        /\ \/ \A t \in Streams : Disk(hdb', t) = Disk(hdb, t)
           \/ \A t \in Streams : Disk(hdb', t) = Stored(t)
    BY <1>6, ApplyStored DEF OrderInv
  <2>2. WholeInv'
    BY <1>6, WholeApply
  <2> QED
    BY <2>1, <2>2 DEF StoreStep
<1>7. CASE Rebridged
  <2>1. br.sym \in Trades /\ br.sym \in Streams /\ Rebridging /\ mode' = "live" /\ mode = "bridged"
    BY <1>7 DEF IInv, BridgeTyped, Rebridged, Streams, Rebridging
  <2>2. MaxStoredId(br.sym) = Top(br.sym)
    BY <2>1, MaxStoredIsTop DEF IInv, TypeOK, OrderInv
  <2>3. PICK s \in Trades : s = br.sym
    BY <2>1
  <2>4. ApplyGroup(s, Top(s))
    BY <1>7, <2>2, <2>3 DEF Rebridged
  <2>5. br.target \in Group(s) /\ br.target <= br.next
    <3>1. br.target \in Group(s)
      BY <2>1, <2>3 DEF FlowInv, Phases
    <3>2. br.next >= br.target
      BY <2>1 DEF WholeInv, Rebridging
    <3>3. br.next \in Int /\ br.target \in Int
      BY <2>1 DEF IInv, BridgeTyped, Ids, None
    <3> QED
      BY <3>1, <3>2, <3>3
  <2>6. br.next = Top(s) + 1
    BY <2>1, <2>3 DEF OrderInv, FloorsInv, Bridging
  <2>7. FreshContinues(s)
    BY <2>3, <2>5, <2>6, FreshFrom DEF IInv
  <2> QED
    BY <1>6, <2>1, <2>3, <2>4, <2>7
<1>8. ASSUME NEW s \in Trades, ApplyTrades(s)
      PROVE  WholeInv' /\ StoreStep
  <2>1. mode = "live" /\ mode' = "live" /\ ApplyGroup(s, lastId[s]) /\ s \in Streams
    BY <1>8 DEF ApplyTrades, Streams
  <2>2. lastId[s] = Top(s) /\ Live
    BY <2>1 DEF OrderInv, FloorsInv, Known, Bridging, Live
  <2>3. CASE s \notin pendingRebridge
    <3>1. FreshContinues(s)
      BY <2>2, <2>3, FreshUnflagged DEF IInv
    <3> QED
      BY <1>6, <2>1, <2>2, <3>1
  <2>4. CASE ~ GapBefore(s)
    <3>1. PICK new : new = Fresh(Group(s), lastId[s])
      OBVIOUS
    <3>2. Top(s) # None
      <4>1. 1 \in Stored(s)
        BY StoredIs DEF WholeInv
      <4> QED
        BY <2>1, <4>1, TopBounds DEF None
    <3>3. CASE new = {}
      <4>1. FreshContinues(s)
        BY <2>2, <3>1, <3>3 DEF FreshContinues
      <4> QED
        BY <1>6, <2>1, <2>2, <4>1
    <3>4. CASE new # {}
      <4>1. ~ (Min(new) > Top(s) + 1)
        BY <2>2, <2>4, <3>1, <3>2, <3>4 DEF GapBefore
      <4>2. new \in SUBSET Ids /\ new \subseteq Group(s)
        BY <2>1, <3>1, FreshIds DEF IInv, Fresh
      <4>3. new \in SUBSET Nat
        BY <4>2 DEF Ids
      <4>4. PICK g \in new : g = Min(new)
        BY <3>4, <4>3, MinIsLeast
      <4>5. g <= Top(s) + 1
        BY <2>1, <4>1, <4>3, <4>4, TopBounds
      <4>6. FreshContinues(s)
        BY <4>2, <4>4, <4>5, FreshFrom DEF IInv
      <4> QED
        BY <1>6, <2>1, <2>2, <4>6
    <3> QED
      BY <3>3, <3>4
  <2> QED
    BY <1>8, <2>3, <2>4 DEF ApplyTrades
<1>9. ASSUME NEW s \in Quotes, ApplyQuotes(s)
      PROVE  WholeInv' /\ StoreStep
  <2>1. mode = "live" /\ mode' = "live" /\ ApplyGroup(s, lastId[s]) /\ s \in Streams /\ s \notin Trades
    BY <1>9, StreamsAssumption DEF ApplyQuotes, Streams
  <2>2. lastId[s] = Top(s)
    BY <2>1 DEF OrderInv, FloorsInv, Known, Bridging
  <2> QED
    BY <1>6, <2>1, <2>2
<1>10. CASE Stop \/ Crash \/ Restart
  BY <1>10, NoStop, WholeCrash DEF Restart, DatesInv, StoreStep
<1> QED
  BY <1>1, <1>2, <1>3, <1>4, <1>5, <1>7, <1>8, <1>9, <1>10 DEF Next, Main

LEMMA AlwaysWhole ==
  Undisturbed /\ QuietReconnect /\ RestLag = 0 =>
    (Spec /\ []NewestHasAll /\ []NoOverflow
       => [](IInv /\ DatesInv /\ OrderInv /\ FlowInv /\ WholeInv))
<1> SUFFICES ASSUME Undisturbed, QuietReconnect, RestLag = 0
             PROVE  Spec /\ []NewestHasAll /\ []NoOverflow
                      => [](IInv /\ DatesInv /\ OrderInv /\ FlowInv /\ WholeInv)
  OBVIOUS
<1> DEFINE Inv == IInv /\ DatesInv /\ OrderInv /\ FlowInv
<1>1. Init => WholeInv
  BY WholeInit
<1>2. Inv /\ WholeInv /\ NewestHasAll /\ [Next]_vars => WholeInv'
  BY WholeStep DEF Undisturbed
<1>3. Spec /\ []NewestHasAll /\ []NoOverflow => []Inv
  BY AlwaysFlowing
<1> HIDE DEF Inv
<1>4. Spec /\ []NewestHasAll /\ []NoOverflow => [](Inv /\ WholeInv)
  BY <1>1, <1>2, <1>3, PTL DEF Spec
<1> QED
  BY <1>4 DEF Inv

(* The trades of a symbol have no hole below the newest stored one, however *)
(* the link breaks, the session is lost, the process crashes, pages and     *)
(* days end, and batches are cut.                                           *)
THEOREM AlwaysGapFree ==
  Undisturbed /\ QuietReconnect /\ RestLag = 0 =>
    (Spec /\ []NewestHasAll /\ []NoOverflow => []GapFree)
<1>1. WholeInv => GapFree
  BY DEF WholeInv, FromOne, GapFree
<1> QED
  BY <1>1, AlwaysWhole, PTL

-----------------------------------------------------------------------------
(* The abstract log.                                                        *)

LEMMA PrefixIs ==
  ASSUME NEW S \in SUBSET Ids, FromOne(S), 1 \in S
  PROVE  /\ PrefixLength(S) = LastOf(S) /\ LastOf(S) \in Nat /\ LastOf(S) \in S
         /\ S = 1 .. LastOf(S)
<1>1. S \in SUBSET (0 .. MaxId) /\ MaxId \in Nat
  BY BoundsAssumption DEF Ids
<1>2. LastOf(S) \in S /\ \A y \in S : y <= LastOf(S)
  BY <1>1, MaxOfBounded DEF LastOf
<1>3. S \subseteq 1 .. LastOf(S)
  BY <1>1, <1>2 DEF Ids
<1>4. 1 .. LastOf(S) \subseteq S
  BY <1>2 DEF FromOne
<1>5. S = 1 .. LastOf(S)
  BY <1>3, <1>4
<1>6. LastOf(S) \in Nat
  <2>1. LastOf(S) \in 0 .. MaxId
    BY <1>1, <1>2
  <2> QED
    BY <1>1, <2>1
<1>7. PrefixLength(S) = LastOf(S)
  BY <1>5 DEF PrefixLength
<1> QED
  BY <1>2, <1>5, <1>6, <1>7

High  == [s \in Trades |-> PrefixLength(Stored(s))]
Saved == [s \in Trades |-> PrefixLength(UNION {RowIds(hdb[d][s]) : d \in Days})]

LEMMA LogValues ==
  ASSUME WholeInv
  PROVE  \A s \in Trades : High[s] = Top(s) /\ High[s] \in Nat /\ Saved[s] = PrefixLength(Disk(hdb, s))
<1> TAKE s \in Trades
<1>1. Stored(s) \in SUBSET Ids /\ 1 \in Stored(s) /\ FromOne(Stored(s))
  BY RowsAreIds, StoredIs DEF WholeInv
<1>2. PrefixLength(Stored(s)) = LastOf(Stored(s)) /\ LastOf(Stored(s)) \in Nat
  BY <1>1, PrefixIs
<1> QED
  BY <1>2 DEF High, Saved, Top, Disk

LEMMA LogInit ==
  ASSUME Init
  PROVE  Log!Init
<1>1. WholeInv
  BY WholeInit
<1>2. \A s \in Trades : Stored(s) = Disk(hdb, s)
  BY EmptyTablesType, StoredIs DEF Init, Streams
<1>3. \A s \in Trades : High[s] \in Nat /\ Saved[s] = High[s]
  BY <1>1, <1>2, LogValues DEF High
<1> QED
  BY <1>3 DEF High, Saved, Log!Init

LEMMA LogStep ==
  ASSUME WholeInv, WholeInv', StoreStep
  PROVE  [Log!Next]_<<High, Saved>>
<1>1. High' = [s \in Trades |-> PrefixLength(Stored(s)')]
  BY DEF High
<1>2. Saved' = [s \in Trades |-> PrefixLength(Disk(hdb', s))]
      /\ Saved = [s \in Trades |-> PrefixLength(Disk(hdb, s))]
  BY DEF Saved, Disk
<1>3. CASE UNCHANGED <<rdb, hdb>>
  <2>1. \A s : Stored(s)' = Stored(s)
    BY <1>3 DEF Stored
  <2> QED
    BY <1>1, <1>2, <1>3, <2>1 DEF High
<1>4. CASE \A t \in Trades : Stored(t)' = Disk(hdb, t) /\ Disk(hdb', t) = Disk(hdb, t)
  <2>1. High' = Saved /\ Saved' = Saved
    BY <1>1, <1>2, <1>4
  <2> QED
    BY <2>1 DEF Log!Next, Log!Recover, High, Saved
<1>5. ASSUME NEW s \in Streams, Stored(s) \subseteq Stored(s)',
             \A t \in Streams : t # s => Stored(t)' = Stored(t),
             \/ \A t \in Streams : Disk(hdb', t) = Disk(hdb, t)
             \/ \A t \in Streams : Disk(hdb', t) = Stored(t)
      PROVE  [Log!Next]_<<High, Saved>>
  <2>1. Saved' = Saved \/ Saved' = High
    BY <1>2, <1>5 DEF High, Streams
  <2>2. CASE High' = High
    BY <2>1, <2>2 DEF Log!Next, Log!Save, High, Saved
  <2>3. CASE High' # High
    <3>1. s \in Trades /\ Stored(s)' # Stored(s)
      BY <1>1, <1>5, <2>3 DEF High, Streams
    <3>2. High' = [High EXCEPT ![s] = High'[s]]
      BY <1>1, <1>5, <3>1 DEF High, Streams
    <3>3. High'[s] \in Nat /\ High'[s] > High[s]
      <4>1. /\ Stored(s) = 1 .. Top(s) /\ Top(s) \in Nat /\ Top(s) \in Stored(s)
            /\ High[s] = Top(s)
        <5>1. Stored(s) \in SUBSET Ids /\ 1 \in Stored(s) /\ FromOne(Stored(s))
          BY <3>1, RowsAreIds, StoredIs DEF WholeInv
        <5> QED
          BY <3>1, <5>1, PrefixIs DEF High, Top
      <4>2. PICK S : S = Stored(s)'
        OBVIOUS
      <4>3. S \in SUBSET Ids /\ 1 \in S /\ FromOne(S)
        BY <1>5, <3>1, <4>1, <4>2, StoredIs DEF WholeInv, Stored, RowIds
      <4>4. /\ S = 1 .. LastOf(S) /\ LastOf(S) \in Nat /\ LastOf(S) \in S
            /\ PrefixLength(S) = LastOf(S)
        BY <4>3, PrefixIs
      <4>5. High'[s] = LastOf(S)
        BY <1>1, <3>1, <4>2, <4>4
      <4>6. LastOf(S) # Top(s)
        BY <3>1, <4>1, <4>2, <4>4
      <4>7. Top(s) \in 1 .. LastOf(S)
        BY <1>5, <4>1, <4>2, <4>4
      <4> QED
        BY <4>1, <4>4, <4>5, <4>6, <4>7
    <3> QED
      BY <2>1, <3>1, <3>2, <3>3 DEF Log!Next, Log!Extend, High, Saved
  <2> QED
    BY <2>2, <2>3
<1> QED
  BY <1>3, <1>4, <1>5 DEF StoreStep

(* The store of the running writer implements the log of TradeLog: every    *)
(* page, batch and rollover extends the log at its end or makes it durable, *)
(* and a death falls back to the durable prefix and never behind it.        *)
THEOREM StoreImplementsLog ==
  Undisturbed /\ QuietReconnect /\ RestLag = 0 =>
    (Spec /\ []NewestHasAll /\ []NoOverflow => ImplementsTradeLog)
<1> SUFFICES ASSUME Undisturbed, QuietReconnect, RestLag = 0
             PROVE  Spec /\ []NewestHasAll /\ []NoOverflow => ImplementsTradeLog
  OBVIOUS
<1> DEFINE Inv == IInv /\ DatesInv /\ OrderInv /\ FlowInv /\ WholeInv
<1>1. Init => Log!Init
  BY LogInit
<1>2. Inv /\ Inv' /\ NewestHasAll /\ [Next]_vars => [Log!Next]_(Log!logVars)
  <2> SUFFICES ASSUME Inv, Inv', NewestHasAll, [Next]_vars
               PROVE  [Log!Next]_(Log!logVars)
    OBVIOUS
  <2>1. StoreStep
    BY WholeStep DEF Undisturbed
  <2>2. [Log!Next]_<<High, Saved>>
    BY <2>1, LogStep
  <2> QED
    BY <2>2 DEF High, Saved, Log!logVars
<1>3. Spec /\ []NewestHasAll /\ []NoOverflow => []Inv
  BY AlwaysWhole
<1> HIDE DEF Inv
<1>4. Spec /\ []NewestHasAll /\ []NoOverflow => Log!Init /\ [][Log!Next]_(Log!logVars)
  BY <1>1, <1>2, <1>3, PTL DEF Spec
<1> QED
  BY <1>4 DEF ImplementsTradeLog, Log!Spec

-----------------------------------------------------------------------------
(* With one symbol per table the newest partition always has its rows: the  *)
(* condition on _max_id holds by itself.                                    *)
OneSymbol ==
    /\ \A s, t \in Trades : s = t
    /\ \A s, t \in Quotes : s = t

LEMMA OneSymbolHasAll ==
  ASSUME OneSymbol
  PROVE  NewestHasAll
<1> SUFFICES ASSUME NEW s \in Streams, PartitionsOf(TableOf(s)) # {}
             PROVE  NewestPartitionIds(s) # {}
  BY DEF NewestHasAll
<1>1. PICK held : held = PartitionsOf(TableOf(s))
  OBVIOUS
<1>2. held \in SUBSET (0 .. MaxDay) /\ MaxDay \in Nat /\ held # {}
  BY <1>1, BoundsAssumption DEF PartitionsOf, Days
<1>3. PICK m \in held : m = Max(held)
  BY <1>2, MaxOfBounded
<1>4. PICK t \in TableOf(s) : RowIds(hdb[m][t]) # {}
  BY <1>1 DEF PartitionsOf, Nonempty
<1>5. t = s
  BY <1>4 DEF OneSymbol, TableOf, Streams
<1> QED
  BY <1>1, <1>2, <1>3, <1>4, <1>5 DEF NewestPartitionIds

(* For a writer of one symbol, as in the runs, nothing but the agreement of *)
(* the clocks and the absence of a stop is needed to keep a row from being  *)
(* stored twice.                                                            *)
THEOREM OneSymbolAtMostOnce ==
  Undisturbed /\ OneSymbol => (Spec => []AtMostOnce)
<1> SUFFICES ASSUME Undisturbed, OneSymbol PROVE Spec => []AtMostOnce
  OBVIOUS
<1>1. NewestHasAll
  BY OneSymbolHasAll
<1>2. Spec /\ []NewestHasAll => []AtMostOnce
  BY AlwaysAtMostOnce
<1> QED
  BY <1>1, <1>2, PTL
=============================================================================
