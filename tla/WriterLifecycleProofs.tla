----------------------- MODULE WriterLifecycleProofs -----------------------
(***************************************************************************)
(* Proofs about WriterLifecycle, for every number of symbols, rows and days *)
(* and every window, batch and lag of the archive, whatever faults happen.  *)
(* Three layers: the types, without a hypothesis; that what backfill wrote  *)
(* stays; and that no trade is in the partition of a day before its own.    *)
(* The last two hold when midnight falls into no start (QuietStartup) and   *)
(* no quote of an earlier day is still queued (OldQuotesKept = FALSE).      *)
(***************************************************************************)
EXTENDS WriterLifecycle, WellFoundedInduction, TLAPS

-----------------------------------------------------------------------------
(* Extrema of ids and of dates.                                              *)

LEMMA LeastExists ==
    ASSUME NEW S \in SUBSET Nat, S # {}
    PROVE  \E m \in S : \A y \in S : m <= y
<1> DEFINE Less == {p \in Nat \X Nat : p[1] < p[2]}
<1>1. IsWellFoundedOn(Less, Nat)
  BY NatLessThanWellFounded DEF OpToRel
<1> HIDE DEF Less
<1>2. PICK m \in S : \A y \in S : ~ (<<y, m>> \in Less)
  BY <1>1, WFMin
<1>3. ASSUME NEW y \in S
      PROVE  m <= y
  <2>1. m \in Nat /\ y \in Nat /\ ~ (<<y, m>> \in Less)
    BY <1>2
  <2>2. ~ (y < m)
    BY <2>1 DEF Less
  <2> QED BY <2>1, <2>2
<1> QED BY <1>3

LEMMA MinIs ==
    ASSUME NEW S \in SUBSET Nat, S # {}
    PROVE  Min(S) \in S /\ \A y \in S : Min(S) <= y
BY LeastExists DEF Min

LEMMA MaxIs ==
    ASSUME NEW n \in Nat, NEW S \in SUBSET (0 .. n), S # {}
    PROVE  Max(S) \in S /\ \A y \in S : y <= Max(S)
<1> DEFINE T == {n - x : x \in S}
<1>0. \A x \in S : x \in Nat /\ n - x \in Nat
  OBVIOUS
<1>1. T \in SUBSET Nat /\ T # {}
  BY <1>0
<1>2. PICK t \in T : \A y \in T : t <= y
  <2> HIDE DEF T
  <2> QED BY <1>1, LeastExists
<1>3. PICK m \in S : t = n - m
  BY <1>2
<1>4. ASSUME NEW y \in S
      PROVE  m >= y
  <2>1. n - y \in T
    OBVIOUS
  <2>2. n - m <= n - y
    BY <2>1, <1>2, <1>3
  <2> QED BY <2>2
<1>5. Max(S) \in S /\ \A y \in S : Max(S) >= y
  BY <1>4 DEF Max
<1> QED BY <1>5

LEMMA Numbers ==
    /\ MaxId \in Nat \ {0} /\ MaxDay \in Nat \ {0}
    /\ Ids \subseteq Nat /\ Days \subseteq Nat
    /\ Ids \in SUBSET (0 .. MaxId) /\ Days \in SUBSET (0 .. MaxDay)
    /\ None \notin Ids /\ None \notin Days
    /\ \A d \in Days : 1 <= d /\ d <= MaxDay
    /\ \A i \in Ids : 1 <= i /\ i <= MaxId
    /\ \A n \in Ids \cup {None} : n \in Nat /\ n \in 0 .. MaxId
    /\ \A d \in Days \cup {None} : d \in Nat
BY BoundsAssumption DEF Ids, Days, None

LEMMA DayOfTyped ==
    ASSUME NEW s \in Streams, NEW i \in Ids
    PROVE  DayOf[s][i] \in Days /\ DayOf[s][i] \in Nat
BY DayOfAssumption, Numbers

LEMMA DayOfMonotone ==
    ASSUME NEW s \in Streams, NEW i \in Ids, NEW j \in Ids, i <= j
    PROVE  DayOf[s][i] <= DayOf[s][j]
BY DayOfAssumption

LEMMA LastOfIs ==
    ASSUME NEW S \in SUBSET Ids
    PROVE  /\ LastOf(S) \in Ids \cup {None} /\ LastOf(S) \in Nat
           /\ S = {} <=> LastOf(S) = None
           /\ S # {} => LastOf(S) \in S
           /\ \A y \in S : y <= LastOf(S)
<1>1. CASE S = {}
  BY <1>1, Numbers DEF LastOf, None
<1>2. CASE S # {}
  <2>1. S \in SUBSET (0 .. MaxId) /\ MaxId \in Nat
    BY Numbers
  <2>2. Max(S) \in S /\ \A y \in S : y <= Max(S)
    BY <1>2, <2>1, MaxIs
  <2>3. LastOf(S) = Max(S)
    BY <1>2 DEF LastOf
  <2> QED BY <1>2, <2>2, <2>3, Numbers
<1> QED BY <1>1, <1>2

\* Rows of earlier days come before the others.
LEMMA BeforeIs ==
    ASSUME NEW s \in Streams, NEW d \in Days
    PROVE  /\ Before(s, d) \in Ids \cup {None} /\ Before(s, d) \in Nat
           /\ \A i \in Ids : DayOf[s][i] < d <=> i <= Before(s, d)
<1> DEFINE S == {i \in Ids : DayOf[s][i] < d}
<1>1. S \in SUBSET Ids /\ Before(s, d) = LastOf(S)
  BY DEF Before
<1>2. /\ LastOf(S) \in Ids \cup {None} /\ LastOf(S) \in Nat /\ (S = {} <=> LastOf(S) = None)
      /\ S # {} => LastOf(S) \in S
      /\ \A y \in S : y <= LastOf(S)
  BY <1>1, LastOfIs
<1>3. ASSUME NEW i \in Ids, i <= LastOf(S)
      PROVE  DayOf[s][i] < d
  <2>1. LastOf(S) # None
    BY <1>2, <1>3, Numbers DEF None
  <2>2. LastOf(S) \in Ids /\ DayOf[s][LastOf(S)] < d
    BY <1>2, <2>1
  <2>3. DayOf[s][i] <= DayOf[s][LastOf(S)]
    BY <1>3, <2>2, DayOfMonotone
  <2>4. DayOf[s][i] \in Nat /\ DayOf[s][LastOf(S)] \in Nat /\ d \in Nat
    BY <2>2, DayOfTyped, Numbers
  <2> HIDE DEF S
  <2> QED BY <2>2, <2>3, <2>4
<1> QED BY <1>1, <1>2, <1>3

-----------------------------------------------------------------------------
(* Tables.                                                                   *)

LEMMA TablesTyped ==
    /\ NoRows \in Table /\ EmptyTables \in [Streams -> Table]
    /\ \A s \in Streams : EmptyTables[s] = NoRows
BY DEF NoRows, Table, EmptyTables

LEMMA InsertedTyped ==
    ASSUME NEW r \in [Streams -> Table], NEW s \in Streams, NEW ids
    PROVE  /\ Inserted(r, s, ids) \in [Streams -> Table]
           /\ Inserted(r, s, ids)[s] = Appended(r[s], ids)
           /\ \A t \in Streams \ {s} : Inserted(r, s, ids)[t] = r[t]
<1>1. Appended(r[s], ids) \in Table
  BY DEF Appended, Table
<1> QED BY <1>1 DEF Inserted

LEMMA SavedDownTyped ==
    ASSUME rdb \in [Streams -> Table], hdb \in [Days -> [Streams -> Table]], NEW d \in Days
    PROVE  /\ SavedDown(d) \in [Days -> [Streams -> Table]]
           /\ \A e \in Days \ {d} : SavedDown(d)[e] = hdb[e]
           /\ \A s \in Streams :
                 SavedDown(d)[d][s] = IF Nonempty(rdb, TableOf(s)) THEN rdb[s] ELSE hdb[d][s]
BY DEF SavedDown

\* A part of a batch: a run of ids.
LEMMA RunIs ==
    ASSUME NEW a \in Ids, NEW b \in Ids, a <= b
    PROVE  a .. b \subseteq Ids /\ a \in a .. b /\ b \in a .. b /\ Max(a .. b) = b
<1>1. a .. b \subseteq Ids /\ a \in a .. b /\ b \in a .. b /\ a .. b \in SUBSET (0 .. MaxId)
  BY Numbers DEF Ids
<1>2. Max(a .. b) \in a .. b /\ b <= Max(a .. b)
  BY <1>1, MaxIs, Numbers
<1> QED BY <1>1, <1>2, Numbers

LEMMA FeedTyped ==
    ASSUME StoreTypeOK, NEW s \in Streams, NEW a \in Ids, NEW b \in Ids, a <= b, Feed(s, a .. b)
    PROVE  StoreTypeOK'
<1>1. Max(a .. b) = b /\ DayOf[s][b] \in Days
  BY RunIs, DayOfTyped
<1>2. /\ rdb \in [Streams -> Table] /\ hdb \in [Days -> [Streams -> Table]] /\ day \in Days \cup {None}
  BY DEF StoreTypeOK
<1>3. day' \in Days \cup {None}
  BY <1>1, <1>2 DEF Feed
<1>4. hdb' \in [Days -> [Streams -> Table]]
  BY <1>2, SavedDownTyped DEF Feed, Past
<1>5. rdb' \in [Streams -> Table]
  BY <1>2, TablesTyped, InsertedTyped DEF Feed
<1> QED BY <1>3, <1>4, <1>5 DEF StoreTypeOK

LEMMA MaxStoredTyped ==
    ASSUME StoreTypeOK, NEW s \in Streams
    PROVE  MaxStoredId(s) \in Ids \cup {None}
<1>1. RowIds(rdb[s]) \in SUBSET Ids /\ NewestPartitionIds(s) \in SUBSET Ids
  BY DEF RowIds, NewestPartitionIds
<1> QED BY <1>1, LastOfIs DEF MaxStoredId

\* What is still to come of a stream has been traded.
LEMMA UpcomingTyped ==
    ASSUME traded \in [Streams -> Ids \cup {None}], NEW s \in Streams
    PROVE  \A i \in Upcoming(s) : i \in Ids /\ i \in Nat /\ i <= traded[s]
<1>1. Upcoming(s) \subseteq 1 .. traded[s] /\ traded[s] \in Ids \cup {None}
  BY DEF Upcoming
<1>2. ASSUME NEW i \in 1 .. traded[s]
      PROVE  i \in Ids /\ i \in Nat /\ i <= traded[s]
  BY <1>1, <1>2, Numbers DEF Ids, None
<1> QED BY <1>1, <1>2

LEMMA RangeTyped ==
    ASSUME traded \in [Streams -> Ids \cup {None}], NEW s \in Streams, NEW b \in 1 .. traded[s]
    PROVE  b \in Ids /\ b <= traded[s]
<1>1. traded[s] \in Ids \cup {None}
  OBVIOUS
<1> QED BY <1>1, Numbers DEF Ids, None

LEMMA StraysTyped ==
    ASSUME traded \in [Streams -> Ids \cup {None}], strayed \in [Trades -> SUBSET Ids],
           strayed' = Strays
    PROVE  strayed' \in [Trades -> SUBSET Ids]
<1>1. ASSUME NEW t \in Trades, NEW d, NEW j \in Waiting(t, d)
      PROVE  j \in Ids
  <2>1. t \in Streams /\ traded[t] \in Ids \cup {None}
    BY DEF Streams
  <2>2. PICK i \in Upcoming(t) : j \in i .. traded[t]
    BY DEF Waiting
  <2>3. i \in Ids
    BY <2>1, UpcomingTyped
  <2> QED BY <2>1, <2>2, <2>3, Numbers DEF Ids, None
<1>2. \A t \in Trades : Waiting(t, day') \subseteq Ids
  BY <1>1
<1> QED BY <1>2 DEF Strays

-----------------------------------------------------------------------------
(* Types, and how time and the exchange go together: every row of an earlier  *)
(* day is traded, no row of a later one.                                      *)

World ==
    \A s \in Streams, i \in Ids :
        /\ DayOf[s][i] < today => i <= traded[s]
        /\ i <= traded[s] => DayOf[s][i] <= today

LEMMA TypesFacts ==
    ASSUME TypeOK
    PROVE  /\ StoreTypeOK
           /\ today \in Days /\ today \in Nat /\ archived \in Days \cup {None} /\ archived \in Nat
           /\ traded \in [Streams -> Ids \cup {None}] /\ \A s \in Streams : traded[s] \in Nat
           /\ delivered \in [Quotes -> Ids \cup {None}] /\ \A q \in Quotes : delivered[q] \in Nat
           /\ lastId \in [Trades -> Ids \cup {None}] /\ \A s \in Trades : lastId[s] \in Nat
           /\ plan \subseteq Days /\ existing \subseteq Days /\ filled \subseteq Days
           /\ todo \subseteq Trades /\ Trades \subseteq Streams /\ Quotes \subseteq Streams
<1>1. /\ StoreTypeOK /\ today \in Days /\ archived \in Days \cup {None}
      /\ traded \in [Streams -> Ids \cup {None}] /\ delivered \in [Quotes -> Ids \cup {None}]
      /\ lastId \in [Trades -> Ids \cup {None}]
      /\ plan \subseteq Days /\ existing \subseteq Days /\ filled \subseteq Days /\ todo \subseteq Trades
  BY DEF TypeOK
<1>2. /\ \A s \in Streams : traded[s] \in Ids \cup {None}
      /\ \A q \in Quotes : delivered[q] \in Ids \cup {None}
      /\ \A s \in Trades : lastId[s] \in Ids \cup {None}
  BY <1>1
<1>3. Trades \subseteq Streams /\ Quotes \subseteq Streams
  BY DEF Streams
<1> QED BY <1>1, <1>2, <1>3, Numbers

LEMMA InitTypes == Init => TypeOK /\ World
<1> SUFFICES ASSUME Init PROVE TypeOK /\ World
  OBVIOUS
<1> USE DEF Init
<1>1. FirstDay \in Days /\ today = FirstDay
  BY LifecycleAssumption
<1>2. /\ traded \in [Streams -> Ids \cup {None}]
      /\ \A s \in Streams : traded[s] = Before(s, FirstDay)
      /\ delivered \in [Quotes -> Ids \cup {None}]
      /\ \A q \in Quotes : delivered[q] <= traded[q]
  BY <1>1, BeforeIs DEF Streams
<1>3. archived \in Days \cup {None}
  BY <1>1, Numbers DEF Days, None
<1>4. StoreTypeOK
  BY TablesTyped DEF StoreTypeOK
<1>5. TypeOK
  BY <1>1, <1>2, <1>3, <1>4, Numbers DEF TypeOK, Phases, None
<1>6. World
  <2> SUFFICES ASSUME NEW s \in Streams, NEW i \in Ids
               PROVE  /\ DayOf[s][i] < today => i <= traded[s]
                      /\ i <= traded[s] => DayOf[s][i] <= today
    BY DEF World
  <2>1. (DayOf[s][i] < FirstDay <=> i <= traded[s]) /\ DayOf[s][i] \in Nat /\ FirstDay \in Nat
    BY <1>1, <1>2, BeforeIs, DayOfTyped, Numbers
  <2> QED BY <1>1, <2>1
<1> QED BY <1>5, <1>6

LEMMA WorldNext ==
    ASSUME TypeOK, World, [Next]_vars
    PROVE  /\ World' /\ today' \in Days /\ today <= today'
           /\ traded' \in [Streams -> Ids \cup {None}]
           /\ \A s \in Streams : traded[s] <= traded'[s]
<1>1. CASE UNCHANGED <<today, traded>>
  BY <1>1, TypesFacts DEF World
<1>2. CASE Midnight
  <2>1. /\ today' = today + 1 /\ traded' = traded /\ today < MaxDay
        /\ \A s \in Streams, i \in Ids : DayOf[s][i] = today => i <= traded[s]
    <3>1. \A s \in Streams, i \in Ids : DayOf[s][i] = today => i \in 1 .. traded[s]
      BY <1>2 DEF Midnight, MidnightNear, IdsOf
    <3> QED BY <1>2, <3>1, TypesFacts DEF Midnight, MidnightNear
  <2>2. today' \in Days
    BY <2>1, TypesFacts, Numbers DEF Days
  <2>3. ASSUME NEW s \in Streams, NEW i \in Ids
        PROVE  /\ DayOf[s][i] < today' => i <= traded'[s]
               /\ i <= traded'[s] => DayOf[s][i] <= today'
    <3>1. /\ DayOf[s][i] \in Nat /\ today \in Nat
          /\ DayOf[s][i] < today => i <= traded[s]
          /\ i <= traded[s] => DayOf[s][i] <= today
          /\ DayOf[s][i] = today => i <= traded[s]
      BY <2>1, TypesFacts, DayOfTyped DEF World
    <3> QED BY <2>1, <3>1
  <2> QED BY <2>1, <2>2, <2>3, TypesFacts DEF World
<1>3. ASSUME NEW t \in Streams, Trade(t)
      PROVE  /\ World' /\ today' \in Days /\ today <= today'
             /\ traded' \in [Streams -> Ids \cup {None}]
             /\ \A s \in Streams : traded[s] <= traded'[s]
  <2>1. /\ traded' = [traded EXCEPT ![t] = @ + 1] /\ today' = today /\ traded[t] < MaxId
        /\ DayOf[t][traded[t] + 1] = today
    BY <1>3 DEF Trade
  <2>2. traded[t] + 1 \in Ids
    BY <2>1, TypesFacts, Numbers DEF Ids
  <2>3. /\ traded' \in [Streams -> Ids \cup {None}] /\ traded'[t] = traded[t] + 1
        /\ \A s \in Streams \ {t} : traded'[s] = traded[s]
    BY <2>1, <2>2, TypesFacts
  <2>4. ASSUME NEW i \in Ids, i <= traded'[t]
        PROVE  DayOf[t][i] <= today
    <3>1. DayOf[t][i] <= DayOf[t][traded[t] + 1]
      BY <2>2, <2>3, <2>4, DayOfMonotone
    <3> QED BY <2>1, <3>1
  <2>5. ASSUME NEW i \in Ids, DayOf[t][i] < today
        PROVE  i <= traded'[t]
    <3>1. i <= traded[t] /\ traded[t] \in Nat /\ i \in Nat
      BY <2>5, TypesFacts, Numbers DEF World
    <3> QED BY <2>3, <3>1
  <2>6. World'
    BY <2>1, <2>3, <2>4, <2>5 DEF World
  <2>7. \A s \in Streams : traded[s] <= traded'[s]
    BY <2>3, TypesFacts
  <2> QED BY <2>1, <2>3, <2>6, <2>7, TypesFacts
<1>4. ASSUME Next, ~Midnight, ~(\E s \in Streams : Trade(s))
      PROVE  UNCHANGED <<today, traded>>
  BY <1>4 DEF Next, Main, StartRun, SkipDay, FinishDay, FinishRun, Prune, GoLive, Restart, FetchSymbol,
     FetchMissing, StartupBridge, LiveTrade, LiveQuote, ArchivePublish, FetchFailed, Stop, Crash,
     Forget, worldVars
<1>5. CASE UNCHANGED vars
  BY <1>1, <1>5 DEF vars, worldVars
<1> QED BY <1>1, <1>2, <1>3, <1>4, <1>5

\* What the floor of a bridged symbol is.
LEMMA FloorTyped ==
    ASSUME TypeOK, NEW s \in Trades, NEW floor \in Ids \cup {None}
    PROVE  /\ FloorAfter(s, floor) \in Ids \cup {None}
           /\ traded[s] <= FloorAfter(s, floor)
           /\ floor <= traded[s] => FloorAfter(s, floor) = traded[s]
BY TypesFacts, Numbers DEF FloorAfter, None

LEMMA TypesNext ==
    ASSUME TypeOK, World, [Next]_vars
    PROVE  TypeOK'
<1>0. /\ today' \in Days /\ traded' \in [Streams -> Ids \cup {None}]
      /\ \A q \in Quotes : delivered[q] <= traded[q] /\ traded[q] <= traded'[q]
      /\ \A q \in Quotes : traded[q] \in Nat /\ traded'[q] \in Nat /\ delivered[q] \in Nat
  <2>1. today' \in Days /\ traded' \in [Streams -> Ids \cup {None}]
    BY WorldNext
  <2>2. \A q \in Quotes : delivered[q] <= traded[q] /\ traded[q] <= traded'[q]
    BY WorldNext, TypesFacts DEF TypeOK
  <2>3. \A q \in Quotes : traded'[q] \in Ids \cup {None}
    BY <2>1, TypesFacts
  <2> QED BY <2>1, <2>2, <2>3, TypesFacts, Numbers
<1>1. CASE UNCHANGED vars
  BY <1>1 DEF vars, storeVars, worldVars, brokerVars, runVars, TypeOK, StoreTypeOK
<1>2. CASE Midnight \/ ArchivePublish \/ \E s \in Streams : Trade(s)
  <2>1. /\ UNCHANGED <<storeVars, brokerVars, phase, runVars, lastId, strayed, faults>>
        /\ archived' \in {archived, today} \/ (archived' = archived + 1 /\ archived + 1 < today)
    BY <1>2 DEF Midnight, ArchivePublish, Trade
  <2>2. archived' \in Days \cup {None}
    BY <2>1, TypesFacts, Numbers DEF Days, None
  <2>3. \A q \in Quotes : delivered[q] <= traded'[q]
    BY <1>0
  <2> QED BY <1>0, <2>1, <2>2, <2>3 DEF storeVars, brokerVars, runVars, TypeOK, StoreTypeOK
<1>3. CASE StartRun \/ SkipDay \/ FinishRun \/ \E s \in Trades : FetchMissing(s)
  <2>1. UNCHANGED <<storeVars, worldVars, brokerVars, lastId, strayed, faults>>
    BY <1>3 DEF StartRun, SkipDay, FinishRun, FetchMissing
  <2>2. /\ phase' \in Phases /\ plan' \subseteq Days /\ existing' \subseteq Days /\ filled' \subseteq Days
        /\ todo' \subseteq Trades /\ wrote' \in BOOLEAN
    <3>1. CASE StartRun
      BY <3>1 DEF StartRun, Phases, PlanDates, Held, PartitionsOf
    <3>2. CASE SkipDay \/ FinishRun \/ \E s \in Trades : FetchMissing(s)
      BY <3>2 DEF SkipDay, FinishRun, FetchMissing, runVars, Phases, TypeOK
    <3> QED BY <1>3, <3>1, <3>2
  <2> QED BY <2>1, <2>2 DEF storeVars, worldVars, brokerVars, TypeOK, StoreTypeOK
<1>4. ASSUME NEW s \in Trades, FetchSymbol(s) \/ FetchFailed(s)
      PROVE  TypeOK'
  <2>1. /\ UNCHANGED <<hdb, day, worldVars, brokerVars, phase, plan, existing, filled, lastId, strayed>>
        /\ wrote' \in BOOLEAN /\ todo' = todo \ {s}
        /\ \E ids : rdb' = Inserted(rdb, s, ids)
    BY <1>4 DEF FetchSymbol, FetchFailed, TypeOK
  <2>2. rdb' \in [Streams -> Table]
    BY <2>1, InsertedTyped, TypesFacts DEF StoreTypeOK
  <2>3. faults' \in [{"crash", "stop", "fetch"} -> Nat]
    BY <1>4 DEF FetchSymbol, FetchFailed, Fault, TypeOK
  <2> QED BY <2>1, <2>2, <2>3 DEF worldVars, brokerVars, TypeOK, StoreTypeOK
<1>5. CASE FinishDay
  <2>1. /\ UNCHANGED <<day, worldVars, brokerVars, phase, existing, lastId, strayed, faults>>
        /\ plan' \subseteq plan /\ todo' = Trades /\ wrote' = FALSE /\ plan # {}
        /\ filled' \in {filled, filled \cup {Min(plan)}}
        /\ rdb' \in {rdb, EmptyTables} /\ hdb' \in {hdb, SavedDown(Min(plan))}
    BY <1>5 DEF FinishDay
  <2>2. Min(plan) \in Days
    BY <2>1, TypesFacts, Numbers, MinIs
  <2>3. StoreTypeOK'
    BY <2>1, <2>2, SavedDownTyped, TablesTyped, TypesFacts DEF StoreTypeOK
  <2> QED BY <2>1, <2>2, <2>3 DEF worldVars, brokerVars, TypeOK
<1>6. CASE Prune
  <2>1. /\ UNCHANGED <<rdb, day, worldVars, brokerVars, plan, existing, wrote, filled, lastId, strayed, faults>>
        /\ phase' = "bridge" /\ todo' = Trades
        /\ hdb' = [d \in Days |-> IF Expired(d) /\ d \in Held THEN EmptyTables ELSE hdb[d]]
    BY <1>6 DEF Prune
  <2>2. StoreTypeOK'
    BY <2>1, TablesTyped, TypesFacts DEF StoreTypeOK
  <2> QED BY <2>1, <2>2 DEF worldVars, brokerVars, TypeOK, Phases
<1>7. ASSUME NEW s \in Trades, StartupBridge(s)
      PROVE  TypeOK'
  <2> DEFINE floor == MaxStoredId(s)
  <2>1. /\ UNCHANGED <<hdb, day, worldVars, brokerVars, phase, plan, existing, wrote, filled, strayed, faults>>
        /\ todo' \subseteq todo
        /\ \/ UNCHANGED <<rdb, lastId>>
           \/ /\ rdb' = Inserted(rdb, s, BridgeStart(floor) .. traded[s])
              /\ lastId' = [lastId EXCEPT ![s] = FloorAfter(s, floor)]
    BY <1>7 DEF StartupBridge
  <2>2. floor \in Ids \cup {None}
    BY MaxStoredTyped, TypesFacts
  <2> HIDE DEF floor
  <2>3. rdb' \in [Streams -> Table]
    <3>1. rdb \in [Streams -> Table] /\ s \in Streams
      BY TypesFacts DEF StoreTypeOK
    <3>2. Inserted(rdb, s, BridgeStart(floor) .. traded[s]) \in [Streams -> Table]
      BY <3>1, InsertedTyped
    <3> QED BY <2>1, <3>1, <3>2
  <2>4. lastId' \in [Trades -> Ids \cup {None}]
    BY <2>1, <2>2, FloorTyped, TypesFacts
  <2> QED BY <2>1, <2>3, <2>4 DEF worldVars, brokerVars, TypeOK, StoreTypeOK
<1>8. CASE GoLive
  <2>1. /\ UNCHANGED <<storeVars, worldVars, runVars, lastId, strayed, faults>>
        /\ phase' = "live" /\ session' = TRUE
        /\ delivered' = [q \in Quotes |->
              IF ~session THEN traded[q]
              ELSE IF OldQuotesKept THEN delivered[q]
              ELSE Max({delivered[q], Before(q, today)})]
    BY <1>8 DEF GoLive
  <2>2. ASSUME NEW q \in Quotes
        PROVE  /\ Max({delivered[q], Before(q, today)}) \in Ids \cup {None}
               /\ Max({delivered[q], Before(q, today)}) <= traded[q]
    <3>1. Before(q, today) \in Ids \cup {None} /\ Before(q, today) <= traded[q]
      <4>1. /\ Before(q, today) \in Ids \cup {None} /\ Before(q, today) \in Nat
            /\ \A i \in Ids : DayOf[q][i] < today <=> i <= Before(q, today)
        BY BeforeIs, TypesFacts
      <4>2. CASE Before(q, today) \in Ids
        BY <4>1, <4>2, TypesFacts DEF World
      <4>3. CASE Before(q, today) = None
        BY <1>0, <4>3 DEF None
      <4> QED BY <4>1, <4>2, <4>3
    <3>2. {delivered[q], Before(q, today)} \in SUBSET (0 .. MaxId)
      <4>1. delivered[q] \in Ids \cup {None}
        BY TypesFacts
      <4> QED BY <3>1, <4>1, Numbers
    <3>3. Max({delivered[q], Before(q, today)}) \in {delivered[q], Before(q, today)}
      BY <3>2, MaxIs, Numbers
    <3> QED BY <1>0, <3>1, <3>3, TypesFacts
  <2>3. /\ delivered' \in [Quotes -> Ids \cup {None}]
        /\ \A q \in Quotes : delivered'[q] <= traded[q]
    BY <1>0, <2>1, <2>2, TypesFacts
  <2> QED BY <2>1, <2>3 DEF storeVars, worldVars, runVars, TypeOK, StoreTypeOK, Phases
<1>9. ASSUME NEW s \in Trades, LiveTrade(s)
      PROVE  TypeOK'
  <2>1. PICK a \in Upcoming(s), b \in 1 .. traded[s] :
            a <= b /\ Feed(s, a .. b) /\ lastId' = [lastId EXCEPT ![s] = b]
    BY <1>9 DEF LiveTrade
  <2>2. UNCHANGED <<worldVars, brokerVars, phase, runVars, faults>> /\ strayed' = Strays
    BY <1>9 DEF LiveTrade
  <2>3. a \in Ids /\ b \in Ids
    BY UpcomingTyped, RangeTyped, TypesFacts
  <2>4. StoreTypeOK'
    BY <2>1, <2>3, FeedTyped, TypesFacts
  <2>5. lastId' \in [Trades -> Ids \cup {None}] /\ strayed' \in [Trades -> SUBSET Ids]
    BY <2>1, <2>2, <2>3, TypesFacts, StraysTyped DEF TypeOK
  <2> QED BY <2>2, <2>4, <2>5 DEF worldVars, brokerVars, runVars, TypeOK
<1>10. ASSUME NEW q \in Quotes, LiveQuote(q)
       PROVE  TypeOK'
  <2>1. PICK a \in Upcoming(q), b \in 1 .. traded[q] :
            a <= b /\ Feed(q, a .. b) /\ delivered' = [delivered EXCEPT ![q] = b]
    BY <1>10 DEF LiveQuote
  <2>2. UNCHANGED <<worldVars, session, phase, runVars, lastId, faults>> /\ strayed' = Strays
    BY <1>10 DEF LiveQuote
  <2>3. a \in Ids /\ b \in Ids /\ b <= traded[q]
    BY UpcomingTyped, RangeTyped, TypesFacts
  <2>4. StoreTypeOK'
    BY <2>1, <2>3, FeedTyped, TypesFacts
  <2>5. strayed' \in [Trades -> SUBSET Ids]
    BY <2>2, TypesFacts, StraysTyped DEF TypeOK
  <2>6. delivered' \in [Quotes -> Ids \cup {None}] /\ \A p \in Quotes : delivered'[p] <= traded[p]
    BY <1>0, <2>1, <2>3, TypesFacts
  <2> QED BY <2>2, <2>4, <2>5, <2>6 DEF worldVars, runVars, TypeOK
<1>11. CASE Stop \/ Crash
  <2>1. Forget /\ phase' \in {"stopped", "start"} /\ (Flush \/ LoseMemory)
    BY <1>11 DEF Stop, Crash
  <2>2. StoreTypeOK'
    BY <2>1, SavedDownTyped, TablesTyped, TypesFacts DEF Flush, LoseMemory, StoreTypeOK
  <2>3. faults' \in [{"crash", "stop", "fetch"} -> Nat]
    BY <1>11 DEF Stop, Crash, Fault, TypeOK
  <2> QED BY <2>1, <2>2, <2>3 DEF Forget, worldVars, brokerVars, TypeOK, Phases
<1>12. CASE Restart
  <2>1. StoreTypeOK'
    BY <1>12, TablesTyped, TypesFacts DEF Restart, StoreTypeOK
  <2> QED BY <1>12, <2>1 DEF Restart, worldVars, brokerVars, runVars, TypeOK, Phases
<1> QED BY <1>1, <1>2, <1>3, <1>4, <1>5, <1>6, <1>7, <1>8, <1>9, <1>10, <1>11, <1>12 DEF Next, Main

\* Every value is in its range at every moment: tables, dates, floors, what the broker
\* has delivered is never ahead of the exchange (backfill.py run and RdbRoller).
THEOREM TypeCorrect == Spec => []TypeOK
<1>1. TypeOK /\ World /\ [Next]_vars => (TypeOK /\ World)'
  BY TypesNext, WorldNext
<1> QED BY <1>1, InitTypes, PTL DEF Spec

-----------------------------------------------------------------------------
(* What backfill wrote stays.  The date does not change between the start of  *)
(* a run and the live phase, so the dates run() fills are in the window that  *)
(* prune keeps; after that the roller only meets rows of later dates.         *)

Quiet == phase \in {"backfill", "prune", "bridge"} => ~MidnightNear(traded)

\* The newest row of t that was bridged or has arrived.
Taken(t) == IF t \in Trades THEN lastId[t] ELSE delivered[t]

\* What is still to come of t is after d; without a floor it is of today.
NotBefore(t, d) ==
    t \in Quotes \/ lastId[t] # None => \A i \in Ids : Taken(t) < i => d < DayOf[t][i]

PlanInv ==
    /\ \A d \in filled : d < today
    /\ phase \in {"backfill", "prune", "bridge"} =>
          \A d \in filled \cup plan : today - Window <= d /\ d < today
    /\ plan \cap filled = {}
    /\ plan # {} => phase = "backfill"

LiveInv ==
    /\ phase \notin {"bridge", "live"} => \A s \in Trades : lastId[s] = None
    /\ phase = "bridge" => \A d \in filled, s \in Trades : NotBefore(s, d)
    /\ phase = "live" => \A d \in filled, t \in Streams : NotBefore(t, d)
    /\ day # None => phase = "live" /\ \A d \in filled : d < day

QuotesSplit == \A t \in Streams : t \notin Trades <=> t \in Quotes

LEMMA SplitHolds == QuotesSplit
BY StreamsAssumption DEF QuotesSplit, Streams

LEMMA QuietNext ==
    ASSUME QuietStartup, TypeOK, Quiet, [Next]_vars
    PROVE  Quiet' /\ (phase \in {"backfill", "prune", "bridge"} => today' = today)
<1>1. CASE Midnight
  <2>1. phase \notin {"backfill", "prune", "bridge"} /\ phase' = phase
    BY <1>1 DEF Midnight, Quiet
  <2> QED BY <2>1 DEF Quiet
<1>2. CASE \E s \in Streams : Trade(s)
  BY <1>2 DEF Trade, Quiet, MidnightNear
<1>3. CASE StartRun
  BY <1>3 DEF StartRun, Quiet, MidnightNear, worldVars
<1>4. ASSUME Next, ~Midnight, ~(\E s \in Streams : Trade(s)), ~StartRun
      PROVE  /\ UNCHANGED <<today, traded>>
             /\ phase' \in {"backfill", "prune", "bridge"} => phase \in {"backfill", "prune", "bridge"}
  BY <1>4 DEF Next, Main, SkipDay, FinishDay, FinishRun, Prune, GoLive, Restart, FetchSymbol,
     FetchMissing, StartupBridge, LiveTrade, LiveQuote, ArchivePublish, FetchFailed, Stop, Crash,
     Forget, worldVars
<1>5. CASE UNCHANGED vars
  BY <1>5 DEF vars, worldVars, Quiet, MidnightNear
<1> QED BY <1>1, <1>2, <1>3, <1>4, <1>5 DEF Quiet, MidnightNear

\* What is still to come of a stream is after the dates backfill wrote.
LEMMA FedIsLater ==
    ASSUME TypeOK, PlanInv, LiveInv, phase = "live",
           NEW t \in Streams, NEW i \in Upcoming(t), NEW d \in filled, NEW j \in Ids, i <= j
    PROVE  d < DayOf[t][j]
<1>1. d \in Nat /\ today \in Nat /\ d < today
  BY TypesFacts, Numbers DEF PlanInv
<1>2. i \in Ids /\ i \in Nat /\ j \in Nat
  BY TypesFacts, UpcomingTyped, Numbers
<1>3. CASE t \in Trades /\ lastId[t] = None
  <2>1. DayOf[t][i] = today
    BY <1>3, SplitHolds DEF Upcoming, QuotesSplit
  <2>2. DayOf[t][i] <= DayOf[t][j] /\ DayOf[t][j] \in Nat
    BY <1>2, DayOfMonotone, DayOfTyped
  <2> QED BY <1>1, <2>1, <2>2
<1>4. CASE t \in Quotes \/ lastId[t] # None
  <2>1. i = Taken(t) + 1 /\ Taken(t) \in Nat
    BY <1>4, SplitHolds, TypesFacts DEF Upcoming, Taken, QuotesSplit
  <2>2. NotBefore(t, d) /\ Taken(t) < j
    BY <1>2, <2>1 DEF LiveInv
  <2> QED BY <1>4, <2>2 DEF NotBefore
<1> QED BY <1>3, <1>4, SplitHolds DEF QuotesSplit

LEMMA FilledFed ==
    ASSUME TypeOK, PlanInv, LiveInv, phase = "live",
           NEW t \in Streams, NEW a \in Upcoming(t), NEW b \in Ids, a <= b, Feed(t, a .. b)
    PROVE  /\ \A d \in filled : hdb'[d] = hdb[d]
           /\ day' # None => \A d \in filled : d < day'
<1>0. a \in Ids /\ Max(a .. b) = b
  BY RunIs, UpcomingTyped, TypesFacts
<1>1. day' = IF day = None \/ Past(DayOf[t][b]) THEN DayOf[t][b] ELSE day
  BY <1>0 DEF Feed
<1>2. hdb' = IF Past(DayOf[t][b]) THEN SavedDown(day) ELSE hdb
  BY <1>0 DEF Feed
<1>3. ASSUME NEW d \in filled
      PROVE  hdb'[d] = hdb[d] /\ (day' # None => d < day')
  <2>1. d \in Days /\ d < DayOf[t][b]
    BY FedIsLater, TypesFacts
  <2>2. day # None => d < day /\ day \in Days /\ d # day
    BY <2>1, TypesFacts, Numbers DEF LiveInv, StoreTypeOK
  <2>3. CASE Past(DayOf[t][b])
    <3>1. day # None
      BY <2>3 DEF Past
    <3> QED BY <1>1, <1>2, <2>1, <2>2, <2>3, <3>1, SavedDownTyped, TypesFacts DEF StoreTypeOK
  <2>4. CASE ~Past(DayOf[t][b])
    BY <1>1, <1>2, <2>1, <2>2, <2>4
  <2> QED BY <2>3, <2>4
<1> QED BY <1>3

\* When the writer goes live no quote of an earlier day is still to come.
LEMMA DeliveredLater ==
    ASSUME ~OldQuotesKept, TypeOK, World, GoLive, NEW q \in Quotes, NEW i \in Ids, delivered'[q] < i
    PROVE  today <= DayOf[q][i]
<1>0. delivered' = [p \in Quotes |->
          IF ~session THEN traded[p] ELSE Max({delivered[p], Before(p, today)})]
  BY DEF GoLive
<1>1. q \in Streams /\ DayOf[q][i] \in Nat /\ i \in Nat /\ traded[q] \in Nat
  BY TypesFacts, DayOfTyped, Numbers
<1>2. ~(DayOf[q][i] < today)
  <2>1. CASE ~session
    <3>1. ~(i <= traded[q])
      BY <1>0, <1>1, <2>1
    <3> QED BY <1>1, <3>1 DEF World
  <2>2. CASE session
    <3>1. /\ Before(q, today) \in Ids \cup {None}
          /\ DayOf[q][i] < today <=> i <= Before(q, today)
      BY <1>1, BeforeIs, TypesFacts
    <3>2. {delivered[q], Before(q, today)} \in SUBSET (0 .. MaxId)
      <4>1. delivered[q] \in Ids \cup {None}
        BY TypesFacts
      <4> QED BY <3>1, <4>1, Numbers
    <3>3. Before(q, today) <= Max({delivered[q], Before(q, today)})
          /\ Max({delivered[q], Before(q, today)}) \in {delivered[q], Before(q, today)}
      BY <3>2, MaxIs, Numbers
    <3>4. delivered'[q] = Max({delivered[q], Before(q, today)})
      BY <1>0, <2>2
    <3>5. Before(q, today) \in Nat /\ delivered[q] \in Nat
      BY <3>1, TypesFacts, Numbers
    <3> QED BY <1>1, <3>1, <3>3, <3>4, <3>5
  <2> QED BY <2>1, <2>2
<1> QED BY <1>1, <1>2, TypesFacts

LEMMA FilledNext ==
    ASSUME QuietStartup, ~OldQuotesKept, TypeOK, World, Quiet, PlanInv, LiveInv, [Next]_vars
    PROVE  PlanInv' /\ LiveInv' /\ \A d \in filled : hdb'[d] = hdb[d]
<1>0. /\ today \in Nat /\ today' \in Nat /\ today <= today'
      /\ \A d \in filled \cup plan : d \in Days /\ d \in Nat
      /\ phase \in {"backfill", "prune", "bridge"} => today' = today
  BY TypesFacts, WorldNext, QuietNext, Numbers
<1>1. CASE UNCHANGED vars \/ Midnight \/ ArchivePublish \/ \E s \in Streams : Trade(s)
  <2>1. UNCHANGED <<storeVars, brokerVars, phase, runVars, lastId>>
    BY <1>1 DEF vars, Midnight, ArchivePublish, Trade
  <2>2. PlanInv'
    BY <1>0, <2>1 DEF PlanInv, runVars
  <2>3. LiveInv'
    BY <2>1 DEF LiveInv, NotBefore, Taken, storeVars, brokerVars, runVars
  <2> QED BY <2>1, <2>2, <2>3 DEF storeVars
<1>2. CASE StartRun
  <2>1. /\ phase' = "backfill" /\ phase = "start" /\ filled' = {}
        /\ plan' = {d \in Days : today - Window <= d /\ d < today}
        /\ UNCHANGED <<hdb, day, lastId, today>>
    BY <1>2 DEF StartRun, PlanDates, storeVars, worldVars
  <2>2. PlanInv'
    BY <2>1 DEF PlanInv
  <2>3. LiveInv'
    BY <2>1 DEF LiveInv
  <2> QED BY <2>1, <2>2, <2>3
<1>3. CASE SkipDay \/ FinishRun \/ \E s \in Trades : FetchSymbol(s) \/ FetchMissing(s) \/ FetchFailed(s)
  <2>1. /\ phase = "backfill" /\ phase' \in {"backfill", "prune"} /\ filled' = filled
        /\ plan' \subseteq plan /\ (phase' = "prune" => plan' = {})
        /\ UNCHANGED <<hdb, day, lastId, today>>
    BY <1>3 DEF SkipDay, FinishRun, FetchSymbol, FetchMissing, FetchFailed, Filling, storeVars,
       worldVars, runVars
  <2>2. PlanInv'
    BY <2>1 DEF PlanInv
  <2>3. LiveInv'
    BY <2>1 DEF LiveInv
  <2> QED BY <2>1, <2>2, <2>3
<1>4. CASE FinishDay
  <2> DEFINE d == Min(plan)
  <2>1. /\ phase = "backfill" /\ phase' = "backfill" /\ filled' \subseteq filled \cup {d}
        /\ plan' = plan \ {d} /\ plan # {}
        /\ UNCHANGED <<day, lastId, today>> /\ hdb' \in {hdb, SavedDown(d)}
    BY <1>4 DEF FinishDay, worldVars
  <2>2. d \in plan /\ d \in Days
    BY <1>0, <2>1, MinIs
  <2> HIDE DEF d
  <2>3. PlanInv'
    BY <2>1, <2>2 DEF PlanInv
  <2>4. LiveInv'
    BY <2>1 DEF LiveInv
  <2>5. \A e \in filled : e \in Days \ {d}
    BY <1>0, <2>2 DEF PlanInv
  <2> QED BY <2>1, <2>2, <2>3, <2>4, <2>5, SavedDownTyped, TypesFacts DEF StoreTypeOK
<1>5. CASE Prune
  <2>1. /\ phase = "prune" /\ phase' = "bridge" /\ UNCHANGED <<filled, plan, day, lastId, today>>
        /\ hdb' = [d \in Days |-> IF Expired(d) /\ d \in Held THEN EmptyTables ELSE hdb[d]]
    BY <1>5 DEF Prune, worldVars
  <2>2. \A d \in filled : ~Expired(d)
    <3>1. \A d \in filled : today - Window <= d /\ d \in Nat
      BY <1>0, <2>1 DEF PlanInv
    <3> QED BY <1>0, <3>1, LifecycleAssumption DEF Expired
  <2>3. PlanInv'
    BY <2>1 DEF PlanInv
  <2>4. LiveInv'
    <3>1. \A d \in filled, s \in Trades : NotBefore(s, d)'
      BY <2>1, SplitHolds, TypesFacts DEF LiveInv, NotBefore, QuotesSplit
    <3> QED BY <2>1, <3>1 DEF LiveInv
  <2> QED BY <1>0, <2>1, <2>2, <2>3, <2>4
<1>6. ASSUME NEW s \in Trades, StartupBridge(s)
      PROVE  PlanInv' /\ LiveInv' /\ \A d \in filled : hdb'[d] = hdb[d]
  <2> DEFINE floor == MaxStoredId(s)
  <2>1. /\ phase = "bridge" /\ UNCHANGED <<hdb, day, phase, filled, plan, today>>
        /\ lastId' = lastId \/ lastId' = [lastId EXCEPT ![s] = FloorAfter(s, floor)]
    BY <1>6 DEF StartupBridge, worldVars
  <2>2. traded[s] <= FloorAfter(s, floor) /\ FloorAfter(s, floor) \in Nat
    BY MaxStoredTyped, FloorTyped, TypesFacts, Numbers
  <2> HIDE DEF floor
  <2>3. PlanInv'
    BY <2>1 DEF PlanInv
  <2>4. ASSUME NEW d \in filled, NEW t \in Trades
        PROVE  NotBefore(t, d)'
    <3>1. NotBefore(t, d) /\ t \in Streams /\ t \notin Quotes
      BY <2>1, SplitHolds, TypesFacts DEF LiveInv, QuotesSplit
    <3>2. CASE lastId'[t] = lastId[t]
      BY <3>1, <3>2 DEF NotBefore, Taken
    <3>3. CASE lastId'[t] # lastId[t]
      <4>1. lastId'[t] = FloorAfter(t, floor) /\ t = s
        BY <2>1, <3>3, TypesFacts
      <4>2. ASSUME NEW i \in Ids, lastId'[t] < i
            PROVE  d < DayOf[t][i]
        <5>1. ~(i <= traded[t]) /\ i \in Nat /\ traded[t] \in Nat /\ DayOf[t][i] \in Nat
          BY <2>2, <3>1, <4>1, <4>2, TypesFacts, Numbers, DayOfTyped
        <5>2. ~(DayOf[t][i] < today)
          BY <3>1, <5>1 DEF World
        <5> QED BY <1>0, <5>1, <5>2 DEF PlanInv
      <4> QED BY <3>1, <4>2 DEF NotBefore, Taken
    <3> QED BY <3>2, <3>3
  <2>5. LiveInv'
    BY <2>1, <2>4 DEF LiveInv
  <2> QED BY <2>1, <2>3, <2>5
<1>7. CASE GoLive
  <2>1. /\ phase = "bridge" /\ phase' = "live" /\ UNCHANGED <<hdb, day, filled, plan, lastId, today>>
        /\ delivered' = [q \in Quotes |->
              IF ~session THEN traded[q] ELSE Max({delivered[q], Before(q, today)})]
    BY <1>7 DEF GoLive, storeVars, worldVars, runVars
  <2>2. PlanInv'
    BY <2>1 DEF PlanInv
  <2>3. ASSUME NEW d \in filled, NEW q \in Quotes, NEW i \in Ids, delivered'[q] < i
        PROVE  d < DayOf[q][i]
    <3>1. today <= DayOf[q][i] /\ DayOf[q][i] \in Nat /\ d < today
      BY <1>7, <2>3, DeliveredLater, DayOfTyped, TypesFacts DEF PlanInv
    <3> QED BY <1>0, <3>1
  <2>4. ASSUME NEW d \in filled, NEW t \in Streams
        PROVE  NotBefore(t, d)'
    <3>1. CASE t \in Quotes
      BY <2>3, <3>1, SplitHolds DEF NotBefore, Taken, QuotesSplit
    <3>2. CASE t \in Trades
      <4>1. NotBefore(t, d)
        BY <2>1, <3>2 DEF LiveInv
      <4> QED BY <2>1, <3>2, <4>1, SplitHolds DEF NotBefore, Taken, QuotesSplit
    <3> QED BY <3>1, <3>2, SplitHolds DEF QuotesSplit
  <2>5. LiveInv'
    BY <2>1, <2>4 DEF LiveInv
  <2> QED BY <2>1, <2>2, <2>5
<1>8. ASSUME NEW t \in Streams, NEW a \in Upcoming(t), NEW b \in Ids, a <= b,
             phase = "live", Feed(t, a .. b), UNCHANGED <<phase, filled, plan, today>>,
             IF t \in Trades THEN lastId' = [lastId EXCEPT ![t] = b] /\ delivered' = delivered
             ELSE delivered' = [delivered EXCEPT ![t] = b] /\ lastId' = lastId
      PROVE  PlanInv' /\ LiveInv' /\ \A d \in filled : hdb'[d] = hdb[d]
  <2>1. PlanInv'
    BY <1>8 DEF PlanInv
  <2>2. ASSUME NEW d \in filled, NEW u \in Streams
        PROVE  NotBefore(u, d)'
    <3>1. NotBefore(u, d)
      BY <1>8 DEF LiveInv
    <3>2. CASE u = t
      <4>1. Taken(t)' = b
        BY <1>8, SplitHolds, TypesFacts DEF Taken, QuotesSplit
      <4>2. ASSUME NEW j \in Ids, b < j
            PROVE  d < DayOf[t][j]
        <5>1. a <= j
          BY <1>8, <4>2, UpcomingTyped, TypesFacts, Numbers
        <5> QED BY <1>8, <5>1, FedIsLater
      <4> QED BY <3>2, <4>1, <4>2 DEF NotBefore
    <3>3. CASE u # t
      <4>1. Taken(u)' = Taken(u) /\ (u \in Trades => lastId'[u] = lastId[u])
        BY <1>8, <3>3, SplitHolds, TypesFacts DEF Taken, QuotesSplit
      <4> QED BY <3>1, <4>1, SplitHolds DEF NotBefore, QuotesSplit
    <3> QED BY <3>2, <3>3
  <2>3. LiveInv'
    BY <1>8, <2>2, FilledFed DEF LiveInv
  <2> QED BY <1>8, <2>1, <2>3, FilledFed
<1>9. ASSUME NEW s \in Trades, LiveTrade(s)
      PROVE  PlanInv' /\ LiveInv' /\ \A d \in filled : hdb'[d] = hdb[d]
  <2>1. PICK a \in Upcoming(s), b \in 1 .. traded[s] :
            a <= b /\ Feed(s, a .. b) /\ lastId' = [lastId EXCEPT ![s] = b]
    BY <1>9 DEF LiveTrade
  <2>2. phase = "live" /\ UNCHANGED <<phase, filled, plan, today, delivered>>
    BY <1>9 DEF LiveTrade, worldVars, brokerVars, runVars
  <2>3. b \in Ids
    BY RangeTyped, TypesFacts
  <2> QED BY <1>8, <2>1, <2>2, <2>3, TypesFacts
<1>10. ASSUME NEW q \in Quotes, LiveQuote(q)
       PROVE  PlanInv' /\ LiveInv' /\ \A d \in filled : hdb'[d] = hdb[d]
  <2>1. PICK a \in Upcoming(q), b \in 1 .. traded[q] :
            a <= b /\ Feed(q, a .. b) /\ delivered' = [delivered EXCEPT ![q] = b]
    BY <1>10 DEF LiveQuote
  <2>2. phase = "live" /\ UNCHANGED <<phase, filled, plan, today, lastId>>
    BY <1>10 DEF LiveQuote, worldVars, runVars
  <2>3. b \in Ids
    BY RangeTyped, TypesFacts
  <2> QED BY <1>8, <2>1, <2>2, <2>3, TypesFacts, SplitHolds DEF QuotesSplit
<1>11. CASE Stop \/ Crash
  <2>1. /\ phase' \in {"start", "stopped"} /\ day' = None /\ plan' = {} /\ filled' = {}
        /\ \A s \in Trades : lastId'[s] = None
    BY <1>11 DEF Stop, Crash, Flush, LoseMemory, Forget
  <2>2. hdb' = hdb \/ (day # None /\ hdb' = SavedDown(day))
    BY <1>11 DEF Stop, Crash, Flush, LoseMemory
  <2>3. \A d \in filled : day # None => d \in Days \ {day} /\ day \in Days
    <3>1. \A d \in filled : day # None => d < day /\ day \in Days
      BY TypesFacts DEF LiveInv, StoreTypeOK
    <3> QED BY <1>0, <3>1
  <2>4. PlanInv' /\ LiveInv'
    BY <2>1 DEF PlanInv, LiveInv
  <2> QED BY <2>2, <2>3, <2>4, SavedDownTyped, TypesFacts DEF StoreTypeOK
<1>12. CASE Restart
  <2>1. phase = "stopped" /\ phase' = "start" /\ day' = None
        /\ UNCHANGED <<hdb, filled, plan, today, lastId>>
    BY <1>12 DEF Restart, worldVars, runVars
  <2> QED BY <2>1 DEF PlanInv, LiveInv
<1> QED BY <1>1, <1>2, <1>3, <1>4, <1>5, <1>6, <1>7, <1>9, <1>10, <1>11, <1>12 DEF Next, Main

LEMMA InitFilled == Init => Quiet /\ PlanInv /\ LiveInv
BY DEF Init, Quiet, PlanInv, LiveInv

FilledIInv == TypeOK /\ World /\ Quiet /\ PlanInv /\ LiveInv

LEMMA FilledInductive ==
    ASSUME QuietStartup, ~OldQuotesKept
    PROVE  /\ Init => FilledIInv
           /\ FilledIInv /\ [Next]_vars => FilledIInv' /\ \A d \in filled : hdb'[d] = hdb[d]
<1>1. Init => FilledIInv
  BY InitTypes, InitFilled DEF FilledIInv
<1>2. ASSUME FilledIInv, [Next]_vars
      PROVE  FilledIInv' /\ \A d \in filled : hdb'[d] = hdb[d]
  BY <1>2, TypesNext, WorldNext, QuietNext, FilledNext DEF FilledIInv
<1> QED BY <1>1, <1>2

\* No roll, flush, prune or later fill touches a day that this process's run() wrote,
\* however late the archive is and whatever fetch fails (backfill.py run, RdbRoller).
THEOREM FilledDaysAlwaysKept ==
    ASSUME QuietStartup, ~OldQuotesKept
    PROVE  Spec => FilledDaysKept
<1>1. FilledIInv /\ [Next]_vars => FilledIInv' /\ [\A d \in filled : hdb'[d] = hdb[d]]_vars
  BY FilledInductive
<1>2. Init => FilledIInv
  BY FilledInductive
<1> QED BY <1>1, <1>2, PTL DEF Spec, FilledDaysKept

-----------------------------------------------------------------------------
(* No row is saved under a date before its own.  While run() fills a date the *)
(* RDB holds no row of a later one; what the bridge fetches is not after      *)
(* what is still to come; then the roller's date is that of the latest row.   *)

\* Every trade of the tables r is of date d at the latest.
UpTo(r, d) == \A s \in Trades : \A i \in RowIds(r[s]) : DayOf[s][i] <= d

\* No trade in the partitions h is in one of a date before its own.
OwnDays(h) == \A e \in Days : UpTo(h[e], e)

\* What is still to come of t is not before d.
NotUnder(t, d) ==
    t \in Quotes \/ lastId[t] # None => \A j \in Ids : Taken(t) < j => d <= DayOf[t][j]

OwnInv ==
    /\ OwnDays(hdb)
    /\ UpTo(rdb, today)
    /\ phase = "start" => rdb = EmptyTables
    /\ phase = "backfill" => \A d \in plan : UpTo(rdb, d)
    /\ phase = "bridge" => \A s \in Trades : NotUnder(s, today)
    /\ phase = "live" /\ day = None =>
          \A s \in Trades, t \in Streams : \A i \in RowIds(rdb[s]) : NotUnder(t, DayOf[s][i])
    /\ day # None => UpTo(rdb, day)

LEMMA EmptyUpTo == \A d : UpTo(EmptyTables, d)
<1>1. \A s \in Trades : RowIds(EmptyTables[s]) = {}
  BY TablesTyped DEF RowIds, NoRows, Streams
<1> QED BY <1>1 DEF UpTo

LEMMA UpToLater ==
    ASSUME NEW r, NEW d \in Nat, NEW e \in Nat, d <= e, UpTo(r, d)
    PROVE  UpTo(r, e)
<1> SUFFICES ASSUME NEW s \in Trades, NEW i \in RowIds(r[s])
             PROVE  DayOf[s][i] <= e
  BY DEF UpTo
<1>1. i \in Ids /\ s \in Streams
  BY DEF RowIds, Streams
<1>2. DayOf[s][i] <= d /\ DayOf[s][i] \in Nat
  BY <1>1, DayOfTyped DEF UpTo
<1> QED BY <1>2

LEMMA SavedOwn ==
    ASSUME StoreTypeOK, OwnDays(hdb), NEW d \in Days, UpTo(rdb, d)
    PROVE  OwnDays(SavedDown(d))
<1> SUFFICES ASSUME NEW e \in Days, NEW s \in Trades, NEW i \in RowIds(SavedDown(d)[e][s])
             PROVE  DayOf[s][i] <= e
  BY DEF OwnDays, UpTo
<1>1. s \in Streams
  BY DEF Streams
<1>2. SavedDown(d)[e][s] = hdb[e][s] \/ (SavedDown(d)[e][s] = rdb[s] /\ e = d)
  BY <1>1, SavedDownTyped DEF StoreTypeOK
<1>3. CASE SavedDown(d)[e][s] = hdb[e][s]
  BY <1>3 DEF OwnDays, UpTo
<1>4. CASE SavedDown(d)[e][s] = rdb[s] /\ e = d
  BY <1>4 DEF UpTo
<1> QED BY <1>2, <1>3, <1>4

\* The rows of the tables after an insert of ids.
LEMMA InsertedRows ==
    ASSUME NEW r \in [Streams -> Table], NEW s \in Streams, NEW ids, NEW t \in Streams,
           NEW i \in RowIds(Inserted(r, s, ids)[t])
    PROVE  i \in Ids /\ (i \in RowIds(r[t]) \/ (t = s /\ i \in ids))
<1>1. r[t] \in Table /\ i \in Ids
  BY DEF RowIds
<1>2. CASE t = s
  <2>1. Inserted(r, s, ids)[s] = Appended(r[s], ids)
    BY InsertedTyped
  <2>2. Appended(r[s], ids)[i] = r[s][i] + (IF i \in ids THEN 1 ELSE 0) /\ r[s][i] \in Nat
    BY <1>1, <1>2 DEF Appended, Table
  <2> QED BY <1>1, <1>2, <2>1, <2>2 DEF RowIds
<1>3. CASE t # s
  BY <1>1, <1>3, InsertedTyped DEF RowIds
<1> QED BY <1>2, <1>3

LEMMA InsertedUpTo ==
    ASSUME NEW r \in [Streams -> Table], NEW s \in Streams, NEW ids, NEW d,
           UpTo(r, d), \A i \in ids \cap Ids : DayOf[s][i] <= d
    PROVE  UpTo(Inserted(r, s, ids), d)
<1> SUFFICES ASSUME NEW t \in Trades, NEW i \in RowIds(Inserted(r, s, ids)[t])
             PROVE  DayOf[t][i] <= d
  BY DEF UpTo
<1>1. t \in Streams
  BY DEF Streams
<1>2. i \in Ids /\ (i \in RowIds(r[t]) \/ (t = s /\ i \in ids))
  BY <1>1, InsertedRows
<1> QED BY <1>2 DEF UpTo

\* A batch that arrives is not before what is in memory when it sets the date.
LEMMA OwnFed ==
    ASSUME FilledIInv, OwnInv, phase = "live", NEW t \in Streams, NEW a \in Upcoming(t),
           NEW b \in Ids, a <= b, b <= traded[t], Feed(t, a .. b)
    PROVE  OwnDays(hdb') /\ UpTo(rdb', today) /\ day' # None /\ UpTo(rdb', day')
<1> DEFINE d == DayOf[t][b]
<1>0. /\ TypeOK /\ StoreTypeOK /\ rdb \in [Streams -> Table] /\ today \in Nat
      /\ day \in Days \cup {None} /\ day \in Nat
  BY TypesFacts, Numbers DEF FilledIInv, StoreTypeOK
<1>1. /\ a \in Ids /\ a .. b \subseteq Ids /\ Max(a .. b) = b
      /\ d \in Days /\ d \in Nat /\ d # None
      /\ \A i \in a .. b : DayOf[t][i] <= d
  BY <1>0, RunIs, UpcomingTyped, DayOfTyped, DayOfMonotone, TypesFacts, Numbers
<1>2. d <= today
  BY DEF FilledIInv, World
<1>3. /\ day' = IF day = None \/ Past(d) THEN d ELSE day
      /\ hdb' = IF Past(d) THEN SavedDown(day) ELSE hdb
      /\ rdb' = Inserted(IF Past(d) THEN EmptyTables ELSE rdb, t, a .. b)
  BY <1>1 DEF Feed
<1> HIDE DEF d
<1>4. CASE Past(d)
  <2>1. day # None /\ day \in Days /\ day' = d
    BY <1>0, <1>3, <1>4 DEF Past
  <2>2. OwnDays(hdb')
    BY <1>0, <1>3, <1>4, <2>1, SavedOwn DEF OwnInv
  <2>3. UpTo(rdb', d)
    BY <1>1, <1>3, <1>4, EmptyUpTo, TablesTyped, InsertedUpTo
  <2> QED BY <1>0, <1>1, <1>2, <2>1, <2>2, <2>3, UpToLater
<1>5. CASE ~Past(d) /\ day # None
  <2>1. day' = day /\ d <= day
    BY <1>0, <1>1, <1>3, <1>5 DEF Past
  <2>2. \A i \in a .. b : DayOf[t][i] <= day /\ DayOf[t][i] <= today
    <3>1. \A i \in a .. b : DayOf[t][i] \in Nat
      BY <1>1, DayOfTyped
    <3> QED BY <1>0, <1>1, <1>2, <2>1, <3>1
  <2>3. UpTo(rdb', day) /\ UpTo(rdb', today)
    BY <1>0, <1>3, <1>5, <2>2, InsertedUpTo DEF OwnInv
  <2> QED BY <1>3, <1>5, <2>1, <2>3 DEF OwnInv
<1>6. CASE day = None
  <2>1. ~Past(d) /\ day' = d
    BY <1>3, <1>6 DEF Past
  <2>2. ASSUME NEW s \in Trades, NEW i \in RowIds(rdb[s])
        PROVE  DayOf[s][i] <= d
    <3>1. i \in Ids /\ s \in Streams /\ DayOf[s][i] \in Nat /\ DayOf[s][i] <= today
      BY DayOfTyped DEF OwnInv, UpTo, RowIds, Streams
    <3>2. CASE t \in Trades /\ lastId[t] = None
      <4>1. DayOf[t][a] = today /\ DayOf[t][a] <= d
        BY <1>1, <3>2, SplitHolds, DayOfMonotone DEF Upcoming, QuotesSplit, d
      <4> QED BY <1>0, <1>1, <3>1, <4>1
    <3>3. CASE t \in Quotes \/ lastId[t] # None
      <4>1. a = Taken(t) + 1 /\ Taken(t) \in Nat
        BY <1>0, <3>3, SplitHolds, TypesFacts DEF Upcoming, Taken, QuotesSplit
      <4>2. Taken(t) < b
        BY <1>1, <4>1, Numbers
      <4> QED BY <1>6, <3>3, <4>2 DEF OwnInv, NotUnder, d
    <3> QED BY <3>2, <3>3, SplitHolds DEF QuotesSplit
  <2>3. UpTo(rdb, d)
    BY <2>2 DEF UpTo
  <2>4. UpTo(rdb', d)
    BY <1>0, <1>1, <1>3, <2>1, <2>3, InsertedUpTo
  <2> QED BY <1>0, <1>1, <1>2, <1>3, <2>1, <2>4, UpToLater DEF OwnInv
<1> QED BY <1>4, <1>5, <1>6

LEMMA OwnNext ==
    ASSUME QuietStartup, ~OldQuotesKept, FilledIInv, OwnInv, [Next]_vars
    PROVE  OwnInv'
<1>0. /\ TypeOK /\ StoreTypeOK /\ rdb \in [Streams -> Table] /\ today \in Nat /\ today' \in Nat
      /\ today <= today' /\ plan \subseteq Days /\ \A d \in plan : d < today /\ d \in Nat
      /\ phase \in {"backfill", "prune", "bridge"} => today' = today
      /\ day \in Days \cup {None} /\ (day # None => phase = "live")
      /\ plan # {} => phase = "backfill"
  BY TypesFacts, WorldNext, QuietNext, Numbers DEF FilledIInv, PlanInv, LiveInv, StoreTypeOK
<1>1. CASE UNCHANGED vars \/ Midnight \/ ArchivePublish \/ \E s \in Streams : Trade(s)
  <2>1. UNCHANGED <<rdb, hdb, day, delivered, phase, plan, lastId>>
    BY <1>1 DEF vars, Midnight, ArchivePublish, Trade, storeVars, brokerVars, runVars
  <2>2. UpTo(rdb, today')
    BY <1>0, UpToLater DEF OwnInv
  <2> QED BY <1>0, <2>1, <2>2 DEF OwnInv, NotUnder, Taken, UpTo, OwnDays
<1>2. CASE StartRun
  <2>1. phase = "start" /\ phase' = "backfill" /\ UNCHANGED <<rdb, hdb, day, today>>
    BY <1>2 DEF StartRun, storeVars, worldVars
  <2> QED BY <1>0, <2>1, EmptyUpTo DEF OwnInv
<1>3. CASE SkipDay \/ FinishRun \/ \E s \in Trades : FetchMissing(s)
  <2>1. /\ phase = "backfill" /\ phase' \in {"backfill", "prune"} /\ plan' \subseteq plan
        /\ UNCHANGED <<rdb, hdb, day, today>>
    BY <1>3 DEF SkipDay, FinishRun, FetchMissing, Filling, storeVars, worldVars, runVars
  <2> QED BY <1>0, <2>1 DEF OwnInv
<1>4. ASSUME NEW s \in Trades, FetchSymbol(s) \/ FetchFailed(s)
      PROVE  OwnInv'
  <2>1. /\ phase = "backfill" /\ plan # {} /\ UNCHANGED <<phase, plan, hdb, day, today>>
        /\ \E ids \in SUBSET IdsOf(s, Min(plan)) : rdb' = Inserted(rdb, s, ids)
    BY <1>4 DEF FetchSymbol, FetchFailed, Filling, worldVars
  <2>2. PICK ids \in SUBSET IdsOf(s, Min(plan)) : rdb' = Inserted(rdb, s, ids)
    BY <2>1
  <2>3. Min(plan) \in plan /\ \A d \in plan : Min(plan) <= d
    BY <1>0, <2>1, MinIs
  <2>4. \A i \in ids \cap Ids : DayOf[s][i] = Min(plan)
    BY DEF IdsOf
  <2>5. s \in Streams
    BY DEF Streams
  <2>6. ASSUME NEW d \in plan
        PROVE  UpTo(rdb', d)
    BY <2>1, <2>2, <2>3, <2>4, <2>5, <1>0, InsertedUpTo DEF OwnInv
  <2>7. UpTo(rdb', today)
    BY <2>2, <2>3, <2>4, <2>5, <1>0, InsertedUpTo DEF OwnInv
  <2> QED BY <1>0, <2>1, <2>6, <2>7 DEF OwnInv
<1>5. CASE FinishDay
  <2> DEFINE d == Min(plan)
  <2>1. /\ phase = "backfill" /\ phase' = "backfill" /\ plan # {} /\ plan' \subseteq plan
        /\ UNCHANGED <<day, today>> /\ rdb' \in {rdb, EmptyTables} /\ hdb' \in {hdb, SavedDown(d)}
    BY <1>5 DEF FinishDay, worldVars
  <2>2. d \in plan /\ d \in Days
    BY <1>0, <2>1, MinIs
  <2> HIDE DEF d
  <2>3. OwnDays(hdb')
    BY <1>0, <2>1, <2>2, SavedOwn DEF OwnInv
  <2> QED BY <1>0, <2>1, <2>3, EmptyUpTo DEF OwnInv
<1>6. CASE Prune
  <2>1. /\ phase = "prune" /\ phase' = "bridge" /\ UNCHANGED <<rdb, day, lastId, today>>
        /\ hdb' = [d \in Days |-> IF Expired(d) /\ d \in Held THEN EmptyTables ELSE hdb[d]]
    BY <1>6 DEF Prune, worldVars
  <2>2. OwnDays(hdb')
    <3>1. \A e \in Days : hdb'[e] \in {hdb[e], EmptyTables}
      BY <2>1
    <3> QED BY <3>1, EmptyUpTo DEF OwnInv, OwnDays
  <2>3. \A s \in Trades : NotUnder(s, today)'
    BY <2>1, SplitHolds, TypesFacts DEF FilledIInv, LiveInv, NotUnder, QuotesSplit
  <2> QED BY <1>0, <2>1, <2>2, <2>3 DEF OwnInv
<1>7. ASSUME NEW s \in Trades, StartupBridge(s)
      PROVE  OwnInv'
  <2> DEFINE floor == MaxStoredId(s)
  <2>1. /\ phase = "bridge" /\ UNCHANGED <<hdb, day, phase, today>>
        /\ \/ UNCHANGED <<rdb, lastId>>
           \/ /\ rdb' = Inserted(rdb, s, BridgeStart(floor) .. traded[s])
              /\ lastId' = [lastId EXCEPT ![s] = FloorAfter(s, floor)]
    BY <1>7 DEF StartupBridge, worldVars
  <2>2. traded[s] <= FloorAfter(s, floor) /\ FloorAfter(s, floor) \in Nat /\ s \in Streams
    BY <1>0, MaxStoredTyped, FloorTyped, TypesFacts, Numbers
  <2> DEFINE ids == BridgeStart(floor) .. traded[s]
  <2>3. \A i \in ids \cap Ids : DayOf[s][i] <= today
    <3>1. \A i \in ids : i <= traded[s]
      OBVIOUS
    <3> HIDE DEF ids
    <3> QED BY <2>2, <3>1 DEF FilledIInv, World
  <2> HIDE DEF floor, ids
  <2>4. UpTo(rdb', today)
    <3>1. UpTo(rdb, today) /\ rdb' \in {rdb, Inserted(rdb, s, ids)}
      BY <2>1 DEF OwnInv, ids
    <3>2. UpTo(Inserted(rdb, s, ids), today)
      BY <1>0, <2>2, <2>3, <3>1, InsertedUpTo
    <3> QED BY <3>1, <3>2
  <2>5. ASSUME NEW t \in Trades
        PROVE  NotUnder(t, today)'
    <3>1. NotUnder(t, today) /\ t \in Streams /\ t \notin Quotes
      BY <2>1, SplitHolds, TypesFacts, <1>0 DEF OwnInv, QuotesSplit
    <3>2. CASE lastId'[t] = lastId[t]
      BY <2>1, <3>1, <3>2 DEF NotUnder, Taken
    <3>3. CASE lastId'[t] # lastId[t]
      <4>1. lastId'[t] = FloorAfter(t, floor) /\ t = s
        BY <1>0, <2>1, <3>3, TypesFacts
      <4>2. ASSUME NEW i \in Ids, lastId'[t] < i
            PROVE  today <= DayOf[t][i]
        <5>1. ~(i <= traded[t]) /\ DayOf[t][i] \in Nat
          BY <1>0, <2>2, <3>1, <4>1, <4>2, TypesFacts, Numbers, DayOfTyped
        <5>2. ~(DayOf[t][i] < today)
          BY <3>1, <5>1 DEF FilledIInv, World
        <5> QED BY <1>0, <5>1, <5>2
      <4> QED BY <2>1, <3>1, <4>2 DEF NotUnder, Taken
    <3> QED BY <3>2, <3>3
  <2> QED BY <1>0, <2>1, <2>4, <2>5 DEF OwnInv
<1>8. CASE GoLive
  <2>1. /\ phase = "bridge" /\ phase' = "live" /\ UNCHANGED <<rdb, hdb, day, lastId, today>>
        /\ delivered' = [q \in Quotes |->
              IF ~session THEN traded[q] ELSE Max({delivered[q], Before(q, today)})]
    BY <1>8 DEF GoLive, storeVars, worldVars, runVars
  <2>2. ASSUME NEW t \in Streams
        PROVE  NotUnder(t, today)'
    <3>1. CASE t \in Quotes
      <4>1. ASSUME NEW j \in Ids, delivered'[t] < j
            PROVE  today <= DayOf[t][j]
        BY <1>0, <1>8, <3>1, <4>1, DeliveredLater DEF FilledIInv
      <4> QED BY <2>1, <3>1, <4>1, SplitHolds DEF NotUnder, Taken, QuotesSplit
    <3>2. CASE t \in Trades
      <4>1. NotUnder(t, today)
        BY <2>1, <3>2 DEF OwnInv
      <4> QED BY <2>1, <3>2, <4>1, SplitHolds DEF NotUnder, Taken, QuotesSplit
    <3> QED BY <3>1, <3>2, SplitHolds DEF QuotesSplit
  <2>3. ASSUME NEW s \in Trades, NEW t \in Streams, NEW i \in RowIds(rdb[s])
        PROVE  NotUnder(t, DayOf[s][i])'
    <3>1. i \in Ids /\ s \in Streams
      BY DEF RowIds, Streams
    <3>2. DayOf[s][i] <= today /\ DayOf[s][i] \in Nat
      BY <3>1, DayOfTyped DEF OwnInv, UpTo
    <3>3. ASSUME NEW j \in Ids, today <= DayOf[t][j]
          PROVE  DayOf[s][i] <= DayOf[t][j]
      <4>1. DayOf[t][j] \in Nat
        BY DayOfTyped
      <4> QED BY <1>0, <3>2, <3>3, <4>1
    <3>4. NotUnder(t, today)' /\ today' = today
      BY <2>1, <2>2
    <3> QED BY <3>3, <3>4 DEF NotUnder, Taken
  <2> QED BY <1>0, <2>1, <2>3 DEF OwnInv
<1>9. ASSUME NEW t \in Streams, LiveTrade(t) \/ LiveQuote(t)
      PROVE  OwnInv'
  <2>1. PICK a \in Upcoming(t), b \in 1 .. traded[t] : a <= b /\ Feed(t, a .. b)
    BY <1>9 DEF LiveTrade, LiveQuote
  <2>2. phase = "live" /\ UNCHANGED <<phase, plan, today>>
    BY <1>9 DEF LiveTrade, LiveQuote, worldVars, brokerVars, runVars
  <2>3. b \in Ids /\ b <= traded[t]
    BY <1>0, RangeTyped, TypesFacts
  <2>4. OwnDays(hdb') /\ UpTo(rdb', today) /\ day' # None /\ UpTo(rdb', day')
    BY <2>1, <2>2, <2>3, OwnFed
  <2> QED BY <2>2, <2>4 DEF OwnInv
<1>10. CASE Stop \/ Crash
  <2>1. /\ phase' \in {"start", "stopped"} /\ day' = None /\ plan' = {} /\ today' = today
        /\ phase' = "start" => rdb' = EmptyTables
        /\ rdb' \in {rdb, EmptyTables}
        /\ hdb' = hdb \/ (day # None /\ hdb' = SavedDown(day))
    BY <1>10 DEF Stop, Crash, Flush, LoseMemory, Forget, worldVars
  <2>2. OwnDays(hdb')
    BY <1>0, <2>1, SavedOwn DEF OwnInv
  <2> QED BY <2>1, <2>2, EmptyUpTo DEF OwnInv
<1>11. CASE Restart
  <2>1. phase' = "start" /\ day' = None /\ rdb' = EmptyTables /\ UNCHANGED <<hdb, plan, today>>
    BY <1>11 DEF Restart, worldVars, runVars
  <2> QED BY <2>1, EmptyUpTo DEF OwnInv
<1> QED BY <1>1, <1>2, <1>3, <1>4, <1>5, <1>6, <1>7, <1>8, <1>9, <1>10, <1>11, TypesFacts, <1>0
        DEF Next, Main

LEMMA InitOwn == Init => OwnInv
<1> SUFFICES ASSUME Init PROVE OwnInv
  OBVIOUS
<1>1. rdb = EmptyTables /\ day = None /\ phase = "start" /\ \A e \in Days : hdb[e] = EmptyTables
  BY DEF Init
<1> QED BY <1>1, EmptyUpTo DEF OwnInv, OwnDays

\* No trade is saved under a day before its own, whatever fails: what run() fetches is of
\* the day it saves or of one before it, and the roller never saves a day down with trades
\* of a later one in memory (backfill.py run_backfill, RdbRoller).
THEOREM NeverBeforeItsDay ==
    ASSUME QuietStartup, ~OldQuotesKept
    PROVE  Spec => []NotBeforeItsDay
<1>1. Init => FilledIInv /\ OwnInv
  BY FilledInductive, InitOwn
<1>2. FilledIInv /\ OwnInv /\ [Next]_vars => (FilledIInv /\ OwnInv)'
  BY FilledInductive, OwnNext
<1>3. OwnInv => NotBeforeItsDay
  BY DEF OwnInv, OwnDays, UpTo, NotBeforeItsDay
<1> QED BY <1>1, <1>2, <1>3, PTL DEF Spec
=============================================================================
