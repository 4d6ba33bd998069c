-------------------------- MODULE WriterLifecycle --------------------------
(***************************************************************************)
(* The life of the 4B writer process over days (platform/app.py): fill the  *)
(* rolling window from the archive (backfill.run), prune what is older,     *)
(* bridge to the tip over REST, then follow the live stream, rolling the    *)
(* RDB into a partition when the data crosses midnight.  It may be stopped  *)
(* or crash at any point and is started again (writer.service).             *)
(*                                                                          *)
(* One main thread; meanwhile the clock, the exchange and the archive move  *)
(* on.  The live feed is what FeedHandler shows of it without faults: every *)
(* trade above the floor once, each symbol in order, in batches.  Quotes    *)
(* have no archive and no bridge: they come from the broker only, which     *)
(* keeps those it has not delivered over a restart of the writer.           *)
(***************************************************************************)
EXTENDS HdbStore

CONSTANTS
    Window,         \* BACKFILL_DAYS
    FirstDay,       \* the UTC date the writer is first started
    MaxCrashes,     \* bound: crashes of the process
    MaxStops,       \* bound: SIGTERMs
    MaxFetchFaults, \* bound: archive fetches that fail, before or after some rows
    MaxFaults,      \* bound: all of these together
    ArchiveLag,     \* days the archive may be late with a day that is over
    Straddle,       \* rows of a stream that a batch may hold of a day before its last
    QuietStartup,   \* TRUE: after a start, some row of the same day is still to come live
    OldQuotesKept   \* TRUE: quotes of earlier days are still queued when the writer goes live

ASSUME LifecycleAssumption ==
    /\ Window \in Nat /\ FirstDay \in Days
    /\ MaxCrashes \in Nat /\ MaxStops \in Nat /\ MaxFetchFaults \in Nat /\ MaxFaults \in Nat
    /\ ArchiveLag \in Nat /\ Straddle \in Nat
    /\ QuietStartup \in BOOLEAN /\ OldQuotesKept \in BOOLEAN

VARIABLES
    today,      \* the UTC date
    traded,     \* traded[s]: newest row of s on the exchange
    session,    \* the broker holds a session for the writer
    delivered,  \* delivered[q]: newest quote the broker has delivered, or no longer has
    archived,   \* the newest day the archive has published
    phase,      \* where main() is
    plan,       \* run: dates left to look at
    existing,   \* run: existing_partition_dates at its start
    todo,       \* symbols left, of the date being filled or to be bridged
    wrote,      \* run_backfill: some symbol of the date was written
    filled,     \* dates this run() has written
    lastId,     \* FeedHandler._last_id, of the trades
    strayed,    \* trades left when the roller went past their day
    faults      \* how often each fault has happened

worldVars  == <<today, traded, archived>>
brokerVars == <<session, delivered>>
runVars    == <<plan, existing, todo, wrote, filled>>
vars == <<storeVars, worldVars, brokerVars, phase, runVars, lastId, strayed, faults>>

Phases == {"start", "backfill", "prune", "bridge", "live", "stopped"}

TypeOK ==
    /\ StoreTypeOK
    /\ today \in Days /\ archived \in Days \cup {None}
    /\ traded \in [Streams -> Ids \cup {None}]
    /\ session \in BOOLEAN /\ delivered \in [Quotes -> Ids \cup {None}]
    /\ \A q \in Quotes : delivered[q] <= traded[q]
    /\ phase \in Phases
    /\ plan \subseteq Days /\ existing \subseteq Days /\ filled \subseteq Days
    /\ todo \subseteq Trades /\ wrote \in BOOLEAN
    /\ lastId \in [Trades -> Ids \cup {None}] /\ strayed \in [Trades -> SUBSET Ids]
    /\ faults \in [{"crash", "stop", "fetch"} -> Nat]

IdsOf(s, d) == {i \in Ids : DayOf[s][i] = d}

Before(s, d) == LastOf({i \in Ids : DayOf[s][i] < d})

(* A first start: an empty HDB, and an archive of the days before.          *)
Init ==
    /\ rdb = EmptyTables /\ hdb = [d \in Days |-> EmptyTables] /\ day = None
    /\ today = FirstDay /\ archived = FirstDay - 1
    /\ traded = [s \in Streams |-> Before(s, FirstDay)]
    /\ session = FALSE /\ delivered = [q \in Quotes |-> Before(q, FirstDay)]
    /\ phase = "start"
    /\ plan = {} /\ existing = {} /\ todo = {} /\ wrote = FALSE
    /\ filled = {}
    /\ lastId = [s \in Trades |-> None] /\ strayed = [s \in Trades |-> {}]
    /\ faults = [f \in {"crash", "stop", "fetch"} |-> 0]

Fault(f, max) ==
    /\ faults[f] < max /\ faults["crash"] + faults["stop"] + faults["fetch"] < MaxFaults
    /\ faults' = [faults EXCEPT ![f] = @ + 1]

-----------------------------------------------------------------------------
(* Environment: the clock, the exchange, the archive.                       *)

\* Nothing more is traded today, given what is traded by now, and a day follows.
MidnightNear(by) == today < MaxDay /\ \A s \in Streams : IdsOf(s, today) \subseteq 1 .. by[s]

Midnight ==
    /\ MidnightNear(traded)
    /\ today - archived <= ArchiveLag
    /\ today' = today + 1
    /\ UNCHANGED <<storeVars, traded, archived, brokerVars, phase, runVars, lastId, strayed, faults>>

Trade(s) ==
    /\ traded[s] < MaxId
    /\ DayOf[s][traded[s] + 1] = today
    /\ traded' = [traded EXCEPT ![s] = @ + 1]
    /\ QuietStartup /\ MidnightNear(traded') => phase \in {"start", "stopped", "live"}
    /\ UNCHANGED <<storeVars, today, archived, brokerVars, phase, runVars, lastId, strayed, faults>>

ArchivePublish ==
    /\ archived + 1 < today
    /\ archived' = archived + 1
    /\ UNCHANGED <<storeVars, today, traded, brokerVars, phase, runVars, lastId, strayed, faults>>

-----------------------------------------------------------------------------
(* backfill.run: plan the Window days before today, and look at each in     *)
(* turn.  A date with a partition is skipped; for another, each symbol is   *)
(* fetched into the RDB, and the date saved down if any of them succeeded.  *)

Held == PartitionsOf(Trades)    \* existing_partition_dates

MutantPlanDates == {d \in Days : today - Window < d /\ d < today}
PlanDates == {d \in Days : today - Window <= d /\ d < today}

StartRun ==
    /\ phase = "start"
    /\ QuietStartup => ~MidnightNear(traded)
    /\ phase' = "backfill"
    /\ plan' = PlanDates /\ existing' = Held /\ todo' = Trades
    /\ wrote' = FALSE /\ filled' = {}
    /\ UNCHANGED <<storeVars, worldVars, brokerVars, lastId, strayed, faults>>

Skipped(d) == d \in existing

SkipDay ==
    /\ phase = "backfill" /\ plan # {} /\ Skipped(Min(plan))
    /\ plan' = plan \ {Min(plan)}
    /\ UNCHANGED <<storeVars, worldVars, brokerVars, phase, existing, todo, wrote, filled,
                   lastId, strayed, faults>>

Filling(s) == phase = "backfill" /\ plan # {} /\ ~Skipped(Min(plan)) /\ s \in todo

FetchSymbol(s) ==
    /\ Filling(s) /\ Min(plan) <= archived
    /\ rdb' = Inserted(rdb, s, IdsOf(s, Min(plan)))
    /\ wrote' = TRUE
    /\ todo' = todo \ {s}
    /\ UNCHANGED <<hdb, day, worldVars, brokerVars, phase, plan, existing, filled, lastId, strayed, faults>>

FetchMissing(s) ==
    /\ Filling(s) /\ Min(plan) > archived
    /\ todo' = todo \ {s}
    /\ UNCHANGED <<storeVars, worldVars, brokerVars, phase, plan, existing, wrote, filled, lastId, strayed, faults>>

(* The fetch, or the insert of some chunk, raises: the rows of the          *)
(* chunks before it stay in the RDB.                                        *)
FetchFailed(s) ==
    /\ Filling(s) /\ Min(plan) <= archived
    /\ Fault("fetch", MaxFetchFaults)
    /\ \E i \in Ids \cup {MaxId + 1} :
        rdb' = Inserted(rdb, s, {j \in IdsOf(s, Min(plan)) : j < i})
    /\ todo' = todo \ {s}
    /\ UNCHANGED <<hdb, day, worldVars, brokerVars, phase, plan, existing, wrote, filled, lastId, strayed>>

FinishDay ==
    /\ phase = "backfill" /\ plan # {} /\ ~Skipped(Min(plan)) /\ todo = {}
    /\ hdb' = IF wrote THEN SavedDown(Min(plan)) ELSE hdb
    /\ rdb' = IF wrote THEN EmptyTables ELSE rdb
    /\ filled' = IF wrote THEN filled \cup {Min(plan)} ELSE filled
    /\ plan' = plan \ {Min(plan)} /\ todo' = Trades /\ wrote' = FALSE
    /\ UNCHANGED <<day, worldVars, brokerVars, phase, existing, lastId, strayed, faults>>

FinishRun ==
    /\ phase = "backfill" /\ plan = {}
    /\ phase' = "prune"
    /\ UNCHANGED <<storeVars, worldVars, brokerVars, runVars, lastId, strayed, faults>>

(* prune: it reads the clock again.                                         *)
MutantExpired(d) == d <= today - Window
Expired(d) == d < today - Window

Prune ==
    /\ phase = "prune"
    /\ phase' = "bridge" /\ todo' = Trades
    /\ hdb' = [d \in Days |-> IF Expired(d) /\ d \in Held THEN EmptyTables ELSE hdb[d]]
    /\ UNCHANGED <<rdb, day, worldVars, brokerVars, plan, existing, wrote, filled, lastId, strayed, faults>>

-----------------------------------------------------------------------------
(* FeedHandler.run: bridge every symbol to the tip and take its floor, then *)
(* feed what arrives.  A symbol without a stored id is not bridged, and     *)
(* starts with whichever of today's trades the broker hands over first.     *)
(* Then the session starts, or resumes with what the broker has queued.     *)

MutantBridgeStartRepeats(floor) == floor
BridgeStart(floor) == floor + 1

MutantFloorAfterNext(s, floor) == IF floor < traded[s] THEN traded[s] + 1 ELSE floor
FloorAfter(s, floor) == IF floor < traded[s] THEN traded[s] ELSE floor

StartupBridge(s) ==
    /\ phase = "bridge" /\ s \in todo
    /\ LET floor == MaxStoredId(s)
       IN  IF floor = None
           THEN UNCHANGED <<rdb, lastId>>
           ELSE /\ rdb' = Inserted(rdb, s, BridgeStart(floor) .. traded[s])
                /\ lastId' = [lastId EXCEPT ![s] = FloorAfter(s, floor)]
    /\ todo' = todo \ {s}
    /\ UNCHANGED <<hdb, day, worldVars, brokerVars, phase, plan, existing, wrote, filled, strayed, faults>>

GoLive ==
    /\ phase = "bridge" /\ todo = {}
    /\ phase' = "live"
    /\ session' = TRUE
    /\ delivered' = [q \in Quotes |->
          IF ~session THEN traded[q]
          ELSE IF OldQuotesKept THEN delivered[q]
          ELSE Max({delivered[q], Before(q, today)})]
    /\ UNCHANGED <<storeVars, worldVars, runVars, lastId, strayed, faults>>

(* What the broker has to hand over next of a stream.                       *)
Upcoming(s) ==
    IF s \in Quotes THEN {delivered[s] + 1} \cap 1 .. traded[s]
    ELSE IF lastId[s] # None THEN {lastId[s] + 1} \cap 1 .. traded[s]
    ELSE {i \in 1 .. traded[s] : DayOf[s][i] = today}

Waiting(s, d) == {j \in UNION {i .. traded[s] : i \in Upcoming(s)} : DayOf[s][j] < d}

(* Rows a .. b of a stream are its part of a batch.  Symbols take turns,    *)
(* trades before quotes, so rows of a day can be applied after such of a    *)
(* later day, or with them: as many as a batch holds.                       *)
InABatch(s, b) == \A t \in Streams : Cardinality(Waiting(t, DayOf[s][b])) <= Straddle

\* The trades, of this batch or still to come, of days the roller has left.
Strays == [t \in Trades |-> strayed[t] \cup Waiting(t, day')]

LiveTrade(s) ==
    /\ phase = "live"
    /\ \E a \in Upcoming(s), b \in 1 .. traded[s] :
        /\ a <= b /\ InABatch(s, b)
        /\ Feed(s, a .. b)
        /\ lastId' = [lastId EXCEPT ![s] = b]
    /\ strayed' = Strays
    /\ UNCHANGED <<worldVars, brokerVars, phase, runVars, faults>>

LiveQuote(q) ==
    /\ phase = "live"
    /\ \E a \in Upcoming(q), b \in 1 .. traded[q] :
        /\ a <= b /\ InABatch(q, b)
        /\ Feed(q, a .. b)
        /\ delivered' = [delivered EXCEPT ![q] = b]
    /\ strayed' = Strays
    /\ UNCHANGED <<worldVars, session, phase, runVars, lastId, faults>>

-----------------------------------------------------------------------------
(* The end of the process.  A SIGTERM during the bridge is seen once live;  *)
(* before that it is a crash.                                               *)

Forget ==
    /\ plan' = {} /\ existing' = {} /\ todo' = {} /\ wrote' = FALSE
    /\ filled' = {}
    /\ lastId' = [s \in Trades |-> None]
    /\ UNCHANGED <<worldVars, brokerVars, strayed>>

Stop ==
    /\ phase = "live"
    /\ Fault("stop", MaxStops)
    /\ Flush
    /\ Forget
    /\ phase' = "stopped"

Crash ==
    /\ phase \notin {"start", "stopped"}
    /\ Fault("crash", MaxCrashes)
    /\ LoseMemory
    /\ Forget
    /\ phase' = "start"

Restart ==
    /\ phase = "stopped"
    /\ phase' = "start"
    /\ rdb' = EmptyTables /\ day' = None
    /\ UNCHANGED <<hdb, worldVars, brokerVars, runVars, lastId, strayed, faults>>

Main ==
    \/ StartRun \/ SkipDay \/ FinishDay \/ FinishRun \/ Prune \/ GoLive \/ Restart
    \/ \E s \in Trades : FetchSymbol(s) \/ FetchMissing(s) \/ StartupBridge(s) \/ LiveTrade(s)
    \/ \E q \in Quotes : LiveQuote(q)

Next ==
    \/ Main
    \/ Midnight \/ ArchivePublish
    \/ \E s \in Streams : Trade(s)
    \/ \E s \in Trades : FetchFailed(s)
    \/ Stop \/ Crash

Spec == Init /\ [][Next]_vars

-----------------------------------------------------------------------------
(* A live store has no hole, however often the writer crashes: backfill,    *)
(* pruning, bridge and stream meet.  What may be missing is a trade that a  *)
(* batch carried over midnight, when the writer crashes after it.  A fetch  *)
(* that fails half way and a restart after a SIGTERM do leave holes; so do  *)
(* quotes of an earlier day that a start finds queued (OldQuotesKept): they *)
(* turn the roller back to a day that backfill has just written.            *)
NoFaultsButCrashes == faults["fetch"] = 0 /\ faults["stop"] = 0

NoHoles ==
    phase = "live" /\ NoFaultsButCrashes =>
        \A s \in Trades : \A i, j \in Stored(s) : i .. j \subseteq Stored(s) \cup strayed[s]

(* The store stays gap-free across restarts (DEPLOY.md).                    *)
StaysGapFree ==
    phase = "live" /\ NoFaultsButCrashes =>
        \A s \in Trades : \A i, j \in Stored(s) : i .. j \subseteq Stored(s)

(* Bridge and stream bring no trade that is stored, and no two partitions   *)
(* share one, except that the archive may bring it once more, into the      *)
(* partition of its own day.                                                *)
Elsewhere(s, i) == {d \in Days \ {DayOf[s][i]} : hdb[d][s][i] > 0}

OneLiveCopy ==
    NoFaultsButCrashes =>
        \A s \in Trades, i \in Ids :
            /\ Cardinality(Elsewhere(s, i)) <= 1
            /\ \A d \in Days : hdb[d][s][i] <= 1
            /\ phase \in {"bridge", "live"} /\ rdb[s][i] > 0 =>
                    rdb[s][i] = 1 /\ \A d \in Days : hdb[d][s][i] = 0

(* No trade is in the partition of a day before its own, whatever fails.    *)
NotBeforeItsDay ==
    \A d \in Days, s \in Trades : \A i \in RowIds(hdb[d][s]) : DayOf[s][i] <= d

(* Nothing this process does touches a day its run() wrote.                 *)
FilledDaysKept == [][\A d \in filled : hdb'[d] = hdb[d]]_vars

(* Every trade is eventually in a partition, of its own day or a later one, *)
(* or in the RDB of a running writer, unless the writer is down until its   *)
(* day is older than the window, or it strayed.                             *)
Kept(s, i) ==
    \/ rdb[s][i] > 0
    \/ \E d \in Days : DayOf[s][i] <= d /\ hdb[d][s][i] > 0

EventuallySaved ==
    <>[](NoFaultsButCrashes =>
            \A s \in Trades, i \in Ids :
                DayOf[s][i] >= FirstDay - Window =>
                    Kept(s, i) \/ Expired(DayOf[s][i]) \/ i \in strayed[s])

(* The process runs and is restarted, time passes, markets trade and the    *)
(* archive publishes.  With the bounds every behaviour comes to an end, so  *)
(* it is enough that it does not end while any of them can go on.           *)
Progress == ArchivePublish \/ Midnight \/ (\E s \in Streams : Trade(s)) \/ Main

FairSpec == Spec /\ WF_vars(Progress)
=============================================================================
