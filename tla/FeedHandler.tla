---------------------------- MODULE FeedHandler ----------------------------
(***************************************************************************)
(* The live feed handler of the 4B writer (resources/feedhandler.py) with   *)
(* the REST bridge (backfill.bridge), over the store of HdbStore and the    *)
(* broker session of MqttSession.                                           *)
(*                                                                          *)
(* Two threads share the bounded queue and pendingRebridge: paho's network  *)
(* thread (Connect, Deliver) only enqueues and flags; the main thread       *)
(* bridges, deduplicates and inserts.  A REST page is one step, so that     *)
(* network callbacks interleave with a bridge in progress.                  *)
(***************************************************************************)
EXTENDS HdbStore, MqttSession

CONSTANTS
    QueueMax,       \* QUEUE_MAXSIZE
    BatchMax,       \* BATCH_MAX
    Page,           \* the REST page size, TRADES_LIMIT
    RestLead,       \* how far REST may be ahead of the published trades
    RestLag,        \* how far REST may be behind them
    MaxCrashes,     \* bound: crashes of the process
    MaxStops,       \* bound: SIGTERMs
    MaxOutages,     \* bound: losses of the broker connection
    MaxSessionLoss, \* bound: losses of the broker's session
    ClocksSynced,   \* TRUE: no stream crosses midnight after another one has (NTP, DEPLOY.md)
    QuietReconnect  \* TRUE: reconnects only find the main thread idle and its queue empty

ASSUME SizesAssumption ==
    /\ QueueMax \in Nat \ {0} /\ BatchMax \in Nat \ {0} /\ Page \in Nat \ {0}
    /\ RestLead \in Nat /\ RestLag \in Nat
    /\ MaxCrashes \in Nat /\ MaxStops \in Nat /\ MaxOutages \in Nat /\ MaxSessionLoss \in Nat
    /\ QuietReconnect \in BOOLEAN /\ ClocksSynced \in BOOLEAN

VARIABLES
    published,        \* published[s]: newest id the ingest has published
    queue,            \* _queue: records handed from the network thread to the main thread
    pendingRebridge,  \* _pending_rebridge
    connectedOnce,    \* _connected_once
    mode,             \* where the main thread is
    todo,             \* symbols the startup loop of run() has not bridged yet
    batch,            \* the records of the batch being applied
    lastId,           \* _last_id and _last_quote_id, the dedup floors
    br,               \* the bridge in progress: symbol, target (None: the tip), next id to fetch
    faults            \* how often each fault has happened

mainVars == <<mode, todo, batch, lastId, br>>
vars == <<storeVars, sessionVars, published, queue, pendingRebridge, connectedOnce, mainVars, faults>>

Record == [stream : Streams, id : Ids]
Modes  == {"startup", "live", "bridge", "bridged", "stopped"}
Faults == {"crash", "stop", "outage", "session"}
NoBridge == [sym |-> "none", target |-> None, next |-> None]

TypeOK ==
    /\ StoreTypeOK
    /\ subscribed \in BOOLEAN /\ linkUp \in BOOLEAN /\ backlog \in Seq(Record)
    /\ published \in [Streams -> Ids]
    /\ queue \in Seq(Record) /\ Len(queue) <= QueueMax
    /\ pendingRebridge \subseteq Trades
    /\ connectedOnce \in BOOLEAN
    /\ mode \in Modes /\ todo \subseteq Trades /\ batch \subseteq Record
    /\ lastId \in [Streams -> Ids \cup {None}]
    /\ br \in [sym : Trades, target : Ids \cup {None}, next : Nat] \cup {NoBridge}
    /\ faults \in [Faults -> Nat]

(* The archive backfill has filled the days before today: row 1 of every    *)
(* stream stands for them.                                                  *)
InitTables(d) == [s \in Streams |-> [i \in Ids |-> IF i = 1 /\ DayOf[s][1] = d THEN 1 ELSE 0]]

Init ==
    /\ rdb = EmptyTables /\ day = None
    /\ hdb = [d \in Days |-> InitTables(d)]
    /\ SessionInit
    /\ published = [s \in Streams |-> 1]
    /\ queue = <<>> /\ pendingRebridge = {} /\ connectedOnce = FALSE
    /\ mode = "startup" /\ todo = Trades /\ batch = {} /\ br = NoBridge
    /\ lastId = [s \in Streams |-> None]
    /\ faults = [f \in Faults |-> 0]

Fault(f, max) == faults[f] < max /\ faults' = [faults EXCEPT ![f] = @ + 1]

-----------------------------------------------------------------------------
(* Environment: the 3A+ publishes the stream in id order.                   *)

Publish(s) ==
    /\ published[s] < MaxId
    /\ ClocksSynced =>
          \A t \in Streams : DayOf[t][published[t]] <= DayOf[s][published[s] + 1]
    /\ published' = [published EXCEPT ![s] = @ + 1]
    /\ Enqueue([stream |-> s, id |-> published[s] + 1])
    /\ UNCHANGED <<storeVars, queue, pendingRebridge, connectedOnce, mainVars, faults>>

-----------------------------------------------------------------------------
(* paho's network thread.  It runs once loop_start has been called: after   *)
(* the startup bridges, until _shutdown.                                    *)

StartingUp == mode = "startup" \/ (mode \in {"bridge", "bridged"} /\ br.target = None)
LoopRunning == ~StartingUp /\ mode # "stopped"

(* _on_connect: subscribe; on a reconnect flag every symbol.                *)
MutantFlaggedNever == pendingRebridge
FlaggedOnConnect == IF connectedOnce THEN Trades ELSE pendingRebridge

Connect ==
    /\ LoopRunning
    /\ QuietReconnect /\ connectedOnce => mode = "live" /\ batch = {} /\ queue = <<>>
    /\ Accept
    /\ pendingRebridge' = FlaggedOnConnect
    /\ connectedOnce' = TRUE
    /\ UNCHANGED <<storeVars, published, queue, mainVars, faults>>

(* _on_message: put_nowait, and a record is dropped when the queue is full. *)
MutantEnqueuedUnbounded(m) == queue' = Append(queue, m)
Enqueued(m) == queue' = IF Len(queue) < QueueMax THEN Append(queue, m) ELSE queue

Deliver ==
    /\ LoopRunning
    /\ Acked
    /\ Enqueued(Head(backlog))
    /\ UNCHANGED <<storeVars, published, pendingRebridge, connectedOnce, mainVars, faults>>

DeliverAckLost ==
    /\ LoopRunning
    /\ Fault("outage", MaxOutages)
    /\ AckLost
    /\ Enqueued(Head(backlog))
    /\ UNCHANGED <<storeVars, published, pendingRebridge, connectedOnce, mainVars>>

LinkLoss ==
    /\ Fault("outage", MaxOutages)
    /\ Disconnect
    /\ UNCHANGED <<storeVars, published, queue, pendingRebridge, connectedOnce, mainVars>>

SessionLoss ==
    /\ subscribed
    /\ Fault("session", MaxSessionLoss)
    /\ LoseSession
    /\ UNCHANGED <<storeVars, published, queue, pendingRebridge, connectedOnce, mainVars>>

-----------------------------------------------------------------------------
(* backfill.bridge: page REST from the highest stored id + 1, up to target  *)
(* (exclusive) or, with target None, up to the tip.  A symbol with no       *)
(* stored id is not bridged at all.                                         *)

BridgeOver(nextId, target) == target # None /\ nextId >= target

StartBridge(s, target) ==
    LET floor == MaxStoredId(s)
    IN  /\ br' = [sym |-> s, target |-> target, next |-> floor + 1]
        /\ mode' = IF floor = None \/ BridgeOver(floor + 1, target) THEN "bridged" ELSE "bridge"

RestTips(s) == {t \in Ids : published[s] - RestLag <= t /\ t <= published[s] + RestLead}

(* The ids of one page that the loop body inserts.                          *)
MutantWantedSkipsFirst(tip) ==
    {i \in Ids : /\ br.next < i /\ i < br.next + Page /\ i <= tip
                 /\ br.target # None => i < br.target}
Wanted(tip) ==
    {i \in Ids : /\ br.next <= i /\ i < br.next + Page /\ i <= tip
                 /\ br.target # None => i < br.target}

ShortPage(ids) == Cardinality(ids) < Page

BridgePage ==
    /\ mode = "bridge"
    /\ \E tip \in RestTips(br.sym) :
        LET ids    == Wanted(tip)
            nextId == IF ids = {} THEN br.next ELSE Max(ids) + 1
        IN  /\ rdb' = IF ids = {} THEN rdb ELSE Inserted(rdb, br.sym, ids)
            /\ br' = [br EXCEPT !.next = nextId]
            /\ mode' = IF ShortPage(ids) \/ BridgeOver(nextId, br.target)
                          THEN "bridged" ELSE "bridge"
    /\ UNCHANGED <<hdb, day, sessionVars, published, queue, pendingRebridge,
                   connectedOnce, todo, batch, lastId, faults>>

-----------------------------------------------------------------------------
(* Main thread, start of run(): bridge each symbol to the tip, then take    *)
(* the dedup floors from the store and flag every symbol.                   *)

StartupBridge(s) ==
    /\ mode = "startup" /\ s \in todo
    /\ StartBridge(s, None)
    /\ UNCHANGED <<storeVars, sessionVars, published, queue, pendingRebridge,
                   connectedOnce, todo, batch, lastId, faults>>

StartupBridged ==
    /\ mode = "bridged" /\ br.target = None
    /\ lastId' = [lastId EXCEPT ![br.sym] = MaxStoredId(br.sym)]
    /\ todo' = todo \ {br.sym}
    /\ mode' = "startup" /\ br' = NoBridge
    /\ UNCHANGED <<storeVars, sessionVars, published, queue, pendingRebridge,
                   connectedOnce, batch, faults>>

GoLive ==
    /\ mode = "startup" /\ todo = {}
    /\ lastId' = [s \in Streams |-> IF s \in Quotes THEN MaxStoredId(s) ELSE lastId[s]]
    /\ pendingRebridge' = Trades
    /\ mode' = "live"
    /\ UNCHANGED <<storeVars, sessionVars, published, queue, connectedOnce,
                   todo, batch, br, faults>>

-----------------------------------------------------------------------------
(* Main thread, loop of run(): drain a batch, apply its trades symbol by    *)
(* symbol, then its quotes.                                                 *)

MutantDrainedButLast == IF Len(queue) < BatchMax THEN Len(queue) - 1 ELSE BatchMax
Drained == IF Len(queue) < BatchMax THEN Len(queue) ELSE BatchMax

Drain ==
    /\ mode = "live" /\ batch = {} /\ queue # <<>>
    /\ batch' = {queue[k] : k \in 1 .. Drained}
    /\ queue' = SubSeq(queue, Drained + 1, Len(queue))
    /\ UNCHANGED <<storeVars, sessionVars, published, pendingRebridge, connectedOnce,
                   mode, todo, lastId, br, faults>>

Group(s) == {m.id : m \in {b \in batch : b.stream = s}}

(* _dedup: the ids above the floor.                                         *)
MutantFreshOrEqual(ids, floor) == {i \in ids : i >= floor}
Fresh(ids, floor) == {i \in ids : i > floor}

ApplyGroup(s, floor) ==
    LET fresh == Fresh(Group(s), floor)
    IN  /\ IF fresh = {} THEN UNCHANGED storeVars ELSE Feed(s, fresh)
        /\ lastId' = [lastId EXCEPT ![s] = IF fresh = {} THEN floor ELSE Max(fresh)]
        /\ batch' = {b \in batch : b.stream # s}

(* _maybe_rebridge, up to the call of bridge: a gap between the floor and   *)
(* the first new trade of a flagged symbol.                                 *)
MutantGapBeforeOffByOne(s) ==
    LET new == Fresh(Group(s), lastId[s])
    IN  lastId[s] # None /\ new # {} /\ Min(new) > lastId[s] + 2
GapBefore(s) ==
    LET new == Fresh(Group(s), lastId[s])
    IN  lastId[s] # None /\ new # {} /\ Min(new) > lastId[s] + 1

Rebridge(s) ==
    /\ mode = "live" /\ Group(s) # {}
    /\ s \in pendingRebridge /\ GapBefore(s)
    /\ StartBridge(s, Min(Fresh(Group(s), lastId[s])))
    /\ UNCHANGED <<storeVars, sessionVars, published, queue, pendingRebridge,
                   connectedOnce, todo, batch, lastId, faults>>

(* The bridge returns: the floor is re-read from the store, the flag is     *)
(* cleared, and the group is applied.                                       *)
Unflag(s) == pendingRebridge \ {s}

Rebridged ==
    /\ mode = "bridged" /\ br.target # None
    /\ ApplyGroup(br.sym, MaxStoredId(br.sym))
    /\ pendingRebridge' = Unflag(br.sym)
    /\ mode' = "live" /\ br' = NoBridge
    /\ UNCHANGED <<sessionVars, published, queue, connectedOnce, todo, faults>>

(* No bridge is needed: a flag is cleared only by a new trade.              *)
ApplyTrades(s) ==
    /\ mode = "live" /\ Group(s) # {}
    /\ ~(s \in pendingRebridge /\ GapBefore(s))
    /\ pendingRebridge' = IF Fresh(Group(s), lastId[s]) = {}
                            THEN pendingRebridge ELSE Unflag(s)
    /\ ApplyGroup(s, lastId[s])
    /\ UNCHANGED <<sessionVars, published, queue, connectedOnce, mode, todo, br, faults>>

ApplyQuotes(s) ==
    /\ mode = "live" /\ Group(s) # {}
    /\ \A b \in batch : b.stream \in Quotes
    /\ ApplyGroup(s, lastId[s])
    /\ UNCHANGED <<sessionVars, published, queue, pendingRebridge, connectedOnce,
                   mode, todo, br, faults>>

-----------------------------------------------------------------------------
(* The end of the process.  A stop is seen between batches: records still   *)
(* queued were acknowledged and are gone, the RDB is flushed.  A crash      *)
(* (a REST failure escaping run(), a power cut) can come at any time.       *)

Dead ==
    /\ linkUp' = FALSE /\ UNCHANGED <<subscribed, backlog, published>>
    /\ queue' = <<>> /\ pendingRebridge' = {} /\ connectedOnce' = FALSE
    /\ batch' = {} /\ br' = NoBridge /\ lastId' = [s \in Streams |-> None]
    /\ todo' = Trades

Stop ==
    /\ mode = "live" /\ batch = {}
    /\ Fault("stop", MaxStops)
    /\ Flush
    /\ Dead
    /\ mode' = "stopped"

Crash ==
    /\ mode # "stopped"
    /\ Fault("crash", MaxCrashes)
    /\ LoseMemory
    /\ Dead
    /\ mode' = "startup"

Restart ==
    /\ mode = "stopped"
    /\ rdb' = EmptyTables /\ day' = None /\ UNCHANGED hdb
    /\ mode' = "startup"
    /\ UNCHANGED <<sessionVars, published, queue, pendingRebridge, connectedOnce,
                   todo, batch, lastId, br, faults>>

Main ==
    \/ BridgePage \/ StartupBridged \/ GoLive \/ Drain \/ Rebridged
    \/ \E s \in Trades : StartupBridge(s) \/ Rebridge(s) \/ ApplyTrades(s)
    \/ \E s \in Quotes : ApplyQuotes(s)

Next ==
    \/ \E s \in Streams : Publish(s)
    \/ Connect \/ Deliver \/ DeliverAckLost \/ LinkLoss \/ SessionLoss
    \/ Main
    \/ Stop \/ Crash \/ Restart

Spec == Init /\ [][Next]_vars

-----------------------------------------------------------------------------
(* The trades of a symbol have no hole below the newest stored one: every   *)
(* outage, restart, page boundary and rollover keeps the sequence complete. *)
GapFree ==
    \A s \in Trades : \A i \in Stored(s) : 1 .. i \subseteq Stored(s)

(* No row is in the store twice, in one table or in two partitions, though  *)
(* nothing but the dedup floor stands between a redelivery and the store.   *)
AtMostOnce == \A s \in Streams, i \in Ids : InOnePlace(s, i)

(* While live, the dedup floor of a symbol is its highest stored id: a      *)
(* lower one lets duplicates in, a higher one drops rows.                   *)
FloorIsHighestStored ==
    mode = "live" => \A s \in Streams : lastId[s] = LastOf(Stored(s))

(* The dedup floor covers the RDB: no row is twice in an in-memory table    *)
(* and, once live, none is above its floor, whatever faults happen.         *)
RdbSound ==
    /\ \A s \in Streams, i \in Ids : rdb[s][i] <= 1
    /\ mode = "live" => \A s \in Streams : \A i \in RowIds(rdb[s]) : i <= lastId[s]

(* A symbol whose rebridge flag is down has nothing to bridge: the trades   *)
(* on their way to it (batch, queue, broker) continue its floor.            *)
Ahead(s) ==
    {i \in Ids : /\ i > lastId[s]
                 /\ \/ i \in Group(s)
                    \/ \E k \in 1 .. Len(queue) : queue[k] = [stream |-> s, id |-> i]
                    \/ \E k \in 1 .. Len(backlog) : backlog[k] = [stream |-> s, id |-> i]}
UnflaggedHasNoGap ==
    mode = "live" =>
        \A s \in Trades \ pendingRebridge : \A i \in Ahead(s) : lastId[s] + 1 .. i \subseteq Ahead(s)

(* A row that has been saved to a partition stays in it.                    *)
SavedRowsKept ==
    [][\A d \in Days, s \in Streams : RowIds(hdb[d][s]) \subseteq RowIds(hdb'[d][s])]_vars

(* The store implements the log of TradeLog.  A store with a hole maps to   *)
(* no log at all: -1 is not a length.                                       *)
PrefixLength(ids) == IF ids = 1 .. LastOf(ids) THEN LastOf(ids) ELSE -1
Log == INSTANCE TradeLog WITH
         Symbols <- Trades,
         high    <- [s \in Trades |-> PrefixLength(Stored(s))],
         saved   <- [s \in Trades |-> PrefixLength(UNION {RowIds(hdb[d][s]) : d \in Days})]
ImplementsTradeLog == Log!Spec

(* Every trade that reaches the handler's queue or waits in the broker's    *)
(* session is eventually below the floor, that is, stored.                  *)
EventuallyApplied ==
    \A s \in Trades, i \in Ids :
        ((\E k \in 1 .. Len(queue) : queue[k] = [stream |-> s, id |-> i])
         \/ (\E k \in 1 .. Len(backlog) : backlog[k] = [stream |-> s, id |-> i]))
        ~> lastId[s] >= i

(* The main loop runs and REST calls end; paho reconnects for ever and      *)
(* hands over what the broker holds.                                        *)
FairSpec == Spec /\ WF_vars(Main) /\ WF_vars(Connect) /\ WF_vars(Deliver)
=============================================================================
