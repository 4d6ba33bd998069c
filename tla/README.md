# nano_tick: a TLA+ model

nano_tick ingests Binance trades and quotes on one Raspberry Pi (the *3A+*),
carries them over MQTT to a second one (the *4B*), and keeps there a
date-partitioned kdb+ store with a rolling window of days, filled from Binance's
archive, bridged over REST and followed live. This directory models the parts of
that program whose correctness depends on the order of things: threads, restarts,
reconnects, midnights. Paths below are relative to the repository.

1. [The system](#the-system): components, state, operations, hard behaviours
2. [The modules](#the-modules): how they correspond to the code
3. [What the runs check](#what-the-runs-check): runs, bounds, fairness
4. [What is proved](#what-is-proved)
5. [Limits and counterexamples](#limits-and-counterexamples)
6. [Not modelled](#not-modelled)
7. [Plan](#plan)

To check a run: `tlc -config FeedGapFree.cfg MCFeedHandler.tla`; to check the
proofs: `tlapm FeedHandlerProofs.tla` (likewise `WriterLifecycleProofs`,
`SavedownProofs`, `TcpSinkProofs`, `RestClientProofs`, `RecorderProofs`, `IngestProofs`,
`WalkForward`). PROJECT.json lists every run, what each definition models line by line,
the findings and the hazards.

## The system

```
 Binance ws ─► ingest/main.py ─► MqttSink ─► mosquitto ─┬─► recorder.py ─► daily ndjson(.gz)
   (3A+)        (asyncio)       or TcpSink ─► receiver   │   (4B)
                                                         └─► feedhandler.py ─► RDB ─► HDB ─► reader.py, dashboard,
 archive, REST ─────────────────────────► backfill.py ──────────────▲  (4B writer)            experiment, evaluation
```

| Component | Source | State | Operations | Interacts with |
|---|---|---|---|---|
| Feed handler | `resources/feedhandler.py` | `_queue` (bounded), `_last_id`, `_last_quote_id` (dedup floors), `_pending_rebridge`, `_connected_once` | `_on_connect`, `_on_message` on paho's thread; `run`, `_apply_trades`, `_apply_quotes`, `_maybe_rebridge`, `_shutdown` on the main thread | broker session, bridge, roller |
| Store | `resources/backfill.py` (HdbWriter, RdbRoller), `platform/schema.q` | RDB tables, HDB partitions, `_current_day` | insert, `savedown`, `feed`, `flush`, `max_stored_id` | everything in the writer process |
| Backfill, prune, lifecycle | `resources/backfill.py`, `platform/app.py` | window plan, existing partitions | `run`, `run_backfill`, `prune`, `bridge`, `main` | archive, REST, store |
| REST client | `clients/binance.py` | `WeightPacer.used`, two retry budgets | `fetch_trades`, `download_archive`, `_get`, `throttle` | backfill, bridge |
| TCP sink | `ingest/src/sinks/tcp.py` | `_unsent`, `_unacked`, `_buffered_bytes`, `_has_data`, `_next_seq`, `_dropped` | `send`, `_run`, `_send_loop`, `_ack_loop`, `stop` | ingest loop, consumer |
| MQTT sink | `ingest/src/sinks/mqtt.py` | paho's outgoing queue, `_dropped` | `send`, callbacks, `stop` | ingest loop, broker |
| Streams, ingest process | `ingest/src/streams`, `ingest/main.py` | backoff | `messages`, `run`, `main` | exchange, sinks |
| Recorder, receiver | `resources/recorder.py`, `tools/receiver.py` | `last_trade_id`, `open_files`, lock | `on_message`, `record`, `flush`, `gzip_file` | broker session, files |
| Bars | `platform/schema.q`, `platform/analytics.q` | the stored bars of a date | `buildBars`, `buildQuoteBars`, `bars`, `quoteBars`, `rebucketBars` | store, readers |
| Evaluation, experiment | `resources/evaluation.py`, `resources/experiment.py` | none (pure) | `walk_forward_splits`, metrics | reader |
| Analytics, reader, dashboard | `platform/analytics.q`, `resources/reader.py`, `resources/dashboard.py`, `resources/alpha.py` | none that survives a call | features, alpha, queries | the HDB, read-only |

What is hard about it, component by component, and what makes it correct:

* **Feed handler.** Two threads share a queue and a flag. QoS 1 redelivers, the
  broker's session has a cap and may be lost, a crash loses everything that is
  acknowledged and not saved, the REST bridge overlaps the stream on purpose, and
  four ways into the store meet at one dedup floor per symbol. *Correct* means: no
  trade missing below the newest stored one, none stored twice, saved rows stay,
  and what the broker holds is eventually stored.
* **Store.** One date for all symbols and both tables decides when the RDB is
  written, and a chunk goes by its last row's; `.Q.dpft` replaces a partition; the
  highest stored id is looked up in the newest partition only. *Correct*: what is in a
  partition stays, no row is saved under a day before its own or stored twice.
* **Savedown and bars.** A savedown writes four tables, one after the other, and may
  die between two or inside one; `prune` removes a date file by file; a date counts
  as present by its `trade` alone; readers prefer stored bars to rows. *Correct*: no
  row leaves memory but for a file, and the bars a reader gets are those of the rows.
* **Lifecycle.** Days pass while a phase of `main()` runs, the archive is late,
  symbols fail one by one, batches straddle midnight, the process dies in any phase.
  *Correct*: backfill, prune, bridge and stream meet without a hole, they bring no trade
  twice but where the archive overlaps the bridge, and nothing undoes a filled day.
* **REST client.** It learns the server's weight only from answers, which may be lost;
  others use the same minute; two budgets decide when the process dies. *Correct*: it
  keeps its own weight under a cap, no refusal leads to the next, bridges end.
* **TCP sink.** Four actors change the same two queues: `send`, the send loop, the
  ack loop and the reconnect, with eviction at a byte cap. *Correct*: in order,
  nothing lost unseen, everything eventually delivered or counted as dropped.
* **Recorder.** Redelivery is told apart by a mark that moves before the write (which
  may raise, and the tick is acknowledged all the same) and is lost with the process; a
  day's file is closed, copied and removed by a thread
  that takes no lock, while the same path may be opened again. *Correct*: nothing
  acknowledged disappears unseen, what was flushed stays readable.
* **Ingest, MQTT sink and subscriber.** The websocket may close, break or refuse,
  paho's queue and the broker's session have caps, both hops deliver again, a shutdown
  waits for nothing, a subscriber's marks die with it. *Correct*: every trade is
  published or given up for a known reason, and the highest id seen suffices to tell
  duplicates, in each life of a subscriber.
* **Evaluation.** Pure arithmetic on rows and folds. *Correct*: no training label
  reaches into the rows it is tested on, and every row is tested once.
* **The rest** (dashboard, deployment) is listed under [Not modelled](#not-modelled).

## The modules

```
 HdbStore ◄──┬── FeedHandler ◄── MCFeedHandler          TcpSink ◄── MCTcpSink
             │     │  ▲  ▲                                │  ▲
 MqttSession ◄─────┘  │  └── FeedHandlerProofs            │  └── TcpSinkProofs
             │        │                                   └─ TickChannel (abstract, by INSTANCE)
             │        └─ TradeLog (abstract, by INSTANCE)
             └── WriterLifecycle ◄──┬── MCWriterLifecycle
                                    └── WriterLifecycleProofs

 Bars ◄── Savedown ◄──┬── MCSavedown                    RestClient ◄── RestClientProofs
                      └── SavedownProofs

 Recorder ◄──┬── MCRecorder       Ingest ◄── IngestProofs       WalkForward (with its proofs)
             └── RecorderProofs
```
(`WriterLifecycle` extends `HdbStore` only.)

**HdbStore** is the store: `rdb`, `hdb`, `day` and the operators that every writer
of it uses. A row is its id; `DayOf` gives the UTC date of its time. No table
checks for duplicates, so a table is a bag: a function from ids to multiplicities.
A *stream* is one symbol's rows of one table; `Trades` are the symbols' trades,
`Quotes` their quotes. `SavedDown` replaces the tables of a partition as
`.Q.dpft` does and leaves a table alone that is empty in memory. `None` is 0,
below every id, so that Python's `last is None or id > last` is `id > last`.

**MqttSession** is external: what mosquitto's persistent session does, as the
repository's configuration and clients use it (QoS 1, `clean_session=False`,
`max_queued_messages`, the *newest* message lost at the cap).

**FeedHandler** composes the two. One action per callback and per step of the main
thread between two calls that take time: a bridge is `StartBridge`, one
`BridgePage` per REST request, then `StartupBridged` or `Rebridged`, so callbacks
fall between the pages. A batch is applied symbol by symbol (`ApplyTrades`,
`ApplyQuotes`); the queue carries `(stream, id)`. REST's tip may run ahead of the
published stream (`RestLead`) or behind it (`RestLag`). `Crash` loses memory,
`Stop` flushes, `Restart` begins again; the broker's session survives all three.

| Code | Model |
|---|---|
| `_on_connect`, `_on_message` (paho's thread) | `Connect`; `Deliver`, `DeliverAckLost` |
| `run`: startup loop, floors, loop | `StartupBridge(s)`, `StartupBridged`; `GoLive`; `Drain`, `ApplyTrades(s)`, `ApplyQuotes(s)` |
| `_maybe_rebridge` | `Rebridge(s)`, `BridgePage`..., `Rebridged` |
| `bridge`, `fetch_trades` | `StartBridge`, `BridgePage`, `Wanted`, `ShortPage` |
| `_request_stop`, `_shutdown` | `Stop` |

**TradeLog** is what the writer promises: per symbol a log that only grows at its
end, a durable prefix, and death that falls back to that prefix and never behind.
`FeedHandler` maps to it by the lengths of what is stored and what is in
partitions; a store with a hole maps to -1, which is no log.

**WriterLifecycle** follows `platform/app.py` over days, for trades and quotes:
`StartRun`, per date `SkipDay` or per symbol `FetchSymbol`, `FetchMissing` (not
published), `FetchFailed` (raises after some chunks) and `FinishDay`, then
`Prune`, `StartupBridge(s)`, `GoLive`, `LiveTrade(s)` and `LiveQuote(q)`. Meanwhile
`Midnight`, `Trade(s)` and `ArchivePublish` happen; the archive is up to `ArchiveLag`
days late with a day that is over (platform/DEPLOY.md speaks of about one). The live feed
is what `FeedHandler` shows of it without faults: each trade above the floor once, each
symbol in order. It comes in batches: rows `a .. b` of a stream are one chunk, which the
roller dates by its last row (`Feed`). A batch is applied symbol by symbol and trades
before quotes, so a chunk may hold rows of two days, and a stream may be fed a later day
while another still has rows of the old one waiting (`Waiting`). How many rows of a stream
may be late like that is `Straddle` (`InABatch`). The trades a roll leaves behind are
collected in `strayed` (auxiliary): all properties about holes say what becomes of them.
Quotes come only from the broker, whose session outlives the writer: `delivered` is what
it has handed over, and a start finds the others queued, those of earlier days too if
`OldQuotesKept`. Here the whole of a symbol's bridge is one step.

**Bars** defines the bars of a set of rows and their merging, with a bar as a record
and a table of bars as a function from opening times. The ratios (vwap, imbalance)
are kept as numerator and denominator. It has no state.

**Savedown** is the same writer with one symbol and a prompt archive, but file by
file. A savedown is the list `jobs` that `Tables` gives (the bars are built before
anything is written, an empty table is left out), and `WriteTable` does one of them.
`RemoveFile` is one file of `rmtree`, in any order. `Die` may fall between any two and
leaves of the table being written nothing, `Cut` columns only, or ids that can be read
besides; `BridgeRaises` is `partMaxId` on a newest partition cut off before its ids.
Readers (`BarsRead`, `QuoteBarsRead`) look at the disk in every state.

| Code | Model |
|---|---|
| `savedown`, `saveTable`, `.Q.dpft` | `StartSaving`, `Tables`, `WriteTable`, `Remains` |
| `existing_partition_dates`, `run`, `prune` | `Held`, `StartRun`, `FillDay`, `FinishRun`; `RemoveFile`, `RemoveDir`, `FinishPrune` |
| `max_stored_id`, `bridge` | `NewestTrades`, `Bridge`, `BridgeRaises` |
| `RdbRoller.feed`, `flush` | `Dedup`, `Roll`, `Feed`; `Stop`, `Exit` |
| `bars`, `quoteBars` | `BarsRead`, `QuoteBarsRead` |

**RestClient** is `WeightPacer` and `_get` under the pages of a bridge, second by
second of the server's minute. `StartBridge` makes the pacer that each bridge makes
for itself, `Pause` and `PauseOver` are `throttle`, `Send` is one attempt, and `Page`,
`RateLimited`, `ServerError`, `AnswerLost`, `NotFound`, `Escapes`, `Unreachable` are
the ways it ends. `own` and `others` are what the server has counted this minute,
`blind` (auxiliary) how often in it the client knew less than that.

**TcpSink** is the asyncio sink. An action runs from one `await` to the next, as
the event loop runs it. `SendWait` and `SendWake` are the two halves of
`_has_data.wait()`, `Write` is one turn of the send loop, `AckRead`,
`BadAckIgnored` (no JSON, or no ack in it) and `BadAckFails` (an ack that is no number, or
a line that is no UTF-8) one turn of the ack loop, `Connect` everything
between a successful `open_connection` and the start of the two loops,
`ConnectionLost` all that follows the failure of either. `_dropped` is a set of
seqs where the code counts them. The consumer and the wire are external.

**TickChannel** is what a sink promises: ticks are confirmed from the oldest on,
each only once it is delivered, unless it is given up.

**Recorder** is `resources/recorder.py` for one symbol (symbols share nothing but
the process). `on_message` is one action, `Deliver`, because the lock makes it one; a
new tick moves the mark and then ends in one of five ways. The handle of its day takes
the line (`AppendLine`), or the write raises (`WriteFails`; a full buffer is passed on by
the write, so earlier lines may go with it). Another day's handle is closed, a thread is
started for its file and the new one opened (`Rollover`); the close raises, before a
thread is started (`CloseFails`); or the `open` raises (`OpenFails`). `on_message` catches
each of these, logs, and the tick is acknowledged and given up: it counts in `lost`. The
last two leave a closed handle in `open_files`, and the next `flush` raises
(`FlushRaises`), unless a tick comes first. A flush or write that is cut off may leave a
part of a line, and the next line is glued to it (`torn`). A compressing thread goes
through `CompressOpen` (truncates the `.gz`), `CompressCopy` and `CompressUnlink`; `again`
(auxiliary) are the days whose file has had a second thread started for it. Its
session is simpler than `MqttSession` (no cap) but has several ticks in flight:
`acked`, `handed` and `published` are positions in the stream.

| Code | Model |
|---|---|
| `on_connect`, `on_message`, `_file_for` (paho's thread) | `Connect`; `Deliver` with `AppendLine`, `WriteFails`, `Rollover`, `CloseFails`, `OpenFails` |
| `flush`, the main loop | `Flush`, `FlushRaises`, `Stop` |
| `gzip_file` (a daemon thread per file) | `CompressOpen`, `CompressNotFound`, `CompressCopy`, `CompressUnlink`, `CompressFails` |

**Ingest** is the way of a trade from the exchange to a subscriber:
- the process on the 3A+ with the MQTT sink: `streams/base.py` (`Dial`, `DialFails`,
  `StreamEnds`, `Wake`; a clean close redials at once, an error waits `backoff` first),
  one turn of `run()` with `send` (`Read`), and the ends of `main()`. `Crash` is a kill or
  an exception that `main()` raises again, and systemd restarts it (`Restart`). After a
  SIGTERM or SIGINT (`Stop`) it exits with 0, which `ingest.service` does not restart
  (`RestartPreventExitStatus=0`): somebody may start it (`Start`) or not;
- paho's queue of messages without PUBACK (`out`, of which `sent` are under way on this
  connection), sent again from its head after a reconnect (`Publish`, `Puback`);
- the broker's session for the subscriber: `backlog`, with a cap at which it refuses what
  comes (`shed`), and handed over again from its head on the next connection (`Deliver`,
  `SubAck`, `SubConnect`, `SubLinkLoss`);
- the subscriber with `tools/receiver.py`'s duplicate check, whose mark and list end with
  it (`SubRestart`).

**WalkForward** has no state: it defines the splits of `resources/evaluation.py` over
the frame that the feature tables of several days make (`Frame`, `FeatureRows`:
analytics.q drops the first and last bars of a day) and proves what they must be. It has
no run, the theorems hold for every size.

**MC modules** give the functions among the constants (`DayOf`, `Size`, `Time`, `Price`).

## What the runs check

Every bound is a constant named in its module. Deadlock is only checked where the
system may not stop; the other runs end when the bounded stream of trades does, or
in `Stop`.

| Run | Properties | Instance |
|---|---|---|
| `feed_gapfree` | `GapFree`, `AtMostOnce`, `FloorIsHighestStored`, `UnflaggedHasNoGap`, `SavedRowsKept` | one symbol's trades and quotes, 4 ids over 3 days, pages of 1, a crash, a broken link, a lost session |
| `feed_live` | `EventuallyApplied`, `ImplementsTradeLog` | 6 trades over 3 days, pages of 2, a crash, two outages, fairness |
| `feed_faults` | `TypeOK`, `RdbSound` | trades and quotes, tight queues, a crash, a stop, an outage, a lost session, racing reconnects, unsynchronised clocks, REST ahead and behind |
| `tcp_buffer` | `TypeOK`, `HeldInOrder`, `BufferAccounted`, `NoneLostSilently`, `ImplementsChannel`, `EventuallyDelivered` | 5 ticks of sizes 1 and 2, a buffer of 4 bytes, two losses, a bad ack, a stop, fairness |
| `life_days` | `TypeOK`, `NoHoles`, `OneLiveCopy`, `NotBeforeItsDay`, `FilledDaysKept`, `EventuallySaved` | one symbol's trades, two a day, and its quotes, one a day, over 5 days; a window of 2; an archive up to a day late; batches that straddle midnight by one row; two faults of two crashes, a stop and a failed fetch; fairness |
| `recorder_days` | `TypeOK`, `AckedIsAccounted`, `LinesAscend`, `FlushedKept`, `EventuallyWritten`, `EventuallyCompressed` | 4 ticks over 3 days, two in flight, two threads; a broken link, a death or interrupt, an open, write, close or compression that raises; fairness |
| `ingest_stream` | `TypeOK`, `AllAccounted`, `ProcessedOnce`, `EventuallyPublished`, `AlwaysStreamingAgain` | 3 trades, a queue of 2 and a session of 2, two in flight on either hop, backoff 1 to 3; two websocket faults, a bad frame, a broken connection of either side, two ends of process or subscriber; fairness |
| `rest_pages` | `TypeOK`, `UnderCap`, `BackoffsPaidFor`, `EventuallyBridged` | two bridges of 3 pages, a minute of 4 seconds, a threshold of 3 pages and a limit of 9, two bursts of others, two faults, a clock a second ahead, fairness |
| `save_days` | `TypeOK`, `BarsMatchRows`, `RowsLostOnlyByDeath` | 8 rows over 3 days of two to three bars, a window of one day, two deaths, a stop, three widths |
| `feed_restart` | `GapFree` **violated** | a stop and a restart on the same day |
| `life_backlog` | `NoHoles` **violated** | quotes of the day before still queued at a start; no chunk straddles |
| `life_straddle` | `StaysGapFree` **violated** | a batch over midnight, then a crash |

What the properties say, beyond their names:

* `FloorIsHighestStored`: while live, the dedup floor of each stream is exactly the
  highest id in RDB and HDB. Lower lets duplicates in, higher drops rows.
* `UnflaggedHasNoGap`: a symbol whose rebridge flag is down has nothing to bridge:
  what is in the batch, the queue and the broker continues its floor.
* `RdbSound`: the one thing that holds under *every* modelled fault.
* `SavedRowsKept`, `FilledDaysKept`: action properties. The first says no step
  removes a saved row; the second that within a process, no step after the backfill
  touches a day the backfill wrote, whatever partial rows it left in memory.
* `NoHoles`: backfill, prune, bridge and stream meet without a gap. It speaks of a live
  writer and of crashes: a SIGTERM and a failed fetch do leave holes, and so do
  (`OldQuotesKept` is FALSE) quotes of earlier days queued at a start. It excepts the
  trades in `strayed`; `StaysGapFree` is the same without that exception, what
  DEPLOY.md promises, and is violated.
* `OneLiveCopy`: a trade is in memory once and then in no partition, and in at most
  one partition other than its own day's. One copy too many there may be, in the
  partition of its own day: a start that finds the archive late bridges the day into
  the next one's partition, and a later start fills it from the archive as well.
* `NotBeforeItsDay`: the bridge, rows of a failed fetch and rolls of batches put trades
  into partitions of later days, never of earlier ones; so a savedown of the day being
  left never takes along what belongs to the next.
* `EventuallySaved`: each trade comes to stay in a partition of its own day or a later
  one, or in the memory of a running writer, unless it strayed, or the writer was down
  until its day left the window.
* `BarsMatchRows`: in every state, during a savedown and after a death in one too, the
  bars a reader gets are those built from the rows the date holds. It excepts dates
  saved a second time or being removed, until that is complete, and what a death then
  leaves. `RowsLostOnlyByDeath`: no step takes a row from memory that is not on disk.
* `UnderCap`: the process uses at most its threshold and one page per minute, and one
  page more for each new pacer and each lost answer. With the code's numbers that is
  4499 + 25 * (1 + n) of 6000. `BackoffsPaidFor`: a 429 teaches the pacer the weight,
  so the next attempt waits for the next minute; a request is refused again only if
  others exhaust that minute too, so the budget of 10 is not spent within one.
  `EventuallyBridged`: no pause, back-off or restart repeats for ever.
* `HeldInOrder`: what the sink holds is the contiguous run of seqs that ends at the
  newest, so no interleaving of write, ack, eviction and resend reorders or skips.
* `AckedIsAccounted`: an acknowledged tick is in a readable file, in the buffer, or
  counted in `lost` (what died with the buffer, or met an `open`, a write or a close that
  raised, or was glued to a torn line). So mark, rollover, flush and compression drop
  nothing but what these failures take.
* `FlushedKept`: no step makes a line unreadable; compression removes the plain file
  only when the `.gz` is whole. These two except exactly the days in `again`, whose
  second `.gz` replaces the first; [Limits](#limits-and-counterexamples) has the two ways
  there. `LinesAscend`: until a death a file has no line twice or out of order; a restart
  loses the mark, and redelivered ticks are written again.
* `ProcessedOnce`: in each life of a subscriber that keeps only the highest id it
  processes a trade once and in order, and it takes for a duplicate only what it (in this
  life or an earlier one) has processed, or what its session had refused. This is
  not obvious: after a reconnect the sink sends older messages behind newer ones the
  session already holds, and the session does the same to the subscriber.
* `AlwaysStreamingAgain`: whatever ends a websocket or the process, there is one again,
  unless the service was stopped.

**Why the bounds suffice.** The cases come from positions, not from magnitudes:
before, at and after a floor; the first, a middle and the last id of a day; a page
that is full, short, empty. Four ids over three days with a rollover between the
second and third put a floor, a gap of two and a target on either side of a
midnight; pages of 1 and 2 give both a gap of several pages and a short last page.
One fault of each kind per run is enough for every pair and triple of *different*
faults; `feed_live`, `tcp_buffer` and `life_days` repeat the commonest. The TCP
instance makes one tick evict one or two others, from either queue. The recorder's
first day has two ticks, so that its file is appended to, rolled over and, after a
death, reopened; two threads are all that can meet on one file. In `life_days` the window
and the days around it are five, a day of two trades has a first and a last that a batch
may carry over midnight, and an archive a day late is at the last day of the window,
published or not. The ingest queue of
two and the session of two are full, refuse and are sent again whole within three trades;
a backoff from 1 to 3
doubles, saturates and resets. In `save_days` a day has one to three
trades and a quote, so that any table may be empty when a savedown starts, two rows
share a bar or not, and the three days are filled, bridged, rolled and pruned; two
deaths are enough for one inside a savedown and one inside what follows from it. In
`rest_pages` the threshold is met within one bridge and across two; `Limit` leaves room
for what blindness costs, as the code's does. What does not depend on the bounds is [proved](#what-is-proved).

**Fairness.** `FeedHandler`: weak fairness of the main thread (its loop polls
for ever and a REST request ends), of `Connect` (paho reconnects for ever) and of
`Deliver` (the broker delivers what it holds). `TcpSink`: weak fairness of each
task's step (asyncio runs ready tasks in turn), of `Connect` (`_run` retries for
ever), and of the network and the consumer, which are assumed to be alive.
`WriterLifecycle`: the process runs and systemd restarts it (`Restart=`), and
days, trades and the archive go on; as every behaviour within the bounds ends, it is enough
that it does not end while one of these can go on. `Recorder`: the threads run, paho reconnects,
the broker delivers and takes acknowledgements, systemd restarts. `RestClient`:
time passes, requests end in some way, systemd restarts; it does so at most 10 times in
300 s (`StartLimitBurst`), far more than the deaths of a run. `Savedown` has no liveness property. `Ingest`: the
process's steps (dials end, sleeps end, systemd restarts it after a failure, nobody after a
SIGTERM), paho's connection and the broker's answers; none of the subscriber.
No fairness is assumed of any fault, of the others' weight, of the sink's `Send`, of
`FeedHandler`'s and `Recorder`'s `Publish` or of `Ingest`'s `Trade`.

**Assumptions that are switches.** `ClocksSynced` (no stream crosses midnight after
another has: platform/DEPLOY.md asks for NTP), `QuietReconnect` (reconnects find
the handler idle and its queue empty), `QuietStartup` (midnight does not fall into
the startup phases), `OldQuotesKept` (FALSE: the broker holds no quote of
an earlier day when the writer goes live). Each has the other value in some run or in a
counterexample below. Besides, `ArchiveLag` is 1 and less than the window of 2: an archive
later than the whole window would leave a start without a stored id.

## What is proved

The proof modules (`FeedHandlerProofs`, `WriterLifecycleProofs`, `SavedownProofs`,
`TcpSinkProofs`, `RestClientProofs`, `RecorderProofs`, `IngestProofs`, `WalkForward`) are
checked by TLAPS for every value of the constants, from the assumptions the modules
state about them (`MaxId`, sizes and bounds are naturals, `DayOf` is monotonic, `Size`
positive, times do not fall from row to row). Where a theorem needs more, it says so as
a hypothesis; most hypotheses are switches that a counterexample under
[Limits](#limits-and-counterexamples) shows to be needed.

* `TypeCorrect` (`Spec => []TypeOK`) and `RdbAlwaysSound` (`Spec => []RdbSound`) of
  the feed handler. `RdbSound` is not inductive: it speaks of the floor only while
  live, and during a bridge the floor is stale. The invariant `IInv` adds that every
  RDB row of a stream is at or below its floor, or, for the stream being bridged,
  below the next id to fetch (`Covered`), and that `br` is a bridge while one runs.
  The steps that matter: a page inserts only ids from `br.next` on (`InsertAbove`);
  `MaxStoredId` covers the RDB even when the newest partition knows nothing of
  the symbol (`StoredIdCoversRdb`), which is why duplicates in memory are excluded
  where gaps are not.
* `SavedRowsAlwaysKept`, `FloorAlwaysHighest`, `AlwaysAtMostOnce`,
  `UnflaggedNeverHasGap`, `AlwaysGapFree` and `StoreImplementsLog` of the feed handler
  rest on four invariants, one on top of the other:
  - `DatesInv`: batch, queue and backlog are in the order of their dates, and a date
    with a partition is over: nothing that can still come is of that date or before.
    Hence no partition is written twice.
  - `OrderInv`: each partition holds newer ids than those before it, the RDB newer ones
    still, and a floor (or the next id of a bridge) is that of the newest row.
  - `FlowInv`: per symbol what is in hand (batch and queue), and what is in hand or
    waits in the broker's session, are runs of ids without a hole, reaching to the
    newest published one while there is a session; after a lost acknowledgement the two
    overlap. They continue the floor of every symbol whose flag is down. Applying a
    group drops the flag rightly because the run that the group begins goes on behind
    it, not because of the gap test: that is for the rows below the group.
  - `WholeInv`: stored and saved trades are all there are up to the newest, and a
    bridge that has returned has reached its target (`ShortPageEnds`: a short page is
    short because of the target).

  `UnflaggedNeverHasGap` needs `OrderInv` only in its steps, `AlwaysGapFree` all four,
  and the refinement follows step by step from `StoreStep`. The hypotheses, which all
  hold in every state of `feed_gapfree` and `feed_live`:
  - `Undisturbed`: the clocks agree, no SIGTERM, and the first start finds on disk rows
    of earlier days only. Without the second see `feed_restart`.
  - `[]NewestHasAll`: the newest partition holds every stream of its table. `_max_id`
    looks there only, so this is what the code takes for granted of its symbols; with
    one symbol per table it holds by itself (`OneSymbolHasAll`), as
    `OneSymbolAtMostOnce` says.
  - for the last three, `QuietReconnect` and `[]NoOverflow` (neither `_queue` nor the
    session is at its limit); for the last two, `RestLag = 0`.
* `TypeCorrect`, `FilledDaysAlwaysKept` (`Spec => FilledDaysKept`) and `NeverBeforeItsDay`
  (`Spec => []NotBeforeItsDay`) of the lifecycle, the last two for the switches
  `QuietStartup` and `OldQuotesKept = FALSE`, for any lag of the archive, any batches, and
  any crashes, stops and failed fetches.
  - The types need `World`: every row of an earlier day is traded, none of a later day is.
  - `FilledDaysKept` needs that the date stands still from `StartRun` to `GoLive` (`Quiet`),
    so what `run()` plans is what `prune` keeps (`PlanInv`), and that every row still to
    come live is later than what was filled (`LiveInv`), so no roll goes back to it.
  - `NotBeforeItsDay` needs to know what memory holds in each phase (`OwnInv`): while
    `run()` fills a date, no row of a later one, although fetches that failed may have left
    rows of earlier ones; after the bridge, no row that is later than the next one to
    come, of any stream, so that the roller's first date is late enough; then, that the
    roller's date is that of the latest row. The last is kept by a chunk that straddles
    midnight because the chunk goes by its last row.
* `TypeCorrect` and `OnlyDeathLosesRows` (`Spec => RowsLostOnlyByDeath`) of `Savedown`,
  without a hypothesis. Rows in memory are, outside the live phase, rows of the jobs
  still to do (`Memory`), and each phase that clears memory begins with no job left
  (`Idle`).
* `BarsAlwaysMatchRows` (`Spec => []BarsMatchRows`), without a hypothesis. Each date has
  no bars, or those of its rows, or the savedown under way will write them (`Agree`,
  `Written`); the rest is the merging of bars, below.
* `TypeCorrect`, `AlwaysAccounted`, `AlwaysKept` and `AlwaysAscending` of the recorder,
  without a hypothesis. The invariant for
  `AckedIsAccounted` and `FlushedKept` follows each compressing thread (`ThreadsCopy`): what
  it copies is the plain file until it removes that, because a day outside `again` has one
  thread at most (`OneThread`) and, while that runs, is not written: the open
  file is of a later day (`ThreadsBehind`). `LinesAscend` needs that
  the lines of a file and the buffer behind them are one ascending sequence up to the
  mark (`LinesInv`).
* `TypeCorrect`, `AlwaysAccounted` and `AlwaysProcessedOnce` of `Ingest`, for all caps,
  back-offs and faults. `ProcessedOnce` rests on paho's queue and the websocket behind it
  ascending (`OutAscends`, `UnreadAscends`), on the broker having got everything queued
  that is below something it got (`SentIsGot`), so that only what it has can arrive out of
  order, and on an order of first copies in the session (`FirstsAscend`): an id behind a
  larger one was there before that one already, or is settled, that is processed or
  refused before. So what was handed over, and what is at or below the mark, is settled
  (`HandedSettled`).
* `HeldAlwaysInOrder` (`Spec => []HeldInOrder`) of the TCP sink. The invariant
  `OrderInv` states the order of both queues by position; eviction and
  acknowledgement remove a prefix of their concatenation, resending is that
  concatenation.
* `NoneEverLostSilently` (`Spec => []NoneLostSilently`). A tick leaves the sink by
  eviction, which counts it, or by an acknowledgement, so an acknowledgement must
  cover only what was received. The consumer acknowledges the *highest* seq it has:
  the invariant `DeliveryInv` therefore carries that what the consumer has received
  has nothing missing behind it (`NoneBehind`), which follows from the order of the
  wire (`NoneSkipped`) and from everything written on a connection being on the
  wire or received (`Written`), back to everything below the held run being
  received or dropped (`Below`). This is the argument for at-least-once delivery
  across reconnects. `SinkImplementsChannel` (`Spec => ImplementsChannel`) is the
  refinement: each step maps to one of `TickChannel` or to none.
* `BufferAlwaysAccounted` (`Spec => []BufferAccounted`) and `TypeCorrect` of the sink: the
  byte counter is changed entry by entry, and is the sum over what is held because what
  leaves is a front of it (`SameRun`, `BytesSplit`). Sums are reasoned about by the least
  counterexample: any element may be added last (`SumIs`), whatever order
  `MapThenSumSet` adds them in.
* `TypeCorrect` and `NeverOverCap` (`Spec => []UnderCap`) of the REST client.
  `UnderCap` alone is not inductive: it says nothing of what the pacer believes. The
  invariant `PacedInv` adds that between answers the pacer knows at least the
  process's own weight, or that weight is what its blindness allows (`Knows`); that an
  answer under way reports at least that weight; and that a pause ends beyond the
  server's minute (`WakesInNextMinute`), which is where the spare second of `throttle`
  is needed and why a clock two seconds ahead is excluded.
* `BackoffsAlwaysPaidFor` (`Spec /\ []Room => []BackoffsPaidFor`), as long as `Limit`
  leaves room for what blindness costs (`Room`: 4499 + 25 * (1 + n) of 6000 in the
  code's numbers). The invariant `BackoffInv` sets a burst of others against each refusal of a
  request, one more than that while a refusal may still come (`Unpaid`), and keeps the
  pacer over its threshold through a back-off, so that it waits for the next minute.
* `RebucketingIsExact` and `RebucketingQuotesIsExact` of the bars: for any rows and any
  multiple of the stored width, merged bars are the bars built from the rows. The
  argument is that an interval of the wider width is a union of narrower ones
  (`Nested`), that time order makes the first narrow bar hold the first row (`Ends`),
  that an extremum of extrema is one of the union (`Extremes`), and that a sum, of which
  a count is one, may be taken part by part (`SumByParts`).
* `NoLookahead`, `NoLookaheadInBars`, `TestsInOrder`, `TestsCover` of the walk-forward
  splits. The label of a training row looks `horizon` bars ahead; the theorems say that
  this stays before the test block, also when days are put together and rows with
  missing values were dropped before the split: a training row is of an earlier day or
  its label ends, with the embargo, before the bar tested, and no label leaves its day.
  No row is tested twice and every row after the seed block is, the remainder of the
  division in the last fold. The arithmetic is of products (`k * Fold`), so it rests on
  lemmas about blocks (`BlocksInOrder`, `Division`, `Quotient`, `Times`).

Only model-checked: liveness, which the provers cannot do under fairness; `NoHoles` and
`OneLiveCopy` of the lifecycle; and what `feed_gapfree` and `feed_faults` check in states
that the hypotheses above exclude.

## Limits and counterexamples

The findings, each a run that fails as listed in PROJECT.json:

* `feed_restart`: a SIGTERM saves today's trades as today's partition; after the
  restart the next savedown *replaces* it. Its trades are below the floor, so no
  bridge fetches them again.
* `life_backlog`: the roller takes its first date from whatever comes first. After a
  start on a later day the bridge has put today's trades in memory, but the quotes the
  broker still holds are of the day before: they set that day, and the first record of
  today saves today's trades over the partition that `run()` has just filled.

* `life_straddle`: the docstring of `RdbRoller` calls a chunk that straddles midnight
  negligible. Its rows of the old day miss that day's savedown and wait in memory for the
  next one's. If the writer crashes before that and is restarted at once, the bridge brings
  them again, as they are above the stored ids. But once the archive has the next day, a
  start skips the old day as present and fills the next one, and then the bridge starts
  behind them. They are in no table.

More to see by changing a constant of a run, or a definition (each is a few seconds of TLC):

* `Trades = {"btc", "eth"}`, `Quotes = {}`, `MaxId = 2`, `LastOfDay2 = 2`, `Page = 2`,
  `MaxStops = 1` and the other faults 0 in `feed_gapfree`: a symbol with no row in the
  newest partition has no stored id, so it is neither bridged nor deduplicated after a
  restart (`FloorIsHighestStored`).
* `NoFaultsButCrashes == faults["stop"] = 0` in `WriterLifecycle`: a day whose fetch
  failed for one symbol, or half way, counts as present for ever (`NoHoles`). A failure is
  not even needed: the archive may publish a day between two symbols' fetches.
* `BadAckFails` in `TcpSink`: `{"ack": null}`, or a line that cannot be decoded, raises in
  the ack loop what `_run` does not catch. The step is in the model and ends the sink's task while ingestion goes
  on; the properties about progress except it.
* `QuietReconnect = FALSE` in `feed_gapfree`: records received before an outage and
  still queued clear the flag of the reconnect (`UnflaggedHasNoGap`), although
  `_maybe_rebridge` says only a new trade does.
* `MaxQueued = 1` in `feed_gapfree`: a persistent session at its cap loses the newest
  messages, so the backlog continues the floor; its first record clears the flag
  (feedhandler.py:151), and the gap behind the backlog is not bridged (`GapFree`).
* `RestLag = 2` in `feed_gapfree`: a bridge ends at a short page below its target, and
  the stream goes on behind it (`GapFree`).
* `ClocksSynced = FALSE`: a late record of another stream goes to the next day's
  partition and is replaced or misplaced (`SavedRowsKept`).
* `QuietStartup = FALSE` in `life_days` (`FilledDaysKept`): midnight between `run()`
  and `prune()`, which reads the clock again, deletes the oldest day just written, although
  its docstring says it "never deletes a day run() just wrote" (backfill.py:393-394).
* `Elsewhere(s, i) = {}` for `Cardinality(Elsewhere(s, i)) <= 1` in `OneLiveCopy`: bridged
  rows do not pass the roller (backfill.py:379). A start before the archive has yesterday
  bridges it into today's partition, and a start after that fills it from the archive.
* `\A d \in Days` for `\A d \in Days \ again'` in `FlushedKept`: there are two ways to a
  second compression. After a restart, a redelivered tick of a day already closed recreates
  that day's file (recorder.py:40), and compressing it replaces the archive of the whole
  day by what was redelivered. Or an `open` failed, the closed handle of the old day is
  closed again and a second thread started for its file (recorder.py:66-67), which
  truncates what the first is writing.
* A subscriber that restarts processes again what it had processed and not acknowledged:
  its marks are in memory only (receiver.py:33). A trade that the full session refused and
  the sink sends again, behind newer ones, is taken for a duplicate; `ProcessedOnce` counts
  it as refused.
* `Skew = 2` in `rest_pages`, with `Skew <= 1 =>` taken out of the two properties: the
  pause ends in the old minute and forgets its weight (`UnderCap`, `BackoffsPaidFor`).
* `Settled(d) == TRUE` in `Savedown`: a date saved a second time has its new rows
  beside its old bars until the last table is written. If the process dies in between,
  readers get the stale bars from then on (`BarsMatchRows`).
* A death inside `.Q.dpft` leaves a `trade` directory that counts as present: the date
  is not filled again. If it is the newest, `partMaxId` raises at every start
  (`BridgeRaises` is enabled in `save_days`), until systemd's start limit is reached.
  A death inside `rmtree` may remove `trade` first; what is left is never removed, and
  neither is a date that has quotes only: `prune` looks for `trade`.
* A SIGTERM before the first live record flushes nothing (`day` is `None`), so what was
  bridged is bridged again. `RowsLostOnlyByDeath` excepts it.
* Nothing prunes while the writer is live: `main()` calls `prune` once, although
  DEPLOY.md mentions it under each rollover. The window is capped at startups only.

A disagreement between text and code that no run needs to show: README.md:136-137
says that a full MQTT queue drops the oldest, paho refuses the newest, as
`test_mqtt_sink.py` also expects. A
stopped ingest process abandons what paho has queued, and what is traded while no
websocket is open is not replayed (the README says so); the feed handler bridges
such holes only when a rebridge flag is up.

Abstractions to keep in mind. The recorder's flush reaches the page cache (there is
no fsync), so a power cut is not modelled, only the death of the process; SIGTERM has
no handler there and is a `Crash`, only SIGINT flushes; a day left uncompressed by a
death stays so; the broker's cap is not in `Recorder`. A broker that restarts without its
sessions is in `FeedHandler` only. `WriterLifecycle` has one symbol in its runs, so
that a symbol quiet for a day is never without a stored id there. `Ingest` assumes that paho
keeps the order of its queue over reconnects. Values other than ids and dates are
modelled in `Bars` and `Savedown` only; elsewhere a savedown is one step, and a
partition lacking a table reads as one without rows. Bars are built in the order of
insertion, before `time xasc`, and `Bars` assumes that this is the order of time:
receive times that step back would make stored quote bars differ from the rows'. Its
widths are multiples of `BAR_SIZE`; other widths give other bars from stored ones than
from rows. A full handler queue drops records
without flagging, and a reconnect may race with records still queued; only `feed_faults`
has such queues and reconnects, and `RdbSound` does not speak of the holes they leave. Broker and exchange
are as described above; the exchange's ids have no holes. Readers look
at the store between the steps of a savedown or a prune in `Savedown` only.

In `RestClient` the server's windows are whole minutes and it counts a refused request.
418 (an IP ban) is taken as 429 is. An error that is not of `urllib` (a connection reset
while reading, a body cut short, a `Retry-After` that is no number) escapes both budgets
and ends the writer (`Escapes`); a 404 ends a bridge as if it had reached the tip
(`NotFound`). The docstring of `WeightPacer` wants one pacer shared, `bridge` makes one
per symbol: that is what `blind` counts. In `FeedHandler` and `WriterLifecycle` the
retries appear as their outcome: a request may fail for good, which is a `Crash`.

## Not modelled

* The dashboard presents what the reader returns and shares no state with the writer.
* Features, the alpha, model fitting and metrics are floating-point formulas; only which
  rows they see is modelled (`WalkForward`). The reader hands arguments to q.
* The columns of archive and live records: which ids a file holds, and that reading it
  may fail after some chunks, is in `WriterLifecycle`; the conversion of prices and
  times to q types is data that no property tells apart. Archive downloads use `_get`
  without a pacer; they succeed, are missing, or fail.
* `historicalTrades` below the range the exchange retains answers with its oldest trades
  instead of an error; the models' exchange retains everything, so the hole this leaves
  after a very long down time is not seen.
* Deployment scripts, tests and CI; their settings (restart policy, persistent session,
  queue caps) are what the models assume.

## Plan

Done, in this order: `HdbStore`, `MqttSession`, `FeedHandler` with `TradeLog` and
its proofs; `TcpSink` with `TickChannel` and its proofs; `WriterLifecycle`;
`Recorder` and `Ingest` with their proofs; `WalkForward` with its proofs; `RestClient` with its proofs; `Bars`
and `Savedown` with their proofs; the quotes of `WriterLifecycle` and its proofs; batches
and a late archive in `WriterLifecycle`; disk faults in `Recorder`; the session and the
subscriber in `Ingest`.

Next, as models:

1. Two symbols in `life_days`, one of them quiet for a day.
2. The recorder over the session of `Ingest`, with its cap, and the feed handler's stream
   with the holes that the ingest process leaves.
3. An abstract channel that loses the newest, implemented by `Ingest`.

And as theorems, in this order: `NoHoles` and `OneLiveCopy` of `WriterLifecycle`, where
the bridge brings whole days past the roller and batches leave rows behind; `AlwaysGapFree`
with a bound on lag and target in place of `RestLag = 0`.
