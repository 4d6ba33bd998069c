------------------------------ MODULE Savedown ------------------------------
(***************************************************************************)
(* How the 4B writer puts a day on disk, file by file (platform/schema.q),  *)
(* and what a reader makes of it (platform/analytics.q).  A savedown builds *)
(* the bars, then writes the tables trade, quote, bar and quoteBar of the   *)
(* date one after the other; prune removes the files of a date one by one;  *)
(* and the process may die between two of them, or inside one.  The writer  *)
(* around it is that of WriterLifecycle, with one symbol and with an        *)
(* archive that has a day as soon as it is over.                            *)
(*                                                                          *)
(* The exchange's trades and quotes are one sequence of rows, in the order  *)
(* of their times.                                                          *)
(***************************************************************************)
EXTENDS Bars, Sequences

CONSTANTS
    Trades,     \* the rows that are trades; the others are quotes
    DayLength,  \* of the UTC day, in units of Time
    Window,     \* BACKFILL_DAYS
    Sizes,      \* the widths readers ask for
    MaxDeaths,  \* bound: deaths of the process
    MaxStops    \* bound: SIGTERMs

DayOf(r) == Time[r] \div DayLength + 1
Days == {DayOf(r) : r \in Rows}

ASSUME SavedownAssumption ==
    /\ Trades \subseteq Rows /\ DayLength \in Nat \ {0}
    /\ Window \in Nat /\ MaxDeaths \in Nat /\ MaxStops \in Nat
    /\ 2 \in Days
    \* bars tile the stored bars; see RebucketingIsExact
    /\ \A sz \in Sizes : sz \in Nat \ {0} /\ sz % BarSize = 0

Files == {"trade", "quote", "bar", "quoteBar"}
None == 0

VARIABLES
    published,  \* the exchange's rows so far
    acked,      \* the rows the broker has delivered, or None before there is a session
    rdb,        \* the rows in the in-memory tables
    day,        \* RdbRoller._current_day, or None
    floor,      \* _last_id after the startup bridge
    disk,       \* disk[d][f]: the rows table f of date d holds, or was built from
    saving,     \* the date of the savedown under way, or None
    jobs,       \* the tables it has still to write
    phase,      \* where main() is
    dates,      \* the dates run() has still to fill, or prune() to remove
    broken,     \* (auxiliary) dates a death left half replaced or half removed
    faults      \* how often each fault has happened

storeVars == <<rdb, day, saving, jobs>>
runVars   == <<phase, dates, floor>>
vars == <<published, acked, disk, storeVars, runVars, broken, faults>>

\* A table cut off inside .Q.dpft holds Cut besides the rows whose ids can be read.
Cut == 0
TypeOK ==
    /\ published \in Rows /\ acked \in 0 .. published
    /\ rdb \subseteq 1 .. published
    /\ day \in Days \cup {None} /\ saving \in Days \cup {None} /\ floor \in Trades \cup {None}
    /\ \A d \in Days :
        /\ disk[d]["trade"] \cup disk[d]["bar"] \subseteq Trades \cup {Cut}
        /\ disk[d]["quote"] \cup disk[d]["quoteBar"] \subseteq (Rows \ Trades) \cup {Cut}
    /\ \A k \in DOMAIN jobs : jobs[k].file \in Files /\ jobs[k].rows # {}
    /\ (jobs = <<>>) = (saving = None)
    /\ phase \in {"start", "backfill", "prune", "bridge", "live", "stopping"}
    /\ dates \subseteq Days /\ broken \subseteq Days

Today == DayOf(published)
LastOf(S) == IF S = {} THEN None ELSE Max(S)

(* A first start, on day 2: the archive has day 1, the HDB is empty.        *)
Init ==
    /\ published = Min({r \in Rows : DayOf(r) = 2}) /\ acked = None
    /\ rdb = {} /\ day = None /\ floor = None
    /\ disk = [d \in Days |-> [f \in Files |-> {}]]
    /\ saving = None /\ jobs = <<>>
    /\ phase = "start" /\ dates = {} /\ broken = {}
    /\ faults = [f \in {"death", "stop"} |-> 0]

Publish ==
    /\ published < MaxRow
    /\ published' = published + 1
    /\ UNCHANGED <<acked, disk, storeVars, runVars, broken, faults>>

-----------------------------------------------------------------------------
(* savedown: the bars are built first, of what is in memory; an empty table  *)
(* writes nothing and leaves what the date has.  A table is cleared once it  *)
(* is written.                                                               *)

Job(f, S) == IF S = {} THEN <<>> ELSE <<[file |-> f, rows |-> S]>>

MutantTablesBarsFirst(S) ==
    Job("bar", S \cap Trades) \o Job("trade", S \cap Trades)
        \o Job("quote", S \ Trades) \o Job("quoteBar", S \ Trades)
MutantTablesEarlyReturn(S) ==
    IF S \cap Trades = {} THEN <<>>
    ELSE Job("trade", S \cap Trades) \o Job("quote", S \ Trades)
            \o Job("bar", S \cap Trades) \o Job("quoteBar", S \ Trades)
MutantTablesWrongBars(S) ==
    Job("trade", S \cap Trades) \o Job("quote", S \ Trades)
        \o Job("bar", S \cap Trades) \o Job("quoteBar", S)
Tables(S) ==
    Job("trade", S \cap Trades) \o Job("quote", S \ Trades)
        \o Job("bar", S \cap Trades) \o Job("quoteBar", S \ Trades)

StartSaving(d, S) ==
    /\ jobs' = Tables(S)
    /\ saving' = IF jobs' = <<>> THEN None ELSE d

WriteTable ==
    /\ jobs # <<>>
    /\ LET j == Head(jobs)
       IN  /\ disk' = [disk EXCEPT ![saving][j.file] = j.rows]
           /\ rdb' = IF j.file \in {"trade", "quote"} THEN rdb \ j.rows ELSE rdb
    /\ jobs' = Tail(jobs)
    /\ saving' = IF Tail(jobs) = <<>> THEN None ELSE saving
    /\ UNCHANGED <<published, acked, day, runVars, broken, faults>>

-----------------------------------------------------------------------------
(* backfill.run: the dates of the window without a table `trade'.           *)

Held == {d \in Days : disk[d]["trade"] # {}}
InWindow(d) == Today - Window <= d

StartRun ==
    /\ phase = "start"
    /\ phase' = "backfill"
    /\ dates' = {d \in Days \ Held : InWindow(d) /\ d < Today}
    /\ UNCHANGED <<published, acked, disk, storeVars, floor, broken, faults>>

FillDay ==
    /\ phase = "backfill" /\ jobs = <<>> /\ dates # {}
    /\ LET d == Min(dates)
       IN  /\ rdb' = rdb \cup {r \in Trades : DayOf(r) = d}
           /\ StartSaving(d, rdb')
           /\ dates' = dates \ {d}
    /\ UNCHANGED <<published, acked, day, disk, phase, floor, broken, faults>>

FinishRun ==
    /\ phase = "backfill" /\ jobs = <<>> /\ dates = {}
    /\ phase' = "prune"
    /\ dates' = {d \in Held : ~InWindow(d)}
    /\ UNCHANGED <<published, acked, disk, storeVars, floor, broken, faults>>

(* prune: shutil.rmtree, which takes the entries of a directory in any order.*)
RemoveFile ==
    /\ phase = "prune" /\ dates # {}
    /\ \E f \in Files :
        /\ disk[Min(dates)][f] # {}
        /\ disk' = [disk EXCEPT ![Min(dates)][f] = {}]
    /\ UNCHANGED <<published, acked, storeVars, runVars, broken, faults>>

RemoveDir ==
    /\ phase = "prune" /\ dates # {}
    /\ \A f \in Files : disk[Min(dates)][f] = {}
    /\ dates' = dates \ {Min(dates)}
    /\ UNCHANGED <<published, acked, disk, storeVars, phase, floor, broken, faults>>

FinishPrune ==
    /\ phase = "prune" /\ dates = {}
    /\ phase' = "bridge"
    /\ UNCHANGED <<published, acked, disk, storeVars, dates, floor, broken, faults>>

-----------------------------------------------------------------------------
(* FeedHandler: bridge from the highest id of the newest partition, resume  *)
(* the broker's session, and feed each row through the roller.              *)

NewestTrades == IF Held = {} THEN {} ELSE disk[Max(Held)]["trade"]

Bridge ==
    /\ phase = "bridge" /\ NewestTrades # {Cut}
    /\ LET last == LastOf(NewestTrades)
       IN  IF last = None
           THEN UNCHANGED <<rdb, floor>>
           ELSE /\ rdb' = {r \in Trades : last < r /\ r <= published}
                /\ floor' = LastOf(rdb' \cup {last})
    /\ acked' = IF acked = None THEN published ELSE acked
    /\ phase' = "live"
    /\ UNCHANGED <<published, day, disk, saving, jobs, dates, broken, faults>>

\* partMaxId raises when the newest table was cut off before its columns tradeID and sym.
BridgeRaises ==
    /\ phase = "bridge" /\ NewestTrades = {Cut}
    /\ phase' = "start"
    /\ UNCHANGED <<published, acked, disk, storeVars, dates, floor, broken, faults>>

Arriving(r) == phase = "live" /\ jobs = <<>> /\ acked < published /\ r = acked + 1
Known(r) == r \in Trades /\ r <= floor

Dedup(r) ==
    /\ Arriving(r) /\ Known(r)
    /\ acked' = r
    /\ UNCHANGED <<published, disk, storeVars, runVars, broken, faults>>

Roll(r) ==
    /\ Arriving(r) /\ ~Known(r) /\ day # None /\ DayOf(r) > day
    /\ StartSaving(day, rdb)
    /\ day' = DayOf(r)
    /\ UNCHANGED <<published, acked, rdb, disk, runVars, broken, faults>>

Feed(r) ==
    /\ Arriving(r) /\ ~Known(r) /\ (day = None \/ DayOf(r) <= day)
    /\ rdb' = rdb \cup {r}
    /\ day' = IF day = None THEN DayOf(r) ELSE day
    /\ acked' = r
    /\ UNCHANGED <<published, disk, saving, jobs, runVars, broken, faults>>

-----------------------------------------------------------------------------
(* The end of the process.                                                  *)

Fault(f, max) == faults[f] < max /\ faults' = [faults EXCEPT ![f] = @ + 1]

LoseMemory ==
    /\ rdb' = {} /\ day' = None /\ saving' = None /\ jobs' = <<>>
    /\ dates' = {} /\ floor' = None /\ phase' = "start"
    /\ UNCHANGED <<published, acked>>

Stop ==
    /\ phase = "live" /\ jobs = <<>>
    /\ Fault("stop", MaxStops)
    /\ IF day = None THEN UNCHANGED <<saving, jobs>> ELSE StartSaving(day, rdb)
    /\ phase' = "stopping"
    /\ UNCHANGED <<published, acked, rdb, day, disk, dates, floor, broken>>

Exit ==
    /\ phase = "stopping" /\ jobs = <<>>
    /\ LoseMemory
    /\ UNCHANGED <<disk, broken, faults>>

\* What a death leaves of the table being written.
Remains == {disk} \cup
    (IF jobs = <<>> THEN {}
     ELSE {[disk EXCEPT ![saving][Head(jobs).file] = ids] :
              ids \in {{Cut}, {Cut} \cup Head(jobs).rows}})

HalfReplaced == {d \in {saving} \ {None} :
                    \E k \in DOMAIN jobs : disk[d][jobs[k].file] # {}}
HalfRemoved == IF phase = "prune" /\ dates # {} THEN {Min(dates)} ELSE {}

Die ==
    /\ phase # "start"
    /\ Fault("death", MaxDeaths)
    /\ disk' \in Remains
    /\ broken' = broken \cup HalfReplaced \cup HalfRemoved
    /\ LoseMemory

Next ==
    \/ Publish \/ WriteTable
    \/ StartRun \/ FillDay \/ FinishRun \/ RemoveFile \/ RemoveDir \/ FinishPrune
    \/ Bridge \/ BridgeRaises
    \/ \E r \in Rows : Dedup(r) \/ Roll(r) \/ Feed(r)
    \/ Stop \/ Exit \/ Die

Spec == Init /\ [][Next]_vars

-----------------------------------------------------------------------------
(* Readers (analytics.q bars and quoteBars): the stored bars when the date  *)
(* has any, otherwise bars of its rows.                                     *)

BarsRead(d, sz) ==
    IF disk[d]["bar"] # {}
    THEN RebucketBars(BarsOf(disk[d]["bar"], BarSize), sz) ELSE BarsOf(disk[d]["trade"], sz)

QuoteBarsRead(d, sz) ==
    IF disk[d]["quoteBar"] # {}
    THEN RebucketQuoteBars(QuoteBarsOf(disk[d]["quoteBar"], BarSize), sz)
    ELSE QuoteBarsOf(disk[d]["quote"], sz)

Readable(d) == \A f \in Files : Cut \notin disk[d][f]
Settled(d) == d \notin broken \cup HalfReplaced \cup HalfRemoved

(* A reader gets the bars of the trades and quotes the date holds, at any   *)
(* width and at any moment, during a savedown and after a death in one too: *)
(* a stored bar is never older or newer than the rows.  Excepted are a date *)
(* that is saved a second time, until its last table is written, a date     *)
(* being removed, and what a death leaves of these.                         *)
BarsMatchRows ==
    \A d \in Days, sz \in Sizes : Settled(d) /\ Readable(d) =>
        /\ BarsRead(d, sz) = BarsOf(disk[d]["trade"], sz)
        /\ QuoteBarsRead(d, sz) = QuoteBarsOf(disk[d]["quote"], sz)

(* A row leaves the memory of a process only for a file, whatever tables a  *)
(* savedown finds empty and however the rolls, the flush and the backfill   *)
(* follow each other; a death loses the others, and so does a SIGTERM       *)
(* before the first live row, which flushes nothing.                        *)
OnDisk == UNION {disk[d]["trade"] \cup disk[d]["quote"] : d \in Days}
RowsLostOnlyByDeath ==
    [][faults'["death"] = faults["death"] /\ ~(phase = "stopping" /\ day = None)
        => rdb \ rdb' \subseteq OnDisk']_vars
=============================================================================
