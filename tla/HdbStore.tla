------------------------------ MODULE HdbStore ------------------------------
(***************************************************************************)
(* The kdb store the 4B writer owns: the in-memory RDB tables, the          *)
(* date-partitioned HDB they are saved down to, and the RdbRoller that      *)
(* decides when (resources/backfill.py, platform/schema.q).                 *)
(*                                                                          *)
(* A stream is one symbol's rows of one table: Trades are the rows of       *)
(* `trade', Quotes the rows of `quote'.  A row is abstracted to its id      *)
(* (tradeID or updateID) and DayOf gives the UTC date of its `time'.        *)
(* Neither insertRaw nor .Q.dpft checks for duplicates, so a table is a     *)
(* multiset: a function from ids to multiplicities.                         *)
(***************************************************************************)
EXTENDS Integers, FiniteSetsExt

CONSTANTS
    Trades,     \* symbols, as streams of the table `trade'
    Quotes,     \* symbols, as streams of the table `quote'
    MaxId,      \* bound: ids of a stream are 1..MaxId
    MaxDay,     \* bound: UTC dates are 1..MaxDay
    DayOf       \* DayOf[s][i]: UTC date of row i of stream s

Streams == Trades \cup Quotes
Ids     == 1 .. MaxId
Days    == 1 .. MaxDay

ASSUME StreamsAssumption == Trades \cap Quotes = {}
ASSUME BoundsAssumption  == MaxId \in Nat \ {0} /\ MaxDay \in Nat \ {0}
ASSUME DayOfAssumption   ==
    /\ DayOf \in [Streams -> [Ids -> Days]]
    \* ids are monotonic per symbol, and so are the times
    /\ \A s \in Streams : \A i, j \in Ids : i <= j => DayOf[s][i] <= DayOf[s][j]

\* Python's None, for an id and for a date.  It is below every id, so
\* `last is None or id > last' is `id > last'.
None == 0

VARIABLES
    rdb,    \* rdb[s]: rows of s in the in-memory table
    hdb,    \* hdb[d][s]: rows of s in the partition of date d
    day     \* RdbRoller._current_day, or None

storeVars == <<rdb, hdb, day>>

Table       == [Ids -> Nat]
NoRows      == [i \in Ids |-> 0]
RowIds(t)   == {i \in Ids : t[i] > 0}
EmptyTables == [s \in Streams |-> NoRows]

TableOf(s) == IF s \in Trades THEN Trades ELSE Quotes

\* The ids of s that are somewhere in the store.
Stored(s) == RowIds(rdb[s]) \cup UNION {RowIds(hdb[d][s]) : d \in Days}

\* Row i of s is in the store once at most: in the RDB, or in one partition.
InOnePlace(s, i) ==
    \A d \in Days :
        /\ rdb[s][i] + hdb[d][s][i] <= 1
        /\ \A e \in Days \ {d} : hdb[d][s][i] = 0 \/ hdb[e][s][i] = 0

StoreTypeOK ==
    /\ rdb \in [Streams -> Table]
    /\ hdb \in [Days -> [Streams -> Table]]
    /\ day \in Days \cup {None}

-----------------------------------------------------------------------------
(* HdbWriter.insert and insert_quote: append to the in-memory table.        *)

Appended(t, ids)  == [i \in Ids |-> t[i] + (IF i \in ids THEN 1 ELSE 0)]
Inserted(r, s, ids) == [r EXCEPT ![s] = Appended(r[s], ids)]

(* schema.q savedown: .Q.dpft writes each non-empty table as the partition  *)
(* of date d, in place of what was there; an empty table is left alone.     *)

Nonempty(tables, T) == \E s \in T : RowIds(tables[s]) # {}

SavedDown(d) ==
    [hdb EXCEPT ![d] =
        [s \in Streams |-> IF Nonempty(rdb, TableOf(s)) THEN rdb[s] ELSE hdb[d][s]]]

(* HdbWriter._max_id: the highest id in the RDB when the symbol has rows    *)
(* there, otherwise the highest id in the newest partition that holds the   *)
(* table at all, and None when the symbol has no row in it.                 *)

PartitionsOf(T) == {d \in Days : Nonempty(hdb[d], T)}

NewestPartitionIds(s) ==
    LET held == PartitionsOf(TableOf(s))
    IN  IF held = {} THEN {} ELSE RowIds(hdb[Max(held)][s])

LastOf(ids) == IF ids = {} THEN None ELSE Max(ids)

MutantMaxStoredIdRdbOnly(s) == LastOf(RowIds(rdb[s]))
MutantMaxStoredIdDiskOnly(s) == LastOf(NewestPartitionIds(s))
MaxStoredId(s) ==
    IF RowIds(rdb[s]) # {} THEN LastOf(RowIds(rdb[s])) ELSE LastOf(NewestPartitionIds(s))

-----------------------------------------------------------------------------
(* RdbRoller.feed and feed_quote.  The date of the chunk is that of its     *)
(* last row (chunks are sorted by id); a later date saves the current one   *)
(* down before the chunk is inserted, an earlier one never moves it back.   *)

MutantPastNever(d) == FALSE
MutantPastEither(d) == day # None /\ d # day
Past(d) == day # None /\ d > day

Feed(s, ids) ==
    LET d      == DayOf[s][Max(ids)]
        rolled == Past(d)
    IN  /\ day' = IF day = None \/ rolled THEN d ELSE day
        /\ hdb' = IF rolled THEN SavedDown(day) ELSE hdb
        /\ rdb' = Inserted(IF rolled THEN EmptyTables ELSE rdb, s, ids)

(* RdbRoller.flush: save the current day down and forget it; nothing when   *)
(* no live chunk has set a day, whatever is in the RDB.                     *)
Flush ==
    /\ day' = None
    /\ hdb' = IF day = None THEN hdb ELSE SavedDown(day)
    /\ rdb' = IF day = None THEN rdb ELSE EmptyTables

(* The process dies: the RDB and the roller are lost, the HDB stays.        *)
LoseMemory == rdb' = EmptyTables /\ day' = None /\ UNCHANGED hdb
=============================================================================
