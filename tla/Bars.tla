--------------------------------- MODULE Bars ---------------------------------
(***************************************************************************)
(* The bars of one symbol: built from its rows when a day is saved down    *)
(* (platform/schema.q), built from rows or merged from stored bars when    *)
(* they are read (platform/analytics.q).  A row is its position in the     *)
(* table; a table is a set of rows, and a table of bars a function from    *)
(* the time a bar opens to the bar.  Pure: no state.                       *)
(***************************************************************************)
EXTENDS Integers, FiniteSets, FiniteSetsExt

CONSTANTS
    MaxRow,      \* bound: rows are 1..MaxRow, in the order they were inserted
    MaxPrice,    \* bound: prices are 0..MaxPrice
    Time,        \* Time[r]: exchange time of a trade, receive time of a quote
    Price,       \* Price[r]: the price of a trade, the book a quote shows
    Qty,         \* Qty[r]: the quantity of a trade
    BuyerMaker,  \* BuyerMaker[r]: the aggressor sold
    BarSize      \* BAR_SIZE, the width of the bars that are stored

Rows == 1 .. MaxRow
Prices == 0 .. MaxPrice

ASSUME RowsAssumption ==
    /\ MaxRow \in Nat /\ MaxPrice \in Nat
    /\ Time \in [Rows -> Nat] /\ Price \in [Rows -> Prices]
    /\ Qty \in [Rows -> Nat] /\ BuyerMaker \in [Rows -> BOOLEAN]
    /\ BarSize \in Nat \ {0}

\* ids are monotonic per symbol, and so are the times (quotes: while the receiving
\* clock does not step back)
ASSUME TimeAssumption == \A r, q \in Rows : r <= q => Time[r] <= Time[q]

\* q's xbar: the start of the interval of width sz that t is in.
XBar(sz, t) == sz * (t \div sz)

\* q's sum of a column over the rows S.
SumOver(S, column) == MapThenSumSet(LAMBDA x : column[x], S)

Value   == [r \in Rows |-> Price[r] * Qty[r]]
BuyQty  == [r \in Rows |-> IF BuyerMaker[r] THEN 0 ELSE Qty[r]]
SellQty == [r \in Rows |-> IF BuyerMaker[r] THEN Qty[r] ELSE 0]

-----------------------------------------------------------------------------
(* buildBars and barsOf, which compute the same columns.  vwap is kept as    *)
(* its numerator (it is value / vol), imbalance is (buyVol - sellVol) / vol. *)

BarOf(S) ==
    [open    |-> Price[Min(S)],
     high    |-> Max({Price[r] : r \in S}),
     low     |-> Min({Price[r] : r \in S}),
     close   |-> Price[Max(S)],
     value   |-> SumOver(S, Value),
     vol     |-> SumOver(S, Qty),
     trades  |-> Cardinality(S),
     buyVol  |-> SumOver(S, BuyQty),
     sellVol |-> SumOver(S, SellQty)]

Buckets(S, sz) == {XBar(sz, Time[r]) : r \in S}
InBucket(S, sz, t) == {r \in S : XBar(sz, Time[r]) = t}

BarsOf(S, sz) == [t \in Buckets(S, sz) |-> BarOf(InBucket(S, sz, t))]

(* rebucketBars: stored bars, in the order of their times, merged into wider *)
(* ones.                                                                     *)

MergedBar(b, T) ==
    [open    |-> b[Min(T)].open,
     high    |-> Max({b[t].high : t \in T}),
     low     |-> Min({b[t].low : t \in T}),
     close   |-> b[Max(T)].close,
     value   |-> SumOver(T, [t \in T |-> b[t].value]),
     vol     |-> SumOver(T, [t \in T |-> b[t].vol]),
     trades  |-> SumOver(T, [t \in T |-> b[t].trades]),
     buyVol  |-> SumOver(T, [t \in T |-> b[t].buyVol]),
     sellVol |-> SumOver(T, [t \in T |-> b[t].sellVol])]

WiderBuckets(T, sz) == {XBar(sz, t) : t \in T}
InWiderBucket(T, sz, t) == {u \in T : XBar(sz, u) = t}

RebucketBars(b, sz) ==
    [t \in WiderBuckets(DOMAIN b, sz) |-> MergedBar(b, InWiderBucket(DOMAIN b, sz, t))]

(* buildQuoteBars, quoteBarsOf and rebucketQuoteBars: the last book of the   *)
(* interval; mid, spread, micro and qimb are computed from it on reading.    *)

QuoteBarsOf(S, sz) == [t \in Buckets(S, sz) |-> Price[Max(InBucket(S, sz, t))]]

RebucketQuoteBars(b, sz) ==
    [t \in WiderBuckets(DOMAIN b, sz) |-> b[Max(InWiderBucket(DOMAIN b, sz, t))]]
=============================================================================
