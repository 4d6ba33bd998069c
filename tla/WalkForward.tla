---------------------------- MODULE WalkForward -----------------------------
(***************************************************************************)
(* The walk-forward splits of the evaluation (resources/evaluation.py):     *)
(* rows 0 .. n - 1 in time order are cut into blocks; each block after the  *)
(* first is a test fold, trained on what comes before it except the rows    *)
(* whose label would look into it.  The rows are those of the daily feature *)
(* tables (platform/analytics.q), put together in resources/experiment.py.  *)
(* Pure: there is no state to explore, and the theorems hold for all sizes. *)
(***************************************************************************)
EXTENDS Integers, TLAPS

(* The arguments walk_forward_splits accepts; for others it raises.         *)
Accepted(n, splits, horizon, embargo) ==
    /\ splits >= 1 /\ horizon >= 0 /\ embargo >= 0
    /\ n \div (splits + 1) # 0

Fold(n, splits) == n \div (splits + 1)

TestStart(n, splits, k) == k * Fold(n, splits)
TestEnd(n, splits, k) == IF k = splits THEN n ELSE (k + 1) * Fold(n, splits)
TrainEnd(n, splits, horizon, embargo, k) == TestStart(n, splits, k) - horizon - embargo

Train(n, splits, horizon, embargo, k) == 0 .. TrainEnd(n, splits, horizon, embargo, k) - 1
Test(n, splits, k) == TestStart(n, splits, k) .. TestEnd(n, splits, k) - 1

(* The folds that are used: too short a training set is passed over.        *)
Used(n, splits, horizon, embargo, minTrain) ==
    {k \in 1 .. splits : TrainEnd(n, splits, horizon, embargo, k) >= minTrain}

(* featuresOf: of a day's count bars, those with a full window behind them  *)
(* and a label horizon bars ahead.                                          *)
FeatureRows(count, horizon, window) == window .. count - horizon - 1

(* load_features and feature_matrix: the tables of the days in their order, *)
(* less the rows with a missing value.  Row i was bar[i] of day[i], of the  *)
(* count[d] bars of day d; dropping moves rows together, never bars.        *)
Frame(n, day, bar, count, horizon, window) ==
    /\ day \in [0 .. n - 1 -> Nat] /\ bar \in [0 .. n - 1 -> Nat] /\ count \in [Nat -> Nat]
    /\ \A i \in 0 .. n - 1 : bar[i] \in FeatureRows(count[day[i]], horizon, window)
    /\ \A i, j \in 0 .. n - 1 : i < j =>
          day[i] < day[j] \/ (day[i] = day[j] /\ bar[j] - bar[i] >= j - i)

-----------------------------------------------------------------------------
(* Blocks do not overlap: one ends where the next starts, or before.        *)
LEMMA BlocksInOrder ==
    ASSUME NEW f \in Nat, NEW k \in Int, NEW l \in Int, k < l
    PROVE  (k + 1) * f <= l * f
  <1>1. PICK d \in Nat : l = k + 1 + d
    <2>1. l - k - 1 \in Nat
      OBVIOUS
    <2> QED
      BY <2>1
  <1>2. l * f = (k + 1) * f + d * f
    BY <1>1
  <1>3. d * f >= 0
    OBVIOUS
  <1> QED
    BY <1>2, <1>3

(* Equal blocks, as many as divide the rows, fit into them.                 *)
LEMMA Division ==
    ASSUME NEW n \in Nat, NEW m \in Nat \ {0}
    PROVE  n \div m \in Nat /\ m * (n \div m) <= n
  OBVIOUS

(* Every row is in a block.                                                 *)
LEMMA Quotient ==
    ASSUME NEW r \in Nat, NEW f \in Nat \ {0}
    PROVE  r \div f \in Nat /\ (r \div f) * f <= r /\ r < ((r \div f) + 1) * f
  <1>1. r \div f \in Nat /\ f * (r \div f) <= r
    BY Division
  <1>2. r = f * (r \div f) + (r % f) /\ r % f \in 0 .. f - 1
    OBVIOUS
  <1> QED
    BY <1>1, <1>2

(* A product grows with its factor.                                         *)
LEMMA Times ==
    ASSUME NEW f \in Nat, NEW a \in Nat, NEW b \in Nat, a <= b
    PROVE  a * f <= b * f
  <1>1. CASE a = b
    BY <1>1
  <1>2. CASE a < b
    <2>1. (a + 1) * f <= b * f
      BY <1>2, BlocksInOrder
    <2>2. a * f \in Nat /\ (a + 1) * f = a * f + f
      OBVIOUS
    <2> QED
      BY <2>1, <2>2
  <1> QED
    BY <1>1, <1>2

(* All blocks fit into the rows, and none is empty.                         *)
LEMMA FoldFits ==
    ASSUME NEW n \in Nat, NEW splits \in Nat, NEW horizon \in Nat, NEW embargo \in Nat,
           Accepted(n, splits, horizon, embargo)
    PROVE  /\ Fold(n, splits) \in Nat \ {0}
           /\ (splits + 1) * Fold(n, splits) <= n
  <1>1. splits + 1 \in Nat \ {0}
    OBVIOUS
  <1>2. n \div (splits + 1) \in Nat /\ (splits + 1) * (n \div (splits + 1)) <= n
    BY <1>1, Division
  <1> QED
    BY <1>2 DEF Accepted, Fold

(* A test fold is a block of rows.                                          *)
LEMMA TestWithin ==
    ASSUME NEW n \in Nat, NEW splits \in Nat, NEW horizon \in Nat, NEW embargo \in Nat,
           Accepted(n, splits, horizon, embargo),
           NEW k \in 1 .. splits
    PROVE  /\ TestStart(n, splits, k) \in Nat /\ TestEnd(n, splits, k) \in Nat
           /\ TestStart(n, splits, k) < TestEnd(n, splits, k)
           /\ TestEnd(n, splits, k) <= n
           /\ Test(n, splits, k) \subseteq 0 .. n - 1
  <1> DEFINE f == Fold(n, splits)
  <1>1. f \in Nat \ {0} /\ (splits + 1) * f <= n
    BY FoldFits
  <1> HIDE DEF f
  <1>2. k \in Nat /\ k * f \in Nat /\ (k + 1) * f \in Nat /\ (k + 1) * f = k * f + f
    BY <1>1
  <1>3. (k + 1) * f <= (splits + 1) * f
    BY <1>1, <1>2, BlocksInOrder, k + 1 <= splits + 1 DEF f
  <1>4. (splits + 1) * f \in Nat
    BY <1>1
  <1>5. /\ TestStart(n, splits, k) = k * f
        /\ TestEnd(n, splits, k) = IF k = splits THEN n ELSE (k + 1) * f
    BY DEF TestStart, TestEnd, f
  <1>6. k * f < (k + 1) * f /\ (k + 1) * f <= n
    BY <1>1, <1>2, <1>3, <1>4
  <1> QED
    BY <1>1, <1>2, <1>5, <1>6 DEF Test

(* No training row's label reaches the test fold: it looks horizon rows     *)
(* ahead, and the embargo is kept on top (evaluation.py: "train strictly    *)
(* before test and a gap of > horizon + embargo between them").             *)
THEOREM NoLookahead ==
    ASSUME NEW n \in Nat, NEW splits \in Nat, NEW horizon \in Nat, NEW embargo \in Nat,
           Accepted(n, splits, horizon, embargo),
           NEW minTrain \in Int, NEW k \in Used(n, splits, horizon, embargo, minTrain),
           NEW i \in Train(n, splits, horizon, embargo, k), NEW j \in Test(n, splits, k)
    PROVE  i + horizon + embargo < j
  <1>1. Fold(n, splits) \in Nat /\ k \in 1 .. splits
    BY FoldFits DEF Used
  <1>2. TestStart(n, splits, k) \in Int
    BY <1>1 DEF TestStart
  <1>3. i \in Int /\ i <= TestStart(n, splits, k) - horizon - embargo - 1
    BY <1>2 DEF Train, TrainEnd
  <1>4. j \in Int /\ TestStart(n, splits, k) <= j
    BY <1>2 DEF Test
  <1> QED
    BY <1>2, <1>3, <1>4

(* The guard counts rows, and still keeps training labels out of the test   *)
(* fold when rows have been dropped and days put together: a training row   *)
(* is of an earlier day, or its label ends more than the embargo before the *)
(* bar that is tested; and a label never leaves its day.                    *)
THEOREM NoLookaheadInBars ==
    ASSUME NEW n \in Nat, NEW splits \in Nat, NEW horizon \in Nat, NEW embargo \in Nat,
           Accepted(n, splits, horizon, embargo),
           NEW day, NEW bar, NEW count, NEW window \in Nat,
           Frame(n, day, bar, count, horizon, window),
           NEW minTrain \in Int, NEW k \in Used(n, splits, horizon, embargo, minTrain),
           NEW i \in Train(n, splits, horizon, embargo, k), NEW j \in Test(n, splits, k)
    PROVE  /\ day[i] < day[j] \/ (day[i] = day[j] /\ bar[i] + horizon + embargo < bar[j])
           /\ bar[i] + horizon < count[day[i]]
  <1>1. i + horizon + embargo < j
    BY NoLookahead
  <1>2. j \in 0 .. n - 1
    BY TestWithin DEF Used
  <1>3. i \in 0 .. n - 1
    BY <1>1, <1>2 DEF Train
  <1>4. bar[i] \in Nat /\ bar[j] \in Nat /\ count[day[i]] \in Nat
    BY <1>2, <1>3 DEF Frame
  <1>5. day[i] < day[j] \/ (day[i] = day[j] /\ bar[j] - bar[i] >= j - i)
    BY <1>1, <1>2, <1>3 DEF Frame
  <1>6. bar[i] <= count[day[i]] - horizon - 1
    BY <1>3, <1>4 DEF Frame, FeatureRows
  <1> QED
    BY <1>1, <1>2, <1>3, <1>4, <1>5, <1>6

(* The test folds are disjoint, later folds later: no row is predicted      *)
(* twice, so the pooled predictions count each row once.                    *)
THEOREM TestsInOrder ==
    ASSUME NEW n \in Nat, NEW splits \in Nat, NEW horizon \in Nat, NEW embargo \in Nat,
           Accepted(n, splits, horizon, embargo),
           NEW k \in 1 .. splits, NEW l \in 1 .. splits, k < l,
           NEW i \in Test(n, splits, k), NEW j \in Test(n, splits, l)
    PROVE  i < j
  <1>1. TestEnd(n, splits, k) = (k + 1) * Fold(n, splits)
    BY DEF TestEnd
  <1>2. Fold(n, splits) \in Nat
    BY FoldFits
  <1>3. (k + 1) * Fold(n, splits) <= l * Fold(n, splits)
    BY <1>2, BlocksInOrder
  <1>4. TestEnd(n, splits, k) \in Nat /\ TestStart(n, splits, l) \in Nat
    BY TestWithin
  <1>5. TestEnd(n, splits, k) <= TestStart(n, splits, l)
    BY <1>1, <1>3 DEF TestStart
  <1>6. i \in Int /\ j \in Int /\ i < TestEnd(n, splits, k) /\ TestStart(n, splits, l) <= j
    BY <1>4, TestWithin DEF Test
  <1> QED
    BY <1>4, <1>5, <1>6
(* Every row after the first block is tested by some fold, the last taking  *)
(* the remainder: what is not predicted is the seed block and the folds     *)
(* passed over.                                                             *)
THEOREM TestsCover ==
    ASSUME NEW n \in Nat, NEW splits \in Nat, NEW horizon \in Nat, NEW embargo \in Nat,
           Accepted(n, splits, horizon, embargo),
           NEW r \in Fold(n, splits) .. n - 1
    PROVE  \E k \in 1 .. splits : r \in Test(n, splits, k)
  <1> DEFINE f == Fold(n, splits)
             q == r \div f
  <1>1. f \in Nat \ {0} /\ r \in Nat /\ r >= f /\ r < n
    BY FoldFits
  <1>2. splits \in 1 .. splits
    BY DEF Accepted
  <1>3. CASE splits * f <= r
    <2>1. r \in Test(n, splits, splits)
      BY <1>1, <1>3 DEF Test, TestStart, TestEnd
    <2> QED
      BY <2>1, <1>2
  <1>4. CASE r < splits * f
    <2>1. q \in Nat /\ q * f <= r /\ r < (q + 1) * f
      BY <1>1, Quotient
    <2> HIDE DEF f, q
    <2>2. q >= 1
      BY <2>1, <1>1
    <2>3. q < splits
      <3> SUFFICES ASSUME splits <= q PROVE FALSE
        BY <2>1
      <3>1. splits * f <= q * f
        BY <1>1, <2>1, Times
      <3>2. splits * f \in Nat /\ q * f \in Nat
        BY <1>1, <2>1
      <3> QED
        BY <3>1, <3>2, <2>1, <1>1, <1>4
    <2>4. r \in Test(n, splits, q)
      <3>1. TestStart(n, splits, q) = q * f /\ TestEnd(n, splits, q) = (q + 1) * f
        BY <2>3, <2>1 DEF TestStart, TestEnd, f
      <3>2. q * f \in Nat /\ (q + 1) * f \in Nat
        BY <2>1, <1>1
      <3> QED
        BY <3>1, <3>2, <2>1, <1>1 DEF Test
    <2> QED
      BY <2>1, <2>2, <2>3, <2>4
  <1>5. splits * f \in Nat
    BY <1>1
  <1> QED
    BY <1>1, <1>3, <1>4, <1>5
=============================================================================
