------------------------------ MODULE SavedownProofs ----------------------------
(***************************************************************************)
(* Two parts.  Of Bars: merging stored bars into wider ones gives the bars  *)
(* the rows give directly, for every table, every base width and every      *)
(* multiple of it: the same intervals, prices, volumes and counts, and for  *)
(* quotes the same book.                                                    *)
(*                                                                          *)
(* Of Savedown: its types; that only a death takes rows out of memory that  *)
(* no file holds; and that the bars of a settled date are those of its      *)
(* rows, for any number of days, deaths and stops.                          *)
(***************************************************************************)
EXTENDS Savedown, SequenceTheorems, FiniteSetTheorems, WellFoundedInduction, TLAPS

USE RowsAssumption

-----------------------------------------------------------------------------
(* Extrema.                                                                  *)

IsMax(m, S) == m \in S /\ \A y \in S : y <= m
IsMin(m, S) == m \in S /\ \A y \in S : m <= y

LEMMA MaxIs ==
    ASSUME NEW S \in SUBSET Nat, NEW m, IsMax(m, S)
    PROVE  Max(S) = m
<1>1. m \in S /\ \A y \in S : m >= y
  BY DEF IsMax
<1>2. Max(S) \in S /\ \A y \in S : Max(S) >= y
  BY <1>1 DEF Max
<1>3. m \in Nat /\ Max(S) \in Nat /\ m >= Max(S) /\ Max(S) >= m
  BY <1>1, <1>2
<1> QED BY <1>3

LEMMA MinIs ==
    ASSUME NEW S \in SUBSET Nat, NEW m, IsMin(m, S)
    PROVE  Min(S) = m
<1>1. m \in S /\ \A y \in S : m <= y
  BY DEF IsMin
<1>2. Min(S) \in S /\ \A y \in S : Min(S) <= y
  BY <1>1 DEF Min
<1>3. m \in Nat /\ Min(S) \in Nat /\ m <= Min(S) /\ Min(S) <= m
  BY <1>1, <1>2
<1> QED BY <1>3

LEMMA LeastExists ==
    ASSUME NEW S \in SUBSET Nat, S # {}
    PROVE  \E m : IsMin(m, S)
<1> DEFINE Less == {p \in Nat \X Nat : p[1] < p[2]}
<1>1. IsWellFoundedOn(Less, Nat)
  BY NatLessThanWellFounded DEF OpToRel
<1> HIDE DEF Less
<1>2. PICK m \in S : \A y \in S : ~ (<<y, m>> \in Less)
  BY <1>1, WFMin
<1>3. \A y \in S : m <= y
  <2> TAKE y \in S
  <2>1. m \in Nat /\ y \in Nat /\ ~ (<<y, m>> \in Less)
    BY <1>2
  <2>2. ~ (y < m)
    BY <2>1 DEF Less
  <2> QED BY <2>1, <2>2
<1> QED BY <1>2, <1>3 DEF IsMin

LEMMA MinExists ==
    ASSUME NEW S \in SUBSET Nat, S # {}
    PROVE  IsMin(Min(S), S)
BY LeastExists, MinIs

LEMMA MaxExists ==
    ASSUME NEW n \in Nat, NEW S \in SUBSET (0 .. n), S # {}
    PROVE  IsMax(Max(S), S)
<1> DEFINE T == {n - x : x \in S}
<1>1. T \in SUBSET Nat /\ T # {}
  OBVIOUS
<1>2. PICK t : IsMin(t, T)
  <2> HIDE DEF T
  <2> QED BY <1>1, LeastExists
<1>3. PICK m \in S : t = n - m
  BY <1>2 DEF IsMin
<1>4. \A y \in S : y <= m
  <2> TAKE y \in S
  <2>1. n - y \in T
    OBVIOUS
  <2>2. n - m <= n - y
    BY <2>1, <1>2, <1>3 DEF IsMin
  <2> QED BY <2>2
<1>5. S \in SUBSET Nat /\ IsMax(m, S)
  BY <1>4 DEF IsMax
<1> QED BY <1>5, MaxIs

-----------------------------------------------------------------------------
(* Sums over finite sets.  MapThenSumSet adds the elements in an order of its *)
(* own; whatever that is, any element may be added last.  Induction is over   *)
(* cardinalities, as the least counterexample.                               *)

Pick(s) == CHOOSE x \in s : TRUE

\* f[s] is the sum of g over s, for each part s of S.
IsSum(f, g, S) == f = [s \in SUBSET S |-> IF s = {} THEN 0 ELSE g[Pick(s)] + f[s \ {Pick(s)}]]

LEMMA SmallParts ==
    ASSUME NEW S, IsFiniteSet(S), NEW s \in SUBSET S
    PROVE  /\ IsFiniteSet(s) /\ Cardinality(s) \in Nat
           /\ Cardinality(s) = 0 <=> s = {}
           /\ \A x \in s : Cardinality(s \ {x}) = Cardinality(s) - 1 /\ s \ {x} \in SUBSET S
           /\ s # {} => Pick(s) \in s
<1>1. IsFiniteSet(s)
  BY FS_Subset
<1>2. Cardinality(s) \in Nat /\ (Cardinality(s) = 0 <=> s = {})
  BY <1>1, FS_CardinalityType, FS_EmptySet
<1>3. \A x \in s : Cardinality(s \ {x}) = Cardinality(s) - 1
  BY <1>1, FS_RemoveElement
<1>4. s # {} => Pick(s) \in s
  BY DEF Pick
<1> QED BY <1>1, <1>2, <1>3, <1>4

LEMMA SumExists ==
    ASSUME NEW S, IsFiniteSet(S), NEW g
    PROVE  \E f : IsSum(f, g, S)
<1> DEFINE Parts(n) == {s \in SUBSET S : Cardinality(s) <= n}
           Upto(f, n) == f = [s \in Parts(n) |->
                                IF s = {} THEN 0 ELSE g[Pick(s)] + f[s \ {Pick(s)}]]
           Without == {n \in Nat : ~ \E f : Upto(f, n)}
<1>1. Without = {}
  <2>1. SUFFICES ASSUME Without # {} PROVE FALSE
    OBVIOUS
  <2>2. PICK n \in Without : \A m \in Without : n <= m
    BY <2>1, LeastExists DEF IsMin
  <2>3. n # 0
    <3>1. SUFFICES ASSUME n = 0 PROVE FALSE
      OBVIOUS
    <3>2. \A s \in Parts(0) : s = {}
      BY SmallParts
    <3>3. Upto([s \in Parts(0) |-> 0], 0)
      BY <3>2
    <3> QED BY <2>2, <3>1, <3>3
  <2>4. n - 1 \in Nat /\ n - 1 \notin Without
    <3>1. n \in Nat
      BY <2>2
    <3>2. n - 1 \in Nat /\ ~ (n <= n - 1)
      BY <2>3, <3>1
    <3> QED BY <2>2, <3>2
  <2>5. PICK h : Upto(h, n - 1)
    BY <2>4
  <2> DEFINE f == [s \in Parts(n) |-> IF s = {} THEN 0 ELSE g[Pick(s)] + h[s \ {Pick(s)}]]
  <2>6. ASSUME NEW s \in Parts(n), s # {}
        PROVE  f[s \ {Pick(s)}] = h[s \ {Pick(s)}]
    <3> DEFINE r == s \ {Pick(s)}
    <3>1. r \in Parts(n - 1) /\ r \in Parts(n)
      <4>1. Cardinality(s) \in Nat /\ Cardinality(r) = Cardinality(s) - 1 /\ r \in SUBSET S /\ n \in Nat
        BY <2>2, <2>6, SmallParts
      <4> HIDE DEF r
      <4> QED BY <4>1, <2>6
    <3> HIDE DEF r
    <3>2. f[r] = IF r = {} THEN 0 ELSE g[Pick(r)] + h[r \ {Pick(r)}]
      BY <3>1
    <3> HIDE DEF f
    <3>3. h[r] = IF r = {} THEN 0 ELSE g[Pick(r)] + h[r \ {Pick(r)}]
      BY <2>5, <3>1
    <3>4. f[r] = h[r]
      BY <3>2, <3>3
    <3> QED BY <3>4 DEF r
  <2>7. Upto(f, n)
    <3>1. [s \in Parts(n) |-> IF s = {} THEN 0 ELSE g[Pick(s)] + h[s \ {Pick(s)}]]
          = [s \in Parts(n) |-> IF s = {} THEN 0 ELSE g[Pick(s)] + f[s \ {Pick(s)}]]
      <4> HIDE DEF f
      <4> QED BY <2>6
    <3> QED BY <3>1
  <2> QED BY <2>2, <2>7
<1>2. Cardinality(S) \in Nat
  BY FS_CardinalityType
<1>3. PICK f : Upto(f, Cardinality(S))
  BY <1>1, <1>2
<1>4. Parts(Cardinality(S)) = SUBSET S
  BY FS_Subset
<1>5. IsSum(f, g, S)
  BY <1>3, <1>4 DEF IsSum
<1> QED BY <1>5

\* Two sums agree where what is added does.
LEMMA SumsAgree ==
    ASSUME NEW S, NEW T, NEW g, NEW h, NEW f, NEW e, IsFiniteSet(S),
           IsSum(f, g, S), IsSum(e, h, T), NEW s, s \in SUBSET S, s \in SUBSET T,
           \A x \in s : g[x] = h[x]
    PROVE  f[s] = e[s]
<1> DEFINE Apart == {n \in Nat : \E r \in SUBSET s : Cardinality(r) = n /\ f[r] # e[r]}
<1>1. SUFFICES ASSUME f[s] # e[s] PROVE FALSE
  OBVIOUS
<1>2. Cardinality(s) \in Apart
  BY <1>1, SmallParts
<1>3. PICK n \in Apart : \A m \in Apart : n <= m
  BY <1>2, LeastExists DEF IsMin
<1>4. PICK r \in SUBSET s : Cardinality(r) = n /\ f[r] # e[r]
  BY <1>3
<1>5. /\ f[r] = IF r = {} THEN 0 ELSE g[Pick(r)] + f[r \ {Pick(r)}]
      /\ e[r] = IF r = {} THEN 0 ELSE h[Pick(r)] + e[r \ {Pick(r)}]
  BY DEF IsSum
<1>6. r # {} /\ Pick(r) \in r /\ g[Pick(r)] = h[Pick(r)]
  BY <1>4, <1>5, SmallParts
<1>7. f[r \ {Pick(r)}] # e[r \ {Pick(r)}]
  BY <1>4, <1>5, <1>6
<1>8. Cardinality(r \ {Pick(r)}) = n - 1 /\ n \in Nat /\ n - 1 \in Nat
  <2>1. Cardinality(r) # 0 /\ Cardinality(r) \in Nat /\ Cardinality(r \ {Pick(r)}) = Cardinality(r) - 1
    BY <1>6, SmallParts
  <2> QED BY <1>4, <2>1
<1>9. n - 1 \in Apart
  BY <1>6, <1>7, <1>8
<1> QED BY <1>3, <1>8, <1>9

\* A sum is a natural number, and any element may be added last.
LEMMA SumIs ==
    ASSUME NEW S, IsFiniteSet(S), NEW g \in [S -> Nat], NEW f, IsSum(f, g, S)
    PROVE  /\ f[{}] = 0
           /\ \A s \in SUBSET S : f[s] \in Nat
           /\ \A s \in SUBSET S : \A x \in s : f[s] = g[x] + f[s \ {x}]
<1>1. \A s \in SUBSET S : f[s] = IF s = {} THEN 0 ELSE g[Pick(s)] + f[s \ {Pick(s)}]
  BY DEF IsSum
<1>2. f[{}] = 0
  BY <1>1
<1>3. ASSUME NEW s \in SUBSET S, f[s] \notin Nat PROVE FALSE
  <2> DEFINE Bad == {n \in Nat : \E r \in SUBSET S : Cardinality(r) = n /\ f[r] \notin Nat}
  <2>1. Cardinality(s) \in Bad
    BY <1>3, SmallParts
  <2>2. PICK n \in Bad : \A m \in Bad : n <= m
    BY <2>1, LeastExists DEF IsMin
  <2>3. PICK r \in SUBSET S : Cardinality(r) = n /\ f[r] \notin Nat
    BY <2>2
  <2>4. r # {} /\ Pick(r) \in r /\ Pick(r) \in S
    <3>1. r # {}
      BY <1>2, <2>3
    <3> QED BY <2>3, <3>1, SmallParts
  <2>5. f[r \ {Pick(r)}] \notin Nat
    <3>1. g[Pick(r)] \in Nat
      BY <2>4
    <3>2. f[r] = g[Pick(r)] + f[r \ {Pick(r)}]
      BY <1>1, <2>3, <2>4
    <3> QED BY <2>3, <3>1, <3>2
  <2>6. Cardinality(r \ {Pick(r)}) = n - 1 /\ n \in Nat /\ n - 1 \in Nat /\ r \ {Pick(r)} \in SUBSET S
    <3>1. Cardinality(r) # 0 /\ Cardinality(r) \in Nat /\ Cardinality(r \ {Pick(r)}) = Cardinality(r) - 1
      BY <2>4, SmallParts
    <3> QED BY <2>3, <3>1
  <2>7. n - 1 \in Bad
    BY <2>5, <2>6
  <2> QED BY <2>2, <2>6, <2>7
<1>4. ASSUME NEW s \in SUBSET S, NEW x \in s, f[s] # g[x] + f[s \ {x}] PROVE FALSE
  <2> DEFINE Bad == {n \in Nat : \E r \in SUBSET S : \E y \in r :
                        Cardinality(r) = n /\ f[r] # g[y] + f[r \ {y}]}
  <2>1. Cardinality(s) \in Bad
    BY <1>4, SmallParts
  <2>2. PICK n \in Bad : \A m \in Bad : n <= m
    BY <2>1, LeastExists DEF IsMin
  <2>0. PICK r \in SUBSET S : \E y \in r : Cardinality(r) = n /\ f[r] # g[y] + f[r \ {y}]
    BY <2>2
  <2>3. PICK y \in r : Cardinality(r) = n /\ f[r] # g[y] + f[r \ {y}]
    BY <2>0
  <2> DEFINE p == Pick(r)
             q == r \ {p}
             t == r \ {y}
  <2>4. p \in r /\ f[r] = g[p] + f[q] /\ y # p
    BY <1>1, <2>3, SmallParts
  <2>5. q \in SUBSET S /\ t \in SUBSET S /\ y \in q /\ p \in t /\ q \ {y} = t \ {p}
    BY <2>3, <2>4
  <2>6. Cardinality(q) = n - 1 /\ Cardinality(t) = n - 1 /\ n - 1 \in Nat /\ n \in Nat
    <3>1. Cardinality(r) # 0 /\ Cardinality(r) \in Nat
          /\ Cardinality(q) = Cardinality(r) - 1 /\ Cardinality(t) = Cardinality(r) - 1
      BY <2>3, <2>4, SmallParts
    <3> QED BY <2>3, <3>1
  <2>7. n - 1 \notin Bad
    <3>1. ~ (n <= n - 1)
      BY <2>6
    <3> QED BY <2>2, <3>1
  <2>8. f[q] = g[y] + f[q \ {y}] /\ f[t] = g[p] + f[t \ {p}]
    BY <2>5, <2>6, <2>7
  <2>9. g[y] \in Nat /\ g[p] \in Nat /\ f[q \ {y}] \in Nat
    BY <1>3, <2>3, <2>4, <2>5
  <2>10. f[r] # g[y] + f[t]
    BY <2>3
  <2>11. f[t \ {p}] = f[q \ {y}]
    BY <2>5
  <2> HIDE DEF p, q, t
  <2>12. f[r] = g[p] + (g[y] + f[q \ {y}])
    BY <2>4, <2>8
  <2>13. f[t] = g[p] + f[q \ {y}]
    BY <2>8, <2>11
  <2>14. g[p] + (g[y] + f[q \ {y}]) = g[y] + (g[p] + f[q \ {y}])
    BY <2>9
  <2> QED BY <2>10, <2>12, <2>13, <2>14
<1> QED BY <1>2, <1>3, <1>4

\* If there are bad parts there is one that is not bad without any of its elements.
LEMMA SmallestPart ==
    ASSUME NEW S, IsFiniteSet(S), NEW Bad, Bad \subseteq SUBSET S, Bad # {}
    PROVE  \E r \in Bad : \A x \in r : r \ {x} \notin Bad
<1> DEFINE Cards == {n \in Nat : \E r \in Bad : Cardinality(r) = n}
<1>1. PICK s : s \in Bad
  OBVIOUS
<1>2. Cardinality(s) \in Cards
  BY <1>1, SmallParts
<1>3. PICK n : IsMin(n, Cards)
  <2>1. Cards \in SUBSET Nat /\ Cards # {}
    BY <1>2
  <2> HIDE DEF Cards
  <2> QED BY <2>1, LeastExists
<1>4. n \in Cards /\ \A m \in Cards : n <= m
  BY <1>3 DEF IsMin
<1>5. PICK r \in Bad : Cardinality(r) = n
  BY <1>4
<1>6. ASSUME NEW x \in r, r \ {x} \in Bad PROVE FALSE
  <2> DEFINE c == Cardinality(r \ {x})
  <2>1. c = n - 1 /\ n \in Nat /\ c \in Nat
    BY <1>4, <1>5, <1>6, SmallParts
  <2>2. c \in Cards
    BY <1>6, <2>1
  <2> HIDE DEF c
  <2> QED BY <1>4, <2>1, <2>2
<1> QED BY <1>5, <1>6

\* What SumOver is, without the order: no element, and one element more.
LEMMA SumOverIs ==
    ASSUME NEW S, IsFiniteSet(S), NEW g
    PROVE  \E f : IsSum(f, g, S) /\ SumOver(S, g) = f[S]
<1> DEFINE f == CHOOSE f : f = [s \in SUBSET S |-> IF s = {} THEN 0
                                   ELSE g[Pick(s)] + f[s \ {Pick(s)}]]
<1>1. PICK h : IsSum(h, g, S)
  BY SumExists
<1>2. IsSum(f, g, S)
  BY <1>1 DEF IsSum
<1>3. SumOver(S, g) = f[S]
  BY Zenon DEF SumOver, MapThenSumSet, MapThenFoldSet, Pick
<1> QED BY <1>2, <1>3

LEMMA SumSame ==
    ASSUME NEW S, IsFiniteSet(S), NEW g, NEW h, \A x \in S : g[x] = h[x]
    PROVE  SumOver(S, g) = SumOver(S, h)
<1>1. PICK f : IsSum(f, g, S) /\ SumOver(S, g) = f[S]
  BY SumOverIs
<1>2. PICK e : IsSum(e, h, S) /\ SumOver(S, h) = e[S]
  BY SumOverIs
<1>3. S \in SUBSET S
  OBVIOUS
<1> QED BY <1>1, <1>2, <1>3, SumsAgree

NatOn(g, S) == \A x \in S : g[x] \in Nat

LEMMA SumRec ==
    ASSUME NEW S, IsFiniteSet(S), NEW g, NatOn(g, S)
    PROVE  /\ SumOver(S, g) \in Nat
           /\ S = {} => SumOver(S, g) = 0
           /\ \A x \in S : SumOver(S, g) = g[x] + SumOver(S \ {x}, g)
<1> DEFINE h == [x \in S |-> g[x]]
<1>1. h \in [S -> Nat] /\ \A x \in S : g[x] = h[x]
  BY DEF NatOn
<1> HIDE DEF h
<1>2. PICK f : IsSum(f, h, S) /\ SumOver(S, h) = f[S]
  BY SumOverIs
<1>3. SumOver(S, g) = f[S]
  BY <1>1, <1>2, SumSame
<1>4. S \in SUBSET S
  OBVIOUS
<1>5. f[{}] = 0 /\ f[S] \in Nat /\ \A x \in S : f[S] = h[x] + f[S \ {x}]
  BY <1>1, <1>2, <1>4, SumIs
<1>6. ASSUME NEW x \in S PROVE SumOver(S \ {x}, g) = f[S \ {x}]
  <2> DEFINE T == S \ {x}
  <2>1. IsFiniteSet(T) /\ T \in SUBSET S /\ T \in SUBSET T
    BY FS_Subset
  <2> HIDE DEF T
  <2>2. PICK e : IsSum(e, g, T) /\ SumOver(T, g) = e[T]
    BY <2>1, SumOverIs
  <2>3. \A y \in T : g[y] = h[y]
    BY <1>1, <2>1
  <2>4. e[T] = f[T]
    BY <1>2, <2>1, <2>2, <2>3, SumsAgree
  <2> QED BY <2>2, <2>4 DEF T
<1> QED BY <1>1, <1>3, <1>5, <1>6

LEMMA SumOfNone ==
    ASSUME NEW S, IsFiniteSet(S), NEW g, \A x \in S : g[x] = 0
    PROVE  SumOver(S, g) = 0
<1> DEFINE Bad == {s \in SUBSET S : SumOver(s, g) # 0}
<1>1. SUFFICES ASSUME SumOver(S, g) # 0 PROVE FALSE
  OBVIOUS
<1>2. Bad \subseteq SUBSET S /\ Bad # {}
  BY <1>1
<1>3. PICK r \in Bad : \A x \in r : r \ {x} \notin Bad
  <2> HIDE DEF Bad
  <2> QED BY <1>2, SmallestPart
<1>4. r \in SUBSET S /\ SumOver(r, g) # 0 /\ \A x \in r : SumOver(r \ {x}, g) = 0
  BY <1>3
<1> HIDE DEF Bad
<1>5. IsFiniteSet(r) /\ NatOn(g, r)
  BY <1>4, FS_Subset DEF NatOn
<1>6. r # {}
  BY <1>4, <1>5, SumRec
<1>7. PICK x : x \in r
  BY <1>6
<1>8. SumOver(r, g) = g[x] + SumOver(r \ {x}, g) /\ g[x] = 0
  BY <1>4, <1>5, <1>7, SumRec
<1> QED BY <1>4, <1>7, <1>8

\* A count is a sum of ones.
LEMMA CountIsSum ==
    ASSUME NEW S, IsFiniteSet(S), NEW g, \A x \in S : g[x] = 1
    PROVE  SumOver(S, g) = Cardinality(S)
<1> DEFINE Bad == {s \in SUBSET S : SumOver(s, g) # Cardinality(s)}
<1>1. SUFFICES ASSUME SumOver(S, g) # Cardinality(S) PROVE FALSE
  OBVIOUS
<1>2. Bad \subseteq SUBSET S /\ Bad # {}
  BY <1>1
<1>3. PICK r \in Bad : \A x \in r : r \ {x} \notin Bad
  <2> HIDE DEF Bad
  <2> QED BY <1>2, SmallestPart
<1>4. /\ r \in SUBSET S /\ SumOver(r, g) # Cardinality(r)
      /\ \A x \in r : SumOver(r \ {x}, g) = Cardinality(r \ {x})
  BY <1>3
<1> HIDE DEF Bad
<1>5. IsFiniteSet(r) /\ NatOn(g, r)
  BY <1>4, FS_Subset DEF NatOn
<1>6. r # {}
  BY <1>4, <1>5, SumRec, FS_EmptySet
<1>7. PICK x : x \in r
  BY <1>6
<1>8. SumOver(r, g) = g[x] + SumOver(r \ {x}, g) /\ g[x] = 1
  BY <1>4, <1>5, <1>7, SumRec
<1>9. Cardinality(r \ {x}) = Cardinality(r) - 1 /\ Cardinality(r) \in Nat
  BY <1>4, <1>7, SmallParts
<1> QED BY <1>4, <1>7, <1>8, <1>9

\* A sum may be taken part by part: base says which part an element is in.
Part(s, base, u) == {x \in s : base[x] = u}

LEMMA SumByParts ==
    ASSUME NEW S, IsFiniteSet(S), NEW g, NatOn(g, S), NEW W, IsFiniteSet(W), NEW base,
           \A x \in S : base[x] \in W
    PROVE  SumOver(S, g) = SumOver(W, [u \in W |-> SumOver(Part(S, base, u), g)])
<1> DEFINE Of(s) == [u \in W |-> SumOver(Part(s, base, u), g)]
           Bad == {s \in SUBSET S : SumOver(s, g) # SumOver(W, Of(s))}
<1>1. SUFFICES ASSUME SumOver(S, g) # SumOver(W, Of(S)) PROVE FALSE
  OBVIOUS
<1>2. Bad \subseteq SUBSET S /\ Bad # {}
  BY <1>1
<1>3. PICK r \in Bad : \A x \in r : r \ {x} \notin Bad
  <2> HIDE DEF Bad
  <2> QED BY <1>2, SmallestPart
<1>4. /\ r \in SUBSET S /\ SumOver(r, g) # SumOver(W, Of(r))
      /\ \A x \in r : SumOver(r \ {x}, g) = SumOver(W, Of(r \ {x}))
  BY <1>3
<1> HIDE DEF Bad
<1>5. ASSUME NEW s \in SUBSET S
      PROVE  /\ IsFiniteSet(s) /\ NatOn(g, s)
             /\ \A u \in W : /\ IsFiniteSet(Part(s, base, u)) /\ NatOn(g, Part(s, base, u))
                             /\ Of(s)[u] = SumOver(Part(s, base, u), g)
             /\ NatOn(Of(s), W)
  <2>1. IsFiniteSet(s) /\ NatOn(g, s)
    BY FS_Subset DEF NatOn
  <2>2. ASSUME NEW u \in W
        PROVE  /\ IsFiniteSet(Part(s, base, u)) /\ NatOn(g, Part(s, base, u))
               /\ Of(s)[u] = SumOver(Part(s, base, u), g) /\ Of(s)[u] \in Nat
    <3>1. Part(s, base, u) \subseteq s
      BY DEF Part
    <3>2. IsFiniteSet(Part(s, base, u)) /\ NatOn(g, Part(s, base, u))
      BY <2>1, <3>1, FS_Subset DEF NatOn
    <3> QED BY <3>2, SumRec
  <2> HIDE DEF Of
  <2> QED BY <2>1, <2>2 DEF NatOn
<1>6. r # {}
  <2>1. SUFFICES ASSUME r = {} PROVE FALSE
    OBVIOUS
  <2>2. SumOver(r, g) = 0
    BY <1>4, <1>5, <2>1, SumRec
  <2>3. \A u \in W : Of(r)[u] = 0
    <3> TAKE u \in W
    <3>1. Part(r, base, u) = {}
      BY <2>1 DEF Part
    <3>2. /\ IsFiniteSet(Part(r, base, u)) /\ NatOn(g, Part(r, base, u))
          /\ Of(r)[u] = SumOver(Part(r, base, u), g)
      BY <1>4, <1>5
    <3> QED BY <3>1, <3>2, SumRec
  <2> HIDE DEF Of
  <2> QED BY <1>4, <2>2, <2>3, SumOfNone
<1>7. PICK x : x \in r
  BY <1>6
<1> DEFINE t == r \ {x}
           v == base[x]
           V == W \ {v}
<1>8. t \in SUBSET S /\ v \in W /\ x \in S /\ IsFiniteSet(V)
  BY <1>4, <1>7, FS_Subset
<1>9. SumOver(r, g) = g[x] + SumOver(t, g)
  BY <1>4, <1>5, <1>7, SumRec
<1>10. Of(r)[v] = g[x] + Of(t)[v]
  <2>1. Part(r, base, v) \ {x} = Part(t, base, v) /\ x \in Part(r, base, v)
    BY <1>7 DEF Part
  <2>2. SumOver(Part(r, base, v), g) = g[x] + SumOver(Part(t, base, v), g)
    <3> DEFINE p == Part(r, base, v)
    <3>1. IsFiniteSet(p) /\ NatOn(g, p) /\ x \in p
      BY <1>4, <1>5, <1>8, <2>1
    <3>2. p \ {x} = Part(t, base, v)
      BY <2>1
    <3> HIDE DEF p
    <3>3. SumOver(p, g) = g[x] + SumOver(p \ {x}, g)
      BY <3>1, SumRec
    <3> QED BY <3>2, <3>3 DEF p
  <2> QED BY <1>8, <2>2
<1>11. \A u \in V : Of(r)[u] = Of(t)[u]
  <2> TAKE u \in V
  <2>1. Part(r, base, u) = Part(t, base, u)
    BY DEF Part
  <2> QED BY <2>1
<1>12. NatOn(Of(r), W) /\ NatOn(Of(t), W)
  BY <1>4, <1>5, <1>8
<1>13. SumOver(t, g) = SumOver(W, Of(t))
  BY <1>4, <1>7
<1>14. g[x] \in Nat
  BY <1>8 DEF NatOn
<1> HIDE DEF Of, t
<1>15. /\ SumOver(W, Of(r)) = Of(r)[v] + SumOver(V, Of(r))
       /\ SumOver(W, Of(t)) = Of(t)[v] + SumOver(V, Of(t))
  BY <1>8, <1>12, SumRec
<1>16. SumOver(V, Of(r)) = SumOver(V, Of(t))
  <2> HIDE DEF V
  <2> QED BY <1>8, <1>11, SumSame
<1>17. Of(t)[v] \in Nat /\ SumOver(V, Of(t)) \in Nat
  <2>1. NatOn(Of(t), V)
    BY <1>12 DEF NatOn
  <2> HIDE DEF V
  <2> QED BY <1>8, <1>12, <2>1, SumRec DEF NatOn
<1> HIDE DEF V, v
<1>18. SumOver(W, Of(r)) = g[x] + SumOver(W, Of(t))
  BY <1>10, <1>14, <1>15, <1>16, <1>17
<1> QED BY <1>4, <1>9, <1>13, <1>18

-----------------------------------------------------------------------------
(* Intervals.                                                                *)

LEMMA XBarIs ==
    ASSUME NEW sz \in Nat \ {0}, NEW t \in Nat
    PROVE  /\ t \div sz \in Nat /\ XBar(sz, t) \in Nat
           /\ XBar(sz, t) = sz * (t \div sz)
           /\ XBar(sz, t) <= t /\ t < XBar(sz, t) + sz
<1>1. t \div sz \in Nat /\ t % sz \in 0 .. sz - 1 /\ t = sz * (t \div sz) + (t % sz)
  OBVIOUS
<1>2. sz * (t \div sz) \in Nat
  BY <1>1
<1> QED BY <1>1, <1>2 DEF XBar

\* A multiple of sz that t has reached and sz more has not.
LEMMA XBarUnique ==
    ASSUME NEW sz \in Nat \ {0}, NEW t \in Nat, NEW q \in Nat,
           sz * q <= t, t < sz * q + sz
    PROVE  XBar(sz, t) = sz * q
<1> DEFINE p == t \div sz
<1>1. p \in Nat /\ sz * p <= t /\ t < sz * p + sz /\ XBar(sz, t) = sz * p
  BY XBarIs
<1> HIDE DEF p
<1>2. CASE p < q
  <2>1. PICK d \in Nat : q = p + 1 + d
    <3>1. q - p - 1 \in Nat
      BY <1>1, <1>2
    <3> QED BY <3>1, <1>1
  <2>2. sz * q = sz * p + sz + sz * d /\ sz * d \in Nat /\ sz * p \in Nat
    BY <2>1, <1>1
  <2> QED BY <2>2, <1>1
<1>3. CASE q < p
  <2>1. PICK d \in Nat : p = q + 1 + d
    <3>1. p - q - 1 \in Nat
      BY <1>1, <1>3
    <3> QED BY <3>1, <1>1
  <2>2. sz * p = sz * q + sz + sz * d /\ sz * d \in Nat /\ sz * q \in Nat
    BY <2>1, <1>1
  <2> QED BY <2>2, <1>1
<1> QED BY <1>1, <1>2, <1>3

\* Time does not run back over interval boundaries.
LEMMA XBarMonotone ==
    ASSUME NEW sz \in Nat \ {0}, NEW t \in Nat, NEW u \in Nat, t <= u
    PROVE  XBar(sz, t) <= XBar(sz, u)
<1> DEFINE p == t \div sz
           q == u \div sz
<1>1. /\ p \in Nat /\ XBar(sz, t) = sz * p /\ sz * p <= t
      /\ q \in Nat /\ XBar(sz, u) = sz * q /\ u < sz * q + sz
  BY XBarIs
<1> HIDE DEF p, q
<1>2. CASE q < p
  <2>1. PICK d \in Nat : p = q + 1 + d
    <3>1. p - q - 1 \in Nat
      BY <1>1, <1>2
    <3> QED BY <3>1, <1>1
  <2>2. sz * p = sz * q + sz + sz * d /\ sz * d \in Nat /\ sz * q \in Nat
    BY <2>1, <1>1
  <2> QED BY <2>2, <1>1
<1>3. CASE p <= q
  <2>1. PICK d \in Nat : q = p + d
    <3>1. q - p \in Nat
      BY <1>1, <1>3
    <3> QED BY <3>1, <1>1
  <2>2. sz * q = sz * p + sz * d /\ sz * d \in Nat /\ sz * p \in Nat
    BY <2>1, <1>1
  <2> QED BY <2>2, <1>1
<1> QED BY <1>1, <1>2, <1>3

Multiple(sz) == sz \in Nat \ {0} /\ \E k \in Nat \ {0} : sz = k * BarSize

\* An interval of the base width lies in one interval of a multiple of it.
LEMMA Nested ==
    ASSUME NEW sz, Multiple(sz), NEW t \in Nat
    PROVE  XBar(sz, XBar(BarSize, t)) = XBar(sz, t)
<1> DEFINE u == XBar(BarSize, t)
           p == t \div BarSize
           q == u \div sz
<1>1. PICK k \in Nat \ {0} : sz = k * BarSize
  BY DEF Multiple
<1>2. sz \in Nat \ {0}
  BY DEF Multiple
<1>3. u \in Nat /\ u <= t /\ t < u + BarSize /\ u = BarSize * p /\ p \in Nat
  BY XBarIs
<1>4. q \in Nat /\ sz * q <= u /\ u < sz * q + sz /\ XBar(sz, u) = sz * q
  BY <1>2, <1>3, XBarIs
<1> HIDE DEF p, q, u
<1>5. sz * q = BarSize * (k * q) /\ sz * q + sz = BarSize * (k * q + k) /\ k * q + k \in Nat
  BY <1>1, <1>4
<1>6. p < k * q + k
  <2> DEFINE m == k * q + k
  <2>1. BarSize * p < BarSize * m /\ m \in Nat
    BY <1>3, <1>4, <1>5
  <2> HIDE DEF m
  <2>2. CASE m <= p
    <3>1. PICK d \in Nat : p = m + d
      <4>1. p - m \in Nat
        BY <1>3, <2>1, <2>2
      <4> QED BY <4>1, <1>3, <2>1
    <3>2. BarSize * p = BarSize * m + BarSize * d /\ BarSize * d \in Nat /\ BarSize * m \in Nat
      BY <3>1, <2>1
    <3> QED BY <3>2, <2>1
  <2> QED BY <2>1, <2>2, <1>3 DEF m
<1>7. u + BarSize <= sz * q + sz
  <2> DEFINE m == k * q + k
  <2>1. m \in Nat /\ p < m /\ sz * q + sz = BarSize * m
    BY <1>5, <1>6
  <2> HIDE DEF m
  <2>2. PICK d \in Nat : m = p + 1 + d
    <3>1. m - p - 1 \in Nat
      BY <1>3, <2>1
    <3> QED BY <3>1, <1>3, <2>1
  <2>3. BarSize * m = BarSize * p + BarSize + BarSize * d /\ BarSize * d \in Nat
    BY <2>2, <1>3
  <2>4. BarSize * p \in Nat
    BY <1>3
  <2> QED BY <2>1, <2>3, <2>4, <1>3
<1>8. sz * q \in Nat
  BY <1>2, <1>4
<1>9. sz * q <= t /\ t < sz * q + sz
  BY <1>2, <1>3, <1>4, <1>7, <1>8
<1>10. XBar(sz, t) = sz * q
  BY <1>2, <1>4, <1>9, XBarUnique
<1> QED BY <1>4, <1>10 DEF u

-----------------------------------------------------------------------------
(* The rows of a wide interval are those of the base intervals in it.        *)

LEMMA RowsTyped ==
    ASSUME NEW S \in SUBSET Rows
    PROVE  /\ S \in SUBSET Nat /\ S \in SUBSET (0 .. MaxRow)
           /\ \A r \in S : Time[r] \in Nat /\ Price[r] \in Prices
           /\ \A r \in S, q \in S : r <= q => Time[r] <= Time[q]
<1>1. \A r \in S : r \in Rows
  OBVIOUS
<1> QED BY <1>1, TimeAssumption DEF Rows

LEMMA BucketsTyped ==
    ASSUME NEW S \in SUBSET Rows, NEW sz \in Nat \ {0}
    PROVE  \E n \in Nat : Buckets(S, sz) \in SUBSET (0 .. n)
<1>1. CASE S = {}
  BY <1>1 DEF Buckets
<1>2. CASE S # {}
  <2>1. PICK r \in S : \A q \in S : q <= r
    BY <1>2, RowsTyped, MaxExists DEF IsMax
  <2>2. \A q \in S : XBar(sz, Time[q]) \in 0 .. Time[r]
    <3> TAKE q \in S
    <3>1. Time[q] \in Nat /\ Time[r] \in Nat /\ Time[q] <= Time[r]
      BY <2>1, RowsTyped
    <3>2. XBar(sz, Time[q]) \in Nat /\ XBar(sz, Time[q]) <= Time[q]
      BY <3>1, XBarIs
    <3> QED BY <3>1, <3>2
  <2>3. Time[r] \in Nat
    BY RowsTyped
  <2> QED BY <2>2, <2>3 DEF Buckets
<1> QED BY <1>1, <1>2

LEMMA Split ==
    ASSUME NEW S \in SUBSET Rows, NEW sz, Multiple(sz)
    PROVE  /\ WiderBuckets(Buckets(S, BarSize), sz) = Buckets(S, sz)
           /\ \A t \in Buckets(S, sz) :
                /\ InWiderBucket(Buckets(S, BarSize), sz, t) # {}
                /\ InBucket(S, sz, t) # {}
                /\ \A r \in InBucket(S, sz, t) :
                      XBar(BarSize, Time[r]) \in InWiderBucket(Buckets(S, BarSize), sz, t)
                /\ \A u \in InWiderBucket(Buckets(S, BarSize), sz, t) :
                      /\ u \in Buckets(S, BarSize)
                      /\ InBucket(S, BarSize, u) # {}
                      /\ InBucket(S, BarSize, u) \subseteq InBucket(S, sz, t)
<1> USE DEF Buckets, InBucket, WiderBuckets, InWiderBucket
<1>1. \A r \in S : XBar(sz, XBar(BarSize, Time[r])) = XBar(sz, Time[r])
  BY RowsTyped, Nested
<1>2. WiderBuckets(Buckets(S, BarSize), sz) = Buckets(S, sz)
  <2>1. ASSUME NEW t \in WiderBuckets(Buckets(S, BarSize), sz) PROVE t \in Buckets(S, sz)
    <3>1. PICK r \in S : t = XBar(sz, XBar(BarSize, Time[r]))
      OBVIOUS
    <3> QED BY <3>1, <1>1
  <2>2. ASSUME NEW t \in Buckets(S, sz) PROVE t \in WiderBuckets(Buckets(S, BarSize), sz)
    <3>1. PICK r \in S : t = XBar(sz, Time[r])
      OBVIOUS
    <3>2. t = XBar(sz, XBar(BarSize, Time[r]))
      BY <3>1, <1>1
    <3> QED BY <3>2
  <2> QED BY <2>1, <2>2
<1>3. ASSUME NEW t \in Buckets(S, sz)
      PROVE  InBucket(S, sz, t) # {}
  OBVIOUS
<1>4. ASSUME NEW t \in Buckets(S, sz), NEW r \in InBucket(S, sz, t)
      PROVE  XBar(BarSize, Time[r]) \in InWiderBucket(Buckets(S, BarSize), sz, t)
  BY <1>1
<1>5. ASSUME NEW t \in Buckets(S, sz), NEW u \in InWiderBucket(Buckets(S, BarSize), sz, t)
      PROVE  /\ u \in Buckets(S, BarSize)
             /\ InBucket(S, BarSize, u) # {}
             /\ InBucket(S, BarSize, u) \subseteq InBucket(S, sz, t)
  BY <1>1
<1>6. ASSUME NEW t \in Buckets(S, sz)
      PROVE  InWiderBucket(Buckets(S, BarSize), sz, t) # {}
  <2>1. PICK r : r \in InBucket(S, sz, t)
    BY <1>3
  <2> QED BY <2>1, <1>4
<1> QED BY <1>2, <1>3, <1>4, <1>5, <1>6

\* The earliest base interval holds the first row, the latest one the last.
LEMMA Ends ==
    ASSUME NEW S \in SUBSET Rows, NEW sz, Multiple(sz), NEW t \in Buckets(S, sz)
    PROVE  LET W == InWiderBucket(Buckets(S, BarSize), sz, t)
           IN  /\ Min(W) \in W /\ Max(W) \in W
               /\ Min(InBucket(S, BarSize, Min(W))) = Min(InBucket(S, sz, t))
               /\ Max(InBucket(S, BarSize, Max(W))) = Max(InBucket(S, sz, t))
<1> DEFINE W == InWiderBucket(Buckets(S, BarSize), sz, t)
           I == InBucket(S, sz, t)
           J(u) == InBucket(S, BarSize, u)
           Base(r) == XBar(BarSize, Time[r])
<1>1. /\ W # {} /\ I # {}
      /\ \A r \in I : Base(r) \in W
      /\ \A u \in W : J(u) # {} /\ J(u) \subseteq I
  BY Split
<1>2. PICK n \in Nat : W \in SUBSET (0 .. n)
  <2>1. W \subseteq Buckets(S, BarSize)
    BY DEF InWiderBucket
  <2> QED BY <2>1, BucketsTyped
<1>3. I \in SUBSET (0 .. MaxRow) /\ I \subseteq S /\ \A u \in W : J(u) \in SUBSET (0 .. MaxRow)
  BY RowsTyped DEF InBucket
<1>4. /\ \A u \in W : \A r \in J(u) : Base(r) = u
      /\ \A r \in I : r \in J(Base(r))
  BY <1>3 DEF InBucket
<1>5. \A r \in I, q \in I : r <= q => Base(r) <= Base(q)
  <2> TAKE r \in I, q \in I
  <2>1. Time[r] \in Nat /\ Time[q] \in Nat /\ (r <= q => Time[r] <= Time[q])
    BY <1>3, RowsTyped
  <2> QED BY <2>1, XBarMonotone
<1>6. IsMin(Min(W), W) /\ IsMax(Max(W), W) /\ IsMin(Min(I), I) /\ IsMax(Max(I), I)
  <2>1. W \in SUBSET Nat /\ I \in SUBSET Nat
    BY <1>2, <1>3
  <2> HIDE DEF W, I
  <2> QED BY <2>1, <1>1, <1>2, <1>3, MinExists, MaxExists
<1> HIDE DEF W, I, J, Base
<1>7. Min(J(Min(W))) = Min(I)
  <2> DEFINE r == Min(I)
  <2>1. r \in I /\ \A q \in I : r <= q
    BY <1>6 DEF IsMin
  <2> HIDE DEF r
  <2>2. IsMin(Base(r), W)
    <3>1. ASSUME NEW u \in W PROVE Base(r) <= u
      <4>1. PICK q : q \in J(u)
        BY <1>1
      <4>2. q \in I /\ Base(q) = u
        BY <4>1, <1>1, <1>4
      <4> QED BY <4>2, <2>1, <1>5
    <3> QED BY <3>1, <2>1, <1>1 DEF IsMin
  <2>3. Base(r) = Min(W)
    BY <2>2, <1>2, MinIs
  <2>4. IsMin(r, J(Base(r)))
    BY <2>1, <1>1, <1>4 DEF IsMin
  <2>5. J(Base(r)) \in SUBSET Nat
    BY <1>1, <1>3, <2>1
  <2> QED BY <2>3, <2>4, <2>5, MinIs DEF r
<1>8. Max(J(Max(W))) = Max(I)
  <2> DEFINE r == Max(I)
  <2>1. r \in I /\ \A q \in I : q <= r
    BY <1>6 DEF IsMax
  <2> HIDE DEF r
  <2>2. IsMax(Base(r), W)
    <3>1. ASSUME NEW u \in W PROVE u <= Base(r)
      <4>1. PICK q : q \in J(u)
        BY <1>1
      <4>2. q \in I /\ Base(q) = u
        BY <4>1, <1>1, <1>4
      <4> QED BY <4>2, <2>1, <1>5
    <3> QED BY <3>1, <2>1, <1>1 DEF IsMax
  <2>3. Base(r) = Max(W)
    BY <2>2, <1>2, MaxIs
  <2>4. IsMax(r, J(Base(r)))
    BY <2>1, <1>1, <1>4 DEF IsMax
  <2>5. J(Base(r)) \in SUBSET Nat
    BY <1>1, <1>3, <2>1
  <2> QED BY <2>3, <2>4, <2>5, MaxIs DEF r
<1>9. Min(W) \in W /\ Max(W) \in W
  BY <1>6 DEF IsMin, IsMax
<1> QED BY <1>7, <1>8, <1>9 DEF W, I, J

\* The highest of the highs is the highest price, and the lowest of the lows the lowest.
LEMMA Extremes ==
    ASSUME NEW S \in SUBSET Rows, NEW sz, Multiple(sz), NEW t \in Buckets(S, sz)
    PROVE  LET W == InWiderBucket(Buckets(S, BarSize), sz, t)
               high(u) == Max({Price[r] : r \in InBucket(S, BarSize, u)})
               low(u) == Min({Price[r] : r \in InBucket(S, BarSize, u)})
           IN  /\ Max({high(u) : u \in W}) = Max({Price[r] : r \in InBucket(S, sz, t)})
               /\ Min({low(u) : u \in W}) = Min({Price[r] : r \in InBucket(S, sz, t)})
<1> DEFINE W == InWiderBucket(Buckets(S, BarSize), sz, t)
           I == InBucket(S, sz, t)
           J(u) == InBucket(S, BarSize, u)
           Base(r) == XBar(BarSize, Time[r])
           PricesOf(R) == {Price[r] : r \in R}
           H == {Max(PricesOf(J(u))) : u \in W}
           L == {Min(PricesOf(J(u))) : u \in W}
<1>1. /\ I # {}
      /\ \A r \in I : Base(r) \in W
      /\ \A u \in W : J(u) # {} /\ J(u) \subseteq I
  BY Split
<1>2. I \subseteq S /\ \A r \in I : r \in J(Base(r))
  BY DEF InBucket
<1>3. \A r \in I : Price[r] \in Prices
  BY <1>2, RowsTyped
<1> HIDE DEF W, I, J, Base
<1>4. PricesOf(I) \in SUBSET Prices /\ PricesOf(I) # {}
      /\ \A u \in W : PricesOf(J(u)) \in SUBSET Prices /\ PricesOf(J(u)) # {}
  BY <1>1, <1>3
<1>5. Prices \in SUBSET Nat /\ MaxPrice \in Nat /\ Prices = 0 .. MaxPrice
  BY DEF Prices
<1>6. ASSUME NEW R, PricesOf(R) \in SUBSET Prices, PricesOf(R) # {}
      PROVE  IsMax(Max(PricesOf(R)), PricesOf(R)) /\ IsMin(Min(PricesOf(R)), PricesOf(R))
  <2> DEFINE P == PricesOf(R)
  <2>1. P \in SUBSET (0 .. MaxPrice) /\ P \in SUBSET Nat /\ P # {}
    BY <1>5, <1>6
  <2> HIDE DEF P
  <2> QED BY <2>1, <1>5, MaxExists, MinExists DEF P
<1>7. ASSUME NEW u \in W
      PROVE  /\ \E r \in I : Max(PricesOf(J(u))) = Price[r]
             /\ \E r \in I : Min(PricesOf(J(u))) = Price[r]
             /\ \A r \in J(u) : Price[r] <= Max(PricesOf(J(u))) /\ Min(PricesOf(J(u))) <= Price[r]
  <2>1. /\ Max(PricesOf(J(u))) \in PricesOf(J(u)) /\ Min(PricesOf(J(u))) \in PricesOf(J(u))
        /\ \A x \in PricesOf(J(u)) : x <= Max(PricesOf(J(u))) /\ Min(PricesOf(J(u))) <= x
    BY <1>4, <1>6 DEF IsMax, IsMin
  <2> QED BY <2>1, <1>1
<1>8. Max(H) = Max(PricesOf(I))
  <2>0. IsMax(Max(PricesOf(I)), PricesOf(I))
    BY <1>4, <1>6
  <2>1. PICK r \in I : Max(PricesOf(I)) = Price[r] /\ \A q \in I : Price[q] <= Price[r]
    BY <2>0 DEF IsMax
  <2>2. Max(PricesOf(J(Base(r)))) = Price[r]
    <3>1. Base(r) \in W /\ r \in J(Base(r))
      BY <2>1, <1>1, <1>2
    <3>2. PICK q \in I : Max(PricesOf(J(Base(r)))) = Price[q]
      BY <3>1, <1>7
    <3>3. Price[r] <= Price[q] /\ Price[q] <= Price[r]
      BY <3>1, <3>2, <2>1, <1>7
    <3>4. Price[r] \in Nat /\ Price[q] \in Nat
      BY <1>3, <1>5, <2>1, <3>2
    <3> QED BY <3>2, <3>3, <3>4
  <2>3. Price[r] \in H
    BY <2>1, <2>2, <1>1
  <2>4. ASSUME NEW x \in H PROVE x <= Price[r] /\ x \in Nat
    <3>1. PICK u \in W : x = Max(PricesOf(J(u)))
      OBVIOUS
    <3>2. PICK q \in I : x = Price[q]
      BY <3>1, <1>7
    <3> QED BY <3>2, <2>1, <1>3, <1>5
  <2>5. H \in SUBSET Nat /\ IsMax(Price[r], H)
    BY <2>3, <2>4 DEF IsMax
  <2> HIDE DEF H
  <2> QED BY <2>1, <2>5, MaxIs
<1>9. Min(L) = Min(PricesOf(I))
  <2>0. IsMin(Min(PricesOf(I)), PricesOf(I))
    BY <1>4, <1>6
  <2>1. PICK r \in I : Min(PricesOf(I)) = Price[r] /\ \A q \in I : Price[r] <= Price[q]
    BY <2>0 DEF IsMin
  <2>2. Min(PricesOf(J(Base(r)))) = Price[r]
    <3>1. Base(r) \in W /\ r \in J(Base(r))
      BY <2>1, <1>1, <1>2
    <3>2. PICK q \in I : Min(PricesOf(J(Base(r)))) = Price[q]
      BY <3>1, <1>7
    <3>3. Price[q] <= Price[r] /\ Price[r] <= Price[q]
      BY <3>1, <3>2, <2>1, <1>7
    <3>4. Price[r] \in Nat /\ Price[q] \in Nat
      BY <1>3, <1>5, <2>1, <3>2
    <3> QED BY <3>2, <3>3, <3>4
  <2>3. Price[r] \in L
    BY <2>1, <2>2, <1>1
  <2>4. ASSUME NEW x \in L PROVE Price[r] <= x /\ x \in Nat
    <3>1. PICK u \in W : x = Min(PricesOf(J(u)))
      OBVIOUS
    <3>2. PICK q \in I : x = Price[q]
      BY <3>1, <1>7
    <3> QED BY <3>2, <2>1, <1>3, <1>5
  <2>5. L \in SUBSET Nat /\ IsMin(Price[r], L)
    BY <2>3, <2>4 DEF IsMin
  <2> HIDE DEF L
  <2> QED BY <2>1, <2>5, MinIs
<1> QED BY <1>8, <1>9 DEF W, I, J

\* The prices of a bar.
LEMMA BarPrices ==
    ASSUME NEW S
    PROVE  /\ BarOf(S).open = Price[Min(S)] /\ BarOf(S).close = Price[Max(S)]
           /\ BarOf(S).high = Max({Price[r] : r \in S})
           /\ BarOf(S).low = Min({Price[r] : r \in S})
BY DEF BarOf

LEMMA BucketIsFinite ==
    ASSUME NEW S \in SUBSET Rows, NEW sz, NEW t
    PROVE  IsFiniteSet(InBucket(S, sz, t)) /\ InBucket(S, sz, t) \subseteq S
<1>1. IsFiniteSet(Rows)
  BY FS_Interval DEF Rows
<1>2. InBucket(S, sz, t) \subseteq S
  BY DEF InBucket
<1> QED BY <1>1, <1>2, FS_Subset

\* The sum over a wide interval is that of the sums over the narrow ones in it.
LEMMA BucketSums ==
    ASSUME NEW S \in SUBSET Rows, NEW sz, Multiple(sz), NEW t \in Buckets(S, sz),
           NEW g \in [Rows -> Nat]
    PROVE  LET W == InWiderBucket(Buckets(S, BarSize), sz, t)
           IN  SumOver(W, [u \in W |-> SumOver(InBucket(S, BarSize, u), g)])
                 = SumOver(InBucket(S, sz, t), g)
<1> DEFINE W == InWiderBucket(Buckets(S, BarSize), sz, t)
           I == InBucket(S, sz, t)
           J(u) == InBucket(S, BarSize, u)
           base == [r \in I |-> XBar(BarSize, Time[r])]
<1>1. /\ \A r \in I : base[r] \in W
      /\ \A u \in W : J(u) \subseteq I
  BY Split
<1>2. IsFiniteSet(W)
  <2>1. PICK n \in Nat : W \in SUBSET (0 .. n)
    <3>1. W \subseteq Buckets(S, BarSize)
      BY DEF InWiderBucket
    <3> QED BY <3>1, BucketsTyped
  <2>2. IsFiniteSet(0 .. n)
    BY <2>1, FS_Interval
  <2> QED BY <2>1, <2>2, FS_Subset
<1>3. IsFiniteSet(I) /\ I \subseteq S
  BY BucketIsFinite
<1>4. \A u \in W : Part(I, base, u) = J(u)
  <2> TAKE u \in W
  <2>1. \A r \in I : r \in J(u) <=> base[r] = u
    BY <1>3 DEF InBucket
  <2> QED BY <1>1, <2>1 DEF Part
<1>5. NatOn(g, I)
  BY <1>3 DEF NatOn
<1> HIDE DEF W, I, J, base
<1>7. SumOver(I, g) = SumOver(W, [u \in W |-> SumOver(Part(I, base, u), g)])
  BY <1>1, <1>2, <1>3, <1>5, SumByParts
<1>8. [u \in W |-> SumOver(Part(I, base, u), g)] = [u \in W |-> SumOver(J(u), g)]
  BY <1>4
<1> QED BY <1>7, <1>8 DEF W, I, J

\* The intervals and the prices of coarser bars.
LEMMA RebucketedPrices ==
    ASSUME NEW S \in SUBSET Rows, NEW sz, Multiple(sz)
    PROVE  LET merged == RebucketBars(BarsOf(S, BarSize), sz)
               direct == BarsOf(S, sz)
           IN  /\ DOMAIN merged = DOMAIN direct
               /\ \A t \in DOMAIN direct :
                     /\ merged[t].open = direct[t].open
                     /\ merged[t].high = direct[t].high
                     /\ merged[t].low = direct[t].low
                     /\ merged[t].close = direct[t].close
<1> DEFINE stored == BarsOf(S, BarSize)
           merged == RebucketBars(stored, sz)
           direct == BarsOf(S, sz)
           W(t) == InWiderBucket(Buckets(S, BarSize), sz, t)
<1>1. DOMAIN stored = Buckets(S, BarSize) /\ DOMAIN direct = Buckets(S, sz)
  BY DEF BarsOf
<1>2. DOMAIN merged = WiderBuckets(Buckets(S, BarSize), sz)
  BY <1>1 DEF RebucketBars
<1>3. DOMAIN merged = DOMAIN direct
  BY <1>1, <1>2, Split
<1>4. ASSUME NEW t \in Buckets(S, sz)
      PROVE  /\ merged[t].open = direct[t].open /\ merged[t].close = direct[t].close
             /\ merged[t].high = direct[t].high /\ merged[t].low = direct[t].low
  <2>1. merged[t] = MergedBar(stored, W(t))
    BY <1>1, <1>2, <1>3 DEF RebucketBars
  <2>2. direct[t] = BarOf(InBucket(S, sz, t))
    BY DEF BarsOf
  <2>3. \A u \in W(t) : stored[u] = BarOf(InBucket(S, BarSize, u))
    BY DEF BarsOf, InWiderBucket
  <2>4. /\ merged[t].open = stored[Min(W(t))].open /\ merged[t].close = stored[Max(W(t))].close
        /\ merged[t].high = Max({stored[u].high : u \in W(t)})
        /\ merged[t].low = Min({stored[u].low : u \in W(t)})
    BY <2>1 DEF MergedBar
  <2>5. /\ direct[t].open = Price[Min(InBucket(S, sz, t))]
        /\ direct[t].close = Price[Max(InBucket(S, sz, t))]
        /\ direct[t].high = Max({Price[r] : r \in InBucket(S, sz, t)})
        /\ direct[t].low = Min({Price[r] : r \in InBucket(S, sz, t)})
    BY <2>2, BarPrices
  <2>6. \A u \in W(t) :
            /\ stored[u].open = Price[Min(InBucket(S, BarSize, u))]
            /\ stored[u].close = Price[Max(InBucket(S, BarSize, u))]
            /\ stored[u].high = Max({Price[r] : r \in InBucket(S, BarSize, u)})
            /\ stored[u].low = Min({Price[r] : r \in InBucket(S, BarSize, u)})
    BY <2>3, BarPrices
  <2> HIDE DEF stored, merged, direct
  <2>7. merged[t].open = direct[t].open /\ merged[t].close = direct[t].close
    <3>1. /\ Min(W(t)) \in W(t) /\ Max(W(t)) \in W(t)
          /\ Min(InBucket(S, BarSize, Min(W(t)))) = Min(InBucket(S, sz, t))
          /\ Max(InBucket(S, BarSize, Max(W(t)))) = Max(InBucket(S, sz, t))
      BY Ends
    <3> QED BY <3>1, <2>4, <2>5, <2>6
  <2>8. {stored[u].high : u \in W(t)}
          = {Max({Price[r] : r \in InBucket(S, BarSize, u)}) : u \in W(t)}
    BY <2>6
  <2>9. {stored[u].low : u \in W(t)}
          = {Min({Price[r] : r \in InBucket(S, BarSize, u)}) : u \in W(t)}
    BY <2>6
  <2>10. /\ Max({Max({Price[r] : r \in InBucket(S, BarSize, u)}) : u \in W(t)})
               = Max({Price[r] : r \in InBucket(S, sz, t)})
         /\ Min({Min({Price[r] : r \in InBucket(S, BarSize, u)}) : u \in W(t)})
               = Min({Price[r] : r \in InBucket(S, sz, t)})
    BY Extremes
  <2>11. merged[t].high = direct[t].high /\ merged[t].low = direct[t].low
    BY <2>4, <2>5, <2>8, <2>9, <2>10
  <2> QED BY <2>7, <2>11
<1> QED BY <1>1, <1>3, <1>4

\* The volumes and the count of a coarser bar.
LEMMA RebucketedSums ==
    ASSUME NEW S \in SUBSET Rows, NEW sz, Multiple(sz), NEW t \in Buckets(S, sz)
    PROVE  LET merged == MergedBar(BarsOf(S, BarSize), InWiderBucket(Buckets(S, BarSize), sz, t))
               direct == BarOf(InBucket(S, sz, t))
           IN  /\ merged.value = direct.value /\ merged.vol = direct.vol
               /\ merged.trades = direct.trades
               /\ merged.buyVol = direct.buyVol /\ merged.sellVol = direct.sellVol
<1> DEFINE stored == BarsOf(S, BarSize)
           W == InWiderBucket(Buckets(S, BarSize), sz, t)
           I == InBucket(S, sz, t)
           J(u) == InBucket(S, BarSize, u)
           One == [r \in Rows |-> 1]
<1>1. \A u \in W : stored[u] = BarOf(J(u))
  BY DEF BarsOf, InWiderBucket
<1>2. ASSUME NEW s
      PROVE  /\ BarOf(s).value = SumOver(s, Value) /\ BarOf(s).vol = SumOver(s, Qty)
             /\ BarOf(s).buyVol = SumOver(s, BuyQty) /\ BarOf(s).sellVol = SumOver(s, SellQty)
             /\ BarOf(s).trades = Cardinality(s)
  BY DEF BarOf
<1>3. /\ MergedBar(stored, W).value = SumOver(W, [u \in W |-> stored[u].value])
      /\ MergedBar(stored, W).vol = SumOver(W, [u \in W |-> stored[u].vol])
      /\ MergedBar(stored, W).trades = SumOver(W, [u \in W |-> stored[u].trades])
      /\ MergedBar(stored, W).buyVol = SumOver(W, [u \in W |-> stored[u].buyVol])
      /\ MergedBar(stored, W).sellVol = SumOver(W, [u \in W |-> stored[u].sellVol])
  BY DEF MergedBar
<1>4. /\ Value \in [Rows -> Nat] /\ Qty \in [Rows -> Nat]
      /\ BuyQty \in [Rows -> Nat] /\ SellQty \in [Rows -> Nat] /\ One \in [Rows -> Nat]
  <2>1. \A r \in Rows : Price[r] \in Nat /\ Qty[r] \in Nat
    BY DEF Prices
  <2>2. \A r \in Rows : Price[r] * Qty[r] \in Nat
    BY <2>1
  <2> QED BY <2>1, <2>2 DEF Value, BuyQty, SellQty
<1>5. ASSUME NEW g \in [Rows -> Nat]
      PROVE  SumOver(W, [u \in W |-> SumOver(J(u), g)]) = SumOver(I, g)
  BY BucketSums
<1>6. \A u \in W : Cardinality(J(u)) = SumOver(J(u), One)
  <2> TAKE u \in W
  <2>1. IsFiniteSet(J(u)) /\ J(u) \subseteq Rows
    BY BucketIsFinite
  <2>2. \A r \in J(u) : One[r] = 1
    BY <2>1
  <2> HIDE DEF J, One
  <2> QED BY <2>1, <2>2, CountIsSum
<1>7. Cardinality(I) = SumOver(I, One)
  <2>1. IsFiniteSet(I) /\ I \subseteq Rows
    BY BucketIsFinite
  <2>2. \A r \in I : One[r] = 1
    BY <2>1
  <2> HIDE DEF I, One
  <2> QED BY <2>1, <2>2, CountIsSum
<1> HIDE DEF stored, W, I, J, One
<1>8. /\ [u \in W |-> stored[u].value] = [u \in W |-> SumOver(J(u), Value)]
      /\ [u \in W |-> stored[u].vol] = [u \in W |-> SumOver(J(u), Qty)]
      /\ [u \in W |-> stored[u].trades] = [u \in W |-> SumOver(J(u), One)]
      /\ [u \in W |-> stored[u].buyVol] = [u \in W |-> SumOver(J(u), BuyQty)]
      /\ [u \in W |-> stored[u].sellVol] = [u \in W |-> SumOver(J(u), SellQty)]
  BY <1>1, <1>2, <1>6
<1>9. /\ MergedBar(stored, W).value = BarOf(I).value /\ MergedBar(stored, W).vol = BarOf(I).vol
      /\ MergedBar(stored, W).trades = BarOf(I).trades
      /\ MergedBar(stored, W).buyVol = BarOf(I).buyVol
      /\ MergedBar(stored, W).sellVol = BarOf(I).sellVol
  BY <1>2, <1>3, <1>4, <1>5, <1>7, <1>8
<1> QED BY <1>9 DEF stored, W, I

-----------------------------------------------------------------------------
\* Coarser trade bars merged from the stored ones are those built from the trades
\* (analytics.q bars, rebucketBars).
THEOREM RebucketingIsExact ==
    ASSUME NEW S \in SUBSET Rows, NEW sz, Multiple(sz)
    PROVE  RebucketBars(BarsOf(S, BarSize), sz) = BarsOf(S, sz)
<1> DEFINE stored == BarsOf(S, BarSize)
           merged == RebucketBars(stored, sz)
           W(t) == InWiderBucket(Buckets(S, BarSize), sz, t)
<1>1. DOMAIN stored = Buckets(S, BarSize)
  BY DEF BarsOf
<1>2. merged = [t \in Buckets(S, sz) |-> MergedBar(stored, W(t))]
  BY <1>1, Split DEF RebucketBars
<1>3. ASSUME NEW t \in Buckets(S, sz)
      PROVE  MergedBar(stored, W(t)) = BarOf(InBucket(S, sz, t))
  <2> DEFINE m == MergedBar(stored, W(t))
             b == BarOf(InBucket(S, sz, t))
  <2>1. m.open = b.open /\ m.high = b.high /\ m.low = b.low /\ m.close = b.close
    <3>1. merged[t] = m /\ BarsOf(S, sz)[t] = b /\ DOMAIN BarsOf(S, sz) = Buckets(S, sz)
      BY <1>2 DEF BarsOf
    <3>2. /\ merged[t].open = BarsOf(S, sz)[t].open /\ merged[t].high = BarsOf(S, sz)[t].high
          /\ merged[t].low = BarsOf(S, sz)[t].low /\ merged[t].close = BarsOf(S, sz)[t].close
      BY <3>1, RebucketedPrices
    <3> HIDE DEF m, b, merged
    <3> QED BY <3>1, <3>2
  <2>2. /\ m.value = b.value /\ m.vol = b.vol /\ m.trades = b.trades
        /\ m.buyVol = b.buyVol /\ m.sellVol = b.sellVol
    BY RebucketedSums
  <2>3. m = [open |-> m.open, high |-> m.high, low |-> m.low, close |-> m.close,
             value |-> m.value, vol |-> m.vol, trades |-> m.trades,
             buyVol |-> m.buyVol, sellVol |-> m.sellVol]
    BY DEF MergedBar
  <2>4. b = [open |-> b.open, high |-> b.high, low |-> b.low, close |-> b.close,
             value |-> b.value, vol |-> b.vol, trades |-> b.trades,
             buyVol |-> b.buyVol, sellVol |-> b.sellVol]
    BY DEF BarOf
  <2> HIDE DEF m, b
  <2>5. m = b
    BY <2>1, <2>2, <2>3, <2>4
  <2> QED BY <2>5 DEF m, b
<1> HIDE DEF stored, W
<1>4. [t \in Buckets(S, sz) |-> MergedBar(stored, W(t))] = BarsOf(S, sz)
  BY <1>3 DEF BarsOf
<1> QED BY <1>2, <1>4 DEF stored

\* Coarser quote bars merged from the stored ones show the book that those built
\* from the quotes show: the last of the last is the last (schema.q, quoteBar).
THEOREM RebucketingQuotesIsExact ==
    ASSUME NEW S \in SUBSET Rows, NEW sz, Multiple(sz)
    PROVE  RebucketQuoteBars(QuoteBarsOf(S, BarSize), sz) = QuoteBarsOf(S, sz)
<1> DEFINE stored == QuoteBarsOf(S, BarSize)
           W(t) == InWiderBucket(Buckets(S, BarSize), sz, t)
<1>1. DOMAIN stored = Buckets(S, BarSize)
  BY DEF QuoteBarsOf
<1>2. RebucketQuoteBars(stored, sz) = [t \in Buckets(S, sz) |-> stored[Max(W(t))]]
  BY <1>1, Split DEF RebucketQuoteBars
<1>3. ASSUME NEW t \in Buckets(S, sz)
      PROVE  stored[Max(W(t))] = Price[Max(InBucket(S, sz, t))]
  <2>1. Max(W(t)) \in Buckets(S, BarSize)
    BY Ends DEF InWiderBucket
  <2>2. stored[Max(W(t))] = Price[Max(InBucket(S, BarSize, Max(W(t))))]
    BY <2>1 DEF QuoteBarsOf
  <2> QED BY <2>2, Ends
<1> HIDE DEF stored, W
<1>4. [t \in Buckets(S, sz) |-> stored[Max(W(t))]] = QuoteBarsOf(S, sz)
  BY <1>3 DEF QuoteBarsOf
<1> QED BY <1>2, <1>4 DEF stored

-----------------------------------------------------------------------------
(* Days.                                                                     *)

LEMMA DivMonotone ==
    ASSUME NEW sz \in Nat \ {0}, NEW t \in Nat, NEW u \in Nat, t <= u
    PROVE  t \div sz <= u \div sz
<1> DEFINE p == t \div sz
           q == u \div sz
<1>1. /\ p \in Nat /\ sz * p <= t
      /\ q \in Nat /\ u < sz * q + sz
  BY XBarIs
<1> HIDE DEF p, q
<1>2. ASSUME q < p PROVE FALSE
  <2>1. PICK d \in Nat : p = q + 1 + d
    <3>1. p - q - 1 \in Nat
      BY <1>1, <1>2
    <3> QED BY <3>1, <1>1
  <2>2. sz * p = sz * q + sz + sz * d /\ sz * d \in Nat /\ sz * q \in Nat
    BY <2>1, <1>1
  <2> QED BY <2>2, <1>1
<1>3. p <= q
  BY <1>1, <1>2
<1> QED BY <1>3 DEF p, q

LEMMA DayOfRow ==
    ASSUME NEW r \in Rows
    PROVE  DayOf(r) \in Nat \ {0} /\ DayOf(r) \in Days
<1>1. Time[r] \in Nat /\ DayLength \in Nat \ {0}
  BY SavedownAssumption
<1>2. Time[r] \div DayLength \in Nat
  BY <1>1, XBarIs
<1> QED BY <1>2 DEF DayOf, Days

LEMMA DaysFollow ==
    ASSUME NEW r \in Rows, NEW q \in Rows, DayOf(r) < DayOf(q)
    PROVE  r < q
<1>1. Time[r] \in Nat /\ Time[q] \in Nat /\ DayLength \in Nat \ {0}
  BY SavedownAssumption
<1>2. Time[r] \div DayLength \in Nat /\ Time[q] \div DayLength \in Nat
  BY <1>1, XBarIs
<1>3. ~ (Time[q] <= Time[r])
  BY <1>1, <1>2, DivMonotone DEF DayOf
<1>4. ~ (q <= r)
  BY <1>3, TimeAssumption
<1> QED BY <1>4 DEF Rows

LEMMA DaysTyped ==
    /\ Days \in SUBSET Nat /\ None \notin Days
    /\ \E n \in Nat : Days \in SUBSET (0 .. n)
<1>1. Days \in SUBSET Nat /\ None \notin Days
  BY DayOfRow DEF Days, None
<1>2. CASE Rows = {}
  <2>1. Days = {}
    BY <1>2 DEF Days
  <2> QED BY <1>1, <2>1
<1>3. CASE Rows # {}
  <2>1. MaxRow \in Rows
    BY <1>3 DEF Rows
  <2>2. \A r \in Rows : DayOf(r) <= DayOf(MaxRow)
    <3> TAKE r \in Rows
    <3>1. ~ (MaxRow < r) /\ DayOf(r) \in Nat /\ DayOf(MaxRow) \in Nat
      BY <2>1, DayOfRow DEF Rows
    <3> QED BY <2>1, <3>1, DaysFollow
  <2>3. Days \in SUBSET (0 .. DayOf(MaxRow)) /\ DayOf(MaxRow) \in Nat
    BY <1>1, <2>1, <2>2, DayOfRow DEF Days
  <2> QED BY <1>1, <2>3
<1> QED BY <1>2, <1>3

\* The last row of a table, or None.
LEMMA LastOfIs ==
    ASSUME NEW S \in SUBSET (Rows \cup {Cut})
    PROVE  LastOf(S) \in S \cup {None} /\ (LastOf(S) = None => S \subseteq {Cut})
<1>1. CASE S = {}
  BY <1>1 DEF LastOf
<1>2. CASE S # {}
  <2>1. S \in SUBSET (0 .. MaxRow)
    BY DEF Rows, Cut
  <2>2. LastOf(S) \in S /\ \A y \in S : y <= LastOf(S)
    BY <1>2, <2>1, MaxExists DEF LastOf, IsMax
  <2>3. LastOf(S) = 0 => S \subseteq {0}
    BY <2>1, <2>2
  <2> QED BY <2>2, <2>3 DEF None, Cut
<1> QED BY <1>1, <1>2

-----------------------------------------------------------------------------
(* A savedown under way: its tables are different ones, and the bars come    *)
(* after the rows they are built from.                                       *)

Kind(f) == IF f \in {"trade", "bar"} THEN Trades ELSE Rows \ Trades
RowFiles == {"trade", "quote"}
BarFile(f) == IF f = "trade" THEN "bar" ELSE "quoteBar"

JobSet == {j \in [file : Files, rows : SUBSET Rows] : j.rows # {} /\ j.rows \subseteq Kind(j.file)}

Ordered(q) ==
    /\ \A k, l \in DOMAIN q : q[k].file = q[l].file => k = l
    /\ \A k \in DOMAIN q : q[k].file \in RowFiles =>
          \E l \in DOMAIN q :
              k < l /\ q[l].file = BarFile(q[k].file) /\ q[l].rows = q[k].rows

Queues(q, f) == \E k \in DOMAIN q : q[k].file = f

\* The rows a savedown has still to write.
Pending(q) == UNION {q[k].rows : k \in {l \in DOMAIN q : q[l].file \in RowFiles}}

LEMMA Concatenated ==
    ASSUME NEW a, NEW b, NEW c, NEW d
    PROVE  /\ ((<<>> \o <<>>) \o <<>>) \o <<>> = <<>>
           /\ ((<<>> \o <<b>>) \o <<>>) \o <<d>> = <<b, d>>
           /\ ((<<a>> \o <<>>) \o <<c>>) \o <<>> = <<a, c>>
           /\ ((<<a>> \o <<b>>) \o <<c>>) \o <<d>> = <<a, b, c, d>>
<1> DEFINE X == {a, b, c, d}
<1>1. /\ <<>> \in Seq(X) /\ <<a>> \in Seq(X) /\ <<b>> \in Seq(X)
      /\ <<c>> \in Seq(X) /\ <<d>> \in Seq(X)
      /\ <<a, b>> \in Seq(X) /\ <<a, c>> \in Seq(X) /\ <<b, d>> \in Seq(X)
      /\ <<a, b, c>> \in Seq(X) /\ <<a, b, c, d>> \in Seq(X)
  OBVIOUS
<1>2. <<>> \o <<>> = <<>>
  OBVIOUS
<1>3. <<>> \o <<b>> = <<b>> /\ <<a>> \o <<>> = <<a>> /\ <<b>> \o <<>> = <<b>>
  BY <1>1, ConcatEmptySeq
<1>4. <<b>> \o <<d>> = <<b, d>> /\ <<a>> \o <<c>> = <<a, c>> /\ <<a>> \o <<b>> = <<a, b>>
  <2> SUFFICES ASSUME NEW x \in X, NEW y \in X
               PROVE  <<x>> \o <<y>> = <<x, y>>
    OBVIOUS
  <2> HIDE DEF X
  <2>1. <<x>> \in Seq(X) /\ <<y>> \in Seq(X) /\ <<x, y>> \in Seq(X)
    OBVIOUS
  <2>2. /\ <<x>> \o <<y>> \in Seq(X) /\ Len(<<x>> \o <<y>>) = 2
        /\ \A k \in 1 .. 2 : (<<x>> \o <<y>>)[k] = <<x, y>>[k]
    BY <2>1, ConcatProperties
  <2> QED BY <2>1, <2>2, SeqEqual
<1>5. <<a, c>> \o <<>> = <<a, c>>
  BY <1>1, ConcatEmptySeq
<1> HIDE DEF X
<1>6. <<a, b>> \o <<c>> = <<a, b, c>>
  <2>1. /\ <<a, b>> \o <<c>> \in Seq(X) /\ Len(<<a, b>> \o <<c>>) = 3
        /\ \A k \in 1 .. 3 : (<<a, b>> \o <<c>>)[k] = <<a, b, c>>[k]
    BY <1>1, ConcatProperties
  <2> QED BY <1>1, <2>1, SeqEqual
<1>7. <<a, b, c>> \o <<d>> = <<a, b, c, d>>
  <2>1. /\ <<a, b, c>> \o <<d>> \in Seq(X) /\ Len(<<a, b, c>> \o <<d>>) = 4
        /\ \A k \in 1 .. 4 : (<<a, b, c>> \o <<d>>)[k] = <<a, b, c, d>>[k]
    BY <1>1, ConcatProperties
  <2> QED BY <1>1, <2>1, SeqEqual
<1> QED BY <1>2, <1>3, <1>4, <1>5, <1>6, <1>7

LEMMA TablesAre ==
    ASSUME NEW S \in SUBSET Rows
    PROVE  /\ Tables(S) \in Seq(JobSet) /\ Ordered(Tables(S))
           /\ Pending(Tables(S)) = S
           /\ \A f \in RowFiles : Queues(Tables(S), BarFile(f)) => Queues(Tables(S), f)
<1> DEFINE T == S \cap Trades
           Q == S \ Trades
           J(f, X) == [file |-> f, rows |-> X]
<1>1. Trades \subseteq Rows /\ S = T \cup Q
  BY SavedownAssumption
<1>2. /\ T # {} => J("trade", T) \in JobSet /\ J("bar", T) \in JobSet
      /\ Q # {} => J("quote", Q) \in JobSet /\ J("quoteBar", Q) \in JobSet
  BY <1>1 DEF JobSet, Files, Kind
<1>3. /\ \A f, X : J(f, X).file = f /\ J(f, X).rows = X
  OBVIOUS
<1>4. Tables(S) = IF T = {} THEN IF Q = {} THEN <<>> ELSE <<J("quote", Q), J("quoteBar", Q)>>
                  ELSE IF Q = {} THEN <<J("trade", T), J("bar", T)>>
                  ELSE <<J("trade", T), J("quote", Q), J("bar", T), J("quoteBar", Q)>>
  <2>1. \A f, X : Job(f, X) = IF X = {} THEN <<>> ELSE <<J(f, X)>>
    BY DEF Job
  <2>2. Tables(S) = ((Job("trade", T) \o Job("quote", Q)) \o Job("bar", T)) \o Job("quoteBar", Q)
    BY DEF Tables
  <2> HIDE DEF J, T, Q
  <2>3. LET a == J("trade", T)
            b == J("quote", Q)
            c == J("bar", T)
            d == J("quoteBar", Q)
        IN  /\ ((<<>> \o <<>>) \o <<>>) \o <<>> = <<>>
            /\ ((<<>> \o <<b>>) \o <<>>) \o <<d>> = <<b, d>>
            /\ ((<<a>> \o <<>>) \o <<c>>) \o <<>> = <<a, c>>
            /\ ((<<a>> \o <<b>>) \o <<c>>) \o <<d>> = <<a, b, c, d>>
    BY Concatenated
  <2>4. CASE T = {} /\ Q = {}
    <3>1. /\ Job("trade", T) = <<>> /\ Job("bar", T) = <<>>
          /\ Job("quote", Q) = <<>> /\ Job("quoteBar", Q) = <<>>
      BY <2>1, <2>4
    <3> QED BY <2>2, <2>3, <2>4, <3>1
  <2>5. CASE T = {} /\ Q # {}
    <3>1. /\ Job("trade", T) = <<>> /\ Job("bar", T) = <<>>
          /\ Job("quote", Q) = <<J("quote", Q)>> /\ Job("quoteBar", Q) = <<J("quoteBar", Q)>>
      BY <2>1, <2>5
    <3> QED BY <2>2, <2>3, <2>5, <3>1
  <2>6. CASE T # {} /\ Q = {}
    <3>1. /\ Job("trade", T) = <<J("trade", T)>> /\ Job("bar", T) = <<J("bar", T)>>
          /\ Job("quote", Q) = <<>> /\ Job("quoteBar", Q) = <<>>
      BY <2>1, <2>6
    <3> QED BY <2>2, <2>3, <2>6, <3>1
  <2>7. CASE T # {} /\ Q # {}
    <3>1. /\ Job("trade", T) = <<J("trade", T)>> /\ Job("bar", T) = <<J("bar", T)>>
          /\ Job("quote", Q) = <<J("quote", Q)>> /\ Job("quoteBar", Q) = <<J("quoteBar", Q)>>
      BY <2>1, <2>7
    <3> QED BY <2>2, <2>3, <2>7, <3>1
  <2> QED BY <2>4, <2>5, <2>6, <2>7
<1> HIDE DEF J, T, Q
<1>5. CASE T = {} /\ Q = {}
  <2>1. Tables(S) = <<>> /\ DOMAIN Tables(S) = {}
    BY <1>4, <1>5
  <2>2. Ordered(Tables(S)) /\ \A f : ~Queues(Tables(S), f)
    BY <2>1 DEF Ordered, Queues
  <2>3. Pending(Tables(S)) = {}
    BY <2>1 DEF Pending
  <2>4. Tables(S) \in Seq(JobSet)
    BY <2>1
  <2>5. S = {}
    BY <1>1, <1>5
  <2> QED BY <2>2, <2>3, <2>4, <2>5
<1>6. CASE T = {} /\ Q # {}
  <2> DEFINE q == <<J("quote", Q), J("quoteBar", Q)>>
  <2>1. Tables(S) = q /\ DOMAIN q = {1, 2} /\ q[1] = J("quote", Q) /\ q[2] = J("quoteBar", Q)
    BY <1>4, <1>6
  <2>2. q \in Seq(JobSet)
    BY <1>2, <1>6
  <2> HIDE DEF q
  <2>3. q[1].file = "quote" /\ q[2].file = "quoteBar" /\ q[1].rows = Q /\ q[2].rows = Q
    BY <1>3, <2>1
  <2>4. Ordered(q)
    BY <2>1, <2>3 DEF Ordered, RowFiles, BarFile
  <2>5. Pending(q) = Q
    BY <2>1, <2>3 DEF Pending, RowFiles
  <2>6. \A f \in RowFiles : Queues(q, BarFile(f)) => Queues(q, f)
    BY <2>1, <2>3 DEF Queues, RowFiles, BarFile
  <2> QED BY <1>1, <1>6, <2>1, <2>2, <2>4, <2>5, <2>6
<1>7. CASE T # {} /\ Q = {}
  <2> DEFINE q == <<J("trade", T), J("bar", T)>>
  <2>1. Tables(S) = q /\ DOMAIN q = {1, 2} /\ q[1] = J("trade", T) /\ q[2] = J("bar", T)
    BY <1>4, <1>7
  <2>2. q \in Seq(JobSet)
    BY <1>2, <1>7
  <2> HIDE DEF q
  <2>3. q[1].file = "trade" /\ q[2].file = "bar" /\ q[1].rows = T /\ q[2].rows = T
    BY <1>3, <2>1
  <2>4. Ordered(q)
    BY <2>1, <2>3 DEF Ordered, RowFiles, BarFile
  <2>5. Pending(q) = T
    BY <2>1, <2>3 DEF Pending, RowFiles
  <2>6. \A f \in RowFiles : Queues(q, BarFile(f)) => Queues(q, f)
    BY <2>1, <2>3 DEF Queues, RowFiles, BarFile
  <2> QED BY <1>1, <1>7, <2>1, <2>2, <2>4, <2>5, <2>6
<1>8. CASE T # {} /\ Q # {}
  <2> DEFINE q == <<J("trade", T), J("quote", Q), J("bar", T), J("quoteBar", Q)>>
  <2>1. /\ Tables(S) = q /\ DOMAIN q = {1, 2, 3, 4}
        /\ q[1] = J("trade", T) /\ q[2] = J("quote", Q)
        /\ q[3] = J("bar", T) /\ q[4] = J("quoteBar", Q)
    BY <1>4, <1>8
  <2>2. q \in Seq(JobSet)
    BY <1>2, <1>8
  <2> HIDE DEF q
  <2>3. /\ q[1].file = "trade" /\ q[2].file = "quote"
        /\ q[3].file = "bar" /\ q[4].file = "quoteBar"
        /\ q[1].rows = T /\ q[2].rows = Q /\ q[3].rows = T /\ q[4].rows = Q
    BY <1>3, <2>1
  <2>4. Ordered(q)
    BY <2>1, <2>3 DEF Ordered, RowFiles, BarFile
  <2>5. Pending(q) = T \cup Q
    BY <2>1, <2>3 DEF Pending, RowFiles
  <2>6. \A f \in RowFiles : Queues(q, BarFile(f)) => Queues(q, f)
    BY <2>1, <2>3 DEF Queues, RowFiles, BarFile
  <2> QED BY <1>1, <1>8, <2>1, <2>2, <2>4, <2>5, <2>6
<1> QED BY <1>5, <1>6, <1>7, <1>8

\* Once a table is written, the others are as before.
LEMMA TailIs ==
    ASSUME NEW q \in Seq(JobSet), q # <<>>, Ordered(q)
    PROVE  /\ Head(q) \in JobSet /\ Tail(q) \in Seq(JobSet) /\ Ordered(Tail(q))
           /\ Queues(q, Head(q).file) /\ ~Queues(Tail(q), Head(q).file)
           /\ \A f : f # Head(q).file => (Queues(Tail(q), f) <=> Queues(q, f))
           /\ Pending(q) = IF Head(q).file \in RowFiles
                           THEN Pending(Tail(q)) \cup Head(q).rows ELSE Pending(Tail(q))
           /\ \A k \in DOMAIN Tail(q) : k + 1 \in DOMAIN q /\ Tail(q)[k] = q[k + 1]
<1>1. /\ Head(q) = q[1] /\ 1 \in DOMAIN q /\ q[1] \in JobSet
      /\ Tail(q) \in Seq(JobSet)
      /\ DOMAIN q = 1 .. Len(q) /\ Len(q) \in Nat \ {0}
      /\ DOMAIN Tail(q) = 1 .. Len(q) - 1
      /\ \A k \in DOMAIN Tail(q) : k + 1 \in DOMAIN q /\ Tail(q)[k] = q[k + 1]
  OBVIOUS
<1>2. \A k \in DOMAIN q : k = 1 \/ (k - 1 \in DOMAIN Tail(q) /\ Tail(q)[k - 1] = q[k])
  <2> TAKE k \in DOMAIN q
  <2>1. CASE k # 1
    <3>1. k - 1 \in DOMAIN Tail(q) /\ (k - 1) + 1 = k
      BY <1>1, <2>1
    <3> QED BY <1>1, <3>1
  <2> QED BY <2>1
<1>3. Ordered(Tail(q))
  <2> DEFINE u == Tail(q)
  <2>1. \A k, l \in DOMAIN u : u[k].file = u[l].file => k = l
    <3> TAKE k, l \in DOMAIN u
    <3> HAVE u[k].file = u[l].file
    <3>1. k + 1 = l + 1
      BY <1>1 DEF Ordered
    <3> QED BY <1>1, <3>1
  <2>2. ASSUME NEW k \in DOMAIN u, u[k].file \in RowFiles
        PROVE  \E l \in DOMAIN u :
                  k < l /\ u[l].file = BarFile(u[k].file) /\ u[l].rows = u[k].rows
    <3>1. PICK m \in DOMAIN q : /\ k + 1 < m /\ q[m].file = BarFile(u[k].file)
                                /\ q[m].rows = u[k].rows
      BY <1>1, <2>2 DEF Ordered
    <3>2. m # 1 /\ k < m - 1
      BY <1>1, <3>1
    <3> QED BY <1>2, <3>1, <3>2
  <2> QED BY <2>1, <2>2 DEF Ordered
<1>4. Queues(q, Head(q).file) /\ ~Queues(Tail(q), Head(q).file)
  <2>1. \A k \in DOMAIN Tail(q) : k + 1 # 1
    BY <1>1
  <2> QED BY <1>1, <2>1 DEF Queues, Ordered
<1>5. \A f : f # Head(q).file => (Queues(Tail(q), f) <=> Queues(q, f))
  BY <1>1, <1>2 DEF Queues
<1>6. Pending(q) = IF Head(q).file \in RowFiles
                   THEN Pending(Tail(q)) \cup Head(q).rows ELSE Pending(Tail(q))
  <2>1. \A r : r \in Pending(q) <=> \E k \in DOMAIN q : q[k].file \in RowFiles /\ r \in q[k].rows
    BY DEF Pending
  <2>2. \A r : r \in Pending(Tail(q)) <=>
                  \E k \in DOMAIN Tail(q) : Tail(q)[k].file \in RowFiles /\ r \in Tail(q)[k].rows
    BY DEF Pending
  <2>3. \A r : r \in Pending(q) <=>
                  (Head(q).file \in RowFiles /\ r \in Head(q).rows) \/ r \in Pending(Tail(q))
    <3> TAKE r
    <3>1. ASSUME r \in Pending(q)
          PROVE  (Head(q).file \in RowFiles /\ r \in Head(q).rows) \/ r \in Pending(Tail(q))
      <4>1. PICK k \in DOMAIN q : q[k].file \in RowFiles /\ r \in q[k].rows
        BY <2>1, <3>1
      <4>2. CASE k = 1
        BY <1>1, <4>1, <4>2
      <4>3. CASE k # 1
        BY <1>2, <2>2, <4>1, <4>3
      <4> QED BY <4>2, <4>3
    <3>2. ASSUME Head(q).file \in RowFiles, r \in Head(q).rows
          PROVE  r \in Pending(q)
      BY <1>1, <2>1, <3>2
    <3>3. ASSUME r \in Pending(Tail(q))
          PROVE  r \in Pending(q)
      BY <1>1, <2>1, <2>2, <3>3
    <3> QED BY <3>1, <3>2, <3>3
  <2> QED BY <2>3
<1> QED BY <1>1, <1>3, <1>4, <1>5, <1>6

-----------------------------------------------------------------------------
(* The invariant.  Types are those of TypeOK, with what a file and a job may  *)
(* hold; Memory accounts for the rows of the RDB outside the live phase;      *)
(* Written and Agree follow the two halves of a date, its trades and its      *)
(* quotes, through a savedown.                                                *)

DiskType ==
    /\ disk \in [Days -> [Files -> SUBSET (Rows \cup {Cut})]]
    /\ \A d \in Days, f \in Files : disk[d][f] \subseteq Kind(f) \cup {Cut}

JobsType == jobs \in Seq(JobSet) /\ Ordered(jobs) /\ (jobs = <<>>) = (saving = None)
FaultsType == faults \in [{"death", "stop"} -> Nat]
Types == TypeOK /\ DiskType /\ JobsType /\ FaultsType

\* Nothing is being saved outside of backfill, the live phase and the flush.
Idle == phase \in {"start", "prune", "bridge"} => jobs = <<>>
\* The archive is asked for days that are over.
Past == phase = "backfill" => \A d \in dates : d < Today
\* What is in memory is on its way to a file, except while rows arrive and when
\* a SIGTERM before the first of them flushes nothing.
Memory == phase # "live" /\ (phase = "stopping" => day # None) => rdb \subseteq Pending(jobs)

\* The bars still to write are those of the rows the date has.
Written ==
    \A f \in RowFiles : \A k \in DOMAIN jobs :
        jobs[k].file = BarFile(f) /\ ~Queues(jobs, f) => disk[saving][f] = jobs[k].rows
\* A date has no bars, or those of its rows, or is getting them.
Agrees(d, f) ==
    d \notin broken \cup HalfRemoved /\ Cut \notin disk[d][f] \cup disk[d][BarFile(f)] =>
        \/ disk[d][BarFile(f)] = {} \/ disk[d][BarFile(f)] = disk[d][f]
        \/ d = saving /\ Queues(jobs, BarFile(f))
Agree == \A d \in Days, f \in RowFiles : Agrees(d, f)

IInv == Types /\ Idle /\ Past /\ Memory /\ Written /\ Agree

LEMMA JobsTyped ==
    ASSUME JobsType
    PROVE  \A k \in DOMAIN jobs : jobs[k] \in JobSet /\ jobs[k].file \in Files /\ jobs[k].rows # {}
BY DEF JobsType, JobSet

LEMMA FilesTyped ==
    ASSUME DiskType, NEW d \in Days
    PROVE  /\ disk[d]["trade"] \cup disk[d]["bar"] \subseteq Trades \cup {Cut}
           /\ disk[d]["quote"] \cup disk[d]["quoteBar"] \subseteq (Rows \ Trades) \cup {Cut}
BY DEF DiskType, Kind, Files

\* A savedown starts with the tables of what it saves.
LEMMA Started ==
    ASSUME NEW d \in Days, NEW S \in SUBSET Rows, StartSaving(d, S)
    PROVE  /\ JobsType' /\ saving' \in Days \cup {None} /\ Pending(jobs') = S
           /\ \A f \in RowFiles : Queues(jobs', BarFile(f)) => Queues(jobs', f)
<1>1. jobs' = Tables(S) /\ saving' = IF jobs' = <<>> THEN None ELSE d
  BY DEF StartSaving
<1>2. d # None
  BY DaysTyped
<1> QED BY <1>1, <1>2, TablesAre DEF JobsType

LEMMA TypesInit == Init => Types
<1> SUFFICES ASSUME Init PROVE Types
  OBVIOUS
<1> USE DEF Init
<1>1. published \in Rows
  <2> DEFINE S == {r \in Rows : DayOf(r) = 2}
  <2>1. S # {}
    BY SavedownAssumption DEF Days
  <2>2. S \in SUBSET Nat
    BY DEF Rows
  <2>3. Min(S) \in S
    BY <2>1, <2>2, MinExists DEF IsMin
  <2> QED BY <2>3
<1>2. DiskType
  BY DEF DiskType
<1>3. JobsType
  BY DEF JobsType, Ordered
<1>4. FaultsType
  BY DEF FaultsType
<1>5. acked \in 0 .. published
  BY <1>1 DEF Rows, None
<1>6. TypeOK
  BY <1>1, <1>2, <1>3, <1>5, JobsTyped, FilesTyped DEF TypeOK, JobsType
<1> QED BY <1>2, <1>3, <1>4, <1>6 DEF Types

\* The rows of a day that is over have been published.
LEMMA PastRows ==
    ASSUME published \in Rows, NEW d, d < Today, NEW r \in Rows, DayOf(r) = d
    PROVE  r <= published
<1>1. r < published
  BY DaysFollow DEF Today
<1> QED BY <1>1 DEF Rows

\* Types of the next state, for the steps that touch the files or the jobs only.
LEMMA TypesKept ==
    ASSUME Types, UNCHANGED <<published, acked, day, floor>>, FaultsType',
           rdb' \subseteq 1 .. published, JobsType', DiskType', saving' \in Days \cup {None},
           phase' \in {"start", "backfill", "prune", "bridge", "live", "stopping"},
           dates' \subseteq Days, broken' \subseteq Days
    PROVE  Types'
<1>1. \A k \in DOMAIN jobs' : jobs'[k].file \in Files /\ jobs'[k].rows # {}
  BY DEF JobsType, JobSet
<1>2. \A d \in Days :
        /\ disk'[d]["trade"] \cup disk'[d]["bar"] \subseteq Trades \cup {Cut}
        /\ disk'[d]["quote"] \cup disk'[d]["quoteBar"] \subseteq (Rows \ Trades) \cup {Cut}
  BY DEF DiskType, Kind, Files
<1>3. TypeOK'
  BY <1>1, <1>2 DEF TypeOK, Types, JobsType
<1> QED BY <1>3 DEF Types

LEMMA TypesNext ==
    ASSUME Types, Past, [Next]_vars
    PROVE  Types'
<1>0. /\ published \in Rows /\ published \in Nat /\ acked \in 0 .. published
      /\ rdb \subseteq 1 .. published /\ rdb \in SUBSET Rows
      /\ day \in Days \cup {None} /\ saving \in Days \cup {None} /\ floor \in Trades \cup {None}
      /\ phase \in {"start", "backfill", "prune", "bridge", "live", "stopping"}
      /\ dates \subseteq Days /\ broken \subseteq Days /\ Trades \subseteq Rows
      /\ TypeOK /\ DiskType /\ JobsType /\ FaultsType
  BY SavedownAssumption DEF Types, TypeOK, Rows
<1>1. CASE UNCHANGED vars
  <2>1. DiskType' /\ JobsType' /\ FaultsType'
    BY <1>0, <1>1 DEF vars, storeVars, runVars, DiskType, JobsType, FaultsType
  <2> QED BY <1>0, <1>1, <2>1, TypesKept DEF vars, storeVars, runVars
<1>2. CASE Publish
  <2>1. published' \in Rows /\ published' = published + 1
    BY <1>0, <1>2 DEF Publish, Rows
  <2>2. UNCHANGED <<acked, rdb, day, saving, floor, disk, jobs, phase, dates, broken, faults>>
    BY <1>2 DEF Publish, storeVars, runVars
  <2>3. acked' \in 0 .. published' /\ rdb' \subseteq 1 .. published'
    BY <1>0, <2>1, <2>2
  <2>4. DiskType' /\ JobsType' /\ FaultsType'
    BY <1>0, <2>2 DEF DiskType, JobsType, FaultsType
  <2>5. TypeOK'
    BY <1>0, <2>1, <2>2, <2>3 DEF TypeOK
  <2> QED BY <2>4, <2>5 DEF Types
<1>3. CASE WriteTable
  <2> DEFINE j == Head(jobs)
  <2>1. /\ j \in JobSet /\ Tail(jobs) \in Seq(JobSet) /\ Ordered(Tail(jobs))
        /\ saving \in Days /\ jobs # <<>>
    BY <1>0, <1>3, TailIs DEF WriteTable, JobsType
  <2>2. /\ UNCHANGED <<published, acked, day, phase, dates, floor, broken, faults>>
        /\ disk' = [disk EXCEPT ![saving][j.file] = j.rows]
        /\ rdb' \subseteq rdb
        /\ jobs' = Tail(jobs)
        /\ saving' = IF Tail(jobs) = <<>> THEN None ELSE saving
    BY <1>3 DEF WriteTable, runVars
  <2>3. JobsType' /\ saving' \in Days \cup {None}
    BY <2>1, <2>2, DaysTyped DEF JobsType
  <2> HIDE DEF j
  <2>4. j.file \in Files /\ j.rows \subseteq Rows /\ j.rows \subseteq Kind(j.file)
    BY <2>1 DEF JobSet
  <2>5. DiskType'
    BY <1>0, <2>1, <2>2, <2>4 DEF DiskType
  <2> QED BY <1>0, <2>2, <2>3, <2>5, TypesKept DEF FaultsType, Types
<1>4. CASE StartRun \/ FinishRun \/ FinishPrune
  <2>1. /\ UNCHANGED <<published, acked, disk, rdb, day, saving, jobs, floor, broken, faults>>
        /\ dates' \subseteq Days /\ phase' \in {"backfill", "prune", "bridge"}
    BY <1>0, <1>4 DEF StartRun, FinishRun, FinishPrune, Held, storeVars
  <2>2. DiskType' /\ JobsType' /\ FaultsType'
    BY <1>0, <2>1 DEF DiskType, JobsType, FaultsType
  <2> QED BY <1>0, <2>1, <2>2, TypesKept
<1>5. CASE FillDay
  <2> DEFINE d == Min(dates)
  <2>1. phase = "backfill" /\ dates # {}
    BY <1>5 DEF FillDay
  <2>2. d \in dates /\ d \in Days /\ d < Today
    BY <1>0, <2>1, DaysTyped, MinExists DEF IsMin, Past
  <2>3. /\ UNCHANGED <<published, acked, day, disk, phase, floor, broken, faults>>
        /\ rdb' = rdb \cup {r \in Trades : DayOf(r) = d}
        /\ StartSaving(d, rdb')
        /\ dates' = dates \ {d}
    BY <1>5 DEF FillDay
  <2> HIDE DEF d
  <2>4. {r \in Trades : DayOf(r) = d} \subseteq 1 .. published
    <3>1. \A r \in Rows : DayOf(r) = d => r <= published
      BY <1>0, <2>2, PastRows
    <3>2. \A r \in Trades : r \in Rows /\ r \in Nat /\ 1 <= r
      BY <1>0 DEF Rows
    <3>3. \A r \in Trades : DayOf(r) = d => r \in 1 .. published
      BY <1>0, <3>1, <3>2
    <3> QED BY <3>3
  <2>5. rdb' \subseteq 1 .. published /\ rdb' \in SUBSET Rows
    BY <1>0, <2>3, <2>4
  <2>6. JobsType' /\ saving' \in Days \cup {None}
    BY <2>2, <2>3, <2>5, Started
  <2>7. DiskType' /\ FaultsType'
    BY <1>0, <2>3 DEF DiskType, FaultsType
  <2> QED BY <1>0, <2>3, <2>5, <2>6, <2>7, TypesKept
<1>6. CASE RemoveFile
  <2>1. dates # {} /\ Min(dates) \in Days
    BY <1>0, <1>6, DaysTyped, MinExists DEF RemoveFile, IsMin
  <2>2. PICK f \in Files : disk' = [disk EXCEPT ![Min(dates)][f] = {}]
    BY <1>6 DEF RemoveFile
  <2>3. UNCHANGED <<published, acked, rdb, day, saving, jobs, phase, dates, floor, broken, faults>>
    BY <1>6 DEF RemoveFile, storeVars, runVars
  <2>4. DiskType'
    BY <1>0, <2>1, <2>2 DEF DiskType
  <2>5. JobsType' /\ FaultsType'
    BY <1>0, <2>3 DEF JobsType, FaultsType
  <2> QED BY <1>0, <2>3, <2>4, <2>5, TypesKept
<1>7. CASE RemoveDir
  <2>1. /\ UNCHANGED <<published, acked, disk, rdb, day, saving, jobs, phase, floor, broken, faults>>
        /\ dates' \subseteq Days
    BY <1>0, <1>7 DEF RemoveDir, storeVars
  <2>2. DiskType' /\ JobsType' /\ FaultsType'
    BY <1>0, <2>1 DEF DiskType, JobsType, FaultsType
  <2> QED BY <1>0, <2>1, <2>2, TypesKept
<1>8. CASE Bridge
  <2> DEFINE last == LastOf(NewestTrades)
  <2>1. NewestTrades # {Cut} /\ phase' = "live"
        /\ UNCHANGED <<published, day, disk, saving, jobs, dates, broken, faults>>
        /\ acked' = IF acked = None THEN published ELSE acked
    BY <1>8 DEF Bridge
  <2>2. NewestTrades \subseteq Trades \cup {Cut}
    <3>1. CASE Held = {}
      BY <3>1 DEF NewestTrades
    <3>2. CASE Held # {}
      <4>1. Held \subseteq Days
        BY DEF Held
      <4>2. Max(Held) \in Days
        <5>1. PICK n \in Nat : Held \in SUBSET (0 .. n)
          BY <4>1, DaysTyped
        <5>2. Max(Held) \in Held
          BY <3>2, <5>1, MaxExists DEF IsMax
        <5> QED BY <4>1, <5>2
      <4> QED BY <1>0, <3>2, <4>2, FilesTyped DEF NewestTrades
    <3> QED BY <3>1, <3>2
  <2>3. last \in Trades \cup {None}
    <3>1. NewestTrades \in SUBSET (Rows \cup {Cut})
      BY <1>0, <2>2
    <3> QED BY <2>2, <3>1, LastOfIs DEF Cut, None
  <2>4. rdb' \subseteq 1 .. published /\ floor' \in Trades \cup {None}
    <3>1. CASE last = None
      BY <1>0, <1>8, <3>1 DEF Bridge
    <3>2. CASE last # None
      <4>1. /\ rdb' = {r \in Trades : last < r /\ r <= published}
            /\ floor' = LastOf(rdb' \cup {last})
        BY <1>8, <3>2 DEF Bridge
      <4>2. rdb' \subseteq Trades /\ rdb' \subseteq 1 .. published
        <5>1. \A r \in Trades : r \in Nat /\ 1 <= r
          BY <1>0 DEF Rows
        <5>2. \A r \in Trades : r <= published => r \in 1 .. published
          BY <1>0, <5>1
        <5> QED BY <4>1, <5>2
      <4>3. floor' \in rdb' \cup {last} \cup {None}
        <5>1. rdb' \cup {last} \in SUBSET (Rows \cup {Cut})
          BY <1>0, <2>3, <3>2, <4>2
        <5> QED BY <4>1, <5>1, LastOfIs
      <4> QED BY <2>3, <4>2, <4>3
    <3> QED BY <3>1, <3>2
  <2>5. acked' \in 0 .. published
    BY <1>0, <2>1
  <2>6. DiskType' /\ JobsType' /\ FaultsType'
    BY <1>0, <2>1 DEF DiskType, JobsType, FaultsType
  <2> HIDE DEF last
  <2>7. TypeOK'
    BY <1>0, <2>1, <2>4, <2>5 DEF TypeOK
  <2> QED BY <2>6, <2>7 DEF Types
<1>9. CASE BridgeRaises
  <2>1. /\ UNCHANGED <<published, acked, disk, rdb, day, saving, jobs, dates, floor, broken, faults>>
        /\ phase' = "start"
    BY <1>9 DEF BridgeRaises, storeVars
  <2>2. DiskType' /\ JobsType' /\ FaultsType'
    BY <1>0, <2>1 DEF DiskType, JobsType, FaultsType
  <2> QED BY <1>0, <2>1, <2>2, TypesKept
<1>10. ASSUME NEW r \in Rows, Dedup(r)
       PROVE  Types'
  <2>1. /\ UNCHANGED <<published, disk, rdb, day, saving, jobs, phase, dates, floor, broken, faults>>
        /\ acked' = acked + 1 /\ acked < published
    BY <1>10 DEF Dedup, Arriving, storeVars, runVars
  <2>2. acked' \in 0 .. published
    BY <1>0, <2>1
  <2>3. DiskType' /\ JobsType' /\ FaultsType'
    BY <1>0, <2>1 DEF DiskType, JobsType, FaultsType
  <2>4. TypeOK'
    BY <1>0, <2>1, <2>2 DEF TypeOK
  <2> QED BY <2>3, <2>4 DEF Types
<1>11. ASSUME NEW r \in Rows, Roll(r)
       PROVE  Types'
  <2>1. /\ UNCHANGED <<published, acked, rdb, disk, phase, dates, floor, broken, faults>>
        /\ StartSaving(day, rdb) /\ day \in Days /\ day' = DayOf(r)
    BY <1>0, <1>11 DEF Roll, runVars
  <2>2. JobsType' /\ saving' \in Days \cup {None}
    BY <1>0, <2>1, Started
  <2>3. day' \in Days
    BY <2>1, DayOfRow
  <2>4. DiskType' /\ FaultsType'
    BY <1>0, <2>1 DEF DiskType, FaultsType
  <2>5. \A k \in DOMAIN jobs' : jobs'[k].file \in Files /\ jobs'[k].rows # {}
    BY <2>2 DEF JobsType, JobSet
  <2>6. TypeOK'
    BY <1>0, <2>1, <2>2, <2>3, <2>5 DEF TypeOK, JobsType
  <2> QED BY <2>2, <2>4, <2>6 DEF Types
<1>12. ASSUME NEW r \in Rows, Feed(r)
       PROVE  Types'
  <2>1. /\ UNCHANGED <<published, disk, saving, jobs, phase, dates, floor, broken, faults>>
        /\ r = acked + 1 /\ acked < published /\ acked' = r /\ rdb' = rdb \cup {r}
        /\ day' = IF day = None THEN DayOf(r) ELSE day
    BY <1>12 DEF Feed, Arriving, runVars
  <2>2. acked' \in 0 .. published /\ rdb' \subseteq 1 .. published
    BY <1>0, <2>1
  <2>3. day' \in Days \cup {None}
    BY <1>0, <2>1, DayOfRow
  <2>4. DiskType' /\ JobsType' /\ FaultsType'
    BY <1>0, <2>1 DEF DiskType, JobsType, FaultsType
  <2>5. TypeOK'
    BY <1>0, <2>1, <2>2, <2>3 DEF TypeOK
  <2> QED BY <2>4, <2>5 DEF Types
<1>13. CASE Stop
  <2>1. /\ UNCHANGED <<published, acked, rdb, day, disk, dates, floor, broken>>
        /\ phase' = "stopping" /\ faults' = [faults EXCEPT !["stop"] = @ + 1]
        /\ IF day = None THEN UNCHANGED <<saving, jobs>> ELSE StartSaving(day, rdb)
    BY <1>13 DEF Stop, Fault
  <2>2. JobsType' /\ saving' \in Days \cup {None}
    <3>1. CASE day = None
      BY <1>0, <2>1, <3>1 DEF JobsType
    <3>2. CASE day # None
      BY <1>0, <2>1, <3>2, Started
    <3> QED BY <3>1, <3>2
  <2>3. DiskType' /\ FaultsType'
    BY <1>0, <2>1 DEF DiskType, FaultsType
  <2> QED BY <1>0, <2>1, <2>2, <2>3, TypesKept
<1>14. CASE Exit \/ Die
  <2>1. /\ UNCHANGED <<published, acked>> /\ rdb' = {} /\ day' = None /\ saving' = None
        /\ jobs' = <<>> /\ dates' = {} /\ floor' = None /\ phase' = "start"
    BY <1>14 DEF Exit, Die, LoseMemory
  <2>2. JobsType'
    BY <2>1 DEF JobsType, Ordered
  <2>3. DiskType' /\ FaultsType' /\ broken' \subseteq Days
    <3>1. CASE Exit
      BY <1>0, <3>1 DEF Exit, DiskType, FaultsType
    <3>2. CASE Die
      <4>1. FaultsType'
        BY <1>0, <3>2 DEF Die, Fault, FaultsType
      <4>2. broken' \subseteq Days
        <5>1. HalfReplaced \subseteq Days
          BY <1>0 DEF HalfReplaced
        <5>2. HalfRemoved \subseteq Days
          <6>1. dates # {} => Min(dates) \in dates
            BY <1>0, DaysTyped, MinExists DEF IsMin
          <6> QED BY <1>0, <6>1 DEF HalfRemoved
        <5> QED BY <1>0, <3>2, <5>1, <5>2 DEF Die
      <4>3. DiskType'
        <5>1. CASE disk' = disk
          BY <1>0, <5>1 DEF DiskType
        <5>2. CASE jobs # <<>> /\ \E ids \in {{Cut}, {Cut} \cup Head(jobs).rows} :
                      disk' = [disk EXCEPT ![saving][Head(jobs).file] = ids]
          <6>1. Head(jobs) \in JobSet /\ saving \in Days
            BY <1>0, <5>2, TailIs DEF JobsType
          <6>2. Head(jobs).file \in Files
                /\ Head(jobs).rows \subseteq Rows /\ Head(jobs).rows \subseteq Kind(Head(jobs).file)
            BY <6>1 DEF JobSet
          <6> QED BY <1>0, <5>2, <6>1, <6>2 DEF DiskType
        <5> QED BY <3>2, <5>1, <5>2 DEF Die, Remains
      <4> QED BY <4>1, <4>2, <4>3
    <3> QED BY <1>14, <3>1, <3>2
  <2>4. \A d \in Days :
          /\ disk'[d]["trade"] \cup disk'[d]["bar"] \subseteq Trades \cup {Cut}
          /\ disk'[d]["quote"] \cup disk'[d]["quoteBar"] \subseteq (Rows \ Trades) \cup {Cut}
    BY <2>3 DEF DiskType, Kind, Files
  <2>5. TypeOK'
    BY <1>0, <2>1, <2>3, <2>4, DaysTyped DEF TypeOK
  <2> QED BY <2>2, <2>3, <2>5 DEF Types
<1> QED BY <1>1, <1>2, <1>3, <1>4, <1>5, <1>6, <1>7, <1>8, <1>9, <1>10, <1>11, <1>12, <1>13,
           <1>14 DEF Next

LEMMA PhasesNext ==
    ASSUME Types, Idle, Past, [Next]_vars
    PROVE  Idle' /\ Past'
<1>0. /\ published \in Rows /\ \A d \in Days : d \in Nat
      /\ dates \subseteq Days
  BY DaysTyped DEF Types, TypeOK
<1>1. CASE UNCHANGED vars
  BY <1>1 DEF vars, storeVars, runVars, Idle, Past, Today
<1>2. CASE Publish
  <2>1. /\ published' \in Rows /\ published < published'
        /\ UNCHANGED <<jobs, phase, dates>>
    BY <1>0, <1>2 DEF Publish, storeVars, runVars, Rows
  <2>2. Today \in Nat /\ Today' \in Nat /\ Today <= Today'
    <3>1. DayOf(published) \in Nat /\ DayOf(published') \in Nat
      BY <1>0, <2>1, DayOfRow
    <3>2. ~ (DayOf(published') < DayOf(published))
      BY <1>0, <2>1, DaysFollow DEF Rows
    <3> QED BY <3>1, <3>2 DEF Today
  <2> QED BY <1>0, <2>1, <2>2 DEF Idle, Past
<1>3. CASE StartRun
  <2>1. /\ UNCHANGED <<published, jobs>> /\ phase' = "backfill"
        /\ \A d \in dates' : d < Today
    BY <1>3 DEF StartRun, storeVars
  <2> QED BY <2>1 DEF Idle, Past, Today
<1>4. CASE FillDay
  <2>1. phase' = phase /\ phase = "backfill" /\ published' = published /\ dates' \subseteq dates
    BY <1>4 DEF FillDay
  <2> QED BY <2>1 DEF Idle, Past, Today
<1>5. CASE FinishRun \/ RemoveFile \/ RemoveDir \/ FinishPrune \/ BridgeRaises
  <2>1. phase' # "backfill" /\ (FinishRun \/ phase \in {"prune", "bridge"})
    BY <1>5 DEF FinishRun, RemoveFile, RemoveDir, FinishPrune, BridgeRaises, runVars
  <2>2. jobs' = jobs /\ (FinishRun => jobs = <<>>)
    BY <1>5 DEF FinishRun, RemoveFile, RemoveDir, FinishPrune, BridgeRaises, storeVars
  <2> QED BY <2>1, <2>2 DEF Idle, Past
<1>6. CASE WriteTable
  <2>1. UNCHANGED <<published, phase, dates>> /\ jobs # <<>>
    BY <1>6 DEF WriteTable, runVars
  <2> QED BY <2>1 DEF Idle, Past, Today
<1>7. CASE Bridge \/ Stop \/ Exit \/ Die
  <2>1. phase' \in {"live", "stopping"} \/ (phase' = "start" /\ jobs' = <<>>)
    BY <1>7 DEF Bridge, Stop, Exit, Die, LoseMemory
  <2> QED BY <2>1 DEF Idle, Past
<1>8. CASE \E r \in Rows : Dedup(r) \/ Roll(r) \/ Feed(r)
  <2>1. phase' = "live"
    BY <1>8 DEF Dedup, Roll, Feed, Arriving, runVars
  <2> QED BY <2>1 DEF Idle, Past
<1> QED BY <1>1, <1>2, <1>3, <1>4, <1>5, <1>6, <1>7, <1>8 DEF Next

LEMMA NothingPending == Pending(<<>>) = {}
BY DEF Pending

\* What a written table takes from memory is in its file.
LEMMA MemoryNext ==
    ASSUME Types, Idle, Past, Memory, [Next]_vars
    PROVE  Memory'
<1>0. /\ JobsType /\ rdb \in SUBSET Rows
      /\ phase \in {"start", "backfill", "prune", "bridge", "live", "stopping"}
  BY DEF Types, TypeOK, Rows
<1>1. CASE UNCHANGED vars
  BY <1>1 DEF vars, storeVars, runVars, Memory
<1>2. CASE Publish \/ StartRun \/ FinishRun \/ RemoveFile \/ RemoveDir \/ FinishPrune \/ BridgeRaises
  <2>1. UNCHANGED <<rdb, day, jobs>> /\ (phase' = phase \/ (phase # "live" /\ phase # "stopping" /\ phase' # "stopping"))
    BY <1>2 DEF Publish, StartRun, FinishRun, RemoveFile, RemoveDir, FinishPrune, BridgeRaises,
        storeVars, runVars
  <2> QED BY <2>1 DEF Memory
<1>3. CASE WriteTable
  <2> DEFINE j == Head(jobs)
  <2>1. /\ jobs # <<>> /\ UNCHANGED <<phase, day>> /\ jobs' = Tail(jobs)
        /\ rdb' = IF j.file \in RowFiles THEN rdb \ j.rows ELSE rdb
    BY <1>3 DEF WriteTable, runVars, RowFiles
  <2>2. Pending(jobs) = IF j.file \in RowFiles THEN Pending(jobs') \cup j.rows ELSE Pending(jobs')
    BY <1>0, <2>1, TailIs DEF JobsType
  <2> HIDE DEF j
  <2> QED BY <2>1, <2>2 DEF Memory
<1>4. CASE FillDay
  <2> DEFINE d == Min(dates)
  <2>1. phase = "backfill" /\ phase' = phase /\ jobs = <<>> /\ dates # {}
        /\ StartSaving(d, rdb')
    BY <1>4 DEF FillDay
  <2>2. d \in Days
    BY <2>1, DaysTyped, MinExists DEF IsMin, Types, TypeOK
  <2>3. rdb' \in SUBSET Rows
    <3>1. Types'
      BY TypesNext
    <3> QED BY <3>1 DEF Types, TypeOK, Rows
  <2>4. Pending(jobs') = rdb'
    BY <2>1, <2>2, <2>3, Started
  <2> QED BY <2>4 DEF Memory
<1>5. CASE Bridge \/ \E r \in Rows : Dedup(r) \/ Roll(r) \/ Feed(r)
  <2>1. phase' = "live"
    BY <1>5 DEF Bridge, Dedup, Roll, Feed, Arriving, runVars
  <2> QED BY <2>1 DEF Memory
<1>6. CASE Stop
  <2>1. /\ phase' = "stopping" /\ UNCHANGED <<rdb, day>>
        /\ day # None => StartSaving(day, rdb)
    BY <1>6 DEF Stop
  <2>2. day # None => Pending(jobs') = rdb
    BY <1>0, <2>1, Started DEF Types, TypeOK
  <2> QED BY <2>1, <2>2 DEF Memory
<1>7. CASE Exit \/ Die
  <2>1. rdb' = {}
    BY <1>7 DEF Exit, Die, LoseMemory
  <2> QED BY <2>1 DEF Memory
<1> QED BY <1>1, <1>2, <1>3, <1>4, <1>5, <1>6, <1>7 DEF Next

-----------------------------------------------------------------------------
(* The bars of a date and its rows.                                          *)

LEMMA QueuesNone == \A f : ~Queues(<<>>, f)
BY DEF Queues

LEMMA AgreeKept ==
    ASSUME Written, Agree, UNCHANGED <<disk, jobs, saving>>,
           broken \cup HalfRemoved \subseteq (broken \cup HalfRemoved)'
    PROVE  Written' /\ Agree'
<1>1. Written'
  BY DEF Written
<1>2. ASSUME NEW d \in Days, NEW f \in RowFiles
      PROVE  Agrees(d, f)'
  <2>1. Agrees(d, f)
    BY DEF Agree
  <2> QED BY <2>1 DEF Agrees
<1> QED BY <1>1, <1>2 DEF Agree

\* Nothing was being saved, and now a savedown with all its tables to come, or none.
LEMMA AgreeStarted ==
    ASSUME Agree, jobs = <<>>, disk' = disk,
           broken \cup HalfRemoved \subseteq (broken \cup HalfRemoved)',
           \A f \in RowFiles : Queues(jobs', BarFile(f)) => Queues(jobs', f)
    PROVE  Written' /\ Agree'
<1>1. Written'
  BY DEF Written, Queues
<1>2. ASSUME NEW d \in Days, NEW f \in RowFiles
      PROVE  Agrees(d, f)'
  <2>1. Agrees(d, f) /\ ~Queues(jobs, BarFile(f))
    BY QueuesNone DEF Agree
  <2> QED BY <2>1 DEF Agrees
<1> QED BY <1>1, <1>2 DEF Agree

LEMMA BarFilesDiffer ==
    \A f, g \in RowFiles : /\ f \in Files /\ BarFile(f) \in Files
                           /\ BarFile(f) \notin RowFiles
                           /\ BarFile(f) = BarFile(g) => f = g
BY DEF RowFiles, BarFile, Files

LEMMA AgreeWritten ==
    ASSUME Types, Written, Agree, WriteTable
    PROVE  Written' /\ Agree'
<1> DEFINE j == Head(jobs)
<1>1. /\ jobs # <<>> /\ jobs \in Seq(JobSet) /\ Ordered(jobs) /\ saving \in Days
      /\ disk \in [Days -> [Files -> SUBSET (Rows \cup {Cut})]]
  BY DEF Types, TypeOK, JobsType, DiskType, WriteTable
<1>2. /\ disk' = [disk EXCEPT ![saving][j.file] = j.rows] /\ jobs' = Tail(jobs)
      /\ saving' = IF Tail(jobs) = <<>> THEN None ELSE saving
      /\ UNCHANGED <<phase, dates, broken>>
  BY DEF WriteTable, runVars
<1>3. /\ j \in JobSet /\ j = jobs[1] /\ 1 \in DOMAIN jobs
      /\ Queues(jobs, j.file) /\ ~Queues(jobs', j.file)
      /\ \A f : f # j.file => (Queues(jobs', f) <=> Queues(jobs, f))
      /\ \A k \in DOMAIN jobs' : k + 1 \in DOMAIN jobs /\ jobs'[k] = jobs[k + 1]
      /\ DOMAIN jobs \subseteq Nat
  BY <1>1, <1>2, TailIs
<1> HIDE DEF j
<1>4. j.file \in Files /\ j.rows \subseteq Rows /\ j.rows # {}
  BY <1>3 DEF JobSet
<1>5. \A d \in Days, f \in Files :
        disk'[d][f] = IF d = saving /\ f = j.file THEN j.rows ELSE disk[d][f]
  BY <1>1, <1>2, <1>4
<1>6. \A f : Queues(jobs', f) => saving' = saving
  BY <1>2, QueuesNone
<1>7. ASSUME NEW f \in RowFiles, NEW k \in DOMAIN jobs', jobs'[k].file = BarFile(f),
             ~Queues(jobs', f)
      PROVE  disk'[saving'][f] = jobs'[k].rows
  <2>1. /\ k + 1 \in DOMAIN jobs /\ jobs[k + 1] = jobs'[k] /\ saving' = saving
        /\ f \in Files /\ BarFile(f) \in Files /\ f # BarFile(f)
    BY <1>3, <1>6, <1>7, BarFilesDiffer DEF Queues
  <2>2. CASE f = j.file
    <3>1. PICK l \in DOMAIN jobs : jobs[l].file = BarFile(f) /\ jobs[l].rows = j.rows
      BY <1>1, <1>3, <2>2 DEF Ordered
    <3>2. l = k + 1
      BY <1>1, <1>7, <2>1, <3>1 DEF Ordered
    <3> QED BY <1>1, <1>5, <2>1, <2>2, <3>1, <3>2
  <2>3. CASE f # j.file
    <3>1. ~Queues(jobs, f)
      BY <1>3, <1>7, <2>3
    <3>2. disk[saving][f] = jobs[k + 1].rows
      BY <1>7, <2>1, <3>1 DEF Written
    <3> QED BY <1>1, <1>5, <2>1, <2>3, <3>2
  <2> QED BY <2>2, <2>3
<1>8. ASSUME NEW d \in Days, NEW f \in RowFiles
      PROVE  Agrees(d, f)'
  <2>1. f \in Files /\ BarFile(f) \in Files /\ BarFile(f) # f
    BY BarFilesDiffer
  <2>2. HalfRemoved' = HalfRemoved /\ broken' = broken
    BY <1>2 DEF HalfRemoved
  <2>3. Agrees(d, f)
    BY DEF Agree
  <2>4. CASE d # saving \/ j.file \notin {f, BarFile(f)}
    <3>1. disk'[d][f] = disk[d][f] /\ disk'[d][BarFile(f)] = disk[d][BarFile(f)]
      BY <1>5, <2>1, <2>4
    <3>2. d = saving /\ Queues(jobs, BarFile(f)) => d = saving' /\ Queues(jobs', BarFile(f))
      BY <1>3, <1>6, <2>4
    <3> QED BY <2>2, <2>3, <3>1, <3>2 DEF Agrees
  <2>5. CASE d = saving /\ j.file = f
    <3>1. PICK l \in DOMAIN jobs : jobs[l].file = BarFile(f)
      BY <1>1, <1>3, <2>5 DEF Ordered
    <3>2. Queues(jobs', BarFile(f))
      BY <1>3, <2>1, <2>5, <3>1 DEF Queues
    <3> QED BY <1>6, <2>5, <3>2 DEF Agrees
  <2>6. CASE d = saving /\ j.file = BarFile(f)
    <3>1. ~Queues(jobs, f)
      <4>1. ASSUME NEW k \in DOMAIN jobs, jobs[k].file = f
            PROVE  FALSE
        <5>1. PICK l \in DOMAIN jobs : k < l /\ jobs[l].file = BarFile(f)
          BY <1>1, <4>1 DEF Ordered
        <5>2. l = 1
          BY <1>1, <1>3, <2>6, <5>1 DEF Ordered
        <5>3. 1 <= k
          BY <1>1
        <5> QED BY <1>3, <5>1, <5>2, <5>3
      <4> QED BY <4>1 DEF Queues
    <3>2. disk[saving][f] = j.rows
      BY <1>3, <2>6, <3>1 DEF Written
    <3>3. disk'[d][BarFile(f)] = j.rows /\ disk'[d][f] = j.rows
      BY <1>1, <1>5, <2>1, <2>6, <3>2
    <3> QED BY <3>3 DEF Agrees
  <2> QED BY <2>4, <2>5, <2>6
<1> QED BY <1>7, <1>8 DEF Written, Agree

\* A death in a savedown breaks the date, unless it had none of the tables to come.
LEMMA AgreeDied ==
    ASSUME Types, Agree, Die
    PROVE  Written' /\ Agree'
<1>1. /\ jobs' = <<>> /\ phase' = "start" /\ disk' \in Remains
      /\ broken' = broken \cup HalfReplaced \cup HalfRemoved
  BY DEF Die, LoseMemory
<1>2. Written'
  BY <1>1 DEF Written
<1>3. ASSUME NEW d \in Days, NEW f \in RowFiles
      PROVE  Agrees(d, f)'
  <2>1. f \in Files /\ BarFile(f) \in Files
    BY BarFilesDiffer
  <2>2. Agrees(d, f)
    BY DEF Agree
  <2>3. CASE disk' = disk
    <3>1. d = saving /\ Queues(jobs, BarFile(f)) /\ disk[d][BarFile(f)] # {} => d \in HalfReplaced
      BY DaysTyped DEF HalfReplaced, Queues
    <3> QED BY <1>1, <2>2, <2>3, <3>1 DEF Agrees
  <2>4. CASE jobs # <<>> /\ \E ids \in {{Cut}, {Cut} \cup Head(jobs).rows} :
                disk' = [disk EXCEPT ![saving][Head(jobs).file] = ids]
    <3>1. PICK ids : Cut \in ids /\ disk' = [disk EXCEPT ![saving][Head(jobs).file] = ids]
      BY <2>4
    <3>2. /\ jobs \in Seq(JobSet) /\ Ordered(jobs) /\ saving \in Days
          /\ disk \in [Days -> [Files -> SUBSET (Rows \cup {Cut})]]
      BY <2>4 DEF Types, TypeOK, JobsType, DiskType
    <3>3. Head(jobs) \in JobSet
      BY <2>4, <3>2, TailIs
    <3> DEFINE h == Head(jobs).file
    <3>4. h \in Files
      BY <3>3 DEF JobSet
    <3> HIDE DEF h
    <3>5. \A e \in Days, g \in Files :
            disk'[e][g] = IF e = saving /\ g = h THEN ids ELSE disk[e][g]
      BY <3>1, <3>2, <3>4 DEF h
    <3>6. CASE d = saving /\ h \in {f, BarFile(f)}
      BY <2>1, <3>1, <3>5, <3>6 DEF Agrees
    <3>7. CASE d # saving \/ h \notin {f, BarFile(f)}
      <4>1. disk'[d][f] = disk[d][f] /\ disk'[d][BarFile(f)] = disk[d][BarFile(f)]
        BY <2>1, <3>5, <3>7
      <4>2. d = saving /\ Queues(jobs, BarFile(f)) /\ disk[d][BarFile(f)] # {} => d \in HalfReplaced
        BY DaysTyped DEF HalfReplaced, Queues
      <4> QED BY <1>1, <2>2, <4>1, <4>2 DEF Agrees
    <3> QED BY <3>6, <3>7
  <2> QED BY <1>1, <2>3, <2>4 DEF Remains
<1> QED BY <1>2, <1>3 DEF Agree

LEMMA BarsNext ==
    ASSUME Types, Idle, Written, Agree, [Next]_vars
    PROVE  Written' /\ Agree'
<1>0. /\ dates \subseteq Days /\ JobsType /\ rdb \in SUBSET Rows
      /\ phase # "prune" \/ dates = {} => HalfRemoved = {}
      /\ phase' # "prune" => HalfRemoved' = {}
  BY DEF Types, TypeOK, Rows, HalfRemoved
<1>1. CASE UNCHANGED vars
  <2>1. UNCHANGED <<disk, jobs, saving, phase, dates, broken>>
    BY <1>1 DEF vars, storeVars, runVars
  <2> QED BY <2>1, AgreeKept DEF HalfRemoved
<1>2. CASE Publish \/ \E r \in Rows : Dedup(r) \/ Feed(r)
  <2>1. UNCHANGED <<disk, jobs, saving, phase, dates, broken>>
    BY <1>2 DEF Publish, Dedup, Feed, storeVars, runVars
  <2> QED BY <2>1, AgreeKept DEF HalfRemoved
<1>3. CASE StartRun \/ FinishRun \/ FinishPrune \/ Bridge \/ BridgeRaises
  <2>1. UNCHANGED <<disk, jobs, saving, broken>>
    BY <1>3 DEF StartRun, FinishRun, FinishPrune, Bridge, BridgeRaises, storeVars
  <2>2. phase # "prune" \/ dates = {}
    BY <1>3 DEF StartRun, FinishRun, FinishPrune, Bridge, BridgeRaises
  <2> QED BY <1>0, <2>1, <2>2, AgreeKept
<1>4. CASE WriteTable
  BY <1>4, AgreeWritten
<1>5. CASE FillDay \/ Exit \/ Stop \/ \E r \in Rows : Roll(r)
  <2>1. /\ jobs = <<>> /\ disk' = disk /\ broken' = broken /\ phase # "prune"
    BY <1>5 DEF FillDay, Exit, Stop, Roll, Arriving
  <2>2. \A f \in RowFiles : Queues(jobs', BarFile(f)) => Queues(jobs', f)
    <3>1. CASE FillDay
      <4>1. StartSaving(Min(dates), rdb') /\ dates # {} /\ phase = "backfill"
        BY <3>1 DEF FillDay
      <4>2. Min(dates) \in Days
        BY <1>0, <4>1, DaysTyped, MinExists DEF IsMin
      <4>3. rdb' = rdb \cup {r \in Trades : DayOf(r) = Min(dates)}
        BY <3>1 DEF FillDay
      <4>4. rdb' \in SUBSET Rows
        BY <1>0, <4>3, SavedownAssumption
      <4> QED BY <4>1, <4>2, <4>4, Started
    <3>2. CASE Exit
      BY <3>2, QueuesNone DEF Exit, LoseMemory
    <3>3. CASE Stop \/ \E r \in Rows : Roll(r)
      <4>1. jobs' = jobs \/ (day \in Days /\ rdb \in SUBSET Rows /\ StartSaving(day, rdb))
        BY <3>3 DEF Stop, Roll, Types, TypeOK, Rows
      <4> QED BY <2>1, <4>1, Started, QueuesNone
    <3> QED BY <1>5, <3>1, <3>2, <3>3
  <2> QED BY <1>0, <2>1, <2>2, AgreeStarted
<1>6. CASE RemoveFile
  <2>1. /\ phase = "prune" /\ dates # {} /\ UNCHANGED <<jobs, saving, phase, dates, broken>>
        /\ \E f \in Files : disk' = [disk EXCEPT ![Min(dates)][f] = {}]
    BY <1>6 DEF RemoveFile, storeVars, runVars
  <2>2. HalfRemoved = {Min(dates)} /\ HalfRemoved' = HalfRemoved /\ jobs = <<>>
    BY <2>1 DEF HalfRemoved, Idle
  <2>3. Written'
    BY <2>1, <2>2 DEF Written
  <2>4. ASSUME NEW d \in Days, NEW f \in RowFiles
        PROVE  Agrees(d, f)'
    <3>1. d # Min(dates) => disk'[d] = disk[d]
      BY <2>1 DEF Types, DiskType
    <3>2. Agrees(d, f)
      BY DEF Agree
    <3> QED BY <2>1, <2>2, <3>1, <3>2 DEF Agrees
  <2> QED BY <2>3, <2>4 DEF Agree
<1>7. CASE RemoveDir
  <2>1. /\ phase = "prune" /\ dates # {} /\ UNCHANGED <<disk, jobs, saving, phase, broken>>
        /\ \A f \in Files : disk[Min(dates)][f] = {}
    BY <1>7 DEF RemoveDir, storeVars
  <2>2. HalfRemoved = {Min(dates)} /\ jobs = <<>>
    BY <2>1 DEF HalfRemoved, Idle
  <2>3. Written'
    BY <2>1, <2>2 DEF Written
  <2>4. ASSUME NEW d \in Days, NEW f \in RowFiles
        PROVE  Agrees(d, f)'
    <3>1. d = Min(dates) => disk[d][BarFile(f)] = {}
      BY <2>1, BarFilesDiffer
    <3>2. Agrees(d, f) /\ ~Queues(jobs, BarFile(f))
      BY <2>2, QueuesNone DEF Agree
    <3> QED BY <2>1, <2>2, <3>1, <3>2 DEF Agrees
  <2> QED BY <2>3, <2>4 DEF Agree
<1>8. CASE Die
  BY <1>8, AgreeDied
<1> QED BY <1>1, <1>2, <1>3, <1>4, <1>5, <1>6, <1>7, <1>8 DEF Next

LEMMA InitHolds == Init => IInv
<1> SUFFICES ASSUME Init PROVE IInv
  OBVIOUS
<1>1. Types
  BY TypesInit
<1>2. Idle /\ Past /\ Memory
  BY DEF Init, Idle, Past, Memory
<1>3. Written /\ Agree
  BY BarFilesDiffer DEF Init, Written, Agree, Agrees
<1> QED BY <1>1, <1>2, <1>3 DEF IInv

LEMMA StepHolds == IInv /\ [Next]_vars => IInv'
BY TypesNext, PhasesNext, MemoryNext, BarsNext DEF IInv

LEMMA Inductive == Spec => []IInv
BY InitHolds, StepHolds, PTL DEF Spec

\* At every moment the tables of a date hold trades and quotes where they should,
\* and a savedown has only non-empty tables to write (schema.q savedown, saveTable).
THEOREM TypeCorrect == Spec => []TypeOK
<1>1. IInv => TypeOK
  BY DEF IInv, Types
<1> QED BY <1>1, Inductive, PTL

\* A row leaves memory only for a file: in a savedown, over a roll, a flush, a fill
\* and the bridge's fresh start, in any order (RdbRoller, run_backfill, FeedHandler.run).
THEOREM OnlyDeathLosesRows == Spec => RowsLostOnlyByDeath
<1> DEFINE Kept == faults'["death"] = faults["death"] /\ ~(phase = "stopping" /\ day = None)
                      => rdb \ rdb' \subseteq OnDisk'
<1>1. IInv /\ [Next]_vars => [Kept]_vars
  <2> SUFFICES ASSUME IInv, [Next]_vars, faults'["death"] = faults["death"],
                      ~(phase = "stopping" /\ day = None)
               PROVE  rdb \ rdb' \subseteq OnDisk'
    OBVIOUS
  <2>0. Types /\ Idle /\ Memory /\ JobsType /\ DiskType /\ FaultsType /\ saving \in Days \cup {None}
    BY DEF IInv, Types, TypeOK
  <2>1. CASE rdb \subseteq rdb'
    BY <2>1
  <2>2. CASE rdb = {}
    BY <2>2
  <2>3. CASE WriteTable
    <3> DEFINE j == Head(jobs)
    <3>1. /\ jobs # <<>> /\ saving \in Days
          /\ disk' = [disk EXCEPT ![saving][j.file] = j.rows]
          /\ rdb' = IF j.file \in {"trade", "quote"} THEN rdb \ j.rows ELSE rdb
      BY <2>0, <2>3 DEF WriteTable, JobsType
    <3>2. j.file \in Files
      BY <2>0, <3>1, TailIs DEF JobsType, JobSet
    <3> HIDE DEF j
    <3>3. disk'[saving][j.file] = j.rows
      BY <2>0, <3>1, <3>2 DEF DiskType
    <3>4. CASE j.file \in {"trade", "quote"}
      <4>1. j.rows \subseteq disk'[saving]["trade"] \cup disk'[saving]["quote"]
        BY <3>3, <3>4
      <4>2. j.rows \subseteq OnDisk'
        BY <3>1, <4>1 DEF OnDisk
      <4> QED BY <3>1, <4>2
    <3>5. CASE j.file \notin {"trade", "quote"}
      BY <3>1, <3>5
    <3> QED BY <3>4, <3>5
  <2>4. CASE Bridge \/ Exit
    <3>1. jobs = <<>> /\ phase # "live"
      BY <2>0, <2>4 DEF Bridge, Exit, Idle
    <3> QED BY <2>0, <2>2, <3>1, NothingPending DEF Memory
  <2>5. CASE Die
    <3>1. faults'["death"] = faults["death"] + 1
      BY <2>0, <2>5 DEF Die, Fault, FaultsType
    <3> QED BY <2>0, <3>1 DEF FaultsType
  <2>6. CASE UNCHANGED vars
    BY <2>1, <2>6 DEF vars, storeVars
  <2>7. ASSUME Next, ~WriteTable, ~Bridge, ~Exit, ~Die
        PROVE  rdb \subseteq rdb'
    BY <2>7 DEF Next, Publish, StartRun, FillDay, FinishRun, RemoveFile, RemoveDir, FinishPrune,
       BridgeRaises, Dedup, Roll, Feed, Stop, storeVars
  <2> QED BY <2>1, <2>3, <2>4, <2>5, <2>6, <2>7
<1> QED BY <1>1, Inductive, PTL DEF Spec, RowsLostOnlyByDeath

-----------------------------------------------------------------------------
(* What readers get.                                                         *)

LEMMA SizesTile ==
    ASSUME NEW sz \in Sizes
    PROVE  Multiple(sz)
<1> DEFINE k == sz \div BarSize
<1>1. sz \in Nat \ {0} /\ sz % BarSize = 0 /\ BarSize \in Nat \ {0}
  BY SavedownAssumption, RowsAssumption
<1>2. k \in Nat /\ sz = BarSize * k + (sz % BarSize)
  BY <1>1
<1> HIDE DEF k
<1>3. sz = BarSize * k /\ sz = k * BarSize
  BY <1>1, <1>2
<1>4. k # 0
  BY <1>1, <1>2, <1>3
<1> QED BY <1>1, <1>2, <1>3, <1>4 DEF Multiple

\* A settled date has no bars, or those of the rows it holds.
LEMMA SettledAgrees ==
    ASSUME Agree, NEW d \in Days, Settled(d), Readable(d)
    PROVE  /\ disk[d]["bar"] = {} \/ disk[d]["bar"] = disk[d]["trade"]
           /\ disk[d]["quoteBar"] = {} \/ disk[d]["quoteBar"] = disk[d]["quote"]
<1>1. ASSUME NEW f \in RowFiles
      PROVE  disk[d][BarFile(f)] = {} \/ disk[d][BarFile(f)] = disk[d][f]
  <2>1. Agrees(d, f)
    BY DEF Agree
  <2>2. Cut \notin disk[d][f] \cup disk[d][BarFile(f)]
    BY BarFilesDiffer DEF Readable
  <2>3. d = saving /\ Queues(jobs, BarFile(f)) /\ disk[d][BarFile(f)] # {} => d \in HalfReplaced
    BY DaysTyped DEF HalfReplaced, Queues
  <2> QED BY <2>1, <2>2, <2>3 DEF Agrees, Settled
<1> QED BY <1>1 DEF RowFiles, BarFile

\* A reader of a settled date gets the bars of the trades and quotes it holds, stored
\* or built, at any width, during a savedown and after a death too (schema.q savedown,
\* analytics.q bars and quoteBars).
THEOREM BarsAlwaysMatchRows == Spec => []BarsMatchRows
<1>1. IInv => BarsMatchRows
  <2> SUFFICES ASSUME IInv, NEW d \in Days, NEW sz \in Sizes, Settled(d), Readable(d)
               PROVE  /\ BarsRead(d, sz) = BarsOf(disk[d]["trade"], sz)
                      /\ QuoteBarsRead(d, sz) = QuoteBarsOf(disk[d]["quote"], sz)
    BY DEF BarsMatchRows
  <2>1. Agree /\ DiskType /\ Multiple(sz)
    BY SizesTile DEF IInv, Types
  <2>2. disk[d]["trade"] \in SUBSET Rows /\ disk[d]["quote"] \in SUBSET Rows
    BY <2>1, FilesTyped, SavedownAssumption DEF Readable, Files
  <2>3. BarsRead(d, sz) = BarsOf(disk[d]["trade"], sz)
    <3>1. CASE disk[d]["bar"] = {}
      BY <3>1 DEF BarsRead
    <3>2. CASE disk[d]["bar"] # {}
      <4>1. BarsRead(d, sz) = RebucketBars(BarsOf(disk[d]["trade"], BarSize), sz)
        BY <2>1, <3>2, SettledAgrees DEF BarsRead
      <4> QED BY <2>1, <2>2, <4>1, RebucketingIsExact
    <3> QED BY <3>1, <3>2
  <2>4. QuoteBarsRead(d, sz) = QuoteBarsOf(disk[d]["quote"], sz)
    <3>1. CASE disk[d]["quoteBar"] = {}
      BY <3>1 DEF QuoteBarsRead
    <3>2. CASE disk[d]["quoteBar"] # {}
      <4>1. QuoteBarsRead(d, sz) = RebucketQuoteBars(QuoteBarsOf(disk[d]["quote"], BarSize), sz)
        BY <2>1, <3>2, SettledAgrees DEF QuoteBarsRead
      <4> QED BY <2>1, <2>2, <4>1, RebucketingQuotesIsExact
    <3> QED BY <3>1, <3>2
  <2> QED BY <2>3, <2>4
<1> QED BY <1>1, Inductive, PTL
=============================================================================
