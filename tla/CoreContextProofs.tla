------------------------- MODULE CoreContextProofs -------------------------
(***************************************************************************)
(* The threads that share a context, for any threads, parts and chunks.    *)
(*                                                                         *)
(* LockInv is about writing: whose the mutex is, as long as                *)
(* exr_get_file_name did not free it, and how far exr_write_header has     *)
(* counted the chunks, as long as no other call changed something while it *)
(* did not hold the mutex.  TableInv is about reading: what a thread that  *)
(* is about to install a chunk table has in hand is one.                   *)
(*                                                                         *)
(* FoundInv is about what is in the tables: they know the chunks of their  *)
(* parts.  That the scan of a damaged file finds all of them is shown step *)
(* by step along the scan, by induction (lemma Reach).                     *)
(*                                                                         *)
(* The first part is about TileLayout: both libraries mean the same by a   *)
(* tile, for every size of image and tile.  Its recursions over levels,    *)
(* numbers and sets are followed by the same induction.                    *)
(***************************************************************************)
EXTENDS CoreContext, FiniteSetTheorems, WellFoundedInduction, TLAPS

\* A set of numbers that has 0, and with each number the next, has them all.
LEMMA Reach ==
    ASSUME NEW n \in Nat, NEW P, 0 \in P, \A k \in 0 .. n - 1 : k \in P => k + 1 \in P
    PROVE  0 .. n \subseteq P
  <1> SUFFICES ASSUME ~(0 .. n \subseteq P) PROVE FALSE
    OBVIOUS
  <1> DEFINE T == (0 .. n) \ P
             R == OpToRel(<, Nat)
  <1>1. T \subseteq Nat /\ T # {}
    OBVIOUS
  <1>2. IsWellFoundedOn(R, Nat)
    BY NatLessThanWellFounded
  <1>3. \A x, y \in Nat : x < y => <<x, y>> \in R
    BY DEF OpToRel
  <1> HIDE DEF T, R
  <1>4. PICK k \in T : \A y \in T : ~(<<y, k>> \in R)
    BY <1>1, <1>2, WFMin
  <1>5. k \in 0 .. n /\ k \notin P
    BY DEF T
  <1>6. k # 0 /\ k - 1 \in 0 .. n - 1 /\ k - 1 \in Nat /\ k \in Nat /\ k - 1 < k
    BY <1>5
  <1>7. k - 1 \in P
    <2>1. k - 1 \notin T
      BY <1>3, <1>4, <1>6
    <2>2. QED
      BY <1>6, <2>1 DEF T
  <1>8. QED
    BY <1>5, <1>6, <1>7

-----------------------------------------------------------------------------
(* Powers of two.                                                           *)

Powers(f, n) == f = [k \in 0 .. n |-> IF k = 0 THEN 1 ELSE 2 * f[k - 1]]

LEMMA PowersGoOn ==
    ASSUME NEW n \in Nat
    PROVE  \E f : Powers(f, n)
  <1> DEFINE P == {m \in 0 .. n : \E f : Powers(f, m)}
  <1>1. 0 \in P
    <2> DEFINE f == [k \in 0 .. 0 |-> 1]
    <2>1. Powers(f, 0)
      BY DEF Powers
    <2>2. QED
      BY <2>1
  <1>2. ASSUME NEW m \in 0 .. n - 1, m \in P
        PROVE  m + 1 \in P
    <2>1. PICK f : Powers(f, m)
      BY <1>2
    <2> DEFINE g == [k \in 0 .. m + 1 |-> IF k <= m THEN f[k] ELSE 2 * f[k - 1]]
    <2>2. \A k \in 0 .. m + 1 : g[k] = IF k = 0 THEN 1 ELSE 2 * g[k - 1]
      BY <2>1 DEF Powers
    <2>3. Powers(g, m + 1)
      BY <2>2 DEF Powers
    <2>4. QED
      BY <2>3
  <1> HIDE DEF P
  <1>3. 0 .. n \subseteq P
    BY <1>1, <1>2, Reach
  <1>4. QED
    BY <1>3 DEF P

LEMMA ShiftedIs ==
    ASSUME NEW n \in Nat
    PROVE  \E f : Powers(f, n) /\ Shifted(n) = f[n]
  <1>1. PICK f : Powers(f, n)
    BY PowersGoOn
  <1> DEFINE s == CHOOSE s : s = [k \in 0 .. n |-> IF k = 0 THEN 1 ELSE 2 * s[k - 1]]
  <1>2. s = [k \in 0 .. n |-> IF k = 0 THEN 1 ELSE 2 * s[k - 1]]
    BY <1>1, Zenon DEF Powers
  <1>3. Shifted(n) = s[n]
    BY DEF Shifted
  <1> HIDE DEF s
  <1>4. QED
    BY <1>2, <1>3 DEF Powers

LEMMA PowersAgree ==
    ASSUME NEW n \in Nat, NEW m \in Nat, n <= m, NEW f, NEW h, Powers(f, n), Powers(h, m)
    PROVE  \A k \in 0 .. n : f[k] = h[k] /\ f[k] \in Nat \ {0}
  <1> DEFINE P == {k \in 0 .. n : f[k] = h[k] /\ f[k] \in Nat \ {0}}
  <1>1. 0 \in P
    BY DEF Powers
  <1>2. ASSUME NEW k \in 0 .. n - 1, k \in P
        PROVE  k + 1 \in P
    BY <1>2 DEF Powers
  <1> HIDE DEF P
  <1>3. 0 .. n \subseteq P
    BY <1>1, <1>2, Reach
  <1>4. QED
    BY <1>3 DEF P

LEMMA ShiftedStep ==
    /\ Shifted(0) = 1
    /\ \A n \in Nat : Shifted(n) \in Nat \ {0} /\ Shifted(n + 1) = 2 * Shifted(n)
  <1>1. Shifted(0) = 1
    <2>1. PICK f : Powers(f, 0) /\ Shifted(0) = f[0]
      BY ShiftedIs
    <2>2. QED
      BY <2>1 DEF Powers
  <1>2. ASSUME NEW n \in Nat
        PROVE  Shifted(n) \in Nat \ {0} /\ Shifted(n + 1) = 2 * Shifted(n)
    <2>1. PICK f : Powers(f, n) /\ Shifted(n) = f[n]
      BY ShiftedIs
    <2>2. PICK h : Powers(h, n + 1) /\ Shifted(n + 1) = h[n + 1]
      BY ShiftedIs
    <2>3. f[n] = h[n] /\ f[n] \in Nat \ {0}
      BY <2>1, <2>2, PowersAgree
    <2>4. h[n + 1] = 2 * h[n]
      BY <2>2 DEF Powers
    <2>5. QED
      BY <2>1, <2>2, <2>3, <2>4
  <1>3. QED
    BY <1>1, <1>2

-----------------------------------------------------------------------------
(* Logarithms.                                                              *)

Floors(f, n) == f = [x \in 1 .. n |-> IF x > 1 THEN 1 + f[x \div 2] ELSE 0]
Odds(f, n) == f = [x \in 1 .. n |-> x > 1 /\ (x % 2 = 1 \/ f[x \div 2])]

LEMMA Half ==
    ASSUME NEW x \in Nat \ {0, 1}
    PROVE  x \div 2 \in 1 .. x - 1 /\ x = 2 * (x \div 2) + (x % 2) /\ (x % 2) \in {0, 1}
  OBVIOUS

LEMMA FloorsGoOn ==
    ASSUME NEW n \in Nat
    PROVE  \E f : Floors(f, n)
  <1> DEFINE P == {m \in 0 .. n : \E f : Floors(f, m)}
  <1>1. 0 \in P
    <2> DEFINE f == [k \in 1 .. 0 |-> 0]
    <2>1. Floors(f, 0)
      BY DEF Floors
    <2>2. QED
      BY <2>1
  <1>2. ASSUME NEW m \in 0 .. n - 1, m \in P
        PROVE  m + 1 \in P
    <2>1. PICK f : Floors(f, m)
      BY <1>2
    <2> DEFINE g == [x \in 1 .. m + 1 |-> IF x <= m THEN f[x]
                                          ELSE IF x > 1 THEN 1 + f[x \div 2] ELSE 0]
    <2>2. ASSUME NEW x \in 1 .. m + 1
          PROVE  g[x] = IF x > 1 THEN 1 + g[x \div 2] ELSE 0
      BY <2>1, Half DEF Floors
    <2>3. Floors(g, m + 1)
      BY <2>2 DEF Floors
    <2>4. QED
      BY <2>3
  <1> HIDE DEF P
  <1>3. 0 .. n \subseteq P
    BY <1>1, <1>2, Reach
  <1>4. QED
    BY <1>3 DEF P

LEMMA OddsGoOn ==
    ASSUME NEW n \in Nat
    PROVE  \E f : Odds(f, n)
  <1> DEFINE P == {m \in 0 .. n : \E f : Odds(f, m)}
  <1>1. 0 \in P
    <2> DEFINE f == [k \in 1 .. 0 |-> FALSE]
    <2>1. Odds(f, 0)
      BY DEF Odds
    <2>2. QED
      BY <2>1
  <1>2. ASSUME NEW m \in 0 .. n - 1, m \in P
        PROVE  m + 1 \in P
    <2>1. PICK f : Odds(f, m)
      BY <1>2
    <2> DEFINE g == [x \in 1 .. m + 1 |-> IF x <= m THEN f[x]
                                          ELSE x > 1 /\ (x % 2 = 1 \/ f[x \div 2])]
    <2>2. ASSUME NEW x \in 1 .. m + 1
          PROVE  g[x] = (x > 1 /\ (x % 2 = 1 \/ g[x \div 2]))
      BY <2>1, Half DEF Odds
    <2>3. Odds(g, m + 1)
      BY <2>2 DEF Odds
    <2>4. QED
      BY <2>3
  <1> HIDE DEF P
  <1>3. 0 .. n \subseteq P
    BY <1>1, <1>2, Reach
  <1>4. QED
    BY <1>3 DEF P

\* A number is between two powers of two, and is the lower one if it has no other bit.
LEMMA LogsAre ==
    ASSUME NEW n \in Nat, NEW f, NEW odd, Floors(f, n), Odds(odd, n)
    PROVE  \A x \in 1 .. n : /\ f[x] \in Nat
                             /\ Shifted(f[x]) <= x /\ x < 2 * Shifted(f[x])
                             /\ odd[x] <=> x # Shifted(f[x])
  <1> DEFINE Is(x) == /\ f[x] \in Nat
                      /\ Shifted(f[x]) <= x /\ x < 2 * Shifted(f[x])
                      /\ odd[x] <=> x # Shifted(f[x])
             P == {m \in 0 .. n : \A x \in 1 .. m : Is(x)}
  <1>1. 0 \in P
    OBVIOUS
  <1>2. ASSUME NEW m \in 0 .. n - 1, m \in P
        PROVE  m + 1 \in P
    <2> DEFINE x == m + 1
    <2>1. CASE m = 0
      <3>1. 1 \in 1 .. n /\ ~(1 > 1)
        BY <2>1
      <3>2. f[1] = 0
        BY <3>1 DEF Floors
      <3>3. ~odd[1]
        BY <3>1, Zenon DEF Odds
      <3>4. Is(1)
        BY <3>2, <3>3, ShiftedStep
      <3>5. QED
        BY <2>1, <3>4
    <2>2. CASE m > 0
      <3> DEFINE h == x \div 2
      <3>1. h \in 1 .. m /\ x = 2 * h + (x % 2) /\ (x % 2) \in {0, 1} /\ h \in Nat
        BY <2>2, Half
      <3>2. Is(h)
        BY <1>2, <3>1
      <3>3. x \in 1 .. n /\ x > 1
        BY <2>2
      <3>10. f[x] = 1 + f[h]
        BY <3>3 DEF Floors
      <3>11. odd[x] <=> (x % 2 = 1 \/ odd[h])
        BY <3>3, Zenon DEF Odds
      <3>4. Shifted(f[h]) \in Nat /\ Shifted(f[x]) = 2 * Shifted(f[h]) /\ f[x] \in Nat
        <4>1. f[x] = f[h] + 1 /\ f[h] \in Nat
          BY <3>2, <3>10
        <4>2. QED
          BY <4>1, ShiftedStep
      <3> DEFINE b == Shifted(f[h])
      <3>5. /\ b \in Nat /\ b <= h /\ h < 2 * b /\ (odd[h] <=> h # b)
            /\ Shifted(f[x]) = 2 * b
        BY <3>2, <3>4
      <3> HIDE DEF b, h
      <3>6. 2 * b <= x /\ x < 2 * (2 * b)
        BY <3>1, <3>5
      <3>7. odd[x] <=> x # 2 * b
        <4>1. CASE x % 2 = 1
          <5>1. x # 2 * b
            BY <3>1, <3>5, <4>1
          <5>2. QED
            BY <3>11, <4>1, <5>1
        <4>2. CASE x % 2 = 0
          <5>1. x # 2 * b <=> h # b
            BY <3>1, <3>5, <4>2
          <5>2. odd[x] <=> odd[h]
            BY <3>11, <4>2
          <5>3. QED
            BY <3>5, <5>1, <5>2
        <4>3. QED
          BY <3>1, <4>1, <4>2
      <3>8. Is(x)
        BY <3>4, <3>5, <3>6, <3>7
      <3> HIDE DEF Is
      <3>9. QED
        BY <1>2, <3>8
    <2>3. QED
      BY <2>1, <2>2
  <1> HIDE DEF P
  <1>3. 0 .. n \subseteq P
    BY <1>1, <1>2, Reach
  <1>4. n \in P
    BY <1>3
  <1>5. QED
    BY <1>4 DEF P

LEMMA Logarithm ==
    ASSUME NEW n \in Nat \ {0}
    PROVE  /\ FloorLog2(n) \in Nat
           /\ Shifted(FloorLog2(n)) <= n /\ n < 2 * Shifted(FloorLog2(n))
           /\ CeilLog2(n) = FloorLog2(n) + IF n # Shifted(FloorLog2(n)) THEN 1 ELSE 0
  <1> DEFINE f == CHOOSE f : f = [x \in 1 .. n |-> IF x > 1 THEN 1 + f[x \div 2] ELSE 0]
             odd == CHOOSE odd : odd = [x \in 1 .. n |-> x > 1 /\ (x % 2 = 1 \/ odd[x \div 2])]
  <1>1. FloorLog2(n) = f[n]
    BY DEF FloorLog2
  <1>2. CeilLog2(n) = FloorLog2(n) + IF odd[n] THEN 1 ELSE 0
    BY DEF CeilLog2
  <1>3. Floors(f, n)
    <2>1. PICK a : Floors(a, n)
      BY FloorsGoOn
    <2>2. QED
      BY <2>1, Zenon DEF Floors
  <1>4. Odds(odd, n)
    <2>1. PICK a : Odds(a, n)
      BY OddsGoOn
    <2>2. QED
      BY <2>1, Zenon DEF Odds
  <1> HIDE DEF f, odd
  <1>5. /\ f[n] \in Nat
        /\ Shifted(f[n]) <= n /\ n < 2 * Shifted(f[n])
        /\ odd[n] <=> n # Shifted(f[n])
    BY <1>3, <1>4, LogsAre
  <1>6. QED
    BY <1>1, <1>2, <1>5

-----------------------------------------------------------------------------
(* Sums over finite sets.                                                   *)

Picked(u) == CHOOSE x \in u : TRUE
Small(S, n) == {u \in SUBSET S : Cardinality(u) <= n}
SumOver(s, C, wt) == s = [u \in C |-> IF u = {} THEN 0 ELSE wt[Picked(u)] + s[u \ {Picked(u)}]]

LEMMA AnyIs ==
    ASSUME NEW S, IsFiniteSet(S), NEW u \in SUBSET S
    PROVE  /\ IsFiniteSet(u) /\ Cardinality(u) \in Nat
           /\ u # {} => /\ Picked(u) \in u /\ Cardinality(u) # 0
                        /\ IsFiniteSet(u \ {Picked(u)})
                        /\ Cardinality(u \ {Picked(u)}) = Cardinality(u) - 1
  <1>1. IsFiniteSet(u) /\ Cardinality(u) \in Nat
    BY FS_Subset, FS_CardinalityType
  <1>2. ASSUME u # {} PROVE Picked(u) \in u
    BY <1>2 DEF Picked
  <1>3. ASSUME u # {} PROVE Cardinality(u) # 0
    BY <1>1, <1>3, FS_EmptySet
  <1>4. QED
    BY <1>1, <1>2, <1>3, FS_RemoveElement

LEMMA SumGoesOn ==
    ASSUME NEW S, IsFiniteSet(S), NEW wt
    PROVE  \E s : SumOver(s, SUBSET S, wt)
  <1> DEFINE n == Cardinality(S)
             P == {m \in 0 .. n : \E s : SumOver(s, Small(S, m), wt)}
  <1>1. n \in Nat
    BY FS_CardinalityType
  <1>2. 0 \in P
    <2> DEFINE s == [u \in Small(S, 0) |-> 0]
    <2>1. ASSUME NEW u \in Small(S, 0) PROVE u = {}
      <3>1. u \in SUBSET S /\ Cardinality(u) <= 0
        BY DEF Small
      <3>2. Cardinality(u) \in Nat /\ (u # {} => Cardinality(u) # 0)
        BY <3>1, AnyIs
      <3>3. QED
        BY <3>1, <3>2
    <2>2. SumOver(s, Small(S, 0), wt)
      BY <2>1 DEF SumOver
    <2>3. QED
      BY <1>1, <2>2
  <1>3. ASSUME NEW m \in 0 .. n - 1, m \in P
        PROVE  m + 1 \in P
    <2>1. PICK s : SumOver(s, Small(S, m), wt)
      BY <1>3
    <2> DEFINE g == [u \in Small(S, m + 1) |->
                        IF u \in Small(S, m) THEN s[u]
                        ELSE IF u = {} THEN 0 ELSE wt[Picked(u)] + s[u \ {Picked(u)}]]
    <2>2. ASSUME NEW u \in Small(S, m + 1), u # {}
          PROVE  u \ {Picked(u)} \in Small(S, m) /\ u \ {Picked(u)} \in Small(S, m + 1)
      <3>1. u \in SUBSET S /\ Cardinality(u) <= m + 1
        BY DEF Small
      <3>2. Cardinality(u) \in Nat /\ Cardinality(u \ {Picked(u)}) = Cardinality(u) - 1
        BY <2>2, <3>1, AnyIs
      <3>3. Cardinality(u \ {Picked(u)}) <= m /\ Cardinality(u \ {Picked(u)}) <= m + 1
        BY <1>1, <3>1, <3>2
      <3>4. QED
        BY <3>1, <3>3 DEF Small
    <2>3. ASSUME NEW u \in Small(S, m + 1)
          PROVE  g[u] = IF u = {} THEN 0 ELSE wt[Picked(u)] + g[u \ {Picked(u)}]
      <3>1. CASE u = {}
        BY <2>1, <3>1 DEF SumOver
      <3>2. CASE u # {}
        <4>1. g[u \ {Picked(u)}] = s[u \ {Picked(u)}]
          BY <2>2, <3>2
        <4>2. g[u] = wt[Picked(u)] + s[u \ {Picked(u)}]
          BY <2>1, <3>2 DEF SumOver
        <4>3. QED
          BY <3>2, <4>1, <4>2
      <3>3. QED
        BY <3>1, <3>2
    <2>4. SumOver(g, Small(S, m + 1), wt)
      <3> DEFINE C == Small(S, m + 1)
      <3>1. g = [u \in C |-> g[u]]
        OBVIOUS
      <3> HIDE DEF g, C
      <3>2. QED
        BY <2>3, <3>1 DEF SumOver, C
    <2>5. QED
      BY <1>1, <2>4
  <1> HIDE DEF P
  <1>4. 0 .. n \subseteq P
    BY <1>1, <1>2, <1>3, Reach
  <1>5. PICK s : SumOver(s, Small(S, n), wt)
    BY <1>1, <1>4 DEF P
  <1>6. Small(S, n) = SUBSET S
    BY FS_Subset DEF Small
  <1>7. QED
    BY <1>5, <1>6

Joined(F, S) == UNION {F[x] : x \in S}

\* The sum of the sizes of disjoint sets is the size of their union.
LEMMA SumIs ==
    ASSUME NEW S, IsFiniteSet(S), NEW wt, NEW s, SumOver(s, SUBSET S, wt), NEW F,
           \A x \in S : IsFiniteSet(F[x]) /\ wt[x] = Cardinality(F[x]),
           \A x, y \in S : x # y => F[x] \cap F[y] = {}
    PROVE  IsFiniteSet(Joined(F, S)) /\ s[S] = Cardinality(Joined(F, S))
  <1> DEFINE n == Cardinality(S)
             U(u) == UNION {F[x] : x \in u}
             Is(u) == IsFiniteSet(U(u)) /\ s[u] = Cardinality(U(u))
             P == {m \in 0 .. n : \A u \in SUBSET S : Cardinality(u) = m => Is(u)}
  <1>1. n \in Nat
    BY FS_CardinalityType
  <1>2. 0 \in P
    <2>1. ASSUME NEW u \in SUBSET S, Cardinality(u) = 0
          PROVE  Is(u)
      <3>1. u = {}
        BY <2>1, AnyIs
      <3>2. U(u) = {} /\ s[u] = 0
        BY <3>1 DEF SumOver
      <3>3. QED
        BY <3>2, FS_EmptySet
    <2>2. QED
      BY <1>1, <2>1
  <1>3. ASSUME NEW m \in 0 .. n - 1, m \in P
        PROVE  m + 1 \in P
    <2>1. ASSUME NEW u \in SUBSET S, Cardinality(u) = m + 1
          PROVE  Is(u)
      <3> DEFINE a == Picked(u)
                 v == u \ {a}
      <3>0. m \in Nat
        BY <1>1
      <3>1. u # {}
        <4>1. Cardinality({}) = 0
          BY FS_EmptySet
        <4>2. m + 1 # 0
          BY <3>0
        <4>3. QED
          BY <2>1, <4>1, <4>2
      <3>2. a \in u /\ a \in S /\ Cardinality(v) = m /\ v \in SUBSET S
        <4>1. a \in u /\ Cardinality(v) = Cardinality(u) - 1
          BY <3>1, AnyIs
        <4>2. QED
          BY <2>1, <3>0, <4>1
      <3>3. IsFiniteSet(U(v)) /\ s[v] = Cardinality(U(v))
        BY <1>3, <3>2
      <3>4. s[u] = wt[a] + s[v]
        BY <3>1 DEF SumOver
      <3>5. U(u) = F[a] \cup U(v)
        BY <3>2
      <3>6. F[a] \cap U(v) = {}
        BY <3>2
      <3>7. IsFiniteSet(F[a]) /\ wt[a] = Cardinality(F[a])
        BY <3>2
      <3> HIDE DEF U, v, a
      <3>8. /\ IsFiniteSet(F[a] \cup U(v))
            /\ Cardinality(F[a] \cup U(v))
                 = Cardinality(F[a]) + Cardinality(U(v)) - Cardinality(F[a] \cap U(v))
        BY <3>3, <3>7, FS_Union
      <3>9. /\ Cardinality(F[a]) \in Nat /\ Cardinality(U(v)) \in Nat
            /\ Cardinality(F[a] \cap U(v)) = 0
        BY <3>3, <3>6, <3>7, FS_CardinalityType, FS_EmptySet
      <3>10. QED
        BY <3>3, <3>4, <3>5, <3>7, <3>8, <3>9
    <2>2. QED
      BY <1>1, <2>1
  <1> HIDE DEF P
  <1>4. 0 .. n \subseteq P
    BY <1>1, <1>2, <1>3, Reach
  <1>5. n \in P
    BY <1>1, <1>4
  <1>6. QED
    BY <1>5 DEF P, Joined

LEMMA TilesInIs ==
    ASSUME NEW g, NEW S, IsFiniteSet(S), NEW F,
           \A l \in S : /\ IsFiniteSet(F[l])
                        /\ Cardinality(F[l]) = CountX(g, l[1]) * CountY(g, l[2]),
           \A l, m \in S : l # m => F[l] \cap F[m] = {}
    PROVE  IsFiniteSet(Joined(F, S)) /\ TilesIn(g, S) = Cardinality(Joined(F, S))
  <1> DEFINE wt == [l \in S |-> CountX(g, l[1]) * CountY(g, l[2])]
             Sum(s) == s = [u \in SUBSET S |->
                              IF u = {} THEN 0
                              ELSE CountX(g, (CHOOSE x \in u : TRUE)[1])
                                       * CountY(g, (CHOOSE x \in u : TRUE)[2])
                                   + s[u \ {CHOOSE x \in u : TRUE}]]
             s == CHOOSE s : Sum(s)
  <1>1. ASSUME NEW u \in SUBSET S, u # {}
        PROVE  wt[Picked(u)] = CountX(g, (CHOOSE x \in u : TRUE)[1])
                              * CountY(g, (CHOOSE x \in u : TRUE)[2])
    <2>1. Picked(u) \in S
      BY <1>1 DEF Picked
    <2>2. wt[Picked(u)] = CountX(g, Picked(u)[1]) * CountY(g, Picked(u)[2])
      BY <2>1
    <2>3. QED
      BY <2>2 DEF Picked
  <1>2. ASSUME NEW a PROVE Sum(a) <=> SumOver(a, SUBSET S, wt)
    <2> DEFINE f == [u \in SUBSET S |->
                       IF u = {} THEN 0
                       ELSE CountX(g, (CHOOSE x \in u : TRUE)[1])
                                * CountY(g, (CHOOSE x \in u : TRUE)[2])
                            + a[u \ {CHOOSE x \in u : TRUE}]]
               h == [u \in SUBSET S |->
                       IF u = {} THEN 0 ELSE wt[Picked(u)] + a[u \ {Picked(u)}]]
    <2>1. ASSUME NEW u \in SUBSET S PROVE f[u] = h[u]
      <3>1. CASE u = {}
        BY <3>1
      <3>2. CASE u # {}
        <4>1. h[u] = wt[Picked(u)] + a[u \ {Picked(u)}]
          BY <3>2
        <4> HIDE DEF wt
        <4>2. QED
          BY <1>1, <3>2, <4>1 DEF Picked
      <3>3. QED
        BY <3>1, <3>2
    <2>2. f = h
      BY <2>1
    <2> HIDE DEF wt
    <2>3. QED
      BY <2>2, Zenon DEF SumOver
  <1>3. TilesIn(g, S) = s[S]
    BY Zenon DEF TilesIn, MapThenSumSet, MapThenFoldSet
  <1>4. \A l \in S : IsFiniteSet(F[l]) /\ wt[l] = Cardinality(F[l])
    OBVIOUS
  <1> HIDE DEF Sum, wt
  <1>5. SumOver(s, SUBSET S, wt)
    BY <1>2, SumGoesOn
  <1> HIDE DEF s
  <1>6. IsFiniteSet(Joined(F, S)) /\ s[S] = Cardinality(Joined(F, S))
    BY <1>4, <1>5, SumIs
  <1>7. QED
    BY <1>3, <1>6

-----------------------------------------------------------------------------
(* Levels.                                                                  *)

LEMMA Division ==
    ASSUME NEW a \in Nat, NEW b \in Size
    PROVE  a \div b \in Nat /\ (a \div b) * b <= a /\ a < (a \div b) * b + b
  BY DEF Size

LEMMA Monotone ==
    ASSUME NEW a \in Nat, NEW b \in Nat, NEW n \in Nat, a <= b
    PROVE  a * n \in Nat /\ b * n \in Nat /\ a * n <= b * n
  OBVIOUS

LEMMA LevelSizeIs ==
    ASSUME NEW size \in Size, NEW l \in Nat, NEW round \in Rounding
    PROVE  LevelSize(size, l, round) \in 1 .. size /\ LevelSize(size, 0, round) = size
  <1>1. ASSUME NEW b \in Size, NEW s, s = size \div b
        PROVE  /\ s \in Nat /\ s <= size /\ (s * b < size => s + 1 <= size)
               /\ b = 1 => s = size /\ ~(s * b < size)
    <2>1. s \in Nat /\ s * b <= size /\ size < s * b + b /\ size \in Nat /\ b \in Nat
      BY <1>1, Division DEF Size
    <2>2. s * 1 <= s * b
      BY <2>1 DEF Size
    <2>3. QED
      BY <2>1, <2>2
  <1> DEFINE Of(b) == LET s == size \div b
                      IN Larger(1, IF round = "up" /\ s * b < size THEN s + 1 ELSE s)
  <1>2. ASSUME NEW b \in Size PROVE Of(b) \in 1 .. size /\ (b = 1 => Of(b) = size)
    <2> DEFINE s == size \div b
    <2>1. /\ s \in Nat /\ s <= size /\ (s * b < size => s + 1 <= size)
          /\ b = 1 => s = size /\ ~(s * b < size)
      BY <1>1
    <2>2. size \in Nat /\ size >= 1
      BY DEF Size
    <2> HIDE DEF s
    <2> DEFINE r == IF round = "up" /\ s * b < size THEN s + 1 ELSE s
    <2>3. r \in Nat /\ r <= size /\ (b = 1 => r = size)
      BY <2>1, <2>2
    <2> HIDE DEF r
    <2>4. Larger(1, r) \in 1 .. size /\ (b = 1 => Larger(1, r) = size)
      BY <2>2, <2>3 DEF Larger
    <2>5. QED
      BY <2>4 DEF r, s
  <1>3. Shifted(l) \in Size /\ Shifted(0) = 1 /\ 1 \in Size
    BY ShiftedStep DEF Size
  <1>4. LevelSize(size, l, round) = Of(Shifted(l)) /\ LevelSize(size, 0, round) = Of(Shifted(0))
    BY DEF LevelSize
  <1> HIDE DEF Of
  <1>5. QED
    BY <1>2, <1>3, <1>4

\* The last level is a single pixel.
LEMMA LastLevel ==
    ASSUME NEW m \in Size, NEW size \in 1 .. m, NEW round \in Rounding
    PROVE  RoundLog2(m, round) \in Nat /\ LevelSize(size, RoundLog2(m, round), round) = 1
  <1> DEFINE f == FloorLog2(m)
             L == RoundLog2(m, round)
             b == Shifted(L)
             s == size \div b
  <1>1. /\ m \in Nat /\ size \in Nat /\ size >= 1 /\ size <= m
        /\ f \in Nat /\ Shifted(f) <= m /\ m < 2 * Shifted(f)
        /\ CeilLog2(m) = f + IF m # Shifted(f) THEN 1 ELSE 0
    BY Logarithm DEF Size
  <1>2. Shifted(f) \in Nat \ {0} /\ Shifted(f + 1) = 2 * Shifted(f)
    BY <1>1, ShiftedStep
  <1>3. L = f \/ (L = f + 1 /\ round = "up")
    BY <1>1 DEF RoundLog2, Rounding
  <1>4. L \in Nat
    BY <1>1, <1>3
  <1>5. b \in Nat \ {0} /\ (round = "up" => m <= b) /\ m < 2 * b
    <2> HIDE DEF f
    <2>1. CASE round = "down"
      <3>1. L = f
        BY <2>1 DEF RoundLog2, f
      <3>2. QED
        BY <1>1, <1>2, <2>1, <3>1
    <2>2. CASE round = "up"
      <3>1. CASE m = Shifted(f)
        <4>1. L = f
          BY <1>1, <2>2, <3>1 DEF RoundLog2
        <4>2. QED
          BY <1>1, <1>2, <3>1, <4>1
      <3>2. CASE m # Shifted(f)
        <4>1. L = f + 1
          BY <1>1, <2>2, <3>2 DEF RoundLog2
        <4>2. QED
          BY <1>1, <1>2, <4>1
      <3>3. QED
        BY <3>1, <3>2
    <2>3. QED
      BY <2>1, <2>2 DEF Rounding
  <1> HIDE DEF f, L
  <1>6. s \in Nat /\ s * b <= size /\ size < s * b + b
    BY <1>1, <1>5, Division DEF Size
  <1>7. LevelSize(size, L, round)
          = Larger(1, IF round = "up" /\ s * b < size THEN s + 1 ELSE s)
    BY DEF LevelSize
  <1> HIDE DEF b, s
  <1>8. s <= 1
    <2> SUFFICES ASSUME s >= 2 PROVE FALSE
      BY <1>6
    <2>1. 2 * b <= s * b
      BY <1>5, <1>6, Monotone
    <2>2. s * b \in Nat
      BY <1>5, <1>6, Monotone
    <2>3. QED
      BY <1>1, <1>5, <1>6, <2>1, <2>2
  <1>9. s = 0 \/ (s = 1 /\ s * b = b)
    BY <1>5, <1>6, <1>8
  <1>10. ASSUME round = "up", s * b < size PROVE s = 0
    BY <1>1, <1>5, <1>9, <1>10
  <1>11. LevelSize(size, L, round) = 1
    BY <1>6, <1>7, <1>9, <1>10 DEF Larger
  <1>12. QED
    BY <1>4, <1>11 DEF L

LEMMA CountIs ==
    ASSUME NEW level \in Size, NEW tile \in Size, NEW n, n = (level + tile - 1) \div tile
    PROVE  n \in Size /\ (n - 1) * tile < level /\ level <= n * tile
  <1>1. level + tile - 1 \in Nat /\ level \in Nat /\ tile \in Nat /\ level >= 1 /\ tile >= 1
    BY DEF Size
  <1>2. n \in Nat /\ n * tile <= level + tile - 1 /\ level + tile - 1 < n * tile + tile
    BY <1>1, Division
  <1>3. n * tile \in Nat /\ (n - 1) * tile = n * tile - tile
    BY <1>1, <1>2
  <1>4. n # 0
    <2> SUFFICES ASSUME n = 0 PROVE FALSE
      OBVIOUS
    <2>1. n * tile = 0
      BY <1>1
    <2>2. QED
      BY <1>1, <1>2, <2>1
  <1>5. QED
    BY <1>1, <1>2, <1>3, <1>4 DEF Size

\* What there is to know of the levels of a geometry.
LEMMA LevelsAre ==
    ASSUME NEW g, IsGeometry(g)
    PROVE  /\ XLevels(g) \in Size /\ YLevels(g) \in Size /\ IsFiniteSet(LevelsOf(g))
           /\ \A l \in LevelsOf(g) :
                 /\ l[1] \in 0 .. XLevels(g) - 1 /\ l[2] \in 0 .. YLevels(g) - 1
                 /\ l = <<l[1], l[2]>> /\ (g.mode # "rip" => l[1] = l[2])
                 /\ l[1] \in Nat /\ l[2] \in Nat
           /\ \A i \in Nat : /\ Width(g, i) \in 1 .. g.w /\ Height(g, i) \in 1 .. g.h
                             /\ Width(g, i) \in Size /\ Height(g, i) \in Size
                             /\ CountX(g, i) \in Size /\ CountY(g, i) \in Size
           /\ Width(g, 0) = g.w /\ Height(g, 0) = g.h
           /\ g.mode # "one" => Width(g, XLevels(g) - 1) = 1 /\ Height(g, YLevels(g) - 1) = 1
  <1>1. /\ g.w \in Size /\ g.h \in Size /\ g.tw \in Size /\ g.th \in Size
        /\ g.mode \in Mode /\ g.round \in Rounding
    BY DEF IsGeometry
  <1>2. /\ Larger(g.w, g.h) \in Size
        /\ g.w \in 1 .. Larger(g.w, g.h) /\ g.h \in 1 .. Larger(g.w, g.h)
        /\ g.w \in 1 .. g.w /\ g.h \in 1 .. g.h
    BY <1>1 DEF Larger, Size
  <1>3. ASSUME NEW m \in Size
        PROVE  RoundLog2(m, g.round) \in Nat /\ (RoundLog2(m, g.round) + 1) \in Size
               /\ (RoundLog2(m, g.round) + 1) - 1 = RoundLog2(m, g.round)
    <2>1. 1 \in 1 .. m
      BY DEF Size
    <2>2. RoundLog2(m, g.round) \in Nat
      BY <1>1, <2>1, LastLevel
    <2>3. QED
      BY <2>2 DEF Size
  <1>4. ASSUME NEW size \in Size PROVE Levels(g, size) \in Size
    <2>1. CASE g.mode = "one"
      BY <2>1 DEF Levels, Size
    <2>2. CASE g.mode = "mip"
      BY <1>2, <1>3, <2>2 DEF Levels
    <2>3. CASE g.mode = "rip"
      BY <1>3, <2>3 DEF Levels
    <2>4. QED
      BY <1>1, <2>1, <2>2, <2>3 DEF Mode
  <1>5. XLevels(g) \in Size /\ YLevels(g) \in Size
    BY <1>1, <1>4 DEF XLevels, YLevels
  <1>6. IsFiniteSet(LevelsOf(g))
    <2> DEFINE A == 0 .. XLevels(g) - 1
               B == 0 .. YLevels(g) - 1
    <2>4. XLevels(g) - 1 \in Int /\ YLevels(g) - 1 \in Int /\ 0 \in Int
      BY <1>5 DEF Size
    <2>1. IsFiniteSet(A) /\ IsFiniteSet(B)
      BY <2>4, FS_Interval
    <2> HIDE DEF A, B
    <2>2. IsFiniteSet(A \X B)
      BY <2>1, FS_Product
    <2>3. LevelsOf(g) \in SUBSET (A \X B)
      BY DEF LevelsOf, A, B
    <2>5. QED
      BY <2>2, <2>3, FS_Subset
  <1>7. ASSUME NEW l \in LevelsOf(g)
        PROVE  /\ l[1] \in 0 .. XLevels(g) - 1 /\ l[2] \in 0 .. YLevels(g) - 1
               /\ l = <<l[1], l[2]>> /\ (g.mode # "rip" => l[1] = l[2])
               /\ l[1] \in Nat /\ l[2] \in Nat
    BY <1>5 DEF LevelsOf, Size
  <1>8. ASSUME NEW i \in Nat
        PROVE  /\ Width(g, i) \in 1 .. g.w /\ Height(g, i) \in 1 .. g.h
               /\ Width(g, i) \in Size /\ Height(g, i) \in Size
               /\ CountX(g, i) \in Size /\ CountY(g, i) \in Size
    <2>1. Width(g, i) \in 1 .. g.w /\ Height(g, i) \in 1 .. g.h
      BY <1>1, LevelSizeIs DEF Width, Height
    <2>2. Width(g, i) \in Size /\ Height(g, i) \in Size
      BY <1>1, <2>1 DEF Size
    <2>3. CountX(g, i) \in Size /\ CountY(g, i) \in Size
      BY <1>1, <2>2, CountIs DEF CountX, CountY
    <2>4. QED
      BY <2>1, <2>2, <2>3
  <1>9. Width(g, 0) = g.w /\ Height(g, 0) = g.h
    BY <1>1, LevelSizeIs DEF Width, Height
  <1>10. ASSUME g.mode # "one"
         PROVE  Width(g, XLevels(g) - 1) = 1 /\ Height(g, YLevels(g) - 1) = 1
    <2>1. CASE g.mode = "mip"
      <3> DEFINE m == Larger(g.w, g.h)
      <3>1. XLevels(g) - 1 = RoundLog2(m, g.round) /\ YLevels(g) - 1 = RoundLog2(m, g.round)
        BY <1>2, <1>3, <2>1 DEF XLevels, YLevels, Levels
      <3> HIDE DEF m
      <3>2. QED
        BY <1>1, <1>2, <3>1, LastLevel DEF Width, Height, m
    <2>2. CASE g.mode = "rip"
      <3>1. XLevels(g) - 1 = RoundLog2(g.w, g.round) /\ YLevels(g) - 1 = RoundLog2(g.h, g.round)
        BY <1>1, <1>3, <2>2 DEF XLevels, YLevels, Levels
      <3>2. QED
        BY <1>1, <1>2, <3>1, LastLevel DEF Width, Height
    <2>3. QED
      BY <1>1, <1>10, <2>1, <2>2 DEF Mode
  <1>11. QED
    BY <1>5, <1>6, <1>7, <1>8, <1>9, <1>10

-----------------------------------------------------------------------------
(* Tiles and their indices.                                                 *)

\* The tiles of level l in columns X and rows Y.
Rect(l, X, Y) == {[x |-> x, y |-> y, lx |-> l[1], ly |-> l[2]] : x \in X, y \in Y}
Box(g, l) == Rect(l, 0 .. CountX(g, l[1]) - 1, 0 .. CountY(g, l[2]) - 1)

LEMMA RectIs ==
    ASSUME NEW l, NEW X, NEW Y, IsFiniteSet(X), IsFiniteSet(Y)
    PROVE  /\ IsFiniteSet(Rect(l, X, Y))
           /\ Cardinality(Rect(l, X, Y)) = Cardinality(X) * Cardinality(Y)
  <1> DEFINE R == Rect(l, X, Y)
             f == [p \in X \X Y |-> [x |-> p[1], y |-> p[2], lx |-> l[1], ly |-> l[2]]]
  <1>1. f \in [X \X Y -> R]
    BY DEF Rect
  <1>2. ASSUME NEW p \in X \X Y, NEW q \in X \X Y, f[p] = f[q] PROVE p = q
    <2>1. f[p].x = p[1] /\ f[p].y = p[2] /\ f[q].x = q[1] /\ f[q].y = q[2]
      OBVIOUS
    <2>2. p = <<p[1], p[2]>> /\ q = <<q[1], q[2]>>
      OBVIOUS
    <2>3. QED
      BY <1>2, <2>1, <2>2
  <1>3. ASSUME NEW t \in R PROVE \E p \in X \X Y : f[p] = t
    <2>1. PICK x \in X, y \in Y : t = [x |-> x, y |-> y, lx |-> l[1], ly |-> l[2]]
      BY DEF Rect
    <2>2. f[<<x, y>>] = t
      BY <2>1
    <2>3. QED
      BY <2>2
  <1> HIDE DEF R, f
  <1>4. f \in Bijection(X \X Y, R)
    BY <1>1, <1>2, <1>3 DEF Bijection, Injection, Surjection, IsInjective
  <1>5. ExistsBijection(X \X Y, R)
    BY <1>4 DEF ExistsBijection
  <1>6. IsFiniteSet(X \X Y) /\ Cardinality(X \X Y) = Cardinality(X) * Cardinality(Y)
    BY FS_Product
  <1>7. QED
    BY <1>5, <1>6, FS_Bijection DEF R

LEMMA BoxIs ==
    ASSUME NEW g, IsGeometry(g), NEW l \in LevelsOf(g)
    PROVE  /\ IsFiniteSet(Box(g, l))
           /\ Cardinality(Box(g, l)) = CountX(g, l[1]) * CountY(g, l[2])
           /\ Box(g, l) = {t \in Tile(g) : <<t.lx, t.ly>> = l}
  <1> DEFINE m == CountX(g, l[1])
             n == CountY(g, l[2])
  <1>1. m \in Size /\ n \in Size /\ l = <<l[1], l[2]>>
    BY LevelsAre
  <1>2. Box(g, l) = {t \in Tile(g) : <<t.lx, t.ly>> = l}
    <2>1. ASSUME NEW t \in Box(g, l) PROVE t \in Tile(g) /\ <<t.lx, t.ly>> = l
      BY <1>1 DEF Box, Rect, Tile
    <2>2. ASSUME NEW t \in Tile(g), <<t.lx, t.ly>> = l PROVE t \in Box(g, l)
      <3>1. PICK k \in LevelsOf(g) :
               \E x \in 0 .. CountX(g, k[1]) - 1, y \in 0 .. CountY(g, k[2]) - 1 :
                  t = [x |-> x, y |-> y, lx |-> k[1], ly |-> k[2]]
        BY DEF Tile
      <3>2. k = <<k[1], k[2]>> /\ t.lx = k[1] /\ t.ly = k[2]
        BY <3>1, LevelsAre
      <3>3. k = l
        BY <2>2, <3>2
      <3>4. QED
        BY <3>1, <3>3 DEF Box, Rect
    <2>3. QED
      BY <2>1, <2>2
  <1> HIDE DEF m, n
  <1>3. m - 1 \in Int /\ n - 1 \in Int /\ 0 \in Int /\ ~(0 > m - 1) /\ ~(0 > n - 1)
    BY <1>1 DEF Size
  <1>4. /\ IsFiniteSet(0 .. m - 1) /\ Cardinality(0 .. m - 1) = (m - 1) - 0 + 1
        /\ IsFiniteSet(0 .. n - 1) /\ Cardinality(0 .. n - 1) = (n - 1) - 0 + 1
    BY <1>3, FS_Interval
  <1>5. Cardinality(0 .. m - 1) = m /\ Cardinality(0 .. n - 1) = n
    BY <1>1, <1>4 DEF Size
  <1>6. Box(g, l) = Rect(l, 0 .. m - 1, 0 .. n - 1)
    BY DEF Box, m, n
  <1>7. IsFiniteSet(Box(g, l)) /\ Cardinality(Box(g, l)) = m * n
    BY <1>4, <1>5, <1>6, RectIs
  <1>8. QED
    BY <1>2, <1>7 DEF m, n

LEMMA TileIs ==
    ASSUME NEW g, IsGeometry(g), NEW t \in Tile(g)
    PROVE  LET l == <<t.lx, t.ly>> IN
           /\ l \in LevelsOf(g) /\ l[1] = t.lx /\ l[2] = t.ly /\ t \in Box(g, l)
           /\ t = [x |-> t.x, y |-> t.y, lx |-> t.lx, ly |-> t.ly]
           /\ t.x \in 0 .. CountX(g, t.lx) - 1 /\ t.y \in 0 .. CountY(g, t.ly) - 1
           /\ t.lx \in 0 .. XLevels(g) - 1 /\ t.ly \in 0 .. YLevels(g) - 1
           /\ t.lx \in Nat /\ t.ly \in Nat /\ (g.mode # "rip" => t.lx = t.ly)
  <1>1. PICK k \in LevelsOf(g) :
           \E x \in 0 .. CountX(g, k[1]) - 1, y \in 0 .. CountY(g, k[2]) - 1 :
              t = [x |-> x, y |-> y, lx |-> k[1], ly |-> k[2]]
    BY DEF Tile
  <1>2. /\ t.lx = k[1] /\ t.ly = k[2]
        /\ t.x \in 0 .. CountX(g, t.lx) - 1 /\ t.y \in 0 .. CountY(g, t.ly) - 1
        /\ t = [x |-> t.x, y |-> t.y, lx |-> t.lx, ly |-> t.ly]
    BY <1>1
  <1>3. /\ k = <<t.lx, t.ly>> /\ k[1] \in 0 .. XLevels(g) - 1 /\ k[2] \in 0 .. YLevels(g) - 1
        /\ (g.mode # "rip" => k[1] = k[2]) /\ k[1] \in Nat /\ k[2] \in Nat
    BY <1>2, LevelsAre
  <1>4. t \in Box(g, k)
    BY <1>2, <1>3, BoxIs
  <1>5. QED
    BY <1>2, <1>3, <1>4

\* Tiles of different levels are different, whichever tiles they are.
LEMMA TilesOfLevels ==
    ASSUME NEW g, IsGeometry(g), NEW S \in SUBSET LevelsOf(g)
    PROVE  LET U == {t \in Tile(g) : <<t.lx, t.ly>> \in S} IN
           IsFiniteSet(U) /\ TilesIn(g, S) = Cardinality(U)
  <1> DEFINE F == [l \in S |-> Box(g, l)]
             U == {t \in Tile(g) : <<t.lx, t.ly>> \in S}
  <1>1. IsFiniteSet(S)
    BY LevelsAre, FS_Subset
  <1>2. \A l \in S : /\ IsFiniteSet(F[l])
                     /\ Cardinality(F[l]) = CountX(g, l[1]) * CountY(g, l[2])
    BY BoxIs
  <1>3. \A l, m \in S : l # m => F[l] \cap F[m] = {}
    BY BoxIs
  <1>4. Joined(F, S) = U
    <2>1. ASSUME NEW t \in Joined(F, S) PROVE t \in U
      BY BoxIs DEF Joined
    <2>2. ASSUME NEW t \in U PROVE t \in Joined(F, S)
      BY TileIs DEF Joined
    <2>3. QED
      BY <2>1, <2>2
  <1> HIDE DEF F, U
  <1>5. IsFiniteSet(Joined(F, S)) /\ TilesIn(g, S) = Cardinality(Joined(F, S))
    BY <1>1, <1>2, <1>3, TilesInIs
  <1>6. QED
    BY <1>4, <1>5 DEF U

LEMMA Lexicographic ==
    ASSUME NEW n \in Size, NEW i \in Nat, NEW j \in Nat, NEW a \in 0 .. n - 1, NEW b \in 0 .. n - 1
    PROVE  /\ i * n + a < j * n + b <=> i < j \/ (i = j /\ a < b)
           /\ i * n + a = j * n + b <=> i = j /\ a = b
  <1>1. n \in Nat /\ a \in Nat /\ b \in Nat /\ a < n /\ b < n /\ i * n \in Nat /\ j * n \in Nat
    BY DEF Size
  <1>2. ASSUME NEW p \in Nat, NEW q \in Nat, p < q PROVE p * n + n <= q * n
    <2>1. p + 1 \in Nat /\ p + 1 <= q /\ (p + 1) * n = p * n + n
      BY <1>1, <1>2
    <2>2. (p + 1) * n <= q * n
      BY <1>1, <2>1, Monotone
    <2>3. QED
      BY <2>1, <2>2
  <1>3. CASE i < j
    BY <1>1, <1>2, <1>3
  <1>4. CASE j < i
    BY <1>1, <1>2, <1>4
  <1>5. CASE i = j
    BY <1>1, <1>5
  <1>6. QED
    BY <1>3, <1>4, <1>5

\* The order in which levels are written is that in which they are counted.
LEMMA LevelOrder ==
    ASSUME NEW g, IsGeometry(g), NEW u \in Tile(g), NEW t \in Tile(g)
    PROVE  LET l(v) == IF g.mode = "rip" THEN v.ly * XLevels(g) + v.lx ELSE v.lx IN
           /\ l(u) < l(t) <=> u.ly < t.ly \/ (u.ly = t.ly /\ u.lx < t.lx)
           /\ l(u) = l(t) <=> <<u.lx, u.ly>> = <<t.lx, t.ly>>
  <1>1. /\ u.lx \in 0 .. XLevels(g) - 1 /\ u.ly \in Nat /\ u.lx \in Nat
        /\ t.lx \in 0 .. XLevels(g) - 1 /\ t.ly \in Nat /\ t.lx \in Nat
        /\ g.mode # "rip" => u.lx = u.ly /\ t.lx = t.ly
        /\ XLevels(g) \in Size
    BY TileIs, LevelsAre
  <1>2. CASE g.mode = "rip"
    <2>1. /\ u.ly * XLevels(g) + u.lx < t.ly * XLevels(g) + t.lx
                <=> u.ly < t.ly \/ (u.ly = t.ly /\ u.lx < t.lx)
          /\ u.ly * XLevels(g) + u.lx = t.ly * XLevels(g) + t.lx
                <=> u.ly = t.ly /\ u.lx = t.lx
      BY <1>1, Lexicographic
    <2>2. QED
      BY <1>2, <2>1
  <1>3. CASE g.mode # "rip"
    BY <1>1, <1>3
  <1>4. QED
    BY <1>2, <1>3

LEMMA IndexIsSlot ==
    ASSUME NEW g, IsGeometry(g), NEW t \in Tile(g)
    PROVE  ChunkIndex(g, t) = Slot(g, t)
  <1> DEFINE l == <<t.lx, t.ly>>
             m == CountX(g, t.lx)
             n == CountY(g, t.ly)
             S == {k \in LevelsOf(g) : k[2] < t.ly \/ (k[2] = t.ly /\ k[1] < t.lx)}
             A == {u \in Tile(g) : <<u.lx, u.ly>> \in S}
             B == Rect(l, 0 .. m - 1, 0 .. t.y - 1)
             C == Rect(l, 0 .. t.x - 1, {t.y})
             Before == {u \in Tile(g) :
                          \/ u.ly < t.ly \/ (u.ly = t.ly /\ u.lx < t.lx)
                          \/ <<u.lx, u.ly>> = l /\ u.y < t.y
                          \/ <<u.lx, u.ly>> = l /\ u.y = t.y /\ u.x < t.x}
  <1>1. /\ m \in Size /\ n \in Size /\ t.x \in 0 .. m - 1 /\ t.y \in 0 .. n - 1
        /\ t.lx \in Nat /\ t.ly \in Nat /\ l \in LevelsOf(g) /\ l[1] = t.lx /\ l[2] = t.ly
    BY TileIs, LevelsAre
  <1>2. t.x \in Nat /\ t.y \in Nat /\ m \in Nat /\ n \in Nat /\ t.x < m /\ t.y < n
    BY <1>1 DEF Size
  <1>3. Slot(g, t) = Cardinality(Before)
    <2> DEFINE o(v) == IF g.mode = "rip" THEN v.ly * XLevels(g) + v.lx ELSE v.lx
               D == {u \in Tile(g) : \/ o(u) < o(t)
                                     \/ o(u) = o(t) /\ u.y < t.y
                                     \/ o(u) = o(t) /\ u.y = t.y /\ u.x < t.x}
    <2>1. Slot(g, t) = Cardinality(D)
      BY DEF Slot
    <2>2. ASSUME NEW u \in Tile(g)
          PROVE  /\ o(u) < o(t) <=> u.ly < t.ly \/ (u.ly = t.ly /\ u.lx < t.lx)
                 /\ o(u) = o(t) <=> <<u.lx, u.ly>> = l
      BY LevelOrder
    <2> HIDE DEF o
    <2>3. D = Before
      BY <2>2
    <2>4. QED
      BY <2>1, <2>3
  <1>4. IsFiniteSet(A) /\ TilesIn(g, S) = Cardinality(A)
    BY TilesOfLevels
  <1>5. /\ IsFiniteSet(0 .. m - 1) /\ Cardinality(0 .. m - 1) = m
        /\ IsFiniteSet(0 .. t.y - 1) /\ Cardinality(0 .. t.y - 1) = t.y
        /\ IsFiniteSet(0 .. t.x - 1) /\ Cardinality(0 .. t.x - 1) = t.x
        /\ IsFiniteSet({t.y}) /\ Cardinality({t.y}) = 1
    <2>1. ASSUME NEW k \in Nat PROVE IsFiniteSet(0 .. k - 1) /\ Cardinality(0 .. k - 1) = k
      <3>1. k - 1 \in Int /\ 0 \in Int
        OBVIOUS
      <3>2. /\ IsFiniteSet(0 .. k - 1)
            /\ Cardinality(0 .. k - 1) = IF 0 > k - 1 THEN 0 ELSE (k - 1) - 0 + 1
        BY <3>1, FS_Interval
      <3>3. QED
        BY <3>2
    <2>2. QED
      BY <1>2, <2>1, FS_Singleton
  <1>6. IsFiniteSet(B) /\ Cardinality(B) = m * t.y /\ IsFiniteSet(C) /\ Cardinality(C) = t.x * 1
    BY <1>5, RectIs
  <1>7. A \cap B = {} /\ (A \cup B) \cap C = {}
    <2>1. ASSUME NEW u \in B \cup C PROVE <<u.lx, u.ly>> = l /\ u \notin A
      <3>1. u.lx = t.lx /\ u.ly = t.ly
        BY <1>1 DEF Rect
      <3>2. QED
        BY <1>1, <3>1
    <2>2. ASSUME NEW u \in B, u \in C PROVE FALSE
      BY <1>2, <2>2 DEF Rect
    <2>3. QED
      BY <2>1, <2>2
  <1>8. Before = (A \cup B) \cup C
    <2>1. ASSUME NEW u \in Before PROVE u \in (A \cup B) \cup C
      <3>1. /\ u = [x |-> u.x, y |-> u.y, lx |-> u.lx, ly |-> u.ly] /\ <<u.lx, u.ly>> \in LevelsOf(g)
            /\ u.x \in 0 .. CountX(g, u.lx) - 1 /\ u.y \in 0 .. CountY(g, u.ly) - 1
            /\ u.lx \in Nat /\ u.ly \in Nat
        BY TileIs
      <3>2. CASE u.ly < t.ly \/ (u.ly = t.ly /\ u.lx < t.lx)
        BY <3>1, <3>2
      <3>3. CASE <<u.lx, u.ly>> = l /\ u.y < t.y
        <4>1. u.lx = l[1] /\ u.ly = l[2] /\ u.x \in 0 .. m - 1 /\ u.y \in 0 .. t.y - 1
          BY <1>1, <1>2, <3>1, <3>3
        <4>2. QED
          BY <3>1, <4>1 DEF Rect
      <3>4. CASE <<u.lx, u.ly>> = l /\ u.y = t.y /\ u.x < t.x
        <4>1. u.lx = l[1] /\ u.ly = l[2] /\ u.x \in 0 .. t.x - 1 /\ u.y \in {t.y}
          BY <1>1, <1>2, <3>1, <3>4
        <4>2. QED
          BY <3>1, <4>1 DEF Rect
      <3>5. QED
        BY <3>2, <3>3, <3>4
    <2>2. ASSUME NEW u \in A PROVE u \in Before
      BY TileIs
    <2>3. ASSUME NEW u \in B PROVE u \in Before
      <3>1. /\ u.lx = l[1] /\ u.ly = l[2] /\ u.y \in 0 .. t.y - 1 /\ u.x \in 0 .. m - 1
            /\ u = [x |-> u.x, y |-> u.y, lx |-> l[1], ly |-> l[2]]
        BY DEF Rect
      <3>2. u.y \in 0 .. n - 1 /\ u.y < t.y
        BY <1>1, <1>2, <3>1
      <3>3. u \in Tile(g)
        BY <1>1, <3>1, <3>2 DEF Tile
      <3>4. QED
        BY <1>1, <3>1, <3>2, <3>3
    <2>4. ASSUME NEW u \in C PROVE u \in Before
      <3>1. /\ u.lx = l[1] /\ u.ly = l[2] /\ u.y = t.y /\ u.x \in 0 .. t.x - 1
            /\ u = [x |-> u.x, y |-> u.y, lx |-> l[1], ly |-> l[2]]
        BY DEF Rect
      <3>2. u.x \in 0 .. m - 1 /\ u.x < t.x
        BY <1>1, <1>2, <3>1
      <3>3. u \in Tile(g)
        BY <1>1, <3>1, <3>2 DEF Tile
      <3>4. QED
        BY <1>1, <3>1, <3>2, <3>3
    <2> HIDE DEF A, B, C, Before
    <2>5. QED
      BY <2>1, <2>2, <2>3, <2>4
  <1> HIDE DEF A, B, C, Before
  <1>9. Cardinality(Before) = Cardinality(A) + Cardinality(B) + Cardinality(C)
    <2>1. /\ IsFiniteSet(A \cup B)
          /\ Cardinality(A \cup B) = Cardinality(A) + Cardinality(B) - Cardinality(A \cap B)
      BY <1>4, <1>6, FS_Union
    <2>2. Cardinality((A \cup B) \cup C)
             = Cardinality(A \cup B) + Cardinality(C) - Cardinality((A \cup B) \cap C)
      BY <1>6, <2>1, FS_Union
    <2>3. Cardinality(A) \in Nat /\ Cardinality(B) \in Nat /\ Cardinality(C) \in Nat
      BY <1>4, <1>6, FS_CardinalityType
    <2>4. Cardinality(A \cap B) = 0 /\ Cardinality((A \cup B) \cap C) = 0
      BY <1>7, FS_EmptySet
    <2>5. QED
      BY <1>8, <2>1, <2>2, <2>3, <2>4
  <1>10. ChunkIndex(g, t) = TilesIn(g, S) + t.y * m + t.x
    BY DEF ChunkIndex
  <1>11. Cardinality(A) \in Nat /\ m * t.y = t.y * m /\ t.x * 1 = t.x /\ t.y * m \in Nat
    BY <1>2, <1>4, FS_CardinalityType
  <1> HIDE DEF S, m, n, l
  <1>12. QED
    BY <1>2, <1>3, <1>4, <1>6, <1>9, <1>10, <1>11

LEMMA IndexAgree ==
    ASSUME NEW g, IsGeometry(g)
    PROVE  IndexAgrees(g)
  <1>1. {t \in Tile(g) : <<t.lx, t.ly>> \in LevelsOf(g)} = Tile(g)
    BY TileIs
  <1>2. ChunkCount(g) = Cardinality(Tile(g))
    BY <1>1, TilesOfLevels DEF ChunkCount
  <1>3. QED
    BY <1>2, IndexIsSlot DEF IndexAgrees

-----------------------------------------------------------------------------
(* The size of tiles.                                                       *)

\* The columns, or rows, of tile k in a level.
Span(tile, k, level) == k * tile .. Smaller(k * tile + tile, level) - 1

LEMMA SpanIs ==
    ASSUME NEW level \in Size, NEW tile \in Size, NEW n, n = (level + tile - 1) \div tile,
           NEW k \in 0 .. n - 1
    PROVE  /\ k * tile < level /\ k * tile \in Nat /\ k \in Nat
           /\ k # n - 1 => k * tile + tile < level
           /\ IsFiniteSet(Span(tile, k, level))
           /\ Cardinality(Span(tile, k, level)) = ReadExtent(tile, k, level)
           /\ ReadExtent(tile, k, level)
                = IF k * tile + tile > level THEN level - k * tile ELSE tile
  <1>1. /\ n \in Nat /\ level \in Nat /\ level >= 1 /\ tile \in Nat /\ tile >= 1 /\ k \in Nat
        /\ k <= n - 1 /\ (n - 1) * tile < level /\ n - 1 \in Nat
    BY CountIs DEF Size
  <1>2. k * tile \in Nat /\ k * tile < level
    BY <1>1, Monotone
  <1>3. ASSUME k # n - 1 PROVE k * tile + tile < level
    <2>1. k + 1 \in Nat /\ k + 1 <= n - 1 /\ (k + 1) * tile = k * tile + tile
      BY <1>1, <1>3
    <2>2. (k + 1) * tile <= (n - 1) * tile
      BY <1>1, <2>1, Monotone
    <2>3. QED
      BY <1>1, <1>2, <2>1, <2>2
  <1> DEFINE a == k * tile
             e == Smaller(a + tile, level)
  <1>4. ReadExtent(tile, k, level) = IF a + tile > level THEN level - a ELSE tile
    <2>1. tile * (k + 1) = a + tile
      BY <1>1
    <2> DEFINE over == tile * (k + 1) - level
    <2>2. over = (a + tile) - level
      BY <2>1
    <2>3. ReadExtent(tile, k, level) = IF over > 0 /\ over < tile THEN tile - over ELSE tile
      BY DEF ReadExtent
    <2> HIDE DEF over, a
    <2>4. a \in Nat /\ a < level
      BY <1>2 DEF a
    <2>5. QED
      BY <1>1, <2>2, <2>3, <2>4
  <1> HIDE DEF a
  <1>5. a \in Nat /\ a < level /\ e \in Nat /\ a < e
        /\ e - a = IF a + tile > level THEN level - a ELSE tile
    BY <1>1, <1>2 DEF Smaller, a
  <1> HIDE DEF e
  <1>10. a \in Int /\ e - 1 \in Int
    BY <1>5
  <1>6. /\ IsFiniteSet(a .. e - 1)
        /\ Cardinality(a .. e - 1) = IF a > e - 1 THEN 0 ELSE (e - 1) - a + 1
    BY <1>10, FS_Interval
  <1>7. Cardinality(a .. e - 1) = e - a
    BY <1>5, <1>6
  <1>8. Span(tile, k, level) = a .. e - 1
    BY DEF Span, a, e
  <1>9. QED
    BY <1>1, <1>2, <1>3, <1>4, <1>5, <1>6, <1>7, <1>8 DEF a

LEMMA SpansCover ==
    ASSUME NEW level \in Size, NEW tile \in Size, NEW n, n = (level + tile - 1) \div tile
    PROVE  /\ \A p \in 0 .. level - 1 : \E k \in 0 .. n - 1 : p \in Span(tile, k, level)
           /\ \A k \in 0 .. n - 1 : \A p \in Span(tile, k, level) : p \in 0 .. level - 1
           /\ \A j, k \in 0 .. n - 1 : j # k =>
                 Span(tile, j, level) \cap Span(tile, k, level) = {}
  <1>1. /\ n \in Nat /\ level \in Nat /\ level >= 1 /\ tile \in Nat /\ tile >= 1
        /\ level <= n * tile
    BY CountIs DEF Size
  <1>2. ASSUME NEW p \in 0 .. level - 1
        PROVE  \E k \in 0 .. n - 1 : p \in Span(tile, k, level)
    <2> DEFINE k == p \div tile
    <2>1. p \in Nat /\ p < level
      BY <1>1
    <2>2. k \in Nat /\ k * tile <= p /\ p < k * tile + tile
      BY <2>1, Division
    <2> HIDE DEF k
    <2>3. k < n
      <3> SUFFICES ASSUME n <= k PROVE FALSE
        BY <1>1, <2>2
      <3>1. n * tile <= k * tile /\ n * tile \in Nat /\ k * tile \in Nat
        BY <1>1, <2>2, Monotone
      <3>2. QED
        BY <1>1, <2>1, <2>2, <3>1
    <2>4. k \in 0 .. n - 1
      BY <1>1, <2>2, <2>3
    <2>5. k * tile \in Nat
      BY <1>1, <2>2, Monotone
    <2>6. p \in Span(tile, k, level)
      BY <1>1, <2>1, <2>2, <2>5 DEF Span, Smaller
    <2>7. QED
      BY <2>4, <2>6
  <1>3. ASSUME NEW k \in 0 .. n - 1, NEW p \in Span(tile, k, level) PROVE p \in 0 .. level - 1
    <2>1. k * tile \in Nat
      BY SpanIs
    <2>2. QED
      BY <1>1, <2>1 DEF Span, Smaller
  <1>4. ASSUME NEW j \in 0 .. n - 1, NEW k \in 0 .. n - 1, j < k,
               NEW p \in Span(tile, j, level), p \in Span(tile, k, level)
        PROVE  FALSE
    <2>1. j * tile \in Nat /\ k * tile \in Nat /\ j \in Nat /\ k \in Nat
      BY SpanIs
    <2>2. p < j * tile + tile
      BY <1>1, <2>1 DEF Span, Smaller
    <2>3. k * tile <= p
      BY <1>1, <1>4, <2>1 DEF Span, Smaller
    <2>4. j + 1 \in Nat /\ j + 1 <= k /\ (j + 1) * tile = j * tile + tile
      BY <1>1, <1>4, <2>1
    <2>5. (j + 1) * tile <= k * tile
      BY <1>1, <2>1, <2>4, Monotone
    <2>6. p \in Int
      BY <2>1 DEF Span
    <2>7. QED
      BY <1>1, <2>1, <2>2, <2>3, <2>4, <2>5, <2>6
  <1>5. ASSUME NEW j \in 0 .. n - 1, NEW k \in 0 .. n - 1, j # k
        PROVE  Span(tile, j, level) \cap Span(tile, k, level) = {}
    <2>1. j < k \/ k < j
      BY <1>1, <1>5
    <2>2. QED
      BY <1>4, <2>1
  <1>6. QED
    BY <1>2, <1>3, <1>5

LEMMA AreaIs ==
    ASSUME NEW g, NEW S, IsFiniteSet(S), NEW F,
           \A t \in S : /\ IsFiniteSet(F[t])
                        /\ Cardinality(F[t]) = ReadWidth(g, t) * ReadHeight(g, t),
           \A t, u \in S : t # u => F[t] \cap F[u] = {}
    PROVE  MapThenSumSet(LAMBDA t : ReadWidth(g, t) * ReadHeight(g, t), S)
             = Cardinality(Joined(F, S))
  <1> DEFINE wt == [t \in S |-> ReadWidth(g, t) * ReadHeight(g, t)]
             Sum(s) == s = [u \in SUBSET S |->
                              IF u = {} THEN 0
                              ELSE ReadWidth(g, CHOOSE x \in u : TRUE)
                                       * ReadHeight(g, CHOOSE x \in u : TRUE)
                                   + s[u \ {CHOOSE x \in u : TRUE}]]
             s == CHOOSE s : Sum(s)
  <1>1. ASSUME NEW u \in SUBSET S, u # {}
        PROVE  wt[Picked(u)] = ReadWidth(g, CHOOSE x \in u : TRUE)
                              * ReadHeight(g, CHOOSE x \in u : TRUE)
    <2>1. Picked(u) \in S
      BY <1>1 DEF Picked
    <2>2. wt[Picked(u)] = ReadWidth(g, Picked(u)) * ReadHeight(g, Picked(u))
      BY <2>1
    <2>3. QED
      BY <2>2 DEF Picked
  <1>2. ASSUME NEW a PROVE Sum(a) <=> SumOver(a, SUBSET S, wt)
    <2> DEFINE f == [u \in SUBSET S |->
                       IF u = {} THEN 0
                       ELSE ReadWidth(g, CHOOSE x \in u : TRUE)
                                * ReadHeight(g, CHOOSE x \in u : TRUE)
                            + a[u \ {CHOOSE x \in u : TRUE}]]
               h == [u \in SUBSET S |->
                       IF u = {} THEN 0 ELSE wt[Picked(u)] + a[u \ {Picked(u)}]]
    <2>1. ASSUME NEW u \in SUBSET S PROVE f[u] = h[u]
      <3>1. CASE u = {}
        BY <3>1
      <3>2. CASE u # {}
        <4>1. h[u] = wt[Picked(u)] + a[u \ {Picked(u)}]
          BY <3>2
        <4> HIDE DEF wt
        <4>2. QED
          BY <1>1, <3>2, <4>1 DEF Picked
      <3>3. QED
        BY <3>1, <3>2
    <2>2. f = h
      BY <2>1
    <2> HIDE DEF wt
    <2>3. QED
      BY <2>2, Zenon DEF SumOver
  <1>3. MapThenSumSet(LAMBDA t : ReadWidth(g, t) * ReadHeight(g, t), S) = s[S]
    BY Zenon DEF MapThenSumSet, MapThenFoldSet
  <1>4. \A t \in S : IsFiniteSet(F[t]) /\ wt[t] = Cardinality(F[t])
    OBVIOUS
  <1> HIDE DEF Sum, wt
  <1>5. SumOver(s, SUBSET S, wt)
    BY <1>2, SumGoesOn
  <1> HIDE DEF s
  <1>6. s[S] = Cardinality(Joined(F, S))
    BY <1>4, <1>5, SumIs
  <1>7. QED
    BY <1>3, <1>6

LEMMA WindowIs ==
    ASSUME NEW g, IsGeometry(g), NEW t \in Tile(g)
    PROVE  /\ TileWindow(g, t) = Span(g.tw, t.x, Width(g, t.lx)) \X Span(g.th, t.y, Height(g, t.ly))
           /\ IsFiniteSet(TileWindow(g, t))
           /\ Cardinality(TileWindow(g, t)) = ReadWidth(g, t) * ReadHeight(g, t)
  <1>1. /\ t.x \in 0 .. CountX(g, t.lx) - 1 /\ t.y \in 0 .. CountY(g, t.ly) - 1
        /\ t.lx \in Nat /\ t.ly \in Nat
    BY TileIs
  <1>2. Width(g, t.lx) \in Size /\ Height(g, t.ly) \in Size /\ g.tw \in Size /\ g.th \in Size
    BY <1>1, LevelsAre DEF IsGeometry
  <1> DEFINE X == Span(g.tw, t.x, Width(g, t.lx))
             Y == Span(g.th, t.y, Height(g, t.ly))
  <1>3. IsFiniteSet(X) /\ Cardinality(X) = ReadWidth(g, t)
    BY <1>1, <1>2, SpanIs DEF CountX, ReadWidth
  <1>4. IsFiniteSet(Y) /\ Cardinality(Y) = ReadHeight(g, t)
    BY <1>1, <1>2, SpanIs DEF CountY, ReadHeight
  <1>5. TileWindow(g, t) = X \X Y
    BY DEF TileWindow, Span
  <1> HIDE DEF X, Y
  <1>6. IsFiniteSet(X \X Y) /\ Cardinality(X \X Y) = Cardinality(X) * Cardinality(Y)
    BY <1>3, <1>4, FS_Product
  <1>7. QED
    BY <1>3, <1>4, <1>5, <1>6 DEF X, Y

LEMMA LevelCovered ==
    ASSUME NEW g, IsGeometry(g), NEW l \in LevelsOf(g)
    PROVE  LET tiles == Box(g, l)
               pixels == (0 .. Width(g, l[1]) - 1) \X (0 .. Height(g, l[2]) - 1)
           IN /\ UNION {TileWindow(g, t) : t \in tiles} = pixels
              /\ MapThenSumSet(LAMBDA t : ReadWidth(g, t) * ReadHeight(g, t), tiles)
                     = Cardinality(pixels)
  <1> DEFINE tiles == Box(g, l)
             w == Width(g, l[1])
             h == Height(g, l[2])
             m == CountX(g, l[1])
             n == CountY(g, l[2])
             pixels == (0 .. w - 1) \X (0 .. h - 1)
             X(i) == Span(g.tw, i, w)
             Y(j) == Span(g.th, j, h)
             F == [t \in tiles |-> TileWindow(g, t)]
  <1>1. /\ w \in Size /\ h \in Size /\ g.tw \in Size /\ g.th \in Size
        /\ l = <<l[1], l[2]>>
    BY LevelsAre DEF IsGeometry
  <1>2. ASSUME NEW t \in tiles
        PROVE  /\ t \in Tile(g) /\ t.lx = l[1] /\ t.ly = l[2]
               /\ t.x \in 0 .. m - 1 /\ t.y \in 0 .. n - 1
               /\ t = [x |-> t.x, y |-> t.y, lx |-> l[1], ly |-> l[2]]
               /\ TileWindow(g, t) = X(t.x) \X Y(t.y)
    <2>1. t \in Tile(g) /\ <<t.lx, t.ly>> = l
      BY BoxIs
    <2>2. t.lx = l[1] /\ t.ly = l[2]
      BY <1>1, <2>1
    <2>3. QED
      BY <2>1, <2>2, TileIs, WindowIs
  <1>3. /\ \A p \in 0 .. w - 1 : \E i \in 0 .. m - 1 : p \in X(i)
        /\ \A i \in 0 .. m - 1 : \A p \in X(i) : p \in 0 .. w - 1
        /\ \A i, j \in 0 .. m - 1 : i # j => X(i) \cap X(j) = {}
    BY <1>1, SpansCover DEF CountX
  <1>4. /\ \A p \in 0 .. h - 1 : \E i \in 0 .. n - 1 : p \in Y(i)
        /\ \A i \in 0 .. n - 1 : \A p \in Y(i) : p \in 0 .. h - 1
        /\ \A i, j \in 0 .. n - 1 : i # j => Y(i) \cap Y(j) = {}
    BY <1>1, SpansCover DEF CountY
  <1>5. ASSUME NEW i \in 0 .. m - 1, NEW j \in 0 .. n - 1
        PROVE  \E t \in tiles : t.x = i /\ t.y = j
    <2> DEFINE t == [x |-> i, y |-> j, lx |-> l[1], ly |-> l[2]]
    <2>1. t \in tiles
      BY DEF Box, Rect
    <2>2. t.x = i /\ t.y = j
      OBVIOUS
    <2> HIDE DEF t, tiles
    <2>3. QED
      BY <2>1, <2>2
  <1>6. IsFiniteSet(tiles)
    BY BoxIs
  <1> HIDE DEF tiles, w, h, m, n, X, Y
  <1>7. Joined(F, tiles) = pixels
    <2>1. ASSUME NEW p \in pixels PROVE p \in Joined(F, tiles)
      <3>1. PICK i \in 0 .. m - 1 : p[1] \in X(i)
        BY <1>3
      <3>2. PICK j \in 0 .. n - 1 : p[2] \in Y(j)
        BY <1>4
      <3>3. PICK t \in tiles : t.x = i /\ t.y = j
        BY <1>5
      <3>4. p \in F[t]
        BY <1>2, <3>1, <3>2, <3>3
      <3>5. QED
        BY <3>4 DEF Joined
    <2>2. ASSUME NEW p \in Joined(F, tiles) PROVE p \in pixels
      <3>1. PICK t \in tiles : p \in F[t]
        BY DEF Joined
      <3>2. QED
        BY <1>2, <1>3, <1>4, <3>1
    <2>3. QED
      BY <2>1, <2>2
  <1>8. \A t \in tiles : /\ IsFiniteSet(F[t])
                         /\ Cardinality(F[t]) = ReadWidth(g, t) * ReadHeight(g, t)
    BY <1>2, WindowIs
  <1>9. ASSUME NEW t \in tiles, NEW u \in tiles, t # u PROVE F[t] \cap F[u] = {}
    <2>1. t.x # u.x \/ t.y # u.y
      BY <1>2, <1>9
    <2>2. F[t] = X(t.x) \X Y(t.y) /\ F[u] = X(u.x) \X Y(u.y)
      BY <1>2
    <2>3. X(t.x) \cap X(u.x) = {} \/ Y(t.y) \cap Y(u.y) = {}
      BY <1>2, <1>3, <1>4, <2>1
    <2>4. QED
      BY <2>2, <2>3
  <1>10. UNION {TileWindow(g, t) : t \in tiles} = Joined(F, tiles)
    BY DEF Joined
  <1> HIDE DEF F, pixels
  <1>11. MapThenSumSet(LAMBDA t : ReadWidth(g, t) * ReadHeight(g, t), tiles)
           = Cardinality(Joined(F, tiles))
    BY <1>6, <1>8, <1>9, AreaIs
  <1>12. QED
    BY <1>7, <1>10, <1>11 DEF tiles, pixels, w, h

LEMMA CoverAgree ==
    ASSUME NEW g, IsGeometry(g)
    PROVE  TilesCover(g)
  <1>1. ASSUME NEW l \in LevelsOf(g)
        PROVE  LET tiles == {t \in Tile(g) : <<t.lx, t.ly>> = l}
                   pixels == (0 .. Width(g, l[1]) - 1) \X (0 .. Height(g, l[2]) - 1)
               IN /\ UNION {TileWindow(g, t) : t \in tiles} = pixels
                  /\ MapThenSumSet(LAMBDA t : ReadWidth(g, t) * ReadHeight(g, t), tiles)
                         = Cardinality(pixels)
                  /\ \A t \in tiles :
                         Cardinality(TileWindow(g, t)) = ReadWidth(g, t) * ReadHeight(g, t)
    <2>1. Box(g, l) = {t \in Tile(g) : <<t.lx, t.ly>> = l}
      BY BoxIs
    <2>2. \A t \in Tile(g) : Cardinality(TileWindow(g, t)) = ReadWidth(g, t) * ReadHeight(g, t)
      BY WindowIs
    <2>3. QED
      BY <2>1, <2>2, LevelCovered
  <1>2. g.mode # "one" => Width(g, XLevels(g) - 1) = 1 /\ Height(g, YLevels(g) - 1) = 1
    BY LevelsAre
  <1>3. QED
    BY <1>1, <1>2 DEF TilesCover

\* A writer's edge is that of the data window: it is right where the level is the
\* window, and where the tile is not the last of several.
LEMMA ExtentsAgree ==
    ASSUME NEW whole \in Size, NEW level \in 1 .. whole, NEW tile \in Size,
           NEW n, n = (level + tile - 1) \div tile, NEW k \in 0 .. n - 1,
           level = whole \/ k = 0 \/ k # n - 1
    PROVE  WriteExtent(tile, k, level, whole) = ReadExtent(tile, k, level)
  <1>1. /\ level \in Size /\ level \in Nat /\ level >= 1 /\ tile \in Nat /\ tile >= 1
        /\ whole \in Nat /\ level <= whole
    BY DEF Size
  <1>2. /\ k * tile < level /\ k * tile \in Nat /\ k \in Nat
        /\ k # n - 1 => k * tile + tile < level
        /\ ReadExtent(tile, k, level)
             = IF k * tile + tile > level THEN level - k * tile ELSE tile
    BY <1>1, SpanIs
  <1>3. CASE k = 0
    <2>1. 0 * tile = 0 /\ 0 * Smaller(level, tile) = 0
      BY <1>1 DEF Smaller
    <2>2. ReadExtent(tile, 0, level) = Smaller(level, tile)
      BY <1>1, <1>2, <1>3, <2>1 DEF Smaller
    <2>3. Smaller(level, tile) \in Nat /\ Smaller(level, tile) <= whole
      BY <1>1 DEF Smaller
    <2> DEFINE s == Smaller(level, tile)
    <2>4. WriteExtent(tile, 0, level, whole)
            = IF 0 * s + s - 1 > whole - 1 THEN whole - 0 * s ELSE s
      BY DEF WriteExtent
    <2> HIDE DEF s
    <2>5. WriteExtent(tile, 0, level, whole) = s
      BY <1>1, <2>1, <2>3, <2>4 DEF s
    <2>6. QED
      BY <1>3, <2>2, <2>5 DEF s
  <1>4. CASE k # 0
    <2>1. tile <= k * tile
      <3>1. 1 \in Nat /\ 1 <= k /\ 1 * tile = tile
        BY <1>1, <1>2, <1>4
      <3>2. QED
        BY <1>1, <1>2, <3>1, Monotone
    <2>2. Smaller(level, tile) = tile
      BY <1>1, <1>2, <2>1 DEF Smaller
    <2>3. WriteExtent(tile, k, level, whole)
            = IF k * tile + tile - 1 > whole - 1 THEN whole - k * tile ELSE tile
      BY <2>2 DEF WriteExtent
    <2>4. QED
      BY <1>1, <1>2, <1>4, <2>3
  <1>5. QED
    BY <1>3, <1>4

LEMMA WritersAgree ==
    ASSUME NEW g, IsGeometry(g)
    PROVE  WriteAgrees(g)
  <1> SUFFICES ASSUME NEW t \in Tile(g)
               PROVE  /\ WriteWidth(g, t) = ReadWidth(g, t)
                           \/ (t.lx > 0 /\ t.x > 0 /\ t.x = CountX(g, t.lx) - 1)
                      /\ WriteHeight(g, t) = ReadHeight(g, t)
                           \/ (t.ly > 0 /\ t.y > 0 /\ t.y = CountY(g, t.ly) - 1)
    BY DEF WriteAgrees
  <1>1. /\ t.x \in 0 .. CountX(g, t.lx) - 1 /\ t.y \in 0 .. CountY(g, t.ly) - 1
        /\ t.lx \in Nat /\ t.ly \in Nat
    BY TileIs
  <1>2. /\ Width(g, t.lx) \in 1 .. g.w /\ Height(g, t.ly) \in 1 .. g.h
        /\ g.w \in Size /\ g.h \in Size /\ g.tw \in Size /\ g.th \in Size
        /\ Width(g, 0) = g.w /\ Height(g, 0) = g.h
    BY <1>1, LevelsAre DEF IsGeometry
  <1>3. ASSUME ~(t.lx > 0 /\ t.x > 0 /\ t.x = CountX(g, t.lx) - 1)
        PROVE  WriteWidth(g, t) = ReadWidth(g, t)
    <2>1. t.lx = 0 \/ t.x = 0 \/ t.x # CountX(g, t.lx) - 1
      BY <1>1, <1>3
    <2>2. Width(g, t.lx) = g.w \/ t.x = 0 \/ t.x # CountX(g, t.lx) - 1
      BY <1>2, <2>1
    <2>3. QED
      BY <1>1, <1>2, <2>2, ExtentsAgree DEF WriteWidth, ReadWidth, CountX
  <1>4. ASSUME ~(t.ly > 0 /\ t.y > 0 /\ t.y = CountY(g, t.ly) - 1)
        PROVE  WriteHeight(g, t) = ReadHeight(g, t)
    <2>1. t.ly = 0 \/ t.y = 0 \/ t.y # CountY(g, t.ly) - 1
      BY <1>1, <1>4
    <2>2. Height(g, t.ly) = g.h \/ t.y = 0 \/ t.y # CountY(g, t.ly) - 1
      BY <1>2, <2>1
    <2>3. QED
      BY <1>1, <1>2, <2>2, ExtentsAgree DEF WriteHeight, ReadHeight, CountY
  <1>5. QED
    BY <1>3, <1>4

\* There is a tile, so that a part has a chunk.
LEMMA SomeChunk ==
    ASSUME NEW g, IsGeometry(g)
    PROVE  ChunkCount(g) \in Nat \ {0}
  <1> DEFINE t == [x |-> 0, y |-> 0, lx |-> 0, ly |-> 0]
             S == LevelsOf(g)
             U == {u \in Tile(g) : <<u.lx, u.ly>> \in S}
  <1>1. IsFiniteSet(U) /\ TilesIn(g, S) = Cardinality(U)
    BY TilesOfLevels
  <1>2. <<0, 0>> \in S
    <2>1. 0 \in 0 .. XLevels(g) - 1 /\ 0 \in 0 .. YLevels(g) - 1
      BY LevelsAre DEF Size
    <2>2. QED
      BY <2>1 DEF LevelsOf
  <1>3. t \in U
    <2>1. CountX(g, 0) \in Size /\ CountY(g, 0) \in Size
      BY LevelsAre
    <2>2. 0 \in 0 .. CountX(g, 0) - 1 /\ 0 \in 0 .. CountY(g, 0) - 1
      BY <2>1 DEF Size
    <2>3. t \in Tile(g)
      BY <1>2, <2>2 DEF Tile
    <2>4. QED
      BY <1>2, <2>3
  <1> HIDE DEF U, S, t
  <1>4. Cardinality(U) \in Nat /\ Cardinality(U) # 0
    BY <1>1, <1>3, FS_CardinalityType, FS_EmptySet
  <1>5. QED
    BY <1>1, <1>4 DEF ChunkCount, S

(***************************************************************************)
(* For every geometry that the checks of a header let pass: the index that *)
(* the core computes of a tile is the place of its entry in the table that *)
(* the C++ library writes, the tiles of each level cover it, each pixel    *)
(* once, and writer and reader of a tile expect the same of it, but for    *)
(* the edges that WriteAgrees excepts.                                     *)
(***************************************************************************)
THEOREM LayoutsAgree ==
    ASSUME NEW g, IsGeometry(g)
    PROVE  IndexAgrees(g) /\ TilesCover(g) /\ WriteAgrees(g)
  BY IndexAgree, CoverAgree, WritersAgree

-----------------------------------------------------------------------------
(* Writing.                                                                 *)

Op == {"none", "get", "validate", "set", "header", "chunk"}
At == {"idle", "wait", "in", "set", "again", "fail", "failed"}
CallRecord == [op : Op, at : At, part : 1 .. NumParts + 1]

\* Where a call may be.
Placed(t) ==
    /\ call[t].at = "idle" => call[t].op = "none"
    /\ call[t].at \in {"set", "again", "fail", "failed"} => call[t].op = "header"
    /\ call[t].at = "wait" /\ call[t].op = "header" => call[t].part = 1
    /\ call[t].at = "set" => call[t].part \in Parts

\* The mutex is held by the one call at work; only a call that kept it leaves it
\* held by none.
Mutex ==
    "stray" \notin mishap =>
        /\ \A t \in Thread : Holds(t) => locked
        /\ \A t, u \in Thread : Holds(t) /\ Holds(u) => t = u
        /\ "leak" \notin mishap /\ locked => \E t \in Thread : Holds(t)

\* The parts that a call of exr_write_header has counted.
Counted(t) ==
    call[t].op = "header" =>
        \A p \in Parts :
            p < call[t].part \/ (p = call[t].part /\ call[t].at = "set") => counts[p] = window[p]

\* Nothing was changed behind the back of exr_write_header.
Undisturbed == mishap \cap {"stray", "overlap"} = {}

\* Once the header is written no other call of exr_write_header is half-way.
Headers ==
    Undisturbed =>
        /\ \A t \in Thread : Counted(t)
        /\ mode = "writing" => \A t \in Thread : call[t].op = "header" =>
               call[t].at \in {"wait", "in"} /\ call[t].part = 1
        /\ mode # "writing" => last = -1 /\ filed = 0

LockInv ==
    /\ LockTypeOK
    /\ \A t \in Thread : Placed(t)
    /\ Mutex /\ Headers /\ HeaderFits

LEMMA PartsAre == Parts \subseteq 1 .. NumParts /\ 1 \in Parts /\ Parts \in {1 .. NumParts, {1}}
  BY PartsAssumption DEF Parts, Part

LEMMA LockInitInv == LockInit => LockInv
  <1> SUFFICES ASSUME LockInit PROVE LockInv
    OBVIOUS
  <1> USE DEF LockInit
  <1>1. call \in [Thread -> CallRecord]
    BY PartsAssumption DEF CallRecord, Op, At, Idle
  <1>2. last \in -1 .. MaxChunks - 1 /\ filed \in 0 .. MaxChunks
    BY LockAssumption
  <1>3. counts \in [Parts -> 0 .. MaxChunks]
    BY LockAssumption
  <1>4. locked \in BOOLEAN /\ mishap \subseteq {"leak", "stray", "overlap"}
    OBVIOUS
  <1>5. LockTypeOK
    BY <1>1, <1>2, <1>3, <1>4 DEF LockTypeOK, CallRecord, Op, At
  <1>6. \A t \in Thread : call[t].at = "idle" /\ call[t].op = "none"
    BY DEF Idle
  <1>7. (\A t \in Thread : Placed(t)) /\ Mutex /\ Headers /\ HeaderFits
    BY <1>6 DEF Placed, Mutex, Holds, Headers, Counted, HeaderFits
  <1>8. QED
    BY <1>5, <1>7 DEF LockInv

-----------------------------------------------------------------------------
(* A step changes the call of one thread.                                   *)

OthersWait(t) == \A u \in Thread \ {t} : call'[u] = call[u]

LEMMA Returned ==
    ASSUME LockInv, NEW t \in Thread, Returns(t)
    PROVE  /\ call' \in [Thread -> CallRecord] /\ OthersWait(t)
           /\ call'[t].op = "none" /\ call'[t].at = "idle" /\ call'[t].part = 1
  <1>1. Idle \in CallRecord
    BY PartsAssumption DEF CallRecord, Op, At, Idle
  <1>2. QED
    BY <1>1 DEF Returns, LockInv, LockTypeOK, CallRecord, Op, At, OthersWait, Idle

\* A call that holds the mutex gives it back and returns.
LEMMA ReleaseKeepsMutex ==
    ASSUME LockInv, NEW t \in Thread, Holds(t), Returns(t), locked' = FALSE, UNCHANGED multi,
           mishap \subseteq mishap'
    PROVE  Mutex' /\ \A u \in Thread : Placed(u)'
  <1>1. /\ call' \in [Thread -> CallRecord] /\ OthersWait(t)
        /\ call'[t].op = "none" /\ call'[t].at = "idle" /\ call'[t].part = 1
    BY Returned
  <1>2. Mutex'
    BY <1>1 DEF LockInv, Mutex, Holds, OthersWait
  <1>3. ASSUME NEW u \in Thread PROVE Placed(u)'
    BY <1>1 DEF LockInv, Placed, OthersWait, Parts
  <1>4. QED
    BY <1>2, <1>3

\* What exr_write_header has counted stays counted when a call returns.
LEMMA ReturnKeepsHeaders ==
    ASSUME LockInv, NEW t \in Thread, Returns(t),
           UNCHANGED <<mode, multi, attrVars, last, filed>>, mishap \subseteq mishap',
           Undisturbed => header' = header
    PROVE  Headers' /\ HeaderFits'
  <1> USE DEF attrVars
  <1>1. /\ OthersWait(t)
        /\ call'[t].op = "none" /\ call'[t].at = "idle" /\ call'[t].part = 1
    BY Returned
  <1>2. Undisturbed' => Undisturbed
    BY DEF Undisturbed
  <1>3. ASSUME Undisturbed', NEW u \in Thread PROVE Counted(u)'
    BY <1>1, <1>2, <1>3 DEF LockInv, Headers, Counted, OthersWait, Parts
  <1>4. Headers'
    BY <1>1, <1>2, <1>3 DEF LockInv, Headers, OthersWait
  <1>5. HeaderFits'
    BY <1>2 DEF LockInv, HeaderFits, Undisturbed
  <1>6. QED
    BY <1>4, <1>5

-----------------------------------------------------------------------------
(* A call begins, and takes the mutex.                                      *)

LEMMA BeginsKeepsInv ==
    ASSUME LockInv, NEW t \in Thread, NEW op \in Op, NEW p \in Parts, Begins(t, op, p),
           op = "header" => p = 1
    PROVE  LockInv'
  <1> DEFINE rec == [op |-> op, at |-> "wait", part |-> p]
  <1>1. rec \in CallRecord /\ rec.op = op /\ rec.at = "wait" /\ rec.part = p
    BY PartsAre, PartsAssumption DEF CallRecord, At
  <1>2. call' = [call EXCEPT ![t] = rec] /\ call[t].at = "idle"
    BY Zenon DEF Begins
  <1>3. call \in [Thread -> CallRecord]
    BY DEF LockInv, LockTypeOK, CallRecord, Op, At
  <1> HIDE DEF rec
  <1>4. /\ call' \in [Thread -> CallRecord] /\ OthersWait(t)
        /\ call'[t].op = op /\ call'[t].at = "wait" /\ call'[t].part = p
    BY <1>1, <1>2, <1>3 DEF OthersWait
  <1>5. UNCHANGED <<mode, multi, locked, window, counts, header, last, filed, mishap>>
    BY DEF Begins, attrVars, outVars
  <1>6. LockTypeOK'
    BY <1>4, <1>5 DEF LockInv, LockTypeOK, CallRecord, Op, At, Parts
  <1>7. ASSUME NEW u \in Thread PROVE Placed(u)'
    BY <1>4, <1>5 DEF LockInv, Placed, OthersWait, Parts
  <1>8. Mutex'
    BY <1>2, <1>4, <1>5 DEF LockInv, Mutex, Holds, OthersWait
  <1>9. Undisturbed' = Undisturbed
    BY <1>5 DEF Undisturbed
  <1>10. ASSUME Undisturbed', NEW u \in Thread PROVE Counted(u)'
    <2>1. CASE u = t
      BY <1>4, <1>5, <2>1, PartsAre DEF Counted, Parts
    <2>2. CASE u # t
      BY <1>4, <1>5, <1>9, <1>10, <2>2 DEF LockInv, Headers, Counted, OthersWait, Parts
    <2>3. QED
      BY <2>1, <2>2
  <1>11. Headers'
    BY <1>4, <1>5, <1>9, <1>10 DEF LockInv, Headers, OthersWait
  <1>12. HeaderFits'
    BY <1>5 DEF LockInv, HeaderFits
  <1>13. QED
    BY <1>6, <1>7, <1>8, <1>11, <1>12 DEF LockInv

LEMMA GetFileNameKeepsInv ==
    ASSUME LockInv, NEW t \in Thread, GetFileName(t) PROVE LockInv'
  <1>1. /\ UNCHANGED <<mode, multi, call, window, counts, header, last, filed>>
        /\ locked' = FALSE /\ mishap' = mishap \cup (IF locked THEN {"stray"} ELSE {})
    BY DEF GetFileName, attrVars, outVars
  <1>2. mishap' \subseteq {"leak", "stray", "overlap"}
    BY <1>1 DEF LockInv, LockTypeOK
  <1>3. LockTypeOK'
    BY <1>1, <1>2 DEF LockInv, LockTypeOK, Parts
  <1>4. \A u \in Thread : Placed(u)'
    BY <1>1 DEF LockInv, Placed, Parts
  <1>5. Mutex'
    BY <1>1 DEF LockInv, Mutex, Holds
  <1>6. Undisturbed' => Undisturbed
    BY <1>1 DEF Undisturbed
  <1>7. Headers' /\ HeaderFits'
    BY <1>1, <1>6 DEF LockInv, Headers, HeaderFits, Counted, Parts, Undisturbed
  <1>8. QED
    BY <1>3, <1>4, <1>5, <1>7 DEF LockInv

LEMMA BeginKeepsInv ==
    ASSUME LockInv, NEW t \in Thread, Begin(t) PROVE LockInv'
  <1>1. CASE GetFileName(t)
    BY <1>1, GetFileNameKeepsInv
  <1>2. CASE Query(t)
    BY <1>2, BeginsKeepsInv, PartsAre DEF Query, Op
  <1>3. CASE Change(t)
    BY <1>3, BeginsKeepsInv, PartsAre DEF Change, Op
  <1>4. QED
    BY <1>1, <1>2, <1>3 DEF Begin

LEMMA LockKeepsInv ==
    ASSUME LockInv, NEW t \in Thread, Lock(t) PROVE LockInv'
  <1> DEFINE at == IF call[t].at = "fail" THEN "failed" ELSE "in"
             rec == [call[t] EXCEPT !.at = at]
  <1>1. call \in [Thread -> CallRecord]
    BY DEF LockInv, LockTypeOK, CallRecord, Op, At
  <1>2. /\ rec \in CallRecord
        /\ rec.op = call[t].op /\ rec.at = at /\ rec.part = call[t].part
    BY <1>1 DEF CallRecord, At
  <1>3. call' = [call EXCEPT ![t] = rec]
    BY Zenon DEF Lock
  <1> HIDE DEF rec
  <1>4. /\ call' \in [Thread -> CallRecord] /\ OthersWait(t)
        /\ call'[t].op = call[t].op /\ call'[t].at = at /\ call'[t].part = call[t].part
    BY <1>1, <1>2, <1>3 DEF OthersWait
  <1>5. /\ UNCHANGED <<mode, multi, window, counts, header, last, filed, mishap>>
        /\ ~locked /\ locked' = TRUE /\ call[t].at \in {"wait", "again", "fail"}
    BY DEF Lock, attrVars, outVars
  <1>6. LockTypeOK'
    BY <1>4, <1>5 DEF LockInv, LockTypeOK, CallRecord, Op, At, Parts
  <1>7. ASSUME NEW u \in Thread PROVE Placed(u)'
    BY <1>4, <1>5 DEF LockInv, Placed, OthersWait, Parts
  <1>8. Mutex'
    BY <1>4, <1>5 DEF LockInv, Mutex, Holds, OthersWait
  <1>9. Undisturbed' = Undisturbed
    BY <1>5 DEF Undisturbed
  <1>10. ASSUME Undisturbed', NEW u \in Thread PROVE Counted(u)'
    BY <1>4, <1>5, <1>9, <1>10 DEF LockInv, Headers, Counted, OthersWait, Parts
  <1>11. Headers'
    BY <1>4, <1>5, <1>9, <1>10 DEF LockInv, Headers, Placed, OthersWait
  <1>12. HeaderFits'
    BY <1>5 DEF LockInv, HeaderFits
  <1>13. QED
    BY <1>6, <1>7, <1>8, <1>11, <1>12 DEF LockInv

-----------------------------------------------------------------------------
(* What a call does while it holds the mutex.                               *)

\* A getter, exr_validate_chunk_table, and a header that fails.
LEMMA ReturnKeepsInv ==
    ASSUME LockInv, NEW t \in Thread, GetReturns(t) \/ ValidateReturns(t) \/ HeaderFails(t)
    PROVE  LockInv'
  <1>1. /\ UNCHANGED <<mode, multi, attrVars, last, filed>> /\ Holds(t) /\ Returns(t)
        /\ mishap \subseteq mishap' /\ mishap' \subseteq mishap \cup {"leak"}
        /\ header' \in {header, NoHeader}
    BY DEF GetReturns, ValidateReturns, HeaderFails, Holds, Inside, outVars
  <1>2. call' \in [Thread -> CallRecord] /\ OthersWait(t)
    BY <1>1, Returned
  <1>3. locked' \in BOOLEAN
    BY DEF GetReturns, ValidateReturns, HeaderFails, LockInv, LockTypeOK
  <1>4. mishap' \subseteq {"leak", "stray", "overlap"}
    BY <1>1 DEF LockInv, LockTypeOK
  <1>5. LockTypeOK'
    BY <1>1, <1>2, <1>3, <1>4
    DEF LockInv, LockTypeOK, CallRecord, Op, At, Parts, attrVars
  <1>6. Mutex' /\ \A u \in Thread : Placed(u)'
    <2>1. CASE locked' = FALSE
      BY <1>1, <2>1, ReleaseKeepsMutex
    <2>2. CASE locked' # FALSE
      <3>1. locked' = locked /\ "leak" \in mishap'
        BY <2>2 DEF GetReturns, ValidateReturns, HeaderFails, LockInv, LockTypeOK
      <3>2. call'[t].op = "none" /\ call'[t].at = "idle" /\ call'[t].part = 1
        BY <1>1, Returned
      <3>3. Mutex'
        BY <1>1, <1>2, <3>1, <3>2 DEF LockInv, Mutex, Holds, OthersWait
      <3>4. ASSUME NEW u \in Thread PROVE Placed(u)'
        BY <1>1, <1>2, <3>2 DEF LockInv, Placed, OthersWait, Parts
      <3>5. QED
        BY <3>3, <3>4
    <2>3. QED
      BY <2>1, <2>2
  <1>7. Undisturbed => header' = header
    <2>1. CASE GetReturns(t) \/ ValidateReturns(t)
      BY <2>1 DEF GetReturns, ValidateReturns, outVars
    <2>2. ASSUME HeaderFails(t), Undisturbed PROVE header' = header
      <3>1. mode = "writing" => call[t].part = 1
        BY <2>2 DEF HeaderFails, LockInv, Headers
      <3>2. ~(mode = "writing" /\ call[t].part > 1)
        BY <3>1
      <3>3. header' \in {header} \cup (IF Inside(t) THEN {header} ELSE {})
        BY <2>2, <3>2, Zenon DEF HeaderFails
      <3>4. QED
        BY <3>3, Zenon
    <2>3. QED
      BY <2>1, <2>2
  <1>8. Headers' /\ HeaderFits'
    BY <1>1, <1>7, ReturnKeepsHeaders
  <1>9. QED
    BY <1>5, <1>6, <1>8 DEF LockInv

LEMMA SetKeepsInv ==
    ASSUME LockInv, NEW t \in Thread, SetReturns(t) PROVE LockInv'
  <1>1. /\ UNCHANGED <<mode, multi, counts, header, last, filed>> /\ Holds(t) /\ Returns(t)
        /\ call[t].op = "set" /\ call[t].at = "in" /\ locked' = FALSE
        /\ mishap' = mishap \cup (IF mode = "write" /\ OthersInGap(t) THEN {"overlap"} ELSE {})
    BY DEF SetReturns, Holds, Inside, outVars
  <1>2. mode # "write" => window' = window
    BY DEF SetReturns
  <1>3. mode = "write" => \E n \in 1 .. MaxChunks : window' = [window EXCEPT ![call[t].part] = n]
    BY DEF SetReturns
  <1>4. window' \in [Parts -> 1 .. MaxChunks]
    BY <1>2, <1>3 DEF LockInv, LockTypeOK
  <1>5. /\ call' \in [Thread -> CallRecord] /\ OthersWait(t)
        /\ call'[t].op = "none" /\ call'[t].at = "idle" /\ call'[t].part = 1
    BY <1>1, Returned
  <1>6. mishap' \subseteq {"leak", "stray", "overlap"} /\ mishap \subseteq mishap'
    BY <1>1 DEF LockInv, LockTypeOK
  <1>7. LockTypeOK'
    BY <1>1, <1>4, <1>5, <1>6 DEF LockInv, LockTypeOK, CallRecord, Op, At, Parts
  <1>8. Mutex' /\ \A u \in Thread : Placed(u)'
    BY <1>1, <1>6, ReleaseKeepsMutex
  <1>9. CASE mode # "write"
    BY <1>1, <1>2, <1>6, <1>7, <1>8, <1>9, ReturnKeepsHeaders DEF LockInv, attrVars, outVars
  <1>10. CASE mode = "write"
    <2>1. Undisturbed' => Undisturbed /\ ~OthersInGap(t)
      BY <1>1, <1>10 DEF Undisturbed
    <2>2. ASSUME Undisturbed', NEW u \in Thread PROVE Counted(u)'
      <3>1. CASE u = t
        BY <1>5, <3>1 DEF Counted
      <3>2. CASE u # t
        <4>1. call'[u] = call[u] /\ Placed(u)
          BY <1>5, <3>2 DEF OthersWait, LockInv
        <4>2. ~InGap(u)
          BY <2>1, <2>2, <3>2 DEF OthersInGap
        <4>3. ~Holds(u)
          BY <1>1, <2>1, <2>2, <3>2 DEF LockInv, Mutex, Undisturbed
        <4>4. call[u].op = "header" => call[u].at = "wait" /\ call[u].part = 1
          BY <4>1, <4>2, <4>3 DEF InGap, Holds, Placed, LockInv, LockTypeOK
        <4>5. \A p \in Parts' : ~(p < 1)
          BY <1>1, PartsAre DEF Parts
        <4>6. QED
          BY <4>1, <4>4, <4>5 DEF Counted
      <3>3. QED
        BY <3>1, <3>2
    <2>3. Headers'
      BY <1>1, <1>10, <2>1, <2>2 DEF LockInv, Headers
    <2>4. HeaderFits'
      BY <1>1, <1>10 DEF HeaderFits
    <2>5. QED
      BY <1>7, <1>8, <2>3, <2>4 DEF LockInv
  <1>11. QED
    BY <1>9, <1>10

LEMMA ChunkKeepsInv ==
    ASSUME LockInv, NEW t \in Thread, ChunkReturns(t) PROVE LockInv'
  <1>1. /\ UNCHANGED <<mode, multi, window, counts, header, mishap>> /\ Holds(t) /\ Returns(t)
        /\ locked' = FALSE
    BY DEF ChunkReturns, Holds, Inside, attrVars
  <1>2. /\ last' \in -1 .. MaxChunks - 1 /\ filed' \in 0 .. MaxChunks
        /\ last + 1 = filed => last' + 1 = filed'
        /\ mode # "writing" => last' = last /\ filed' = filed
    <2>1. /\ last \in -1 .. MaxChunks - 1 /\ filed \in 0 .. MaxChunks
          /\ counts[1] \in 0 .. MaxChunks /\ MaxChunks \in Nat
      BY PartsAre, LockAssumption DEF LockInv, LockTypeOK
    <2>2. CASE mode = "writing" /\ last + 1 < counts[1] /\ filed < MaxChunks
      BY <2>1, <2>2 DEF ChunkReturns
    <2>3. CASE ~(mode = "writing" /\ last + 1 < counts[1] /\ filed < MaxChunks)
      BY <2>1, <2>3 DEF ChunkReturns
    <2>4. QED
      BY <2>2, <2>3
  <1>3. /\ call' \in [Thread -> CallRecord] /\ OthersWait(t)
        /\ call'[t].op = "none" /\ call'[t].at = "idle" /\ call'[t].part = 1
    BY <1>1, Returned
  <1>4. LockTypeOK'
    BY <1>1, <1>2, <1>3 DEF LockInv, LockTypeOK, CallRecord, Op, At, Parts
  <1>5. Mutex' /\ \A u \in Thread : Placed(u)'
    BY <1>1, ReleaseKeepsMutex
  <1>6. ASSUME Undisturbed, NEW u \in Thread PROVE Counted(u)'
    BY <1>1, <1>3, <1>6 DEF LockInv, Headers, Counted, OthersWait, Parts
  <1>7. Headers'
    BY <1>1, <1>2, <1>3, <1>6 DEF LockInv, Headers, OthersWait, Undisturbed
  <1>8. HeaderFits'
    BY <1>1, <1>2 DEF LockInv, HeaderFits
  <1>9. QED
    BY <1>4, <1>5, <1>7, <1>8 DEF LockInv

LEMMA CountKeepsInv ==
    ASSUME LockInv, NEW t \in Thread, Count(t) PROVE LockInv'
  <1> DEFINE p == call[t].part
             rec == IF multi THEN [call[t] EXCEPT !.at = "set"]
                    ELSE [call[t] EXCEPT !.part = p + 1]
  <1>1. /\ UNCHANGED <<mode, multi, window, header, last, filed, mishap>>
        /\ call[t].op = "header" /\ call[t].at = "in" /\ Holds(t) /\ p \in Parts
        /\ (p = 1 => mode = "write")
        /\ counts' = [counts EXCEPT ![p] = window[p]]
    BY DEF Count, Inside, Holds, MayWrite, ChunksOf, outVars
  <1>2. call' = [call EXCEPT ![t] = rec]
    BY Zenon DEF Count
  <1>3. locked' = (locked /\ ~multi)
    BY DEF Count
  <1>4. call \in [Thread -> CallRecord] /\ p \in 1 .. NumParts /\ p + 1 \in 1 .. NumParts + 1
    <2>1. call \in [Thread -> CallRecord]
      BY DEF LockInv, LockTypeOK, CallRecord, Op, At
    <2> HIDE DEF p
    <2>2. p \in 1 .. NumParts
      BY <1>1, PartsAre
    <2>3. QED
      BY <2>1, <2>2, PartsAssumption
  <1>5. /\ rec \in CallRecord /\ rec.op = "header"
        /\ multi => rec.at = "set" /\ rec.part = p
        /\ ~multi => rec.at = "in" /\ rec.part = p + 1
    BY <1>1, <1>4 DEF CallRecord, At
  <1> HIDE DEF rec
  <1>6. /\ call' \in [Thread -> CallRecord] /\ OthersWait(t) /\ call'[t] = rec
    BY <1>2, <1>4, <1>5 DEF OthersWait
  <1>7. /\ counts' \in [Parts -> 0 .. MaxChunks] /\ counts'[p] = window[p]
        /\ \A q \in Parts : q # p => counts'[q] = counts[q]
    BY <1>1, LockAssumption DEF LockInv, LockTypeOK
  <1>8. LockTypeOK'
    <2>1. locked' \in BOOLEAN
      BY <1>3 DEF LockInv, LockTypeOK
    <2>2. QED
      BY <1>1, <1>6, <1>7, <2>1 DEF LockInv, LockTypeOK, CallRecord, Op, At, Parts
  <1>9. ASSUME NEW u \in Thread PROVE Placed(u)'
    <2>1. CASE u = t
      BY <1>1, <1>5, <1>6, <2>1 DEF Placed, Parts, LockInv, LockTypeOK
    <2>2. CASE u # t
      BY <1>1, <1>6, <2>2 DEF Placed, Parts, LockInv, OthersWait
    <2>3. QED
      BY <2>1, <2>2
  <1>10. Mutex'
    <2>1. CASE multi
      BY <1>1, <1>3, <1>5, <1>6, <2>1 DEF LockInv, Mutex, Holds, OthersWait
    <2>2. CASE ~multi
      <3>1. \A u \in Thread : Holds(u)' <=> Holds(u)
        BY <1>1, <1>5, <1>6, <2>2 DEF Holds, OthersWait
      <3>2. locked' = locked
        BY <1>3, <2>2 DEF LockInv, LockTypeOK
      <3>3. QED
        BY <1>1, <3>1, <3>2 DEF LockInv, Mutex
    <2>3. QED
      BY <2>1, <2>2
  <1>11. ASSUME Undisturbed, NEW u \in Thread PROVE Counted(u)'
    <2>1. Counted(u) /\ Parts' = Parts
      BY <1>1, <1>11 DEF LockInv, Headers, Parts
    <2>2. CASE u = t
      <3>1. ASSUME NEW q \in Parts, q < rec.part \/ (q = rec.part /\ rec.at = "set")
            PROVE  q = p \/ q < p
        <4> HIDE DEF p
        <4>1. q \in Int /\ p \in Int
          BY <1>4, PartsAre
        <4>2. rec.part = p \/ (rec.part = p + 1 /\ rec.at = "in")
          BY <1>5 DEF LockInv, LockTypeOK
        <4>3. QED
          BY <3>1, <4>1, <4>2
      <3>2. QED
        BY <1>1, <1>6, <1>7, <2>1, <2>2, <3>1 DEF Counted
    <2>3. CASE u # t
      BY <1>1, <1>6, <1>7, <2>1, <2>3 DEF Counted, OthersWait
    <2>4. QED
      BY <2>2, <2>3
  <1>12. Undisturbed => mode # "writing"
    BY <1>1 DEF LockInv, Headers
  <1>13. Headers'
    BY <1>1, <1>11, <1>12 DEF LockInv, Headers, Undisturbed
  <1>14. HeaderFits'
    BY <1>1, <1>12 DEF HeaderFits, Undisturbed
  <1>15. QED
    BY <1>8, <1>9, <1>10, <1>13, <1>14 DEF LockInv

LEMMA SetChunkCountKeepsInv ==
    ASSUME LockInv, NEW t \in Thread, SetChunkCount(t) PROVE LockInv'
  <1> DEFINE p == call[t].part
             at == IF mode = "write" THEN "again" ELSE "fail"
             rec == [call[t] EXCEPT !.at = at, !.part = p + 1]
  <1>1. /\ UNCHANGED <<mode, multi, locked, window, counts, header, last, filed, mishap>>
        /\ call[t].at = "set"
    BY DEF SetChunkCount, attrVars, outVars
  <1>2. call[t].op = "header" /\ p \in Parts
    BY <1>1 DEF LockInv, Placed
  <1>3. call \in [Thread -> CallRecord] /\ p \in 1 .. NumParts /\ p + 1 \in 1 .. NumParts + 1
    <2>1. call \in [Thread -> CallRecord]
      BY DEF LockInv, LockTypeOK, CallRecord, Op, At
    <2> HIDE DEF p
    <2>2. p \in 1 .. NumParts
      BY <1>2, PartsAre
    <2>3. QED
      BY <2>1, <2>2, PartsAssumption
  <1>4. rec \in CallRecord /\ rec.op = "header" /\ rec.at = at /\ rec.part = p + 1
    BY <1>2, <1>3 DEF CallRecord, At
  <1>5. call' = [call EXCEPT ![t] = rec]
    <2>1. call' = [call EXCEPT ![t].at = at, ![t].part = @ + 1]
      BY DEF SetChunkCount
    <2>2. QED
      BY <1>3, <2>1
  <1> HIDE DEF rec, at
  <1>6. call' \in [Thread -> CallRecord] /\ OthersWait(t) /\ call'[t] = rec
    BY <1>3, <1>4, <1>5 DEF OthersWait
  <1>7. LockTypeOK'
    BY <1>1, <1>6 DEF LockInv, LockTypeOK, CallRecord, Op, At, Parts
  <1>8. ASSUME NEW u \in Thread PROVE Placed(u)'
    <2>1. CASE u = t
      BY <1>4, <1>6, <2>1 DEF Placed, at
    <2>2. CASE u # t
      BY <1>1, <1>6, <2>2 DEF Placed, Parts, LockInv, OthersWait
    <2>3. QED
      BY <2>1, <2>2
  <1>9. Mutex'
    <2>1. \A u \in Thread : Holds(u)' <=> Holds(u)
      BY <1>1, <1>4, <1>6 DEF Holds, OthersWait, at
    <2>2. QED
      BY <1>1, <2>1 DEF LockInv, Mutex
  <1>10. ASSUME Undisturbed, NEW u \in Thread PROVE Counted(u)'
    <2>1. Counted(u) /\ Parts' = Parts
      BY <1>1, <1>10 DEF LockInv, Headers, Parts
    <2>2. CASE u = t
      <3> HIDE DEF p
      <3>1. ASSUME NEW q \in Parts, q < rec.part \/ (q = rec.part /\ rec.at = "set")
            PROVE  q = p \/ q < p
        BY <1>3, <1>4, <3>1, PartsAre DEF at
      <3>2. \A q \in Parts : q = p \/ q < p => counts[q] = window[q]
        BY <1>1, <1>2, <2>1, <2>2 DEF Counted, p
      <3>3. QED
        BY <1>1, <1>6, <2>1, <2>2, <3>1, <3>2 DEF Counted
    <2>3. CASE u # t
      BY <1>1, <1>6, <2>1, <2>3 DEF Counted, OthersWait
    <2>4. QED
      BY <2>2, <2>3
  <1>11. Undisturbed => mode # "writing"
    BY <1>1, <1>2 DEF LockInv, Headers
  <1>12. Headers'
    BY <1>1, <1>10, <1>11 DEF LockInv, Headers, Undisturbed
  <1>13. HeaderFits'
    BY <1>1, <1>11 DEF HeaderFits, Undisturbed
  <1>14. QED
    BY <1>7, <1>8, <1>9, <1>12, <1>13 DEF LockInv

LEMMA WriteHeaderKeepsInv ==
    ASSUME LockInv, NEW t \in Thread, WriteHeader(t) PROVE LockInv'
  <1>1. /\ UNCHANGED <<multi, window, counts, filed>> /\ mode' = "writing"
        /\ header' = <<window, counts>> /\ last' = -1 /\ locked' = FALSE
        /\ call[t].op = "header" /\ call[t].at = "in" /\ call[t].part \notin Parts
        /\ Holds(t) /\ Returns(t)
        /\ mishap' = mishap \cup (IF OthersInGap(t) THEN {"overlap"} ELSE {})
    BY DEF WriteHeader, Inside, Holds, attrVars
  <1>2. /\ call' \in [Thread -> CallRecord] /\ OthersWait(t)
        /\ call'[t].op = "none" /\ call'[t].at = "idle" /\ call'[t].part = 1
    BY <1>1, Returned
  <1>3. mishap' \subseteq {"leak", "stray", "overlap"} /\ mishap \subseteq mishap'
    BY <1>1 DEF LockInv, LockTypeOK
  <1>4. last' \in -1 .. MaxChunks - 1
    BY <1>1, LockAssumption
  <1>5. LockTypeOK'
    BY <1>1, <1>2, <1>3, <1>4 DEF LockInv, LockTypeOK, CallRecord, Op, At, Parts
  <1>6. Mutex' /\ \A u \in Thread : Placed(u)'
    BY <1>1, <1>3, ReleaseKeepsMutex
  <1>7. Undisturbed' => Undisturbed /\ ~OthersInGap(t)
    BY <1>1 DEF Undisturbed
  <1>8. ASSUME Undisturbed', NEW u \in Thread \ {t}, call[u].op = "header"
        PROVE  call[u].at = "wait" /\ call[u].part = 1
    <2>1. ~InGap(u)
      BY <1>7, <1>8 DEF OthersInGap
    <2>2. ~Holds(u)
      BY <1>1, <1>7, <1>8 DEF LockInv, Mutex, Undisturbed
    <2>3. QED
      BY <1>8, <2>1, <2>2 DEF InGap, Holds, Placed, LockInv, LockTypeOK
  <1>9. ASSUME Undisturbed', NEW u \in Thread PROVE Counted(u)'
    <2>1. CASE u = t
      BY <1>2, <2>1 DEF Counted
    <2>2. CASE u # t
      BY <1>1, <1>2, <1>7, <1>9, <2>2 DEF LockInv, Headers, Counted, OthersWait, Parts
    <2>3. QED
      BY <2>1, <2>2
  <1>10. Headers'
    BY <1>1, <1>2, <1>8, <1>9 DEF Headers, OthersWait
  <1>11. ASSUME Undisturbed PROVE counts = window
    <2>1. \A p \in Parts : p < call[t].part
      <3>1. call[t].part \in 1 .. NumParts + 1 /\ NumParts \in Nat
        BY PartsAssumption DEF LockInv, LockTypeOK
      <3>2. QED
        BY <1>1, <3>1, PartsAre
    <2>2. \A p \in Parts : counts[p] = window[p]
      BY <1>1, <1>11, <2>1 DEF LockInv, Headers, Counted
    <2>3. QED
      BY <2>2 DEF LockInv, LockTypeOK
  <1>12. ASSUME Undisturbed PROVE filed = 0
    <2>1. mode # "writing"
      BY <1>1, <1>12, PartsAre DEF LockInv, Headers
    <2>2. QED
      BY <1>12, <2>1 DEF LockInv, Headers
  <1>13. HeaderFits'
    BY <1>1, <1>7, <1>11, <1>12 DEF HeaderFits, Undisturbed
  <1>14. QED
    BY <1>5, <1>6, <1>10, <1>13 DEF LockInv

-----------------------------------------------------------------------------
(* The context.                                                             *)

LEMMA LockStutter == ASSUME LockInv, UNCHANGED lockVars PROVE LockInv'
  <1>1. UNCHANGED <<mode, multi, locked, call, window, counts, header, last, filed, mishap>>
    BY DEF lockVars, attrVars, outVars
  <1>2. LockTypeOK'
    BY <1>1 DEF LockInv, LockTypeOK, Parts
  <1>3. Mutex' /\ HeaderFits' /\ \A t \in Thread : Placed(t)'
    BY <1>1 DEF LockInv, Mutex, Holds, HeaderFits, Placed, Parts
  <1>4. Headers'
    BY <1>1 DEF LockInv, Headers, Undisturbed, Counted, Parts
  <1>5. QED
    BY <1>2, <1>3, <1>4 DEF LockInv

LEMMA LockNextKeepsInv ==
    ASSUME LockInv, NEW t \in Thread, LockNext(t) PROVE LockInv'
  BY BeginKeepsInv, LockKeepsInv, SetChunkCountKeepsInv, ReturnKeepsInv, SetKeepsInv,
     ChunkKeepsInv, CountKeepsInv, WriteHeaderKeepsInv DEF LockNext, Work

(***************************************************************************)
(* The mutex belongs to the calls, and what exr_write_header has counted   *)
(* is what the attributes say, in every state of a context.                *)
(***************************************************************************)
THEOREM LockInvariant == Spec => []LockInv
  <1>1. Init => LockInv
    BY LockInitInv DEF Init
  <1>2. LockInv /\ [Next]_vars => LockInv'
    BY LockNextKeepsInv, LockStutter DEF Next, ReadNext, WriteNext, vars
  <1>3. QED
    BY <1>1, <1>2, PTL DEF Spec

(***************************************************************************)
(* The mutex is held when one call is at work, and by no more than one,    *)
(* unless exr_get_file_name freed it or a call kept it: however many       *)
(* threads set attributes, write the header and write chunks.              *)
(***************************************************************************)
THEOREM MutexHeldByOne == Spec => []LockDiscipline
  <1>1. LockInv => LockDiscipline
    <2> SUFFICES ASSUME LockInv, mishap \cap {"stray", "leak"} = {}
                 PROVE  Cardinality({t \in Thread : Holds(t)}) = IF locked THEN 1 ELSE 0
      BY DEF LockDiscipline
    <2> DEFINE H == {t \in Thread : Holds(t)}
    <2>1. /\ \A t \in Thread : Holds(t) => locked
          /\ \A t, u \in Thread : Holds(t) /\ Holds(u) => t = u
          /\ locked => \E t \in Thread : Holds(t)
      BY DEF LockInv, Mutex
    <2>2. CASE locked
      <3>1. PICK t \in Thread : Holds(t)
        BY <2>1, <2>2
      <3>2. H = {t}
        BY <2>1, <3>1
      <3>3. QED
        BY <2>2, <3>2, FS_Singleton
    <2>3. CASE ~locked
      <3>1. H = {}
        BY <2>1, <2>3
      <3>2. QED
        BY <2>3, <3>1, FS_EmptySet
    <2>4. QED
      BY <2>2, <2>3
  <1>2. QED
    BY <1>1, LockInvariant, PTL

(***************************************************************************)
(* What exr_write_header puts into the file agrees with the attributes,    *)
(* with the number of chunks that they give and with the chunks that came, *)
(* for any number of parts and of threads that call it.                    *)
(***************************************************************************)
THEOREM HeadersFit == Spec => []HeaderFits
  <1>1. LockInv => HeaderFits
    BY DEF LockInv
  <1>2. QED
    BY <1>1, LockInvariant, PTL

-----------------------------------------------------------------------------
(* The chunk tables.                                                        *)

IsTable(v) == v = Failed \/ DOMAIN v = Chunk

ReadField == {"at", "part", "cur", "mine", "missed"}
ReadAt == {"idle", "load", "install", "done"}

\* A reader works on a part up to the one it was asked for, and installs a table.
Reading(t) ==
    /\ DOMAIN read[t] = ReadField
    /\ read[t].at \in ReadAt
    /\ read[t].part \in Part /\ read[t].cur \in 1 .. read[t].part
    /\ read[t].at # "idle" => geo \in Live
    /\ read[t].at = "install" => IsTable(read[t].mine)

TableInv ==
    /\ storage \in {"increasing", "decreasing", "tiled"} /\ geo \in Geometry
    /\ strict \in BOOLEAN /\ lucky \in BOOLEAN
    /\ DOMAIN read = Thread /\ DOMAIN ctable = Thread /\ DOMAIN table = Part
    /\ \A t \in Thread : Reading(t)
    /\ \A p \in Part : table[p] = None \/ IsTable(table[p])

\* A part has chunks, and so a table is not None.
LEMMA TablesAreThere ==
    ASSUME geo \in Live, NEW v, IsTable(v) PROVE v # None
  <1>1. 1 \in Chunk
    BY TableAssumption, SomeChunk DEF Chunk
  <1>2. DOMAIN None = {}
    BY DEF None
  <1>3. Failed # None
    <2>1. None \in Seq(Nat)
      BY DEF None
    <2>2. QED
      BY <2>1, TableAssumption
  <1>4. QED
    BY <1>1, <1>2, <1>3 DEF IsTable

LEMMA TableInitInv == Init => TableInv
  <1> SUFFICES ASSUME Init PROVE TableInv
    OBVIOUS
  <1> USE DEF Init
  <1>1. /\ storage \in {"increasing", "decreasing", "tiled"} /\ geo \in Geometry
        /\ strict \in BOOLEAN
    BY TableAssumption DEF FileInit
  <1>2. 1 \in Part /\ 1 \in 1 .. 1
    BY PartsAssumption DEF Part
  <1>3. QED
    BY <1>1, <1>2 DEF TableInit, TableInv, Reading, ReadField, ReadAt

LEMMA RebuiltIsTable ==
    ASSUME NEW p, NEW before, NEW unreadable PROVE IsTable(Rebuilt(p, before, unreadable))
  BY DEF Rebuilt, FileTable, IsTable

\* What a step of thread t leaves alone.
FileSame == UNCHANGED <<storage, geo, disk, damaged, strict>>
OthersRead(t) ==
    DOMAIN read' = Thread /\ \A u \in Thread \ {t} : read'[u] = read[u]

LEMMA ReadersKept ==
    ASSUME TableInv, NEW t \in Thread, OthersRead(t), Reading(t)', FileSame
    PROVE  \A u \in Thread : Reading(u)'
  BY DEF TableInv, Reading, OthersRead, FileSame, IsTable, Chunk

LEMMA OfferReads ==
    ASSUME TableInv, NEW t \in Thread, read[t].at # "idle", FileSame, NEW before,
           NEW p \in 1 .. read[t].part, Offer(t, p, before)
    PROVE  OthersRead(t) /\ (\A u \in Thread : Reading(u)') /\ lucky' \in BOOLEAN
  <1>1. PICK v : /\ lucky' \in BOOLEAN /\ IsTable(v)
                 /\ read' = [read EXCEPT ![t].at = "install", ![t].cur = p, ![t].mine = v]
    BY RebuiltIsTable DEF Offer, TableInv
  <1>2. IsTable(v)'
    BY <1>1 DEF FileSame, IsTable, Chunk
  <1>3. read' = [read EXCEPT ![t] = [read[t] EXCEPT !.at = "install", !.cur = p, !.mine = v]]
    BY <1>1
  <1>4. Reading(t) /\ DOMAIN read = Thread
    BY DEF TableInv
  <1>5. /\ OthersRead(t) /\ DOMAIN read'[t] = ReadField /\ read'[t].at = "install"
        /\ read'[t].part = read[t].part /\ read'[t].cur = p /\ read'[t].mine = v
    BY <1>3, <1>4 DEF OthersRead, Reading, ReadField
  <1>6. Reading(t)'
    BY <1>2, <1>4, <1>5 DEF Reading, ReadAt, FileSame, Part
  <1>7. QED
    BY <1>1, <1>5, <1>6, ReadersKept

\* Whoever learns the table of a part goes on to the next part, or is told.
LEMMA GotReads ==
    ASSUME TableInv, NEW t \in Thread, read[t].at # "idle", FileSame, NEW v,
           Got(t, read[t].cur, v)
    PROVE  /\ OthersRead(t) /\ (\A u \in Thread : Reading(u)') /\ lucky' \in BOOLEAN
           /\ UNCHANGED ctable \/ ctable' = [ctable EXCEPT ![t] = <<read[t].cur, v>>]
  <1> DEFINE p == read[t].cur
  <1>1. Reading(t) /\ DOMAIN read = Thread /\ lucky \in BOOLEAN
    BY DEF TableInv
  <1>2. read[t].part \in Nat /\ p \in 1 .. read[t].part
    BY <1>1, PartsAssumption DEF Reading, Part
  <1>3. CASE p < read[t].part
    <2>1. Offer(t, p + 1, v) /\ UNCHANGED ctable
      BY <1>3 DEF Got
    <2>2. p + 1 \in 1 .. read[t].part
      BY <1>2, <1>3
    <2>3. QED
      BY <2>1, <2>2, OfferReads
  <1>4. CASE ~(p < read[t].part)
    <2> DEFINE m == Missed(p, v)
    <2>1. /\ read' = [read EXCEPT ![t].at = "done", ![t].mine = None, ![t].missed = m]
          /\ ctable' = [ctable EXCEPT ![t] = <<p, v>>] /\ UNCHANGED lucky
      BY <1>4 DEF Got
    <2> HIDE DEF m
    <2>2. /\ OthersRead(t) /\ DOMAIN read'[t] = ReadField /\ read'[t].at = "done"
          /\ read'[t].part = read[t].part /\ read'[t].cur = p
      BY <1>1, <2>1 DEF OthersRead, Reading, ReadField
    <2>3. Reading(t)'
      BY <1>1, <2>2 DEF Reading, ReadAt, FileSame
    <2>4. QED
      BY <1>1, <2>1, <2>2, <2>3, ReadersKept
  <1>5. QED
    BY <1>3, <1>4

\* What a step does to the tables, as WriteOnce sees it.
TablesStep ==
    /\ \A p \in Part : table[p] # None => table'[p] = table[p]
    /\ \A t \in Thread :
          \/ ctable'[t] = ctable[t]
          \/ \E p \in Part : table'[p] # None /\ ctable'[t] = <<p, table'[p]>>

LEMMA ReadChunkKeeps ==
    ASSUME TableInv, NEW t \in Thread, ReadChunk(t) PROVE TableInv' /\ TablesStep
  <1>1. PICK p \in Part : read' = [read EXCEPT ![t].at = "load", ![t].part = p, ![t].cur = p]
    BY DEF ReadChunk
  <1>2. FileSame /\ UNCHANGED <<table, ctable, lucky>> /\ geo \in Live
    BY DEF ReadChunk, fileVars, FileSame
  <1>3. Reading(t) /\ DOMAIN read = Thread
    BY DEF TableInv
  <1>4. /\ OthersRead(t) /\ DOMAIN read'[t] = ReadField /\ read'[t].at = "load"
        /\ read'[t].part = p /\ read'[t].cur = p
    BY <1>1, <1>3 DEF OthersRead, Reading, ReadField
  <1>5. p \in 1 .. p
    BY PartsAssumption DEF Part
  <1>6. Reading(t)'
    BY <1>2, <1>4, <1>5 DEF Reading, ReadAt, FileSame
  <1>7. \A u \in Thread : Reading(u)'
    BY <1>2, <1>4, <1>6, ReadersKept
  <1>8. QED
    BY <1>2, <1>4, <1>7 DEF TableInv, TablesStep, FileSame, OthersRead, IsTable, Chunk

\* A reader begins to install a table, or turns to the part before.
LEMMA LoadingKeeps ==
    ASSUME TableInv, NEW t \in Thread, ReadFails(t) \/ ReadTable(t)
    PROVE  TableInv' /\ TablesStep
  <1> DEFINE p == read[t].cur
  <1>1. /\ read[t].at = "load" /\ FileSame /\ UNCHANGED <<table, ctable>>
    BY DEF ReadFails, ReadTable, fileVars, FileSame
  <1>2. /\ Reading(t) /\ DOMAIN read = Thread /\ lucky \in BOOLEAN
    BY DEF TableInv
  <1>3. /\ p \in 1 .. read[t].part /\ read[t].part \in Nat
    BY <1>2, PartsAssumption DEF Reading, Part
  <1>4. ASSUME NEW v, IsTable(v), UNCHANGED lucky \/ lucky' = FALSE,
               read' = [read EXCEPT ![t].at = "install", ![t].mine = v]
        PROVE  OthersRead(t) /\ (\A u \in Thread : Reading(u)') /\ lucky' \in BOOLEAN
    <2>1. /\ OthersRead(t) /\ DOMAIN read'[t] = ReadField /\ read'[t].at = "install"
          /\ read'[t].part = read[t].part /\ read'[t].cur = p /\ read'[t].mine = v
      BY <1>2, <1>4 DEF OthersRead, Reading, ReadField
    <2>2. IsTable(v)'
      BY <1>1, <1>4 DEF FileSame, IsTable, Chunk
    <2>3. Reading(t)'
      BY <1>1, <1>2, <2>1, <2>2 DEF Reading, ReadAt, FileSame
    <2>4. QED
      BY <1>1, <1>2, <1>4, <2>1, <2>3, ReadersKept
  <1>5. OthersRead(t) /\ (\A u \in Thread : Reading(u)') /\ lucky' \in BOOLEAN
    <2>1. CASE ReadFails(t)
      BY <1>4, <2>1 DEF ReadFails, IsTable
    <2>2. CASE ReadTable(t) /\ Complete(FileTable(p))
      <3>1. IsTable(FileTable(p))
        BY DEF IsTable, FileTable
      <3>2. QED
        BY <1>4, <2>2, <3>1 DEF ReadTable
    <2>3. CASE ReadTable(t) /\ ~Complete(FileTable(p)) /\ p = 1
      BY <1>1, <1>3, <2>3, OfferReads DEF ReadTable
    <2>4. CASE ReadTable(t) /\ ~Complete(FileTable(p)) /\ p # 1
      <3>1. p > 1
        BY <1>3, <2>4
      <3>2. read' = [read EXCEPT ![t].cur = p - 1] /\ UNCHANGED lucky
        BY <2>4, <3>1 DEF ReadTable
      <3>3. /\ OthersRead(t) /\ DOMAIN read'[t] = ReadField /\ read'[t].at = "load"
            /\ read'[t].part = read[t].part /\ read'[t].cur = p - 1
        BY <1>1, <1>2, <3>2 DEF OthersRead, Reading, ReadField
      <3>4. p - 1 \in 1 .. read[t].part
        BY <1>3, <3>1
      <3>5. Reading(t)'
        BY <1>1, <1>2, <3>3, <3>4 DEF Reading, ReadAt, FileSame
      <3>6. QED
        BY <1>1, <1>2, <3>2, <3>3, <3>5, ReadersKept
    <2>5. QED
      BY <2>1, <2>2, <2>3, <2>4
  <1>6. QED
    BY <1>1, <1>5 DEF TableInv, TablesStep, FileSame, OthersRead, IsTable, Chunk

\* A table that is there is used; another one is installed only where none was.
LEMMA GettingKeeps ==
    ASSUME TableInv, NEW t \in Thread, LoadTable(t) \/ Install(t)
    PROVE  TableInv' /\ TablesStep
  <1> DEFINE p == read[t].cur
             v == IF table[p] = None THEN read[t].mine ELSE table[p]
  <1>1. /\ read[t].at \in {"load", "install"} /\ FileSame
        /\ read[t].at = "load" => table[p] # None
    BY DEF LoadTable, Install, fileVars, FileSame
  <1>2. /\ Reading(t) /\ DOMAIN read = Thread /\ DOMAIN table = Part /\ DOMAIN ctable = Thread
    BY DEF TableInv
  <1>3. p \in Part
    BY <1>2, PartsAssumption DEF Reading, Part
  <1>4. IsTable(v) /\ v # None
    <2>1. geo \in Live
      BY <1>1, <1>2 DEF Reading
    <2>2. IsTable(v)
      BY <1>1, <1>2, <1>3 DEF Reading, TableInv
    <2>3. QED
      BY <2>1, <2>2, TablesAreThere
  <1>5. Got(t, p, v)
    BY <1>1 DEF LoadTable, Install
  <1> HIDE DEF p, v
  <1>6. /\ OthersRead(t) /\ (\A u \in Thread : Reading(u)') /\ lucky' \in BOOLEAN
        /\ UNCHANGED ctable \/ ctable' = [ctable EXCEPT ![t] = <<p, v>>]
    BY <1>1, <1>5, GotReads DEF p
  <1>7. DOMAIN read' = Thread
    BY <1>6 DEF OthersRead
  <1>8. /\ DOMAIN table' = Part /\ table'[p] = v
        /\ \A q \in Part : table'[q] = table[q] \/ (q = p /\ table[q] = None)
    <2>1. \/ UNCHANGED table /\ table[p] # None
          \/ table' = [table EXCEPT ![p] = v]
      BY <1>1 DEF LoadTable, Install, p, v
    <2>2. QED
      BY <1>2, <1>3, <2>1 DEF v
  <1>9. TableInv'
    BY <1>1, <1>2, <1>4, <1>6, <1>7, <1>8 DEF TableInv, FileSame, IsTable, Chunk
  <1>10. TablesStep
    BY <1>2, <1>3, <1>4, <1>6, <1>8 DEF TablesStep
  <1>11. QED
    BY <1>9, <1>10

LEMMA TableStutter == ASSUME TableInv, UNCHANGED tableVars PROVE TableInv' /\ TablesStep
  <1>1. FileSame /\ UNCHANGED <<table, read, ctable, lucky>>
    BY DEF tableVars, fileVars, FileSame
  <1>2. \A t \in Thread : Reading(t)'
    BY <1>1 DEF TableInv, Reading, FileSame, IsTable, Chunk
  <1>3. QED
    BY <1>1, <1>2 DEF TableInv, TablesStep, FileSame, IsTable, Chunk

LEMMA TableKept == ASSUME TableInv, [Next]_vars PROVE TableInv' /\ TablesStep
  <1>1. CASE UNCHANGED vars
    BY <1>1, TableStutter DEF vars
  <1>2. ASSUME NEW t \in Thread, ReadNext(t) PROVE TableInv' /\ TablesStep
    BY <1>2, ReadChunkKeeps, LoadingKeeps, GettingKeeps DEF ReadNext, TableStep
  <1>3. ASSUME NEW t \in Thread, WriteNext(t) PROVE TableInv' /\ TablesStep
    BY <1>3, TableStutter DEF WriteNext
  <1>4. QED
    BY <1>1, <1>2, <1>3 DEF Next

(***************************************************************************)
(* A reader that is about to install a chunk table has one of the part's   *)
(* chunks in hand, or the failure to get one, and so has each part for     *)
(* which a table was installed.                                            *)
(***************************************************************************)
THEOREM TableInvariant == Spec => []TableInv
  <1>1. Init => TableInv
    BY TableInitInv
  <1>2. TableInv /\ [Next]_vars => TableInv'
    BY TableKept
  <1>3. QED
    BY <1>1, <1>2, PTL DEF Spec

(***************************************************************************)
(* extract_chunk_table implements cells that are written once: however     *)
(* many threads read, rebuild and install the table of a part at the same  *)
(* time, all are told the same table, or all the same failure.             *)
(***************************************************************************)
THEOREM RefinesWriteOnce == Spec => TablesShared
  <1>1. Init => Tables!OnceInit
    BY DEF Init, TableInit, Tables!OnceInit
  <1>2. TableInv /\ [Next]_vars => [Tables!OnceNext]_<<table, ctable>>
    <2> SUFFICES ASSUME TableInv, [Next]_vars PROVE Tables!OnceNext
      OBVIOUS
    <2>1. TablesStep
      BY TableKept
    <2>2. QED
      BY <2>1 DEF TablesStep, Tables!OnceNext, Tables!Keeps, Tables!Asks
  <1>3. QED
    BY <1>1, <1>2, TableInvariant, PTL DEF Spec, TablesShared, Tables!OnceSpec

(***************************************************************************)
(* Every state of a context has its type, in particular a table that was   *)
(* installed has an entry for each chunk, and the mutex is held by the one *)
(* call at work.                                                           *)
(***************************************************************************)
THEOREM ContextInvariant == Spec => []ContextInv
  <1>1. LockInv /\ TableInv => TypeOK
    BY DEF LockInv, TableInv, TypeOK, Reading, ReadAt, IsTable
  <1>2. QED
    BY <1>1, LockInvariant, TableInvariant, MutexHeldByOne, PTL DEF ContextInv

-----------------------------------------------------------------------------
(* What the tables are rebuilt from: the file.                              *)

\* How many chunks a part has.
N == Cardinality(Chunk)

\* How many chunks of its part come before a chunk, if the lines are in order.
Rank(c) == IF storage = "decreasing" THEN N + 1 - c ELSE c

\* A place of the file holds one chunk, each entry that is left is that of a chunk in
\* the file, and the chunks of a scan-line part are in order from the first.
FileOK ==
    /\ disk \in Seq(Part \X Chunk)
    /\ \A i, j \in DOMAIN disk : disk[i] = disk[j] => i = j
    /\ \A p \in Part, c \in Chunk : <<p, c>> \in damaged \/ <<p, c>> \in ToSet(disk)
    /\ storage # "tiled" =>
          \A j \in DOMAIN disk, c \in Chunk : Rank(c) < Rank(disk[j][2]) =>
              \E i \in 1 .. j - 1 : disk[i] = <<disk[j][1], c>>

Storage == {"increasing", "decreasing", "tiled"}

LEMMA ChunksAre ==
    ASSUME geo \in Live, storage \in Storage
    PROVE  N \in Nat \ {0} /\ Chunk = 1 .. N /\ IsFiniteSet(Chunk)
  <1>1. PICK n \in Nat \ {0} : Chunk = 1 .. n
    BY TableAssumption, SomeChunk DEF Chunk
  <1>2. IsFiniteSet(1 .. n) /\ Cardinality(1 .. n) = n
    BY FS_Interval
  <1>3. QED
    BY <1>1, <1>2 DEF N

\* All elements of a finite set are in a sequence of as many that are different.
LEMMA AllInOrder ==
    ASSUME NEW S, IsFiniteSet(S), NEW order \in SetToSeqs(S), NEW e \in S
    PROVE  \E i \in DOMAIN order : order[i] = e
  <1> DEFINE D == 1 .. Cardinality(S)
  <1> SUFFICES ASSUME \A i \in DOMAIN order : order[i] # e PROVE FALSE
    OBVIOUS
  <1>1. order \in [D -> S] /\ \A i, j \in D : i # j => order[i] # order[j]
    BY DEF SetToSeqs
  <1>2. order \in [D -> S \ {e}]
    BY <1>1
  <1>3. Cardinality(S) \in Nat
    BY FS_CardinalityType
  <1>4. IsFiniteSet(D) /\ Cardinality(D) = Cardinality(S)
    BY <1>3, FS_Interval
  <1>5. IsFiniteSet(S \ {e}) /\ Cardinality(S \ {e}) = Cardinality(S) - 1
    BY FS_RemoveElement
  <1>6. Cardinality(S \ {e}) < Cardinality(D)
    BY <1>3, <1>4, <1>5
  <1> HIDE DEF D
  <1>7. \E i, j \in D : i # j /\ order[i] = order[j]
    BY <1>2, <1>4, <1>5, <1>6, FS_PigeonHole
  <1>8. QED
    BY <1>1, <1>7

LEMMA FileIsOK == ASSUME FileInit, geo \in Live PROVE FileOK
  <1> DEFINE S == Part \X Chunk
  <1>1. storage \in Storage
    BY DEF FileInit, Storage
  <1>2. PICK order \in SetToSeqs(S) :
          /\ storage # "tiled" => \A i, j \in DOMAIN order :
                i < j /\ order[i][1] = order[j][1] =>
                    (order[i][2] < order[j][2] <=> storage = "increasing")
          /\ disk \in Prefixes(order)
          /\ \E D : damaged = D \cup (S \ ToSet(disk))
    BY DEF FileInit
  <1>3. N \in Nat /\ Chunk = 1 .. N /\ IsFiniteSet(Chunk)
    BY <1>1, ChunksAre
  <1>4. IsFiniteSet(Part)
    BY FS_Interval, PartsAssumption DEF Part
  <1>5. IsFiniteSet(S)
    BY <1>3, <1>4, FS_Product
  <1>6. PICK m \in Nat : order \in [1 .. m -> S] /\ \A i, j \in 1 .. m : i # j => order[i] # order[j]
    BY <1>2, <1>5, FS_CardinalityType DEF SetToSeqs
  <1>7. order \in Seq(S) /\ Len(order) = m
    BY <1>6
  <1>8. PICK l \in 0 .. m : disk = SubSeq(order, 1, l)
    BY <1>2, <1>7 DEF Prefixes
  <1>9. /\ disk \in Seq(S) /\ Len(disk) = l /\ DOMAIN disk = 1 .. l
        /\ \A i \in 1 .. l : disk[i] = order[i]
    BY <1>7, <1>8
  <1>10. \A i, j \in DOMAIN disk : disk[i] = disk[j] => i = j
    BY <1>6, <1>9
  <1>11. \A p \in Part, c \in Chunk : <<p, c>> \in damaged \/ <<p, c>> \in ToSet(disk)
    BY <1>2
  <1>12. ASSUME storage # "tiled", NEW j \in DOMAIN disk, NEW c \in Chunk,
                Rank(c) < Rank(disk[j][2])
         PROVE  \E i \in 1 .. j - 1 : disk[i] = <<disk[j][1], c>>
    <2> DEFINE p == disk[j][1]
    <2>1. j \in 1 .. m /\ disk[j] = order[j] /\ disk[j] \in S
      BY <1>6, <1>9
    <2>2. <<p, c>> \in S
      BY <2>1
    <2>3. PICK i \in 1 .. m : order[i] = <<p, c>>
      <3> DEFINE e == <<p, c>>
      <3> HIDE DEF e, S
      <3>1. e \in S
        BY <2>2 DEF e
      <3>2. PICK i \in DOMAIN order : order[i] = e
        BY <1>2, <1>5, <3>1, AllInOrder
      <3>3. QED
        BY <1>6, <3>2 DEF e
    <2>4. disk[j][2] \in Int /\ c \in Int
      BY <1>3, <2>1
    <2>5. \/ storage = "increasing" /\ c < disk[j][2]
          \/ storage # "increasing" /\ disk[j][2] < c
      BY <1>1, <1>3, <1>12, <2>4 DEF Rank, Storage
    <2>6. i # j
      BY <2>1, <2>3, <2>4, <2>5
    <2>7. ~(j < i)
      <3> SUFFICES ASSUME j < i PROVE FALSE
        OBVIOUS
      <3>1. order[j][1] = p /\ order[i][1] = p /\ order[i][2] = c
        BY <2>1, <2>3
      <3>2. order[j][2] < order[i][2] <=> storage = "increasing"
        BY <1>2, <1>6, <1>12, <2>1, <3>1
      <3>3. QED
        BY <2>1, <2>4, <2>5, <3>1, <3>2
    <2>8. i \in 1 .. j - 1
      BY <2>1, <2>6, <2>7
    <2>9. disk[i] = <<p, c>>
      BY <1>9, <2>1, <2>3, <2>8
    <2>10. QED
      BY <2>8, <2>9
  <1>13. QED
    BY <1>9, <1>10, <1>11, <1>12 DEF FileOK

-----------------------------------------------------------------------------
(* The scan.                                                                *)

ScanStart(p, before) ==
    [off |-> Start(p, before), found |-> [c \in Chunk |-> 0], bad |-> FALSE]

\* What the scan has after each of the first k chunks.
Scanned(s, k, p, tab, before, unreadable) ==
    s = [i \in 0 .. k |-> IF i = 0 THEN ScanStart(p, before)
                          ELSE ScanStep(p, tab, unreadable, i, s[i - 1])]

LEMMA ScanGoesOn ==
    ASSUME NEW n \in Nat, NEW p, NEW tab, NEW before, NEW unreadable
    PROVE  \E s : Scanned(s, n, p, tab, before, unreadable)
  <1> DEFINE P == {k \in 0 .. n : \E s : Scanned(s, k, p, tab, before, unreadable)}
  <1>1. 0 \in P
    <2> DEFINE s == [i \in 0 .. 0 |-> ScanStart(p, before)]
    <2>1. Scanned(s, 0, p, tab, before, unreadable)
      BY DEF Scanned
    <2>2. QED
      BY <2>1
  <1>2. ASSUME NEW k \in 0 .. n - 1, k \in P
        PROVE  k + 1 \in P
    <2>1. PICK s : Scanned(s, k, p, tab, before, unreadable)
      BY <1>2
    <2> DEFINE next == [i \in 0 .. k + 1 |-> IF i <= k THEN s[i]
                                             ELSE ScanStep(p, tab, unreadable, i, s[i - 1])]
    <2>2. \A i \in 0 .. k + 1 :
             next[i] = IF i = 0 THEN ScanStart(p, before)
                       ELSE ScanStep(p, tab, unreadable, i, next[i - 1])
      BY <2>1 DEF Scanned
    <2>3. Scanned(next, k + 1, p, tab, before, unreadable)
      BY <2>2 DEF Scanned
    <2>4. QED
      BY <2>3
  <1> HIDE DEF P
  <1>3. 0 .. n \subseteq P
    BY <1>1, <1>2, Reach
  <1>4. QED
    BY <1>3 DEF P

\* The scan, step by step.
LEMMA ScanSteps ==
    ASSUME geo \in Live, storage \in Storage,
           NEW p, NEW tab, NEW before, NEW unreadable
    PROVE  \E s : /\ s[0] = ScanStart(p, before)
                  /\ \A i \in 1 .. N : s[i] = ScanStep(p, tab, unreadable, i, s[i - 1])
                  /\ Scan(p, tab, before, unreadable) = s[N]
  <1>1. N \in Nat
    BY ChunksAre
  <1>2. PICK f : Scanned(f, N, p, tab, before, unreadable)
    <2> HIDE DEF N
    <2>1. QED
      BY <1>1, ScanGoesOn
  <1> DEFINE s == CHOOSE s : s = [i \in 0 .. N |-> IF i = 0 THEN ScanStart(p, before)
                                      ELSE ScanStep(p, tab, unreadable, i, s[i - 1])]
  <1>3. s = [i \in 0 .. N |-> IF i = 0 THEN ScanStart(p, before)
                              ELSE ScanStep(p, tab, unreadable, i, s[i - 1])]
    BY <1>2, Zenon DEF Scanned
  <1>4. Scan(p, tab, before, unreadable) = s[N]
    BY DEF Scan, N, ScanStart
  <1> HIDE DEF s
  <1>5. QED
    BY <1>1, <1>3, <1>4

-----------------------------------------------------------------------------
(* What the scan finds is right.                                            *)

LEMMA PlaceIs ==
    ASSUME FileOK, NEW p, NEW c, NEW j \in DOMAIN disk, disk[j] = <<p, c>>
    PROVE  PlaceOf(p, c) = j
  <1> DEFINE I == {i \in 1 .. Len(disk) : disk[i] = <<p, c>>}
  <1>1. DOMAIN disk = 1 .. Len(disk) /\ Len(disk) \in Nat
    BY DEF FileOK
  <1>2. I = {j}
    BY <1>1 DEF FileOK
  <1>3. Min(I) = j
    BY <1>1, <1>2 DEF Min
  <1>4. PlaceOf(p, c) = IF I # {} THEN Min(I) ELSE 0
    BY DEF PlaceOf, SelectInSeq
  <1>5. QED
    BY <1>2, <1>3, <1>4

LEMMA NoPlace ==
    ASSUME FileOK, NEW p, NEW c, <<p, c>> \notin ToSet(disk)
    PROVE  PlaceOf(p, c) = 0
  <1> DEFINE I == {i \in 1 .. Len(disk) : disk[i] = <<p, c>>}
  <1>1. DOMAIN disk = 1 .. Len(disk)
    BY DEF FileOK
  <1>2. I = {}
    BY <1>1 DEF ToSet
  <1>3. PlaceOf(p, c) = IF I # {} THEN Min(I) ELSE 0
    BY DEF PlaceOf, SelectInSeq
  <1>4. QED
    BY <1>2, <1>3

LEMMA PlaceType ==
    ASSUME FileOK, NEW p, NEW c
    PROVE  /\ PlaceOf(p, c) \in Nat /\ PlaceOf(p, c) <= Len(disk)
           /\ PlaceOf(p, c) # 0 => disk[PlaceOf(p, c)] = <<p, c>>
  <1>1. DOMAIN disk = 1 .. Len(disk) /\ Len(disk) \in Nat
    BY DEF FileOK
  <1>2. CASE <<p, c>> \in ToSet(disk)
    <2>1. PICK j \in DOMAIN disk : disk[j] = <<p, c>>
      BY <1>2 DEF ToSet
    <2>2. QED
      BY <1>1, <2>1, PlaceIs
  <1>3. CASE <<p, c>> \notin ToSet(disk)
    BY <1>1, <1>3, NoPlace
  <1>4. QED
    BY <1>2, <1>3

LEMMA LeaderIs ==
    ASSUME FileOK, geo \in Live, storage \in Storage, NEW p, NEW place, NEW unreadable
    PROVE  LET c == Leader(p, place, unreadable) IN
           /\ c # 0 => place \in DOMAIN disk /\ disk[place] = <<p, c>> /\ c \in Chunk
           /\ unreadable = {} /\ place \in DOMAIN disk => (c # 0 <=> disk[place][1] = p)
  <1> DEFINE c == Leader(p, place, unreadable)
  <1>1. DOMAIN disk = 1 .. Len(disk) /\ N \in Nat /\ Chunk = 1 .. N
    BY ChunksAre DEF FileOK
  <1>2. ASSUME place \in DOMAIN disk
        PROVE  disk[place] = <<disk[place][1], disk[place][2]>> /\ disk[place][2] \in 1 .. N
    BY <1>1, <1>2 DEF FileOK
  <1>3. ASSUME c # 0 PROVE place \in DOMAIN disk /\ disk[place] = <<p, c>> /\ c \in Chunk
    BY <1>1, <1>2, <1>3 DEF Leader
  <1>4. ASSUME unreadable = {}, place \in DOMAIN disk PROVE c # 0 <=> disk[place][1] = p
    BY <1>1, <1>2, <1>4 DEF Leader
  <1>5. QED
    BY <1>3, <1>4

\* Each entry of the table of part p is missing or right.
RightTable(p, v) ==
    v \in [Chunk -> Nat] /\ \A c \in Chunk : v[c] \in {0, PlaceOf(p, c)}

Seen(scan) == {c \in Chunk : scan.found[c] # 0}

\* The scan found what is there, behind where it is; if all fits, one chunk at a time.
RightScan(p, i, scan) ==
    /\ scan.off \in Nat \ {0} /\ scan.bad \in BOOLEAN
    /\ RightTable(p, scan.found)
    /\ \A c \in Chunk : scan.found[c] < scan.off
    /\ ~scan.bad => Cardinality(Seen(scan)) = i

LEMMA StepRight ==
    ASSUME FileOK, geo \in Live, storage \in Storage,
           NEW p \in Part, NEW tab \in [Chunk -> Nat], NEW unreadable,
           NEW i \in 1 .. N, NEW scan, RightScan(p, i - 1, scan)
    PROVE  RightScan(p, i, ScanStep(p, tab, unreadable, i, scan))
  <1> DEFINE off == Larger(tab[i], scan.off)
             c == Leader(p, off, unreadable)
             want == IF storage = "decreasing" THEN Cardinality(Chunk) + 1 - i ELSE i
             fits == c # 0 /\ (storage = "tiled" \/ c = want)
             found == IF fits /\ scan.found[c] = 0 THEN [scan.found EXCEPT ![c] = off]
                      ELSE scan.found
             next == [off |-> IF c = 0 THEN off ELSE off + 1, found |-> found,
                      bad |-> scan.bad \/ ~fits]
  <1>1. ScanStep(p, tab, unreadable, i, scan) = next
    BY DEF ScanStep
  <1>2. N \in Nat /\ Chunk = 1 .. N /\ IsFiniteSet(Chunk)
    BY ChunksAre
  <1>3. off \in Nat \ {0} /\ scan.off <= off
    BY <1>2 DEF RightScan, Larger
  <1>4. c # 0 => c \in Chunk /\ off \in DOMAIN disk /\ disk[off] = <<p, c>>
    BY LeaderIs
  <1>5. c # 0 => PlaceOf(p, c) = off
    BY <1>4, PlaceIs
  <1>6. /\ next.off = IF c = 0 THEN off ELSE off + 1
        /\ next.found = found /\ next.bad = (scan.bad \/ ~fits)
    OBVIOUS
  <1>7. fits \in BOOLEAN /\ (fits => c # 0)
    OBVIOUS
  <1> HIDE DEF off, c, fits, next
  <1>8. scan.found \in [Chunk -> Nat] /\ \A d \in Chunk : scan.found[d] \in {0, PlaceOf(p, d)}
    BY DEF RightScan, RightTable
  <1>9. /\ found \in [Chunk -> Nat]
        /\ \A d \in Chunk : found[d] = scan.found[d] \/ (d = c /\ c # 0 /\ found[d] = off)
    BY <1>3, <1>7, <1>8
  <1>10. next.off \in Nat \ {0} /\ scan.off <= next.off /\ (c # 0 => off < next.off)
    BY <1>3, <1>6 DEF RightScan
  <1>11. RightTable(p, next.found)
    BY <1>5, <1>6, <1>8, <1>9 DEF RightTable
  <1>12. ASSUME NEW d \in Chunk PROVE next.found[d] < next.off
    <2>1. scan.found[d] < scan.off /\ scan.found[d] \in Nat /\ scan.off \in Nat
      BY <1>8 DEF RightScan
    <2>2. next.found[d] = scan.found[d] \/ (c # 0 /\ next.found[d] = off)
      BY <1>6, <1>9
    <2>3. QED
      BY <1>3, <1>10, <2>1, <2>2
  <1>13. next.bad \in BOOLEAN
    BY <1>6, <1>7 DEF RightScan
  <1>14. ASSUME ~next.bad PROVE Cardinality(Seen(next)) = i
    <2>1. ~scan.bad /\ fits /\ c # 0 /\ c \in Chunk
      BY <1>4, <1>6, <1>7, <1>14
    <2>2. scan.found[c] = 0
      BY <1>3, <1>5, <1>8, <2>1 DEF RightScan
    <2>3. found = [scan.found EXCEPT ![c] = off]
      BY <2>1, <2>2
    <2>4. Seen(next) = Seen(scan) \cup {c} /\ c \notin Seen(scan)
      BY <1>3, <1>6, <1>8, <2>1, <2>2, <2>3 DEF Seen
    <2>5. IsFiniteSet(Seen(scan))
      BY <1>2, FS_Subset DEF Seen
    <2>6. Cardinality(Seen(scan)) = i - 1
      BY <2>1 DEF RightScan
    <2> DEFINE S == Seen(scan)
    <2> HIDE DEF S
    <2>7. Cardinality(S \cup {c}) = Cardinality(S) + 1
      BY <2>4, <2>5, FS_AddElement DEF S
    <2>8. QED
      BY <1>2, <2>4, <2>6, <2>7 DEF S
  <1>15. QED
    BY <1>1, <1>10, <1>11, <1>12, <1>13, <1>14 DEF RightScan

LEMMA GreatestIs ==
    ASSUME NEW b \in Nat, NEW S, S \subseteq 0 .. b, S # {}
    PROVE  Max(S) \in S /\ \A y \in S : y <= Max(S)
  <1> DEFINE Highest(k) == \E x \in S : \A y \in S : y <= k => y <= x
             P == {k \in 0 .. b : S \cap (0 .. k) # {} => Highest(k)}
  <1>1. 0 \in P
    OBVIOUS
  <1>2. ASSUME NEW k \in 0 .. b - 1, k \in P PROVE k + 1 \in P
    <2>1. k + 1 \in 0 .. b /\ \A y \in S : y \in Nat /\ (y <= k + 1 => y <= k \/ y = k + 1)
      OBVIOUS
    <2>2. CASE k + 1 \in S
      <3>1. Highest(k + 1)
        BY <2>2
      <3>2. QED
        BY <2>1, <3>1
    <2>3. CASE k + 1 \notin S
      <3>1. S \cap (0 .. k + 1) = S \cap (0 .. k)
        BY <2>1, <2>3
      <3>2. Highest(k) => Highest(k + 1)
        BY <2>1, <2>3
      <3>3. QED
        BY <1>2, <2>1, <3>1, <3>2
    <2>4. QED
      BY <2>2, <2>3
  <1>3. b \in P
    <2> HIDE DEF P
    <2>1. 0 .. b \subseteq P
      BY <1>1, <1>2, Reach
    <2>2. QED
      BY <2>1
  <1>4. Highest(b)
    BY <1>3
  <1>5. \E x \in S : \A y \in S : x >= y
    BY <1>4
  <1>6. Max(S) \in S /\ \A y \in S : Max(S) >= y
    BY <1>5 DEF Max
  <1>7. QED
    BY <1>6

\* The last chunk that a table knows is one of its entries, or 1 if it has none.
LEMMA LastIs ==
    ASSUME FileOK, geo \in Live, storage \in Storage, NEW p, NEW before, RightTable(p, before)
    PROVE  /\ LastKnown(before) \in Nat \ {0}
           /\ \A c \in Chunk : before[c] <= LastKnown(before)
           /\ LastKnown(before) = 1 \/ \E c \in Chunk : before[c] = LastKnown(before)
  <1> DEFINE S == {1} \cup Range(before)
             b == Len(disk) + 1
  <1>1. Len(disk) \in Nat
    BY DEF FileOK
  <1>2. \A c \in Chunk : before[c] \in 0 .. Len(disk)
    BY <1>1, PlaceType DEF RightTable
  <1>3. Range(before) = {before[c] : c \in Chunk}
    BY DEF Range, RightTable
  <1>4. b \in Nat /\ S \subseteq 0 .. b /\ S # {}
    BY <1>1, <1>2, <1>3
  <1>5. Max(S) \in S /\ \A y \in S : y <= Max(S)
    <2> HIDE DEF S, b
    <2>1. QED
      BY <1>4, GreatestIs
  <1>6. LastKnown(before) = Max(S)
    BY DEF LastKnown
  <1> DEFINE m == Max(S)
  <1>7. m \in Nat /\ 1 <= m /\ \A c \in Chunk : before[c] <= m
    <2>1. 1 \in S /\ \A c \in Chunk : before[c] \in S
      BY <1>3
    <2>2. m \in S /\ \A y \in S : y <= m
      BY <1>5
    <2>3. m \in 0 .. b /\ b \in Nat
      BY <1>4, <2>2
    <2> HIDE DEF S, m, b
    <2>4. m \in Nat
      BY <2>3
    <2>5. 1 <= m
      BY <2>1, <2>2
    <2>6. \A c \in Chunk : before[c] <= m
      BY <2>1, <2>2
    <2>7. QED
      BY <2>4, <2>5, <2>6
  <1>8. m = 1 \/ \E c \in Chunk : before[c] = m
    BY <1>3, <1>5
  <1>9. QED
    BY <1>6, <1>7, <1>8

\* The table of the part before, where one is needed.
Before(p, before) == p = 1 \/ RightTable(p - 1, before)

LEMMA ScanIsRight ==
    ASSUME FileOK, geo \in Live, storage \in Storage, NEW p \in Part,
           NEW tab \in [Chunk -> Nat], NEW before, Before(p, before), NEW unreadable
    PROVE  RightScan(p, N, Scan(p, tab, before, unreadable))
  <1>1. PICK s : /\ s[0] = ScanStart(p, before)
                 /\ \A i \in 1 .. N : s[i] = ScanStep(p, tab, unreadable, i, s[i - 1])
                 /\ Scan(p, tab, before, unreadable) = s[N]
    <2> HIDE DEF N
    <2>1. QED
      BY ScanSteps
  <1> DEFINE P == {i \in 0 .. N : RightScan(p, i, s[i])}
  <1>2. N \in Nat /\ p \in Nat /\ p >= 1
    BY ChunksAre, PartsAssumption DEF Part
  <1>3. 0 \in P
    <2>1. Start(p, before) \in Nat \ {0}
      BY <1>2, LastIs DEF Start, Before
    <2> DEFINE scan == ScanStart(p, before)
    <2>2. /\ scan.off \in Nat \ {0} /\ scan.found = [c \in Chunk |-> 0] /\ scan.bad = FALSE
      BY <2>1 DEF ScanStart
    <2> HIDE DEF scan
    <2>3. Seen(scan) = {}
      BY <2>2 DEF Seen
    <2>4. RightScan(p, 0, scan)
      <3>1. RightTable(p, scan.found)
        BY <2>2 DEF RightTable
      <3>2. \A c \in Chunk : scan.found[c] < scan.off
        BY <2>2
      <3>3. Cardinality(Seen(scan)) = 0
        BY <2>3, FS_EmptySet
      <3>4. QED
        BY <2>2, <3>1, <3>2, <3>3 DEF RightScan
    <2>5. QED
      BY <1>1, <1>2, <2>4 DEF scan
  <1>4. ASSUME NEW k \in 0 .. N - 1, k \in P PROVE k + 1 \in P
    <2> HIDE DEF N
    <2>1. k + 1 \in 1 .. N /\ (k + 1) - 1 = k
      BY <1>2
    <2>2. RightScan(p, (k + 1) - 1, s[k])
      BY <1>4, <2>1
    <2>3. RightScan(p, k + 1, ScanStep(p, tab, unreadable, k + 1, s[k]))
      BY <2>1, <2>2, StepRight
    <2>4. QED
      BY <1>1, <1>2, <2>1, <2>3
  <1> HIDE DEF P, N
  <1>5. 0 .. N \subseteq P
    BY <1>2, <1>3, <1>4, Reach
  <1>6. QED
    BY <1>1, <1>2, <1>5 DEF P

LEMMA FileTableRight ==
    ASSUME FileOK, NEW p PROVE RightTable(p, FileTable(p))
  BY PlaceType DEF FileTable, RightTable

\* Whatever is lost or does not fit, the table that is rebuilt is right, or there is none.
LEMMA RebuiltRight ==
    ASSUME FileOK, geo \in Live, storage \in Storage, NEW p \in Part,
           NEW before, before = Failed \/ Before(p, before), NEW unreadable
    PROVE  LET v == Rebuilt(p, before, unreadable) IN (strict /\ v = Failed) \/ RightTable(p, v)
  <1> DEFINE tab == FileTable(p)
             scan == Scan(p, tab, before, unreadable)
             lost == p > 1 /\ (before = Failed \/ Leader(p - 1, LastKnown(before), unreadable) = 0)
             merged == [c \in Chunk |-> IF scan.found[c] = 0 THEN tab[c] ELSE scan.found[c]]
             copied == [c \in Chunk |-> scan.found[c]]
  <1>1. RightTable(p, tab)
    BY FileTableRight
  <1>2. p \in Nat /\ (p = 1 \/ p > 1)
    BY PartsAssumption DEF Part
  <1>3. ASSUME ~lost PROVE RightTable(p, scan.found)
    <2>1. Before(p, before)
      BY <1>2, <1>3 DEF Before
    <2>2. tab \in [Chunk -> Nat]
      BY <1>1 DEF RightTable
    <2>3. RightScan(p, N, scan)
      BY <2>1, <2>2, ScanIsRight
    <2>4. QED
      BY <2>3 DEF RightScan
  <1>4. Rebuilt(p, before, unreadable) =
          CASE lost -> IF strict THEN Failed ELSE tab
            [] ~lost /\ scan.bad -> IF strict THEN Failed ELSE merged
            [] ~lost /\ ~scan.bad -> copied
    BY DEF Rebuilt
  <1> HIDE DEF lost, scan, tab
  <1>5. ASSUME ~lost PROVE RightTable(p, merged) /\ RightTable(p, copied)
    BY <1>1, <1>3, <1>5 DEF RightTable
  <1>6. CASE lost
    BY <1>1, <1>4, <1>6
  <1>7. CASE ~lost /\ scan.bad
    BY <1>4, <1>5, <1>7
  <1>8. CASE ~lost /\ ~scan.bad
    BY <1>4, <1>5, <1>8
  <1>9. QED
    BY <1>6, <1>7, <1>8

-----------------------------------------------------------------------------
(* Files whose parts follow each other.                                     *)

\* What such a file is, and one that is being read.
InOrder == FileOK /\ geo \in Live /\ storage \in Storage /\ Sequential(disk)

LEMMA PlacesAre ==
    ASSUME InOrder
    PROVE  /\ DOMAIN disk = 1 .. Len(disk) /\ Len(disk) \in Nat
           /\ N \in Nat \ {0} /\ Chunk = 1 .. N
           /\ \A j \in DOMAIN disk : /\ disk[j] = <<disk[j][1], disk[j][2]>>
                                     /\ disk[j][1] \in Part /\ disk[j][2] \in Chunk
                                     /\ disk[j][1] \in Nat \ {0} /\ disk[j][2] \in Nat
  <1>1. DOMAIN disk = 1 .. Len(disk) /\ Len(disk) \in Nat
    BY DEF InOrder, FileOK
  <1>2. N \in Nat \ {0} /\ Chunk = 1 .. N
    BY ChunksAre DEF InOrder
  <1>3. \A j \in DOMAIN disk : disk[j] \in Part \X Chunk
    BY DEF InOrder, FileOK
  <1>4. Part \subseteq Nat \ {0}
    BY PartsAssumption DEF Part
  <1>5. ASSUME NEW j \in DOMAIN disk
        PROVE  /\ disk[j] = <<disk[j][1], disk[j][2]>>
               /\ disk[j][1] \in Part /\ disk[j][2] \in Chunk
    BY <1>3, <1>5
  <1>6. ASSUME NEW j \in DOMAIN disk
        PROVE  disk[j][1] \in Nat \ {0} /\ disk[j][2] \in Nat
    <2>1. Chunk \subseteq Nat
      BY <1>2
    <2>2. disk[j][1] \in Part /\ disk[j][2] \in Chunk
      BY <1>5, <1>6
    <2>3. QED
      BY <1>4, <2>1, <2>2
  <1>7. QED
    BY <1>1, <1>2, <1>5, <1>6

\* A later place has no earlier part.
LEMMA PartsFollow ==
    ASSUME InOrder, NEW i \in DOMAIN disk, NEW j \in DOMAIN disk, i < j
    PROVE  disk[i][1] <= disk[j][1]
  <1> DEFINE p == disk[i][1]
             q == disk[j][1]
             c == disk[j][2]
  <1> SUFFICES ASSUME ~(p <= q) PROVE FALSE
    OBVIOUS
  <1>1. /\ p \in Nat \ {0} /\ q \in Nat \ {0} /\ c \in Chunk /\ disk[j] = <<q, c>>
        /\ i \in Nat /\ j \in Nat
    BY PlacesAre
  <1>2. \A h \in DOMAIN disk : h \in Nat /\ h >= 1 /\ 1 .. h - 1 \subseteq DOMAIN disk
    BY PlacesAre
  <1>3. ASSUME NEW h \in DOMAIN disk, disk[h][1] > 1
        PROVE  \E g \in 1 .. h - 1 : disk[g] = <<disk[h][1] - 1, c>>
    BY <1>1, <1>3 DEF InOrder, Sequential
  <1> HIDE DEF p, q, c
  <1> DEFINE n == p - 1 - q
             P == {k \in 0 .. n : \E h \in 1 .. i - 1 : disk[h] = <<p - 1 - k, c>>}
  <1>4. n \in Nat /\ p > 1 /\ p > q
    BY <1>1
  <1>5. 0 \in P
    <2>1. PICK g \in 1 .. i - 1 : disk[g] = <<p - 1, c>>
      BY <1>3, <1>4 DEF p
    <2>2. p - 1 - 0 = p - 1
      BY <1>1
    <2>3. QED
      BY <1>4, <2>1, <2>2
  <1>6. ASSUME NEW k \in 0 .. n - 1, k \in P PROVE k + 1 \in P
    <2>1. PICK h \in 1 .. i - 1 : disk[h] = <<p - 1 - k, c>>
      BY <1>6
    <2>2. h \in DOMAIN disk /\ h \in Nat
      BY <1>2, <2>1
    <2>3. p - 1 - k > 1 /\ p - 1 - k - 1 = p - 1 - (k + 1) /\ k + 1 \in 0 .. n
      BY <1>1, <1>4
    <2>4. PICK g \in 1 .. h - 1 : disk[g] = <<p - 1 - k - 1, c>>
      BY <1>3, <2>1, <2>2, <2>3
    <2>5. g \in 1 .. i - 1
      BY <1>1, <2>1, <2>2, <2>4
    <2>6. disk[g] = <<p - 1 - (k + 1), c>>
      BY <2>3, <2>4
    <2>7. QED
      BY <2>3, <2>5, <2>6
  <1>7. n \in P
    <2> HIDE DEF P, n
    <2>1. 0 .. n \subseteq P
      BY <1>4, <1>5, <1>6, Reach
    <2>2. QED
      BY <1>4, <2>1
  <1>8. PICK h \in 1 .. i - 1 : disk[h] = <<q, c>>
    <2>1. p - 1 - n = q
      BY <1>1
    <2>2. QED
      BY <1>7, <2>1
  <1>9. h \in DOMAIN disk /\ disk[h] = disk[j] /\ h # j
    BY <1>1, <1>2, <1>8
  <1>10. QED
    BY <1>9 DEF InOrder, FileOK

\* The chunks of a part are next to each other.
LEMMA PartsTogether ==
    ASSUME InOrder, NEW i \in DOMAIN disk, NEW j \in DOMAIN disk, NEW m, m \in i .. j,
           disk[i][1] = disk[j][1]
    PROVE  m \in DOMAIN disk /\ disk[m][1] = disk[i][1]
  <1>1. m \in DOMAIN disk /\ i \in Nat /\ j \in Nat /\ m \in Nat
    BY PlacesAre
  <1>2. disk[i][1] \in Nat /\ disk[j][1] \in Nat /\ disk[m][1] \in Nat
    BY <1>1, PlacesAre
  <1>3. i = m \/ disk[i][1] <= disk[m][1]
    BY <1>1, PartsFollow
  <1>4. j = m \/ disk[m][1] <= disk[j][1]
    BY <1>1, PartsFollow
  <1>5. QED
    BY <1>1, <1>2, <1>3, <1>4

\* The place s is the first of part p.
Held(p, j) == j \in DOMAIN disk /\ disk[j][1] = p
First(p, s) == Held(p, s) /\ \A j \in DOMAIN disk : Held(p, j) => s <= j

\* The table v knows all chunks of part p that are in the file.
Knows(p, v) ==
    RightTable(p, v) /\ \A c \in Chunk : <<p, c>> \in ToSet(disk) => v[c] = PlaceOf(p, c)

\* A chunk of a part is in the file: all of the part before are.
LEMMA BeforeIsThere ==
    ASSUME InOrder, NEW p \in Part, p > 1, NEW j \in DOMAIN disk, disk[j][1] = p,
           NEW c \in Chunk
    PROVE  \E i \in 1 .. j - 1 : i \in DOMAIN disk /\ disk[i] = <<p - 1, c>>
  <1>1. PICK i \in 1 .. j - 1 : disk[i] = <<p - 1, c>>
    BY DEF InOrder, Sequential
  <1>2. i \in DOMAIN disk
    BY PlacesAre
  <1>3. QED
    BY <1>1, <1>2

\* Where the scan starts is the first place of the part.
LEMMA StartIs ==
    ASSUME InOrder, NEW p \in Part, NEW before, p > 1 => Knows(p - 1, before),
           NEW j \in DOMAIN disk, disk[j][1] = p
    PROVE  /\ First(p, Start(p, before))
           /\ p > 1 => Leader(p - 1, LastKnown(before), {}) # 0
  <1>1. p \in Nat /\ p >= 1
    BY PartsAssumption DEF Part
  <1>2. /\ DOMAIN disk = 1 .. Len(disk) /\ Len(disk) \in Nat
        /\ \A i \in DOMAIN disk : i \in Nat /\ disk[i][1] \in Nat /\ disk[i][1] >= 1
    BY PlacesAre
  <1>3. CASE p = 1
    <2>1. Start(p, before) = 1 /\ 1 \in DOMAIN disk
      BY <1>2, <1>3 DEF Start
    <2>2. 1 = j \/ disk[1][1] <= disk[j][1]
      BY <1>2, <2>1, PartsFollow
    <2>3. disk[1][1] = 1
      BY <1>2, <1>3, <2>1, <2>2
    <2>4. QED
      BY <1>2, <1>3, <2>1, <2>3 DEF First, Held
  <1>4. CASE p > 1
    <2> DEFINE final == LastKnown(before)
    <2>1. RightTable(p - 1, before)
      BY <1>4 DEF Knows
    <2>2. /\ final \in Nat \ {0} /\ \A c \in Chunk : before[c] <= final
          /\ final = 1 \/ \E c \in Chunk : before[c] = final
      BY <2>1, LastIs DEF InOrder
    <2> HIDE DEF final
    <2>3. ASSUME NEW c \in Chunk
          PROVE  before[c] \in 1 .. j - 1 /\ before[c] \in DOMAIN disk /\ disk[before[c]] = <<p - 1, c>>
      <3>1. PICK i \in 1 .. j - 1 : i \in DOMAIN disk /\ disk[i] = <<p - 1, c>>
        BY <1>4, BeforeIsThere
      <3>2. PlaceOf(p - 1, c) = i
        BY <3>1, PlaceIs DEF InOrder
      <3>3. <<p - 1, c>> \in ToSet(disk)
        BY <3>1 DEF ToSet
      <3>4. before[c] = i
        BY <1>4, <3>2, <3>3 DEF Knows
      <3>5. QED
        BY <3>1, <3>4
    <2>4. 1 \in Chunk
      BY PlacesAre
    <2>5. PICK c \in Chunk : before[c] = final
      <3>1. CASE final = 1
        <4>1. before[1] <= 1 /\ before[1] \in 1 .. j - 1
          BY <2>2, <2>3, <2>4, <3>1
        <4>2. before[1] = 1
          BY <4>1
        <4>3. QED
          BY <2>4, <3>1, <4>2
      <3>2. QED
        BY <2>2, <3>1
    <2>6. final \in 1 .. j - 1 /\ final \in DOMAIN disk /\ disk[final] = <<p - 1, c>>
      BY <2>3, <2>5
    <2>7. final + 1 \in DOMAIN disk /\ final \in Nat /\ j \in Nat
      BY <1>2, <2>6
    <2>8. ASSUME NEW i \in DOMAIN disk, disk[i][1] = p - 1 PROVE i <= final
      <3>1. disk[i] = <<p - 1, disk[i][2]>> /\ disk[i][2] \in Chunk
        BY <2>8, PlacesAre
      <3>2. PlaceOf(p - 1, disk[i][2]) = i
        BY <3>1, PlaceIs DEF InOrder
      <3>3. <<p - 1, disk[i][2]>> \in ToSet(disk)
        BY <3>1 DEF ToSet
      <3>4. before[disk[i][2]] = i
        BY <1>4, <3>1, <3>2, <3>3 DEF Knows
      <3>5. QED
        BY <2>2, <3>1, <3>4
    <2>9. disk[final][1] <= disk[final + 1][1]
      BY <2>6, <2>7, PartsFollow
    <2>10. final + 1 = j \/ disk[final + 1][1] <= disk[j][1]
      BY <2>6, <2>7, PartsFollow
    <2>11. disk[final + 1][1] # p - 1
      BY <2>7, <2>8
    <2>12. disk[final][1] = p - 1
      BY <2>6
    <2>13. disk[final + 1][1] = p
      BY <1>1, <1>2, <2>7, <2>9, <2>10, <2>11, <2>12
    <2>14. ASSUME NEW i \in DOMAIN disk, disk[i][1] = p PROVE final + 1 <= i
      <3>1. ~(i < final)
        BY <1>1, <2>6, <2>12, <2>14, PartsFollow
      <3>2. i # final
        BY <1>1, <2>12, <2>14
      <3>3. QED
        BY <1>2, <2>7, <3>1, <3>2
    <2>15. Start(p, before) = final + 1
      BY <1>4 DEF Start, final
    <2>16. Leader(p - 1, final, {}) # 0
      BY <2>6, <2>12, LeaderIs DEF InOrder
    <2>17. QED
      BY <2>7, <2>13, <2>14, <2>15, <2>16 DEF First, Held, final
  <1>5. QED
    BY <1>1, <1>3, <1>4

-----------------------------------------------------------------------------
(* What the scan finds is all that is there.                                *)

LEMMA RankType ==
    ASSUME InOrder, NEW c \in Chunk
    PROVE  /\ Rank(c) \in 1 .. N
           /\ \A d \in Chunk : Rank(d) = Rank(c) => d = c
           /\ \A k \in 1 .. N : \E d \in Chunk : Rank(d) = k
  <1>1. N \in Nat \ {0} /\ Chunk = 1 .. N
    BY PlacesAre
  <1> HIDE DEF N
  <1>2. Rank(c) \in 1 .. N /\ \A d \in Chunk : Rank(d) = Rank(c) => d = c
    BY <1>1 DEF Rank
  <1>3. ASSUME NEW k \in 1 .. N PROVE \E d \in Chunk : Rank(d) = k
    <2>1. Rank(k) = k \/ Rank(N + 1 - k) = k
      BY <1>1 DEF Rank
    <2>2. k \in Chunk /\ N + 1 - k \in Chunk
      BY <1>1
    <2>3. QED
      BY <2>1, <2>2
  <1>4. QED
    BY <1>2, <1>3

\* The places from the first of a part to another of the part.
LEMMA FromFirst ==
    ASSUME InOrder, NEW p, NEW s, First(p, s), NEW r \in Nat, Held(p, s + r)
    PROVE  s \in Nat /\ \A h \in 0 .. r : Held(p, s + h) /\ s + h \in Nat
  <1>1. s \in DOMAIN disk /\ s \in Nat /\ disk[s][1] = p /\ s + r \in DOMAIN disk /\ disk[s + r][1] = p
    BY PlacesAre DEF First, Held
  <1>2. ASSUME NEW h \in 0 .. r PROVE Held(p, s + h) /\ s + h \in Nat
    <2>1. s + h \in s .. s + r /\ s + h \in Nat
      BY <1>1
    <2>2. QED
      BY <1>1, <2>1, PartsTogether DEF Held
  <1>3. QED
    BY <1>1, <1>2

\* Lines are found in their order, from the first.
LEMMA LinesInOrder ==
    ASSUME InOrder, storage # "tiled", NEW p, NEW s, First(p, s),
           NEW r \in Nat, Held(p, s + r)
    PROVE  Rank(disk[s + r][2]) = r + 1
  <1> DEFINE Ranked(h) == Rank(disk[s + h][2]) = h + 1
             P == {k \in 0 .. r : \A h \in 0 .. k : Ranked(h)}
  <1>1. s \in Nat /\ \A h \in 0 .. r : Held(p, s + h) /\ s + h \in Nat
    BY FromFirst
  <1>2. \A h \in 0 .. r : s + h \in DOMAIN disk /\ disk[s + h] = <<p, disk[s + h][2]>>
                          /\ disk[s + h][2] \in Chunk
    BY <1>1, PlacesAre DEF Held
  <1>3. N \in Nat
    BY PlacesAre
  <1>4. ASSUME NEW k \in 0 .. r, \A h \in 0 .. k - 1 : Ranked(h) PROVE Ranked(k)
    <2> DEFINE c == disk[s + k][2]
               x == Rank(c)
    <2>1. c \in Chunk /\ disk[s + k] = <<p, c>> /\ s + k \in DOMAIN disk /\ x \in 1 .. N
      BY <1>2, RankType
    <2>2. ~(x > k + 1)
      <3> SUFFICES ASSUME x > k + 1 PROVE FALSE
        OBVIOUS
      <3>1. k + 1 \in 1 .. N
        BY <1>3, <2>1
      <3>2. PICK d \in Chunk : Rank(d) = k + 1
        BY <2>1, <3>1, RankType
      <3>3. Rank(d) < Rank(disk[s + k][2])
        BY <3>2
      <3>4. PICK i \in 1 .. s + k - 1 : disk[i] = <<disk[s + k][1], d>>
        <4>1. \A j \in DOMAIN disk, e \in Chunk : Rank(e) < Rank(disk[j][2]) =>
                 \E i \in 1 .. j - 1 : disk[i] = <<disk[j][1], e>>
          BY DEF InOrder, FileOK
        <4> DEFINE j == s + k
        <4>2. j \in DOMAIN disk /\ Rank(d) < Rank(disk[j][2])
          BY <2>1, <3>3
        <4> HIDE DEF j
        <4>3. \E i \in 1 .. j - 1 : disk[i] = <<disk[j][1], d>>
          BY <4>1, <4>2
        <4>4. QED
          BY <1>1, <4>3 DEF j
      <3>5. disk[i] = <<p, d>> /\ disk[i][1] = p /\ disk[i][2] = d
        BY <2>1, <3>4
      <3>6. i \in DOMAIN disk
        BY <1>1, <2>1, <3>4, PlacesAre
      <3>7. s <= i
        BY <3>5, <3>6 DEF First, Held
      <3>8. i - s \in 0 .. k - 1 /\ s + (i - s) = i
        BY <1>1, <3>4, <3>7
      <3>9. Rank(disk[i][2]) = i - s + 1
        BY <1>4, <3>8
      <3>10. QED
        BY <3>2, <3>5, <3>8, <3>9
    <2>3. ~(x <= k)
      <3> SUFFICES ASSUME x <= k PROVE FALSE
        OBVIOUS
      <3>1. x - 1 \in 0 .. k - 1 /\ x - 1 \in 0 .. r
        BY <1>3, <2>1
      <3> DEFINE d == disk[s + (x - 1)][2]
      <3>2. Rank(d) = x
        BY <1>3, <1>4, <2>1, <3>1
      <3>3. d \in Chunk /\ disk[s + (x - 1)] = <<p, d>> /\ s + (x - 1) \in DOMAIN disk
        BY <1>2, <3>1
      <3>4. d = c
        BY <2>1, <3>2, <3>3, RankType
      <3>5. s + (x - 1) # s + k
        BY <1>1, <3>1
      <3>6. QED
        BY <2>1, <3>3, <3>4, <3>5 DEF InOrder, FileOK
    <2>4. QED
      BY <1>3, <2>1, <2>2, <2>3
  <1>5. 0 \in P
    <2>1. Ranked(0)
      <3> HIDE DEF Ranked
      <3>1. QED
        BY <1>4
    <2> HIDE DEF Ranked
    <2>2. QED
      BY <2>1
  <1>6. ASSUME NEW k \in 0 .. r - 1, k \in P PROVE k + 1 \in P
    <2> HIDE DEF Ranked
    <2>1. k + 1 \in 0 .. r /\ \A h \in 0 .. (k + 1) - 1 : Ranked(h)
      BY <1>6
    <2>2. Ranked(k + 1)
      BY <1>4, <2>1
    <2>3. QED
      BY <1>6, <2>1, <2>2
  <1>7. r \in P
    <2> HIDE DEF P
    <2>1. 0 .. r \subseteq P
      BY <1>5, <1>6, Reach
    <2>2. QED
      BY <2>1
  <1>8. QED
    BY <1>7

\* The chunks of a part have increasing numbers along the file.
Orderly(p) ==
    \A i, j \in DOMAIN disk :
        i < j /\ disk[i][1] = p /\ disk[j][1] = p => disk[i][2] < disk[j][2]

LEMMA NumbersGrow ==
    ASSUME InOrder, NEW p, Orderly(p), NEW s, First(p, s), NEW r \in Nat, Held(p, s + r)
    PROVE  disk[s + r][2] >= r + 1
  <1> DEFINE P == {k \in 0 .. r : disk[s + k][2] >= k + 1}
  <1>1. s \in Nat /\ \A h \in 0 .. r : Held(p, s + h) /\ s + h \in Nat
    BY FromFirst
  <1>2. \A h \in 0 .. r : s + h \in DOMAIN disk /\ disk[s + h][1] = p
                          /\ disk[s + h][2] \in Nat /\ disk[s + h][2] >= 1
    <2>1. \A c \in Chunk : c \in Nat /\ c >= 1
      BY PlacesAre
    <2>2. \A j \in DOMAIN disk : disk[j][2] \in Chunk
      BY PlacesAre
    <2>3. ASSUME NEW h \in 0 .. r
          PROVE  s + h \in DOMAIN disk /\ disk[s + h][1] = p /\ disk[s + h][2] \in Chunk
      BY <1>1, <2>2, <2>3 DEF Held
    <2>4. QED
      BY <2>1, <2>3
  <1>3. 0 \in P
    BY <1>2
  <1>4. ASSUME NEW k \in 0 .. r - 1, k \in P PROVE k + 1 \in P
    <2>1. k \in 0 .. r /\ k + 1 \in 0 .. r /\ s + k < s + (k + 1)
      BY <1>1
    <2>2. disk[s + k][2] < disk[s + (k + 1)][2]
      BY <1>2, <2>1 DEF Orderly
    <2>3. disk[s + k][2] \in Nat /\ disk[s + (k + 1)][2] \in Nat
      BY <1>2, <2>1
    <2>4. disk[s + k][2] >= k + 1
      BY <1>4
    <2>5. disk[s + (k + 1)][2] >= (k + 1) + 1
      BY <2>1, <2>2, <2>3, <2>4
    <2>6. QED
      BY <2>1, <2>5
  <1> HIDE DEF P
  <1>5. 0 .. r \subseteq P
    BY <1>3, <1>4, Reach
  <1>6. r \in P
    BY <1>5
  <1>7. QED
    BY <1>6 DEF P

\* The table lost all its entries, or its chunks have increasing numbers.
Repairable(p, tab) == (\A c \in Chunk : tab[c] = 0) \/ Orderly(p)

\* The scan found all from the first place of the part to where it is, and there it is
\* no longer in the part or was in it all the time, and then all fitted.
InScan(p, s, i, scan) ==
    /\ scan.off \in Nat /\ s <= scan.off /\ scan.off <= s + i
    /\ scan.off = s + i \/ ~Held(p, scan.off)
    /\ scan.bad => scan.off < s + i
    /\ \A j \in s .. scan.off - 1 : Held(p, j) /\ scan.found[disk[j][2]] = j

\* No entry leads the scan past a chunk of the part.
LEMMA EntryBehind ==
    ASSUME InOrder, NEW p, NEW tab, RightTable(p, tab), Repairable(p, tab),
           NEW s, First(p, s), NEW i \in 1 .. N, NEW off \in Nat, s <= off,
           off = s + (i - 1) \/ ~Held(p, off)
    PROVE  tab[i] <= off
  <1>1. N \in Nat /\ Chunk = 1 .. N /\ \A j \in DOMAIN disk : j \in Nat
    BY PlacesAre
  <1>2. i \in Chunk /\ i \in Nat
    BY <1>1
  <1>3. CASE tab[i] = 0
    BY <1>3
  <1>4. CASE tab[i] # 0
    <2> DEFINE j == tab[i]
    <2>1. j = PlaceOf(p, i)
      BY <1>2, <1>4 DEF RightTable
    <2>2. j \in Nat /\ j \in DOMAIN disk /\ disk[j] = <<p, i>>
      <3>1. j \in Nat /\ j <= Len(disk) /\ disk[j] = <<p, i>>
        BY <1>4, <2>1, PlaceType DEF InOrder
      <3>2. QED
        BY <1>4, <3>1, PlacesAre
    <2>3. Held(p, j) /\ Orderly(p) /\ disk[j][1] = p /\ disk[j][2] = i
      BY <1>2, <1>4, <2>2 DEF Held, Repairable
    <2> HIDE DEF j
    <2>4. s \in DOMAIN disk /\ s \in Nat /\ s <= j /\ disk[s][1] = p
      BY <1>1, <2>2, <2>3 DEF First, Held
    <2> DEFINE r == j - s
    <2>5. r \in Nat /\ s + r = j
      BY <2>2, <2>4
    <2>6. disk[s + r][2] >= r + 1
      <3>1. Held(p, s + r)
        BY <2>3, <2>5
      <3> HIDE DEF r
      <3>2. QED
        BY <2>3, <2>5, <3>1, NumbersGrow
    <2>7. j <= s + (i - 1)
      BY <1>2, <2>2, <2>3, <2>4, <2>5, <2>6
    <2>8. CASE off = s + (i - 1)
      BY <2>7, <2>8 DEF j
    <2>9. CASE ~Held(p, off)
      <3>1. ~(off < j)
        <4> SUFFICES ASSUME off < j PROVE FALSE
          OBVIOUS
        <4>1. off \in s .. j
          BY <2>2, <2>4
        <4>2. Held(p, off)
          BY <2>2, <2>3, <2>4, <4>1, PartsTogether DEF Held
        <4>3. QED
          BY <2>9, <4>2
      <3>2. QED
        BY <2>2, <3>1 DEF j
    <2>10. QED
      BY <2>8, <2>9
  <1>5. QED
    BY <1>3, <1>4

LEMMA StepFinds ==
    ASSUME InOrder, NEW p \in Part, NEW tab, RightTable(p, tab), Repairable(p, tab),
           NEW s, First(p, s), NEW i \in 1 .. N, NEW scan,
           RightScan(p, i - 1, scan), InScan(p, s, i - 1, scan)
    PROVE  InScan(p, s, i, ScanStep(p, tab, {}, i, scan))
  <1> DEFINE off == Larger(tab[i], scan.off)
             c == Leader(p, off, {})
             want == IF storage = "decreasing" THEN Cardinality(Chunk) + 1 - i ELSE i
             fits == c # 0 /\ (storage = "tiled" \/ c = want)
             found == IF fits /\ scan.found[c] = 0 THEN [scan.found EXCEPT ![c] = off]
                      ELSE scan.found
             next == [off |-> IF c = 0 THEN off ELSE off + 1, found |-> found,
                      bad |-> scan.bad \/ ~fits]
  <1>1. ScanStep(p, tab, {}, i, scan) = next
    BY DEF ScanStep
  <1>2. /\ N \in Nat /\ Chunk = 1 .. N /\ i \in Chunk /\ i \in Nat
        /\ DOMAIN disk = 1 .. Len(disk) /\ Len(disk) \in Nat
        /\ \A j \in DOMAIN disk : disk[j][2] \in Chunk
    BY PlacesAre
  <1>3. s \in DOMAIN disk /\ s \in Nat /\ s >= 1
    BY <1>2 DEF First, Held
  <1>4. /\ scan.off \in Nat /\ s <= scan.off /\ scan.off <= s + (i - 1)
        /\ scan.off = s + (i - 1) \/ ~Held(p, scan.off)
        /\ scan.bad => scan.off < s + (i - 1)
    BY DEF InScan
  <1>5. off = scan.off
    <2> HIDE DEF N
    <2>1. tab[i] <= scan.off
      BY <1>4, EntryBehind
    <2>2. tab[i] \in Nat
      BY <1>2 DEF RightTable
    <2>3. QED
      BY <1>4, <2>1, <2>2 DEF Larger
  <1>6. /\ next.off = (IF c = 0 THEN off ELSE off + 1) /\ next.found = found
    OBVIOUS
  <1>7. c # 0 <=> Held(p, off)
    <2>1. c # 0 => off \in DOMAIN disk /\ disk[off] = <<p, c>>
      BY LeaderIs DEF InOrder
    <2>2. off \in DOMAIN disk => (c # 0 <=> disk[off][1] = p)
      BY LeaderIs DEF InOrder
    <2> HIDE DEF c, off
    <2>3. QED
      BY <2>1, <2>2 DEF Held
  <1>8. c # 0 => c \in Chunk /\ disk[off] = <<p, c>>
    BY LeaderIs DEF InOrder
  <1>9. RightTable(p, scan.found) /\ scan.found \in [Chunk -> Nat]
    BY DEF RightScan, RightTable
  <1>10. ASSUME NEW j \in s .. off - 1
         PROVE  Held(p, j) /\ scan.found[disk[j][2]] = j
    BY <1>5, <1>10 DEF InScan
  <1>11. CASE c = 0
    <2>1. next.off = off /\ found = scan.found
      BY <1>6, <1>11
    <2> HIDE DEF next, found, off, c
    <2>2. off < s + i /\ off <= s + i
      BY <1>2, <1>3, <1>4, <1>5
    <2>3. QED
      BY <1>1, <1>4, <1>5, <1>6, <1>7, <1>10, <1>11, <2>1, <2>2 DEF InScan
  <1>12. CASE c # 0
    <2>1. Held(p, off) /\ off = s + (i - 1) /\ next.off = off + 1
      BY <1>4, <1>5, <1>6, <1>7, <1>12
    <2>2. fits
      <3>1. CASE storage = "tiled"
        BY <1>12, <3>1
      <3>2. CASE storage # "tiled"
        <4>1. off \in DOMAIN disk /\ disk[off][2] = c /\ c \in Chunk
          BY <1>8, <1>12, <2>1 DEF Held
        <4>2. i - 1 \in Nat
          BY <1>2
        <4>3. Rank(c) = (i - 1) + 1
          <5> HIDE DEF c, off
          <5>1. Rank(disk[s + (i - 1)][2]) = (i - 1) + 1
            BY <2>1, <3>2, <4>2, LinesInOrder
          <5>2. QED
            BY <2>1, <4>1, <5>1
        <4>4. c = want
          <5> HIDE DEF c
          <5>1. CASE storage = "decreasing"
            BY <1>2, <4>1, <4>3, <5>1 DEF Rank, N
          <5>2. CASE storage # "decreasing"
            BY <1>2, <4>1, <4>3, <5>2 DEF Rank
          <5>3. QED
            BY <5>1, <5>2
        <4>5. QED
          BY <1>12, <4>4
      <3>3. QED
        BY <3>1, <3>2
    <2>7. ~next.bad
      <3>1. next.bad = (scan.bad \/ ~fits)
        OBVIOUS
      <3> HIDE DEF next, fits, off, c
      <3>2. ~scan.bad
        BY <1>3, <1>4, <1>5, <2>1
      <3>3. QED
        BY <2>2, <3>1, <3>2
    <2> HIDE DEF fits, next, off, c
    <2>3. /\ found \in [Chunk -> Nat] /\ found[c] = off
          /\ \A d \in Chunk : d # c => found[d] = scan.found[d]
      <3>1. c \in Chunk /\ off \in Nat /\ off # 0
        BY <1>3, <1>4, <1>5, <1>8, <1>12
      <3>2. PlaceOf(p, c) = off
        BY <1>8, <1>12, <2>1, PlaceIs DEF InOrder, Held
      <3>3. scan.found[c] = 0 \/ scan.found[c] = off
        BY <1>9, <3>1, <3>2 DEF RightTable
      <3>4. QED
        BY <1>9, <2>2, <3>1, <3>3
    <2> HIDE DEF found
    <2>4. ASSUME NEW j \in s .. off
          PROVE  Held(p, j) /\ found[disk[j][2]] = j
      <3>1. CASE j = off
        BY <1>8, <1>12, <2>1, <2>3, <3>1
      <3>2. CASE j # off
        <4>1. j \in s .. off - 1 /\ j \in Nat /\ off \in Nat
          BY <1>3, <1>4, <1>5, <3>2
        <4>2. Held(p, j) /\ scan.found[disk[j][2]] = j
          BY <1>10, <4>1
        <4>3. disk[j][2] \in Chunk
          BY <1>2, <4>2 DEF Held
        <4>4. CASE disk[j][2] = c
          <5>1. disk[j] = disk[off] /\ j \in DOMAIN disk /\ off \in DOMAIN disk
            <6>1. disk[j] = <<p, disk[j][2]>>
              BY <4>2, PlacesAre DEF Held
            <6>2. QED
              BY <1>8, <1>12, <2>1, <4>2, <4>4, <6>1 DEF Held
          <5>2. j = off
            BY <5>1 DEF InOrder, FileOK
          <5>3. QED
            BY <3>2, <5>2
        <4>5. CASE disk[j][2] # c
          BY <2>3, <4>2, <4>3, <4>5
        <4>6. QED
          BY <4>4, <4>5
      <3>3. QED
        BY <3>1, <3>2
    <2>5. next.off = s + i /\ next.off \in Nat /\ s <= next.off /\ next.off - 1 = off
      BY <1>2, <1>3, <1>4, <1>5, <2>1
    <2>6. next.off <= s + i
      BY <1>2, <1>3, <2>5
    <2>8. QED
      BY <1>1, <1>6, <2>4, <2>5, <2>6, <2>7 DEF InScan
  <1>13. QED
    BY <1>11, <1>12

\* The chunks of part p that are in the file are found, and if all are, all fits.
LEMMA ScanFindsAll ==
    ASSUME InOrder, NEW p \in Part, NEW tab, RightTable(p, tab), Repairable(p, tab),
           NEW before, Before(p, before), First(p, Start(p, before))
    PROVE  LET scan == Scan(p, tab, before, {}) IN
           /\ \A c \in Chunk : <<p, c>> \in ToSet(disk) => scan.found[c] = PlaceOf(p, c)
           /\ scan.bad => \E c \in Chunk : <<p, c>> \notin ToSet(disk)
  <1> DEFINE s == Start(p, before)
  <1>1. PICK f : /\ f[0] = ScanStart(p, before)
                 /\ \A i \in 1 .. N : f[i] = ScanStep(p, tab, {}, i, f[i - 1])
                 /\ Scan(p, tab, before, {}) = f[N]
    <2> HIDE DEF N
    <2>1. QED
      BY ScanSteps DEF InOrder
  <1>2. /\ N \in Nat /\ Chunk = 1 .. N /\ p \in Nat
        /\ DOMAIN disk = 1 .. Len(disk) /\ Len(disk) \in Nat
    BY PlacesAre, PartsAssumption DEF Part
  <1>3. s \in DOMAIN disk /\ s \in Nat /\ s >= 1 /\ First(p, s) /\ Held(p, s)
    BY <1>2 DEF First, Held
  <1>4. tab \in [Chunk -> Nat]
    BY DEF RightTable
  <1> DEFINE P == {i \in 0 .. N : RightScan(p, i, f[i]) /\ InScan(p, s, i, f[i])}
  <1>5. 0 \in P
    <2> DEFINE scan == ScanStart(p, before)
    <2>1. /\ scan.off = s /\ scan.found = [c \in Chunk |-> 0] /\ scan.bad = FALSE
      BY DEF ScanStart
    <2> HIDE DEF scan, s
    <2>2. InScan(p, s, 0, scan)
      BY <1>3, <2>1 DEF InScan
    <2>3. Seen(scan) = {}
      BY <2>1 DEF Seen
    <2>4. RightTable(p, scan.found) /\ \A c \in Chunk : scan.found[c] < scan.off
      BY <1>3, <2>1 DEF RightTable
    <2>5. RightScan(p, 0, scan)
      <3>1. Cardinality(Seen(scan)) = 0
        BY <2>3, FS_EmptySet
      <3>2. scan.off \in Nat \ {0}
        BY <1>3, <2>1
      <3>3. scan.bad \in BOOLEAN
        BY <2>1
      <3>4. QED
        BY <2>4, <3>1, <3>2, <3>3 DEF RightScan
    <2>6. QED
      BY <1>1, <1>2, <2>2, <2>5 DEF scan
  <1> HIDE DEF s
  <1>6. ASSUME NEW k \in 0 .. N - 1, k \in P PROVE k + 1 \in P
    <2> HIDE DEF N
    <2>1. k + 1 \in 1 .. N /\ (k + 1) - 1 = k
      BY <1>2
    <2> DEFINE i == k + 1
               next == ScanStep(p, tab, {}, i, f[k])
    <2>2. i \in 1 .. N /\ RightScan(p, i - 1, f[k]) /\ InScan(p, s, i - 1, f[k])
      BY <1>6, <2>1
    <2> HIDE DEF i
    <2>3. RightScan(p, i, next)
      BY <1>4, <2>2, StepRight DEF InOrder
    <2>4. InScan(p, s, i, next)
      BY <1>3, <2>2, StepFinds
    <2>5. f[i] = next
      BY <1>1, <2>1 DEF i
    <2> HIDE DEF next
    <2>6. QED
      BY <1>2, <2>1, <2>2, <2>3, <2>4, <2>5 DEF i
  <1> DEFINE scan == f[N]
  <1>7. RightScan(p, N, scan) /\ InScan(p, s, N, scan)
    <2> HIDE DEF P, N
    <2>1. 0 .. N \subseteq P
      BY <1>2, <1>5, <1>6, Reach
    <2>2. N \in P
      BY <1>2, <2>1
    <2>3. QED
      BY <2>2 DEF P
  <1> HIDE DEF P, scan
  <1>8. /\ scan.off \in Nat /\ s <= scan.off /\ scan.off <= s + N
        /\ scan.off = s + N \/ ~Held(p, scan.off)
        /\ scan.bad => scan.off < s + N
        /\ \A j \in s .. scan.off - 1 : Held(p, j) /\ scan.found[disk[j][2]] = j
    BY <1>7 DEF InScan
  <1>9. ~Held(p, s + N)
    <2> SUFFICES ASSUME Held(p, s + N) PROVE FALSE
      OBVIOUS
    <2> HIDE DEF N
    <2>1. \A h \in 0 .. N : Held(p, s + h) /\ s + h \in Nat
      BY <1>2, <1>3, FromFirst
    <2> DEFINE g == [h \in 0 .. N |-> disk[s + h][2]]
    <2>2. \A h \in 0 .. N : disk[s + h] = <<p, disk[s + h][2]>> /\ disk[s + h][2] \in Chunk
      BY <2>1, PlacesAre DEF Held
    <2>3. g \in [0 .. N -> Chunk]
      BY <2>2
    <2>4. IsFiniteSet(Chunk) /\ Cardinality(Chunk) = N
      BY ChunksAre DEF InOrder, N
    <2>5. IsFiniteSet(0 .. N) /\ Cardinality(0 .. N) = N + 1
      BY <1>2, FS_Interval
    <2>6. PICK x, y \in 0 .. N : x # y /\ g[x] = g[y]
      <3> HIDE DEF g
      <3>1. Cardinality(Chunk) < Cardinality(0 .. N)
        BY <1>2, <2>4, <2>5
      <3>2. QED
        BY <2>3, <2>4, <2>5, <3>1, FS_PigeonHole
    <2>7. disk[s + x] = disk[s + y] /\ s + x # s + y
      BY <1>3, <2>2, <2>6
    <2>8. s + x \in DOMAIN disk /\ s + y \in DOMAIN disk
      BY <2>1 DEF Held
    <2>9. QED
      BY <2>7, <2>8 DEF InOrder, FileOK
  <1>10. ASSUME NEW j \in DOMAIN disk, disk[j][1] = p PROVE j \in s .. scan.off - 1
    <2>1. j \in Nat /\ s <= j
      BY <1>2, <1>3, <1>10 DEF First, Held
    <2>2. ~(scan.off <= j)
      <3> SUFFICES ASSUME scan.off <= j PROVE FALSE
        OBVIOUS
      <3>1. scan.off \in s .. j
        BY <1>3, <1>8, <2>1
      <3>2. Held(p, scan.off)
        BY <1>3, <1>10, <3>1, PartsTogether DEF Held
      <3>3. QED
        BY <1>8, <1>9, <3>2
    <2>3. QED
      BY <1>3, <1>8, <2>1, <2>2
  <1>11. ASSUME NEW c \in Chunk, <<p, c>> \in ToSet(disk)
         PROVE  PlaceOf(p, c) \in s .. scan.off - 1 /\ scan.found[c] = PlaceOf(p, c)
    <2>1. PICK j \in DOMAIN disk : disk[j] = <<p, c>>
      BY <1>11 DEF ToSet
    <2>2. disk[j][1] = p /\ disk[j][2] = c
      BY <2>1
    <2>3. j \in s .. scan.off - 1
      BY <1>10, <2>2
    <2>4. scan.found[c] = j
      BY <1>8, <2>2, <2>3
    <2>5. PlaceOf(p, c) = j
      BY <2>1, PlaceIs DEF InOrder
    <2>6. QED
      BY <2>3, <2>4, <2>5
  <1>12. ASSUME scan.bad, \A c \in Chunk : <<p, c>> \in ToSet(disk) PROVE FALSE
    <2> DEFINE g == [c \in Chunk |-> PlaceOf(p, c)]
               T == s .. scan.off - 1
    <2>1. g \in [Chunk -> T]
      BY <1>11, <1>12
    <2>2. IsFiniteSet(Chunk) /\ Cardinality(Chunk) = N
      BY ChunksAre DEF InOrder, N
    <2> HIDE DEF N
    <2>3. IsFiniteSet(T) /\ Cardinality(T) < N
      <3>1. scan.off - 1 \in Int /\ s \in Int
        BY <1>3, <1>8
      <3>2. IsFiniteSet(T) /\ Cardinality(T) = IF s > scan.off - 1 THEN 0 ELSE (scan.off - 1) - s + 1
        BY <3>1, FS_Interval
      <3>3. scan.off < s + N /\ N # 0
        BY <1>8, <1>12, PlacesAre
      <3>4. QED
        BY <1>2, <1>3, <1>8, <3>2, <3>3
    <2>4. PICK c, d \in Chunk : c # d /\ g[c] = g[d]
      <3> HIDE DEF g, T
      <3>1. QED
        BY <2>1, <2>2, <2>3, FS_PigeonHole
    <2>5. PlaceOf(p, c) = PlaceOf(p, d) /\ PlaceOf(p, c) \in s .. scan.off - 1
      BY <1>11, <1>12, <2>4
    <2>6. PlaceOf(p, c) # 0
      BY <1>3, <1>8, <2>5
    <2>7. disk[PlaceOf(p, c)] = <<p, c>> /\ disk[PlaceOf(p, d)] = <<p, d>>
      BY <2>5, <2>6, PlaceType DEF InOrder
    <2>8. QED
      BY <2>4, <2>5, <2>7
  <1>13. QED
    BY <1>1, <1>11, <1>12 DEF scan

-----------------------------------------------------------------------------
(* What is there is found.                                                  *)

\* What NothingMissed excepts.
Excused(p) ==
    \/ strict /\ Part \X Chunk # ToSet(disk)
    \/ \E q \in 1 .. p : Mangled(q)

Good(p, v) == Excused(p) \/ Knows(p, v)

LEMMA NotMangled ==
    ASSUME InOrder, NEW p \in Part, ~Mangled(p), ~Complete(FileTable(p))
    PROVE  Repairable(p, FileTable(p))
  <1>1. PICK d \in Chunk : FileTable(p)[d] = 0
    BY DEF Complete
  <1>2. ASSUME NEW c \in Chunk, <<p, c>> \notin damaged PROVE FileTable(p)[c] # 0
    <2>1. <<p, c>> \in ToSet(disk)
      BY <1>2 DEF InOrder, FileOK
    <2>2. PICK j \in DOMAIN disk : disk[j] = <<p, c>>
      BY <2>1 DEF ToSet
    <2>3. PlaceOf(p, c) = j /\ j # 0
      BY <2>2, PlaceIs, PlacesAre DEF InOrder
    <2>4. QED
      BY <1>2, <2>3 DEF FileTable
  <1>3. <<p, d>> \in damaged
    BY <1>1, <1>2
  <1>4. CASE \A c \in Chunk : <<p, c>> \in damaged
    BY <1>4 DEF FileTable, Repairable
  <1>5. CASE ~(\A c \in Chunk : <<p, c>> \in damaged)
    <2>1. \A i, j \in DOMAIN disk :
             i < j /\ disk[i][1] = p /\ disk[j][1] = p => ~(disk[i][2] > disk[j][2])
      BY <1>3, <1>5 DEF Mangled
    <2>2. ASSUME NEW i \in DOMAIN disk, NEW j \in DOMAIN disk, i < j,
                 disk[i][1] = p, disk[j][1] = p
          PROVE  disk[i][2] < disk[j][2]
      <3>1. /\ disk[i] = <<p, disk[i][2]>> /\ disk[j] = <<p, disk[j][2]>>
            /\ disk[i][2] \in Nat /\ disk[j][2] \in Nat /\ i \in Nat /\ j \in Nat
        BY <2>2, PlacesAre
      <3>2. disk[i][2] # disk[j][2]
        BY <2>2, <3>1 DEF InOrder, FileOK
      <3>3. ~(disk[i][2] > disk[j][2])
        BY <2>1, <2>2
      <3>4. QED
        BY <3>1, <3>2, <3>3
    <2>3. QED
      BY <2>2 DEF Orderly, Repairable
  <1>6. QED
    BY <1>4, <1>5

\* The table of a part is rebuilt from the chunks in the file.
LEMMA RebuiltGood ==
    ASSUME InOrder, NEW p \in Part, ~Complete(FileTable(p)), NEW before,
           p > 1 => Good(p - 1, before)
    PROVE  Good(p, Rebuilt(p, before, {}))
  <1> SUFFICES ASSUME ~Excused(p) PROVE Knows(p, Rebuilt(p, before, {}))
    BY DEF Good
  <1> DEFINE tab == FileTable(p)
             scan == Scan(p, tab, before, {})
             lost == p > 1 /\ (before = Failed \/ Leader(p - 1, LastKnown(before), {}) = 0)
             merged == [c \in Chunk |-> IF scan.found[c] = 0 THEN tab[c] ELSE scan.found[c]]
             copied == [c \in Chunk |-> scan.found[c]]
             v == Rebuilt(p, before, {})
  <1>1. p \in Nat /\ p >= 1 /\ (p = 1 \/ p > 1)
    BY PartsAssumption DEF Part
  <1>2. p > 1 => Knows(p - 1, before)
    <2> SUFFICES ASSUME p > 1 PROVE ~Excused(p - 1)
      BY DEF Good
    <2>1. 1 .. p - 1 \subseteq 1 .. p
      BY <1>1
    <2>2. QED
      BY <2>1 DEF Excused
  <1>3. /\ Chunk = 1 .. N /\ N \in Nat /\ 1 \in Chunk
        /\ FileOK /\ geo \in Live /\ storage \in Storage
    BY PlacesAre DEF InOrder
  <1>4. p > 1 => before # Failed
    <2>1. [Chunk -> Nat] \subseteq Seq(Nat)
      BY <1>3
    <2>2. QED
      BY <1>2, <2>1, TableAssumption DEF Knows, RightTable
  <1>5. Before(p, before) /\ RightTable(p, tab)
    BY <1>1, <1>2, <1>3, FileTableRight DEF Before, Knows
  <1>6. v = CASE lost -> IF strict THEN Failed ELSE tab
              [] ~lost /\ scan.bad -> IF strict THEN Failed ELSE merged
              [] ~lost /\ ~scan.bad -> copied
    BY DEF Rebuilt
  <1>7. (strict /\ v = Failed) \/ RightTable(p, v)
    BY <1>3, <1>5, RebuiltRight
  <1> HIDE DEF v, scan, tab
  <1>8. CASE \A j \in DOMAIN disk : disk[j][1] # p
    <2>1. ASSUME NEW c \in Chunk PROVE <<p, c>> \notin ToSet(disk)
      BY <1>8 DEF ToSet
    <2>2. <<p, 1>> \in Part \X Chunk
      BY <1>3
    <2>3. ~strict
      BY <1>3, <2>1, <2>2 DEF Excused
    <2>4. QED
      BY <1>7, <2>1, <2>3 DEF Knows, v
  <1>9. ASSUME NEW j \in DOMAIN disk, disk[j][1] = p PROVE Knows(p, v)
    <2>1. First(p, Start(p, before)) /\ ~lost
      BY <1>2, <1>4, <1>9, StartIs
    <2>2. ~Mangled(p)
      BY <1>1 DEF Excused
    <2>3. Repairable(p, tab)
      BY <2>2, NotMangled DEF tab
    <2>4. /\ \A c \in Chunk : <<p, c>> \in ToSet(disk) => scan.found[c] = PlaceOf(p, c)
          /\ scan.bad => \E c \in Chunk : <<p, c>> \notin ToSet(disk)
      BY <1>5, <2>1, <2>3, ScanFindsAll DEF scan
    <2>5. ~scan.bad \/ ~strict
      <3> SUFFICES ASSUME scan.bad, strict PROVE FALSE
        OBVIOUS
      <3>1. PICK c \in Chunk : <<p, c>> \notin ToSet(disk)
        BY <2>4
      <3>2. <<p, c>> \in Part \X Chunk
        OBVIOUS
      <3>3. QED
        BY <3>1, <3>2 DEF Excused
    <2> HIDE DEF lost
    <2>6. v = merged \/ v = copied
      BY <1>6, <2>1, <2>5
    <2>7. ASSUME NEW c \in Chunk, <<p, c>> \in ToSet(disk) PROVE v[c] = PlaceOf(p, c)
      <3>1. PlaceOf(p, c) # 0
        <4>1. PICK i \in DOMAIN disk : disk[i] = <<p, c>>
          BY <2>7 DEF ToSet
        <4>2. QED
          BY <4>1, PlaceIs, PlacesAre DEF InOrder
      <3>2. QED
        BY <2>4, <2>6, <2>7, <3>1
    <2>8. v # Failed
      <3>1. v \in [Chunk -> Nat]
        <4>1. CASE v = copied
          <5>1. RightScan(p, N, scan)
            BY <1>3, <1>5, ScanIsRight DEF RightTable, scan
          <5>2. scan.found \in [Chunk -> Nat]
            BY <5>1 DEF RightScan, RightTable
          <5>3. QED
            BY <4>1, <5>2
        <4>2. CASE v = merged
          <5>1. RightScan(p, N, scan)
            BY <1>3, <1>5, ScanIsRight DEF RightTable, scan
          <5>2. scan.found \in [Chunk -> Nat] /\ tab \in [Chunk -> Nat]
            BY <1>5, <5>1 DEF RightScan, RightTable
          <5>3. QED
            BY <4>2, <5>2
        <4>3. QED
          BY <2>6, <4>1, <4>2
      <3>2. [Chunk -> Nat] \subseteq Seq(Nat)
        BY <1>3
      <3>3. QED
        BY <3>1, <3>2, TableAssumption
    <2>9. QED
      BY <1>7, <2>7, <2>8 DEF Knows
  <1>10. QED
    BY <1>8, <1>9 DEF v

-----------------------------------------------------------------------------
(* The readers.                                                             *)

\* What may be said of a table v of part p, or of the failure to get one; luck is
\* whether no read failed.
Value(p, v, luck) ==
    /\ v = Failed \/ RightTable(p, v)
    /\ luck /\ Sequential(disk) => Good(p, v)

\* The tables that are installed or about to be; a reader that turned back to the part
\* before left parts whose tables it must rebuild; what it did not find is not there.
FoundInv ==
    /\ mode = "read" /\ geo \in Live => FileOK
    /\ \A t \in Thread : read[t].at # "idle" => FileOK
    /\ \A p \in Part : \A v : v # None /\ table[p] = v => Value(p, v, lucky)
    /\ \A t \in Thread, p \in Part : \A v :
          read[t].at = "install" /\ read[t].cur = p /\ read[t].mine = v => Value(p, v, lucky)
    /\ \A t \in Thread : read[t].at \in {"load", "install"} =>
          \A q \in Part : read[t].cur < q /\ q <= read[t].part => ~Complete(FileTable(q))
    /\ \A t \in Thread : read[t].at # "done" => read[t].missed = {}
    /\ \A t \in Thread : \A c \in read[t].missed, p \in Part :
          read[t].part = p /\ lucky /\ Sequential(disk) =>
              <<p, c>> \notin ToSet(disk) \/ Excused(p)

LEMMA SamePlaces ==
    ASSUME FileSame, NEW p, NEW c
    PROVE  PlaceOf(p, c)' = PlaceOf(p, c) /\ Chunk' = Chunk
  <1>1. Chunk' = Chunk
    BY DEF FileSame, Chunk
  <1>2. PlaceOf(p, c)' = PlaceOf(p, c)
    BY DEF FileSame, PlaceOf, SelectInSeq
  <1>3. QED
    BY <1>1, <1>2

LEMMA SameFile ==
    ASSUME FileSame, NEW p, NEW v, NEW luck
    PROVE  /\ FileOK' <=> FileOK
           /\ Complete(FileTable(p))' <=> Complete(FileTable(p))
           /\ Excused(p)' <=> Excused(p)
           /\ Value(p, v, luck)' <=> Value(p, v, luck)
           /\ Sequential(disk)' <=> Sequential(disk)
           /\ ToSet(disk)' = ToSet(disk)
  <1>1. Chunk' = Chunk
    BY SamePlaces
  <1>2. FileOK' <=> FileOK
    BY <1>1 DEF FileOK, FileSame, Rank, N, ToSet
  <1>3. \A c : PlaceOf(p, c)' = PlaceOf(p, c)
    BY SamePlaces
  <1>4. FileTable(p)' = FileTable(p)
    BY <1>1, <1>3 DEF FileTable, FileSame
  <1>5. Complete(FileTable(p))' <=> Complete(FileTable(p))
    BY <1>1, <1>4 DEF Complete
  <1>6. \A q : Mangled(q)' <=> Mangled(q)
    BY <1>1 DEF Mangled, FileSame
  <1>7. ToSet(disk)' = ToSet(disk)
    BY DEF ToSet, FileSame
  <1>8. Excused(p)' <=> Excused(p)
    BY <1>1, <1>6, <1>7 DEF Excused, FileSame
  <1>9. Sequential(disk)' <=> Sequential(disk)
    BY <1>1 DEF Sequential, FileSame
  <1>10. RightTable(p, v)' <=> RightTable(p, v)
    BY <1>1, <1>3 DEF RightTable
  <1>11. Knows(p, v)' <=> Knows(p, v)
    BY <1>1, <1>3, <1>7, <1>10 DEF Knows
  <1>12. Value(p, v, luck)' <=> Value(p, v, luck)
    BY <1>8, <1>9, <1>10, <1>11 DEF Value, Good
  <1>13. QED
    BY <1>2, <1>5, <1>7, <1>8, <1>9, <1>12

LEMMA FoundInitInv == Init => FoundInv
  <1> SUFFICES ASSUME Init PROVE FoundInv
    OBVIOUS
  <1>1. mode = "read" /\ geo \in Live => FileOK
    BY FileIsOK DEF Init
  <1>2. \A t \in Thread : read[t].at = "idle" /\ read[t].missed = {}
    BY DEF Init, TableInit
  <1>3. \A p \in Part : table[p] = None
    BY DEF Init, TableInit
  <1>4. QED
    BY <1>1, <1>2, <1>3 DEF FoundInv

\* What is left to show of a step of thread t.
LEMMA FoundKept ==
    ASSUME FoundInv, NEW t \in Thread, FileSame, mode' = mode, OthersRead(t), lucky' => lucky,
           read'[t].at # "idle" => FileOK,
           \A p \in Part : \A v : v # None /\ table'[p] = v => table[p] = v \/ Value(p, v, lucky),
           \A p \in Part : \A v : read'[t].at = "install" /\ read'[t].cur = p /\ read'[t].mine = v =>
               Value(p, v, lucky'),
           read'[t].at \in {"load", "install"} =>
               \A q \in Part : read'[t].cur < q /\ q <= read'[t].part => ~Complete(FileTable(q)),
           read'[t].at # "done" => read'[t].missed = {},
           \A c \in read'[t].missed, p \in Part :
               read'[t].part = p /\ lucky' /\ Sequential(disk) =>
                   <<p, c>> \notin ToSet(disk) \/ Excused(p)
    PROVE  FoundInv'
  <1>1. \A p, v, luck : Value(p, v, luck)' <=> Value(p, v, luck)
    BY SameFile
  <1>2. \A p, v : Value(p, v, lucky) => Value(p, v, lucky')
    BY DEF Value
  <1>3. (FileOK' <=> FileOK) /\ (Sequential(disk)' <=> Sequential(disk))
        /\ ToSet(disk)' = ToSet(disk) /\ geo' = geo
    BY SameFile DEF FileSame
  <1>4. \A p : /\ Complete(FileTable(p))' <=> Complete(FileTable(p))
               /\ Excused(p)' <=> Excused(p)
    BY SameFile
  <1>5. (mode = "read" /\ geo \in Live => FileOK)'
    BY <1>3 DEF FoundInv
  <1>6. ASSUME NEW u \in Thread PROVE (read[u].at # "idle" => FileOK)'
    BY <1>3 DEF FoundInv, OthersRead
  <1>7. ASSUME NEW p \in Part, NEW v, v # None, table'[p] = v PROVE Value(p, v, lucky')
    BY <1>2, <1>7 DEF FoundInv
  <1>8. ASSUME NEW u \in Thread, NEW p \in Part, NEW v,
               read'[u].at = "install", read'[u].cur = p, read'[u].mine = v
        PROVE  Value(p, v, lucky')
    <2>1. CASE u = t
      BY <1>8, <2>1
    <2>2. CASE u # t
      BY <1>2, <1>8, <2>2 DEF FoundInv, OthersRead
    <2>3. QED
      BY <2>1, <2>2
  <1>9. ASSUME NEW u \in Thread, read'[u].at \in {"load", "install"}, NEW q \in Part,
               read'[u].cur < q, q <= read'[u].part
        PROVE  ~Complete(FileTable(q))
    <2>1. CASE u = t
      BY <1>9, <2>1
    <2>2. CASE u # t
      BY <1>9, <2>2 DEF FoundInv, OthersRead
    <2>3. QED
      BY <2>1, <2>2
  <1>10. ASSUME NEW u \in Thread, NEW c \in read'[u].missed, NEW p \in Part,
                read'[u].part = p, lucky', Sequential(disk)
         PROVE  <<p, c>> \notin ToSet(disk) \/ Excused(p)
    <2>1. CASE u = t
      BY <1>10, <2>1
    <2>2. CASE u # t
      BY <1>10, <2>2 DEF FoundInv, OthersRead
    <2>3. QED
      BY <2>1, <2>2
  <1>11. \A p \in Part : \A v : v # None /\ table'[p] = v => Value(p, v, lucky')
    BY <1>7
  <1>12. ASSUME NEW u \in Thread PROVE (read[u].at # "done" => read[u].missed = {})'
    BY DEF FoundInv, OthersRead
  <1>13. QED
    BY <1>1, <1>3, <1>4, <1>5, <1>6, <1>8, <1>9, <1>10, <1>11, <1>12 DEF FoundInv

\* A reader offers the table that it rebuilt.
LEMMA OfferFinds ==
    ASSUME TableInv, FoundInv, NEW t \in Thread, read[t].at # "idle", FileSame, mode' = mode,
           NEW p \in 1 .. read[t].part, read[t].cur <= p, NEW before, Offer(t, p, before),
           read[t].at \in {"load", "install"}, ~Complete(FileTable(p)),
           p = 1 \/ Value(p - 1, before, lucky),
           \A q \in Part : \A v : v # None /\ table'[q] = v =>
               table[q] = v \/ Value(q, v, lucky)
    PROVE  FoundInv'
  <1>1. Reading(t) /\ DOMAIN read = Thread /\ lucky \in BOOLEAN /\ storage \in Storage
    BY DEF TableInv, Storage
  <1>2. /\ FileOK /\ geo \in Live /\ read[t].part \in Part /\ read[t].part \in Nat
        /\ p \in Part /\ p \in Nat /\ (p = 1 \/ p > 1) /\ read[t].cur \in Nat
    <2>1. read[t].part \in Part /\ read[t].cur \in 1 .. read[t].part /\ geo \in Live
      BY <1>1 DEF Reading
    <2>2. FileOK
      BY DEF FoundInv
    <2>3. Part = 1 .. NumParts /\ NumParts \in Nat
      BY PartsAssumption DEF Part
    <2>4. QED
      BY <2>1, <2>2, <2>3
  <1>3. PICK unreadable : /\ lucky' = (lucky /\ unreadable = {})
                          /\ read' = [read EXCEPT ![t].at = "install", ![t].cur = p,
                                                  ![t].mine = Rebuilt(p, before, unreadable)]
    BY DEF Offer
  <1> DEFINE v == Rebuilt(p, before, unreadable)
  <1>4. read' = [read EXCEPT ![t] = [read[t] EXCEPT !.at = "install", !.cur = p, !.mine = v]]
    BY <1>3
  <1> HIDE DEF v
  <1>5. /\ OthersRead(t) /\ read'[t].at = "install" /\ read'[t].part = read[t].part
        /\ read'[t].cur = p /\ read'[t].mine = v /\ read'[t].missed = read[t].missed
    BY <1>1, <1>4 DEF OthersRead, Reading, ReadField
  <1>6. Value(p, v, lucky')
    <2>1. before = Failed \/ Before(p, before)
      BY DEF Value, Before
    <2>2. v = Failed \/ RightTable(p, v)
      BY <1>1, <1>2, <2>1, RebuiltRight DEF v
    <2>3. ASSUME lucky', Sequential(disk) PROVE Good(p, v)
      <3>1. lucky /\ unreadable = {}
        BY <1>1, <1>3, <2>3
      <3>2. InOrder
        BY <1>1, <1>2, <2>3 DEF InOrder
      <3>3. p > 1 => Good(p - 1, before)
        BY <1>2, <2>3, <3>1 DEF Value
      <3>4. QED
        BY <1>2, <3>1, <3>2, <3>3, RebuiltGood DEF v
    <2>4. QED
      BY <2>2, <2>3 DEF Value
  <1>7. lucky' => lucky
    BY <1>1, <1>3
  <1>8. \A q \in Part : p < q /\ q <= read[t].part => ~Complete(FileTable(q))
    <2>1. Part \subseteq Nat
      BY PartsAssumption DEF Part
    <2>2. \A q \in Part : p < q => read[t].cur < q
      BY <1>2, <2>1
    <2>3. QED
      BY <2>2 DEF FoundInv
  <1>9. read'[t].missed = {}
    BY <1>5 DEF FoundInv
  <1>10. QED
    BY <1>2, <1>5, <1>6, <1>7, <1>8, <1>9, FoundKept

\* A chunk that is missed with a table of the part is not in the file.
LEMMA MissedIsNotThere ==
    ASSUME InOrder, NEW p \in Part, NEW v, Good(p, v), NEW c \in Missed(p, v)
    PROVE  <<p, c>> \notin ToSet(disk) \/ Excused(p)
  <1> SUFFICES ASSUME <<p, c>> \in ToSet(disk), Knows(p, v) PROVE FALSE
    BY DEF Good
  <1>1. Chunk = 1 .. N /\ N \in Nat
    BY PlacesAre
  <1>2. v # Failed
    <2>1. [Chunk -> Nat] \subseteq Seq(Nat)
      BY <1>1
    <2>2. QED
      BY <2>1, TableAssumption DEF Knows, RightTable
  <1>3. c \in Chunk /\ Leader(p, v[c], {}) # c
    BY <1>2 DEF Missed
  <1>4. PICK j \in DOMAIN disk : disk[j] = <<p, c>>
    BY DEF ToSet
  <1>5. v[c] = j
    BY <1>3, <1>4, PlaceIs DEF Knows, InOrder
  <1> DEFINE d == Leader(p, j, {})
  <1>6. d # 0
    BY <1>4, LeaderIs DEF InOrder
  <1>7. disk[j] = <<p, d>>
    BY <1>6, LeaderIs DEF InOrder
  <1>8. QED
    BY <1>3, <1>4, <1>5, <1>7

\* A reader learns the table of the part it works on.
LEMMA GotFinds ==
    ASSUME TableInv, FoundInv, NEW t \in Thread, FileSame, mode' = mode,
           read[t].at \in {"load", "install"}, NEW v, Got(t, read[t].cur, v),
           Value(read[t].cur, v, lucky),
           \A q \in Part : \A w : w # None /\ table'[q] = w =>
               table[q] = w \/ Value(q, w, lucky)
    PROVE  FoundInv'
  <1> DEFINE p == read[t].cur
  <1>1. Reading(t) /\ DOMAIN read = Thread /\ lucky \in BOOLEAN /\ storage \in Storage
    BY DEF TableInv, Storage
  <1>2. read[t].at # "idle" /\ FileOK /\ geo \in Live
    BY <1>1 DEF Reading, FoundInv
  <1>3. /\ read[t].part \in Part /\ read[t].part \in Nat /\ p \in 1 .. read[t].part
        /\ p \in Part /\ p \in Nat
    <2>1. read[t].part \in Part /\ p \in 1 .. read[t].part
      BY <1>1 DEF Reading
    <2>2. Part = 1 .. NumParts /\ NumParts \in Nat
      BY PartsAssumption DEF Part
    <2> HIDE DEF p
    <2>3. QED
      BY <2>1, <2>2
  <1>4. CASE p < read[t].part
    <2> DEFINE q == p + 1
    <2>1. Offer(t, q, v)
      BY <1>4 DEF Got
    <2>2. q \in 1 .. read[t].part /\ q \in Part /\ p < q /\ p <= q /\ q - 1 = p /\ q <= read[t].part
      <3> HIDE DEF p
      <3>1. Part = 1 .. NumParts /\ NumParts \in Nat
        BY PartsAssumption DEF Part
      <3>2. QED
        BY <1>3, <1>4, <3>1
    <2>3. ~Complete(FileTable(q))
      BY <2>2 DEF FoundInv
    <2>4. Value(q - 1, v, lucky)
      BY <2>2
    <2> HIDE DEF q
    <2>5. QED
      BY <1>2, <2>1, <2>2, <2>3, <2>4, OfferFinds
  <1>5. CASE ~(p < read[t].part)
    <2> DEFINE m == Missed(p, v)
    <2>1. /\ read' = [read EXCEPT ![t].at = "done", ![t].mine = None, ![t].missed = m]
          /\ UNCHANGED lucky
      BY <1>5 DEF Got
    <2> HIDE DEF m
    <2>2. /\ OthersRead(t) /\ read'[t].at = "done" /\ read'[t].part = read[t].part
          /\ read'[t].missed = m
      BY <1>1, <2>1 DEF OthersRead, Reading, ReadField
    <2>3. read[t].part = p
      <3> HIDE DEF p
      <3>1. QED
        BY <1>3, <1>5
    <2>4. ASSUME NEW c \in m, lucky, Sequential(disk)
          PROVE  <<p, c>> \notin ToSet(disk) \/ Excused(p)
      <3>1. InOrder
        BY <1>1, <1>2, <2>4 DEF InOrder
      <3>2. Good(p, v)
        BY <2>4 DEF Value
      <3> HIDE DEF p
      <3>3. QED
        BY <1>3, <2>4, <3>1, <3>2, MissedIsNotThere DEF m
    <2>5. QED
      BY <1>2, <2>1, <2>2, <2>3, <2>4, FoundKept
  <1>6. QED
    BY <1>4, <1>5

LEMMA ReadChunkFinds ==
    ASSUME TableInv, FoundInv, NEW t \in Thread, ReadChunk(t), mode' = mode PROVE FoundInv'
  <1>1. PICK p \in Part : read' = [read EXCEPT ![t].at = "load", ![t].part = p, ![t].cur = p]
    BY DEF ReadChunk
  <1>2. /\ FileSame /\ UNCHANGED <<table, lucky>> /\ geo \in Live /\ mode = "read"
        /\ read[t].at = "idle"
    BY DEF ReadChunk, fileVars, FileSame
  <1>3. Reading(t) /\ DOMAIN read = Thread
    BY DEF TableInv
  <1>4. /\ OthersRead(t) /\ read'[t].at = "load" /\ read'[t].part = p /\ read'[t].cur = p
        /\ read'[t].missed = read[t].missed
    BY <1>1, <1>3 DEF OthersRead, Reading, ReadField
  <1>5. FileOK /\ read'[t].missed = {}
    BY <1>2, <1>4 DEF FoundInv
  <1>6. \A q \in Part : ~(read'[t].cur < q /\ q <= read'[t].part)
    BY <1>4, PartsAssumption DEF Part
  <1>7. QED
    BY <1>2, <1>4, <1>5, <1>6, FoundKept

LEMMA LoadingFinds ==
    ASSUME TableInv, FoundInv, NEW t \in Thread, ReadFails(t) \/ ReadTable(t), mode' = mode
    PROVE  FoundInv'
  <1> DEFINE p == read[t].cur
  <1>1. /\ read[t].at = "load" /\ FileSame /\ UNCHANGED <<table, ctable>>
    BY DEF ReadFails, ReadTable, fileVars, FileSame
  <1>2. /\ Reading(t) /\ DOMAIN read = Thread /\ lucky \in BOOLEAN
    BY DEF TableInv
  <1>3. /\ read[t].part \in Part /\ read[t].part \in Nat /\ p \in 1 .. read[t].part
        /\ p \in Part /\ p \in Nat /\ (p = 1 \/ p > 1) /\ FileOK
    <2>1. read[t].part \in Part /\ p \in 1 .. read[t].part
      BY <1>2 DEF Reading
    <2>2. Part = 1 .. NumParts /\ NumParts \in Nat
      BY PartsAssumption DEF Part
    <2>3. FileOK
      BY <1>1 DEF FoundInv
    <2> HIDE DEF p
    <2>4. QED
      BY <2>1, <2>2, <2>3
  <1>4. ASSUME NEW v, Value(p, v, lucky'), lucky' => lucky,
               read' = [read EXCEPT ![t].at = "install", ![t].mine = v]
        PROVE  FoundInv'
    <2>1. /\ OthersRead(t) /\ read'[t].at = "install" /\ read'[t].part = read[t].part
          /\ read'[t].cur = p /\ read'[t].mine = v /\ read'[t].missed = read[t].missed
      BY <1>2, <1>4 DEF OthersRead, Reading, ReadField
    <2>2. read'[t].missed = {}
      BY <1>1, <2>1 DEF FoundInv
    <2>3. \A q \in Part : p < q /\ q <= read[t].part => ~Complete(FileTable(q))
      BY <1>1 DEF FoundInv
    <2>4. QED
      BY <1>1, <1>3, <1>4, <2>1, <2>2, <2>3, FoundKept
  <1>5. CASE ReadFails(t)
    <2>1. lucky' = FALSE /\ read' = [read EXCEPT ![t].at = "install", ![t].mine = Failed]
      BY <1>5 DEF ReadFails
    <2>2. Value(p, Failed, lucky')
      BY <2>1 DEF Value
    <2>3. QED
      BY <1>4, <2>1, <2>2
  <1>6. CASE ReadTable(t) /\ Complete(FileTable(p))
    <2> DEFINE v == FileTable(p)
    <2>1. read' = [read EXCEPT ![t].at = "install", ![t].mine = v] /\ UNCHANGED lucky
      BY <1>6 DEF ReadTable
    <2>2. RightTable(p, v)
      BY <1>3, FileTableRight
    <2>3. \A c \in Chunk : v[c] # 0
      BY <1>6 DEF Complete
    <2> HIDE DEF v
    <2>4. Knows(p, v)
      BY <2>2, <2>3 DEF Knows, RightTable
    <2>5. Value(p, v, lucky')
      BY <2>2, <2>4 DEF Value, Good
    <2>6. QED
      BY <1>4, <2>1, <2>5
  <1>7. CASE ReadTable(t) /\ ~Complete(FileTable(p)) /\ p = 1
    <2>1. Offer(t, p, None)
      BY <1>7 DEF ReadTable
    <2>2. read[t].at # "idle" /\ read[t].cur <= p
      BY <1>1, <1>3
    <2>3. QED
      BY <1>1, <1>3, <1>7, <2>1, <2>2, OfferFinds
  <1>8. CASE ReadTable(t) /\ ~Complete(FileTable(p)) /\ p > 1
    <2>1. read' = [read EXCEPT ![t].cur = p - 1] /\ UNCHANGED lucky
      <3>1. p # 1
        BY <1>3, <1>8
      <3>2. QED
        BY <1>8, <3>1 DEF ReadTable
    <2>2. /\ OthersRead(t) /\ read'[t].at = "load" /\ read'[t].part = read[t].part
          /\ read'[t].cur = p - 1 /\ read'[t].missed = read[t].missed
      BY <1>1, <1>2, <2>1 DEF OthersRead, Reading, ReadField
    <2>3. read'[t].missed = {}
      BY <1>1, <2>2 DEF FoundInv
    <2>4. \A q \in Part : p < q /\ q <= read[t].part => ~Complete(FileTable(q))
      BY <1>1 DEF FoundInv
    <2>5. \A q \in Part : p - 1 < q => q = p \/ p < q
      <3>1. Part \subseteq Nat
        BY PartsAssumption DEF Part
      <3> HIDE DEF p
      <3>2. QED
        BY <1>3, <3>1
    <2>6. QED
      BY <1>1, <1>3, <1>8, <2>1, <2>2, <2>3, <2>4, <2>5, FoundKept
  <1>9. QED
    BY <1>3, <1>5, <1>6, <1>7, <1>8

LEMMA GettingFinds ==
    ASSUME TableInv, FoundInv, NEW t \in Thread, LoadTable(t) \/ Install(t), mode' = mode
    PROVE  FoundInv'
  <1> DEFINE p == read[t].cur
             v == IF table[p] = None THEN read[t].mine ELSE table[p]
  <1>1. /\ read[t].at \in {"load", "install"} /\ FileSame
        /\ read[t].at = "load" => table[p] # None
    BY DEF LoadTable, Install, fileVars, FileSame
  <1>2. p \in Part /\ DOMAIN table = Part
    <2>1. read[t].part \in 1 .. NumParts /\ p \in 1 .. read[t].part /\ NumParts \in Nat
      BY PartsAssumption DEF TableInv, Reading, Part
    <2> HIDE DEF p
    <2>2. QED
      BY <2>1 DEF TableInv, Part
  <1>3. Value(p, v, lucky)
    BY <1>1, <1>2 DEF FoundInv
  <1>4. Got(t, p, v)
    BY <1>1 DEF LoadTable, Install
  <1>5. UNCHANGED table \/ table' = [table EXCEPT ![p] = v]
    BY DEF LoadTable, Install
  <1> HIDE DEF v
  <1>6. \A q \in Part : \A w : w # None /\ table'[q] = w => table[q] = w \/ Value(q, w, lucky)
    <2> HIDE DEF p
    <2>1. QED
      BY <1>2, <1>3, <1>5
  <1>7. QED
    BY <1>1, <1>3, <1>4, <1>6, GotFinds

LEMMA FoundStutter == ASSUME FoundInv, UNCHANGED tableVars, mode' = "read" => mode = "read"
                      PROVE  FoundInv'
  <1>1. FileSame /\ UNCHANGED <<table, read, lucky>> /\ geo' = geo
    BY DEF tableVars, fileVars, FileSame
  <1>2. \A p, v, luck : Value(p, v, luck)' <=> Value(p, v, luck)
    BY <1>1, SameFile
  <1>3. \A p : /\ FileOK' <=> FileOK
               /\ Complete(FileTable(p))' <=> Complete(FileTable(p))
               /\ Excused(p)' <=> Excused(p)
               /\ Sequential(disk)' <=> Sequential(disk)
               /\ ToSet(disk)' = ToSet(disk)
    BY <1>1, SameFile
  <1>4. QED
    BY <1>1, <1>2, <1>3 DEF FoundInv

LEMMA FoundNext == ASSUME TableInv, FoundInv, [Next]_vars PROVE FoundInv'
  <1>1. CASE UNCHANGED vars
    <2>1. UNCHANGED tableVars /\ mode' = mode
      BY <1>1 DEF vars, lockVars
    <2>2. QED
      BY <2>1, FoundStutter
  <1>2. ASSUME NEW t \in Thread, ReadNext(t) PROVE FoundInv'
    <2>1. mode' = mode
      BY <1>2 DEF ReadNext, lockVars
    <2>2. QED
      BY <1>2, <2>1, ReadChunkFinds, LoadingFinds, GettingFinds DEF ReadNext, TableStep
  <1>3. ASSUME NEW t \in Thread, WriteNext(t) PROVE FoundInv'
    <2>1. mode' = "read" => mode = "read"
      BY <1>3 DEF WriteNext, LockNext, Begin, GetFileName, Query, Change, Begins, Lock,
                  SetChunkCount, Work, GetReturns, ValidateReturns, SetReturns, Count,
                  HeaderFails, WriteHeader, ChunkReturns
    <2>2. QED
      BY <1>3, <2>1, FoundStutter DEF WriteNext
  <1>4. QED
    BY <1>1, <1>2, <1>3 DEF Next

(***************************************************************************)
(* The tables that are installed, or about to be, know the chunks of their *)
(* part as far as they can, and a reader goes back to a part before only   *)
(* for the sake of tables that it must rebuild.                            *)
(***************************************************************************)
THEOREM FoundInvariant == Spec => []FoundInv
  <1>1. Init => FoundInv
    BY FoundInitInv
  <1>2. TableInv /\ FoundInv /\ [Next]_vars => FoundInv'
    BY FoundNext
  <1>3. QED
    BY <1>1, <1>2, TableInvariant, PTL DEF Spec

(***************************************************************************)
(* In a file whose parts follow each other a chunk that is there is found, *)
(* whichever entries of the tables are missing, as long as no read fails;  *)
(* and in every file no entry leads to a wrong chunk: for any number of    *)
(* readers, parts and chunks.                                              *)
(***************************************************************************)
THEOREM ChunksAlwaysFound == Spec => []ChunksFound
  <1>1. TableInv /\ FoundInv => NothingMissed
    <2> SUFFICES ASSUME TableInv, FoundInv, lucky, Sequential(disk), NEW t \in Thread,
                        NEW c \in read[t].missed
                 PROVE  <<read[t].part, c>> \notin ToSet(disk) \/ Excused(read[t].part)
      BY DEF NothingMissed, Excused
    <2>1. read[t].part \in Part
      BY DEF TableInv, Reading
    <2>2. QED
      BY <2>1 DEF FoundInv
  <1>2. FoundInv => EntriesRight
    BY DEF FoundInv, EntriesRight, Value, RightTable
  <1>3. TableInv /\ FoundInv => ChunksFound
    BY <1>1, <1>2 DEF ChunksFound
  <1>4. QED
    BY <1>3, TableInvariant, FoundInvariant, PTL

(***************************************************************************)
(* In every state of every context, whatever the geometry of its tiled     *)
(* parts: both libraries mean the same by a chunk.                         *)
(***************************************************************************)
THEOREM TilesAlwaysAgree == Spec => []TilesAgree
  <1>1. ContextInv => TilesAgree
    BY TableAssumption, LayoutsAgree DEF ContextInv, TypeOK, TilesAgree
  <1>2. QED
    BY <1>1, ContextInvariant, PTL
=============================================================================
