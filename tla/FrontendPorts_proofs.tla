------------------------ MODULE FrontendPorts_proofs ------------------------
(***************************************************************************)
(* The parts of GetNextPort.  NextPort returns the lowest port that is     *)
(* free, when none is below the starting port; the loop returns NextPort   *)
(* of a sorted slice; and Sort sorts.                                      *)
(***************************************************************************)
EXTENDS FrontendPorts, TLAPS, FiniteSetTheorems, WellFoundedInduction

Less == {ss \in Nat \X Nat : ss[1] < ss[2]}

\* The order of the naturals, written without an operator argument.
LEMMA LessWellFounded == IsWellFoundedOn(Less, Nat)
<1>1. Less = OpToRel(<, Nat)
  BY Zenon DEF Less, OpToRel
<1> QED BY <1>1, NatLessThanWellFounded, Zenon

\* Min, which the first element of the sorted slice of ports becomes, is the
\* least element of every nonempty set of naturals.
LEMMA MinIsLeast ==
  ASSUME NEW S \in SUBSET Nat, S # {}
  PROVE  Min(S) \in S /\ Min(S) \in Nat /\ \A y \in S : Min(S) <= y
<1>1. PICK x \in S : \A y \in S : <<y, x>> \notin Less
  BY LessWellFounded, WFMin
<1>2. ASSUME NEW y \in S PROVE x <= y
  <2>1. x \in Nat /\ y \in Nat
    OBVIOUS
  <2>2. <<y, x>> \in (Nat \X Nat) \ Less
    BY <1>1, <2>1
  <2>3. ~(<<y, x>>[1] < <<y, x>>[2])
    BY <2>2, Zenon DEF Less
  <2> QED BY <2>1, <2>3
<1> QED BY <1>2 DEF Min

\* Some port of a nonempty finite set is the end of a run: the loop of
\* GetNextPort finds a gap or reaches the last port.
LEMMA RunEnds ==
  ASSUME NEW P \in SUBSET Nat, IsFiniteSet(P), P # {}
  PROVE  {p \in P : p + 1 \notin P} # {}
<1>1. SUFFICES ASSUME \A p \in P : p + 1 \in P PROVE FALSE
  OBVIOUS
<1> DEFINE T    == P \ {Min(P)}
           succ == [p \in P |-> p + 1]
<1>2. Min(P) \in P /\ Min(P) \in Nat /\ \A y \in P : Min(P) <= y
  BY MinIsLeast
<1>3. succ \in [P -> T]
  <2>1. ASSUME NEW p \in P PROVE p + 1 \in T
    <3>1. p \in Nat /\ Min(P) <= p
      BY <1>2
    <3>2. p + 1 # Min(P)
      BY <1>2, <3>1
    <3> QED BY <1>1, <3>2
  <2> QED BY <2>1
<1>4. IsFiniteSet(T) /\ Cardinality(T) = Cardinality(P) - 1
  BY <1>2, FS_RemoveElement
<1>5. Cardinality(P) \in Nat
  BY FS_CardinalityType
<1>6. Cardinality(T) < Cardinality(P)
  BY <1>4, <1>5
<1>7. \E x, y \in P : x # y /\ succ[x] = succ[y]
  <2> HIDE DEF T, succ
  <2> QED BY <1>3, <1>4, <1>6, FS_PigeonHole
<1>8. \A x, y \in P : x \in Nat /\ y \in Nat /\ succ[x] = x + 1 /\ succ[y] = y + 1
  OBVIOUS
<1> QED
  <2> HIDE DEF succ
  <2> QED BY <1>7, <1>8

\* The port GetNextPort hands out is free, whatever ports are in use.
THEOREM NextPortIsFree ==
  ASSUME NEW P \in SUBSET Nat, IsFiniteSet(P), NEW m \in Nat
  PROVE  NextPort(P, m) \in Nat /\ NextPort(P, m) \notin P
<1>1. CASE P = {}
  BY <1>1 DEF NextPort
<1>2. CASE P # {} /\ Min(P) > m
  <2>1. Min(P) \in Nat /\ \A y \in P : Min(P) <= y
    BY <1>2, MinIsLeast
  <2>2. m \notin P
    BY <1>2, <2>1
  <2> QED BY <1>2, <2>2 DEF NextPort
<1>3. CASE P # {} /\ ~(Min(P) > m)
  <2> DEFINE E == {p \in P : p + 1 \notin P}
  <2>1. E \in SUBSET Nat /\ E # {}
    BY <1>3, RunEnds
  <2>2. Min(E) \in E /\ Min(E) \in Nat
    <3> HIDE DEF E
    <3> QED BY <2>1, MinIsLeast
  <2>3. NextPort(P, m) = Min(E) + 1
    BY <1>3 DEF NextPort
  <2>4. Min(E) + 1 \notin P
    BY <2>2
  <2> QED
    <3> HIDE DEF E
    <3> QED BY <2>2, <2>3, <2>4
<1> QED BY <1>1, <1>2, <1>3

\* When no port in use is below the starting port, neither is the next one,
\* and every port between the two is in use: gaps are filled first.
THEOREM NextPortIsLowest ==
  ASSUME NEW P \in SUBSET Nat, IsFiniteSet(P), NEW m \in Nat,
         \A p \in P : m <= p
  PROVE  m <= NextPort(P, m) /\ \A q \in Nat : m <= q /\ q < NextPort(P, m) => q \in P
<1>1. CASE P = {} \/ Min(P) > m
  <2>1. NextPort(P, m) = m
    BY <1>1 DEF NextPort
  <2> QED BY <2>1
<1>2. CASE P # {} /\ ~(Min(P) > m)
  <2> DEFINE E == {p \in P : p + 1 \notin P}
  <2>1. E \in SUBSET Nat /\ E # {}
    BY <1>2, RunEnds
  <2>2. Min(E) \in E /\ Min(E) \in Nat /\ \A e \in E : Min(E) <= e
    <3> HIDE DEF E
    <3> QED BY <2>1, MinIsLeast
  <2>3. NextPort(P, m) = Min(E) + 1
    BY <1>2 DEF NextPort
  <2>4. m \in P
    <3>1. Min(P) \in P /\ Min(P) \in Nat
      BY <1>2, MinIsLeast
    <3>2. Min(P) = m
      BY <1>2, <3>1
    <3> QED BY <3>1, <3>2
  <2>5. m <= Min(E)
    BY <2>2
  <2> DEFINE Q == {q \in Nat : m <= q /\ q <= Min(E) /\ q \notin P}
  <2>6. Q = {}
    <3>1. SUFFICES ASSUME Q # {} PROVE FALSE
      OBVIOUS
    <3>2. Q \in SUBSET Nat
      OBVIOUS
    <3>3. Min(Q) \in Q /\ Min(Q) \in Nat /\ \A q \in Q : Min(Q) <= q
      <4> HIDE DEF Q
      <4> QED BY <3>1, <3>2, MinIsLeast
    <3> DEFINE r == Min(Q) - 1
    <3>4. Min(Q) # m
      BY <3>3, <2>4
    <3>5. r \in Nat /\ m <= r /\ r < Min(Q) /\ r + 1 = Min(Q) /\ r < Min(E)
      <4>1. m <= Min(Q) /\ Min(Q) <= Min(E)
        BY <3>3
      <4> HIDE DEF Q, E
      <4> QED BY <3>3, <3>4, <4>1, <2>2
    <3>6. r \notin Q
      <4> HIDE DEF Q
      <4> QED BY <3>3, <3>5
    <3>7. r \in P
      <4> HIDE DEF r, E
      <4> QED BY <3>5, <3>6, <2>2
    <3>8. r + 1 \notin P
      <4>1. Min(Q) \notin P
        BY <3>3
      <4> HIDE DEF Q, r
      <4> QED BY <4>1, <3>5
    <3>9. r \in E
      <4> HIDE DEF r
      <4> QED BY <3>7, <3>8
    <3> QED
      <4> HIDE DEF r, E, Q
      <4> QED BY <3>9, <3>5, <2>2
  <2>7. \A q \in Nat : m <= q /\ q <= Min(E) => q \in P
    <3> HIDE DEF E
    <3> QED BY <2>6
  <2> QED
    <3> HIDE DEF E, Q
    <3> QED BY <2>2, <2>3, <2>5, <2>7
<1> QED BY <1>1, <1>2

\* So the next port is at most as far from the starting port as there are
\* ports in use.
THEOREM NextPortIsBounded ==
  ASSUME NEW P \in SUBSET Nat, IsFiniteSet(P), NEW m \in Nat,
         \A p \in P : m <= p
  PROVE  NextPort(P, m) \in m..(m + Cardinality(P))
<1> DEFINE n == NextPort(P, m)
<1>1. n \in Nat
  BY NextPortIsFree
<1>2. m <= n /\ \A q \in Nat : m <= q /\ q < n => q \in P
  BY NextPortIsLowest
<1> HIDE DEF n
<1>3. m..(n - 1) \in SUBSET P
  BY <1>1, <1>2
<1>4. Cardinality(m..(n - 1)) <= Cardinality(P)
  BY <1>3, FS_Subset
<1>5. Cardinality(m..(n - 1)) = n - m
  <2>1. m \in Int /\ n - 1 \in Int
    BY <1>1
  <2>2. Cardinality(m..(n - 1)) = IF m > n - 1 THEN 0 ELSE (n - 1) - m + 1
    BY <2>1, FS_Interval
  <2> QED BY <1>1, <1>2, <2>2
<1>6. Cardinality(P) \in Nat
  BY FS_CardinalityType
<1>7. n \in m..(m + Cardinality(P))
  BY <1>1, <1>2, <1>4, <1>5, <1>6
<1> QED BY <1>7 DEF n

-----------------------------------------------------------------------------
(* The loop. *)

Sorted(s) == \A i, j \in 1..Len(s) : i < j => s[i] <= s[j]

Elements(s) == {s[i] : i \in 1..Len(s)}

Gaps(s) == {i \in 1..(Len(s) - 1) : s[i + 1] - s[i] > 1}

\* In a sorted slice a port whose successor is missing, with a larger port
\* somewhere, has a gap before that one.
LEMMA GapBefore ==
  ASSUME NEW s \in Seq(Nat), Sorted(s), NEW i \in 1..Len(s), NEW k \in 1..Len(s),
         s[i] < s[k], s[i] + 1 \notin Elements(s)
  PROVE  \E g \in Gaps(s) : g < k
<1> DEFINE J == {j \in 1..Len(s) : s[i] < s[j]}
<1>1. \A j \in 1..Len(s) : s[j] \in Nat /\ j \in Nat
  OBVIOUS
<1>2. J \in SUBSET Nat /\ k \in J
  OBVIOUS
<1>3. PICK j \in J : j \in Nat /\ \A l \in J : j <= l
  <2> HIDE DEF J
  <2> QED BY <1>2, MinIsLeast
<1>4. j \in 1..Len(s) /\ s[i] < s[j] /\ j <= k
  BY <1>2, <1>3
<1>5. i < j
  <2> SUFFICES ASSUME ~(i < j) PROVE FALSE
    OBVIOUS
  <2>1. j = i \/ j < i
    BY <1>4
  <2>2. s[j] <= s[i]
    BY <1>1, <1>4, <2>1 DEF Sorted
  <2> QED BY <1>1, <1>4, <2>2
<1>6. j - 1 \in 1..Len(s) /\ j - 1 \notin J
  BY <1>3, <1>4, <1>5
<1>7. ~(s[i] < s[j - 1])
  BY <1>6
<1>8. s[j] # s[i] + 1
  BY <1>4 DEF Elements
<1>9. s[j] - s[j - 1] > 1
  <2> DEFINE a == s[i]  b == s[j]  c == s[j - 1]
  <2>1. a \in Nat /\ b \in Nat /\ c \in Nat
    BY <1>1, <1>4, <1>6
  <2>2. a < b /\ ~(a < c) /\ b # a + 1
    BY <1>4, <1>7, <1>8
  <2> HIDE DEF a, b, c
  <2>3. b - c > 1
    BY ONLY <2>1, <2>2
  <2> QED BY <2>3 DEF b, c
<1>10. j - 1 \in Gaps(s)
  <2>1. j - 1 \in 1..(Len(s) - 1) /\ (j - 1) + 1 = j
    BY <1>4, <1>6
  <2> QED BY <1>9, <2>1 DEF Gaps
<1> QED BY <1>4, <1>10

\* Where the loop of GetNextPort stops: at the lowest port whose successor is
\* not in use.
LEMMA ScanStops ==
  ASSUME NEW s \in Seq(Nat), Sorted(s), NEW k \in 1..Len(s),
         s[k] + 1 \notin Elements(s), \A g \in Gaps(s) : k <= g
  PROVE  Min({p \in Elements(s) : p + 1 \notin Elements(s)}) = s[k]
<1> DEFINE E == {p \in Elements(s) : p + 1 \notin Elements(s)}
<1>1. s[k] \in E /\ E \in SUBSET Nat
  BY DEF Elements
<1>2. ASSUME NEW p \in E PROVE s[k] <= p
  <2>1. PICK i \in 1..Len(s) : p = s[i]
    BY DEF Elements
  <2>2. ~(s[i] < s[k])
    <3> SUFFICES ASSUME s[i] < s[k] PROVE FALSE
      OBVIOUS
    <3>1. s[i] + 1 \notin Elements(s)
      BY <2>1
    <3>2. PICK g \in Gaps(s) : g < k
      BY <3>1, GapBefore
    <3>3. g \in Nat /\ k \in Nat
      BY DEF Gaps
    <3> QED BY <3>2, <3>3
  <2>3. s[i] \in Nat /\ s[k] \in Nat
    OBVIOUS
  <2> QED BY <2>1, <2>2, <2>3
<1>3. Min(E) \in E /\ Min(E) \in Nat /\ \A e \in E : Min(E) <= e
  <2> HIDE DEF E
  <2> QED BY <1>1, MinIsLeast
<1>4. s[k] \in Nat
  OBVIOUS
<1> HIDE DEF E
<1>5. Min(E) = s[k]
  BY <1>1, <1>2, <1>3, <1>4
<1> QED BY <1>5 DEF E

\* The loop of GetNextPort over a sorted slice, ports that repeat and ports below
\* the starting port included, computes NextPort of the set of its ports.
THEOREM LoopIsNextPort ==
  ASSUME NEW s \in Seq(Nat), Sorted(s), NEW m \in Nat
  PROVE  FirstGap(s, m) = NextPort(Elements(s), m)
<1>1. Len(s) \in Nat /\ \A i \in 1..Len(s) : s[i] \in Nat
  OBVIOUS
<1>2. Elements(s) \in SUBSET Nat
  BY <1>1 DEF Elements
<1>3. CASE s = <<>>
  BY <1>3 DEF FirstGap, NextPort, Elements
<1>4. CASE s # <<>>
  <2>1. 1 \in 1..Len(s) /\ s[1] \in Elements(s)
    BY <1>1, <1>4 DEF Elements
  <2>2. \A p \in Elements(s) : s[1] <= p
    <3> SUFFICES ASSUME NEW i \in 1..Len(s) PROVE s[1] <= s[i]
      BY DEF Elements
    <3>1. CASE i = 1
      BY <1>1, <3>1
    <3>2. CASE 1 < i
      BY <2>1, <3>2 DEF Sorted
    <3> QED BY <3>1, <3>2
  <2>3. Min(Elements(s)) = s[1]
    <3>1. /\ Min(Elements(s)) \in Elements(s) /\ Min(Elements(s)) \in Nat
          /\ \A p \in Elements(s) : Min(Elements(s)) <= p
      BY <1>2, <2>1, MinIsLeast
    <3> QED BY <1>1, <2>1, <2>2, <3>1
  <2>4. CASE s[1] > m
    BY <1>4, <2>1, <2>3, <2>4 DEF FirstGap, NextPort
  <2>5. CASE ~(s[1] > m)
    <3>1. NextPort(Elements(s), m)
            = Min({p \in Elements(s) : p + 1 \notin Elements(s)}) + 1
      BY <2>1, <2>3, <2>5 DEF NextPort
    <3>2. CASE Gaps(s) # {}
      <4> DEFINE k == Min(Gaps(s))
      <4>1. Gaps(s) \in SUBSET Nat
        BY DEF Gaps
      <4>2. k \in Gaps(s) /\ \A g \in Gaps(s) : k <= g
        BY <3>2, <4>1, MinIsLeast
      <4>3. FirstGap(s, m) = s[k] + 1
        BY <1>4, <2>5, <3>2 DEF FirstGap, Gaps
      <4> HIDE DEF k
      <4>4. k \in 1..Len(s) /\ k + 1 \in 1..Len(s) /\ s[k + 1] - s[k] > 1
        BY <1>1, <4>2 DEF Gaps
      <4>5. s[k] + 1 \notin Elements(s)
        <5> SUFFICES ASSUME NEW j \in 1..Len(s), s[j] = s[k] + 1 PROVE FALSE
          BY DEF Elements
        <5>1. CASE j <= k
          <6>1. s[j] <= s[k]
            BY <1>1, <4>4, <5>1 DEF Sorted
          <6> QED BY <1>1, <4>4, <6>1
        <5>2. CASE k + 1 <= j
          <6>1. s[k + 1] <= s[j]
            BY <1>1, <4>4, <5>2 DEF Sorted
          <6> QED BY <1>1, <4>4, <6>1
        <5> QED BY <4>4, <5>1, <5>2
      <4> QED BY <3>1, <4>2, <4>3, <4>4, <4>5, ScanStops
    <3>3. CASE Gaps(s) = {}
      <4> DEFINE k == Len(s)
      <4>1. k \in 1..Len(s) /\ FirstGap(s, m) = s[k] + 1
        BY <1>4, <2>1, <2>5, <3>3 DEF FirstGap, Gaps
      <4>2. s[k] + 1 \notin Elements(s)
        <5> SUFFICES ASSUME NEW j \in 1..Len(s), s[j] = s[k] + 1 PROVE FALSE
          BY DEF Elements
        <5>1. s[j] <= s[k]
          BY <1>1, <4>1 DEF Sorted
        <5> QED BY <1>1, <4>1, <5>1
      <4> HIDE DEF k
      <4> QED BY <3>1, <3>3, <4>1, <4>2, ScanStops
    <3> QED BY <3>2, <3>3
  <2> QED BY <2>4, <2>5
<1> QED BY <1>3, <1>4

\* For every sorted slice of ports the loop returns a port that no Frontend of
\* the list has; it is the lowest one from the starting port on, when no port in
\* use is below that.
THEOREM LoopFindsFreePort ==
  ASSUME NEW s \in Seq(Nat), Sorted(s), NEW m \in Nat
  PROVE  /\ FirstGap(s, m) \in Nat \ Elements(s)
         /\ (\A p \in Elements(s) : m <= p) =>
                /\ m <= FirstGap(s, m)
                /\ \A q \in Nat : m <= q /\ q < FirstGap(s, m) => q \in Elements(s)
<1>1. FirstGap(s, m) = NextPort(Elements(s), m)
  BY LoopIsNextPort
<1>2. Elements(s) \in SUBSET Nat
  BY DEF Elements
<1>3. IsFiniteSet(Elements(s))
  <2> DEFINE I == 1..Len(s)
             h == [i \in I |-> s[i]]
  <2>1. IsFiniteSet(I)
    BY FS_Interval
  <2>2. h \in Surjection(I, Elements(s))
    BY DEF Surjection, Elements
  <2> HIDE DEF I, h
  <2> QED BY <2>1, <2>2, FS_Surjection
<1> QED BY <1>1, <1>2, <1>3, NextPortIsFree, NextPortIsLowest

-----------------------------------------------------------------------------
(* The sort. *)

\* A finite set of ports has a highest one: otherwise the next higher port would
\* map it one-to-one to a smaller set.
LEMMA HighestExists ==
  ASSUME NEW P \in SUBSET Nat, IsFiniteSet(P), P # {}
  PROVE  \E x \in P : \A y \in P : y <= x
<1>1. SUFFICES ASSUME \A x \in P : \E y \in P : x < y PROVE FALSE
  <2>1. \A x, y \in P : x \in Nat /\ y \in Nat
    OBVIOUS
  <2>2. \A x, y \in P : ~(x < y) => y <= x
    BY <2>1
  <2> QED BY <2>2
<1> DEFINE Above(x) == {y \in P : x < y}
           T == P \ {Min(P)}
           g == [x \in P |-> Min(Above(x))]
<1>2. \A x \in P : Min(Above(x)) \in Above(x) /\ \A y \in Above(x) : Min(Above(x)) <= y
  <2> SUFFICES ASSUME NEW x \in P
               PROVE  Min(Above(x)) \in Above(x) /\ \A y \in Above(x) : Min(Above(x)) <= y
    OBVIOUS
  <2>1. Above(x) \in SUBSET Nat /\ Above(x) # {}
    BY <1>1
  <2> HIDE DEF Above
  <2> QED BY <2>1, MinIsLeast
<1>3. Min(P) \in P /\ \A y \in P : Min(P) <= y
  BY MinIsLeast
<1>4. \A x \in P : g[x] \in P /\ x < g[x] /\ g[x] # Min(P) /\ \A y \in P : x < y => g[x] <= y
  <2> SUFFICES ASSUME NEW x \in P
               PROVE  g[x] \in P /\ x < g[x] /\ g[x] # Min(P) /\ \A y \in P : x < y => g[x] <= y
    OBVIOUS
  <2>1. g[x] \in P /\ x < g[x] /\ \A y \in P : x < y => g[x] <= y
    BY <1>2
  <2> HIDE DEF g
  <2>2. x \in Nat /\ g[x] \in Nat /\ Min(P) \in Nat /\ Min(P) <= x
    BY <1>3, <2>1
  <2> QED BY <2>1, <2>2
<1>5. g \in [P -> T]
  BY <1>4
<1>6. IsFiniteSet(T) /\ Cardinality(T) < Cardinality(P)
  <2>1. IsFiniteSet(T) /\ Cardinality(T) = Cardinality(P) - 1
    BY <1>3, FS_RemoveElement
  <2>2. Cardinality(P) \in Nat
    BY FS_CardinalityType
  <2> QED BY <2>1, <2>2
<1> HIDE DEF T, g
<1>7. PICK x \in P, y \in P : x # y /\ g[x] = g[y]
  BY <1>5, <1>6, FS_PigeonHole
<1>8. x \in Nat /\ y \in Nat /\ g[x] \in Nat
  BY <1>4
<1>9. CASE x < y
  BY <1>4, <1>7, <1>8, <1>9
<1>10. CASE y < x
  BY <1>4, <1>7, <1>8, <1>10
<1> QED BY <1>7, <1>8, <1>9, <1>10

Below(s, v) == {j \in 1..Len(s) : s[j] < v}

UpTo(s, v) == {j \in 1..Len(s) : s[j] <= v}

\* The places of a slice are finitely many.
LEMMA PlacesFinite ==
  ASSUME NEW s \in Seq(Nat), NEW I \in SUBSET (1..Len(s))
  PROVE  /\ IsFiniteSet(I) /\ Cardinality(I) \in Nat /\ Cardinality(I) <= Len(s)
         /\ \A J \in SUBSET I : Cardinality(J) <= Cardinality(I)
<1>1. IsFiniteSet(1..Len(s)) /\ Cardinality(1..Len(s)) = Len(s)
  <2>1. Len(s) \in Nat /\ Len(s) \in Int /\ 1 \in Int
    OBVIOUS
  <2>2. /\ IsFiniteSet(1..Len(s))
        /\ Cardinality(1..Len(s)) = IF 1 > Len(s) THEN 0 ELSE Len(s) - 1 + 1
    BY <2>1, FS_Interval
  <2> QED BY <2>1, <2>2
<1>2. IsFiniteSet(I) /\ Cardinality(I) <= Len(s)
  BY <1>1, FS_Subset
<1> QED BY <1>2, FS_Subset, FS_CardinalityType

LEMMA ElementsFinite ==
  ASSUME NEW s \in Seq(Nat), NEW I \in SUBSET (1..Len(s))
  PROVE  IsFiniteSet({s[i] : i \in I}) /\ {s[i] : i \in I} \in SUBSET Nat
<1> DEFINE h == [i \in I |-> s[i]]
           E == {s[i] : i \in I}
<1>1. h \in Surjection(I, E)
  BY DEF Surjection
<1>2. IsFiniteSet(I)
  BY PlacesFinite
<1>3. E \in SUBSET Nat
  OBVIOUS
<1> HIDE DEF h, E
<1>4. IsFiniteSet(E)
  BY <1>1, <1>2, FS_Surjection
<1> QED BY <1>3, <1>4 DEF E

\* At every place there is a port that belongs there.
LEMMA PortOfPlace ==
  ASSUME NEW s \in Seq(Nat), NEW i \in 1..Len(s)
  PROVE  \E v \in Elements(s) : Cardinality(Below(s, v)) < i /\ i <= Cardinality(UpTo(s, v))
<1> DEFINE V == {v \in Elements(s) : i <= Cardinality(UpTo(s, v))}
<1>1. \A v : /\ Below(s, v) \in SUBSET (1..Len(s)) /\ Cardinality(Below(s, v)) \in Nat
             /\ UpTo(s, v) \in SUBSET (1..Len(s)) /\ Cardinality(UpTo(s, v)) \in Nat
  BY PlacesFinite DEF Below, UpTo
<1>2. V # {}
  <2>1. PICK x \in Elements(s) : \A y \in Elements(s) : y <= x
    <3>1. IsFiniteSet(Elements(s)) /\ Elements(s) \in SUBSET Nat
      BY ElementsFinite DEF Elements
    <3>2. s[i] \in Elements(s)
      BY DEF Elements
    <3> QED BY <3>1, <3>2, HighestExists
  <2>2. UpTo(s, x) = 1..Len(s)
    BY <2>1 DEF UpTo, Elements
  <2>3. Cardinality(UpTo(s, x)) = Len(s)
    BY <2>2, FS_Interval
  <2> QED BY <2>1, <2>3
<1>3. V \in SUBSET Nat
  BY DEF Elements
<1>4. PICK v \in V : \A w \in V : v <= w
  <2> HIDE DEF V
  <2> QED BY <1>2, <1>3, MinIsLeast
<1>5. Cardinality(Below(s, v)) < i
  <2> SUFFICES ASSUME i <= Cardinality(Below(s, v)) PROVE FALSE
    BY <1>1
  <2> DEFINE W == {s[j] : j \in Below(s, v)}
  <2>1. Below(s, v) # {}
    <3>1. Cardinality(Below(s, v)) # 0
      BY <1>1
    <3> QED BY <3>1, FS_EmptySet
  <2>2. PICK w \in W : \A y \in W : y <= w
    <3>1. IsFiniteSet(W) /\ W \in SUBSET Nat
      BY <1>1, ElementsFinite
    <3>2. W # {}
      BY <2>1
    <3> HIDE DEF W
    <3> QED BY <3>1, <3>2, HighestExists
  <2>3. w \in Elements(s) /\ w \in Nat /\ v \in Nat /\ w < v
    BY <1>3 DEF Below, Elements
  <2>4. Below(s, v) \in SUBSET UpTo(s, w)
    BY <2>2 DEF Below, UpTo
  <2>5. Cardinality(Below(s, v)) <= Cardinality(UpTo(s, w))
    BY <1>1, <2>4, PlacesFinite
  <2>6. i <= Cardinality(UpTo(s, w))
    BY <1>1, <2>5
  <2>7. w \in V
    BY <2>3, <2>6
  <2> HIDE DEF V, W
  <2> QED BY <1>4, <2>3, <2>7
<1> QED BY <1>4, <1>5

LEMMA SortPlaces ==
  ASSUME NEW s \in Seq(Nat)
  PROVE  /\ Sort(s) \in Seq(Nat) /\ Len(Sort(s)) = Len(s)
         /\ \A i \in 1..Len(s) :
               /\ Sort(s)[i] \in Elements(s)
               /\ Cardinality(Below(s, Sort(s)[i])) < i
               /\ i <= Cardinality(UpTo(s, Sort(s)[i]))
<1> DEFINE At(i) == CHOOSE v \in Elements(s) :
                        Cardinality(Below(s, v)) < i /\ i <= Cardinality(UpTo(s, v))
<1>1. Sort(s) = [i \in 1..Len(s) |-> At(i)]
  BY DEF Sort, Elements, Below, UpTo
<1>2. \A i \in 1..Len(s) : /\ At(i) \in Elements(s)
                           /\ Cardinality(Below(s, At(i))) < i
                           /\ i <= Cardinality(UpTo(s, At(i)))
  BY PortOfPlace
<1>3. Elements(s) \in SUBSET Nat
  BY DEF Elements
<1> HIDE DEF At
<1>4. Sort(s) \in Seq(Nat) /\ Len(Sort(s)) = Len(s)
  BY <1>1, <1>2, <1>3
<1> QED BY <1>1, <1>2, <1>4

\* The sort does what its name says: ascending order, and the same ports.
THEOREM SortSorts ==
  ASSUME NEW s \in Seq(Nat)
  PROVE  Sort(s) \in Seq(Nat) /\ Sorted(Sort(s)) /\ Elements(Sort(s)) = Elements(s)
<1> DEFINE t == Sort(s)
<1>1. /\ t \in Seq(Nat) /\ Len(t) = Len(s)
      /\ \A i \in 1..Len(s) : /\ t[i] \in Elements(s)
                              /\ Cardinality(Below(s, t[i])) < i
                              /\ i <= Cardinality(UpTo(s, t[i]))
  BY SortPlaces
<1> HIDE DEF t
<1>2. \A v : /\ Below(s, v) \in SUBSET (1..Len(s)) /\ Cardinality(Below(s, v)) \in Nat
             /\ UpTo(s, v) \in SUBSET (1..Len(s)) /\ Cardinality(UpTo(s, v)) \in Nat
  BY PlacesFinite DEF Below, UpTo
<1>3. ASSUME NEW v \in Nat, NEW w \in Nat, v < w
      PROVE  Cardinality(UpTo(s, v)) <= Cardinality(Below(s, w))
  <2>1. UpTo(s, v) \in SUBSET Below(s, w)
    BY <1>3 DEF UpTo, Below
  <2> QED BY <1>2, <2>1, PlacesFinite
<1>4. Sorted(t)
  <2> SUFFICES ASSUME NEW i \in 1..Len(s), NEW j \in 1..Len(s), i < j, ~(t[i] <= t[j])
               PROVE  FALSE
    BY <1>1 DEF Sorted
  <2>1. t[i] \in Nat /\ t[j] \in Nat /\ t[j] < t[i]
    BY <1>1
  <2>2. /\ Cardinality(Below(s, t[i])) < i /\ j <= Cardinality(UpTo(s, t[j]))
        /\ Cardinality(UpTo(s, t[j])) <= Cardinality(Below(s, t[i]))
    BY <1>1, <1>3, <2>1
  <2>3. Cardinality(Below(s, t[i])) \in Nat /\ Cardinality(UpTo(s, t[j])) \in Nat
    BY <1>2
  <2> QED BY <2>2, <2>3
<1>5. Elements(t) \in SUBSET Elements(s)
  BY <1>1 DEF Elements
<1>6. ASSUME NEW k \in 1..Len(s) PROVE s[k] \in Elements(t)
  <2> DEFINE v == s[k]
             i == Cardinality(Below(s, v)) + 1
  <2>1. v \in Nat
    OBVIOUS
  <2>2. i <= Cardinality(UpTo(s, v))
    <3>1. k \notin Below(s, v) /\ Below(s, v) \cup {k} \in SUBSET UpTo(s, v)
      BY DEF Below, UpTo
    <3>2. Cardinality(Below(s, v) \cup {k}) = i
      BY <1>2, <3>1, PlacesFinite, FS_AddElement
    <3> QED BY <1>2, <3>1, <3>2, PlacesFinite
  <2>3. i \in 1..Len(s)
    <3>1. Cardinality(UpTo(s, v)) <= Len(s)
      BY <1>2, PlacesFinite
    <3> QED BY <1>2, <2>2, <3>1
  <2> HIDE DEF v
  <2>4. t[i] \in Nat
    BY <1>1, <2>3
  <2> DEFINE u == t[i]
  <2>5. /\ Cardinality(Below(s, u)) < i /\ i <= Cardinality(UpTo(s, u))
        /\ Cardinality(Below(s, u)) \in Nat /\ Cardinality(UpTo(s, u)) \in Nat
        /\ Cardinality(Below(s, v)) \in Nat /\ Cardinality(UpTo(s, v)) \in Nat
    BY <1>1, <1>2, <2>3
  <2> HIDE DEF u
  <2>6. ~(u < v) /\ ~(v < u)
    <3>1. ASSUME u < v PROVE FALSE
      <4>1. Cardinality(UpTo(s, u)) <= Cardinality(Below(s, v))
        BY <1>3, <2>1, <2>4, <3>1 DEF u
      <4> QED BY <2>5, <4>1
    <3>2. ASSUME v < u PROVE FALSE
      <4>1. Cardinality(UpTo(s, v)) <= Cardinality(Below(s, u))
        BY <1>3, <2>1, <2>4, <3>2 DEF u
      <4> QED BY <2>2, <2>5, <4>1
    <3> QED BY <3>1, <3>2
  <2>7. t[i] = v
    BY <2>1, <2>4, <2>6 DEF u
  <2> QED BY <1>1, <2>3, <2>7 DEF Elements, v
<1>7. Elements(t) = Elements(s)
  BY <1>5, <1>6 DEF Elements
<1> QED BY <1>1, <1>4, <1>7 DEF t

=============================================================================
