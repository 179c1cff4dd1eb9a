------------------------ MODULE ConfigBuilder_proofs ------------------------
(***************************************************************************)
(* What BuildConfig writes, for every list of Frontends with any names,    *)
(* ports and selections of Backends: when HAProxy accepts its section      *)
(* names, and that routes follow the selections.                           *)
(***************************************************************************)
EXTENDS MCConfigBuilder, FrontendPorts_proofs

-----------------------------------------------------------------------------
(* Concatenation. *)

\* Induction up to n, over a set.
LEMMA Upwards ==
  ASSUME NEW n \in Nat, NEW T, 1 \in T, \A k \in 1..n : k \in T /\ k + 1 <= n => k + 1 \in T
  PROVE  \A k \in 1..n : k \in T
<1> DEFINE M == (1..n) \ T
<1> SUFFICES ASSUME M # {} PROVE FALSE
  OBVIOUS
<1>1. M \in SUBSET Nat
  OBVIOUS
<1>2. PICK k \in M : \A l \in M : k <= l
  <2> HIDE DEF M
  <2> QED BY <1>1, MinIsLeast
<1>3. k \in 1..n /\ k # 1 /\ k \notin T
  OBVIOUS
<1>4. k - 1 \in 1..n /\ (k - 1) + 1 = k /\ k - 1 \notin M
  BY <1>2, <1>3
<1> QED BY <1>3, <1>4

\* What stands where in a concatenation.
LEMMA Concatenated ==
  ASSUME NEW S, NEW a \in Seq(S), NEW b \in Seq(S)
  PROVE  /\ a \o b \in Seq(S) /\ Len(a \o b) = Len(a) + Len(b)
         /\ Len(a) \in Nat /\ Len(b) \in Nat
         /\ \A q \in 1..Len(a) : q \in 1..Len(a \o b) /\ (a \o b)[q] = a[q]
         /\ \A k \in 1..Len(b) : Len(a) + k \in 1..Len(a \o b) /\ (a \o b)[Len(a) + k] = b[k]
OBVIOUS

\* The recursive function of FlattenSeq.
Flatten(seqs, g, n) ==
    g = [i \in 1..n |-> IF i = 1 THEN seqs[i] ELSE g[i - 1] \o seqs[i]]

LEMMA FlattenExists ==
  ASSUME NEW seqs, NEW n \in Nat
  PROVE  \E g : Flatten(seqs, g, n)
<1> DEFINE T == {k \in 1..n : \E g : Flatten(seqs, g, k)}
<1>1. CASE n = 0
  <2>1. Flatten(seqs, [i \in 1..0 |-> seqs[i]], 0)
    BY DEF Flatten
  <2> QED BY <1>1, <2>1
<1>2. CASE n # 0
  <2>1. 1 \in T
    <3>1. Flatten(seqs, [i \in 1..1 |-> seqs[i]], 1)
      BY DEF Flatten
    <3> QED BY <1>2, <3>1
  <2>2. ASSUME NEW k \in 1..n, k \in T, k + 1 <= n PROVE k + 1 \in T
    <3>1. PICK g : Flatten(seqs, g, k)
      BY <2>2
    <3> DEFINE h == [i \in 1..(k + 1) |-> IF i <= k THEN g[i] ELSE g[k] \o seqs[k + 1]]
    <3>2. ASSUME NEW i \in 1..(k + 1)
          PROVE  h[i] = IF i = 1 THEN seqs[i] ELSE h[i - 1] \o seqs[i]
      <4>1. CASE i <= k
        <5>1. g[i] = IF i = 1 THEN seqs[i] ELSE g[i - 1] \o seqs[i]
          <6>1. i \in 1..k
            BY <4>1
          <6>2. g = [l \in 1..k |-> IF l = 1 THEN seqs[l] ELSE g[l - 1] \o seqs[l]]
            BY <3>1 DEF Flatten
          <6> QED BY ONLY <6>1, <6>2
        <5>2. h[i] = g[i] /\ (i # 1 => h[i - 1] = g[i - 1])
          BY <4>1
        <5> HIDE DEF h
        <5> QED BY <5>1, <5>2
      <4>2. CASE i = k + 1
        BY <4>2
      <4> QED BY <4>1, <4>2
    <3>3. h = [i \in 1..(k + 1) |-> IF i = 1 THEN seqs[i] ELSE h[i - 1] \o seqs[i]]
      <4> HIDE DEF h
      <4>1. h = [i \in 1..(k + 1) |-> h[i]]
        BY DEF h
      <4> QED BY <3>2, <4>1
    <3>4. Flatten(seqs, h, k + 1)
      <4> HIDE DEF h
      <4> QED BY <3>3 DEF Flatten
    <3> QED BY <2>2, <3>4
  <2>3. n \in T
    <3> HIDE DEF T
    <3> QED BY <1>2, <2>1, <2>2, Upwards
  <2> QED BY <2>3
<1> QED BY <1>1, <1>2

LEMMA FlattenIs ==
  ASSUME NEW S, NEW seqs \in Seq(Seq(S)), Len(seqs) # 0
  PROVE  \E g : Flatten(seqs, g, Len(seqs)) /\ FlattenSeq(seqs) = g[Len(seqs)]
<1> DEFINE g == CHOOSE g : Flatten(seqs, g, Len(seqs))
<1>1. Flatten(seqs, g, Len(seqs))
  <2>1. Len(seqs) \in Nat
    OBVIOUS
  <2> QED BY <2>1, FlattenExists
<1>2. FlattenSeq(seqs) = g[Len(seqs)]
  BY DEF FlattenSeq, Flatten
<1> QED BY <1>1, <1>2

\* Where the k-th element of the i-th sequence gets to.
Start(g, i) == IF i = 1 THEN 0 ELSE Len(g[i - 1])

\* Every element of every sequence gets a place of its own.
LEMMA FlattenPlaces ==
  ASSUME NEW S, NEW seqs \in Seq(Seq(S)), NEW g, Flatten(seqs, g, Len(seqs)), Len(seqs) # 0
  PROVE  LET whole == g[Len(seqs)]
         IN  /\ whole \in Seq(S)
             /\ \A i \in 1..Len(seqs) : Start(g, i) \in Nat
             /\ \A i \in 1..Len(seqs) : \A k \in 1..Len(seqs[i]) :
                   Start(g, i) + k \in 1..Len(whole) /\ whole[Start(g, i) + k] = seqs[i][k]
             /\ \A q \in 1..Len(whole) : \E i \in 1..Len(seqs) : \E k \in 1..Len(seqs[i]) :
                   q = Start(g, i) + k
             /\ \A i, j \in 1..Len(seqs) : \A k \in 1..Len(seqs[i]), l \in 1..Len(seqs[j]) :
                   Start(g, i) + k = Start(g, j) + l => i = j /\ k = l
<1> DEFINE n == Len(seqs)
<1>1. n \in Nat /\ n >= 1 /\ \A i \in 1..n : seqs[i] \in Seq(S)
  OBVIOUS
<1>2. \A i \in 1..n : g[i] = IF i = 1 THEN seqs[i] ELSE g[i - 1] \o seqs[i]
  <2>1. g = [i \in 1..n |-> IF i = 1 THEN seqs[i] ELSE g[i - 1] \o seqs[i]]
    BY DEF Flatten
  <2> QED BY ONLY <2>1
<1> HIDE DEF n
<1>3. \A i \in 1..n : g[i] \in Seq(S)
  <2> DEFINE T == {i \in 1..n : g[i] \in Seq(S)}
  <2>1. 1 \in T
    BY <1>1, <1>2
  <2>2. ASSUME NEW k \in 1..n, k \in T, k + 1 <= n PROVE k + 1 \in T
    <3>1. k + 1 \in 1..n /\ k + 1 # 1 /\ (k + 1) - 1 = k
      BY <1>1, <2>2
    <3>2. g[k + 1] = g[k] \o seqs[k + 1]
      BY <1>2, <3>1
    <3>3. g[k] \in Seq(S) /\ seqs[k + 1] \in Seq(S)
      BY <1>1, <2>2, <3>1
    <3>4. g[k] \o seqs[k + 1] \in Seq(S)
      BY <3>3, Concatenated
    <3> QED BY <3>1, <3>2, <3>4
  <2>3. \A k \in 1..n : k \in T
    <3> HIDE DEF T
    <3> QED BY <1>1, <2>1, <2>2, Upwards
  <2> QED BY <2>3
<1>4. ASSUME NEW i \in 1..n
      PROVE  /\ Start(g, i) \in Nat
             /\ Len(g[i]) = Start(g, i) + Len(seqs[i])
             /\ \A k \in 1..Len(seqs[i]) : g[i][Start(g, i) + k] = seqs[i][k]
  <2>1. CASE i = 1
    BY <1>1, <1>2, <2>1 DEF Start
  <2>2. CASE i # 1
    <3>1. i - 1 \in 1..n
      BY <1>1, <2>2
    <3>2. g[i - 1] \in Seq(S) /\ seqs[i] \in Seq(S) /\ g[i] = g[i - 1] \o seqs[i]
      BY <1>1, <1>2, <1>3, <2>2, <3>1
    <3>3. Start(g, i) = Len(g[i - 1])
      BY <2>2 DEF Start
    <3> DEFINE a == g[i - 1]  b == seqs[i]
    <3>4. a \in Seq(S) /\ b \in Seq(S) /\ g[i] = a \o b /\ Start(g, i) = Len(a)
      BY <3>2, <3>3
    <3> HIDE DEF a, b
    <3>5. /\ Len(a) \in Nat /\ Len(a \o b) = Len(a) + Len(b)
          /\ \A k \in 1..Len(b) : (a \o b)[Len(a) + k] = b[k]
      BY <3>4, Concatenated
    <3> QED BY <3>4, <3>5 DEF b
  <2> QED BY <2>1, <2>2
<1> DEFINE Holds(i, j) ==
             \A k \in 1..Len(seqs[i]) : /\ Start(g, i) + k \in 1..Len(g[j])
                                        /\ g[j][Start(g, i) + k] = seqs[i][k]
           Covered(j) ==
             \A q \in 1..Len(g[j]) : \E i \in 1..j : \E k \in 1..Len(seqs[i]) : q = Start(g, i) + k
           T == {j \in 1..n : Covered(j) /\ \A i \in 1..j : Holds(i, j)}
<1>5. \A j \in 1..n : Holds(j, j)
  <2> SUFFICES ASSUME NEW j \in 1..n PROVE Holds(j, j)
    OBVIOUS
  <2>1. Len(seqs[j]) \in Nat /\ Len(g[j]) \in Nat
    BY <1>1, <1>3
  <2>2. /\ Start(g, j) \in Nat /\ Len(g[j]) = Start(g, j) + Len(seqs[j])
        /\ \A k \in 1..Len(seqs[j]) : g[j][Start(g, j) + k] = seqs[j][k]
    BY <1>4
  <2> DEFINE a == Start(g, j)  x == Len(seqs[j])
  <2>3. a \in Nat /\ x \in Nat /\ Len(g[j]) = a + x
    BY <2>1, <2>2
  <2> HIDE DEF a, x
  <2>4. \A k \in 1..x : a + k \in 1..(a + x)
    BY ONLY <2>3
  <2> QED BY <2>2, <2>3, <2>4 DEF a, x
<1>6. \A j \in 1..n : j \in T
  <2>1. 1 \in T
    <3>1. 1 \in 1..n
      BY <1>1
    <3>2. Start(g, 1) = 0 /\ g[1] = seqs[1]
      BY <1>2, <3>1 DEF Start
    <3>3. Len(seqs[1]) \in Nat
      BY <1>1, <3>1
    <3>4. Covered(1)
      BY <3>2, <3>3
    <3>5. \A i \in 1..1 : Holds(i, 1)
      <4> HIDE DEF Holds
      <4> QED BY <1>5, <3>1
    <3> HIDE DEF Covered, Holds
    <3> QED BY <3>1, <3>4, <3>5
  <2>2. ASSUME NEW j \in 1..n, j \in T, j + 1 <= n PROVE j + 1 \in T
    <3>1. j \in Nat /\ j + 1 \in 1..n /\ j + 1 # 1 /\ (j + 1) - 1 = j
      BY <1>1, <2>2
    <3>2. g[j] \in Seq(S) /\ seqs[j + 1] \in Seq(S) /\ g[j + 1] = g[j] \o seqs[j + 1]
      BY <1>1, <1>2, <1>3, <3>1
    <3>3. Start(g, j + 1) = Len(g[j])
      BY <3>1 DEF Start
    <3>4. Covered(j) /\ \A i \in 1..j : Holds(i, j)
      BY <2>2
    <3>5. ASSUME NEW i \in 1..(j + 1) PROVE Holds(i, j + 1)
      <4>1. CASE i = j + 1
        <5> HIDE DEF Holds
        <5> QED BY <1>5, <3>1, <4>1
      <4>2. CASE i # j + 1
        <5>1. i \in 1..j /\ Holds(i, j)
          BY <3>1, <3>4, <4>2
        <5>2. \A q \in 1..Len(g[j]) : q \in 1..Len(g[j + 1]) /\ g[j + 1][q] = g[j][q]
          <6> DEFINE a == g[j]  b == seqs[j + 1]
          <6>1. a \in Seq(S) /\ b \in Seq(S) /\ g[j + 1] = a \o b
            BY <3>2
          <6> HIDE DEF a, b
          <6>2. \A q \in 1..Len(a) : q \in 1..Len(a \o b) /\ (a \o b)[q] = a[q]
            BY <6>1, Concatenated
          <6> QED BY <6>1, <6>2 DEF a
        <5> QED BY <5>1, <5>2
      <4> QED BY <4>1, <4>2
    <3>6. Covered(j + 1)
      <4> SUFFICES ASSUME NEW q \in 1..Len(g[j + 1])
                   PROVE  \E i \in 1..(j + 1) : \E k \in 1..Len(seqs[i]) : q = Start(g, i) + k
        OBVIOUS
      <4>1. Len(g[j]) \in Nat /\ Len(seqs[j + 1]) \in Nat /\ Len(g[j + 1]) = Len(g[j]) + Len(seqs[j + 1])
        <5>1. Len(g[j] \o seqs[j + 1]) = Len(g[j]) + Len(seqs[j + 1])
          BY <3>2, Concatenated
        <5> QED BY <3>2, <5>1
      <4>2. CASE q <= Len(g[j])
        <5>1. q \in 1..Len(g[j])
          BY <4>1, <4>2
        <5>2. PICK i \in 1..j : \E k \in 1..Len(seqs[i]) : q = Start(g, i) + k
          BY <3>4, <5>1
        <5>3. i \in 1..(j + 1)
          BY <3>1
        <5> QED BY <5>2, <5>3
      <4>3. CASE ~(q <= Len(g[j]))
        <5> DEFINE k == q - Len(g[j])
        <5>1. k \in 1..Len(seqs[j + 1]) /\ q = Len(g[j]) + k
          <6> DEFINE x == Len(g[j])  y == Len(seqs[j + 1])
          <6>1. x \in Nat /\ y \in Nat /\ q \in 1..(x + y) /\ ~(q <= x)
            BY <4>1, <4>3
          <6> HIDE DEF x, y
          <6>2. q - x \in 1..y /\ q = x + (q - x)
            BY ONLY <6>1
          <6> QED BY <6>2 DEF x, y
        <5>2. j + 1 \in 1..(j + 1)
          BY <3>1
        <5> HIDE DEF k
        <5> QED BY <3>3, <5>1, <5>2
      <4> QED BY <4>2, <4>3
    <3> HIDE DEF Holds, Covered
    <3> QED BY <3>1, <3>5, <3>6
  <2> HIDE DEF T
  <2> QED BY <1>1, <2>1, <2>2, Upwards
<1>7. \A j \in 1..n : Covered(j) /\ \A i \in 1..j : Holds(i, j)
  <2> HIDE DEF Covered, Holds
  <2> QED BY <1>6
<1>8. ASSUME NEW i \in 1..n, NEW j \in 1..n, i < j, NEW k \in 1..Len(seqs[i]),
             NEW l \in 1..Len(seqs[j])
      PROVE  Start(g, i) + k < Start(g, j) + l
  <2>1. i \in 1..(j - 1) /\ j - 1 \in 1..n /\ j # 1
    BY <1>1, <1>8
  <2>2. Holds(i, j - 1)
    <3> HIDE DEF Holds, Covered
    <3> QED BY <1>7, <2>1
  <2>3. Start(g, i) + k <= Start(g, j)
    BY <2>1, <2>2 DEF Start
  <2>4. Start(g, i) \in Nat /\ Start(g, j) \in Nat /\ k \in Nat /\ l \in Nat /\ l >= 1
    BY <1>4
  <2> QED BY <2>3, <2>4
<1>9. \A i, j \in 1..n : \A k \in 1..Len(seqs[i]), l \in 1..Len(seqs[j]) :
         Start(g, i) + k = Start(g, j) + l => i = j /\ k = l
  <2> SUFFICES ASSUME NEW i \in 1..n, NEW j \in 1..n, NEW k \in 1..Len(seqs[i]),
                      NEW l \in 1..Len(seqs[j]), Start(g, i) + k = Start(g, j) + l
               PROVE  i = j /\ k = l
    OBVIOUS
  <2>1. /\ Start(g, i) \in Nat /\ Start(g, j) \in Nat
        /\ k \in Nat /\ l \in Nat /\ i \in Nat /\ j \in Nat
    <3>1. Start(g, i) \in Nat /\ Start(g, j) \in Nat
      BY <1>4
    <3>2. k \in Nat /\ l \in Nat
      OBVIOUS
    <3>3. i \in Nat /\ j \in Nat
      OBVIOUS
    <3> QED BY ONLY <3>1, <3>2, <3>3
  <2> HIDE DEF Holds, Covered, T
  <2>2. ASSUME i < j PROVE FALSE
    <3>1. Start(g, i) + k < Start(g, j) + l
      BY ONLY i \in 1..n, j \in 1..n, k \in 1..Len(seqs[i]), l \in 1..Len(seqs[j]), <1>8, <2>2
    <3> QED BY <2>1, <3>1
  <2>3. ASSUME j < i PROVE FALSE
    <3>1. Start(g, j) + l < Start(g, i) + k
      BY ONLY i \in 1..n, j \in 1..n, k \in 1..Len(seqs[i]), l \in 1..Len(seqs[j]), <1>8, <2>3
    <3> QED BY <2>1, <3>1
  <2>4. i = j
    BY ONLY <2>1, <2>2, <2>3
  <2> QED BY <2>1, <2>4
<1>10. n \in 1..n
  BY <1>1
<1>11. Covered(n) /\ \A i \in 1..n : Holds(i, n)
  <2> HIDE DEF Covered, Holds
  <2> QED BY <1>7, <1>10
<1> QED BY <1>3, <1>4, <1>9, <1>10, <1>11 DEF n

-----------------------------------------------------------------------------
(* What BuildConfig writes. *)

\* The Backends that getBackends has for a Frontend.
ItemsOf(i) == GetBackends(frontends)[frontends[i].name]

\* They are those of the last Frontend of its name.
LEMMA LastOfName ==
  ASSUME NEW Fs, frontends \in Seq(Fs), NEW i \in Listed
  PROVE  \E l \in Listed :
            frontends[l].name = frontends[i].name /\ ItemsOf(i) = frontends[l].items
<1> DEFINE I == {l \in 1..Len(frontends) : frontends[l].name = frontends[i].name}
<1>1. ItemsOf(i) = frontends[IF I # {} THEN Max(I) ELSE 0].items
  <2>1. frontends[i].name \in {f.name : f \in ToSet(frontends)}
    BY DEF Listed, ToSet
  <2> QED BY <2>1 DEF ItemsOf, GetBackends, SelectLastInSeq
<1>2. i \in I /\ I \in SUBSET Nat
  BY DEF Listed
<1>3. IsFiniteSet(I)
  <2>1. IsFiniteSet(1..Len(frontends))
    BY FS_Interval
  <2> QED BY <2>1, FS_Subset
<1>4. Max(I) \in I
  <2> HIDE DEF I
  <2>1. PICK x \in I : \A y \in I : y <= x
    BY <1>2, <1>3, HighestExists
  <2>2. \A y \in I : x >= y
    BY <1>2, <2>1
  <2> QED BY <2>2 DEF Max
<1>5. Max(I) \in Listed /\ frontends[Max(I)].name = frontends[i].name
  BY <1>4 DEF Listed
<1>6. ItemsOf(i) = frontends[Max(I)].items
  BY <1>1, <1>2
<1> HIDE DEF I
<1> QED BY <1>5, <1>6

\* The sections of a Frontend.
Block(i) ==
    <<FrontendSection(frontends[i].name, frontends[i].port, ItemsOf(i))>>
    \o [k \in DOMAIN ItemsOf(i) |-> BackendSection(ItemsOf(i)[k])]

Config == <<StatsSection, PrometheusSection>> \o LoadBalancerConfig(frontends)

LEMMA ConfigsAreConfig == \A config \in Configs : config = Config
BY DEF Configs, BuildConfig, Config

\* Where things stand in a configuration: the fixed sections first, and section k
\* of Frontend i, and nothing else, at start[i] + k.
Laid(start) ==
    /\ Len(Config) \in Nat /\ DOMAIN Config = 1..Len(Config)
    /\ 1 \in DOMAIN Config /\ Config[1] = StatsSection
    /\ 2 \in DOMAIN Config /\ Config[2] = PrometheusSection
    /\ \A i \in Listed : start[i] \in Nat /\ start[i] >= 2
    /\ \A i \in Listed : \A k \in 1..Len(Block(i)) :
          start[i] + k \in DOMAIN Config /\ Config[start[i] + k] = Block(i)[k]
    /\ \A q \in DOMAIN Config :
          q \in {1, 2} \/ \E i \in Listed : \E k \in 1..Len(Block(i)) : q = start[i] + k
    /\ \A i, j \in Listed : \A k \in 1..Len(Block(i)), l \in 1..Len(Block(j)) :
          start[i] + k = start[j] + l => i = j /\ k = l

\* The sections of the Frontends and Backends.
Sections(Bs) ==
    {FrontendSection(frontends[i].name, frontends[i].port, ItemsOf(i)) : i \in Listed}
    \cup {BackendSection(b) : b \in Bs}

LEMMA BlockPlaces ==
  ASSUME NEW Bs, NEW Fs, \A f \in Fs : f.items \in Seq(Bs), frontends \in Seq(Fs),
         NEW i \in Listed
  PROVE  /\ ItemsOf(i) \in Seq(Bs) /\ Len(ItemsOf(i)) \in Nat
         /\ Block(i) \in Seq(Sections(Bs))
         /\ Len(Block(i)) = 1 + Len(ItemsOf(i))
         /\ Block(i)[1] = FrontendSection(frontends[i].name, frontends[i].port, ItemsOf(i))
         /\ \A k \in 1..Len(ItemsOf(i)) : Block(i)[1 + k] = BackendSection(ItemsOf(i)[k])
<1> DEFINE F == FrontendSection(frontends[i].name, frontends[i].port, ItemsOf(i))
           first == <<F>>
           rest == [k \in DOMAIN ItemsOf(i) |-> BackendSection(ItemsOf(i)[k])]
<1>1. ItemsOf(i) \in Seq(Bs)
  <2>1. PICK l \in Listed : ItemsOf(i) = frontends[l].items
    BY LastOfName
  <2>2. frontends[l] \in Fs
    BY DEF Listed
  <2> QED BY <2>1, <2>2
<1>2. Len(ItemsOf(i)) \in Nat /\ DOMAIN ItemsOf(i) = 1..Len(ItemsOf(i))
  BY <1>1
<1>3. F \in Sections(Bs) /\ \A k \in 1..Len(ItemsOf(i)) : BackendSection(ItemsOf(i)[k]) \in Sections(Bs)
  BY <1>1 DEF Sections
<1> HIDE DEF F
<1>4. /\ rest \in Seq(Sections(Bs)) /\ Len(rest) = Len(ItemsOf(i))
      /\ \A k \in 1..Len(ItemsOf(i)) : rest[k] = BackendSection(ItemsOf(i)[k])
  BY <1>2, <1>3
<1>5. first \in Seq(Sections(Bs)) /\ Len(first) = 1 /\ first[1] = F /\ 1 \in 1..1
  BY <1>3
<1>6. Block(i) = first \o rest
  BY DEF Block, F
<1> HIDE DEF first, rest
<1>7. /\ first \o rest \in Seq(Sections(Bs)) /\ Len(first \o rest) = Len(first) + Len(rest)
      /\ \A q \in 1..Len(first) : (first \o rest)[q] = first[q]
      /\ \A k \in 1..Len(rest) : (first \o rest)[Len(first) + k] = rest[k]
  <2>1. first \in Seq(Sections(Bs)) /\ rest \in Seq(Sections(Bs))
    BY <1>4, <1>5
  <2> QED BY ONLY <2>1, Concatenated
<1> QED BY <1>1, <1>2, <1>4, <1>5, <1>6, <1>7 DEF F

\* The sections of the Frontends, one after the other: section k of Frontend i is
\* at start[i] + k.
Spread(whole, start) ==
    /\ \A i \in Listed : start[i] \in Nat
    /\ \A i \in Listed : \A k \in 1..Len(Block(i)) :
          start[i] + k \in 1..Len(whole) /\ whole[start[i] + k] = Block(i)[k]
    /\ \A q \in 1..Len(whole) : \E i \in Listed : \E k \in 1..Len(Block(i)) :
          q = start[i] + k
    /\ \A i, j \in Listed : \A k \in 1..Len(Block(i)), l \in 1..Len(Block(j)) :
          start[i] + k = start[j] + l => i = j /\ k = l

LEMMA FrontendPlaces ==
  ASSUME NEW Bs, NEW Fs, \A f \in Fs : f.items \in Seq(Bs), frontends \in Seq(Fs)
  PROVE  /\ LoadBalancerConfig(frontends) \in Seq(Sections(Bs))
         /\ \E start : Spread(LoadBalancerConfig(frontends), start)
<1> DEFINE blocks == [i \in Listed |-> Block(i)]
<1>1. Listed = 1..Len(frontends) /\ Len(frontends) \in Nat
  BY DEF Listed
<1>2. LoadBalancerConfig(frontends) = FlattenSeq(blocks)
  BY DEF LoadBalancerConfig, Block, Listed, ItemsOf
<1>3. \A i \in Listed : Block(i) \in Seq(Sections(Bs)) /\ Len(Block(i)) \in Nat
  BY BlockPlaces
<1>4. /\ blocks \in Seq(Seq(Sections(Bs))) /\ Len(blocks) = Len(frontends)
      /\ \A i \in Listed : blocks[i] = Block(i)
  BY <1>1, <1>3
<1> HIDE DEF blocks
<1>5. CASE Len(frontends) = 0
  <2>1. FlattenSeq(blocks) = <<>>
    BY <1>4, <1>5 DEF FlattenSeq
  <2>2. Listed = {}
    BY <1>1, <1>5
  <2>3. Spread(<<>>, <<>>)
    BY <2>2 DEF Spread
  <2>4. <<>> \in Seq(Sections(Bs))
    OBVIOUS
  <2> QED BY <1>2, <2>1, <2>3, <2>4
<1>6. CASE Len(frontends) # 0
  <2>1. PICK g : Flatten(blocks, g, Len(blocks)) /\ FlattenSeq(blocks) = g[Len(blocks)]
    BY <1>4, <1>6, FlattenIs
  <2> DEFINE start == [i \in Listed |-> Start(g, i)]
             whole == g[Len(blocks)]
  <2>2. /\ whole \in Seq(Sections(Bs))
        /\ \A i \in 1..Len(blocks) : Start(g, i) \in Nat
        /\ \A i \in 1..Len(blocks) : \A k \in 1..Len(blocks[i]) :
             Start(g, i) + k \in 1..Len(whole) /\ whole[Start(g, i) + k] = blocks[i][k]
        /\ \A q \in 1..Len(whole) : \E i \in 1..Len(blocks) : \E k \in 1..Len(blocks[i]) :
             q = Start(g, i) + k
        /\ \A i, j \in 1..Len(blocks) : \A k \in 1..Len(blocks[i]), l \in 1..Len(blocks[j]) :
             Start(g, i) + k = Start(g, j) + l => i = j /\ k = l
    <3>1. Len(blocks) # 0 /\ blocks \in Seq(Seq(Sections(Bs)))
      BY <1>4, <1>6
    <3> QED BY ONLY <2>1, <3>1, FlattenPlaces
  <2>3. \A i : i \in 1..Len(blocks) <=> i \in Listed
    BY <1>1, <1>4
  <2>4. \A i \in Listed : start[i] = Start(g, i) /\ blocks[i] = Block(i)
    BY <1>4
  <2> HIDE DEF start, whole
  <2>5. ASSUME NEW i \in Listed
        PROVE  /\ start[i] \in Nat
               /\ \A k \in 1..Len(Block(i)) :
                     start[i] + k \in 1..Len(whole) /\ whole[start[i] + k] = Block(i)[k]
    <3>1. i \in 1..Len(blocks) /\ start[i] = Start(g, i) /\ blocks[i] = Block(i)
      BY <2>3, <2>4
    <3>2. /\ Start(g, i) \in Nat
          /\ \A k \in 1..Len(blocks[i]) :
                Start(g, i) + k \in 1..Len(whole) /\ whole[Start(g, i) + k] = blocks[i][k]
      BY <2>2, <3>1
    <3> QED BY <3>1, <3>2
  <2>6. ASSUME NEW q \in 1..Len(whole)
        PROVE  \E i \in Listed : \E k \in 1..Len(Block(i)) : q = start[i] + k
    <3>1. PICK i \in 1..Len(blocks) : \E k \in 1..Len(blocks[i]) : q = Start(g, i) + k
      BY <2>2
    <3>2. i \in Listed /\ start[i] = Start(g, i) /\ blocks[i] = Block(i)
      BY <2>3, <2>4
    <3> QED BY <3>1, <3>2
  <2>7. ASSUME NEW i \in Listed, NEW j \in Listed, NEW k \in 1..Len(Block(i)),
               NEW l \in 1..Len(Block(j)), start[i] + k = start[j] + l
        PROVE  i = j /\ k = l
    <3>1. i \in 1..Len(blocks) /\ start[i] = Start(g, i) /\ blocks[i] = Block(i)
      BY <2>3, <2>4
    <3>2. j \in 1..Len(blocks) /\ start[j] = Start(g, j) /\ blocks[j] = Block(j)
      BY <2>3, <2>4
    <3>3. k \in 1..Len(blocks[i]) /\ l \in 1..Len(blocks[j]) /\ Start(g, i) + k = Start(g, j) + l
      BY <2>7, <3>1, <3>2
    <3> QED BY <2>2, <3>1, <3>2, <3>3
  <2>8. LoadBalancerConfig(frontends) = whole
    BY <1>2, <2>1 DEF whole
  <2>9. whole \in Seq(Sections(Bs))
    BY <2>2
  <2>10. Spread(whole, start)
    BY <2>5, <2>6, <2>7 DEF Spread
  <2> QED BY <2>8, <2>9, <2>10
<1> QED BY <1>1, <1>5, <1>6

\* BuildConfig writes the section of every Frontend and Backend once for each
\* time it is listed, in a place of its own.
LEMMA ConfigPlaces ==
  ASSUME NEW Bs, NEW Fs, \A f \in Fs : f.items \in Seq(Bs), frontends \in Seq(Fs)
  PROVE  \E start : Laid(start)
<1> DEFINE whole == LoadBalancerConfig(frontends)
           T     == Sections(Bs) \cup {StatsSection, PrometheusSection}
           fixed == <<StatsSection, PrometheusSection>>
<1>1. whole \in Seq(Sections(Bs))
  BY FrontendPlaces
<1>2. PICK s : Spread(whole, s)
  BY FrontendPlaces
<1> DEFINE start == [i \in Listed |-> s[i] + 2]
<1>3. /\ fixed \in Seq(T) /\ Len(fixed) = 2
      /\ fixed[1] = StatsSection /\ fixed[2] = PrometheusSection
  OBVIOUS
<1> \A i \in Listed : Len(Block(i)) \in Nat
  BY BlockPlaces
<1>4. whole \in Seq(T) /\ Config = fixed \o whole
  BY <1>1 DEF Config
<1> HIDE DEF whole, fixed, T
<1>5. /\ Config \in Seq(T) /\ Len(Config) = 2 + Len(whole) /\ Len(whole) \in Nat
      /\ \A q \in 1..Len(fixed) : Config[q] = fixed[q]
      /\ \A q \in 1..Len(whole) : Config[2 + q] = whole[q]
  <2>1. /\ fixed \o whole \in Seq(T) /\ Len(fixed \o whole) = Len(fixed) + Len(whole)
        /\ Len(whole) \in Nat
        /\ \A q \in 1..Len(fixed) : (fixed \o whole)[q] = fixed[q]
        /\ \A q \in 1..Len(whole) : (fixed \o whole)[Len(fixed) + q] = whole[q]
    <3>1. fixed \in Seq(T) /\ whole \in Seq(T)
      BY <1>3, <1>4
    <3> QED BY ONLY <3>1, Concatenated
  <2> QED BY <1>3, <1>4, <2>1
<1>6. DOMAIN Config = 1..Len(Config) /\ Len(Config) \in Nat
  BY <1>5
<1>7. /\ 1 \in DOMAIN Config /\ Config[1] = StatsSection
      /\ 2 \in DOMAIN Config /\ Config[2] = PrometheusSection
  BY <1>3, <1>5, <1>6
<1>8. \A i \in Listed : s[i] \in Nat /\ start[i] = s[i] + 2 /\ start[i] \in Nat /\ start[i] >= 2
  BY <1>2 DEF Spread
<1> HIDE DEF start
<1>9. ASSUME NEW i \in Listed, NEW k \in 1..Len(Block(i))
      PROVE  start[i] + k \in DOMAIN Config /\ Config[start[i] + k] = Block(i)[k]
  <2> DEFINE q == s[i] + k
  <2>1. q \in 1..Len(whole) /\ whole[q] = Block(i)[k]
    BY <1>2 DEF Spread
  <2>2. start[i] + k = 2 + q
    <3> DEFINE a == s[i]
    <3>1. a \in Nat /\ k \in Nat /\ start[i] = a + 2
      BY <1>8
    <3> HIDE DEF a
    <3>2. (a + 2) + k = 2 + (a + k)
      BY ONLY <3>1
    <3> QED BY ONLY <3>1, <3>2 DEF q, a
  <2> HIDE DEF q
  <2> QED BY <1>5, <1>6, <2>1, <2>2
<1>10. ASSUME NEW q \in DOMAIN Config, q \notin {1, 2}
       PROVE  \E i \in Listed : \E k \in 1..Len(Block(i)) : q = start[i] + k
  <2>1. q \in Nat /\ q - 2 \in 1..Len(whole)
    BY <1>5, <1>6, <1>10
  <2>2. PICK i \in Listed : \E k \in 1..Len(Block(i)) : q - 2 = s[i] + k
    BY <1>2, <2>1 DEF Spread
  <2>3. PICK k \in 1..Len(Block(i)) : q - 2 = s[i] + k
    BY <2>2
  <2>4. k \in Nat /\ s[i] \in Nat /\ start[i] = s[i] + 2
    BY <1>8
  <2>5. q = (s[i] + 2) + k
    BY ONLY <2>1, <2>3, <2>4
  <2> QED BY <2>4, <2>5
<1>11. ASSUME NEW i \in Listed, NEW j \in Listed, NEW k \in 1..Len(Block(i)),
              NEW l \in 1..Len(Block(j)), start[i] + k = start[j] + l
       PROVE  i = j /\ k = l
  <2>1. s[i] + k = s[j] + l
    <3> DEFINE a == s[i]  b == s[j]
    <3>1. k \in Nat /\ l \in Nat /\ a \in Nat /\ b \in Nat
      BY <1>8
    <3>2. (a + 2) + k = (b + 2) + l
      BY <1>8, <1>11
    <3> HIDE DEF a, b
    <3>3. a + k = b + l
      BY ONLY <3>1, <3>2
    <3> QED BY <3>3 DEF a, b
  <2> QED BY <1>2, <2>1 DEF Spread
<1>12. Laid(start)
  BY <1>6, <1>7, <1>8, <1>9, <1>10, <1>11 DEF Laid
<1> QED BY <1>12

\* The same by the kind of the sections.
FrontendAt(start, i) == start[i] + 1

BackendAt(start, i, k) == start[i] + (1 + k)

SectionOf(i) == FrontendSection(frontends[i].name, frontends[i].port, ItemsOf(i))

LEMMA SectionsAt ==
  ASSUME NEW Bs, NEW Fs, \A f \in Fs : f.items \in Seq(Bs), frontends \in Seq(Fs),
         NEW start, Laid(start)
  PROVE  /\ \A i \in Listed :
               /\ FrontendAt(start, i) \in DOMAIN Config \ {1, 2}
               /\ Config[FrontendAt(start, i)] = SectionOf(i)
               /\ \A k \in DOMAIN ItemsOf(i) :
                     /\ BackendAt(start, i, k) \in DOMAIN Config
                     /\ Config[BackendAt(start, i, k)] = BackendSection(ItemsOf(i)[k])
         /\ \A q \in DOMAIN Config :
               \/ q \in {1, 2}
               \/ \E i \in Listed : q = FrontendAt(start, i)
               \/ \E i \in Listed : \E k \in DOMAIN ItemsOf(i) : q = BackendAt(start, i, k)
         /\ \A i, j \in Listed :
               /\ FrontendAt(start, i) = FrontendAt(start, j) => i = j
               /\ \A k \in DOMAIN ItemsOf(i), l \in DOMAIN ItemsOf(j) :
                     BackendAt(start, i, k) = BackendAt(start, j, l) => i = j /\ k = l
<1>1. \A i \in Listed :
         /\ Len(ItemsOf(i)) \in Nat /\ DOMAIN ItemsOf(i) = 1..Len(ItemsOf(i))
         /\ Len(Block(i)) = 1 + Len(ItemsOf(i)) /\ Block(i)[1] = SectionOf(i)
         /\ \A k \in 1..Len(ItemsOf(i)) : Block(i)[1 + k] = BackendSection(ItemsOf(i)[k])
  <2> SUFFICES ASSUME NEW i \in Listed
               PROVE  /\ Len(ItemsOf(i)) \in Nat /\ DOMAIN ItemsOf(i) = 1..Len(ItemsOf(i))
                      /\ Len(Block(i)) = 1 + Len(ItemsOf(i)) /\ Block(i)[1] = SectionOf(i)
                      /\ \A k \in 1..Len(ItemsOf(i)) : Block(i)[1 + k] = BackendSection(ItemsOf(i)[k])
    OBVIOUS
  <2>1. ItemsOf(i) \in Seq(Bs)
    BY BlockPlaces
  <2>2. DOMAIN ItemsOf(i) = 1..Len(ItemsOf(i))
    BY <2>1
  <2> QED BY <2>2, BlockPlaces DEF SectionOf
<1>2. \A i \in Listed : 1 \in 1..Len(Block(i)) /\ \A k \in DOMAIN ItemsOf(i) : 1 + k \in 1..Len(Block(i))
  BY <1>1
<1>3. ASSUME NEW i \in Listed
      PROVE  /\ FrontendAt(start, i) \in DOMAIN Config \ {1, 2}
             /\ Config[FrontendAt(start, i)] = SectionOf(i)
             /\ \A k \in DOMAIN ItemsOf(i) :
                   /\ BackendAt(start, i, k) \in DOMAIN Config
                   /\ Config[BackendAt(start, i, k)] = BackendSection(ItemsOf(i)[k])
  <2>1. FrontendAt(start, i) \in DOMAIN Config /\ Config[FrontendAt(start, i)] = SectionOf(i)
    <3>1. 1 \in 1..Len(Block(i)) /\ Block(i)[1] = SectionOf(i)
      BY <1>1, <1>2
    <3>2. start[i] + 1 \in DOMAIN Config /\ Config[start[i] + 1] = Block(i)[1]
      BY <3>1 DEF Laid
    <3> QED BY <3>1, <3>2 DEF FrontendAt
  <2>2. FrontendAt(start, i) \notin {1, 2}
    <3>1. start[i] \in Nat /\ start[i] >= 2
      BY DEF Laid
    <3> QED BY <3>1 DEF FrontendAt
  <2>3. ASSUME NEW k \in DOMAIN ItemsOf(i)
        PROVE  /\ BackendAt(start, i, k) \in DOMAIN Config
               /\ Config[BackendAt(start, i, k)] = BackendSection(ItemsOf(i)[k])
    <3>1. 1 + k \in 1..Len(Block(i)) /\ Block(i)[1 + k] = BackendSection(ItemsOf(i)[k])
      BY <1>1, <1>2
    <3> QED BY <3>1 DEF Laid, BackendAt
  <2> QED BY <2>1, <2>2, <2>3
<1>4. ASSUME NEW q \in DOMAIN Config, q \notin {1, 2}
      PROVE  \/ \E i \in Listed : q = FrontendAt(start, i)
             \/ \E i \in Listed : \E k \in DOMAIN ItemsOf(i) : q = BackendAt(start, i, k)
  <2>1. PICK i \in Listed : \E k \in 1..Len(Block(i)) : q = start[i] + k
    BY <1>4 DEF Laid
  <2>2. PICK k \in 1..Len(Block(i)) : q = start[i] + k
    BY <2>1
  <2>3. CASE k = 1
    BY <2>2, <2>3 DEF FrontendAt
  <2>4. CASE k # 1
    <3>1. k - 1 \in DOMAIN ItemsOf(i) /\ 1 + (k - 1) = k
      BY <1>1, <2>4
    <3>2. q = BackendAt(start, i, k - 1)
      BY <2>2, <3>1 DEF BackendAt
    <3> QED BY <3>1, <3>2
  <2> QED BY <2>3, <2>4
<1>5. ASSUME NEW i \in Listed, NEW j \in Listed, FrontendAt(start, i) = FrontendAt(start, j)
      PROVE  i = j
  BY <1>2, <1>5 DEF Laid, FrontendAt
<1>6. ASSUME NEW i \in Listed, NEW j \in Listed, NEW k \in DOMAIN ItemsOf(i),
             NEW l \in DOMAIN ItemsOf(j), BackendAt(start, i, k) = BackendAt(start, j, l)
      PROVE  i = j /\ k = l
  <2>1. i = j /\ 1 + k = 1 + l
    BY <1>2, <1>6 DEF Laid, BackendAt
  <2>2. k \in Nat /\ l \in Nat
    BY <1>1
  <2> QED BY <2>1, <2>2
<1> QED BY <1>3, <1>4, <1>5, <1>6

\* A Frontend with a name of its own is written with the Backends it selects.
LEMMA OwnItems ==
  ASSUME NEW Fs, frontends \in Seq(Fs), NEW i \in Listed,
         \A j \in Listed : j # i => frontends[j].name # frontends[i].name
  PROVE  ItemsOf(i) = frontends[i].items
BY LastOfName

-----------------------------------------------------------------------------
(* How HAProxy reads it. *)

\* Section names HAProxy accepts do not collide.
LEMMA AcceptedAreDisjoint ==
  ASSUME NEW Bs, NEW Fs, \A f \in Fs : f.items \in Seq(Bs), frontends \in Seq(Fs),
         NamesAccepted(Config)
  PROVE  /\ \A i, j \in Listed : i # j => frontends[i].name # frontends[j].name
         /\ \A i \in Listed : frontends[i].name \notin {"stats", "prometheus"}
         /\ \A i, j \in Listed : \A b \in Items(i), c \in Items(j) :
               b.name = c.name => i = j /\ b = c
<1>1. PICK start : Laid(start)
  BY ConfigPlaces
<1>2. \A q, r \in DOMAIN Config :
         (q # r /\ Config[q].kind = Config[r].kind) => Config[q].name # Config[r].name
  BY DEF NamesAccepted
<1>3. \A i \in Listed : SectionOf(i).kind = "frontend" /\ SectionOf(i).name = frontends[i].name
  BY DEF SectionOf, FrontendSection
<1>4. \A i, j \in Listed : i # j => frontends[i].name # frontends[j].name
  <2> SUFFICES ASSUME NEW i \in Listed, NEW j \in Listed, i # j
               PROVE  frontends[i].name # frontends[j].name
    OBVIOUS
  <2>1. /\ FrontendAt(start, i) \in DOMAIN Config /\ Config[FrontendAt(start, i)] = SectionOf(i)
        /\ FrontendAt(start, j) \in DOMAIN Config /\ Config[FrontendAt(start, j)] = SectionOf(j)
        /\ FrontendAt(start, i) # FrontendAt(start, j)
    BY <1>1, SectionsAt
  <2> QED BY <1>2, <1>3, <2>1
<1>5. ASSUME NEW i \in Listed PROVE frontends[i].name \notin {"stats", "prometheus"}
  <2>1. /\ FrontendAt(start, i) \in DOMAIN Config \ {1, 2}
        /\ Config[FrontendAt(start, i)] = SectionOf(i)
    BY <1>1, SectionsAt
  <2>2. /\ 1 \in DOMAIN Config /\ Config[1].kind = "frontend" /\ Config[1].name = "stats"
        /\ 2 \in DOMAIN Config /\ Config[2].kind = "frontend" /\ Config[2].name = "prometheus"
    BY <1>1 DEF Laid, StatsSection, PrometheusSection, FrontendSection
  <2> QED BY <1>2, <1>3, <2>1, <2>2
<1>6. ASSUME NEW i \in Listed, NEW j \in Listed, NEW b \in Items(i), NEW c \in Items(j),
             b.name = c.name
      PROVE  i = j /\ b = c
  <2>1. ItemsOf(i) = frontends[i].items /\ ItemsOf(j) = frontends[j].items
    BY <1>4, OwnItems
  <2>2. PICK k \in DOMAIN ItemsOf(i) : b = ItemsOf(i)[k]
    BY <2>1 DEF Items, ToSet
  <2>3. PICK l \in DOMAIN ItemsOf(j) : c = ItemsOf(j)[l]
    BY <2>1 DEF Items, ToSet
  <2>4. /\ BackendAt(start, i, k) \in DOMAIN Config
        /\ Config[BackendAt(start, i, k)] = BackendSection(b)
        /\ BackendAt(start, j, l) \in DOMAIN Config
        /\ Config[BackendAt(start, j, l)] = BackendSection(c)
    BY <1>1, <2>2, <2>3, SectionsAt
  <2>5. BackendAt(start, i, k) = BackendAt(start, j, l)
    BY <1>2, <1>6, <2>4 DEF BackendSection
  <2>6. i = j /\ k = l
    BY <1>1, <2>5, SectionsAt
  <2> QED BY <2>2, <2>3, <2>6
<1> QED BY <1>4, <1>5, <1>6

\* It accepts names of which none collides.
LEMMA DisjointAreAccepted ==
  ASSUME NEW Bs, NEW Fs, \A f \in Fs : f.items \in Seq(Bs), frontends \in Seq(Fs),
         \A i \in Listed : \A k, l \in DOMAIN frontends[i].items :
            frontends[i].items[k] = frontends[i].items[l] => k = l,
         \A i, j \in Listed : i # j => frontends[i].name # frontends[j].name,
         \A i \in Listed : frontends[i].name \notin {"stats", "prometheus"},
         \A i, j \in Listed : \A b \in Items(i), c \in Items(j) :
               b.name = c.name => i = j /\ b = c
  PROVE  NamesAccepted(Config)
<1>1. PICK start : Laid(start)
  BY ConfigPlaces
<1>2. \A i \in Listed : ItemsOf(i) = frontends[i].items
  BY OwnItems
<1>3. \A i \in Listed : SectionOf(i).kind = "frontend" /\ SectionOf(i).name = frontends[i].name
  BY DEF SectionOf, FrontendSection
<1>4. \A q \in {1, 2} : /\ Config[q].kind = "frontend"
                        /\ Config[q].name = IF q = 1 THEN "stats" ELSE "prometheus"
                        /\ Config[q].uses = <<>>
  BY <1>1 DEF Laid, StatsSection, PrometheusSection, FrontendSection
<1>5. \A q \in DOMAIN Config :
         \/ q \in {1, 2}
         \/ \E i \in Listed : q = FrontendAt(start, i) /\ Config[q] = SectionOf(i)
         \/ \E i \in Listed : \E k \in DOMAIN ItemsOf(i) :
               q = BackendAt(start, i, k) /\ Config[q] = BackendSection(ItemsOf(i)[k])
  <2>1. \A q \in DOMAIN Config :
           \/ q \in {1, 2}
           \/ \E i \in Listed : q = FrontendAt(start, i)
           \/ \E i \in Listed : \E k \in DOMAIN ItemsOf(i) : q = BackendAt(start, i, k)
    BY <1>1, SectionsAt
  <2>2. \A i \in Listed : /\ Config[FrontendAt(start, i)] = SectionOf(i)
                          /\ \A k \in DOMAIN ItemsOf(i) :
                                Config[BackendAt(start, i, k)] = BackendSection(ItemsOf(i)[k])
    BY <1>1, SectionsAt
  <2> QED BY <2>1, <2>2
<1>6. \A b : BackendSection(b).kind = "backend" /\ BackendSection(b).name = b.name
  BY DEF BackendSection
<1>7. ASSUME NEW q \in DOMAIN Config, NEW r \in DOMAIN Config, q # r,
             Config[q].kind = Config[r].kind, Config[q].name = Config[r].name
      PROVE  FALSE
  <2>1. CASE Config[q].kind = "frontend"
    <3>1. q \in {1, 2} \/ \E i \in Listed : q = FrontendAt(start, i) /\ Config[q] = SectionOf(i)
      BY <1>5, <1>6, <2>1
    <3>2. r \in {1, 2} \/ \E i \in Listed : r = FrontendAt(start, i) /\ Config[r] = SectionOf(i)
      BY <1>5, <1>6, <1>7, <2>1
    <3>3. CASE q \in {1, 2} /\ r \in {1, 2}
      BY <1>4, <1>7, <3>3
    <3>4. CASE q \notin {1, 2} /\ r \notin {1, 2}
      BY <1>3, <1>7, <3>1, <3>2, <3>4
    <3>5. CASE q \in {1, 2} /\ r \notin {1, 2}
      BY <1>3, <1>4, <1>7, <3>2, <3>5
    <3>6. CASE q \notin {1, 2} /\ r \in {1, 2}
      BY <1>3, <1>4, <1>7, <3>1, <3>6
    <3> QED BY <3>3, <3>4, <3>5, <3>6
  <2>2. CASE Config[q].kind # "frontend"
    <3>1. PICK i \in Listed : \E k \in DOMAIN ItemsOf(i) :
               q = BackendAt(start, i, k) /\ Config[q] = BackendSection(ItemsOf(i)[k])
      BY <1>3, <1>4, <1>5, <2>2
    <3>2. PICK k \in DOMAIN ItemsOf(i) :
               q = BackendAt(start, i, k) /\ Config[q] = BackendSection(ItemsOf(i)[k])
      BY <3>1
    <3>3. PICK j \in Listed : \E l \in DOMAIN ItemsOf(j) :
               r = BackendAt(start, j, l) /\ Config[r] = BackendSection(ItemsOf(j)[l])
      BY <1>3, <1>4, <1>5, <1>7, <2>2
    <3>4. PICK l \in DOMAIN ItemsOf(j) :
               r = BackendAt(start, j, l) /\ Config[r] = BackendSection(ItemsOf(j)[l])
      BY <3>3
    <3>5. ItemsOf(i)[k] \in Items(i) /\ ItemsOf(j)[l] \in Items(j)
      BY <1>2 DEF Items, ToSet
    <3>6. ItemsOf(i)[k].name = ItemsOf(j)[l].name
      BY <1>6, <1>7, <3>2, <3>4
    <3>7. i = j /\ ItemsOf(i)[k] = ItemsOf(j)[l]
      BY <3>5, <3>6
    <3>8. k = l
      BY <1>2, <3>7
    <3> QED BY <1>7, <3>2, <3>4, <3>7, <3>8
  <2> QED BY <2>1, <2>2
<1>8. ASSUME NEW s \in ToSet(Config), s.kind = "frontend", NEW u \in ToSet(s.uses)
      PROVE  \E t \in ToSet(Config) : t.kind = "backend" /\ t.name = u.backend
  <2>1. PICK q \in DOMAIN Config : s = Config[q]
    BY DEF ToSet
  <2>2. q \notin {1, 2}
    BY <1>4, <1>8, <2>1 DEF ToSet
  <2>3. PICK i \in Listed : s = SectionOf(i)
    BY <1>5, <1>6, <1>8, <2>1, <2>2
  <2>4. PICK k \in DOMAIN ItemsOf(i) : u.backend = ItemsOf(i)[k].name
    <3>1. s.uses = [k \in DOMAIN ItemsOf(i) |->
                      [backend |-> ItemsOf(i)[k].name, host |-> ItemsOf(i)[k].host]]
      BY <2>3 DEF SectionOf, FrontendSection
    <3>2. PICK k \in DOMAIN ItemsOf(i) :
            u = [backend |-> ItemsOf(i)[k].name, host |-> ItemsOf(i)[k].host]
      BY <3>1 DEF ToSet
    <3> QED BY <3>2
  <2>5. /\ BackendAt(start, i, k) \in DOMAIN Config
        /\ Config[BackendAt(start, i, k)] = BackendSection(ItemsOf(i)[k])
    BY <1>1, SectionsAt
  <2>6. BackendSection(ItemsOf(i)[k]) \in ToSet(Config)
    BY <2>5 DEF ToSet
  <2> QED BY <1>6, <2>4, <2>6
<1> QED BY <1>7, <1>8 DEF NamesAccepted

\* For every list of Frontends with any names, ports and selections, in which no
\* selection names a Backend twice: HAProxy accepts the section names BuildConfig
\* writes exactly if none is used twice, so that a Backend two Frontends select, or a
\* name used in two namespaces, stops every Frontend.
THEOREM NamesCorrect ==
  ASSUME NEW Bs, NEW Fs, \A f \in Fs : f.items \in Seq(Bs), frontends \in Seq(Fs),
         \A i \in Listed : \A k, l \in DOMAIN frontends[i].items :
            frontends[i].items[k] = frontends[i].items[l] => k = l
  PROVE  NamesAcceptedIfDisjoint
BY AcceptedAreDisjoint, DisjointAreAccepted, ConfigsAreConfig DEF NamesAcceptedIfDisjoint

\* The places Route looks for, and the first of them.
First(places) == IF places # {} THEN Min(places) ELSE 0

Binding(config, port) ==
    {q \in 1..Len(config) : config[q].kind = "frontend" /\ config[q].bind = port}

Matching(uses, host) == {r \in 1..Len(uses) : uses[r].host = host}

Called(config, name) ==
    {q \in 1..Len(config) : config[q].kind = "backend" /\ config[q].name = name}

RouteFrom(config, uses, r) ==
    IF r = 0 THEN NoRoute ELSE config[First(Called(config, uses[r].backend))].servers

LEMMA RouteIs ==
  ASSUME NEW config, NEW port, NEW host, NEW uses,
         uses = config[First(Binding(config, port))].uses
  PROVE  Route(config, port, host) = RouteFrom(config, uses, First(Matching(uses, host)))
BY DEF Route, RouteFrom, SelectInSeq, First, Binding, Matching, Called

LEMMA FirstIn ==
  ASSUME NEW places \in SUBSET Nat, places # {}
  PROVE  First(places) \in places
BY MinIsLeast DEF First

\* What stands at a place.
LEMMA Classified ==
  ASSUME NEW Bs, NEW Fs, \A f \in Fs : f.items \in Seq(Bs), frontends \in Seq(Fs),
         NEW start, Laid(start), NEW q \in DOMAIN Config
  PROVE  \/ Config[q] \in {StatsSection, PrometheusSection}
         \/ \E i \in Listed : q = FrontendAt(start, i) /\ Config[q] = SectionOf(i)
         \/ \E i \in Listed : \E k \in DOMAIN ItemsOf(i) : Config[q] = BackendSection(ItemsOf(i)[k])
<1>1. CASE q \in {1, 2}
  BY <1>1 DEF Laid
<1>2. CASE \E i \in Listed : q = FrontendAt(start, i)
  BY <1>2, SectionsAt
<1>3. CASE \E i \in Listed : \E k \in DOMAIN ItemsOf(i) : q = BackendAt(start, i, k)
  BY <1>3, SectionsAt
<1> QED BY <1>1, <1>2, <1>3, SectionsAt

\* A port that no other Frontend and no fixed section has leads to its Frontend.
LEMMA OwnPort ==
  ASSUME NEW Bs, NEW Fs, \A f \in Fs : f.items \in Seq(Bs), frontends \in Seq(Fs),
         NEW i \in Listed, frontends[i].port \notin {8404, 8405},
         \A j \in Listed : j # i => frontends[j].port # frontends[i].port
  PROVE  Config[First(Binding(Config, frontends[i].port))] = SectionOf(i)
<1>1. PICK start : Laid(start)
  BY ConfigPlaces
<1> DEFINE P == Binding(Config, frontends[i].port)
<1>2. DOMAIN Config = 1..Len(Config) /\ Len(Config) \in Nat
  BY <1>1 DEF Laid
<1>3. \A j \in Listed : SectionOf(j).kind = "frontend" /\ SectionOf(j).bind = frontends[j].port
  BY DEF SectionOf, FrontendSection
<1>4. P # {} /\ P \in SUBSET Nat
  <2>1. FrontendAt(start, i) \in DOMAIN Config /\ Config[FrontendAt(start, i)] = SectionOf(i)
    BY <1>1, SectionsAt
  <2>2. FrontendAt(start, i) \in P
    BY <1>2, <1>3, <2>1 DEF Binding
  <2> QED BY <2>2 DEF Binding
<1>5. ASSUME NEW q \in P PROVE Config[q] = SectionOf(i)
  <2>1. q \in DOMAIN Config /\ Config[q].kind = "frontend" /\ Config[q].bind = frontends[i].port
    BY <1>2, <1>5 DEF Binding
  <2>2. Config[q] \notin {StatsSection, PrometheusSection}
    BY <2>1 DEF StatsSection, PrometheusSection, FrontendSection
  <2>3. \A b : BackendSection(b).kind # "frontend"
    BY DEF BackendSection
  <2>4. PICK j \in Listed : Config[q] = SectionOf(j)
    BY <1>1, <2>1, <2>2, <2>3, Classified
  <2> QED BY <1>3, <2>1, <2>4
<1> HIDE DEF P
<1>6. First(P) \in P
  BY <1>4, FirstIn
<1> QED BY <1>5, <1>6 DEF P

\* The name of a Backend that no other has leads to its servers.
LEMMA OwnName ==
  ASSUME NEW Bs, NEW Fs, \A f \in Fs : f.items \in Seq(Bs), frontends \in Seq(Fs),
         NEW i \in Listed, NEW r \in DOMAIN ItemsOf(i), NEW b, ItemsOf(i)[r] = b,
         \A j \in Listed : \A c \in Items(j) : c.name = b.name => c = b
  PROVE  Config[First(Called(Config, b.name))].servers = b.servers
<1>1. PICK start : Laid(start)
  BY ConfigPlaces
<1> DEFINE P == Called(Config, b.name)
<1>2. DOMAIN Config = 1..Len(Config) /\ Len(Config) \in Nat
  BY <1>1 DEF Laid
<1>3. \A c : /\ BackendSection(c).kind = "backend" /\ BackendSection(c).name = c.name
             /\ BackendSection(c).servers = c.servers
  BY DEF BackendSection
<1>4. P # {} /\ P \in SUBSET Nat
  <2>1. /\ BackendAt(start, i, r) \in DOMAIN Config
        /\ Config[BackendAt(start, i, r)] = BackendSection(b)
    BY <1>1, SectionsAt
  <2>2. BackendAt(start, i, r) \in P
    BY <1>2, <1>3, <2>1 DEF Called
  <2> QED BY <2>2 DEF Called
<1>5. ASSUME NEW q \in P PROVE Config[q].servers = b.servers
  <2>1. q \in DOMAIN Config /\ Config[q].kind = "backend" /\ Config[q].name = b.name
    BY <1>2, <1>5 DEF Called
  <2>2. Config[q] \notin {StatsSection, PrometheusSection}
    BY <2>1 DEF StatsSection, PrometheusSection, FrontendSection
  <2>3. \A j : SectionOf(j).kind # "backend"
    BY DEF SectionOf, FrontendSection
  <2>4. PICK j \in Listed : \E k \in DOMAIN ItemsOf(j) : Config[q] = BackendSection(ItemsOf(j)[k])
    BY <1>1, <2>1, <2>2, <2>3, Classified
  <2>5. PICK k \in DOMAIN ItemsOf(j) : Config[q] = BackendSection(ItemsOf(j)[k])
    BY <2>4
  <2>6. PICK l \in Listed : ItemsOf(j) = frontends[l].items
    BY LastOfName
  <2>7. ItemsOf(j)[k] \in Items(l)
    BY <2>6 DEF Items, ToSet
  <2>8. ItemsOf(j)[k].name = b.name
    BY <1>3, <2>1, <2>5
  <2>9. ItemsOf(j)[k] = b
    BY <2>7, <2>8
  <2> QED BY <1>3, <2>5, <2>9
<1> HIDE DEF P
<1>6. First(P) \in P
  BY <1>4, FirstIn
<1> QED BY <1>5, <1>6 DEF P

\* For every list of Frontends: a connection to a Frontend with a name and a port of
\* its own goes to the servers of the Backend it selects for the server name, and to
\* none if it selects none, whatever getBackends and BuildConfig make of the others.
THEOREM RoutesCorrect ==
  ASSUME NEW Bs, NEW Fs, \A f \in Fs : f.items \in Seq(Bs), frontends \in Seq(Fs)
  PROVE  RoutesFollowSelection
<1> SUFFICES ASSUME NEW i \in Listed, frontends[i].port \notin {8404, 8405},
                    \A j \in Listed \ {i} : /\ frontends[j].name # frontends[i].name
                                            /\ frontends[j].port # frontends[i].port,
                    NEW host \in Hosts
             PROVE  LET serving == {b \in Items(i) : b.host = host}
                    IN  /\ serving = {} => Route(Config, frontends[i].port, host) = NoRoute
                        /\ \A b \in serving :
                              (/\ serving = {b}
                               /\ \A j \in Listed : \A c \in Items(j) :
                                     c.name = b.name => c = b)
                              => Route(Config, frontends[i].port, host) = b.servers
  BY ConfigsAreConfig DEF RoutesFollowSelection
<1> DEFINE items == frontends[i].items
           uses == SectionOf(i).uses
           M == Matching(uses, host)
           route == Route(Config, frontends[i].port, host)
           serving == {b \in Items(i) : b.host = host}
<1>1. ItemsOf(i) = items
  BY OwnItems
<1>2. items \in Seq(Bs) /\ DOMAIN items = 1..Len(items) /\ Len(items) \in Nat
  <2>1. frontends[i] \in Fs
    BY DEF Listed
  <2> QED BY <2>1
<1>3. /\ DOMAIN uses = 1..Len(items) /\ Len(uses) = Len(items)
      /\ \A r \in 1..Len(items) : uses[r].backend = items[r].name /\ uses[r].host = items[r].host
  <2>1. uses = [r \in 1..Len(items) |-> [backend |-> items[r].name, host |-> items[r].host]]
    BY <1>1, <1>2 DEF SectionOf, FrontendSection
  <2> HIDE DEF uses, items
  <2>2. /\ DOMAIN uses = 1..Len(items)
        /\ \A r \in 1..Len(items) : uses[r].backend = items[r].name /\ uses[r].host = items[r].host
    BY <2>1
  <2>3. Len(uses) = Len(items)
    BY <1>2, <2>2
  <2> QED BY <2>2, <2>3
<1>4. route = RouteFrom(Config, uses, First(M))
  <2>1. /\ \A f \in Fs : f.items \in Seq(Bs)
        /\ frontends \in Seq(Fs) /\ frontends[i].port \notin {8404, 8405}
        /\ \A j \in Listed : j # i => frontends[j].port # frontends[i].port
    OBVIOUS
  <2> HIDE DEF items, uses, M, route, serving
  <2>2. Config[First(Binding(Config, frontends[i].port))] = SectionOf(i)
    BY ONLY i \in Listed, <2>1, OwnPort
  <2> QED BY <2>2, RouteIs DEF route, uses, M
<1>5. \A r \in M : r \in 1..Len(items) /\ r # 0 /\ items[r] \in serving
  <2>1. \A r \in 1..Len(items) : items[r] \in Items(i)
    BY <1>2 DEF Items, ToSet
  <2> HIDE DEF uses, items
  <2> QED BY <1>3, <2>1 DEF Matching
<1>6. serving # {} => M # {}
  <2> SUFFICES ASSUME NEW b \in Items(i), b.host = host PROVE M # {}
    OBVIOUS
  <2>1. PICK r \in 1..Len(items) : b = items[r]
    BY <1>2 DEF Items, ToSet
  <2> HIDE DEF uses, items
  <2> QED BY <1>3, <2>1 DEF Matching
<1>7. M \in SUBSET Nat
  BY DEF Matching
<1>8. ASSUME serving = {} PROVE route = NoRoute
  <2>1. First(M) = 0
    <3> HIDE DEF M
    <3> QED BY <1>5, <1>8 DEF First
  <2> HIDE DEF M, route, uses
  <2> QED BY <1>4, <2>1 DEF RouteFrom
<1>9. ASSUME NEW b \in serving, serving = {b},
             \A j \in Listed : \A c \in Items(j) : c.name = b.name => c = b
      PROVE  route = b.servers
  <2> DEFINE r == First(M)
  <2> HIDE DEF M, route, uses, items, serving
  <2>1. r \in M
    BY <1>6, <1>7, <1>9, FirstIn
  <2>2. r \in 1..Len(items) /\ r # 0 /\ items[r] = b
    BY <1>5, <1>9, <2>1
  <2>3. route = Config[First(Called(Config, b.name))].servers
    BY <1>3, <1>4, <2>2 DEF RouteFrom
  <2>4. Config[First(Called(Config, b.name))].servers = b.servers
    <3>1. r \in DOMAIN ItemsOf(i) /\ ItemsOf(i)[r] = b
      BY <1>1, <1>2, <2>2
    <3>2. /\ \A f \in Fs : f.items \in Seq(Bs)
          /\ frontends \in Seq(Fs)
          /\ \A j \in Listed : \A c \in Items(j) : c.name = b.name => c = b
      BY <1>9
    <3> HIDE DEF r
    <3> QED BY ONLY i \in Listed, <3>1, <3>2, OwnName
  <2> QED BY <2>3, <2>4
<1> QED BY <1>8, <1>9

=============================================================================
