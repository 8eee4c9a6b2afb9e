--------------------------- MODULE DataInduction ---------------------------
(***************************************************************************)
(* Induction over data, for the provers at hand.  They cannot instantiate  *)
(* a theorem about an operator P(_), so induction is stated for sets:      *)
(* NatLeast and UpTo take the set of the numbers that have a property.     *)
(* Likewise IterationExists takes a step that is a function, and gives the *)
(* recursive functions of the modules a value.                             *)
(*                                                                         *)
(* The rest is about SumTo, the offsets into a text.                       *)
(***************************************************************************)
EXTENDS PrefixSums, SequenceTheorems, WellFoundedInduction, TLAPS

Less == {p \in Nat \X Nat : p[1] < p[2]}

\* A set of natural numbers that is not empty has a least element.
LEMMA NatLeast ==
  ASSUME NEW S, S \subseteq Nat, S # {}
  PROVE  \E m \in S : \A k \in S : m <= k
<1>1. IsWellFoundedOn(Less, Nat)
  BY NatLessThanWellFounded DEF OpToRel, Less
<1>2. \E m \in S : \A k \in S : <<k, m>> \notin Less
  BY <1>1, WFMin
<1>3. PICK m \in S : \A k \in S : <<k, m>> \notin Less
  BY <1>2
<1>4. ASSUME NEW k \in S PROVE m <= k
  <2>1. k \in Nat /\ m \in Nat
    OBVIOUS
  <2>2. k < m => <<k, m>> \in Less
    BY <2>1 DEF Less
  <2> QED BY <1>3, <2>1, <2>2
<1> QED BY <1>4

\* A set of natural numbers that is bounded and not empty has a largest element.
LEMMA NatLargest ==
  ASSUME NEW n \in Nat, NEW S, S \subseteq 0 .. n, S # {}
  PROVE  \E m \in S : \A k \in S : k <= m
<1> DEFINE T == {n - k : k \in S}
<1>1. T \subseteq Nat /\ T # {}
  <2>1. PICK k \in S : TRUE
    OBVIOUS
  <2>2. n - k \in T
    BY <2>1
  <2>3. ASSUME NEW j \in S PROVE n - j \in Nat
    <3>1. j \in 0 .. n
      OBVIOUS
    <3> QED BY <3>1
  <2> QED BY <2>2, <2>3
<1>2. PICK t \in T : \A u \in T : t <= u
  BY <1>1, NatLeast
<1>3. PICK m \in S : t = n - m
  OBVIOUS
<1>4. ASSUME NEW k \in S PROVE k <= m
  <2>1. n - m <= n - k
    BY <1>2, <1>3
  <2> QED BY <2>1
<1> QED BY <1>4

\* Induction up to n.
LEMMA UpTo ==
  ASSUME NEW n \in Nat, NEW S, 0 \in S,
         \A k \in 0 .. n - 1 : k \in S => k + 1 \in S
  PROVE  \A k \in 0 .. n : k \in S
<1> DEFINE T == {k \in 0 .. n : k \notin S}
<1>1. SUFFICES ASSUME T # {} PROVE FALSE
  OBVIOUS
<1>2. T \subseteq Nat
  OBVIOUS
<1>3. PICK m \in T : \A k \in T : m <= k
  BY <1>1, <1>2, NatLeast
<1>4. m # 0 /\ m \in 0 .. n
  OBVIOUS
<1>5. m - 1 \in 0 .. n - 1 /\ m - 1 \notin T
  BY <1>3, <1>4
<1> QED BY <1>4, <1>5

Iterates(step, base, n, g) ==
  /\ g[0] = base
  /\ \A k \in 1 .. n : g[k] = step[<<g[k - 1], k>>]

\* A step that stays inside of a set can be iterated.
LEMMA IterationExists ==
  ASSUME NEW n \in Nat, NEW S, NEW base \in S,
         NEW step \in [S \X (1 .. n) -> S]
  PROVE  \E g \in [0 .. n -> S] : Iterates(step, base, n, g)
<1> DEFINE R == {m \in 0 .. n : \E g \in [0 .. m -> S] : Iterates(step, base, m, g)}
<1>1. 0 \in R
  <2>1. [k \in 0 .. 0 |-> base] \in [0 .. 0 -> S]
    OBVIOUS
  <2>2. Iterates(step, base, 0, [k \in 0 .. 0 |-> base])
    BY DEF Iterates
  <2> QED BY <2>1, <2>2
<1>2. ASSUME NEW m \in 0 .. n - 1, m \in R PROVE m + 1 \in R
  <2>1. PICK g \in [0 .. m -> S] : Iterates(step, base, m, g)
    BY <1>2
  <2> DEFINE next == step[<<g[m], m + 1>>]
             h == [k \in 0 .. m + 1 |-> IF k = m + 1 THEN next ELSE g[k]]
  <2>2. g[m] \in S /\ m + 1 \in 1 .. n
    OBVIOUS
  <2>3. next \in S
    BY <2>2
  <2>4. h \in [0 .. m + 1 -> S]
    BY <2>3
  <2>5. h[0] = base
    BY <2>1 DEF Iterates
  <2>6. ASSUME NEW k \in 1 .. m + 1 PROVE h[k] = step[<<h[k - 1], k>>]
    <3>1. h[k - 1] = g[k - 1]
      OBVIOUS
    <3>2. CASE k = m + 1
      <4>1. h[k] = next /\ k - 1 = m
        BY <3>2
      <4> QED BY <3>1, <3>2, <4>1
    <3>3. CASE k # m + 1
      <4>1. k \in 1 .. m /\ h[k] = g[k]
        BY <3>3
      <4> QED BY <2>1, <3>1, <4>1 DEF Iterates
    <3> QED BY <3>2, <3>3
  <2> HIDE DEF h
  <2>7. Iterates(step, base, m + 1, h)
    BY <2>5, <2>6 DEF Iterates
  <2> QED BY <2>4, <2>7
<1> HIDE DEF R
<1>3. \A m \in 0 .. n : m \in R
  BY <1>1, <1>2, UpTo
<1>4. n \in R
  BY <1>3
<1> QED BY <1>4 DEF R

-----------------------------------------------------------------------------
AddsUp(f, s, at) ==
  /\ at \in [0 .. Len(s) -> Nat]
  /\ at[0] = 0
  /\ \A k \in 1 .. Len(s) : at[k] = at[k - 1] + f[s[k]]

\* The recursion of SumTo has a value.
LEMMA SumDef ==
  ASSUME NEW C, NEW f \in [C -> Nat], NEW s \in Seq(C)
  PROVE  AddsUp(f, s, SumTo(f, s))
<1> DEFINE step == [p \in Nat \X (1 .. Len(s)) |-> p[1] + f[s[p[2]]]]
<1>1. Len(s) \in Nat /\ \A k \in 1 .. Len(s) : f[s[k]] \in Nat
  OBVIOUS
<1>2. step \in [Nat \X (1 .. Len(s)) -> Nat]
  <2>1. ASSUME NEW p \in Nat \X (1 .. Len(s)) PROVE p[1] + f[s[p[2]]] \in Nat
    <3>1. p[1] \in Nat /\ p[2] \in 1 .. Len(s)
      OBVIOUS
    <3> QED BY <1>1, <3>1
  <2> QED BY <2>1
<1> HIDE DEF step
<1>3. PICK g \in [0 .. Len(s) -> Nat] : Iterates(step, 0, Len(s), g)
  BY <1>1, <1>2, IterationExists
<1>4. g[0] = 0 /\ \A k \in 1 .. Len(s) : g[k] = g[k - 1] + f[s[k]]
  <2>1. ASSUME NEW k \in 1 .. Len(s) PROVE step[<<g[k - 1], k>>] = g[k - 1] + f[s[k]]
    <3>1. k - 1 \in 0 .. Len(s)
      BY <1>1
    <3>2. g[k - 1] \in Nat
      BY <3>1
    <3> QED BY <3>2 DEF step
  <2> QED BY <1>3, <2>1 DEF Iterates
<1>5. g = [k \in 0 .. Len(s) |-> IF k = 0 THEN 0 ELSE g[k - 1] + f[s[k]]]
  BY <1>1, <1>4
<1>6. SumTo(f, s) =
        [k \in 0 .. Len(s) |-> IF k = 0 THEN 0 ELSE SumTo(f, s)[k - 1] + f[s[k]]]
  <2>1. SumTo(f, s) =
          CHOOSE h : h = [k \in 0 .. Len(s) |-> IF k = 0 THEN 0 ELSE h[k - 1] + f[s[k]]]
    BY DEF SumTo
  <2> QED BY <1>5, <2>1
<1> DEFINE at == SumTo(f, s)
           next(k) == IF k = 0 THEN 0 ELSE at[k - 1] + f[s[k]]
<1>7. at = [k \in 0 .. Len(s) |-> next(k)]
  BY <1>6
<1>8. at[0] = 0 /\ \A k \in 1 .. Len(s) : at[k] = at[k - 1] + f[s[k]]
  <2> HIDE DEF at, next
  <2>1. \A k \in 0 .. Len(s) : at[k] = next(k)
    BY <1>7
  <2> QED BY <1>1, <2>1 DEF next
<1>9. at \in [0 .. Len(s) -> Nat]
  <2> DEFINE R == {k \in 0 .. Len(s) : at[k] \in Nat}
  <2>1. 0 \in R
    BY <1>1, <1>8
  <2>2. ASSUME NEW k \in 0 .. Len(s) - 1, k \in R PROVE k + 1 \in R
    <3>1. k + 1 \in 1 .. Len(s) /\ (k + 1) - 1 = k
      BY <1>1
    <3>2. at[k + 1] = at[k] + f[s[k + 1]]
      BY <1>8, <3>1
    <3> QED BY <1>1, <2>2, <3>1, <3>2
  <2> HIDE DEF R
  <2>3. \A k \in 0 .. Len(s) : k \in R
    BY <1>1, <2>1, <2>2, UpTo
  <2> QED BY <1>7, <2>3 DEF R
<1> QED BY <1>8, <1>9 DEF AddsUp

\* Offsets grow with the number of characters ...
LEMMA SumGrows ==
  ASSUME NEW C, NEW f \in [C -> Nat], NEW s \in Seq(C),
         NEW j \in 0 .. Len(s), NEW k \in j .. Len(s)
  PROVE  SumTo(f, s)[j] <= SumTo(f, s)[k]
<1> DEFINE at == SumTo(f, s)
<1>0. AddsUp(f, s, at)
  BY SumDef
<1> HIDE DEF at
<1>1. /\ Len(s) \in Nat
      /\ \A i \in 0 .. Len(s) : at[i] \in Nat
      /\ \A i \in 1 .. Len(s) : at[i] = at[i - 1] + f[s[i]]
      /\ \A i \in 1 .. Len(s) : f[s[i]] \in Nat
  <2>1. Len(s) \in Nat /\ \A i \in 1 .. Len(s) : f[s[i]] \in Nat
    OBVIOUS
  <2>2. \A i \in 0 .. Len(s) : at[i] \in Nat
    BY <1>0 DEF AddsUp
  <2>3. \A i \in 1 .. Len(s) : at[i] = at[i - 1] + f[s[i]]
    BY <1>0 DEF AddsUp
  <2> QED BY <2>1, <2>2, <2>3
<1> DEFINE R == {i \in 0 .. Len(s) - j : at[j] <= at[j + i]}
<1>2. 0 \in R
  <2>1. j + 0 = j /\ at[j] \in Nat /\ 0 \in 0 .. Len(s) - j
    BY <1>1
  <2> QED BY <2>1
<1>3. ASSUME NEW i \in 0 .. (Len(s) - j) - 1, i \in R PROVE i + 1 \in R
  <2>1. j + i + 1 \in 1 .. Len(s) /\ (j + i + 1) - 1 = j + i
    BY <1>1
  <2>2. at[j + i + 1] = at[j + i] + f[s[j + i + 1]]
    BY <1>1, <2>1
  <2>3. /\ j + i \in 0 .. Len(s) /\ at[j + i] \in Nat /\ at[j] \in Nat
        /\ f[s[j + i + 1]] \in Nat
    BY <1>1, <2>1
  <2>4. at[j] <= at[j + i + 1]
    BY <1>3, <2>2, <2>3
  <2>5. i + 1 \in 0 .. Len(s) - j /\ j + (i + 1) = j + i + 1
    BY <1>1
  <2> QED BY <2>4, <2>5
<1>4. Len(s) - j \in Nat
  BY <1>1
<1> HIDE DEF R
<1>5. \A i \in 0 .. Len(s) - j : i \in R
  BY <1>2, <1>3, <1>4, UpTo
<1>6. k - j \in 0 .. Len(s) - j /\ j + (k - j) = k
  BY <1>1
<1>7. at[j] <= at[j + (k - j)]
  BY <1>5, <1>6 DEF R
<1> QED BY <1>6, <1>7 DEF at

\* ... strictly, if no character has the size 0.
LEMMA SumGrowsStrictly ==
  ASSUME NEW C, NEW f \in [C -> Nat \ {0}], NEW s \in Seq(C),
         NEW j \in 0 .. Len(s), NEW k \in j + 1 .. Len(s)
  PROVE  SumTo(f, s)[j] < SumTo(f, s)[k]
<1> DEFINE at == SumTo(f, s)
<1>1. /\ Len(s) \in Nat /\ f \in [C -> Nat]
      /\ \A i \in 1 .. Len(s) : f[s[i]] \in Nat \ {0}
  OBVIOUS
<1>2. AddsUp(f, s, at)
  BY <1>1, SumDef
<1>3. k \in 1 .. Len(s) /\ k - 1 \in j .. Len(s) /\ k - 1 \in 0 .. Len(s)
  BY <1>1
<1>4. at[j] <= at[k - 1]
  BY <1>1, <1>3, SumGrows
<1> HIDE DEF at
<1>5. at[k] = at[k - 1] + f[s[k]] /\ f[s[k]] \in Nat \ {0}
  BY <1>1, <1>2, <1>3 DEF AddsUp
<1>6. at[j] \in Nat /\ at[k - 1] \in Nat
  BY <1>2, <1>3 DEF AddsUp
<1>7. at[j] < at[k]
  BY <1>4, <1>5, <1>6 DEF at
<1> QED BY <1>7 DEF at

\* The offsets of a text in a longer one, and of what follows it.
Continues(f, s, t) ==
  /\ \A k \in 0 .. Len(s) : SumTo(f, s \o t)[k] = SumTo(f, s)[k]
  /\ \A k \in 0 .. Len(t) :
       SumTo(f, s \o t)[Len(s) + k] = SumTo(f, s)[Len(s)] + SumTo(f, t)[k]

LEMMA SumConcat ==
  ASSUME NEW C, NEW f \in [C -> Nat], NEW s \in Seq(C), NEW t \in Seq(C)
  PROVE  Continues(f, s, t)
<1> DEFINE st == s \o t
           at == SumTo(f, s)
           past == SumTo(f, t)
           both == SumTo(f, st)
<1>1. /\ st \in Seq(C) /\ Len(st) = Len(s) + Len(t)
      /\ Len(s) \in Nat /\ Len(t) \in Nat
      /\ \A i \in 1 .. Len(s) : st[i] = s[i]
      /\ \A i \in 1 .. Len(t) : st[Len(s) + i] = t[i]
  BY ConcatProperties
<1>2. /\ \A i \in 1 .. Len(s) : f[s[i]] \in Nat
      /\ \A i \in 1 .. Len(t) : f[t[i]] \in Nat
  OBVIOUS
<1> HIDE DEF st
<1>3. AddsUp(f, s, at) /\ AddsUp(f, t, past)
  BY SumDef
<1>4. AddsUp(f, st, both)
  BY <1>1, SumDef
<1> HIDE DEF at, past, both
<1>5. /\ at[0] = 0 /\ past[0] = 0 /\ both[0] = 0
      /\ \A k \in 0 .. Len(s) : at[k] \in Nat
      /\ \A k \in 0 .. Len(t) : past[k] \in Nat
      /\ \A k \in 0 .. Len(st) : both[k] \in Nat
  BY <1>3, <1>4 DEF AddsUp
<1>6. \A k \in 0 .. Len(s) : both[k] = at[k]
  <2> DEFINE R == {k \in 0 .. Len(s) : both[k] = at[k]}
  <2>1. 0 \in R
    BY <1>1, <1>5
  <2>2. ASSUME NEW k \in 0 .. Len(s) - 1, k \in R PROVE k + 1 \in R
    <3>1. k + 1 \in 1 .. Len(s) /\ k + 1 \in 1 .. Len(st) /\ (k + 1) - 1 = k
      BY <1>1
    <3>2. at[k + 1] = at[k] + f[s[k + 1]] /\ both[k + 1] = both[k] + f[st[k + 1]]
      BY <1>3, <1>4, <3>1 DEF AddsUp
    <3> QED BY <1>1, <2>2, <3>1, <3>2
  <2> HIDE DEF R
  <2>3. \A k \in 0 .. Len(s) : k \in R
    BY <1>1, <2>1, <2>2, UpTo
  <2> QED BY <2>3 DEF R
<1>7. \A k \in 0 .. Len(t) : both[Len(s) + k] = at[Len(s)] + past[k]
  <2> DEFINE R == {k \in 0 .. Len(t) : both[Len(s) + k] = at[Len(s)] + past[k]}
  <2>1. 0 \in R
    <3>1. at[Len(s)] \in Nat /\ Len(s) + 0 = Len(s) /\ both[Len(s)] = at[Len(s)]
      BY <1>1, <1>5, <1>6
    <3> QED BY <1>1, <1>5, <3>1
  <2>2. ASSUME NEW k \in 0 .. Len(t) - 1, k \in R PROVE k + 1 \in R
    <3>1. /\ k + 1 \in 1 .. Len(t) /\ (k + 1) - 1 = k
          /\ Len(s) + k + 1 \in 1 .. Len(st) /\ (Len(s) + k + 1) - 1 = Len(s) + k
      BY <1>1
    <3>2. /\ past[k + 1] = past[k] + f[t[k + 1]]
          /\ both[Len(s) + k + 1] = both[Len(s) + k] + f[st[Len(s) + k + 1]]
      BY <1>3, <1>4, <3>1 DEF AddsUp
    <3>3. st[Len(s) + k + 1] = t[k + 1]
      BY <1>1, <3>1
    <3>4. at[Len(s)] \in Nat
      <4>1. Len(s) \in 0 .. Len(s)
        BY <1>1
      <4> QED BY <1>5, <4>1
    <3>5. past[k] \in Nat
      <4>1. k \in 0 .. Len(t)
        BY <1>1
      <4> QED BY <1>5, <4>1
    <3>6. f[t[k + 1]] \in Nat
      BY <1>2, <3>1
    <3>7. both[Len(s) + k] = at[Len(s)] + past[k]
      BY <2>2
    <3>8. both[Len(s) + k + 1] = at[Len(s)] + past[k + 1]
      BY <3>2, <3>3, <3>4, <3>5, <3>6, <3>7
    <3> QED BY <1>1, <3>1, <3>8
  <2> HIDE DEF R
  <2>3. \A k \in 0 .. Len(t) : k \in R
    BY <1>1, <2>1, <2>2, UpTo
  <2> QED BY <2>3 DEF R
<1> QED BY <1>6, <1>7 DEF Continues, st, at, past, both
=============================================================================
