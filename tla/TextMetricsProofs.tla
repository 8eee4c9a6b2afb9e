------------------------- MODULE TextMetricsProofs -------------------------
(***************************************************************************)
(* Proofs about TextMetrics, for any text, widths and advances: a position *)
(* leads to the boundary nearest to it, and a caret set to the index that  *)
(* was pulled is drawn at the byte of that index.                          *)
(*                                                                         *)
(* Bytes grow strictly with characters, so that byte offsets and character *)
(* indices determine each other.  Advances grow weakly, which is enough    *)
(* for the character under x, and that after it, to be nearer to x than    *)
(* all others.                                                             *)
(***************************************************************************)
EXTENDS TextMetrics, DataInduction, FiniteSetTheorems

\* Byte offsets of boundaries are natural numbers in the order of the characters.
LEMMA BytesGrow ==
  ASSUME MetricsAssumption, NEW s \in Seq(Glyphs)
  PROVE  /\ AddsUp(Width, s, SumTo(Width, s))
         /\ \A i \in 0 .. Len(s) : SumTo(Width, s)[i] \in Nat
         /\ \A i, j \in 0 .. Len(s) : i < j => SumTo(Width, s)[i] < SumTo(Width, s)[j]
<1>1. Width \in [Glyphs -> Nat \ {0}] /\ Width \in [Glyphs -> Nat]
  <2>1. Width \in [Glyphs -> 1 .. 4]
    BY DEF MetricsAssumption
  <2>2. 1 .. 4 \subseteq Nat \ {0}
    OBVIOUS
  <2> QED BY <2>1, <2>2
<1>2. AddsUp(Width, s, SumTo(Width, s))
  BY <1>1, SumDef
<1>3. \A i \in 0 .. Len(s) : SumTo(Width, s)[i] \in Nat
  BY <1>2 DEF AddsUp
<1>4. ASSUME NEW i \in 0 .. Len(s), NEW j \in 0 .. Len(s), i < j
      PROVE  SumTo(Width, s)[i] < SumTo(Width, s)[j]
  <2>1. Len(s) \in Nat
    OBVIOUS
  <2>2. j \in i + 1 .. Len(s)
    BY <1>4, <2>1
  <2> QED BY <1>1, <2>2, SumGrowsStrictly
<1> QED BY <1>2, <1>3, <1>4

\* So do the left edges, but two of them may coincide.
LEMMA EdgesGrow ==
  ASSUME MetricsAssumption, NEW s \in Seq(Glyphs)
  PROVE  /\ SumTo(Advance, s)[0] = 0
         /\ \A i \in 0 .. Len(s) : SumTo(Advance, s)[i] \in Nat
         /\ \A i, j \in 0 .. Len(s) : i <= j => SumTo(Advance, s)[i] <= SumTo(Advance, s)[j]
<1>1. Advance \in [Glyphs -> Nat]
  BY DEF MetricsAssumption
<1>2. AddsUp(Advance, s, SumTo(Advance, s))
  BY <1>1, SumDef
<1>3. ASSUME NEW i \in 0 .. Len(s), NEW j \in 0 .. Len(s), i <= j
      PROVE  SumTo(Advance, s)[i] <= SumTo(Advance, s)[j]
  <2>1. Len(s) \in Nat
    OBVIOUS
  <2>2. j \in i .. Len(s)
    BY <1>3, <2>1
  <2> QED BY <1>1, <2>2, SumGrows
<1> QED BY <1>2, <1>3 DEF AddsUp

\* The i-th boundary's byte offset leads back to i.
LEMMA ByteLeadsBack ==
  ASSUME MetricsAssumption, NEW s \in Seq(Glyphs), NEW i \in 0 .. Len(s)
  PROVE  ByteToCharIndex(s, SumTo(Width, s)[i]) = i
<1> DEFINE at == SumTo(Width, s)
<1>1. /\ \A j \in 0 .. Len(s) : at[j] \in Nat
      /\ \A j, k \in 0 .. Len(s) : j < k => at[j] < at[k]
  BY BytesGrow
<1>2. Len(s) \in Nat
  OBVIOUS
<1> HIDE DEF at
<1>3. {j \in 0 .. Len(s) - 1 : at[j] < at[i]} = 0 .. i - 1
  <2>1. ASSUME NEW j \in 0 .. Len(s) - 1 PROVE at[j] < at[i] <=> j < i
    <3>1. j \in 0 .. Len(s) /\ j \in Nat /\ i \in Nat
      BY <1>2
    <3>2. CASE j < i
      BY <1>1, <3>1, <3>2
    <3>3. CASE j = i
      BY <1>1, <3>1, <3>3
    <3>4. CASE i < j
      <4>1. at[i] < at[j] /\ at[i] \in Nat /\ at[j] \in Nat
        BY <1>1, <3>1, <3>4
      <4> QED BY <3>1, <3>4, <4>1
    <3> QED BY <3>1, <3>2, <3>3, <3>4
  <2>2. ASSUME NEW j \in 0 .. i - 1 PROVE j \in 0 .. Len(s) - 1 /\ j < i
    BY <1>2
  <2>3. ASSUME NEW j \in 0 .. Len(s) - 1, j < i PROVE j \in 0 .. i - 1
    BY <1>2, <2>3
  <2> QED BY <2>1, <2>2, <2>3
<1>4. Cardinality(0 .. i - 1) = i
  BY FS_Interval
<1> QED BY <1>3, <1>4 DEF ByteToCharIndex, at

LEMMA EdgeOfBoundary ==
  ASSUME MetricsAssumption, NEW s \in Seq(Glyphs), NEW i \in 0 .. Len(s)
  PROVE  /\ PositionForIndex(s, SumTo(Width, s)[i]) = SumTo(Advance, s)[i]
         /\ XForChar(s, i) = SumTo(Advance, s)[i]
<1>1. PositionForIndex(s, SumTo(Width, s)[i]) = SumTo(Advance, s)[i]
  BY ByteLeadsBack DEF PositionForIndex
<1>2. CharIndexToByte(s, i) = SumTo(Width, s)[i]
  BY DEF CharIndexToByte
<1>3. SumTo(Width, s)[i] \in Nat
  BY BytesGrow
<1> QED BY <1>1, <1>2, <1>3 DEF XForChar, Miss

-----------------------------------------------------------------------------
\* The character that position x falls on, and the boundary chosen beside it.
LEMMA InsideIsNearest ==
  ASSUME MetricsAssumption, NEW s \in Seq(Glyphs), NEW x \in Int, Inside(s, x)
  PROVE  /\ CharForPosition(s, x) \in 0 .. Len(s)
         /\ Nearest(s, x, CharForPosition(s, x))
<1> DEFINE at == SumTo(Advance, s)
           byte == SumTo(Width, s)
           before == {i \in 0 .. Len(s) - 1 : at[i] <= x}
           i == Max(before)
           snapped == IF at[i + 1] - x < x - at[i] THEN i + 1 ELSE i
<1>1. Len(s) \in Nat
  OBVIOUS
<1>2. /\ at[0] = 0
      /\ \A j \in 0 .. Len(s) : at[j] \in Nat
      /\ \A j, k \in 0 .. Len(s) : j <= k => at[j] <= at[k]
  BY EdgesGrow
<1>3. x >= 0 /\ x < at[Len(s)] /\ Len(s) # 0
  BY <1>2 DEF Inside
<1> HIDE DEF at
<1>4. i \in before /\ \A j \in before : j <= i
  <2>1. 0 \in before
    BY <1>1, <1>2, <1>3
  <2>2. before \subseteq 0 .. Len(s)
    BY <1>1
  <2>3. \E m \in before : \A j \in before : j <= m
    BY <1>1, <2>1, <2>2, NatLargest
  <2>4. \E m \in before : \A j \in before : m >= j
    BY <2>2, <2>3
  <2> HIDE DEF before
  <2>5. i \in before /\ \A j \in before : i >= j
    BY <2>4 DEF Max
  <2> QED BY <2>2, <2>5
<1>5. i \in 0 .. Len(s) - 1 /\ i + 1 \in 0 .. Len(s) /\ i \in 0 .. Len(s) /\ at[i] <= x
  BY <1>1, <1>4
<1>6. x < at[i + 1]
  <2>1. CASE i + 1 = Len(s)
    BY <1>3, <2>1
  <2>2. CASE i + 1 # Len(s)
    <3>1. i + 1 \in 0 .. Len(s) - 1
      BY <1>1, <1>5, <2>2
    <3>2. i + 1 \notin before
      BY <1>4, <1>5
    <3>3. ~(at[i + 1] <= x)
      BY <3>1, <3>2
    <3> QED BY <1>2, <1>5, <3>3
  <2> QED BY <2>1, <2>2
<1> HIDE DEF i, before
<1>7. CharForPosition(s, x) = snapped
  <2>1. IndexForPosition(s, x) = byte[i]
    BY DEF IndexForPosition, i, before, at
  <2>2. ByteToCharIndex(s, byte[i]) = i
    BY <1>5, ByteLeadsBack
  <2>3. byte[i] + Width[s[i + 1]] = byte[i + 1]
    <3>1. AddsUp(Width, s, byte)
      BY BytesGrow
    <3>2. i + 1 \in 1 .. Len(s) /\ (i + 1) - 1 = i
      BY <1>1, <1>5
    <3> QED BY <3>1, <3>2 DEF AddsUp
  <2>4. PositionForIndex(s, byte[i]) = at[i] /\ PositionForIndex(s, byte[i + 1]) = at[i + 1]
    BY <1>5, EdgeOfBoundary DEF at
  <2>5. i # Len(s)
    BY <1>1, <1>5
  <2>6. SnapToNearestBoundary(s, byte[i], x) =
          IF at[i + 1] - x < x - at[i] THEN byte[i + 1] ELSE byte[i]
    BY <2>2, <2>3, <2>4, <2>5 DEF SnapToNearestBoundary
  <2>7. CharForPosition(s, x) = ByteToCharIndex(s, SnapToNearestBoundary(s, byte[i], x))
    BY <2>1 DEF CharForPosition
  <2>8. ByteToCharIndex(s, byte[i + 1]) = i + 1
    BY <1>5, ByteLeadsBack
  <2> QED BY <2>2, <2>6, <2>7, <2>8
<1>8. snapped \in 0 .. Len(s) /\ at[snapped] \in Nat
  BY <1>2, <1>5
<1>9. ASSUME NEW j \in 0 .. Len(s)
      PROVE  Distance(x, at[snapped]) <= Distance(x, at[j])
  <2>1. at[i] \in Nat /\ at[i + 1] \in Nat /\ at[j] \in Nat /\ j \in Int /\ i \in Int
    BY <1>1, <1>2, <1>5
  <2>2. CASE j <= i
    <3>1. at[j] <= at[i]
      BY <1>2, <1>5, <2>2
    <3> QED BY <1>5, <1>6, <2>1, <3>1 DEF Distance
  <2>3. CASE i + 1 <= j
    <3>1. at[i + 1] <= at[j]
      BY <1>2, <1>5, <2>3
    <3> QED BY <1>5, <1>6, <2>1, <3>1 DEF Distance
  <2> QED BY <2>1, <2>2, <2>3
<1>10. \A j \in 0 .. Len(s) : XForChar(s, j) = at[j]
  BY EdgeOfBoundary DEF at
<1> HIDE DEF snapped
<1> QED BY <1>7, <1>8, <1>9, <1>10 DEF Nearest

\* Outside of the row its start or its end is nearest.
LEMMA OutsideIsNearest ==
  ASSUME MetricsAssumption, NEW s \in Seq(Glyphs), NEW x \in Int, ~Inside(s, x)
  PROVE  /\ CharForPosition(s, x) \in 0 .. Len(s)
         /\ Nearest(s, x, CharForPosition(s, x))
<1> DEFINE at == SumTo(Advance, s)
           i == IF x < 0 THEN 0 ELSE Len(s)
<1>1. Len(s) \in Nat /\ 0 \in 0 .. Len(s) /\ Len(s) \in 0 .. Len(s)
  OBVIOUS
<1>2. /\ at[0] = 0
      /\ \A j \in 0 .. Len(s) : at[j] \in Nat
      /\ \A j, k \in 0 .. Len(s) : j <= k => at[j] <= at[k]
  BY EdgesGrow
<1>3. CharForPosition(s, x) = i
  <2>1. AddsUp(Width, s, SumTo(Width, s))
    BY BytesGrow
  <2>2. IndexForPosition(s, x) = SumTo(Width, s)[i]
    BY <2>1 DEF IndexForPosition, AddsUp
  <2>3. CharForPosition(s, x) = ByteToCharIndex(s, SumTo(Width, s)[i])
    BY <2>2 DEF CharForPosition
  <2> QED BY <1>1, <2>3, ByteLeadsBack
<1>4. \A j \in 0 .. Len(s) : XForChar(s, j) = at[j]
  BY EdgeOfBoundary
<1>5. x < 0 \/ at[Len(s)] <= x
  BY <1>1, <1>2 DEF Inside
<1> HIDE DEF at
<1>6. ASSUME NEW j \in 0 .. Len(s)
      PROVE  Distance(x, at[i]) <= Distance(x, at[j])
  <2>1. at[j] \in Nat /\ at[Len(s)] \in Nat /\ at[j] <= at[Len(s)]
    BY <1>1, <1>2
  <2> QED BY <1>2, <1>5, <2>1 DEF Distance
<1>7. i \in 0 .. Len(s)
  BY <1>1
<1> HIDE DEF i
<1> QED BY <1>3, <1>4, <1>6, <1>7 DEF Nearest

\* gpui_text_char_for_position returns a boundary that no other is closer to,
\* for every row and every position inside or beside it (3891-3929, 3974-4020).
THEOREM HitIsNearest ==
  ASSUME MetricsAssumption, NEW s \in Seq(Glyphs), NEW x \in Int
  PROVE  /\ CharForPosition(s, x) \in 0 .. Len(s)
         /\ Nearest(s, x, CharForPosition(s, x))
BY InsideIsNearest, OutsideIsNearest

-----------------------------------------------------------------------------
\* Without surrogate pairs the n-th unit is the n-th character.
LEMMA UnitsAreCharacters ==
  ASSUME MetricsAssumption, NEW s \in Seq(Glyphs), Basic(s)
  PROVE  \A k \in 0 .. Len(s) : SumTo(Units, s)[k] = k
<1> DEFINE unit == SumTo(Units, s)
           R == {k \in 0 .. Len(s) : unit[k] = k}
<1>1. Len(s) \in Nat /\ \A k \in 1 .. Len(s) : s[k] \in Glyphs
  OBVIOUS
<1>2. Units \in [Glyphs -> Nat]
  BY DEF Units
<1>3. AddsUp(Units, s, unit)
  BY <1>2, SumDef
<1> HIDE DEF unit
<1>4. \A k \in 1 .. Len(s) : Units[s[k]] = 1
  BY <1>1 DEF Units, Basic
<1>5. 0 \in R
  BY <1>1, <1>3 DEF AddsUp
<1>6. ASSUME NEW k \in 0 .. Len(s) - 1, k \in R PROVE k + 1 \in R
  <2>1. k + 1 \in 1 .. Len(s) /\ (k + 1) - 1 = k /\ k + 1 \in 0 .. Len(s)
    BY <1>1
  <2>2. unit[k + 1] = unit[k] + Units[s[k + 1]]
    BY <1>3, <2>1 DEF AddsUp
  <2> QED BY <1>4, <1>6, <2>1, <2>2
<1> HIDE DEF R
<1>7. \A k \in 0 .. Len(s) : k \in R
  BY <1>1, <1>5, <1>6, UpTo
<1> QED BY <1>7 DEF R, unit

\* A row without surrogate pairs draws its caret at the character whose index
\* the application pulled (gpui-bindings.mbt 416-431).
THEOREM CaretIsAtCharacter ==
  ASSUME MetricsAssumption, NEW s \in Seq(Glyphs), Basic(s), NEW i \in 0 .. Len(s)
  PROVE  CaretOffset(s, i) = CharIndexToByte(s, i)
<1> DEFINE unit == SumTo(Units, s)
           at == {k \in 0 .. Len(s) : unit[k] = IF i > unit[Len(s)] THEN unit[Len(s)] ELSE i}
<1>1. Len(s) \in 0 .. Len(s) /\ i \in Nat /\ i <= Len(s)
  OBVIOUS
<1>2. \A k \in 0 .. Len(s) : unit[k] = k
  BY UnitsAreCharacters
<1> HIDE DEF unit
<1>3. at = {i}
  BY <1>1, <1>2
<1>4. at # {} /\ (CHOOSE k \in at : TRUE) = i
  <2> HIDE DEF at
  <2> QED BY <1>3
<1> QED BY <1>4 DEF CaretOffset, CharIndexToByte, at, unit
=============================================================================
