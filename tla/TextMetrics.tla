---------------------------- MODULE TextMetrics ----------------------------
(***************************************************************************)
(* The two pulls between characters of a painted row and positions in the  *)
(* window (gpui-sys/src/lib.rs 3858-4020): gpui_text_x_for_char and         *)
(* gpui_text_char_for_position, and the caret that set_text_row then puts  *)
(* at a character.  A text is a sequence of characters; the layout,        *)
(* gpui's, is external: it knows byte offsets and the x of each            *)
(* character's left edge, the sum of the advances before it.               *)
(***************************************************************************)
EXTENDS PrefixSums, SequencesExt, FiniteSetsExt

CONSTANTS
  Glyphs,       \* characters
  Width,        \* UTF-8 bytes of each
  Advance       \* px of each; 0 for a combining mark

ASSUME MetricsAssumption ==
  Width \in [Glyphs -> 1 .. 4] /\ Advance \in [Glyphs -> Nat]

Miss == -1

\* Char index to byte offset; the count of characters is the row's end.
CharIndexToByte(s, i) ==
  IF i \in 0 .. Len(s) THEN SumTo(Width, s)[i] ELSE Miss

\* The characters that begin before a byte offset.
ByteToCharIndex(s, byte) ==
  Cardinality({i \in 0 .. Len(s) - 1 : SumTo(Width, s)[i] < byte})

\* position_for_index, at boundaries.
PositionForIndex(s, byte) == SumTo(Advance, s)[ByteToCharIndex(s, byte)]

\* index_for_position: Ok with the last character that begins at or before x,
\* Err with the row's start or end outside of it.
Inside(s, x) == x >= 0 /\ x < SumTo(Advance, s)[Len(s)]

IndexForPosition(s, x) ==
  IF Inside(s, x)
    THEN SumTo(Width, s)[Max({i \in 0 .. Len(s) - 1 : SumTo(Advance, s)[i] <= x})]
    ELSE IF x < 0 THEN 0 ELSE SumTo(Width, s)[Len(s)]

\* Mutant of SnapToNearestBoundary: the character whose cell holds x.
SnapNever(s, byte, x) == byte

\* The following boundary if it is strictly closer to x.
SnapToNearestBoundary(s, byte, x) ==
  LET i == ByteToCharIndex(s, byte)
      following == byte + Width[s[i + 1]]
  IN IF i = Len(s) THEN byte
     ELSE IF PositionForIndex(s, following) - x < x - PositionForIndex(s, byte)
            THEN following ELSE byte

XForChar(s, i) ==
  IF CharIndexToByte(s, i) = Miss THEN Miss
  ELSE PositionForIndex(s, CharIndexToByte(s, i))

CharForPosition(s, x) ==
  LET byte == IndexForPosition(s, x) IN
  ByteToCharIndex(s, IF Inside(s, x) THEN SnapToNearestBoundary(s, byte, x)
                                     ELSE byte)

\* UTF-16 units of a character.
Units == [g \in Glyphs |-> IF Width[g] = 4 THEN 2 ELSE 1]

\* MoonBit's set_text_row: the byte offset of a caret at the n-th UTF-16 unit,
\* or of the row's end; inside a surrogate pair it has none.
CaretOffset(s, n) ==
  LET unit == SumTo(Units, s)
      at == {i \in 0 .. Len(s) : unit[i] = IF n > unit[Len(s)] THEN unit[Len(s)] ELSE n}
  IN IF at = {} THEN Miss ELSE SumTo(Width, s)[CHOOSE i \in at : TRUE]

-----------------------------------------------------------------------------
(* Reference definitions.                                                  *)

Distance(a, b) == IF a < b THEN b - a ELSE a - b

\* No boundary of s is closer to x than i is.
Nearest(s, x, i) ==
  \A j \in 0 .. Len(s) :
    Distance(x, XForChar(s, i)) <= Distance(x, XForChar(s, j))

\* No character of s is a surrogate pair in UTF-16.
Basic(s) == \A i \in 1 .. Len(s) : Width[s[i]] < 4
=============================================================================
