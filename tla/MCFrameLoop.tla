---------------------------- MODULE MCFrameLoop ----------------------------
(* A small instance of FrameLoop for TLC. *)
EXTENDS FrameLoop, TLC

\* One byte; three bytes, wide; two bytes, no width; four bytes, wide.
CONSTANTS a, kanji, mark, emoji

SomeWidth   == a :> 1 @@ kanji :> 3 @@ mark :> 2 @@ emoji :> 4
SomeAdvance == a :> 2 @@ kanji :> 3 @@ mark :> 0 @@ emoji :> 3

AnItem(kind, key, text, caret) ==
  [kind |-> kind, key |-> key, text |-> text, caret |-> caret]

Clear == AnItem("clear", "probe:clear", <<>>, "none")
Token == AnItem("probe", "probe:t", <<>>, "none")
Row(key, text, caret) == AnItem("row", key, text, caret)

Caret == AnItem("probe", "caret", <<>>, "none")

\* A row with the caret; its text patched; the caret's row gone, a probe for it,
\* and two rows of one key; no probes.
SomeTrees ==
  {<<Clear, Token, Row("r1", <<a, kanji>>, "blink"), Row("r2", <<a>>, "none")>>,
   <<Clear, Token, Row("r1", <<kanji, a, kanji>>, "blink"), Row("r2", <<emoji, a>>, "none")>>,
   <<Clear, Caret, Row("r2", <<a>>, "none"), Row("r2", <<a, mark, a>>, "none")>>,
   <<Row("r1", <<>>, "still")>>}
=============================================================================
