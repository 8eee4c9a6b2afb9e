---------------------------- MODULE MCTreeBuffer ----------------------------
(* Small instances of TreeBuffer for TLC. *)
EXTENDS TreeBuffer, TLC

\* No operation tells one view from another.
ViewSymmetry == Permutations(Views)

\* The empty text, and a two-byte character followed by a one-byte one.
Empty == {0}
Mixed == {0, 2, 3}

ShapeContents == {Empty}
TextContents  == {Empty, Mixed}

\* Two runs that follow each other and one that splits the character.
NoRanges   == {}
TextRanges == {<<0, 2>>, <<2, 1>>, <<0, 1>>}

\* One caret at the end and one inside the character.
NoCarets   == {}
TextCarets == {1, 3}
=============================================================================
