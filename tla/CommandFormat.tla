--------------------------- MODULE CommandFormat ---------------------------
(***************************************************************************)
(* The operands of the command buffer's opcodes, written down twice in the *)
(* program: as build_tree_from_buffer reads them (gpui-sys/src/lib.rs      *)
(* 1099-1919) and as MoonBit's CommandBuffer writes them (moonbit-bindings *)
(* /gpui-bindings.mbt 250-960).  Nothing in the buffer delimits a command, *)
(* so one operand that is read unlike it was written shifts all that       *)
(* follows.  What a setter stores in the div's style is left out.          *)
(***************************************************************************)
EXTENDS Integers, SequencesExt, Functions

\* One table of opcodes made of two: f @@ g, of which the provers know nothing.
Merge(f, g) ==
  [op \in DOMAIN f \cup DOMAIN g |-> IF op \in DOMAIN f THEN f[op] ELSE g[op]]

Rgb   == <<"byte", "byte", "byte">>
Rgba  == Rgb \o <<"byte">>
Sides == <<"int", "int", "int", "int">>

\* The decoder: "px" is read_layout_f32, "int" is read_i32 or read_u32.
BoxReads ==
  [SET_SIZE |-> <<"px", "px">>, SET_BG |-> Rgb, SET_FLEX |-> <<"byte">>,
   SET_CENTER |-> <<>>, SET_GAP |-> <<"px">>, SET_ROUNDED |-> <<"px">>,
   SET_ON_CLICK |-> <<"int">>, SET_PADDING |-> <<"px">>]

ItemReads ==
  [SET_BORDER |-> <<"px">> \o Rgb, SET_BG_COLOR |-> Rgba, SET_MARGIN |-> Sides,
   SET_MIN_SIZE |-> <<"int", "int">>, SET_MAX_SIZE |-> <<"int", "int">>,
   SET_FLEX_ITEM |-> <<"int", "int", "int">>, SET_ALIGN |-> <<"int", "int">>,
   SET_OVERFLOW |-> <<"int", "int">>, SET_OPACITY |-> <<"int">>]

PlaceReads ==
  [SET_SHADOW |-> Sides \o Rgba, SET_CURSOR |-> <<"int">>,
   SET_POSITION |-> <<"int">>, SET_INSET |-> Sides, SET_PADDING_SIDES |-> Sides]

TypeReads ==
  [SET_TEXT_SIZE |-> <<"int">>, SET_TEXT_COLOR |-> Rgba,
   SET_FONT_WEIGHT |-> <<"int">>, SET_LINE_HEIGHT |-> <<"int">>,
   SET_TEXT_ALIGN |-> <<"int">>, SET_WHITESPACE |-> <<"int">>,
   SET_FONT_FAMILY |-> <<"str">>]

\* Mutant of FocusReads: the flag of a focusable div is read as a byte.
FocusReadsByte ==
  [SET_FOCUSABLE |-> <<"byte">>, SET_TAB_INDEX |-> <<"int">>,
   SET_TAB_STOP |-> <<"int">>, SET_SCROLL_ID |-> <<"int">>]

FocusReads ==
  [SET_FOCUSABLE |-> <<"int">>, SET_TAB_INDEX |-> <<"int">>,
   SET_TAB_STOP |-> <<"int">>, SET_SCROLL_ID |-> <<"int">>]

\* The commands that do more than set a style.
NodeReads ==
  [DIV |-> <<>>, TEXT |-> <<"str">> \o Rgb \o <<"px">>,
   TEXT_INPUT |-> <<"int", "str">>, IMAGE |-> <<"px", "px", "int", "str">>,
   SET_KEY |-> <<"str">>,
   TEXT_RUN |-> <<"int", "int", "byte">> \o Rgba \o <<"int">> \o Rgba,
   SET_TEXT_ROW |-> <<"str", "byte", "int">> \o Rgb \o <<"byte">>,
   ADD_CHILD |-> <<>>, SET_ROOT |-> <<>>]

Setters ==
  Merge(Merge(BoxReads, Merge(ItemReads, PlaceReads)), Merge(TypeReads, FocusReads))
Reads == Merge(Setters, NodeReads)

\* With what a command fails before it looks at the stack.
Faults(op) ==
  (IF Reads[op] = <<>> THEN {} ELSE {"TRUNCATED_BUFFER"})
  \cup (IF "px" \in Range(Reads[op]) THEN {"INVALID_FLOAT"} ELSE {})
  \cup (IF op = "IMAGE" THEN {"INVALID_IMAGE_FIT"} ELSE {})
  \cup (IF op \in {"TEXT_RUN", "SET_TEXT_ROW"} THEN {"INVALID_TEXT_RUN"} ELSE {})

-----------------------------------------------------------------------------
\* The builder: each opcode with the layouts it may write.  "zero" is the slot
\* of a color or a weight that a run does not set.
BoxWrites ==
  [SET_SIZE |-> {<<"float", "float">>}, SET_BG |-> {Rgb}, SET_FLEX |-> {<<"byte">>},
   SET_CENTER |-> {<<>>}, SET_GAP |-> {<<"float">>}, SET_ROUNDED |-> {<<"float">>},
   SET_ON_CLICK |-> {<<"int">>}, SET_PADDING |-> {<<"float">>},
   SET_BORDER |-> {<<"float">> \o Rgb}]

ItemWrites ==
  [SET_BG_COLOR |-> {Rgba}, SET_MARGIN |-> {Sides}, SET_MIN_SIZE |-> {<<"int", "int">>},
   SET_MAX_SIZE |-> {<<"int", "int">>}, SET_FLEX_ITEM |-> {<<"int", "int", "int">>},
   SET_ALIGN |-> {<<"int", "int">>}, SET_OVERFLOW |-> {<<"int", "int">>},
   SET_SCROLL_ID |-> {<<"int">>}, SET_OPACITY |-> {<<"int">>},
   SET_SHADOW |-> {Sides \o Rgba}, SET_CURSOR |-> {<<"int">>},
   SET_POSITION |-> {<<"int">>}, SET_INSET |-> {Sides}, SET_PADDING_SIDES |-> {Sides}]

TypeWrites ==
  [SET_TEXT_SIZE |-> {<<"int">>}, SET_TEXT_COLOR |-> {Rgba},
   SET_FONT_WEIGHT |-> {<<"int">>}, SET_LINE_HEIGHT |-> {<<"int">>},
   SET_TEXT_ALIGN |-> {<<"int">>}, SET_WHITESPACE |-> {<<"int">>},
   SET_FONT_FAMILY |-> {<<"str">>}, SET_FOCUSABLE |-> {<<"int">>},
   SET_TAB_INDEX |-> {<<"int">>}, SET_TAB_STOP |-> {<<"int">>}]

NodeWrites ==
  [DIV |-> {<<>>}, TEXT |-> {<<"str">> \o Rgb \o <<"float">>},
   TEXT_INPUT |-> {<<"int", "str">>}, IMAGE |-> {<<"float", "float", "int", "str">>},
   SET_KEY |-> {<<"str">>},
   TEXT_RUN |-> {<<"int", "int", "byte">> \o color \o weight \o background :
                   color, background \in {Rgba, <<"zero">>},
                   weight \in {<<"int">>, <<"zero">>}},
   SET_TEXT_ROW |-> {<<"str", "byte", offset>> \o Rgb \o <<"byte">> :
                       offset \in {"int", "zero"}},
   ADD_CHILD |-> {<<>>}, SET_ROOT |-> {<<>>}]

Writes == Merge(Merge(BoxWrites, ItemWrites), Merge(TypeWrites, NodeWrites))

-----------------------------------------------------------------------------
(* The two layouts of a command, byte by byte.                             *)

Four(b) == <<b, b, b, b>>

Spelled(kind) ==
  CASE kind = "byte" -> <<"b">>
    [] kind = "int" -> Four("i")
    [] kind \in {"px", "float"} -> Four("f")
    [] kind = "zero" -> Four("0")
    [] kind = "str" -> Four("i") \o <<"bytes">>

Bytes(layout) == FlattenSeq([i \in DOMAIN layout |-> Spelled(layout[i])])

\* w is read as r: bytes of zero are read as anything.
ReadAs(w, r) ==
  /\ Len(w) = Len(r)
  /\ \A i \in DOMAIN w : w[i] = r[i] \/ w[i] = "0"

InStep ==
  /\ DOMAIN Reads = DOMAIN Writes
  /\ \A op \in DOMAIN Reads :
       \A w \in Writes[op] : ReadAs(Bytes(w), Bytes(Reads[op]))
=============================================================================
