----------------------------- MODULE TextInput -----------------------------
(***************************************************************************)
(* The text-input widget (gpui-sys/src/lib.rs 2640-3449 and 5475-5546): the *)
(* retained models the platform IME edits, the mirror that the pull ABI    *)
(* reads, the queue of gpui_input_set_text writes that the next prepaint   *)
(* applies, and the dirty flag that is to get that prepaint scheduled.     *)
(*                                                                         *)
(* Everything runs on the main thread; what interleaves is the order of    *)
(* platform callbacks, frames and the MoonBit handlers they dispatch to.   *)
(* A handler may write one input, swap the tree, and report a change.      *)
(* The inputs are those of one view; an entry injected for another view    *)
(* runs through the same mirror, queue and flag.                           *)
(* A text is a sequence of characters, each with its width in UTF-8 bytes  *)
(* and UTF-16 units; selected and marked ranges are byte offsets, as in    *)
(* the code, and the ranges the platform sends are UTF-16 offsets.         *)
(***************************************************************************)
EXTENDS PrefixSums, SequencesExt, FiniteSetsExt

CONSTANTS
  Inputs,       \* input ids of one view
  Chars,
  Utf8,         \* bytes of each character
  Utf16,        \* UTF-16 units of each character
  Offsets,      \* bound: the UTF-16 offsets the platform sends
  Texts,        \* bound: the texts that are typed, composed or written
  NoModel,      \* no entity yet
  NoEntry,      \* no mirror entry yet
  NoWrite,      \* a handler that does not call gpui_input_set_text
  MaxLen,       \* bound: characters in one input
  MaxWrites     \* bound: writes queued for one input

NoRange == <<>>

\* TextInputModel, and an entry of INPUT_MIRROR.
Model == [content : Seq(Chars), sel : Nat \X Nat, marked : {NoRange} \union (Nat \X Nat)]
Entry == [text : Seq(Chars), composing : BOOLEAN]

ASSUME InputAssumption ==
  /\ Utf8 \in [Chars -> 1 .. 4] /\ Utf16 \in [Chars -> 1 .. 2]
  /\ Texts \subseteq Seq(Chars) /\ Offsets \subseteq Nat
  /\ MaxLen \in Nat /\ MaxWrites \in Nat
  /\ NoWrite \notin [input : Inputs, text : Texts]
  /\ NoModel \notin Model /\ NoEntry \notin Entry

VARIABLES
  tree,         \* inputs of the committed tree
  painted,      \* inputs of the last frame, whose callbacks are registered
  model,        \* FfiView.inputs
  mirror,       \* INPUT_MIRROR
  queue,        \* INPUT_SET_TEXT_QUEUE, by input: no one compares across inputs
  dirty,        \* INPUT_DIRTY
  repaint,      \* a frame is scheduled (cx.notify or window.refresh)
  slips         \* history, for the properties: the dispatches that left the
                \* view short of a frame, since one was last asked for

vars == <<tree, painted, model, mirror, queue, dirty, repaint, slips>>

Slips == {"marker",       \* swapped the tree, and nobody looked at the result
          "elsewhere"}    \* took the flag, to repaint another view

Init ==
  /\ tree \in SUBSET Inputs /\ painted = {}
  /\ model = [i \in Inputs |-> NoModel]
  /\ mirror = [i \in Inputs |-> NoEntry]
  /\ queue = [i \in Inputs |-> <<>>] /\ dirty = FALSE /\ repaint = TRUE
  /\ slips = {}

-----------------------------------------------------------------------------
(* Offsets.                                                                *)

\* The offset in the given unit after each number of characters of s.
Offset(unit, s) == SumTo(unit, s)

Bytes(s) == Offset(Utf8, s)[Len(s)]
Boundaries(s) == {Offset(Utf8, s)[k] : k \in 0 .. Len(s)}

\* Characters before byte offset b, which must be a boundary to slice there.
CharsBefore(s, b) == CHOOSE k \in 0 .. Len(s) : Offset(Utf8, s)[k] = b

\* offset_from_utf16: the first boundary at or past the offset, or the end.
FromUtf16(s, o) ==
  LET past == {k \in 0 .. Len(s) : Offset(Utf16, s)[k] >= o}
  IN  Offset(Utf8, s)[Min(past \union {Len(s)})]

RangeFromUtf16(s, r) == <<FromUtf16(s, r[1]), FromUtf16(s, r[2])>>

\* What the platform may name, inside a surrogate pair or past the end included.
PlatformRanges == {r \in Offsets \X Offsets : r[1] <= r[2]}

Splice(s, r, new) ==
  SubSeq(s, 1, CharsBefore(s, r[1])) \o new \o SubSeq(s, CharsBefore(s, r[2]) + 1, Len(s))

-----------------------------------------------------------------------------
(* Transitions of one model.                                               *)

Fresh == [content |-> <<>>, sel |-> <<0, 0>>, marked |-> NoRange]

CaretAt(m, b) == [m EXCEPT !.sel = <<b, b>>]

ApplyReplace(m, r, new) ==
  [content |-> Splice(m.content, r, new),
   sel     |-> <<r[1] + Bytes(new), r[1] + Bytes(new)>>,
   marked  |-> NoRange]

\* "within" is the selection inside the new text; the code's None is its end.
ApplyReplaceAndMark(m, r, new, within) ==
  [content |-> Splice(m.content, r, new),
   sel     |-> <<r[1] + within[1], r[1] + within[2]>>,
   marked  |-> IF new = <<>> THEN NoRange ELSE <<r[1], r[1] + Bytes(new)>>]

\* Mutant of ApplySetText: the caret counts characters instead of bytes.
ApplySetTextByChars(text) ==
  [content |-> text, sel |-> <<Len(text), Len(text)>>, marked |-> NoRange]

ApplySetText(text) ==
  [content |-> text, sel |-> <<Bytes(text), Bytes(text)>>, marked |-> NoRange]

\* The range an edit replaces: the given one, else the marked, else the selected.
TargetRange(m, given) ==
  IF given # NoRange THEN RangeFromUtf16(m.content, given)
  ELSE IF m.marked # NoRange THEN m.marked
  ELSE m.sel

PreviousBoundary(m) == Max({b \in Boundaries(m.content) : b < m.sel[2]} \union {0})
NextBoundary(m) ==
  Min({b \in Boundaries(m.content) : b > m.sel[2]} \union {Bytes(m.content)})

\* Backspace and delete first extend an empty selection by one character.
Erased(m, key) ==
  IF m.sel[1] # m.sel[2] THEN m.sel
  ELSE IF key = "backspace" THEN <<PreviousBoundary(m), m.sel[2]>>
  ELSE <<m.sel[2], NextBoundary(m)>>

MovedTo(m, key) ==
  CASE key = "left"  -> IF m.sel[1] = m.sel[2] THEN PreviousBoundary(m) ELSE m.sel[1]
    [] key = "right" -> IF m.sel[1] = m.sel[2] THEN NextBoundary(m) ELSE m.sel[2]
    [] key = "home"  -> 0
    [] key = "end"   -> Bytes(m.content)

\* sync_mirror.
Synced(m) == [text |-> m.content, composing |-> m.marked # NoRange]

Store(i, m) == model' = [model EXCEPT ![i] = m]

-----------------------------------------------------------------------------
(* mb_dispatch: what a handler does before it returns, and what the call   *)
(* site makes of it.                                                       *)

Writes == [input : Inputs, text : Texts]

\* gpui_input_set_text: refused without a mirror entry, and while composing.
Accepts(mir, w) ==
  /\ w # NoWrite
  /\ mir[w.input] # NoEntry
  /\ ~mir[w.input].composing

Outcomes == [write : Writes \union {NoWrite}, built : SUBSET Inputs, changed : BOOLEAN]

\* The handler runs with the mirror at mir.  The framework reports every rebuild
\* as a change.
HandlerRuns(mir, h) ==
  LET w == h.write
  IN  /\ h.built # tree => h.changed
      /\ w # NoWrite => Len(queue[w.input]) < MaxWrites
      /\ tree' = h.built
      /\ mirror' = IF Accepts(mir, w)
                   THEN [mir EXCEPT ![w.input] = [text |-> w.text, composing |-> FALSE]]
                   ELSE mir
      /\ queue' = IF Accepts(mir, w)
                  THEN [queue EXCEPT ![w.input] = Append(@, w.text)]
                  ELSE queue

DirtyAfter(mir, h) == dirty \/ Accepts(mir, h.write)

\* A frame makes up for whatever went before it.
Slipping(by) == slips' = IF repaint' THEN {} ELSE slips \union by

\* "changed == 1 || take_input_dirty() == 1": a change leaves the flag alone.
FoldOr(d, changed) ==
  /\ repaint' = (repaint \/ changed \/ d)
  /\ dirty' = (d /\ changed)

\* Mutant of FoldMax: the flag is taken and its value thrown away.
FoldMaxIgnoring(d, changed) ==
  /\ repaint' = (repaint \/ changed)
  /\ dirty' = FALSE

\* Mutant of FoldMax: the flag stands for the change.
FoldMaxDirtyOnly(d, changed) ==
  /\ repaint' = (repaint \/ d)
  /\ dirty' = FALSE

\* "changed.max(take_input_dirty())": the flag is always taken.
FoldMax(d, changed) ==
  /\ repaint' = (repaint \/ changed \/ d)
  /\ dirty' = FALSE

\* Only the change counts.
FoldNone(d, changed) ==
  /\ repaint' = (repaint \/ changed)
  /\ dirty' = d

\* emit_changed refreshes the window whatever the handler reports.
EmitChanged(mir, h) ==
  /\ HandlerRuns(mir, h)
  /\ repaint' = TRUE /\ Slipping({})
  /\ dirty' = (DirtyAfter(mir, h) /\ h.changed)

-----------------------------------------------------------------------------
(* Callbacks of the platform, on an input of the last frame.               *)

\* replace_text_in_range: typed text and IME commits.
Commit(i, given, new, h) ==
  /\ i \in painted
  /\ LET m == ApplyReplace(model[i], TargetRange(model[i], given), new)
     IN  /\ Len(m.content) <= MaxLen
         /\ Store(i, m)
         /\ EmitChanged([mirror EXCEPT ![i] = Synced(m)], h)
  /\ UNCHANGED painted

\* replace_and_mark_text_in_range: no dispatch while composing.
Preedit(i, given, new, within) ==
  /\ i \in painted
  /\ LET m == ApplyReplaceAndMark(model[i], TargetRange(model[i], given), new,
                                  RangeFromUtf16(new, within))
     IN  /\ Len(m.content) <= MaxLen
         /\ Store(i, m)
         /\ mirror' = [mirror EXCEPT ![i] = Synced(m)]
  /\ repaint' = TRUE /\ Slipping({})
  /\ UNCHANGED <<tree, painted, queue, dirty>>

\* Mutant of Unmark: the mirror is not synced.
UnmarkUnsynced(i) ==
  /\ i \in painted
  /\ Store(i, [model[i] EXCEPT !.marked = NoRange])
  /\ UNCHANGED <<tree, painted, mirror, queue, dirty, repaint, slips>>

\* unmark_text.
Unmark(i) ==
  /\ i \in painted
  /\ LET m == [model[i] EXCEPT !.marked = NoRange]
     IN  /\ Store(i, m)
         /\ mirror' = [mirror EXCEPT ![i] = Synced(m)]
  /\ UNCHANGED <<tree, painted, queue, dirty, repaint, slips>>

\* handle_editing_key: backspace and delete ...
Erase(i, key, h) ==
  /\ i \in painted
  /\ LET r == Erased(model[i], key)
         m == ApplyReplace(model[i], r, <<>>)
     IN  IF r[1] = r[2]
         THEN UNCHANGED <<tree, model, mirror, queue, dirty, repaint, slips>>
         ELSE /\ Store(i, m)
              /\ EmitChanged([mirror EXCEPT ![i] = Synced(m)], h)
  /\ UNCHANGED painted

\* ... the caret keys ...
MoveCaret(i, key) ==
  /\ i \in painted
  /\ Store(i, CaretAt(model[i], MovedTo(model[i], key)))
  /\ repaint' = TRUE /\ Slipping({})
  /\ UNCHANGED <<tree, painted, mirror, queue, dirty>>

\* ... and enter, which submits.
Submit(i, h) ==
  /\ i \in painted
  /\ HandlerRuns(mirror, h)
  /\ FoldOr(DirtyAfter(mirror, h), h.changed) /\ Slipping({})
  /\ UNCHANGED <<painted, model>>

-----------------------------------------------------------------------------
(* Dispatches that are not about an input.                                 *)

\* drain_injected_events, for one entry of the view.
Injected(h) ==
  /\ HandlerRuns(mirror, h)
  /\ FoldOr(DirtyAfter(mirror, h), h.changed) /\ Slipping({})
  /\ UNCHANGED <<painted, model>>

\* Clicks, keys, typed text and scroll announcements.
Event(h) ==
  /\ HandlerRuns(mirror, h)
  /\ FoldMax(DirtyAfter(mirror, h), h.changed) /\ Slipping({})
  /\ UNCHANGED <<painted, model>>

\* dispatch_mouse.
Mouse(h) ==
  /\ HandlerRuns(mirror, h)
  /\ FoldNone(DirtyAfter(mirror, h), h.changed) /\ Slipping({})
  /\ UNCHANGED <<painted, model>>

\* The ImeBridge's dispatches ignore the result and the flag; its callbacks
\* refresh the window.
Bridge(h) ==
  /\ HandlerRuns(mirror, h)
  /\ repaint' = TRUE /\ Slipping({})
  /\ dirty' = DirtyAfter(mirror, h)
  /\ UNCHANGED <<painted, model>>

\* The marker of a key that belongs to the input method: the listener ignores
\* the result and the flag, and returns.
Marker(h) ==
  /\ HandlerRuns(mirror, h)
  /\ dirty' = DirtyAfter(mirror, h)
  /\ UNCHANGED <<painted, model, repaint>>
  /\ Slipping(IF h.built = tree THEN {} ELSE {"marker"})

\* An entry of another view: its dispatch rebuilds only that view, and if the
\* flag is taken it is to notify that view.
Elsewhere(h) ==
  /\ h.built = tree
  /\ HandlerRuns(mirror, h)
  /\ dirty' = (DirtyAfter(mirror, h) /\ h.changed)
  /\ UNCHANGED <<painted, model, repaint>>
  /\ Slipping(IF dirty' = DirtyAfter(mirror, h) THEN {} ELSE {"elsewhere"})

-----------------------------------------------------------------------------
(* Frames and windows.                                                     *)

\* An input's render creates a missing model and seeds its mirror entry; its
\* prepaint then applies the writes queued for it.  Each replaces the whole
\* state, so only the last leaves a trace.
Rendered(i) == IF model[i] = NoModel THEN Fresh ELSE model[i]
Prepainted(i) ==
  IF queue[i] = <<>> THEN Rendered(i) ELSE ApplySetText(Last(queue[i]))

\* Mutants of Paint: applied writes are not synced to the mirror; the queue is
\* drained for the inputs of the previous frame.
PaintUnsynced ==
  /\ painted' = tree
  /\ model' = [i \in Inputs |-> IF i \in tree THEN Prepainted(i) ELSE model[i]]
  /\ mirror' = [i \in Inputs |->
       IF i \in tree /\ model[i] = NoModel THEN Synced(Prepainted(i)) ELSE mirror[i]]
  /\ queue' = [i \in Inputs |-> IF i \in tree THEN <<>> ELSE queue[i]]
  /\ repaint' = FALSE /\ slips' = {}
  /\ UNCHANGED <<tree, dirty>>

PaintDrainingLastFrame ==
  /\ painted' = tree
  /\ model' = [i \in Inputs |-> IF i \in tree THEN Prepainted(i) ELSE model[i]]
  /\ mirror' = [i \in Inputs |->
       IF i \in tree /\ (model[i] = NoModel \/ queue[i] # <<>>)
       THEN Synced(Prepainted(i)) ELSE mirror[i]]
  /\ queue' = [i \in Inputs |-> IF i \in painted THEN <<>> ELSE queue[i]]
  /\ repaint' = FALSE /\ slips' = {}
  /\ UNCHANGED <<tree, dirty>>

Paint ==
  /\ painted' = tree
  /\ model' = [i \in Inputs |-> IF i \in tree THEN Prepainted(i) ELSE model[i]]
  /\ mirror' = [i \in Inputs |->
       IF i \in tree /\ (model[i] = NoModel \/ queue[i] # <<>>)
       THEN Synced(Prepainted(i)) ELSE mirror[i]]
  /\ queue' = [i \in Inputs |-> IF i \in tree THEN <<>> ELSE queue[i]]
  /\ repaint' = FALSE /\ slips' = {}
  /\ UNCHANGED <<tree, dirty>>

ScheduledPaint == repaint /\ Paint

\* Mutant of Reopen: the callbacks of the old window's last frame stay.
ReopenKeepingFrame ==
  /\ model' = [i \in Inputs |-> NoModel]
  /\ repaint' = TRUE /\ slips' = {}
  /\ UNCHANGED <<tree, painted, mirror, queue, dirty>>

\* The window closes and the next one opens: a new FfiView has no models, the
\* statics stay.
Reopen ==
  /\ painted' = {}
  /\ model' = [i \in Inputs |-> NoModel]
  /\ repaint' = TRUE /\ slips' = {}
  /\ UNCHANGED <<tree, mirror, queue, dirty>>

-----------------------------------------------------------------------------
Editing(i) ==
  \/ \E within \in PlatformRanges, given \in PlatformRanges \union {NoRange}, new \in Texts :
       Preedit(i, given, new, within)
  \/ Unmark(i)
  \/ \E key \in {"left", "right", "home", "end"} : MoveCaret(i, key)

Dispatching(h) ==
  \/ \E i \in Inputs :
       \/ \E given \in PlatformRanges \union {NoRange}, new \in Texts : Commit(i, given, new, h)
       \/ \E key \in {"backspace", "delete"} : Erase(i, key, h)
       \/ Submit(i, h)
  \/ Injected(h)
  \/ Event(h)
  \/ Mouse(h)
  \/ Bridge(h)
  \/ Marker(h)
  \/ Elsewhere(h)

Next ==
  \/ \E i \in Inputs : Editing(i)
  \/ \E h \in Outcomes : Dispatching(h)
  \/ Paint
  \/ Reopen

Spec == Init /\ [][Next]_vars

\* The window system delivers a frame that was asked for.
FairSpec == Spec /\ WF_vars(ScheduledPaint)

-----------------------------------------------------------------------------
TypeOK ==
  /\ tree \in SUBSET Inputs /\ painted \in SUBSET Inputs
  /\ model \in [Inputs -> Model \union {NoModel}]
  /\ mirror \in [Inputs -> Entry \union {NoEntry}]
  /\ queue \in [Inputs -> Seq(Texts)]
  /\ dirty \in BOOLEAN /\ repaint \in BOOLEAN /\ slips \in SUBSET Slips
  /\ \A i \in painted : model[i] # NoModel
  /\ \A i \in Inputs : model[i] # NoModel => mirror[i] # NoEntry

Live == {i \in Inputs : model[i] # NoModel}

OnBoundaries(r, s) == r[1] \in Boundaries(s) /\ r[2] \in Boundaries(s) /\ r[1] <= r[2]

\* Every range an edit may slice at lies on character boundaries of the content
\* it is about, in order, however IME edits, keys and queued writes interleave
\* (lib.rs 2821-2866, 2895-2911, 3073-3134); a slice elsewhere panics.
SlicesAreSafe ==
  \A i \in Live :
    /\ OnBoundaries(model[i].sel, model[i].content)
    /\ model[i].marked # NoRange => OnBoundaries(model[i].marked, model[i].content)

\* BUSY_COMPOSING is returned exactly while the widget has marked text: the
\* mirror's flag is never stale for a live model (lib.rs 2658-2663, 3430-3432).
GateIsExact == \A i \in Live : mirror[i].composing <=> model[i].marked # NoRange

\* With no write queued, a pull returns what the widget shows (lib.rs 2649-2658).
MirrorFresh == \A i \in Live : queue[i] = <<>> => mirror[i].text = model[i].content

\* A queued write to an input of the tree has a frame coming, or the dirty flag
\* still waits for a dispatch site to take it (lib.rs 2671-2674, 3441-3446);
\* unless the entry of another view took the flag (407-408), or a marker that
\* nobody heard brought the input into the tree (4413), since a frame was last
\* asked for.
WriteNotForgotten ==
  \A i \in tree : queue[i] # <<>> => repaint \/ dirty \/ slips # {}

\* A write whose frame is scheduled reaches its widget, or the input goes away.
ScheduledWriteApplied ==
  \A i \in Inputs :
    [](i \in tree /\ queue[i] # <<>> /\ repaint =>
         <>(i \notin tree \/ queue[i] = <<>>))

\* lib.rs 2671-2673: dispatch sites fold the dirty flag into their notify
\* decision, so that a write made by a handler always schedules its frame.
WriteSchedulesFrame == \A i \in tree : queue[i] # <<>> => repaint

\* RFC 0003 line 107: gpui_input_set_text does not break a composition; applying
\* a queued write leaves marked text marked.
CompositionSurvivesWrites ==
  [][\A i \in Live : model[i].marked # NoRange /\ queue[i] # <<>> /\ queue'[i] = <<>>
                       => model'[i].marked # NoRange]_vars

\* Where the dispatch sites miss that: a write that is accepted from a mouse
\* handler that reports no change (lib.rs 4278, 3441-3446), from the marker's
\* handler (4413), which may also bring an input with a queued write into the
\* tree, or from the handler of another view's entry (406-408).
MouseForgets(h) == Mouse(h) /\ ~h.changed /\ Accepts(mirror, h.write)
MarkerForgets(h) == Marker(h) /\ (Accepts(mirror, h.write) \/ h.built # tree)
ElsewhereForgets(h) == Elsewhere(h) /\ Accepts(mirror, h.write)

Forgets(h) == MouseForgets(h) \/ MarkerForgets(h) \/ ElsewhereForgets(h)
Recovers(h) == Injected(h) \/ Event(h) \/ \E i \in Inputs : Submit(i, h)

\* Every step but those three keeps each queued write of the tree its frame, and
\* the next submit, event or entry of the view gives a forgotten one its frame
\* back, unless WriteNotForgotten excuses it.
WritesKeepTheirFrame ==
  [][/\ WriteSchedulesFrame => WriteSchedulesFrame' \/ \E h \in Outcomes : Forgets(h)
     /\ slips = {} /\ (\E h \in Outcomes : Recovers(h)) => WriteSchedulesFrame']_vars

\* Where a composition can be broken, and only there: no write is ever queued
\* for an input that holds marked text once the handler is done, so the write
\* that breaks a composition was queued before it began (lib.rs 3430-3446).
NoWriteWhileComposing ==
  [][\A i \in Live : Len(queue'[i]) > Len(queue[i]) => model'[i].marked = NoRange]_vars

\* Whichever call site of mb_dispatch a handler runs at, a window whose tree it
\* swaps is owed a frame until one shows that tree (lib.rs 396-412, 2924-2935,
\* 3021-3026, 4088-4125, 4278, 4421-4450).  The marker (4413) is the one
\* exception: after it the swapped tree waits for the next frame.
Screen == INSTANCE Redraw WITH
  Nothing <- {}, tree <- tree, shown <- painted, owed <- repaint,
  silent <- "marker" \in slips, open <- TRUE

ImplementsRedraw == Screen!Spec
=============================================================================
