-------------------------- MODULE TextInputProofs --------------------------
(***************************************************************************)
(* Proofs about TextInput: for any inputs, texts and character widths, the *)
(* mirror that the pull ABI reads agrees with the models the IME edits, and *)
(* no queued write is left without a frame or the dirty flag.              *)
(*                                                                         *)
(* The argument about mirror and models never looks inside an edit: every  *)
(* step that changes a model also stores its image in the mirror, so what  *)
(* has to be shown is that steps which touch only one of the two preserve  *)
(* the agreement - a write accepted by a handler, and the prepaint that    *)
(* applies it.                                                             *)
(*                                                                         *)
(* The types, and that no edit slices inside of a character, need the      *)
(* arithmetic of offsets: the boundaries of a text that was spliced are    *)
(* those of its parts, shifted.                                            *)
(***************************************************************************)
EXTENDS TextInput, DataInduction

-----------------------------------------------------------------------------
\* The inputs an edit or a frame may find a model for.
Known == {i \in Inputs : i \in painted \/ model[i] # NoModel}

IsModel(m) == m = [content |-> m.content, sel |-> m.sel, marked |-> m.marked]

Shape ==
  /\ tree \in SUBSET Inputs /\ painted \in SUBSET Inputs
  /\ model = [i \in Inputs |-> model[i]]
  /\ mirror = [i \in Inputs |-> mirror[i]]
  /\ queue \in [Inputs -> Seq(Texts)]
  /\ dirty \in BOOLEAN /\ repaint \in BOOLEAN /\ slips \in SUBSET Slips
  /\ \A i \in Known : IsModel(model[i])

GateKnown == \A i \in Known : mirror[i].composing <=> model[i].marked # NoRange
FreshKnown == \A i \in Known : queue[i] = <<>> => mirror[i].text = model[i].content

MirrorInv == Shape /\ GateKnown /\ FreshKnown /\ WriteNotForgotten

\* What a call site makes of the result and of the flag: it folds them in one of
\* three ways, refreshes the window anyway, or asks for nothing.
Folds(mir, h) ==
  /\ \/ FoldOr(DirtyAfter(mir, h), h.changed)
     \/ FoldMax(DirtyAfter(mir, h), h.changed)
     \/ FoldNone(DirtyAfter(mir, h), h.changed)
  /\ Slipping({})

Refreshes(mir, h) == repaint' = TRUE /\ dirty' = DirtyAfter(mir, h) /\ Slipping({})

Ignores(mir, h) ==
  /\ repaint' = repaint /\ dirty' = DirtyAfter(mir, h)
  /\ Slipping(IF h.built = tree THEN {} ELSE {"marker"})

Diverts(mir, h) ==
  /\ h.built = tree
  /\ repaint' = repaint /\ dirty' = (DirtyAfter(mir, h) /\ h.changed)
  /\ Slipping(IF dirty' = DirtyAfter(mir, h) THEN {} ELSE {"elsewhere"})

Sited(mir, h) == Folds(mir, h) \/ Refreshes(mir, h) \/ Ignores(mir, h) \/ Diverts(mir, h)

\* The dispatches that are not an edit of an input.
Plain(h) ==
  \/ \E i \in Inputs : Submit(i, h)
  \/ Injected(h) \/ Event(h) \/ Mouse(h) \/ Bridge(h) \/ Marker(h) \/ Elsewhere(h)

LEMMA PlainIsSited ==
  ASSUME NEW h \in Outcomes, Plain(h)
  PROVE  HandlerRuns(mirror, h) /\ UNCHANGED <<painted, model>> /\ Sited(mirror, h)
<1>1. ASSUME NEW i \in Inputs, Submit(i, h)
      PROVE  HandlerRuns(mirror, h) /\ UNCHANGED <<painted, model>> /\ Folds(mirror, h)
  BY <1>1 DEF Submit, Folds
<1>2. CASE Injected(h) \/ Event(h) \/ Mouse(h)
  BY <1>2 DEF Injected, Event, Mouse, Folds, Sited
<1>3. CASE Bridge(h)
  BY <1>3 DEF Bridge, Refreshes, Sited
<1>4. CASE Marker(h)
  BY <1>4 DEF Marker, Ignores, Sited
<1>5. CASE Elsewhere(h)
  BY <1>5 DEF Elsewhere, Diverts, Sited
<1> QED BY <1>1, <1>2, <1>3, <1>4, <1>5 DEF Plain, Sited

\* The flags stay flags at every site.
LEMMA SitedTyped ==
  ASSUME dirty \in BOOLEAN, repaint \in BOOLEAN, slips \in SUBSET Slips,
         NEW STATE mir, NEW h \in Outcomes, Sited(mir, h)
  PROVE  dirty' \in BOOLEAN /\ repaint' \in BOOLEAN /\ slips' \in SUBSET Slips
<1>1. h.changed \in BOOLEAN /\ DirtyAfter(mir, h) \in BOOLEAN
  BY DEF Outcomes, DirtyAfter
<1>2. dirty' \in BOOLEAN /\ repaint' \in BOOLEAN
  BY <1>1 DEF Sited, Folds, FoldOr, FoldMax, FoldNone, Refreshes, Ignores, Diverts
<1>3. \E by \in SUBSET Slips : Slipping(by)
  BY DEF Sited, Folds, Refreshes, Ignores, Diverts, Slips
<1> QED BY <1>2, <1>3 DEF Slipping

-----------------------------------------------------------------------------
\* A handler that starts with the mirror in agreement with the models the step
\* leaves behind, keeps it so: a write it makes is refused while composing, and
\* one that is accepted is queued.
LEMMA HandlerKeepsAgreement ==
  ASSUME MirrorInv, NEW STATE mir, mir = [i \in Inputs |-> mir[i]],
         NEW h \in Outcomes, HandlerRuns(mir, h), UNCHANGED painted,
         model' = [i \in Inputs |-> model'[i]],
         \A i \in Known' : /\ IsModel(model'[i])
                           /\ mir[i].composing <=> model'[i].marked # NoRange
                           /\ queue[i] = <<>> => mir[i].text = model'[i].content
  PROVE  /\ tree' \in SUBSET Inputs
         /\ mirror' = [i \in Inputs |-> mirror'[i]]
         /\ queue' \in [Inputs -> Seq(Texts)]
         /\ GateKnown' /\ FreshKnown'
<1> DEFINE w == h.write
<1>1. tree' \in SUBSET Inputs
  BY DEF HandlerRuns, Outcomes
<1>2. CASE ~Accepts(mir, w)
  <2>1. mirror' = mir /\ queue' = queue
    BY <1>2 DEF HandlerRuns
  <2>2. GateKnown' /\ FreshKnown'
    BY <2>1 DEF GateKnown, FreshKnown
  <2> QED BY <1>1, <2>1, <2>2 DEF MirrorInv, Shape
<1>3. CASE Accepts(mir, w)
  <2>1. w \in Writes
    BY <1>3 DEF Accepts, Outcomes
  <2>2. w.input \in Inputs /\ w.text \in Texts
    BY <2>1 DEF Writes
  <2>3. mirror' = [mir EXCEPT ![w.input] = [text |-> w.text, composing |-> FALSE]]
    BY <1>3 DEF HandlerRuns
  <2>4. queue' = [queue EXCEPT ![w.input] = Append(@, w.text)]
    BY <1>3 DEF HandlerRuns
  <2>5. queue \in [Inputs -> Seq(Texts)]
    BY DEF MirrorInv, Shape
  <2>6. queue' \in [Inputs -> Seq(Texts)] /\ queue'[w.input] # <<>>
    <3>1. queue[w.input] \in Seq(Texts)
      BY <2>2, <2>5
    <3>2. /\ Append(queue[w.input], w.text) \in Seq(Texts)
          /\ Append(queue[w.input], w.text) # <<>>
      BY <2>2, <3>1
    <3> QED BY <2>2, <2>4, <2>5, <3>2
  <2>7. mirror' = [i \in Inputs |-> mirror'[i]]
    BY <2>2, <2>3
  <2>8. \A i \in Inputs : i # w.input => mirror'[i] = mir[i] /\ queue'[i] = queue[i]
    BY <2>2, <2>3, <2>4, <2>5
  <2>9. mirror'[w.input].composing = FALSE
    BY <2>2, <2>3
  <2>10. ~mir[w.input].composing
    BY <1>3 DEF Accepts
  <2>11. Known' \subseteq Inputs
    BY DEF Known
  <2>12. GateKnown'
    <3> SUFFICES ASSUME NEW i \in Known'
                 PROVE  mirror'[i].composing <=> model'[i].marked # NoRange
      BY DEF GateKnown
    <3> QED BY <2>8, <2>9, <2>10, <2>11
  <2>13. FreshKnown'
    <3> SUFFICES ASSUME NEW i \in Known', queue'[i] = <<>>
                 PROVE  mirror'[i].text = model'[i].content
      BY DEF FreshKnown
    <3> QED BY <2>6, <2>8, <2>11
  <2> QED BY <1>1, <2>6, <2>7, <2>12, <2>13
<1> QED BY <1>2, <1>3

\* Whether a site takes the dirty flag, leaves it or ignores it, a queued write
\* of the tree keeps its frame or the flag, or the site slipped.
LEMMA HandlerKeepsWrites ==
  ASSUME MirrorInv, NEW STATE mir, NEW h \in Outcomes, HandlerRuns(mir, h), Sited(mir, h)
  PROVE  WriteNotForgotten'
<1>1. /\ h.changed \in BOOLEAN /\ dirty \in BOOLEAN /\ repaint \in BOOLEAN
      /\ DirtyAfter(mir, h) \in BOOLEAN /\ slips \in SUBSET Slips
  BY DEF Outcomes, MirrorInv, Shape, DirtyAfter
<1>2. dirty' \in BOOLEAN /\ repaint' \in BOOLEAN
  BY <1>1, SitedTyped
<1>3. SUFFICES ASSUME NEW i \in tree', queue'[i] # <<>>, ~repaint', ~dirty'
               PROVE  slips' # {}
  BY DEF WriteNotForgotten
<1>4. \E by \in SUBSET Slips : slips' = slips \union by
  BY <1>3 DEF Sited, Folds, Refreshes, Ignores, Diverts, Slipping, Slips
<1>5. CASE Accepts(mir, h.write)
  <2>1. DirtyAfter(mir, h) = TRUE
    BY <1>1, <1>5 DEF DirtyAfter
  <2>2. Diverts(mir, h)
    BY <1>1, <1>3, <2>1 DEF Sited, Folds, FoldOr, FoldMax, FoldNone, Refreshes, Ignores
  <2>3. slips' = slips \union {"elsewhere"}
    BY <1>3, <2>1, <2>2 DEF Diverts, Slipping
  <2> QED BY <2>3
<1>6. CASE tree' # tree
  <2>1. h.built # tree /\ h.changed
    BY <1>6 DEF HandlerRuns
  <2>2. Ignores(mir, h)
    BY <1>1, <1>3, <2>1 DEF Sited, Folds, FoldOr, FoldMax, FoldNone, Refreshes, Diverts
  <2>3. slips' = slips \union {"marker"}
    BY <1>3, <2>1, <2>2 DEF Ignores, Slipping
  <2> QED BY <2>3
<1>7. CASE ~Accepts(mir, h.write) /\ tree' = tree
  <2>1. queue' = queue
    BY <1>7 DEF HandlerRuns
  <2>2. repaint \/ dirty \/ slips # {}
    BY <1>3, <1>7, <2>1 DEF MirrorInv, WriteNotForgotten
  <2>3. CASE slips # {}
    BY <1>4, <2>3
  <2>4. CASE repaint
    BY <1>1, <1>3, <2>4
       DEF Sited, Folds, FoldOr, FoldMax, FoldNone, Refreshes, Ignores, Diverts
  <2>5. CASE dirty /\ ~repaint
    <3>1. DirtyAfter(mir, h) = TRUE
      BY <1>1, <2>5 DEF DirtyAfter
    <3>2. Diverts(mir, h)
      BY <1>1, <1>3, <3>1 DEF Sited, Folds, FoldOr, FoldMax, FoldNone, Refreshes, Ignores
    <3>3. slips' = slips \union {"elsewhere"}
      BY <1>3, <3>1, <3>2 DEF Diverts, Slipping
    <3> QED BY <3>3
  <2> QED BY <1>1, <2>2, <2>3, <2>4, <2>5
<1> QED BY <1>5, <1>6, <1>7

\* An edit of input i that stores m and dispatches EVENT_INPUT_CHANGED.
LEMMA EditKeepsInv ==
  ASSUME MirrorInv, NEW i \in painted, NEW STATE m, IsModel(m), NEW h \in Outcomes,
         Store(i, m), EmitChanged([mirror EXCEPT ![i] = Synced(m)], h), UNCHANGED painted
  PROVE  MirrorInv'
<1> DEFINE mir == [mirror EXCEPT ![i] = Synced(m)]
<1>0. i \in Inputs
  BY DEF MirrorInv, Shape
<1>1. /\ model' = [j \in Inputs |-> model'[j]]
      /\ model'[i] = m
      /\ \A j \in Inputs : j # i => model'[j] = model[j]
  BY <1>0 DEF Store, MirrorInv, Shape
<1>2. /\ mir = [j \in Inputs |-> mir[j]]
      /\ mir[i] = Synced(m)
      /\ \A j \in Inputs : j # i => mir[j] = mirror[j]
  BY <1>0 DEF MirrorInv, Shape
<1>3. \A j \in Known' : j \in Inputs /\ (j = i \/ j \in Known)
  BY <1>1 DEF Known
<1>4. \A j \in Known' : IsModel(model'[j])
  BY <1>1, <1>3 DEF MirrorInv, Shape
<1>5. \A j \in Known' : /\ mir[j].composing <=> model'[j].marked # NoRange
                        /\ queue[j] = <<>> => mir[j].text = model'[j].content
  <2>1. Synced(m).composing = (m.marked # NoRange) /\ Synced(m).text = m.content
    BY DEF Synced
  <2> QED BY <1>1, <1>2, <1>3, <2>1 DEF MirrorInv, GateKnown, FreshKnown
<1>6. HandlerRuns(mir, h)
  BY DEF EmitChanged
<1> HIDE DEF mir
<1>7. /\ tree' \in SUBSET Inputs
      /\ mirror' = [j \in Inputs |-> mirror'[j]]
      /\ queue' \in [Inputs -> Seq(Texts)]
      /\ GateKnown' /\ FreshKnown'
  BY <1>1, <1>2, <1>4, <1>5, <1>6, HandlerKeepsAgreement
<1>8. repaint' = TRUE /\ dirty' \in BOOLEAN /\ slips' = {}
  BY DEF EmitChanged, Slipping
<1>9. WriteNotForgotten'
  BY <1>8 DEF WriteNotForgotten
<1> QED BY <1>1, <1>4, <1>7, <1>8, <1>9 DEF MirrorInv, Shape

\* A dispatch that is not an edit of an input.
LEMMA DispatchKeepsInv ==
  ASSUME MirrorInv, NEW h \in Outcomes, Plain(h)
  PROVE  MirrorInv'
<1>0. HandlerRuns(mirror, h) /\ UNCHANGED <<painted, model>> /\ Sited(mirror, h)
  BY PlainIsSited
<1>1. Known' = Known
  BY <1>0 DEF Known
<1>2. mirror = [j \in Inputs |-> mirror[j]] /\ model' = [j \in Inputs |-> model'[j]]
  BY <1>0 DEF MirrorInv, Shape
<1>3. \A j \in Known' : /\ IsModel(model'[j])
                        /\ mirror[j].composing <=> model'[j].marked # NoRange
                        /\ queue[j] = <<>> => mirror[j].text = model'[j].content
  BY <1>0, <1>1 DEF MirrorInv, Shape, GateKnown, FreshKnown
<1>4. /\ tree' \in SUBSET Inputs
      /\ mirror' = [j \in Inputs |-> mirror'[j]]
      /\ queue' \in [Inputs -> Seq(Texts)]
      /\ GateKnown' /\ FreshKnown'
  BY <1>0, <1>2, <1>3, HandlerKeepsAgreement
<1>5. dirty' \in BOOLEAN /\ repaint' \in BOOLEAN /\ slips' \in SUBSET Slips
  BY <1>0, SitedTyped DEF MirrorInv, Shape
<1>6. WriteNotForgotten'
  BY <1>0, HandlerKeepsWrites
<1> QED BY <1>0, <1>2, <1>3, <1>4, <1>5, <1>6 DEF MirrorInv, Shape

\* No dispatch, and at most a frame that is asked for.
Quiet ==
  \/ UNCHANGED <<repaint, slips>>
  \/ repaint' = TRUE /\ slips' = {}

\* A step that stores m as input i's model with its image in the mirror, and
\* leaves the queue alone.
LEMMA SyncedStoreKeepsInv ==
  ASSUME MirrorInv, NEW i \in painted, NEW STATE m, IsModel(m), Store(i, m),
         mirror' = [mirror EXCEPT ![i] = Synced(m)],
         UNCHANGED <<tree, painted, queue, dirty>>, Quiet
  PROVE  MirrorInv'
<1>0. i \in Inputs
  BY DEF MirrorInv, Shape
<1>1. /\ model' = [j \in Inputs |-> model'[j]] /\ mirror' = [j \in Inputs |-> mirror'[j]]
      /\ model'[i] = m /\ mirror'[i] = Synced(m)
      /\ \A j \in Inputs : j # i => model'[j] = model[j] /\ mirror'[j] = mirror[j]
  BY <1>0 DEF Store, MirrorInv, Shape
<1>2. \A j \in Known' : j \in Inputs /\ (j = i \/ j \in Known)
  BY <1>1 DEF Known
<1>3. Synced(m).composing = (m.marked # NoRange) /\ Synced(m).text = m.content
  BY DEF Synced
<1>4. GateKnown' /\ FreshKnown'
  BY <1>1, <1>2, <1>3 DEF MirrorInv, GateKnown, FreshKnown
<1>5. \A j \in Known' : IsModel(model'[j])
  BY <1>1, <1>2 DEF MirrorInv, Shape
<1>6. WriteNotForgotten' /\ repaint' \in BOOLEAN /\ slips' \in SUBSET Slips
  BY DEF MirrorInv, Shape, WriteNotForgotten, Quiet
<1> QED BY <1>1, <1>4, <1>5, <1>6 DEF MirrorInv, Shape

LEMMA PaintKeepsInv ==
  ASSUME MirrorInv, Paint
  PROVE  MirrorInv'
<1>1. /\ model' = [i \in Inputs |-> model'[i]] /\ mirror' = [i \in Inputs |-> mirror'[i]]
      /\ tree' \in SUBSET Inputs /\ painted' \in SUBSET Inputs
      /\ dirty' \in BOOLEAN /\ repaint' \in BOOLEAN /\ slips' \in SUBSET Slips
  BY DEF Paint, MirrorInv, Shape
<1>2. queue' \in [Inputs -> Seq(Texts)]
  BY DEF Paint, MirrorInv, Shape
<1>3. \A i \in Inputs : i \in tree =>
        /\ IsModel(model'[i])
        /\ mirror'[i].composing <=> model'[i].marked # NoRange
        /\ mirror'[i].text = model'[i].content
  <2> SUFFICES ASSUME NEW i \in Inputs, i \in tree
               PROVE  /\ IsModel(model'[i])
                      /\ mirror'[i].composing <=> model'[i].marked # NoRange
                      /\ mirror'[i].text = model'[i].content
    OBVIOUS
  <2>1. model'[i] = Prepainted(i)
    BY DEF Paint
  <2>2. CASE queue[i] = <<>> /\ model[i] # NoModel
    <3>1. model'[i] = model[i] /\ mirror'[i] = mirror[i]
      BY <2>1, <2>2 DEF Paint, Prepainted, Rendered
    <3>2. i \in Known
      BY <2>2 DEF Known
    <3> QED BY <2>2, <3>1, <3>2 DEF MirrorInv, Shape, GateKnown, FreshKnown
  <2>3. CASE queue[i] # <<>> \/ model[i] = NoModel
    <3>1. mirror'[i] = Synced(model'[i])
      BY <2>1, <2>3 DEF Paint
    <3>2. IsModel(model'[i])
      BY <2>1, <2>3 DEF Prepainted, Rendered, ApplySetText, Fresh, IsModel
    <3>3. /\ Synced(model'[i]).composing = (model'[i].marked # NoRange)
          /\ Synced(model'[i]).text = model'[i].content
      BY DEF Synced
    <3> QED BY <3>1, <3>2, <3>3
  <2> QED BY <2>2, <2>3
<1>4. \A i \in Known' : i \in Inputs /\ (i \in tree \/ i \in Known)
  <2> SUFFICES ASSUME NEW i \in Known', i \notin tree
               PROVE  i \in Inputs /\ i \in Known
    BY DEF Known
  <2> QED BY DEF Known, Paint
<1>5. \A i \in Inputs : i \notin tree =>
        model'[i] = model[i] /\ mirror'[i] = mirror[i] /\ queue'[i] = queue[i]
  BY DEF Paint
<1>6. (\A i \in Known' : IsModel(model'[i])) /\ GateKnown' /\ FreshKnown'
  BY <1>3, <1>4, <1>5 DEF MirrorInv, Shape, GateKnown, FreshKnown
<1>7. WriteNotForgotten'
  <2>1. \A i \in tree' : queue'[i] = <<>>
    BY DEF Paint, MirrorInv, Shape
  <2> QED BY <2>1 DEF WriteNotForgotten
<1> QED BY <1>1, <1>2, <1>6, <1>7 DEF MirrorInv, Shape

LEMMA ReopenKeepsInv ==
  ASSUME MirrorInv, Reopen
  PROVE  MirrorInv'
<1>1. Known' = {}
  BY DEF Known, Reopen
<1> QED BY <1>1 DEF MirrorInv, Shape, GateKnown, FreshKnown, WriteNotForgotten, Reopen

-----------------------------------------------------------------------------
LEMMA EditingKeepsInv ==
  ASSUME MirrorInv, NEW i \in Inputs, Editing(i)
  PROVE  MirrorInv'
<1>1. ASSUME NEW within \in PlatformRanges, NEW given \in PlatformRanges \union {NoRange},
             NEW new \in Texts, Preedit(i, given, new, within)
      PROVE  MirrorInv'
  <2> DEFINE m == ApplyReplaceAndMark(model[i], TargetRange(model[i], given), new,
                                      RangeFromUtf16(new, within))
  <2>1. IsModel(m)
    BY DEF IsModel, ApplyReplaceAndMark
  <2>2. /\ i \in painted /\ Store(i, m) /\ mirror' = [mirror EXCEPT ![i] = Synced(m)]
        /\ UNCHANGED <<tree, painted, queue, dirty>> /\ Quiet
    BY <1>1 DEF Preedit, Slipping, Quiet
  <2> HIDE DEF m
  <2> QED BY <2>1, <2>2, SyncedStoreKeepsInv
<1>2. ASSUME Unmark(i)
      PROVE  MirrorInv'
  <2> DEFINE m == [model[i] EXCEPT !.marked = NoRange]
  <2>1. IsModel(model[i])
    BY <1>2 DEF Unmark, Known, MirrorInv, Shape
  <2>2. IsModel(m)
    BY <2>1 DEF IsModel
  <2>3. /\ i \in painted /\ Store(i, m) /\ mirror' = [mirror EXCEPT ![i] = Synced(m)]
        /\ UNCHANGED <<tree, painted, queue, dirty>> /\ Quiet
    BY <1>2 DEF Unmark, Quiet
  <2> HIDE DEF m
  <2> QED BY <2>2, <2>3, SyncedStoreKeepsInv
<1>3. ASSUME NEW key \in {"left", "right", "home", "end"}, MoveCaret(i, key)
      PROVE  MirrorInv'
  <2> DEFINE m == CaretAt(model[i], MovedTo(model[i], key))
  <2>1. i \in painted /\ IsModel(model[i])
    BY <1>3 DEF MoveCaret, Known, MirrorInv, Shape
  <2>2. IsModel(m) /\ m.marked = model[i].marked /\ m.content = model[i].content
    BY <2>1 DEF IsModel, CaretAt
  <2>3. /\ Store(i, m) /\ repaint' = TRUE /\ slips' = {}
        /\ UNCHANGED <<tree, painted, mirror, queue, dirty>>
    BY <1>3 DEF MoveCaret, Slipping
  <2> HIDE DEF m
  <2>4. /\ model' = [j \in Inputs |-> model'[j]] /\ model'[i] = m
        /\ \A j \in Inputs : j # i => model'[j] = model[j]
    BY <2>3 DEF Store, MirrorInv, Shape
  <2>5. i \in Known /\ \A j \in Known' : j \in Inputs /\ (j = i \/ j \in Known)
    BY <2>1, <2>3, <2>4 DEF Known
  <2>6. GateKnown' /\ FreshKnown'
    BY <2>2, <2>3, <2>4, <2>5 DEF MirrorInv, GateKnown, FreshKnown
  <2>7. \A j \in Known' : IsModel(model'[j])
    BY <2>2, <2>4, <2>5 DEF MirrorInv, Shape
  <2>8. WriteNotForgotten'
    BY <2>3 DEF WriteNotForgotten
  <2> QED BY <2>3, <2>4, <2>6, <2>7, <2>8 DEF MirrorInv, Shape
<1> QED BY <1>1, <1>2, <1>3 DEF Editing

LEMMA DispatchingKeepsInv ==
  ASSUME MirrorInv, NEW h \in Outcomes, Dispatching(h)
  PROVE  MirrorInv'
<1>1. ASSUME NEW i \in Inputs, NEW given \in PlatformRanges \union {NoRange},
             NEW new \in Texts, Commit(i, given, new, h)
      PROVE  MirrorInv'
  <2> DEFINE m == ApplyReplace(model[i], TargetRange(model[i], given), new)
  <2>1. IsModel(m)
    BY DEF IsModel, ApplyReplace
  <2>2. /\ i \in painted /\ Store(i, m) /\ UNCHANGED painted
        /\ EmitChanged([mirror EXCEPT ![i] = Synced(m)], h)
    BY <1>1 DEF Commit
  <2> HIDE DEF m
  <2> QED BY <2>1, <2>2, EditKeepsInv
<1>2. ASSUME NEW i \in Inputs, NEW key \in {"backspace", "delete"}, Erase(i, key, h)
      PROVE  MirrorInv'
  <2> DEFINE r == Erased(model[i], key)
             m == ApplyReplace(model[i], r, <<>>)
  <2>1. CASE r[1] = r[2]
    <3>1. UNCHANGED vars
      BY <1>2, <2>1 DEF Erase, vars
    <3> QED BY <3>1 DEF MirrorInv, Shape, GateKnown, FreshKnown, WriteNotForgotten, Known, vars
  <2>2. CASE r[1] # r[2]
    <3>1. IsModel(m)
      BY DEF IsModel, ApplyReplace
    <3>2. /\ i \in painted /\ Store(i, m) /\ UNCHANGED painted
          /\ EmitChanged([mirror EXCEPT ![i] = Synced(m)], h)
      BY <1>2, <2>2 DEF Erase
    <3> HIDE DEF m
    <3> QED BY <3>1, <3>2, EditKeepsInv
  <2> QED BY <2>1, <2>2
<1>3. CASE Plain(h)
  BY <1>3, DispatchKeepsInv
<1> QED BY <1>1, <1>2, <1>3 DEF Dispatching, Plain

LEMMA StepKeepsInv == MirrorInv /\ [Next]_vars => MirrorInv'
<1> SUFFICES ASSUME MirrorInv, [Next]_vars
             PROVE  MirrorInv'
  OBVIOUS
<1>1. CASE \E i \in Inputs : Editing(i)
  BY <1>1, EditingKeepsInv
<1>2. CASE \E h \in Outcomes : Dispatching(h)
  BY <1>2, DispatchingKeepsInv
<1>3. CASE Paint
  BY <1>3, PaintKeepsInv
<1>4. CASE Reopen
  BY <1>4, ReopenKeepsInv
<1>5. CASE UNCHANGED vars
  BY <1>5 DEF MirrorInv, Shape, GateKnown, FreshKnown, WriteNotForgotten, Known, vars
<1> QED BY <1>1, <1>2, <1>3, <1>4, <1>5 DEF Next

LEMMA InitInv == Init => MirrorInv
<1> SUFFICES ASSUME Init
             PROVE  MirrorInv
  OBVIOUS
<1>1. Known = {}
  BY DEF Init, Known
<1>2. queue \in [Inputs -> Seq(Texts)]
  <2>1. <<>> \in Seq(Texts)
    OBVIOUS
  <2> QED BY <2>1 DEF Init
<1>3. Shape
  BY <1>1, <1>2 DEF Init, Shape
<1>4. GateKnown /\ FreshKnown
  BY <1>1 DEF GateKnown, FreshKnown
<1>5. WriteNotForgotten
  BY DEF Init, WriteNotForgotten
<1> QED BY <1>3, <1>4, <1>5 DEF MirrorInv

\* gpui_input_set_text returns BUSY_COMPOSING exactly while the widget has
\* marked text, for every input and text (lib.rs 2658-2663, 3430-3432).
THEOREM BusyIsExact == Spec => []GateIsExact
<1>1. MirrorInv => GateIsExact
  BY DEF MirrorInv, GateKnown, GateIsExact, Live, Known
<1> QED BY InitInv, StepKeepsInv, <1>1, PTL DEF Spec

\* Outside a pending write the pull ABI reads what the widget holds
\* (lib.rs 2640-2658, 2910-2917).
THEOREM PullsAreFresh == Spec => []MirrorFresh
<1>1. MirrorInv => MirrorFresh
  BY DEF MirrorInv, FreshKnown, MirrorFresh, Live, Known
<1> QED BY InitInv, StepKeepsInv, <1>1, PTL DEF Spec

\* No interleaving of frames, edits, windows and handlers leaves a queued write
\* to an input of the tree with neither a frame nor the dirty flag
\* (lib.rs 2671-2674, 3441-3446).
THEOREM WritesAreNotForgotten == Spec => []WriteNotForgotten
<1>1. MirrorInv => WriteNotForgotten
  BY DEF MirrorInv
<1> QED BY InitInv, StepKeepsInv, <1>1, PTL DEF Spec

-----------------------------------------------------------------------------
(* Boundaries.                                                             *)

LEMMA CharBytes ==
  ASSUME InputAssumption
  PROVE  /\ Utf8 \in [Chars -> Nat \ {0}] /\ Utf8 \in [Chars -> Nat]
         /\ Utf16 \in [Chars -> Nat]
<1>1. Utf8 \in [Chars -> 1 .. 4] /\ Utf16 \in [Chars -> 1 .. 2]
  BY DEF InputAssumption
<1>2. 1 .. 4 \subseteq Nat \ {0} /\ 1 .. 2 \subseteq Nat
  OBVIOUS
<1> QED BY <1>1, <1>2

\* The boundaries of a text, one for each number of characters before it.
Grows(at, n) ==
  /\ at \in [0 .. n -> Nat]
  /\ at[0] = 0
  /\ \A j, k \in 0 .. n : j <= k => at[j] <= at[k]

LEMMA OffsetsGrow ==
  ASSUME InputAssumption, NEW s \in Seq(Chars)
  PROVE  /\ Grows(Offset(Utf8, s), Len(s)) /\ Grows(Offset(Utf16, s), Len(s))
         /\ \A j, k \in 0 .. Len(s) : j < k => Offset(Utf8, s)[j] < Offset(Utf8, s)[k]
<1>1. Len(s) \in Nat
  OBVIOUS
<1>2. ASSUME NEW f \in [Chars -> Nat]
      PROVE  Grows(SumTo(f, s), Len(s))
  <2>1. SumTo(f, s) \in [0 .. Len(s) -> Nat] /\ SumTo(f, s)[0] = 0
    BY SumDef DEF AddsUp
  <2>2. ASSUME NEW j \in 0 .. Len(s), NEW k \in 0 .. Len(s), j <= k
        PROVE  SumTo(f, s)[j] <= SumTo(f, s)[k]
    <3>1. k \in j .. Len(s)
      BY <1>1, <2>2
    <3> QED BY <3>1, SumGrows
  <2> QED BY <2>1, <2>2 DEF Grows
<1>3. ASSUME NEW j \in 0 .. Len(s), NEW k \in 0 .. Len(s), j < k
      PROVE  SumTo(Utf8, s)[j] < SumTo(Utf8, s)[k]
  <2>1. k \in j + 1 .. Len(s)
    BY <1>1, <1>3
  <2> QED BY <2>1, CharBytes, SumGrowsStrictly
<1> QED BY <1>2, <1>3, CharBytes DEF Offset

LEMMA BoundariesAre ==
  ASSUME InputAssumption, NEW s \in Seq(Chars)
  PROVE  /\ Boundaries(s) \subseteq Nat
         /\ 0 \in Boundaries(s) /\ Bytes(s) \in Boundaries(s)
         /\ \A b \in Boundaries(s) : b <= Bytes(s)
<1>1. Len(s) \in Nat /\ 0 \in 0 .. Len(s) /\ Len(s) \in 0 .. Len(s)
  OBVIOUS
<1>2. Grows(Offset(Utf8, s), Len(s))
  BY OffsetsGrow
<1>3. ASSUME NEW b \in Boundaries(s)
      PROVE  b \in Nat /\ b <= Bytes(s)
  <2>1. PICK k \in 0 .. Len(s) : b = Offset(Utf8, s)[k]
    BY DEF Boundaries
  <2>2. k <= Len(s)
    BY <1>1
  <2> QED BY <1>1, <1>2, <2>1, <2>2 DEF Grows, Bytes
<1> QED BY <1>1, <1>2, <1>3 DEF Grows, Boundaries, Bytes

LEMMA CutsAre ==
  ASSUME NEW s \in Seq(Chars), NEW b \in Boundaries(s)
  PROVE  CharsBefore(s, b) \in 0 .. Len(s) /\ Offset(Utf8, s)[CharsBefore(s, b)] = b
BY DEF Boundaries, CharsBefore

\* The first characters of a text have the offsets they had in it.
LEMMA OffsetsOfFirst ==
  ASSUME InputAssumption, NEW s \in Seq(Chars), NEW i \in 0 .. Len(s)
  PROVE  /\ SubSeq(s, 1, i) \in Seq(Chars) /\ Len(SubSeq(s, 1, i)) = i
         /\ Offset(Utf8, SubSeq(s, 1, i))[i] = Offset(Utf8, s)[i]
<1> DEFINE p == SubSeq(s, 1, i)
           R == {k \in 0 .. i : SumTo(Utf8, p)[k] = SumTo(Utf8, s)[k]}
<1>1. Len(s) \in Nat /\ i \in Nat
  OBVIOUS
<1>2. p \in Seq(Chars) /\ Len(p) = i /\ \A k \in 1 .. i : p[k] = s[k]
  OBVIOUS
<1> HIDE DEF p
<1>3. AddsUp(Utf8, p, SumTo(Utf8, p)) /\ AddsUp(Utf8, s, SumTo(Utf8, s))
  BY <1>2, CharBytes, SumDef
<1>4. 0 \in R
  BY <1>1, <1>3 DEF AddsUp
<1>5. ASSUME NEW k \in 0 .. i - 1, k \in R PROVE k + 1 \in R
  <2>1. k + 1 \in 1 .. i /\ k + 1 \in 1 .. Len(s) /\ (k + 1) - 1 = k /\ k + 1 \in 0 .. i
    BY <1>1
  <2>2. SumTo(Utf8, p)[k + 1] = SumTo(Utf8, p)[k] + Utf8[p[k + 1]]
    BY <1>2, <1>3, <2>1 DEF AddsUp
  <2>3. SumTo(Utf8, s)[k + 1] = SumTo(Utf8, s)[k] + Utf8[s[k + 1]]
    BY <1>3, <2>1 DEF AddsUp
  <2> QED BY <1>2, <1>5, <2>1, <2>2, <2>3
<1> HIDE DEF R
<1>6. \A k \in 0 .. i : k \in R
  BY <1>1, <1>4, <1>5, UpTo
<1>7. i \in R
  BY <1>1, <1>6
<1> QED BY <1>2, <1>7 DEF R, Offset, p

\* What is spliced in brings its boundaries with it.
LEMMA SpliceBoundaries ==
  ASSUME InputAssumption, NEW s \in Seq(Chars), NEW new \in Seq(Chars), NEW r,
         OnBoundaries(r, s)
  PROVE  /\ Splice(s, r, new) \in Seq(Chars)
         /\ \A b \in Boundaries(new) : r[1] + b \in Boundaries(Splice(s, r, new))
<1> DEFINE i == CharsBefore(s, r[1])
           j == CharsBefore(s, r[2])
           pre == SubSeq(s, 1, i)
           post == SubSeq(s, j + 1, Len(s))
           both == pre \o new
           all == both \o post
<1>1. /\ Len(s) \in Nat /\ Len(new) \in Nat
      /\ i \in 0 .. Len(s) /\ j \in 0 .. Len(s) /\ Offset(Utf8, s)[i] = r[1]
  BY CutsAre DEF OnBoundaries
<1>2. pre \in Seq(Chars) /\ Len(pre) = i /\ Offset(Utf8, pre)[i] = r[1]
  BY <1>1, OffsetsOfFirst
<1>3. post \in Seq(Chars)
  BY <1>1
<1>4. Splice(s, r, new) = all
  BY DEF Splice
<1> HIDE DEF i, j, pre, post
<1>0. Utf8 \in [Chars -> Nat]
  BY CharBytes
<1>5. both \in Seq(Chars) /\ Len(both) = i + Len(new)
  BY <1>1, <1>2, ConcatProperties
<1>6. all \in Seq(Chars) /\ Len(all) = Len(both) + Len(post) /\ Len(post) \in Nat
  BY <1>3, <1>5
<1>7. ASSUME NEW b \in Boundaries(new)
      PROVE  r[1] + b \in Boundaries(all)
  <2>1. PICK k \in 0 .. Len(new) : b = SumTo(Utf8, new)[k]
    BY DEF Boundaries, Offset
  <2>5. Continues(Utf8, pre, new)
    BY <1>0, <1>2, SumConcat
  <2>2. SumTo(Utf8, both)[i + k] = r[1] + b
    BY <1>2, <2>1, <2>5 DEF Continues, Offset
  <2>3. i + k \in 0 .. Len(both) /\ i + k \in 0 .. Len(all)
    BY <1>1, <1>5, <1>6
  <2> HIDE DEF both
  <2>6. Continues(Utf8, both, post)
    BY <1>0, <1>3, <1>5, SumConcat
  <2>4. SumTo(Utf8, both \o post)[i + k] = SumTo(Utf8, both)[i + k]
    BY <2>3, <2>6 DEF Continues
  <2> QED BY <2>2, <2>3, <2>4 DEF Boundaries, Offset
<1> HIDE DEF all
<1> QED BY <1>4, <1>6, <1>7

LEMMA MinIs ==
  ASSUME NEW S, S \subseteq Nat, S # {}
  PROVE  Min(S) \in S /\ \A k \in S : Min(S) <= k
BY NatLeast DEF Min

LEMMA MaxIs ==
  ASSUME NEW n \in Nat, NEW S, S \subseteq 0 .. n, S # {}
  PROVE  Max(S) \in S /\ \A k \in S : k <= Max(S)
<1>1. PICK m \in S : \A k \in S : k <= m
  BY NatLargest
<1>2. \A k \in S : k \in Int
  OBVIOUS
<1>3. m \in S /\ \A k \in S : m >= k
  BY <1>1, <1>2
<1>4. Max(S) \in S /\ \A k \in S : Max(S) >= k
  BY <1>3 DEF Max
<1> QED BY <1>2, <1>4

\* The offset of a platform range is on a boundary, wherever it points, and a
\* later one is not before an earlier one.
LEMMA FromUtf16Is ==
  ASSUME InputAssumption, NEW s \in Seq(Chars), NEW o \in Nat, NEW q \in Nat, o <= q
  PROVE  OnBoundaries(<<FromUtf16(s, o), FromUtf16(s, q)>>, s)
<1> DEFINE unit == Offset(Utf16, s)
           at == Offset(Utf8, s)
           past(x) == {k \in 0 .. Len(s) : unit[k] >= x} \union {Len(s)}
<1>1. Len(s) \in Nat /\ 0 .. Len(s) \subseteq Nat /\ Len(s) \in 0 .. Len(s)
  OBVIOUS
<1>2. Grows(at, Len(s)) /\ Grows(unit, Len(s))
  BY OffsetsGrow
<1> HIDE DEF unit, at
<1>3. past(o) \subseteq 0 .. Len(s) /\ past(q) \subseteq past(o)
  <2>1. \A k \in 0 .. Len(s) : unit[k] \in Nat
    BY <1>2 DEF Grows
  <2>2. \A k \in 0 .. Len(s) : unit[k] >= q => unit[k] >= o
    BY <2>1
  <2> QED BY <1>1, <2>2
<1>4. Len(s) \in past(o) /\ Len(s) \in past(q)
  OBVIOUS
<1>5. FromUtf16(s, o) = at[Min(past(o))] /\ FromUtf16(s, q) = at[Min(past(q))]
  BY DEF FromUtf16, unit, at
<1> HIDE DEF past
<1>6. Min(past(o)) \in past(o) /\ \A k \in past(o) : Min(past(o)) <= k
  BY <1>1, <1>3, <1>4, MinIs
<1>7. Min(past(q)) \in past(q)
  BY <1>1, <1>3, <1>4, MinIs
<1>8. /\ Min(past(o)) \in 0 .. Len(s) /\ Min(past(q)) \in 0 .. Len(s)
      /\ Min(past(o)) <= Min(past(q))
  BY <1>3, <1>6, <1>7
<1>9. at[Min(past(o))] <= at[Min(past(q))]
  BY <1>2, <1>8 DEF Grows
<1>10. at[Min(past(o))] \in Boundaries(s) /\ at[Min(past(q))] \in Boundaries(s)
  BY <1>8 DEF Boundaries, at
<1> QED BY <1>5, <1>9, <1>10 DEF OnBoundaries

-----------------------------------------------------------------------------
(* One model: a range on boundaries stays on boundaries.                   *)

SafeModel(m) ==
  /\ m \in Model
  /\ OnBoundaries(m.sel, m.content)
  /\ m.marked # NoRange => OnBoundaries(m.marked, m.content)

LEMMA SafeParts ==
  ASSUME NEW m, SafeModel(m)
  PROVE  /\ m.content \in Seq(Chars) /\ m.sel \in Nat \X Nat
         /\ m.marked # NoRange => m.marked \in Nat \X Nat
         /\ m.sel = <<m.sel[1], m.sel[2]>>
         /\ m.sel[1] \in Boundaries(m.content) /\ m.sel[2] \in Boundaries(m.content)
         /\ m.sel[1] <= m.sel[2] /\ m.sel[1] \in Nat /\ m.sel[2] \in Nat
<1>1. /\ m.content \in Seq(Chars) /\ m.sel \in Nat \X Nat
      /\ m.marked # NoRange => m.marked \in Nat \X Nat
  BY DEF SafeModel, Model
<1>2. OnBoundaries(m.sel, m.content)
  BY DEF SafeModel
<1> QED BY <1>1, <1>2 DEF OnBoundaries

LEMMA NextToCaret ==
  ASSUME InputAssumption, NEW m, SafeModel(m)
  PROVE  /\ PreviousBoundary(m) \in Boundaries(m.content)
         /\ NextBoundary(m) \in Boundaries(m.content)
         /\ PreviousBoundary(m) <= m.sel[2] /\ m.sel[2] <= NextBoundary(m)
<1> DEFINE all == Boundaries(m.content)
           caret == m.sel[2]
           end == Bytes(m.content)
           before == {b \in all : b < caret} \union {0}
           after == {b \in all : b > caret} \union {end}
<1>1. m.content \in Seq(Chars) /\ caret \in Nat /\ caret \in all
  BY SafeParts
<1>2. all \subseteq Nat /\ 0 \in all /\ end \in all /\ \A b \in all : b <= end
  BY <1>1, BoundariesAre
<1>3. PreviousBoundary(m) = Max(before) /\ NextBoundary(m) = Min(after)
  BY DEF PreviousBoundary, NextBoundary
<1> HIDE DEF all, caret, end
<1>4. before \subseteq 0 .. caret /\ before # {} /\ before \subseteq all
  <2>1. ASSUME NEW b \in before PROVE b \in 0 .. caret /\ b \in all
    <3>1. b \in all /\ b \in Nat
      BY <1>2
    <3>2. b <= caret
      BY <1>1, <3>1
    <3> QED BY <1>1, <3>1, <3>2
  <2>2. 0 \in before
    OBVIOUS
  <2> HIDE DEF before
  <2> QED BY <2>1, <2>2
<1>5. after \subseteq Nat /\ after # {} /\ after \subseteq all
  BY <1>1, <1>2
<1>6. \A b \in after : caret <= b
  BY <1>1, <1>2
<1> HIDE DEF before, after
<1>7. Max(before) \in before
  BY <1>1, <1>4, MaxIs
<1>8. Min(after) \in after
  BY <1>5, MinIs
<1>9. Max(before) <= caret /\ Max(before) \in all
  <2>1. Max(before) \in 0 .. caret
    BY <1>4, <1>7
  <2> QED BY <1>1, <1>4, <1>7, <2>1
<1>10. caret <= Min(after) /\ Min(after) \in all
  BY <1>5, <1>6, <1>8
<1> QED BY <1>3, <1>9, <1>10 DEF all, caret

LEMMA FreshSafe ==
  ASSUME InputAssumption
  PROVE  SafeModel(Fresh)
<1>1. <<>> \in Seq(Chars)
  OBVIOUS
<1>2. 0 \in Boundaries(<<>>)
  BY <1>1, BoundariesAre
<1> QED BY <1>1, <1>2 DEF SafeModel, Fresh, Model, OnBoundaries

LEMMA SetTextSafe ==
  ASSUME InputAssumption, NEW text \in Seq(Chars)
  PROVE  SafeModel(ApplySetText(text))
<1>1. Bytes(text) \in Boundaries(text) /\ Bytes(text) \in Nat
  BY BoundariesAre
<1> QED BY <1>1 DEF SafeModel, ApplySetText, Model, OnBoundaries

LEMMA TargetSafe ==
  ASSUME InputAssumption, NEW m, SafeModel(m), NEW given \in PlatformRanges \union {NoRange}
  PROVE  OnBoundaries(TargetRange(m, given), m.content)
<1>1. CASE given # NoRange
  <2>1. given[1] \in Nat /\ given[2] \in Nat /\ given[1] <= given[2]
    BY <1>1 DEF PlatformRanges, InputAssumption
  <2> QED BY <1>1, <2>1, SafeParts, FromUtf16Is DEF TargetRange, RangeFromUtf16
<1>2. CASE given = NoRange
  BY <1>2 DEF SafeModel, TargetRange
<1> QED BY <1>1, <1>2

LEMMA ErasedSafe ==
  ASSUME InputAssumption, NEW m, SafeModel(m), NEW key
  PROVE  OnBoundaries(Erased(m, key), m.content)
<1>1. /\ OnBoundaries(m.sel, m.content) /\ m.sel[2] \in Boundaries(m.content)
  BY SafeParts DEF SafeModel
<1>2. /\ OnBoundaries(<<PreviousBoundary(m), m.sel[2]>>, m.content)
      /\ OnBoundaries(<<m.sel[2], NextBoundary(m)>>, m.content)
  BY <1>1, NextToCaret DEF OnBoundaries
<1> QED BY <1>1, <1>2 DEF Erased

LEMMA ReplaceSafe ==
  ASSUME InputAssumption, NEW m, SafeModel(m), NEW new \in Seq(Chars), NEW r,
         OnBoundaries(r, m.content)
  PROVE  SafeModel(ApplyReplace(m, r, new))
<1> DEFINE text == Splice(m.content, r, new)
           caret == r[1] + Bytes(new)
<1>1. m.content \in Seq(Chars)
  BY SafeParts
<1>2. text \in Seq(Chars) /\ caret \in Boundaries(text)
  BY <1>1, SpliceBoundaries, BoundariesAre
<1> HIDE DEF text, caret
<1>3. caret \in Nat
  BY <1>2, BoundariesAre
<1>4. ApplyReplace(m, r, new) =
        [content |-> text, sel |-> <<caret, caret>>, marked |-> NoRange]
  BY DEF ApplyReplace, text, caret
<1> QED BY <1>2, <1>3, <1>4 DEF SafeModel, Model, OnBoundaries

LEMMA MarkSafe ==
  ASSUME InputAssumption, NEW m, SafeModel(m), NEW new \in Seq(Chars), NEW r,
         OnBoundaries(r, m.content), NEW within, OnBoundaries(within, new)
  PROVE  SafeModel(ApplyReplaceAndMark(m, r, new, within))
<1> DEFINE text == Splice(m.content, r, new)
           from == r[1] + within[1]
           to == r[1] + within[2]
           end == r[1] + Bytes(new)
<1>1. m.content \in Seq(Chars)
  BY SafeParts
<1>2. /\ within[1] \in Boundaries(new) /\ within[2] \in Boundaries(new)
      /\ within[1] <= within[2] /\ Boundaries(new) \subseteq Nat
      /\ 0 \in Boundaries(new) /\ Bytes(new) \in Boundaries(new)
      /\ r[1] \in Boundaries(m.content) /\ Boundaries(m.content) \subseteq Nat
  BY <1>1, BoundariesAre DEF OnBoundaries
<1>3. r[1] \in Nat /\ r[1] + 0 = r[1] /\ from <= to /\ r[1] <= end
  BY <1>2
<1>4. text \in Seq(Chars) /\ \A b \in Boundaries(new) : r[1] + b \in Boundaries(text)
  BY <1>1, SpliceBoundaries
<1>5. /\ from \in Boundaries(text) /\ to \in Boundaries(text)
      /\ end \in Boundaries(text) /\ r[1] \in Boundaries(text)
  <2> HIDE DEF text
  <2> QED BY <1>2, <1>3, <1>4
<1>6. ApplyReplaceAndMark(m, r, new, within) =
        [content |-> text, sel |-> <<from, to>>,
         marked |-> IF new = <<>> THEN NoRange ELSE <<r[1], end>>]
  BY DEF ApplyReplaceAndMark
<1> HIDE DEF text, from, to, end
<1>7. from \in Nat /\ to \in Nat /\ end \in Nat
  BY <1>4, <1>5, BoundariesAre
<1> QED BY <1>3, <1>4, <1>5, <1>6, <1>7 DEF SafeModel, Model, OnBoundaries

LEMMA MoveSafe ==
  ASSUME InputAssumption, NEW m, SafeModel(m), NEW key \in {"left", "right", "home", "end"}
  PROVE  SafeModel(CaretAt(m, MovedTo(m, key)))
<1> DEFINE b == MovedTo(m, key)
<1>1. m.content \in Seq(Chars)
  BY SafeParts
<1>2. b \in Boundaries(m.content)
  BY <1>1, SafeParts, NextToCaret, BoundariesAre DEF MovedTo
<1> HIDE DEF b
<1>3. b \in Nat
  BY <1>1, <1>2, BoundariesAre
<1>4. m \in Model
  BY DEF SafeModel
<1>5. /\ CaretAt(m, b) \in Model /\ CaretAt(m, b).content = m.content
      /\ CaretAt(m, b).sel = <<b, b>> /\ CaretAt(m, b).marked = m.marked
  BY <1>3, <1>4 DEF CaretAt, Model
<1>6. OnBoundaries(<<b, b>>, m.content)
  BY <1>2, <1>3 DEF OnBoundaries
<1> QED BY <1>5, <1>6 DEF SafeModel, b

-----------------------------------------------------------------------------
(* Every step leaves safe models.                                          *)

EditInv == TypeOK /\ \A i \in Live : SafeModel(model[i])

Flags == dirty \in BOOLEAN /\ repaint \in BOOLEAN /\ slips \in SUBSET Slips

\* A handler that starts with the mirror at mir.
LEMMA HandlerTyped ==
  ASSUME InputAssumption, EditInv, NEW STATE mir, mir \in [Inputs -> Entry \union {NoEntry}],
         \A i \in Inputs : model'[i] # NoModel => mir[i] # NoEntry,
         NEW h \in Outcomes, HandlerRuns(mir, h)
  PROVE  /\ tree' \in SUBSET Inputs
         /\ mirror' \in [Inputs -> Entry \union {NoEntry}]
         /\ \A i \in Inputs : model'[i] # NoModel => mirror'[i] # NoEntry
         /\ queue' \in [Inputs -> Seq(Texts)]
<1> DEFINE w == h.write
<1>1. tree' \in SUBSET Inputs
  BY DEF HandlerRuns, Outcomes
<1>2. queue \in [Inputs -> Seq(Texts)]
  BY DEF EditInv, TypeOK
<1>3. CASE ~Accepts(mir, w)
  BY <1>1, <1>2, <1>3 DEF HandlerRuns
<1>4. CASE Accepts(mir, w)
  <2> DEFINE entry == [text |-> w.text, composing |-> FALSE]
  <2>1. w.input \in Inputs /\ w.text \in Texts
    BY <1>4 DEF Accepts, Outcomes, Writes
  <2>2. entry \in Entry /\ entry # NoEntry
    <3>1. w.text \in Seq(Chars)
      BY <2>1 DEF InputAssumption
    <3>2. entry \in Entry
      BY <3>1 DEF Entry
    <3> QED BY <3>2 DEF InputAssumption
  <2> HIDE DEF entry
  <2>3. mirror' = [mir EXCEPT ![w.input] = entry]
    BY <1>4 DEF HandlerRuns, entry
  <2>4. queue' = [queue EXCEPT ![w.input] = Append(@, w.text)]
    BY <1>4 DEF HandlerRuns
  <2>5. Append(queue[w.input], w.text) \in Seq(Texts)
    BY <1>2, <2>1
  <2>6. queue' \in [Inputs -> Seq(Texts)]
    BY <1>2, <2>4, <2>5
  <2>7. /\ mirror' \in [Inputs -> Entry \union {NoEntry}]
        /\ \A i \in Inputs : model'[i] # NoModel => mirror'[i] # NoEntry
    BY <2>1, <2>2, <2>3
  <2> QED BY <1>1, <2>6, <2>7
<1> QED BY <1>3, <1>4

\* Input i's model becomes m, and the mirror its image.
LEMMA StoreTyped ==
  ASSUME InputAssumption, EditInv, NEW i \in painted, NEW STATE m, SafeModel(m), Store(i, m)
  PROVE  /\ i \in Inputs
         /\ model' \in [Inputs -> Model \union {NoModel}]
         /\ model'[i] = m /\ model'[i] # NoModel
         /\ \A j \in Inputs : j # i => model'[j] = model[j]
         /\ \A j \in Inputs : model'[j] # NoModel => SafeModel(model'[j])
         /\ [mirror EXCEPT ![i] = Synced(m)] \in [Inputs -> Entry \union {NoEntry}]
         /\ \A j \in Inputs : model'[j] # NoModel =>
              mirror[j] # NoEntry /\ [mirror EXCEPT ![i] = Synced(m)][j] # NoEntry
<1>1. /\ i \in Inputs /\ model \in [Inputs -> Model \union {NoModel}]
      /\ mirror \in [Inputs -> Entry \union {NoEntry}]
      /\ model[i] # NoModel
      /\ \A j \in Inputs : model[j] # NoModel => mirror[j] # NoEntry /\ SafeModel(model[j])
  BY DEF EditInv, TypeOK, Live
<1>2. m \in Model /\ m # NoModel
  BY DEF SafeModel, InputAssumption
<1>3. Synced(m) \in Entry /\ Synced(m) # NoEntry
  <2>1. m.content \in Seq(Chars)
    BY SafeParts
  <2>2. Synced(m) \in Entry
    BY <2>1 DEF Synced, Entry
  <2> QED BY <2>2 DEF InputAssumption
<1>4. model' = [model EXCEPT ![i] = m]
  BY DEF Store
<1>5. /\ model' \in [Inputs -> Model \union {NoModel}] /\ model'[i] = m
      /\ \A j \in Inputs : j # i => model'[j] = model[j]
  BY <1>1, <1>2, <1>4
<1> DEFINE mir == [mirror EXCEPT ![i] = Synced(m)]
<1>6. /\ mir \in [Inputs -> Entry \union {NoEntry}] /\ mir[i] = Synced(m)
      /\ \A j \in Inputs : j # i => mir[j] = mirror[j]
  BY <1>1, <1>3
<1> HIDE DEF mir
<1>7. \A j \in Inputs : model'[j] # NoModel => mirror[j] # NoEntry /\ mir[j] # NoEntry
  BY <1>1, <1>3, <1>5, <1>6
<1>8. \A j \in Inputs : model'[j] # NoModel => SafeModel(model'[j])
  BY <1>1, <1>5
<1> QED BY <1>1, <1>2, <1>5, <1>6, <1>7, <1>8 DEF mir

LEMMA EditTyped ==
  ASSUME InputAssumption, EditInv, NEW i \in painted, NEW STATE m, SafeModel(m),
         NEW h \in Outcomes,
         Store(i, m), EmitChanged([mirror EXCEPT ![i] = Synced(m)], h), UNCHANGED painted
  PROVE  EditInv'
<1> DEFINE mir == [mirror EXCEPT ![i] = Synced(m)]
<1>1. /\ i \in Inputs /\ model' \in [Inputs -> Model \union {NoModel}]
      /\ model'[i] # NoModel /\ \A j \in Inputs : j # i => model'[j] = model[j]
      /\ \A j \in Inputs : model'[j] # NoModel => SafeModel(model'[j])
      /\ mir \in [Inputs -> Entry \union {NoEntry}]
      /\ \A j \in Inputs : model'[j] # NoModel => mir[j] # NoEntry
  BY StoreTyped
<1>2. HandlerRuns(mir, h) /\ Flags'
  <2>1. h.changed \in BOOLEAN /\ dirty \in BOOLEAN
    BY DEF Outcomes, EditInv, TypeOK
  <2> QED BY <2>1 DEF EmitChanged, Flags, DirtyAfter, Slipping
<1> HIDE DEF mir
<1>3. /\ tree' \in SUBSET Inputs
      /\ mirror' \in [Inputs -> Entry \union {NoEntry}]
      /\ \A j \in Inputs : model'[j] # NoModel => mirror'[j] # NoEntry
      /\ queue' \in [Inputs -> Seq(Texts)]
  BY <1>1, <1>2, HandlerTyped
<1>4. painted' \in SUBSET Inputs /\ \A j \in painted' : model'[j] # NoModel
  BY <1>1 DEF EditInv, TypeOK
<1> QED BY <1>1, <1>2, <1>3, <1>4 DEF EditInv, TypeOK, Flags, Live

LEMMA DispatchTyped ==
  ASSUME InputAssumption, EditInv, NEW h \in Outcomes, Plain(h)
  PROVE  EditInv'
<1>0. HandlerRuns(mirror, h) /\ UNCHANGED <<painted, model>> /\ Sited(mirror, h)
  BY PlainIsSited
<1>1. /\ mirror \in [Inputs -> Entry \union {NoEntry}]
      /\ \A j \in Inputs : model'[j] # NoModel => mirror[j] # NoEntry
  BY <1>0 DEF EditInv, TypeOK
<1>2. /\ tree' \in SUBSET Inputs
      /\ mirror' \in [Inputs -> Entry \union {NoEntry}]
      /\ \A j \in Inputs : model'[j] # NoModel => mirror'[j] # NoEntry
      /\ queue' \in [Inputs -> Seq(Texts)]
  BY <1>0, <1>1, HandlerTyped
<1>3. Flags'
  BY <1>0, SitedTyped DEF EditInv, TypeOK, Flags
<1> QED BY <1>0, <1>2, <1>3 DEF EditInv, TypeOK, Flags, Live

\* A step that stores a model and does not dispatch.
LEMMA QuietTyped ==
  ASSUME InputAssumption, EditInv, NEW i \in painted, NEW STATE m, SafeModel(m), Store(i, m),
         mirror' \in {mirror, [mirror EXCEPT ![i] = Synced(m)]},
         UNCHANGED <<tree, painted, queue, dirty>>, Quiet
  PROVE  EditInv'
<1> DEFINE mir == [mirror EXCEPT ![i] = Synced(m)]
<1>1. /\ i \in Inputs /\ model' \in [Inputs -> Model \union {NoModel}]
      /\ model'[i] # NoModel /\ \A j \in Inputs : j # i => model'[j] = model[j]
      /\ \A j \in Inputs : model'[j] # NoModel => SafeModel(model'[j])
      /\ mir \in [Inputs -> Entry \union {NoEntry}]
      /\ \A j \in Inputs : model'[j] # NoModel => mirror[j] # NoEntry /\ mir[j] # NoEntry
  BY StoreTyped
<1> HIDE DEF mir
<1>2. mirror' \in {mirror, mir}
  BY DEF mir
<1>3. /\ mirror' \in [Inputs -> Entry \union {NoEntry}]
      /\ \A j \in Inputs : model'[j] # NoModel => mirror'[j] # NoEntry
  BY <1>1, <1>2 DEF EditInv, TypeOK
<1>4. painted' \in SUBSET Inputs /\ \A j \in painted' : model'[j] # NoModel
  BY <1>1 DEF EditInv, TypeOK
<1>5. Flags'
  BY DEF EditInv, TypeOK, Flags, Quiet
<1> QED BY <1>1, <1>3, <1>4, <1>5 DEF EditInv, TypeOK, Flags, Live

LEMMA EditingTyped ==
  ASSUME InputAssumption, EditInv, NEW i \in Inputs, Editing(i)
  PROVE  EditInv'
<1>1. ASSUME i \in painted PROVE SafeModel(model[i])
  BY <1>1 DEF EditInv, TypeOK, Live
<1>2. ASSUME NEW within \in PlatformRanges, NEW given \in PlatformRanges \union {NoRange},
             NEW new \in Texts, Preedit(i, given, new, within)
      PROVE  EditInv'
  <2> DEFINE m == ApplyReplaceAndMark(model[i], TargetRange(model[i], given), new,
                                      RangeFromUtf16(new, within))
  <2>1. /\ i \in painted /\ Store(i, m) /\ mirror' = [mirror EXCEPT ![i] = Synced(m)]
        /\ UNCHANGED <<tree, painted, queue, dirty>> /\ Quiet
    BY <1>2 DEF Preedit, Slipping, Quiet
  <2>2. SafeModel(model[i]) /\ new \in Seq(Chars)
    BY <1>1, <2>1 DEF InputAssumption
  <2>3. within[1] \in Nat /\ within[2] \in Nat /\ within[1] <= within[2]
    BY DEF PlatformRanges, InputAssumption
  <2>4. OnBoundaries(RangeFromUtf16(new, within), new)
    BY <2>2, <2>3, FromUtf16Is DEF RangeFromUtf16
  <2>5. OnBoundaries(TargetRange(model[i], given), model[i].content)
    BY <2>2, TargetSafe
  <2>6. SafeModel(m)
    BY <2>2, <2>4, <2>5, MarkSafe
  <2> HIDE DEF m
  <2> QED BY <2>1, <2>6, QuietTyped
<1>3. ASSUME Unmark(i)
      PROVE  EditInv'
  <2> DEFINE m == [model[i] EXCEPT !.marked = NoRange]
  <2>1. /\ i \in painted /\ Store(i, m) /\ mirror' = [mirror EXCEPT ![i] = Synced(m)]
        /\ UNCHANGED <<tree, painted, queue, dirty>> /\ Quiet
    BY <1>3 DEF Unmark, Quiet
  <2>2. SafeModel(m)
    BY <1>1, <2>1 DEF SafeModel, Model
  <2> HIDE DEF m
  <2> QED BY <2>1, <2>2, QuietTyped
<1>4. ASSUME NEW key \in {"left", "right", "home", "end"}, MoveCaret(i, key)
      PROVE  EditInv'
  <2> DEFINE m == CaretAt(model[i], MovedTo(model[i], key))
  <2>1. /\ i \in painted /\ Store(i, m) /\ Quiet
        /\ UNCHANGED <<tree, painted, mirror, queue, dirty>>
    BY <1>4 DEF MoveCaret, Slipping, Quiet
  <2>2. SafeModel(m)
    BY <1>1, <2>1, MoveSafe
  <2> HIDE DEF m
  <2> QED BY <2>1, <2>2, QuietTyped
<1> QED BY <1>2, <1>3, <1>4 DEF Editing

LEMMA DispatchingTyped ==
  ASSUME InputAssumption, EditInv, NEW h \in Outcomes, Dispatching(h)
  PROVE  EditInv'
<1>0. ASSUME NEW i \in painted PROVE i \in Inputs /\ SafeModel(model[i])
  BY <1>0 DEF EditInv, TypeOK, Live
<1>1. ASSUME NEW i \in Inputs, NEW given \in PlatformRanges \union {NoRange},
             NEW new \in Texts, Commit(i, given, new, h)
      PROVE  EditInv'
  <2> DEFINE m == ApplyReplace(model[i], TargetRange(model[i], given), new)
  <2>1. /\ i \in painted /\ Store(i, m) /\ UNCHANGED painted
        /\ EmitChanged([mirror EXCEPT ![i] = Synced(m)], h)
    BY <1>1 DEF Commit
  <2>2. SafeModel(model[i]) /\ new \in Seq(Chars)
    BY <1>0, <2>1 DEF InputAssumption
  <2>3. OnBoundaries(TargetRange(model[i], given), model[i].content)
    BY <2>2, TargetSafe
  <2>4. SafeModel(m)
    BY <2>2, <2>3, ReplaceSafe
  <2> HIDE DEF m
  <2> QED BY <2>1, <2>4, EditTyped
<1>2. ASSUME NEW i \in Inputs, NEW key \in {"backspace", "delete"}, Erase(i, key, h)
      PROVE  EditInv'
  <2> DEFINE r == Erased(model[i], key)
             m == ApplyReplace(model[i], r, <<>>)
  <2>1. i \in painted /\ UNCHANGED painted
    BY <1>2 DEF Erase
  <2>2. CASE r[1] = r[2]
    <3>1. UNCHANGED vars
      BY <1>2, <2>2 DEF Erase, vars
    <3> QED BY <3>1 DEF EditInv, TypeOK, Live, vars
  <2>3. CASE r[1] # r[2]
    <3>1. Store(i, m) /\ EmitChanged([mirror EXCEPT ![i] = Synced(m)], h)
      BY <1>2, <2>3 DEF Erase
    <3>2. SafeModel(model[i]) /\ <<>> \in Seq(Chars)
      BY <1>0, <2>1
    <3>3. OnBoundaries(r, model[i].content)
      BY <3>2, ErasedSafe
    <3>4. SafeModel(m)
      BY <3>2, <3>3, ReplaceSafe
    <3> HIDE DEF m
    <3> QED BY <2>1, <3>1, <3>4, EditTyped
  <2> QED BY <2>2, <2>3
<1>3. CASE Plain(h)
  BY <1>3, DispatchTyped
<1> QED BY <1>1, <1>2, <1>3 DEF Dispatching, Plain

LEMMA PaintTyped ==
  ASSUME InputAssumption, EditInv, Paint
  PROVE  EditInv'
<1>1. /\ tree \in SUBSET Inputs /\ model \in [Inputs -> Model \union {NoModel}]
      /\ mirror \in [Inputs -> Entry \union {NoEntry}] /\ queue \in [Inputs -> Seq(Texts)]
      /\ \A j \in Inputs : model[j] # NoModel => mirror[j] # NoEntry /\ SafeModel(model[j])
  BY DEF EditInv, TypeOK, Live
<1>2. ASSUME NEW i \in Inputs
      PROVE  /\ SafeModel(Prepainted(i)) /\ Prepainted(i) \in Model /\ Prepainted(i) # NoModel
             /\ Synced(Prepainted(i)) \in Entry /\ Synced(Prepainted(i)) # NoEntry
  <2>1. SafeModel(Rendered(i))
    BY <1>1, FreshSafe DEF Rendered
  <2>2. ASSUME queue[i] # <<>> PROVE Last(queue[i]) \in Seq(Chars)
    <3>1. queue[i] \in Seq(Texts) /\ Len(queue[i]) \in 1 .. Len(queue[i])
      BY <1>1, <2>2
    <3>2. Last(queue[i]) \in Texts
      BY <3>1 DEF Last
    <3> QED BY <3>2 DEF InputAssumption
  <2>3. SafeModel(Prepainted(i))
    BY <2>1, <2>2, SetTextSafe DEF Prepainted
  <2>4. Prepainted(i) \in Model /\ Prepainted(i).content \in Seq(Chars)
    BY <2>3, SafeParts DEF SafeModel
  <2>5. Synced(Prepainted(i)) \in Entry
    BY <2>4 DEF Synced, Entry
  <2> QED BY <2>3, <2>4, <2>5 DEF InputAssumption
<1>3. /\ painted' = tree /\ tree' = tree /\ dirty' = dirty /\ repaint' = FALSE /\ slips' = {}
      /\ model' = [i \in Inputs |-> IF i \in tree THEN Prepainted(i) ELSE model[i]]
      /\ mirror' = [i \in Inputs |->
           IF i \in tree /\ (model[i] = NoModel \/ queue[i] # <<>>)
           THEN Synced(Prepainted(i)) ELSE mirror[i]]
      /\ queue' = [i \in Inputs |-> IF i \in tree THEN <<>> ELSE queue[i]]
  BY DEF Paint
<1>4. /\ model' \in [Inputs -> Model \union {NoModel}]
      /\ \A i \in tree : model'[i] # NoModel
      /\ \A i \in Inputs : model'[i] # NoModel => SafeModel(model'[i])
  BY <1>1, <1>2, <1>3
<1>5. /\ mirror' \in [Inputs -> Entry \union {NoEntry}]
      /\ \A i \in Inputs : model'[i] # NoModel => mirror'[i] # NoEntry
  BY <1>1, <1>2, <1>3
<1>6. queue' \in [Inputs -> Seq(Texts)]
  <2>1. <<>> \in Seq(Texts)
    OBVIOUS
  <2> QED BY <1>1, <1>3, <2>1
<1>7. Flags'
  BY <1>3 DEF EditInv, TypeOK, Flags
<1> QED BY <1>1, <1>3, <1>4, <1>5, <1>6, <1>7 DEF EditInv, TypeOK, Flags, Live

LEMMA StepTyped ==
  ASSUME InputAssumption, EditInv, [Next]_vars
  PROVE  EditInv'
<1>1. CASE \E i \in Inputs : Editing(i)
  BY <1>1, EditingTyped
<1>2. CASE \E h \in Outcomes : Dispatching(h)
  BY <1>2, DispatchingTyped
<1>3. CASE Paint
  BY <1>3, PaintTyped
<1>4. CASE Reopen
  BY <1>4 DEF Reopen, EditInv, TypeOK, Live
<1>5. CASE UNCHANGED vars
  BY <1>5 DEF EditInv, TypeOK, Live, vars
<1> QED BY <1>1, <1>2, <1>3, <1>4, <1>5 DEF Next

LEMMA InitTyped ==
  ASSUME Init
  PROVE  EditInv
<1>1. <<>> \in Seq(Texts)
  OBVIOUS
<1> QED BY <1>1 DEF Init, EditInv, TypeOK, Live

\* The text-input model is type correct, and every input of the last frame has
\* its model and its mirror entry (lib.rs 2640-2674, 2868-2884).
THEOREM InputsTyped == Spec => []TypeOK
<1>1. EditInv => TypeOK
  BY DEF EditInv
<1> QED BY InitTyped, StepTyped, InputAssumption, <1>1, PTL DEF Spec

\* No range an edit slices at ever lies inside a character or out of order, for
\* any texts and platform ranges, however edits, compositions, keys and queued
\* writes interleave (lib.rs 2821-2866, 2895-2911, 3073-3134).
THEOREM NoSlicePanics == Spec => []SlicesAreSafe
<1>1. EditInv => SlicesAreSafe
  BY DEF EditInv, SafeModel, SlicesAreSafe
<1> QED BY InitTyped, StepTyped, InputAssumption, <1>1, PTL DEF Spec

-----------------------------------------------------------------------------
(* Which steps can leave a write without its frame.                        *)

LEMMA HandlerQueues ==
  ASSUME EditInv, NEW STATE mir, mir \in [Inputs -> Entry \union {NoEntry}],
         NEW h \in Outcomes, HandlerRuns(mir, h),
         NEW i \in Inputs, queue'[i] # queue[i]
  PROVE  Accepts(mir, h.write) /\ i = h.write.input /\ ~mirror'[i].composing
<1>1. Accepts(mir, h.write)
  BY DEF HandlerRuns
<1>2. queue' = [queue EXCEPT ![h.write.input] = Append(@, h.write.text)]
  BY <1>1 DEF HandlerRuns
<1>3. queue \in [Inputs -> Seq(Texts)]
  BY DEF EditInv, TypeOK
<1>4. i = h.write.input
  BY <1>2, <1>3
<1>5. mirror' = [mir EXCEPT ![i] = [text |-> h.write.text, composing |-> FALSE]]
  BY <1>1, <1>4 DEF HandlerRuns
<1>6. mirror'[i] = [text |-> h.write.text, composing |-> FALSE]
  BY <1>5
<1> QED BY <1>1, <1>4, <1>6

\* A site that folds the dirty flag in leaves no write of the tree behind, unless
\* a slip went before it.
LEMMA FoldRecovers ==
  ASSUME EditInv, WriteNotForgotten, slips = {} \/ WriteSchedulesFrame, NEW h \in Outcomes, HandlerRuns(mirror, h),
         \/ FoldOr(DirtyAfter(mirror, h), h.changed)
         \/ FoldMax(DirtyAfter(mirror, h), h.changed)
  PROVE  WriteSchedulesFrame'
<1>1. /\ h.changed \in BOOLEAN /\ repaint \in BOOLEAN /\ dirty \in BOOLEAN
      /\ DirtyAfter(mirror, h) \in BOOLEAN
  BY DEF Outcomes, EditInv, TypeOK, DirtyAfter
<1>2. repaint' = (repaint \/ h.changed \/ DirtyAfter(mirror, h))
  BY DEF FoldOr, FoldMax
<1>3. CASE Accepts(mirror, h.write)
  BY <1>1, <1>2, <1>3 DEF DirtyAfter, WriteSchedulesFrame
<1>4. CASE tree' # tree
  BY <1>1, <1>2, <1>4 DEF HandlerRuns, WriteSchedulesFrame
<1>5. CASE ~Accepts(mirror, h.write) /\ tree' = tree
  <2>1. queue' = queue
    BY <1>5 DEF HandlerRuns
  <2>2. \A i \in tree : queue[i] # <<>> => repaint'
    BY <1>1, <1>2 DEF WriteNotForgotten, WriteSchedulesFrame, DirtyAfter
  <2> QED BY <1>5, <2>1, <2>2 DEF WriteSchedulesFrame
<1> QED BY <1>3, <1>4, <1>5

LEMMA RecoversWrites ==
  ASSUME EditInv, WriteNotForgotten, slips = {} \/ WriteSchedulesFrame,
         NEW h \in Outcomes, Recovers(h)
  PROVE  WriteSchedulesFrame'
BY FoldRecovers DEF Recovers, Injected, Event, Submit

LEMMA MouseKeepsFrame ==
  ASSUME EditInv, WriteSchedulesFrame, NEW h \in Outcomes, Mouse(h), ~MouseForgets(h)
  PROVE  WriteSchedulesFrame'
<1>1. /\ HandlerRuns(mirror, h) /\ repaint' = (repaint \/ h.changed)
      /\ h.changed \in BOOLEAN /\ repaint \in BOOLEAN
  BY DEF Mouse, FoldNone, Outcomes, EditInv, TypeOK
<1>2. CASE h.changed
  BY <1>1, <1>2 DEF WriteSchedulesFrame
<1>3. CASE ~h.changed
  <2>1. ~Accepts(mirror, h.write)
    BY <1>3 DEF MouseForgets
  <2>2. tree' = tree /\ queue' = queue /\ repaint' = repaint
    BY <1>1, <1>3, <2>1 DEF HandlerRuns
  <2> QED BY <2>2 DEF WriteSchedulesFrame
<1> QED BY <1>1, <1>2, <1>3

\* A handler whose write is not accepted and that leaves the tree alone changes
\* nothing that a frame is owed to.
LEMMA IdleKeepsFrame ==
  ASSUME WriteSchedulesFrame, NEW h \in Outcomes, HandlerRuns(mirror, h),
         h.built = tree, ~Accepts(mirror, h.write), repaint' = repaint
  PROVE  WriteSchedulesFrame'
BY DEF HandlerRuns, WriteSchedulesFrame

LEMMA DispatchKeepsFrame ==
  ASSUME EditInv, WriteNotForgotten, WriteSchedulesFrame,
         NEW h \in Outcomes, Dispatching(h), ~Forgets(h)
  PROVE  WriteSchedulesFrame'
<1>1. ASSUME NEW i \in Inputs, NEW given \in PlatformRanges \union {NoRange},
             NEW new \in Texts, Commit(i, given, new, h)
      PROVE  WriteSchedulesFrame'
  BY <1>1 DEF Commit, EmitChanged, WriteSchedulesFrame
<1>2. ASSUME NEW i \in Inputs, NEW key \in {"backspace", "delete"}, Erase(i, key, h)
      PROVE  WriteSchedulesFrame'
  BY <1>2 DEF Erase, EmitChanged, WriteSchedulesFrame
<1>3. ASSUME NEW i \in Inputs, Submit(i, h)
      PROVE  WriteSchedulesFrame'
  BY <1>3, RecoversWrites DEF Recovers
<1>4. CASE Injected(h) \/ Event(h)
  BY <1>4, RecoversWrites DEF Recovers
<1>5. CASE Mouse(h)
  BY <1>5, MouseKeepsFrame DEF Forgets
<1>6. CASE Bridge(h)
  BY <1>6 DEF Bridge, WriteSchedulesFrame
<1>7. CASE Marker(h)
  <2>1. h.built = tree /\ ~Accepts(mirror, h.write)
    BY <1>7 DEF Forgets, MarkerForgets
  <2> QED BY <1>7, <2>1, IdleKeepsFrame DEF Marker
<1>8. CASE Elsewhere(h)
  <2>1. ~Accepts(mirror, h.write)
    BY <1>8 DEF Forgets, ElsewhereForgets
  <2> QED BY <1>8, <2>1, IdleKeepsFrame DEF Elsewhere
<1> QED BY <1>1, <1>2, <1>3, <1>4, <1>5, <1>6, <1>7, <1>8 DEF Dispatching

LEMMA StepKeepsFrame ==
  ASSUME EditInv, WriteNotForgotten, WriteSchedulesFrame, [Next]_vars
  PROVE  WriteSchedulesFrame' \/ \E h \in Outcomes : Forgets(h)
<1>1. ASSUME NEW i \in Inputs, Editing(i)
      PROVE  WriteSchedulesFrame'
  BY <1>1 DEF Editing, Preedit, Unmark, MoveCaret, WriteSchedulesFrame
<1>2. ASSUME NEW h \in Outcomes, Dispatching(h)
      PROVE  WriteSchedulesFrame' \/ Forgets(h)
  BY <1>2, DispatchKeepsFrame
<1>3. CASE Paint
  <2>1. /\ tree' = tree /\ tree \subseteq Inputs
        /\ queue' = [i \in Inputs |-> IF i \in tree THEN <<>> ELSE queue[i]]
    BY <1>3 DEF Paint, EditInv, TypeOK
  <2>2. \A i \in tree' : queue'[i] = <<>>
    BY <2>1
  <2> QED BY <2>2 DEF WriteSchedulesFrame
<1>4. CASE Reopen
  BY <1>4 DEF Reopen, WriteSchedulesFrame
<1>5. CASE UNCHANGED vars
  BY <1>5 DEF vars, WriteSchedulesFrame
<1> QED BY <1>1, <1>2, <1>3, <1>4, <1>5 DEF Next

\* A queued write of the tree loses its frame at three call sites and at no
\* other: to a mouse handler that reports no change (lib.rs 4278), to the marker
\* (4413) and to the entry of another view (406-408).  Unless one of the last
\* two slipped, it gets the frame back at the next submit, event or entry of the
\* view (2671-2674, 3441-3446).
THEOREM OnlyThreeSitesForgetWrites == Spec => WritesKeepTheirFrame
<1>1. ASSUME EditInv, MirrorInv, [Next]_vars
      PROVE  /\ WriteSchedulesFrame => WriteSchedulesFrame' \/ \E h \in Outcomes : Forgets(h)
             /\ slips = {} /\ (\E h \in Outcomes : Recovers(h)) => WriteSchedulesFrame'
  <2>1. WriteNotForgotten
    BY <1>1 DEF MirrorInv
  <2> QED BY <1>1, <2>1, StepKeepsFrame, RecoversWrites
<1> QED BY InitTyped, StepTyped, InputAssumption, InitInv, StepKeepsInv, <1>1,
           PTL DEF Spec, WritesKeepTheirFrame

\* A step whose handler starts with the mirror of the models it leaves behind.
LEMMA QueuedNotComposing ==
  ASSUME EditInv, GateIsExact', NEW STATE mir, mir \in [Inputs -> Entry \union {NoEntry}],
         NEW h \in Outcomes, HandlerRuns(mir, h),
         NEW i \in Inputs, model'[i] # NoModel, Len(queue'[i]) > Len(queue[i])
  PROVE  model'[i].marked = NoRange
<1>1. queue'[i] # queue[i]
  <2>1. Len(queue[i]) \in Nat
    BY DEF EditInv, TypeOK
  <2> QED BY <2>1
<1>2. ~mirror'[i].composing
  BY <1>1, HandlerQueues
<1> QED BY <1>2 DEF GateIsExact, Live

LEMMA StepQueuesQuietly ==
  ASSUME InputAssumption, EditInv, EditInv', GateIsExact', [Next]_vars,
         NEW i \in Live, Len(queue'[i]) > Len(queue[i])
  PROVE  model'[i].marked = NoRange
<1>0. /\ i \in Inputs /\ model[i] # NoModel /\ Len(queue[i]) \in Nat
      /\ queue \in [Inputs -> Seq(Texts)]
      /\ mirror \in [Inputs -> Entry \union {NoEntry}]
  BY DEF Live, EditInv, TypeOK
<1>1. queue'[i] # queue[i]
  BY <1>0
<1>2. ASSUME NEW h \in Outcomes, HandlerRuns(mirror, h), UNCHANGED model
      PROVE  model'[i].marked = NoRange
  BY <1>0, <1>2, QueuedNotComposing
<1>3. ASSUME NEW h \in Outcomes, NEW j \in painted, NEW STATE m, SafeModel(m), Store(j, m),
             EmitChanged([mirror EXCEPT ![j] = Synced(m)], h)
      PROVE  model'[i].marked = NoRange
  <2> DEFINE mir == [mirror EXCEPT ![j] = Synced(m)]
  <2>1. mir \in [Inputs -> Entry \union {NoEntry}] /\ HandlerRuns(mir, h)
    BY <1>3, StoreTyped DEF EmitChanged
  <2>2. model'[i] # NoModel
    BY <1>0, <1>3, StoreTyped
  <2> HIDE DEF mir
  <2> QED BY <1>0, <2>1, <2>2, QueuedNotComposing
<1>4. ASSUME NEW h \in Outcomes, Dispatching(h)
      PROVE  model'[i].marked = NoRange
  <2>0. ASSUME NEW j \in painted PROVE SafeModel(model[j])
    BY <2>0 DEF EditInv, TypeOK, Live
  <2>1. ASSUME NEW j \in Inputs, NEW given \in PlatformRanges \union {NoRange},
               NEW new \in Texts, Commit(j, given, new, h)
        PROVE  model'[i].marked = NoRange
    <3> DEFINE m == ApplyReplace(model[j], TargetRange(model[j], given), new)
    <3>1. /\ j \in painted /\ Store(j, m)
          /\ EmitChanged([mirror EXCEPT ![j] = Synced(m)], h)
      BY <2>1 DEF Commit
    <3>2. new \in Seq(Chars)
      BY DEF InputAssumption
    <3>3. SafeModel(m)
      BY <2>0, <3>1, <3>2, TargetSafe, ReplaceSafe
    <3> HIDE DEF m
    <3> QED BY <1>3, <3>1, <3>3
  <2>2. ASSUME NEW j \in Inputs, NEW key \in {"backspace", "delete"}, Erase(j, key, h)
        PROVE  model'[i].marked = NoRange
    <3> DEFINE r == Erased(model[j], key)
               m == ApplyReplace(model[j], r, <<>>)
    <3>1. j \in painted /\ Store(j, m) /\ EmitChanged([mirror EXCEPT ![j] = Synced(m)], h)
      BY <1>1, <2>2 DEF Erase
    <3>2. SafeModel(model[j]) /\ <<>> \in Seq(Chars)
      BY <2>0, <3>1
    <3>3. OnBoundaries(r, model[j].content)
      BY <3>2, ErasedSafe
    <3>4. SafeModel(m)
      BY <3>2, <3>3, ReplaceSafe
    <3> HIDE DEF m
    <3> QED BY <1>3, <3>1, <3>4
  <2>3. CASE Plain(h)
    BY <1>2, <2>3, PlainIsSited
  <2> QED BY <1>4, <2>1, <2>2, <2>3 DEF Dispatching, Plain
<1>5. ASSUME NEW j \in Inputs, Editing(j)
      PROVE  FALSE
  BY <1>1, <1>5 DEF Editing, Preedit, Unmark, MoveCaret
<1>6. CASE Paint
  <2>1. queue'[i] \in {<<>>, queue[i]}
    BY <1>0, <1>6 DEF Paint
  <2> QED BY <1>0, <1>1, <2>1
<1>7. CASE Reopen \/ UNCHANGED vars
  BY <1>1, <1>7 DEF Reopen, vars
<1> QED BY <1>4, <1>5, <1>6, <1>7 DEF Next

\* gpui_input_set_text never queues a write for an input whose widget holds
\* marked text: a write that breaks a composition, as in the run
\* write_composing, was queued before the composition began (lib.rs 3430-3446).
THEOREM WritesQueuedOutsideCompositions == Spec => NoWriteWhileComposing
<1>1. MirrorInv => GateIsExact
  BY DEF MirrorInv, GateKnown, GateIsExact, Live, Known
<1>2. EditInv /\ EditInv' /\ GateIsExact' /\ [Next]_vars
        => \A i \in Live : Len(queue'[i]) > Len(queue[i]) => model'[i].marked = NoRange
  BY InputAssumption, StepQueuesQuietly
<1> QED BY InitTyped, StepTyped, InputAssumption, InitInv, StepKeepsInv, <1>1, <1>2,
           PTL DEF Spec, NoWriteWhileComposing

-----------------------------------------------------------------------------
(* The refinement of Redraw.                                               *)

\* Whatever a call site makes of the handler's result and the dirty flag.
LEMMA SiteAsks ==
  ASSUME EditInv, NEW h \in Outcomes, Plain(h)
  PROVE  Screen!Ask \/ Screen!Slip \/ UNCHANGED Screen!vars
<1>0. HandlerRuns(mirror, h) /\ UNCHANGED <<painted, model>> /\ Sited(mirror, h)
  BY PlainIsSited
<1>1. /\ h.changed \in BOOLEAN /\ repaint \in BOOLEAN /\ DirtyAfter(mirror, h) \in BOOLEAN
      /\ slips \in SUBSET Slips
  BY DEF Outcomes, EditInv, TypeOK, DirtyAfter
<1>2. CASE repaint'
  <2>1. slips' = {}
    BY <1>0, <1>2 DEF Sited, Folds, Refreshes, Ignores, Diverts, Slipping
  <2>2. repaint' = TRUE
    BY <1>0, <1>1, <1>2, SitedTyped DEF EditInv, TypeOK
  <2> QED BY <1>0, <2>1, <2>2 DEF Screen!Ask
<1>3. CASE ~repaint'
  <2>1. ~repaint /\ repaint' = repaint
    BY <1>0, <1>1, <1>3
       DEF Sited, Folds, FoldOr, FoldMax, FoldNone, Refreshes, Ignores, Diverts
  <2>2. CASE tree' = tree
    <3>1. slips' = slips \/ slips' = slips \union {"elsewhere"}
      BY <1>0, <1>3, <2>2
         DEF HandlerRuns, Sited, Folds, Refreshes, Ignores, Diverts, Slipping
    <3>2. ("marker" \in slips') = ("marker" \in slips)
      BY <3>1
    <3> QED BY <1>0, <2>1, <2>2, <3>2 DEF Screen!vars
  <2>3. CASE tree' # tree
    <3>1. h.built # tree /\ h.changed
      BY <1>0, <2>3 DEF HandlerRuns
    <3>2. Ignores(mirror, h)
      BY <1>0, <1>1, <1>3, <3>1
         DEF Sited, Folds, FoldOr, FoldMax, FoldNone, Refreshes, Diverts
    <3>3. slips' = slips \union {"marker"}
      BY <1>3, <3>1, <3>2 DEF Ignores, Slipping
    <3>4. ("marker" \in slips') = TRUE
      BY <3>3
    <3> QED BY <1>0, <2>1, <3>4 DEF Screen!Slip
  <2> QED BY <2>2, <2>3
<1> QED BY <1>2, <1>3

LEMMA DispatchAsks ==
  ASSUME EditInv, NEW h \in Outcomes, Dispatching(h)
  PROVE  Screen!Ask \/ Screen!Slip \/ UNCHANGED Screen!vars
<1>1. ASSUME NEW i \in Inputs, NEW given \in PlatformRanges \union {NoRange},
             NEW new \in Texts, Commit(i, given, new, h)
      PROVE  Screen!Ask
  BY <1>1 DEF Commit, EmitChanged, Slipping, Screen!Ask
<1>2. ASSUME NEW i \in Inputs, NEW key \in {"backspace", "delete"}, Erase(i, key, h)
      PROVE  Screen!Ask \/ UNCHANGED Screen!vars
  BY <1>2 DEF Erase, EmitChanged, Slipping, Screen!Ask, Screen!vars
<1>3. CASE Plain(h)
  BY <1>3, SiteAsks
<1> QED BY <1>1, <1>2, <1>3 DEF Dispatching, Plain

LEMMA ScreenStep ==
  ASSUME EditInv, [Next]_vars
  PROVE  [Screen!Next]_(Screen!vars)
<1>1. ASSUME NEW i \in Inputs, Editing(i)
      PROVE  Screen!Ask \/ UNCHANGED Screen!vars
  <2>1. ASSUME NEW within \in PlatformRanges, NEW given \in PlatformRanges \union {NoRange},
               NEW new \in Texts, Preedit(i, given, new, within)
        PROVE  Screen!Ask
    BY <2>1 DEF Preedit, Slipping, Screen!Ask
  <2>2. CASE Unmark(i)
    BY <2>2 DEF Unmark, Screen!vars
  <2>3. ASSUME NEW key \in {"left", "right", "home", "end"}, MoveCaret(i, key)
        PROVE  Screen!Ask
    BY <2>3 DEF MoveCaret, Slipping, Screen!Ask
  <2> QED BY <1>1, <2>1, <2>2, <2>3 DEF Editing
<1>2. CASE \E h \in Outcomes : Dispatching(h)
  BY <1>2, DispatchAsks DEF Screen!Next
<1>3. CASE Paint
  BY <1>3 DEF Paint, Screen!Draw, Screen!Next
<1>4. CASE Reopen
  BY <1>4 DEF Reopen, Screen!Open, Screen!Next
<1>5. CASE UNCHANGED vars
  BY <1>5 DEF vars, Screen!vars
<1> QED BY <1>1, <1>2, <1>3, <1>4, <1>5 DEF Next, Screen!Next

\* The text input and the dispatches around it implement Redraw: a tree that a
\* handler swaps is owed a frame until one shows it, whichever call site ran the
\* handler (lib.rs 396-412, 2924-2935, 3021-3026, 4088-4125, 4278, 4421-4450);
\* only the marker's (4413) lets the tree wait for somebody else's frame.
THEOREM InputsImplementRedraw == Spec => ImplementsRedraw
<1>1. Init => Screen!Init
  BY DEF Init, Screen!Init, Screen!UpToDate
<1> QED BY InitTyped, StepTyped, InputAssumption, ScreenStep, <1>1,
           PTL DEF Spec, ImplementsRedraw, Screen!Spec
=============================================================================
