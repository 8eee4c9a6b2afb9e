--------------------------- MODULE ScrollFeedback ---------------------------
(***************************************************************************)
(* Scroll position feedback (gpui-sys/src/lib.rs 2720-2778, 3467-3497,     *)
(* 4789-4808, 5389-5406 and 5539-5648) together with the framework's       *)
(* dispatch (moonbit-bindings/framework.mbt), whose handlers it wakes.     *)
(*                                                                         *)
(* The wheel moves the handle of a painted div and asks for a frame.  The  *)
(* frame paints the committed tree div by div: each subscribed div mirrors *)
(* its clamped offset, compares it with the one last sent, and defers an   *)
(* EVENT_SCROLL, without payload, to after the draw.  The handler pulls    *)
(* the offset, may set the store, and then the tree is patched or rebuilt. *)
(* All of it is one thread; the order of the steps is what can go wrong.   *)
(* One store with one dirty flag serves all views: what a handler sets may *)
(* change the tree that any of them wants, and only the view of the        *)
(* dispatch is rebuilt.  The flag needs no variable: each dispatch begins   *)
(* with clearing it (store.mbt:126-130) and reads it once, before it ends.  *)
(*                                                                         *)
(* A tree is a shape, the scroll divs in paint order, and the rest of its  *)
(* content, of which only the difference matters.  Offsets are 0 at the    *)
(* top and negative further down, as in gpui.                              *)
(***************************************************************************)
EXTENDS Integers, SequencesExt, FiniteSetsExt, Functions

CONSTANTS
  Views,        \* view ids
  Shapes,       \* sequences of scroll divs [key, sid, max]
  Texts,        \* contents that gpui_update_text can exchange
  NoKey,        \* a div without a key
  NoView,       \* no window is open
  NoTree,       \* the window has painted nothing yet
  First,        \* bound: what the application first wants, by view
  WheelTo,      \* bound: offsets the wheel leaves, in range and past it
  MaxWheel,     \* bound: movements of the wheel
  MaxChanges,   \* bound: changes of what the application wants to show
  MaxOpens      \* bound: windows

Divs  == UNION {Range(s) : s \in Shapes}
Keys  == {d.key : d \in Divs} \ {NoKey}
Pairs == {<<v, d.sid>> : v \in Views, d \in Divs}
Trees == [shape : Shapes, text : Texts]

\* No shape has two divs of one id, since the application issues the ids, or
\* two of one key, since the decoder refuses them.
ASSUME ScrollAssumption ==
  /\ Shapes \subseteq Seq(Divs) /\ \A d \in Divs : d.max \in Nat
  /\ \A s \in Shapes : \A i, j \in 1 .. Len(s) :
       s[i].sid = s[j].sid \/ (s[i].key = s[j].key /\ s[i].key # NoKey) => i = j
  /\ First \subseteq [Views -> Trees] /\ WheelTo \subseteq Int
  /\ MaxWheel \in Nat
  /\ MaxChanges \in Nat /\ MaxOpens \in Nat
  /\ IsFiniteSet(Views) /\ NoView \notin Views /\ NoTree \notin Trees

VARIABLES
  want,         \* what the store's cells describe, by view
  committed,    \* VIEWS
  window,       \* the view of the open window, or NoView
  painted,      \* the tree of the window's last frame
  next,         \* the div to be painted next, 0 outside of a draw
  redraw,       \* the window is dirty (cx.notify, the wheel)
  silent,       \* history: a change that nobody heard of came since then
  handle,       \* FfiView.scroll_handles: raw offsets by key
  mirror,       \* SCROLL_MIRROR
  sent,         \* SCROLL_SENT
  deferred,     \* EVENT_SCROLL dispatches deferred to after the draw
  known,        \* the offset the application last pulled, or was seeded
  excused,      \* history: views whose tree a failed rebuild, a set that no
                \* dispatch saw, or one in the dispatch of another view has
                \* left behind the store
  wheels, changes, opens

app    == <<want, committed, excused, changes>>
scroll == <<mirror, sent, known>>
vars   == <<app, scroll, window, painted, next, redraw, silent, handle,
            deferred, wheels, opens>>

Init ==
  /\ want \in First /\ committed = want
  /\ excused = {}
  /\ window = NoView /\ painted = NoTree /\ next = 0
  /\ redraw = FALSE /\ silent = FALSE
  /\ handle = <<>> /\ mirror = <<>> /\ sent = <<>> /\ known = <<>>
  /\ deferred = <<>>
  /\ wheels = 0 /\ changes = 0 /\ opens = 0

-----------------------------------------------------------------------------
(* The two maps, and the handles.                                          *)

Put(f, x, y) == [z \in DOMAIN f \cup {x} |-> IF z = x THEN y ELSE f[z]]

Sids(tree) == {d.sid : d \in Range(tree.shape)}

\* What the pair of maps loses when tree becomes the tree of view v.
Stale(v, tree) == {p \in DOMAIN mirror \cup DOMAIN sent :
                     p[1] = v /\ p[2] \notin Sids(tree)}

\* Mutant of Prune: forgets the edge-detection map.
PruneMirrorOnly(v, tree) ==
  /\ mirror' = Restrict(mirror, DOMAIN mirror \ Stale(v, tree))
  /\ UNCHANGED sent

Prune(v, tree) ==
  /\ mirror' = Restrict(mirror, DOMAIN mirror \ Stale(v, tree))
  /\ sent' = Restrict(sent, DOMAIN sent \ Stale(v, tree))

\* A keyed div's handle is retained, a keyless one is new in every render.
ScrollHandleFor(d) == IF d.key \in DOMAIN handle THEN handle[d.key] ELSE 0

\* Mutant of Clamp: only the far end.
ClampFarEnd(d, raw) == Max({-d.max, raw})

Clamp(d, raw) == Max({-d.max, Min({raw, 0})})

\* gpui_scroll_copy_state.
Pull(p) == IF p \in DOMAIN mirror THEN Put(known, p, mirror[p]) ELSE known

-----------------------------------------------------------------------------
(* Dispatch: the handlers run, then the view is patched or rebuilt.        *)

Idle == next = 0 /\ deferred = <<>>

\* A frame makes up for whatever nobody heard of.
Asks(frame) == redraw' = (redraw \/ frame) /\ silent' = (silent /\ ~redraw')

\* NotifyIfChanged: result 1 schedules a frame if the view's window is open.
NotifyIfChanged(v, changed) == Asks(changed /\ window = v)

\* The result is thrown away.
Unheard(changed) ==
  /\ silent' = (~redraw /\ (silent \/ changed))
  /\ UNCHANGED redraw

\* Cells are set, while the tree of v is built for what it wants at the moment:
\* any view may end up wanting another tree, v another one than that of the
\* moment.  Sets that leave all as it was are free.
SetAll(v, moment, wanted) ==
  /\ want' = wanted
  /\ changes' = changes + Cardinality({u \in Views : wanted[u] # want[u]})
                        + (IF wanted[v] = moment THEN 0 ELSE 1)
  /\ changes' <= MaxChanges

\* The views that the sets leave behind in the dispatch of v, but for v.
Others(v) == {u \in Views \ {v} : want'[u] # want[u]}

\* A cause for views to be behind; one that has caught up needs no excuse.
LeftBehind(views) == excused' = {u \in excused \cup views : committed'[u] # want'[u]}

\* The handlers set cells, and v wants the tree; no set comes after that.
Set(v, tree) ==
  \E wanted \in [Views -> Trees] : wanted[v] = tree /\ SetAll(v, tree, wanted)

\* The handlers leave the store clean: nothing is rebuilt, the result is 0.
NothingSet == UNCHANGED <<want, changes, committed, excused, mirror, sent>>

\* Mutant of Patch: accepts a change of structure that it does not write.
PatchAnyShape(v, tree) ==
  /\ Set(v, tree)
  /\ committed' = [committed EXCEPT ![v].text = tree.text]
  /\ LeftBehind(Others(v))
  /\ UNCHANGED <<mirror, sent>>

\* framework_dispatch_with_patch: gpui_update_text on an equal shape; the
\* committed tree is changed in place, nothing is pruned.
Patch(v, tree) ==
  /\ committed[v].shape = tree.shape
  /\ Set(v, tree)
  /\ committed' = [committed EXCEPT ![v] = tree]
  /\ LeftBehind(Others(v))
  /\ UNCHANGED <<mirror, sent>>

\* The rebuild commits.  Building may itself set a cell, which leaves the
\* store dirty and the committed tree behind it.
Rebuild(v, tree) ==
  /\ \E wanted \in [Views -> Trees] : SetAll(v, tree, wanted)
  /\ committed' = [committed EXCEPT ![v] = tree]
  /\ Prune(v, tree)
  /\ LeftBehind(Others(v) \cup (IF want'[v] = tree THEN {} ELSE {v}))

\* The status of a failing rebuild is ignored: the tree stays, the result is 1.
RebuildFails(v, tree) ==
  /\ Set(v, tree)
  /\ UNCHANGED <<committed, mirror, sent>>
  /\ LeftBehind({v} \cup Others(v))

FrameworkDispatch(v, changed) ==
  IF changed
  THEN \E tree \in Trees : \/ Patch(v, tree)
                           \/ Rebuild(v, tree)
                           \/ RebuildFails(v, tree)
  ELSE NothingSet

\* Anything but a scroll: a click or a key of the window's view, or an injected
\* event, of any view.
OtherEvent(v) ==
  /\ Idle /\ window # NoView
  /\ \E changed \in BOOLEAN :
       FrameworkDispatch(v, changed) /\ NotifyIfChanged(v, changed)
  /\ UNCHANGED <<known, window, painted, next, handle, deferred, wheels, opens>>

\* The marker of a key that belongs to the input method.
Marker ==
  /\ Idle /\ window # NoView
  /\ \E changed \in BOOLEAN : FrameworkDispatch(window, changed) /\ Unheard(changed)
  /\ UNCHANGED <<known, window, painted, next, handle, deferred, wheels, opens>>

\* Code of the application that runs while no window does sets cells.
SetOutside(v) ==
  /\ window = NoView
  /\ \E tree \in Trees \ {want[v]} : Set(v, tree)
  /\ UNCHANGED <<committed, scroll, window, painted, next, redraw, silent,
                 handle, deferred, wheels, opens>>
  /\ LeftBehind({v} \cup Others(v))

-----------------------------------------------------------------------------
(* The window, the wheel and the frame.                                    *)

Open(v) ==
  /\ window = NoView /\ opens < MaxOpens
  /\ window' = v /\ opens' = opens + 1
  /\ painted' = NoTree /\ redraw' = TRUE /\ silent' = FALSE /\ handle' = <<>>
  /\ UNCHANGED <<app, scroll, next, deferred, wheels>>

\* The maps survive the window.
Close ==
  /\ Idle /\ window # NoView
  /\ window' = NoView /\ redraw' = FALSE /\ silent' = FALSE
  /\ UNCHANGED <<app, scroll, painted, next, handle, deferred, wheels, opens>>

\* Mutant of Wheel: retains the handle of a keyless div.
WheelKeyless ==
  /\ Idle /\ window # NoView /\ painted # NoTree /\ wheels < MaxWheel
  /\ \E d \in Range(painted.shape), o \in WheelTo : handle' = Put(handle, d.key, o)
  /\ Asks(TRUE) /\ wheels' = wheels + 1
  /\ UNCHANGED <<app, scroll, window, painted, next, deferred, opens>>

\* gpui's wheel listener, over a div of the last frame; unclamped.
Wheel ==
  /\ Idle /\ window # NoView /\ painted # NoTree /\ wheels < MaxWheel
  /\ \E d \in Range(painted.shape), o \in WheelTo :
       handle' = IF d.key = NoKey THEN handle ELSE Put(handle, d.key, o)
  /\ Asks(TRUE) /\ wheels' = wheels + 1
  /\ UNCHANGED <<app, scroll, window, painted, next, deferred, opens>>

\* Mutant of Draw: an equal shape is not taken again.
DrawCached ==
  /\ Idle /\ window # NoView /\ redraw
  /\ painted' = IF painted # NoTree /\ painted.shape = committed[window].shape
                  THEN painted ELSE committed[window]
  /\ next' = 1 /\ redraw' = FALSE /\ silent' = FALSE
  /\ UNCHANGED <<app, scroll, window, handle, deferred, wheels, opens>>

\* Render takes the committed tree; gpui's prepaint clamps its handles.
Draw ==
  /\ Idle /\ window # NoView /\ redraw
  /\ painted' = committed[window] /\ next' = 1
  /\ redraw' = FALSE /\ silent' = FALSE
  /\ handle' = [k \in DOMAIN handle |->
       IF \E d \in Range(committed[window].shape) : d.key = k
         THEN Clamp(CHOOSE d \in Range(committed[window].shape) : d.key = k,
                    handle[k])
         ELSE handle[k]]
  /\ UNCHANGED <<app, scroll, window, deferred, wheels, opens>>

\* Mutant of PaintDiv: only seeds SCROLL_SENT.
PaintDivSeedingOnly ==
  /\ next # 0 /\ next <= Len(painted.shape)
  /\ LET d == painted.shape[next]
         p == <<window, d.sid>>
         o == Clamp(d, ScrollHandleFor(d))
     IN /\ mirror' = Put(mirror, p, o)
        /\ sent' = IF p \in DOMAIN sent THEN sent ELSE Put(sent, p, o)
        /\ known' = IF p \in DOMAIN sent THEN known ELSE Put(known, p, o)
        /\ deferred' = IF p \in DOMAIN sent /\ sent[p] # o
                         THEN Append(deferred, p) ELSE deferred
  /\ next' = next + 1
  /\ UNCHANGED <<app, window, painted, redraw, silent, handle, wheels, opens>>

\* ScrollFeedback::paint of the next div.
PaintDiv ==
  /\ next # 0 /\ next <= Len(painted.shape)
  /\ LET d == painted.shape[next]
         p == <<window, d.sid>>
         o == Clamp(d, ScrollHandleFor(d))
     IN /\ mirror' = Put(mirror, p, o)
        /\ sent' = Put(sent, p, o)
        /\ known' = IF p \in DOMAIN sent THEN known ELSE Put(known, p, o)
        /\ deferred' = IF p \in DOMAIN sent /\ sent[p] # o
                         THEN Append(deferred, p) ELSE deferred
  /\ next' = next + 1
  /\ UNCHANGED <<app, window, painted, redraw, silent, handle, wheels, opens>>

EndDraw ==
  /\ next # 0 /\ next > Len(painted.shape)
  /\ next' = 0
  /\ UNCHANGED <<app, scroll, window, painted, redraw, silent, handle,
                 deferred, wheels, opens>>

\* Mutant of DeliverScroll: one dispatch for everything that is deferred.
DeliverScrollOnce ==
  /\ next = 0 /\ deferred # <<>>
  /\ known' = Pull(Head(deferred))
  /\ \E changed \in BOOLEAN :
       /\ FrameworkDispatch(Head(deferred)[1], changed)
       /\ NotifyIfChanged(Head(deferred)[1], changed)
  /\ deferred' = <<>>
  /\ UNCHANGED <<window, painted, next, handle, wheels, opens>>

\* The deferred closure, once the draw is over: dispatch, and notify if 1.
DeliverScroll ==
  /\ next = 0 /\ deferred # <<>>
  /\ known' = Pull(Head(deferred))
  /\ \E changed \in BOOLEAN :
       /\ FrameworkDispatch(Head(deferred)[1], changed)
       /\ NotifyIfChanged(Head(deferred)[1], changed)
  /\ deferred' = Tail(deferred)
  /\ UNCHANGED <<window, painted, next, handle, wheels, opens>>

Next ==
  \/ \E v \in Views : OtherEvent(v) \/ SetOutside(v) \/ Open(v)
  \/ Marker \/ Close \/ Wheel \/ Draw \/ PaintDiv \/ EndDraw \/ DeliverScroll

Spec == Init /\ [][Next]_vars

\* gpui draws a dirty window, and flushes its effects after the draw.
FairSpec ==
  /\ Spec
  /\ WF_vars(Draw) /\ WF_vars(PaintDiv \/ EndDraw) /\ WF_vars(DeliverScroll)

-----------------------------------------------------------------------------
(* Properties.                                                             *)

TypeOK ==
  /\ want \in [Views -> Trees] /\ committed \in [Views -> Trees]
  /\ redraw \in BOOLEAN /\ silent \in BOOLEAN
  /\ excused \subseteq Views
  /\ window \in Views \cup {NoView} /\ painted \in Trees \cup {NoTree}
  /\ next \in Nat
  /\ DOMAIN handle \subseteq Keys /\ Range(handle) \subseteq Int
  /\ DOMAIN mirror \subseteq Pairs /\ Range(mirror) \subseteq Int
  /\ DOMAIN sent \subseteq Pairs /\ Range(sent) \subseteq Int
  /\ DOMAIN known \subseteq Pairs /\ Range(known) \subseteq Int
  /\ deferred \in Seq(Pairs)
  /\ wheels \in 0 .. MaxWheel /\ changes \in 0 .. MaxChanges
  /\ opens \in 0 .. MaxOpens

\* The mirror and the edge-detection map are never stale against each other
\* or against the tree: through seeds, paints, prunes of one view among
\* several, and reopened windows they hold the same pairs with the same
\* offsets, and only pairs of committed trees (2765-2778, 5616-5637).
MapsAgree ==
  /\ sent = mirror
  /\ \A p \in DOMAIN mirror : p[2] \in Sids(committed[p[1]])

\* Notify-then-pull loses no change: an offset that the application has
\* neither pulled nor been seeded with has an EVENT_SCROLL on its way, also
\* when the handler of an earlier one swaps the tree (2722-2726, 5625-5646).
UnheardIsDeferred ==
  \A p \in DOMAIN mirror : known[p] # mirror[p] => p \in Range(deferred)

\* After a frame and until the next is asked for, a pull returns the offset
\* that is on the screen: in range, and that of the div that carries the id
\* (5610-5624, gpui's own clamp included).
PullIsOnScreen ==
  window # NoView /\ next = 0 /\ ~redraw =>
    \A d \in Range(painted.shape) :
      <<window, d.sid>> \in DOMAIN mirror =>
        /\ mirror[<<window, d.sid>>] \in -d.max .. 0
        /\ mirror[<<window, d.sid>>] = ScrollHandleFor(d)

\* A tree differs from the one the store describes only after a rebuild that
\* failed, a set that no dispatch saw, or a set in the dispatch of another view,
\* with which the one dirty flag is spent: for the view it dispatches to, the
\* dirty window, patch and rebuild together lose no other change
\* (framework.mbt:27-78, store.mbt:38-45, 117-141).
OnlyExcusedBehind == \A v \in Views : committed[v] # want[v] => v \in excused

\* Feedback does not feed itself: when the wheel rests and what the
\* application wants no longer changes, announcements end, even though a
\* handler that stores what it pulled makes every announcement rebuild the
\* tree and draw it again (5625-5646).
EventuallyQuiet == <>[](deferred = <<>>)

\* Why it ends (5610-5646).  A frame leaves every id of the tree in the mirror
\* with the offset of its div; from then on no dispatch that keeps the scroll
\* divs, however often it rebuilds and redraws the tree, and no draw announces
\* anything.  Only the wheel, another shape or another window unsettle it.
Settled ==
  /\ window # NoView
  /\ \A d \in Range(committed[window].shape) :
       /\ <<window, d.sid>> \in DOMAIN mirror
       /\ mirror[<<window, d.sid>>] = Clamp(d, ScrollHandleFor(d))

KeepsDivs == window' = window /\ committed'[window].shape = committed[window].shape

SettledStaysQuiet ==
  [][/\ EndDraw => Settled'
     /\ Settled /\ KeepsDivs /\ ~Wheel => Settled' /\ Len(deferred') <= Len(deferred)]_vars

\* Whatever the application wants is on the screen again and again, unless the
\* window is closed, its tree was left behind, or a marker that nobody heard
\* has changed the tree since a frame was last asked for (lib.rs 4413).
WantedIsShown ==
  []<>(\/ window = NoView
       \/ window \in excused \/ silent
       \/ painted = want[window])

\* An open window that is owed no frame shows what the application wants,
\* unless its tree was left behind, or changed by a marker that nobody heard
\* (4413, 4684-4705, framework.mbt:27-78).
WantedUnlessOwed ==
  window # NoView /\ ~redraw => painted = want[window] \/ window \in excused \/ silent

\* A window whose tree a handler patches or rebuilds, also the handler of an
\* announcement that the draw of the old tree deferred, is owed a frame until
\* one shows that tree (4684-4705, 5625-5646); the marker's handler (4413) is
\* the one exception.
Screen == INSTANCE Redraw WITH
  Nothing <- NoTree, shown <- painted, owed <- redraw, silent <- silent,
  open <- window # NoView,
  tree <- IF window = NoView THEN NoTree ELSE committed[window]

ImplementsRedraw == Screen!Spec
=============================================================================
