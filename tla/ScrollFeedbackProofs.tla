------------------------ MODULE ScrollFeedbackProofs ------------------------
(***************************************************************************)
(* Proofs about ScrollFeedback, for any views, shapes, offsets and number  *)
(* of steps: the two maps agree with each other and with the trees, every  *)
(* offset that the application does not know is on its way to it, only the *)
(* excused views are behind the store that all share, and a pull finds     *)
(* what is shown.                                                          *)
(*                                                                         *)
(* What makes the paint safe is that nothing commits between the render    *)
(* that took the tree and the last of its divs (DrawsCommitted), because   *)
(* dispatches run while no draw is under way.                              *)
(***************************************************************************)
EXTENDS ScrollFeedback, SequenceTheorems, FiniteSetTheorems, TLAPS

ScrollTypes ==
  /\ committed \in [Views -> Trees] /\ want \in [Views -> Trees]
  /\ window \in Views \cup {NoView} /\ next \in Nat
  /\ deferred \in Seq(Pairs)
  /\ DOMAIN mirror \subseteq Pairs

DrawsCommitted == next # 0 => window \in Views /\ painted = committed[window]

\* The first observation of an id seeds the application.
SeedIsKnown == DOMAIN mirror \subseteq DOMAIN known

ScrollInv ==
  /\ ScrollTypes /\ DrawsCommitted /\ SeedIsKnown
  /\ MapsAgree /\ UnheardIsDeferred /\ OnlyExcusedBehind

\* The part of the invariant that is about trees, and the part about offsets
\* while p is taken off the deferred dispatches.
StoreKept ==
  /\ committed' \in [Views -> Trees] /\ want' \in [Views -> Trees]
  /\ OnlyExcusedBehind'

Pruned ==
  /\ MapsAgree' /\ DOMAIN mirror' \subseteq DOMAIN mirror
  /\ \A p \in DOMAIN mirror' : mirror'[p] = mirror[p]

-----------------------------------------------------------------------------
(* Dispatch.                                                               *)

LEMMA PairsOfViews ==
  ASSUME NEW p \in Pairs
  PROVE  p[1] \in Views
BY DEF Pairs

\* Cells are set in the dispatch of v: whoever wants another tree now is among
\* the others, or is v.
LEMMA SetIsTyped ==
  ASSUME NEW v \in Views, NEW moment, NEW wanted \in [Views -> Trees],
         SetAll(v, moment, wanted)
  PROVE  /\ want' \in [Views -> Trees] /\ want'[v] = wanted[v]
         /\ \A u \in Views : want'[u] = want[u] \/ u = v \/ u \in Others(v)
BY DEF SetAll, Others

\* Trees that do not change are behind only if they were, or if somebody else's
\* sets left them so.
LEMMA LeavesExcused ==
  ASSUME OnlyExcusedBehind, NEW v \in Views, NEW views, Others(v) \subseteq views,
         LeftBehind(views),
         \A u \in Views : want'[u] = want[u] \/ u = v \/ u \in Others(v),
         \A u \in Views \ {v} : committed'[u] = committed[u],
         committed'[v] = want'[v] \/ v \in views
  PROVE  OnlyExcusedBehind'
<1> SUFFICES ASSUME NEW u \in Views, committed'[u] # want'[u]
             PROVE  u \in excused \cup views
  BY DEF OnlyExcusedBehind, LeftBehind
<1>1. CASE u = v
  BY <1>1
<1>2. CASE u # v
  BY <1>2 DEF OnlyExcusedBehind
<1> QED BY <1>1, <1>2

\* The committed tree is exchanged, and the maps are restricted to its ids.
LEMMA PruneAgrees ==
  ASSUME ScrollInv, NEW v \in Views, NEW t \in Trees, Prune(v, t),
         committed' = [committed EXCEPT ![v] = t]
  PROVE  Pruned
<1> DEFINE kept == DOMAIN mirror \ Stale(v, t)
<1>1. sent = mirror /\ DOMAIN mirror \subseteq Pairs
      /\ committed \in [Views -> Trees]
  BY DEF ScrollInv, ScrollTypes, MapsAgree
<1>2. /\ mirror' = [p \in kept |-> mirror[p]]
      /\ sent' = [p \in kept |-> mirror[p]]
  BY <1>1 DEF Prune, Restrict
<1>3. ASSUME NEW p \in kept
      PROVE  p[2] \in Sids(committed'[p[1]])
  <2>1. p \in Pairs /\ p[1] \in Views /\ p[2] \in Sids(committed[p[1]])
    BY <1>1, PairsOfViews DEF ScrollInv, MapsAgree
  <2>2. CASE p[1] = v
    BY <1>1, <2>1, <2>2 DEF Stale
  <2>3. CASE p[1] # v
    BY <1>1, <2>1, <2>3
  <2> QED BY <2>2, <2>3
<1> QED BY <1>2, <1>3 DEF Pruned, MapsAgree

LEMMA DispatchKeeps ==
  ASSUME ScrollInv, NEW v \in Views, NEW changed, FrameworkDispatch(v, changed)
  PROVE  StoreKept /\ Pruned
<1>1. committed \in [Views -> Trees] /\ want \in [Views -> Trees]
      /\ OnlyExcusedBehind
  BY DEF ScrollInv, ScrollTypes
<1>2. CASE NothingSet
  <2>1. UNCHANGED <<want, committed, excused, mirror, sent>>
    BY <1>2 DEF NothingSet
  <2> QED BY <2>1, <1>1 DEF StoreKept, Pruned, OnlyExcusedBehind, MapsAgree, ScrollInv
<1>3. ASSUME NEW t \in Trees, Patch(v, t)
      PROVE  StoreKept /\ Pruned
  <2>1. /\ committed[v].shape = t.shape
        /\ committed' = [committed EXCEPT ![v] = t]
        /\ LeftBehind(Others(v)) /\ UNCHANGED <<mirror, sent>>
    BY <1>3 DEF Patch
  <2>2. PICK wanted \in [Views -> Trees] : wanted[v] = t /\ SetAll(v, t, wanted)
    BY <1>3 DEF Patch, Set
  <2>3. /\ want' \in [Views -> Trees] /\ want'[v] = t
        /\ \A u \in Views : want'[u] = want[u] \/ u = v \/ u \in Others(v)
    BY <2>2, SetIsTyped
  <2>4. StoreKept
    <3>1. committed' \in [Views -> Trees] /\ committed'[v] = want'[v]
          /\ \A u \in Views \ {v} : committed'[u] = committed[u]
      BY <1>1, <2>1, <2>3
    <3> QED BY <1>1, <2>1, <2>3, <3>1, LeavesExcused DEF StoreKept
  <2>5. \A w \in Views : Sids(committed'[w]) = Sids(committed[w])
    BY <1>1, <2>1 DEF Sids
  <2>6. Pruned
    BY <2>1, <2>5, PairsOfViews DEF Pruned, MapsAgree, ScrollInv, ScrollTypes
  <2> QED BY <2>4, <2>6
<1>4. ASSUME NEW t \in Trees, Rebuild(v, t)
      PROVE  StoreKept /\ Pruned
  <2> DEFINE behind == Others(v) \cup (IF want'[v] = t THEN {} ELSE {v})
  <2>1. /\ committed' = [committed EXCEPT ![v] = t] /\ Prune(v, t)
        /\ LeftBehind(behind)
    BY <1>4 DEF Rebuild
  <2>2. PICK wanted \in [Views -> Trees] : SetAll(v, t, wanted)
    BY <1>4 DEF Rebuild
  <2>3. /\ want' \in [Views -> Trees]
        /\ \A u \in Views : want'[u] = want[u] \/ u = v \/ u \in Others(v)
    BY <2>2, SetIsTyped
  <2>4. /\ committed' \in [Views -> Trees] /\ committed'[v] = t
        /\ \A u \in Views \ {v} : committed'[u] = committed[u]
    BY <1>1, <2>1
  <2>5. Others(v) \subseteq behind /\ (committed'[v] = want'[v] \/ v \in behind)
    BY <2>4
  <2> HIDE DEF behind
  <2>6. StoreKept
    BY <1>1, <2>1, <2>3, <2>4, <2>5, LeavesExcused DEF StoreKept
  <2>7. Pruned
    BY <2>1, PruneAgrees
  <2> QED BY <2>6, <2>7
<1>5. ASSUME NEW t \in Trees, RebuildFails(v, t)
      PROVE  StoreKept /\ Pruned
  <2>1. LeftBehind({v} \cup Others(v)) /\ UNCHANGED <<committed, mirror, sent>>
    BY <1>5 DEF RebuildFails
  <2>2. PICK wanted \in [Views -> Trees] : wanted[v] = t /\ SetAll(v, t, wanted)
    BY <1>5 DEF RebuildFails, Set
  <2>3. /\ want' \in [Views -> Trees]
        /\ \A u \in Views : want'[u] = want[u] \/ u = v \/ u \in Others(v)
    BY <2>2, SetIsTyped
  <2>4. StoreKept
    BY <1>1, <2>1, <2>3, LeavesExcused DEF StoreKept
  <2>5. Pruned
    BY <2>1 DEF Pruned, MapsAgree, ScrollInv
  <2> QED BY <2>4, <2>5
<1> QED BY <1>2, <1>3, <1>4, <1>5 DEF FrameworkDispatch

-----------------------------------------------------------------------------
(* The steps.                                                              *)

\* A dispatch between frames that pulls nothing.
LEMMA IdleDispatchKeeps ==
  ASSUME ScrollInv, NEW v \in Views, NEW changed, FrameworkDispatch(v, changed),
         next = 0, UNCHANGED <<known, window, next, deferred>>
  PROVE  ScrollInv'
<1>1. StoreKept /\ Pruned
  BY DispatchKeeps
<1>2. UnheardIsDeferred' /\ SeedIsKnown'
  BY <1>1 DEF Pruned, UnheardIsDeferred, SeedIsKnown, ScrollInv
<1> QED BY <1>1, <1>2 DEF ScrollInv, ScrollTypes, DrawsCommitted, StoreKept, Pruned

LEMMA OtherEventKeeps ==
  ASSUME ScrollInv, NEW v \in Views, OtherEvent(v)
  PROVE  ScrollInv'
<1>1. PICK changed \in BOOLEAN : FrameworkDispatch(v, changed)
  BY DEF OtherEvent
<1>2. next = 0 /\ UNCHANGED <<known, window, next, deferred>>
  BY DEF OtherEvent, Idle
<1> QED BY <1>1, <1>2, IdleDispatchKeeps

LEMMA MarkerKeeps ==
  ASSUME ScrollInv, Marker
  PROVE  ScrollInv'
<1>1. PICK changed \in BOOLEAN : FrameworkDispatch(window, changed)
  BY DEF Marker
<1>2. next = 0 /\ UNCHANGED <<known, window, next, deferred>>
  BY DEF Marker, Idle
<1>3. window \in Views
  BY DEF Marker, ScrollInv, ScrollTypes
<1> QED BY <1>1, <1>2, <1>3, IdleDispatchKeeps

\* The handler knows what it pulled; the rest of the queue is unchanged.
LEMMA DeliverKeeps ==
  ASSUME ScrollInv, DeliverScroll
  PROVE  ScrollInv'
<1> DEFINE p == Head(deferred)
<1>1. /\ deferred \in Seq(Pairs) /\ deferred # <<>>
      /\ deferred' = Tail(deferred) /\ known' = Pull(p)
      /\ next = 0 /\ UNCHANGED <<window, next>>
  BY DEF DeliverScroll, ScrollInv, ScrollTypes
<1>2. p \in Pairs /\ p[1] \in Views /\ deferred' \in Seq(Pairs)
  BY <1>1, PairsOfViews
<1>3. StoreKept /\ Pruned
  <2>1. PICK changed \in BOOLEAN : FrameworkDispatch(p[1], changed)
    BY DEF DeliverScroll
  <2> QED BY <1>2, <2>1, DispatchKeeps
<1>4. ASSUME NEW q \in Range(deferred), q # p
      PROVE  q \in Range(deferred')
  <2>1. PICK i \in DOMAIN deferred : q = deferred[i]
    BY DEF Range
  <2>2. i \in 2 .. Len(deferred)
    BY <1>1, <1>4, <2>1
  <2>3. i - 1 \in DOMAIN deferred' /\ deferred'[i - 1] = q
    BY <1>1, <2>1, <2>2
  <2> QED BY <2>3 DEF Range
<1>5. /\ DOMAIN known \subseteq DOMAIN known'
      /\ \A q \in DOMAIN known : q # p => known'[q] = known[q]
      /\ p \in DOMAIN mirror => known'[p] = mirror[p]
  BY <1>1 DEF Pull, Put
<1>6. SeedIsKnown'
  BY <1>3, <1>5 DEF Pruned, SeedIsKnown, ScrollInv
<1>7. UnheardIsDeferred'
  <2> SUFFICES ASSUME NEW q \in DOMAIN mirror', known'[q] # mirror'[q]
               PROVE  q \in Range(deferred')
    BY DEF UnheardIsDeferred
  <2>1. q \in DOMAIN mirror /\ mirror'[q] = mirror[q] /\ q \in DOMAIN known
    BY <1>3 DEF Pruned, SeedIsKnown, ScrollInv
  <2>2. q # p /\ known[q] # mirror[q]
    BY <1>5, <2>1
  <2> QED BY <1>4, <2>1, <2>2 DEF UnheardIsDeferred, ScrollInv
<1> QED BY <1>1, <1>2, <1>3, <1>6, <1>7 DEF ScrollInv, ScrollTypes, DrawsCommitted,
                                            StoreKept, Pruned

LEMMA PaintKeeps ==
  ASSUME ScrollInv, ScrollAssumption, PaintDiv
  PROVE  ScrollInv'
<1> DEFINE d == painted.shape[next]
           p == <<window, d.sid>>
           o == Clamp(d, ScrollHandleFor(d))
<1>1. /\ next \in Nat /\ window \in Views /\ painted = committed[window]
      /\ painted \in Trees /\ next \in 1 .. Len(painted.shape)
  BY DEF PaintDiv, ScrollInv, ScrollTypes, DrawsCommitted
<1>2. painted.shape \in Shapes /\ painted.shape \in Seq(Divs)
  BY <1>1 DEF Trees, ScrollAssumption
<1>3. d \in Divs /\ d \in Range(painted.shape)
  BY <1>1, <1>2 DEF Range
<1>4. p \in Pairs /\ p[1] = window /\ p[2] \in Sids(committed[window])
  BY <1>1, <1>3 DEF Pairs, Sids
<1>5. sent = mirror /\ deferred \in Seq(Pairs)
  BY DEF ScrollInv, ScrollTypes, MapsAgree
<1>6. /\ mirror' = Put(mirror, p, o) /\ sent' = mirror' /\ next' = next + 1
      /\ known' = IF p \in DOMAIN mirror THEN known ELSE Put(known, p, o)
      /\ deferred' = IF p \in DOMAIN mirror /\ mirror[p] # o
                       THEN Append(deferred, p) ELSE deferred
      /\ UNCHANGED <<window, painted, want, committed, excused>>
  BY <1>5 DEF PaintDiv, app
<1> HIDE DEF o
<1>7. /\ DOMAIN mirror' = DOMAIN mirror \cup {p} /\ mirror'[p] = o
      /\ \A q \in DOMAIN mirror : q # p => mirror'[q] = mirror[q]
  BY <1>6 DEF Put
<1>8. /\ DOMAIN known \cup {p} \subseteq DOMAIN known'
      /\ \A q \in DOMAIN known : q # p => known'[q] = known[q]
      /\ p \notin DOMAIN mirror => known'[p] = o
      /\ p \in DOMAIN mirror => known' = known
  <2>1. CASE p \in DOMAIN mirror
    BY <1>6, <2>1 DEF SeedIsKnown, ScrollInv
  <2>2. CASE p \notin DOMAIN mirror
    BY <1>6, <2>2 DEF Put
  <2> QED BY <2>1, <2>2
<1>9. /\ deferred' \in Seq(Pairs) /\ Range(deferred) \subseteq Range(deferred')
      /\ p \in DOMAIN mirror /\ mirror[p] # o => p \in Range(deferred')
  <2>1. CASE deferred' = deferred /\ ~(p \in DOMAIN mirror /\ mirror[p] # o)
    BY <1>5, <2>1
  <2>2. CASE deferred' = Append(deferred, p)
    <3>1. /\ deferred' \in Seq(Pairs) /\ DOMAIN deferred \subseteq DOMAIN deferred'
          /\ \A i \in DOMAIN deferred : deferred'[i] = deferred[i]
          /\ Len(deferred) + 1 \in DOMAIN deferred'
          /\ deferred'[Len(deferred) + 1] = p
      BY <1>4, <1>5, <2>2
    <3> QED BY <3>1 DEF Range
  <2> QED BY <1>6, <2>1, <2>2
<1>10. MapsAgree'
  BY <1>4, <1>6, <1>7 DEF MapsAgree, ScrollInv
<1>11. SeedIsKnown' /\ OnlyExcusedBehind'
  BY <1>6, <1>7, <1>8 DEF SeedIsKnown, OnlyExcusedBehind, ScrollInv
<1>12. UnheardIsDeferred'
  <2> SUFFICES ASSUME NEW q \in DOMAIN mirror', known'[q] # mirror'[q]
               PROVE  q \in Range(deferred')
    BY DEF UnheardIsDeferred
  <2>1. CASE q # p
    <3>1. q \in DOMAIN mirror /\ q \in DOMAIN known
      BY <1>7, <2>1 DEF SeedIsKnown, ScrollInv
    <3> QED BY <1>7, <1>8, <1>9, <2>1, <3>1 DEF UnheardIsDeferred, ScrollInv
  <2>2. CASE q = p
    <3>1. p \in DOMAIN mirror /\ known[p] # o
      BY <1>7, <1>8, <2>2
    <3> QED BY <1>9, <2>2, <3>1 DEF UnheardIsDeferred, ScrollInv
  <2> QED BY <2>1, <2>2
<1>13. ScrollTypes'
  <2>1. next' \in Nat /\ DOMAIN mirror' \subseteq Pairs
    BY <1>1, <1>4, <1>6, <1>7 DEF ScrollTypes, ScrollInv
  <2> QED BY <1>6, <1>9, <2>1 DEF ScrollTypes, ScrollInv
<1>14. DrawsCommitted'
  BY <1>1, <1>6 DEF DrawsCommitted
<1> QED BY <1>10, <1>11, <1>12, <1>13, <1>14 DEF ScrollInv

\* Windows, the wheel and the ends of a draw touch neither maps nor trees.
LEMMA WindowKeeps ==
  ASSUME ScrollInv, ScrollAssumption,
         \/ \E v \in Views : Open(v)
         \/ Close \/ Wheel \/ Draw \/ EndDraw \/ UNCHANGED vars
  PROVE  ScrollInv'
<1>1. UNCHANGED <<want, committed, excused, mirror, sent, known, deferred>>
  <2>1. CASE Wheel
    BY <2>1 DEF Wheel, app, scroll
  <2>2. ASSUME NEW v \in Views, Open(v)
        PROVE  UNCHANGED <<want, committed, excused, mirror, sent, known, deferred>>
    BY <2>2 DEF Open, app, scroll
  <2>3. CASE Close \/ Draw \/ EndDraw \/ UNCHANGED vars
    BY <2>3 DEF Close, Draw, EndDraw, vars, app, scroll
  <2> QED BY <2>1, <2>2, <2>3
<1>2. window' \in Views \cup {NoView} /\ next' \in Nat
  <2>1. window \in Views \cup {NoView} /\ next \in Nat
    BY DEF ScrollInv, ScrollTypes
  <2>2. CASE Wheel
    BY <2>1, <2>2 DEF Wheel
  <2>3. ASSUME NEW v \in Views, Open(v)
        PROVE  window' \in Views \cup {NoView} /\ next' \in Nat
    BY <2>1, <2>3 DEF Open
  <2>4. CASE Close \/ Draw \/ EndDraw \/ UNCHANGED vars
    BY <2>1, <2>4 DEF Close, Draw, EndDraw, vars
  <2> QED BY <2>2, <2>3, <2>4
<1>3. DrawsCommitted'
  <2>1. CASE Draw
    BY <1>1, <2>1 DEF Draw, DrawsCommitted, ScrollInv, ScrollTypes
  <2>2. ASSUME NEW v \in Views, Open(v)
        PROVE  DrawsCommitted'
    BY <1>1, <2>2, <1>2 DEF Open, DrawsCommitted, ScrollInv, ScrollTypes, ScrollAssumption
  <2>3. CASE Close \/ Wheel \/ EndDraw \/ UNCHANGED vars
    BY <1>1, <2>3 DEF Close, Wheel, EndDraw, vars, Idle, DrawsCommitted, ScrollInv
  <2> QED BY <2>1, <2>2, <2>3
<1> QED BY <1>1, <1>2, <1>3 DEF ScrollInv, ScrollTypes, SeedIsKnown, MapsAgree,
                                UnheardIsDeferred, OnlyExcusedBehind

LEMMA SetOutsideKeeps ==
  ASSUME ScrollInv, NEW v \in Views, SetOutside(v)
  PROVE  ScrollInv'
<1>1. PICK t \in Trees, wanted \in [Views -> Trees] :
        wanted[v] = t /\ SetAll(v, t, wanted)
  BY DEF SetOutside, Set
<1>2. /\ LeftBehind({v} \cup Others(v))
      /\ UNCHANGED <<committed, mirror, sent, known, window, painted, next, deferred>>
  BY DEF SetOutside, scroll
<1>3. /\ want' \in [Views -> Trees]
      /\ \A u \in Views : want'[u] = want[u] \/ u = v \/ u \in Others(v)
  BY <1>1, SetIsTyped
<1>4. OnlyExcusedBehind'
  BY <1>2, <1>3, LeavesExcused DEF ScrollInv
<1> QED BY <1>2, <1>3, <1>4 DEF ScrollInv, ScrollTypes, DrawsCommitted, SeedIsKnown,
                                MapsAgree, UnheardIsDeferred

LEMMA StepKeepsScroll ==
  ASSUME ScrollInv, ScrollAssumption, [Next]_vars
  PROVE  ScrollInv'
BY OtherEventKeeps, MarkerKeeps, SetOutsideKeeps, WindowKeeps, PaintKeeps, DeliverKeeps
   DEF Next

LEMMA InitScroll ==
  ASSUME Init, ScrollAssumption
  PROVE  ScrollInv
<1>1. committed \in [Views -> Trees] /\ want = committed
  BY DEF Init, ScrollAssumption
<1> QED BY <1>1 DEF Init, ScrollInv, ScrollTypes, DrawsCommitted, SeedIsKnown,
                    MapsAgree, UnheardIsDeferred, OnlyExcusedBehind

-----------------------------------------------------------------------------
\* SCROLL_MIRROR and SCROLL_SENT hold the same ids, all of committed trees, with
\* the same offsets (lib.rs 2765-2778, 5616-5637).
THEOREM TheMapsAgree == Spec => []MapsAgree
<1>1. ScrollInv => MapsAgree
  BY DEF ScrollInv
<1> QED BY InitScroll, StepKeepsScroll, ScrollAssumption, <1>1, PTL DEF Spec

\* No change of an offset goes unannounced (lib.rs 5625-5646).
THEOREM NothingGoesUnheard == Spec => []UnheardIsDeferred
<1>1. ScrollInv => UnheardIsDeferred
  BY DEF ScrollInv
<1> QED BY InitScroll, StepKeepsScroll, ScrollAssumption, <1>1, PTL DEF Spec

\* Failed rebuilds, unseen sets and sets in the dispatch of another view are the
\* only ways to leave a tree behind the store, however many views share it
\* (framework.mbt:27-78, store.mbt:38-45, 117-141).
THEOREM OnlyTheExcusedAreBehind == Spec => []OnlyExcusedBehind
<1>1. ScrollInv => OnlyExcusedBehind
  BY DEF ScrollInv
<1> QED BY InitScroll, StepKeepsScroll, ScrollAssumption, <1>1, PTL DEF Spec

-----------------------------------------------------------------------------
(* What a pull finds.                                                      *)

InRange(d) == ScrollHandleFor(d) \in -d.max .. 0

\* From its prepaint on, a frame's handles are in range, and the divs that are
\* painted have left theirs in the mirror.
ScreenInv ==
  /\ NoKey \notin DOMAIN handle /\ \A k \in DOMAIN handle : handle[k] \in Int
  /\ next # 0 => \A d \in Range(painted.shape) : InRange(d)
  /\ next # 0 =>
       \A i \in 1 .. Len(painted.shape) :
         i < next /\ <<window, painted.shape[i].sid>> \in DOMAIN mirror =>
           mirror[<<window, painted.shape[i].sid>>]
             = ScrollHandleFor(painted.shape[i])
  /\ PullIsOnScreen

LEMMA MaxOfTwo ==
  ASSUME NEW a \in Int, NEW b \in Int
  PROVE  Max({a, b}) = IF a >= b THEN a ELSE b
BY DEF Max

LEMMA MinOfTwo ==
  ASSUME NEW a \in Int, NEW b \in Int
  PROVE  Min({a, b}) = IF a <= b THEN a ELSE b
BY DEF Min

LEMMA ClampIs ==
  ASSUME NEW d, d.max \in Nat, NEW raw \in Int
  PROVE  /\ Clamp(d, raw) \in -d.max .. 0
         /\ raw \in -d.max .. 0 => Clamp(d, raw) = raw
<1>1. Min({raw, 0}) = IF raw <= 0 THEN raw ELSE 0
  BY MinOfTwo
<1>2. Min({raw, 0}) \in Int /\ -d.max \in Int
  BY <1>1
<1>3. Clamp(d, raw) = IF -d.max >= Min({raw, 0}) THEN -d.max ELSE Min({raw, 0})
  BY <1>2, MaxOfTwo DEF Clamp
<1> QED BY <1>1, <1>3

\* A dispatch leaves the window's frame, and takes entries from the mirror only.
LEMMA DispatchShows ==
  ASSUME ScrollInv, ScreenInv, NEW v \in Views, NEW changed,
         FrameworkDispatch(v, changed), ~redraw' => ~redraw,
         UNCHANGED <<window, painted, next, handle>>, next = 0
  PROVE  ScreenInv'
<1>1. Pruned
  BY DispatchKeeps
<1>2. \A d : ScrollHandleFor(d)' = ScrollHandleFor(d)
  BY DEF ScrollHandleFor
<1>3. PullIsOnScreen'
  <2> SUFFICES ASSUME window # NoView, ~redraw', NEW d \in Range(painted.shape),
                      <<window, d.sid>> \in DOMAIN mirror'
               PROVE  /\ mirror'[<<window, d.sid>>] \in -d.max .. 0
                      /\ mirror'[<<window, d.sid>>] = ScrollHandleFor(d)
    BY <1>2 DEF PullIsOnScreen
  <2>1. <<window, d.sid>> \in DOMAIN mirror
        /\ mirror'[<<window, d.sid>>] = mirror[<<window, d.sid>>]
    BY <1>1 DEF Pruned
  <2> QED BY <2>1 DEF ScreenInv, PullIsOnScreen
<1> QED BY <1>3 DEF ScreenInv

\* A key names one div of a shape.
LEMMA KeyedDiv ==
  ASSUME ScrollAssumption, NEW shape \in Shapes, NEW d \in Range(shape), d.key # NoKey
  PROVE  (CHOOSE e \in Range(shape) : e.key = d.key) = d
<1> DEFINE Of == CHOOSE e \in Range(shape) : e.key = d.key
<1>1. shape \in Seq(Divs)
  BY DEF ScrollAssumption
<1>2. PICK i \in 1 .. Len(shape) : d = shape[i]
  BY <1>1 DEF Range
<1>3. Of \in Range(shape) /\ Of.key = d.key
  OBVIOUS
<1> HIDE DEF Of
<1>4. PICK j \in 1 .. Len(shape) : Of = shape[j]
  BY <1>1, <1>3 DEF Range
<1>5. i = j
  BY <1>1, <1>2, <1>3, <1>4 DEF ScrollAssumption
<1> QED BY <1>2, <1>4, <1>5 DEF Of

LEMMA DrawShows ==
  ASSUME ScrollInv, ScreenInv, ScrollAssumption, Draw
  PROVE  ScreenInv'
<1> DEFINE shape == committed[window].shape
           Of(k) == CHOOSE d \in Range(shape) : d.key = k
<1>1. /\ window \in Views /\ committed \in [Views -> Trees]
      /\ UNCHANGED <<window, mirror>>
      /\ painted' = committed[window] /\ next' = 1
  BY DEF Draw, ScrollInv, ScrollTypes, scroll
<1>2. shape \in Shapes /\ shape \in Seq(Divs) /\ \A d \in Divs : d.max \in Nat
  BY <1>1 DEF Trees, ScrollAssumption
<1>3. \A d \in Range(shape) : d \in Divs
  BY <1>2 DEF Range
<1>4. handle' = [k \in DOMAIN handle |->
                  IF \E d \in Range(shape) : d.key = k
                    THEN Clamp(Of(k), handle[k]) ELSE handle[k]]
  BY DEF Draw
<1>5. ASSUME NEW d \in Range(shape), d.key \in DOMAIN handle
      PROVE  Of(d.key) = d
  <2>1. d.key # NoKey
    BY <1>5 DEF ScreenInv
  <2> QED BY <1>2, <2>1, KeyedDiv
<1> HIDE DEF shape, Of
<1>6. /\ DOMAIN handle' = DOMAIN handle
      /\ \A k \in DOMAIN handle : handle[k] \in Int
  BY <1>4 DEF ScreenInv
<1>7. ASSUME NEW d \in Range(shape)
      PROVE  InRange(d)'
  <2>1. CASE d.key \in DOMAIN handle
    <3>1. handle'[d.key] = Clamp(d, handle[d.key])
      BY <1>4, <1>5, <2>1
    <3> QED BY <1>2, <1>3, <1>6, <2>1, <3>1, ClampIs DEF InRange, ScrollHandleFor
  <2>2. CASE d.key \notin DOMAIN handle
    BY <1>2, <1>3, <1>6, <2>2 DEF InRange, ScrollHandleFor
  <2> QED BY <2>1, <2>2
<1>8. ASSUME NEW k \in DOMAIN handle
      PROVE  handle'[k] \in Int
  <2>1. CASE \E d \in Range(shape) : d.key = k
    <3>1. PICK d \in Range(shape) : d.key = k
      BY <2>1
    <3>2. handle'[k] = Clamp(d, handle[k])
      BY <1>4, <1>5, <3>1
    <3>3. d.max \in Nat /\ handle[k] \in Int
      BY <1>2, <1>3, <1>6
    <3> QED BY <3>2, <3>3, ClampIs
  <2>2. CASE ~\E d \in Range(shape) : d.key = k
    BY <1>4, <1>6, <2>2
  <2> QED BY <2>1, <2>2
<1>9. painted'.shape = shape
  BY <1>1 DEF shape
<1>10. (\A d \in Range(painted.shape) : InRange(d))'
  BY <1>7, <1>9
<1> QED BY <1>1, <1>6, <1>8, <1>10 DEF ScreenInv, PullIsOnScreen

LEMMA PaintShows ==
  ASSUME ScrollInv, ScreenInv, ScrollAssumption, PaintDiv
  PROVE  ScreenInv'
<1> DEFINE d == painted.shape[next]
           p == <<window, d.sid>>
           o == ScrollHandleFor(d)
<1>1. /\ next \in Nat /\ next # 0 /\ window \in Views
      /\ painted = committed[window] /\ painted \in Trees
      /\ next \in 1 .. Len(painted.shape)
  BY DEF PaintDiv, ScrollInv, ScrollTypes, DrawsCommitted
<1>2. painted.shape \in Shapes /\ painted.shape \in Seq(Divs)
  BY <1>1 DEF Trees, ScrollAssumption
<1>3. d \in Divs /\ d \in Range(painted.shape) /\ d.max \in Nat
  BY <1>1, <1>2 DEF Range, ScrollAssumption
<1>4. o \in -d.max .. 0
  BY <1>1, <1>3 DEF ScreenInv, InRange
<1>5. Clamp(d, o) = o
  BY <1>3, <1>4, ClampIs
<1>6. mirror' = Put(mirror, p, o) /\ next' = next + 1
      /\ UNCHANGED <<window, painted, handle, redraw>>
  BY <1>5 DEF PaintDiv
<1>7. \A e : ScrollHandleFor(e)' = ScrollHandleFor(e)
  BY <1>6 DEF ScrollHandleFor
<1> HIDE DEF o
<1>8. ASSUME NEW i \in 1 .. Len(painted.shape), i < next',
             <<window, painted.shape[i].sid>> \in DOMAIN mirror'
      PROVE  mirror'[<<window, painted.shape[i].sid>>]
               = ScrollHandleFor(painted.shape[i])
  <2>1. CASE i = next
    BY <1>6, <2>1 DEF Put, o
  <2>2. CASE i # next
    <3>1. painted.shape[i].sid # d.sid
      BY <1>1, <1>2, <2>2 DEF ScrollAssumption
    <3>2. i < next /\ <<window, painted.shape[i].sid>> # p
      BY <1>1, <1>6, <1>8, <2>2, <3>1
    <3>3. /\ <<window, painted.shape[i].sid>> \in DOMAIN mirror
          /\ mirror'[<<window, painted.shape[i].sid>>]
               = mirror[<<window, painted.shape[i].sid>>]
      BY <1>6, <1>8, <3>2 DEF Put
    <3> QED BY <1>1, <3>2, <3>3 DEF ScreenInv
  <2> QED BY <2>1, <2>2
<1>9. next' # 0
  BY <1>1, <1>6
<1>10. (\A e \in Range(painted.shape) : InRange(e))'
  BY <1>1, <1>6, <1>7 DEF ScreenInv, InRange
<1>11. (\A i \in 1 .. Len(painted.shape) :
          i < next /\ <<window, painted.shape[i].sid>> \in DOMAIN mirror =>
            mirror[<<window, painted.shape[i].sid>>]
              = ScrollHandleFor(painted.shape[i]))'
  BY <1>6, <1>7, <1>8
<1> QED BY <1>6, <1>9, <1>10, <1>11 DEF ScreenInv, PullIsOnScreen

\* The last div is painted.
LEMMA EndShows ==
  ASSUME ScrollInv, ScreenInv, ScrollAssumption, EndDraw
  PROVE  ScreenInv'
<1>1. /\ next \in Nat /\ next # 0 /\ next > Len(painted.shape) /\ next' = 0
      /\ UNCHANGED <<window, painted, handle, mirror, redraw>>
      /\ painted \in Trees
  BY DEF EndDraw, scroll, ScrollInv, ScrollTypes, DrawsCommitted
<1>2. painted.shape \in Seq(Divs)
  BY <1>1 DEF Trees, ScrollAssumption
<1>3. ASSUME NEW d \in Range(painted.shape), <<window, d.sid>> \in DOMAIN mirror
      PROVE  /\ mirror[<<window, d.sid>>] \in -d.max .. 0
             /\ mirror[<<window, d.sid>>] = ScrollHandleFor(d)
  <2>1. PICK i \in 1 .. Len(painted.shape) : d = painted.shape[i]
    BY <1>2 DEF Range
  <2>2. i < next
    BY <1>1, <1>2
  <2>3. mirror[<<window, d.sid>>] = ScrollHandleFor(d) /\ InRange(d)
    BY <1>1, <1>3, <2>1, <2>2 DEF ScreenInv
  <2> QED BY <2>3 DEF InRange
<1>4. \A e : ScrollHandleFor(e)' = ScrollHandleFor(e)
  BY <1>1 DEF ScrollHandleFor
<1>5. PullIsOnScreen'
  BY <1>1, <1>3, <1>4 DEF PullIsOnScreen
<1> QED BY <1>1, <1>5 DEF ScreenInv

\* The other steps close the frame or make the window dirty.
LEMMA OtherShows ==
  ASSUME ScrollInv, ScreenInv, ScrollAssumption,
         \/ \E v \in Views : Open(v) \/ SetOutside(v)
         \/ Close \/ Wheel \/ UNCHANGED vars
  PROVE  ScreenInv'
<1>1. CASE Wheel
  <2>1. PICK d \in Range(painted.shape), o \in WheelTo :
          handle' = IF d.key = NoKey THEN handle ELSE Put(handle, d.key, o)
    BY <1>1 DEF Wheel
  <2>2. o \in Int
    BY DEF ScrollAssumption
  <2>3. NoKey \notin DOMAIN handle' /\ \A k \in DOMAIN handle' : handle'[k] \in Int
    BY <2>1, <2>2 DEF Put, ScreenInv
  <2>4. redraw' = TRUE /\ next' = 0
    BY <1>1 DEF Wheel, Idle, Asks
  <2> QED BY <2>3, <2>4 DEF ScreenInv, PullIsOnScreen
<1>2. CASE Close
  BY <1>2 DEF Close, Idle, ScreenInv, PullIsOnScreen
<1>3. ASSUME NEW v \in Views, Open(v)
      PROVE  ScreenInv'
  <2>1. next' = 0 /\ redraw' = TRUE /\ handle' = <<>>
    BY <1>3 DEF Open, ScrollInv, DrawsCommitted, ScrollAssumption
  <2> QED BY <2>1 DEF ScreenInv, PullIsOnScreen
<1>4. CASE UNCHANGED vars \/ \E v \in Views : SetOutside(v)
  <2>1. UNCHANGED <<window, painted, next, handle, mirror, redraw>>
    BY <1>4 DEF SetOutside, vars, scroll
  <2> QED BY <2>1 DEF ScreenInv, PullIsOnScreen, InRange, ScrollHandleFor
<1> QED BY <1>1, <1>2, <1>3, <1>4

LEMMA StepKeepsScreen ==
  ASSUME ScrollInv, ScreenInv, ScrollAssumption, [Next]_vars
  PROVE  ScreenInv'
<1>1. ASSUME NEW v \in Views, OtherEvent(v)
      PROVE  ScreenInv'
  <2>1. PICK changed \in BOOLEAN : FrameworkDispatch(v, changed) /\ NotifyIfChanged(v, changed)
    BY <1>1 DEF OtherEvent
  <2>2. ~redraw' => ~redraw
    BY <2>1 DEF NotifyIfChanged, Asks
  <2> QED BY <1>1, <2>1, <2>2, DispatchShows DEF OtherEvent, Idle
<1>2. CASE DeliverScroll
  <2>1. Head(deferred) \in Pairs
    BY <1>2 DEF DeliverScroll, ScrollInv, ScrollTypes
  <2>2. Head(deferred)[1] \in Views
    BY <2>1, PairsOfViews
  <2>3. PICK changed \in BOOLEAN : /\ FrameworkDispatch(Head(deferred)[1], changed)
                                   /\ NotifyIfChanged(Head(deferred)[1], changed)
    BY <1>2 DEF DeliverScroll
  <2>4. ~redraw' => ~redraw
    BY <2>3 DEF NotifyIfChanged, Asks
  <2> QED BY <1>2, <2>2, <2>3, <2>4, DispatchShows DEF DeliverScroll
<1>3. CASE Marker
  <2>1. PICK changed \in BOOLEAN : FrameworkDispatch(window, changed) /\ Unheard(changed)
    BY <1>3 DEF Marker
  <2>2. window \in Views /\ (~redraw' => ~redraw)
    BY <1>3, <2>1 DEF Marker, Unheard, ScrollInv, ScrollTypes
  <2> QED BY <1>3, <2>1, <2>2, DispatchShows DEF Marker, Idle
<1> QED BY <1>1, <1>2, <1>3, DrawShows, PaintShows, EndShows, OtherShows DEF Next

LEMMA InitScreen == Init => ScreenInv
BY DEF Init, ScreenInv, PullIsOnScreen

\* A pull between a frame and the next finds the offset that the frame shows
\* (lib.rs 5610-5624).
THEOREM PullsAreOnScreen == Spec => []PullIsOnScreen
<1>1. ScreenInv => PullIsOnScreen
  BY DEF ScreenInv
<1> QED BY InitScroll, StepKeepsScroll, InitScreen, StepKeepsScreen,
           ScrollAssumption, <1>1, PTL DEF Spec

-----------------------------------------------------------------------------
(* Types.                                                                  *)

MapOK(f) == DOMAIN f \subseteq Pairs /\ \A p \in DOMAIN f : f[p] \in Int

RestOK ==
  /\ redraw \in BOOLEAN /\ silent \in BOOLEAN /\ excused \subseteq Views
  /\ painted \in Trees \cup {NoTree} /\ DOMAIN handle \subseteq Keys
  /\ MapOK(mirror) /\ MapOK(known)
  /\ wheels \in 0 .. MaxWheel /\ changes \in 0 .. MaxChanges
  /\ opens \in 0 .. MaxOpens

Bounds ==
  /\ MaxWheel \in Nat /\ MaxChanges \in Nat /\ MaxOpens \in Nat
  /\ IsFiniteSet(Views)

LEMMA SetCounts ==
  ASSUME Bounds, RestOK, NEW v, NEW moment, NEW wanted, SetAll(v, moment, wanted)
  PROVE  changes' \in 0 .. MaxChanges
<1> DEFINE other == {u \in Views : wanted[u] # want[u]}
<1>1. Cardinality(other) \in Nat
  BY FS_Subset, FS_CardinalityType DEF Bounds
<1>2. /\ changes' = changes + Cardinality(other) + (IF wanted[v] = moment THEN 0 ELSE 1)
      /\ changes' <= MaxChanges
  BY DEF SetAll
<1> HIDE DEF other
<1> QED BY <1>1, <1>2 DEF Bounds, RestOK

LEMMA LeftBehindTyped ==
  ASSUME RestOK, NEW views \in SUBSET Views, LeftBehind(views)
  PROVE  excused' \subseteq Views
BY DEF LeftBehind, RestOK

LEMMA DispatchTyped ==
  ASSUME Bounds, ScrollInv, RestOK, NEW v \in Views, NEW changed,
         FrameworkDispatch(v, changed)
  PROVE  excused' \subseteq Views /\ MapOK(mirror') /\ changes' \in 0 .. MaxChanges
<1>1. Others(v) \subseteq Views
  BY DEF Others
<1>2. CASE NothingSet
  BY <1>2 DEF NothingSet, RestOK
<1>3. ASSUME NEW t \in Trees, Patch(v, t) \/ Rebuild(v, t) \/ RebuildFails(v, t)
      PROVE  excused' \subseteq Views /\ changes' \in 0 .. MaxChanges
  <2>1. PICK views \in SUBSET Views : LeftBehind(views)
    BY <1>1, <1>3 DEF Patch, Rebuild, RebuildFails
  <2>2. \E wanted : SetAll(v, t, wanted)
    BY <1>3 DEF Patch, Rebuild, RebuildFails, Set
  <2> QED BY <2>1, <2>2, LeftBehindTyped, SetCounts
<1>4. MapOK(mirror')
  BY DispatchKeeps DEF Pruned, MapOK, RestOK
<1> QED BY <1>2, <1>3, <1>4 DEF FrameworkDispatch, RestOK, NothingSet

\* Whether a frame is asked for, or what changed is heard by nobody.
LEMMA AsksTyped ==
  ASSUME RestOK, NEW v, NEW changed \in BOOLEAN,
         NotifyIfChanged(v, changed) \/ Unheard(changed)
  PROVE  redraw' \in BOOLEAN /\ silent' \in BOOLEAN
BY DEF NotifyIfChanged, Asks, Unheard, RestOK

LEMMA PullTyped ==
  ASSUME RestOK, NEW p \in Pairs
  PROVE  MapOK(Pull(p))
BY DEF Pull, Put, MapOK, RestOK

LEMMA PaintTyped ==
  ASSUME ScrollInv, ScreenInv, ScrollAssumption, RestOK, PaintDiv
  PROVE  MapOK(mirror') /\ MapOK(known')
<1> DEFINE d == painted.shape[next]
           p == <<window, d.sid>>
           o == Clamp(d, ScrollHandleFor(d))
<1>1. /\ next \in Nat /\ window \in Views /\ painted \in Trees
      /\ next \in 1 .. Len(painted.shape)
  BY DEF PaintDiv, ScrollInv, ScrollTypes, DrawsCommitted
<1>2. painted.shape \in Seq(Divs)
  BY <1>1 DEF Trees, ScrollAssumption
<1>3. d \in Divs /\ d.max \in Nat
  BY <1>1, <1>2 DEF ScrollAssumption
<1>4. p \in Pairs
  BY <1>1, <1>3 DEF Pairs
<1>5. ScrollHandleFor(d) \in Int
  BY DEF ScrollHandleFor, ScreenInv
<1>6. o \in Int
  BY <1>3, <1>5, ClampIs
<1>7. /\ mirror' = Put(mirror, p, o)
      /\ known' = known \/ known' = Put(known, p, o)
  BY DEF PaintDiv
<1> HIDE DEF p, o
<1> QED BY <1>4, <1>6, <1>7 DEF Put, MapOK, RestOK

LEMMA StepKeepsTypes ==
  ASSUME ScrollInv, ScreenInv, ScrollAssumption, RestOK, [Next]_vars
  PROVE  RestOK'
<1>1. Bounds
  BY DEF ScrollAssumption, Bounds
<1>2. ASSUME NEW v \in Views, OtherEvent(v)
      PROVE  RestOK'
  <2>1. UNCHANGED <<known, painted, handle, wheels, opens>>
    BY <1>2 DEF OtherEvent
  <2>2. PICK changed \in BOOLEAN : FrameworkDispatch(v, changed) /\ NotifyIfChanged(v, changed)
    BY <1>2 DEF OtherEvent
  <2> QED BY <1>1, <2>1, <2>2, DispatchTyped, AsksTyped DEF RestOK
<1>3. CASE DeliverScroll
  <2>1. Head(deferred) \in Pairs
    BY <1>3 DEF DeliverScroll, ScrollInv, ScrollTypes
  <2>2. Head(deferred)[1] \in Views
    BY <2>1, PairsOfViews
  <2>3. known' = Pull(Head(deferred)) /\ UNCHANGED <<painted, handle, wheels, opens>>
    BY <1>3 DEF DeliverScroll
  <2>4. PICK changed \in BOOLEAN : /\ FrameworkDispatch(Head(deferred)[1], changed)
                                   /\ NotifyIfChanged(Head(deferred)[1], changed)
    BY <1>3 DEF DeliverScroll
  <2> QED BY <1>1, <2>1, <2>2, <2>3, <2>4, DispatchTyped, PullTyped, AsksTyped DEF RestOK
<1>4. ASSUME NEW v \in Views, SetOutside(v)
      PROVE  RestOK'
  <2>1. PICK t, wanted : SetAll(v, t, wanted)
    BY <1>4 DEF SetOutside, Set
  <2>2. /\ LeftBehind({v} \cup Others(v)) /\ Others(v) \subseteq Views
        /\ UNCHANGED <<mirror, known, painted, redraw, silent, handle, wheels, opens>>
    BY <1>4 DEF SetOutside, scroll, Others
  <2>3. excused' \subseteq Views
    BY <2>2, LeftBehindTyped
  <2> QED BY <1>1, <2>1, <2>2, <2>3, SetCounts DEF RestOK
<1>5. ASSUME NEW v \in Views, Open(v)
      PROVE  RestOK'
  <2>1. /\ opens < MaxOpens /\ opens' = opens + 1 /\ painted' = NoTree
        /\ redraw' = TRUE /\ silent' = FALSE /\ DOMAIN handle' = {}
        /\ UNCHANGED <<excused, changes, mirror, known, wheels>>
    BY <1>5 DEF Open, app, scroll
  <2>2. opens' \in 0 .. MaxOpens
    BY <1>1, <2>1 DEF RestOK, Bounds
  <2> QED BY <2>1, <2>2 DEF RestOK
<1>6. CASE Wheel
  <2>1. PICK d \in Range(painted.shape), o \in WheelTo :
          handle' = IF d.key = NoKey THEN handle ELSE Put(handle, d.key, o)
    BY <1>6 DEF Wheel
  <2>2. painted \in Trees
    BY <1>6 DEF Wheel, RestOK
  <2>3. painted.shape \in Seq(Divs)
    BY <2>2 DEF Trees, ScrollAssumption
  <2>4. d \in Divs
    BY <2>3 DEF Range
  <2>5. DOMAIN handle' \subseteq Keys
    BY <2>1, <2>4 DEF Put, Keys, RestOK
  <2>6. /\ wheels < MaxWheel /\ wheels' = wheels + 1
        /\ redraw' = TRUE /\ silent' = FALSE
        /\ UNCHANGED <<excused, changes, mirror, known, painted, opens>>
    BY <1>6 DEF Wheel, Asks, app, scroll, RestOK
  <2>7. wheels' \in 0 .. MaxWheel
    BY <1>1, <2>6 DEF RestOK, Bounds
  <2> QED BY <2>5, <2>6, <2>7 DEF RestOK
<1>7. CASE Draw
  <2>1. /\ painted' = committed[window] /\ redraw' = FALSE /\ silent' = FALSE
        /\ DOMAIN handle' = DOMAIN handle /\ window \in Views
        /\ UNCHANGED <<excused, changes, mirror, known, wheels, opens>>
    BY <1>7 DEF Draw, app, scroll, ScrollInv, ScrollTypes
  <2>2. painted' \in Trees
    BY <2>1 DEF ScrollInv, ScrollTypes
  <2> QED BY <2>1, <2>2 DEF RestOK
<1>8. CASE PaintDiv
  <2>1. UNCHANGED <<excused, changes, painted, redraw, silent, handle, wheels, opens>>
    BY <1>8 DEF PaintDiv, app
  <2> QED BY <1>8, <2>1, PaintTyped DEF RestOK
<1>9. CASE Close \/ EndDraw \/ UNCHANGED vars
  <2>1. /\ redraw' \in {redraw, FALSE} /\ silent' \in {silent, FALSE}
        /\ UNCHANGED <<excused, changes, mirror, known, painted, handle, wheels, opens>>
    BY <1>9 DEF Close, EndDraw, vars, app, scroll
  <2> QED BY <2>1 DEF RestOK
<1>10. CASE Marker
  <2>1. UNCHANGED <<known, painted, handle, wheels, opens>> /\ window \in Views
    BY <1>10 DEF Marker, ScrollInv, ScrollTypes
  <2>2. PICK changed \in BOOLEAN : FrameworkDispatch(window, changed) /\ Unheard(changed)
    BY <1>10 DEF Marker
  <2> QED BY <1>1, <2>1, <2>2, DispatchTyped, AsksTyped DEF RestOK
<1> QED BY <1>2, <1>3, <1>4, <1>5, <1>6, <1>7, <1>8, <1>9, <1>10 DEF Next

LEMMA InitRest ==
  ASSUME Init, ScrollAssumption
  PROVE  RestOK
<1>1. mirror = <<>> /\ known = <<>> /\ handle = <<>>
  BY DEF Init
<1>2. MapOK(mirror) /\ MapOK(known) /\ DOMAIN handle \subseteq Keys
  BY <1>1 DEF MapOK
<1>3. /\ wheels \in 0 .. MaxWheel /\ changes \in 0 .. MaxChanges
      /\ opens \in 0 .. MaxOpens
  BY DEF Init, ScrollAssumption
<1> QED BY <1>2, <1>3 DEF Init, RestOK

\* ScrollFeedback is type-correct.
THEOREM ScrollTyped == Spec => []TypeOK
<1>1. ScrollInv /\ ScreenInv /\ RestOK => TypeOK
  BY DEF ScrollInv, ScrollTypes, MapsAgree, ScreenInv, RestOK, MapOK, TypeOK, Range
<1> QED BY InitScroll, StepKeepsScroll, InitScreen, StepKeepsScreen, StepKeepsTypes,
           InitRest, ScrollAssumption, <1>1, PTL DEF Spec

-----------------------------------------------------------------------------
(* The refinement of Redraw.                                               *)

\* A dispatch commits nothing for the window, or asks for a frame.
LEMMA DispatchAsks ==
  ASSUME RestOK, window \in Views \cup {NoView}, committed \in [Views -> Trees],
         NEW v \in Views, NEW changed \in BOOLEAN,
         FrameworkDispatch(v, changed), NotifyIfChanged(v, changed),
         UNCHANGED <<window, painted>>
  PROVE  Screen!Ask \/ UNCHANGED Screen!vars
<1>1. /\ redraw \in BOOLEAN /\ silent \in BOOLEAN
      /\ redraw' = (redraw \/ (changed /\ window = v)) /\ silent' = (silent /\ ~redraw')
  BY DEF NotifyIfChanged, Asks, RestOK
<1>2. CASE redraw'
  BY <1>1, <1>2 DEF Screen!Ask
<1>3. CASE ~redraw'
  <2>1. redraw' = redraw /\ silent' = silent /\ (~changed \/ window # v)
    BY <1>1, <1>3
  <2>2. window = NoView \/ committed'[window] = committed[window]
    <3>1. CASE ~changed
      BY <3>1 DEF FrameworkDispatch, NothingSet
    <3>2. CASE changed /\ window # v
      <4>1. PICK t \in Trees : Patch(v, t) \/ Rebuild(v, t) \/ RebuildFails(v, t)
        BY <3>2 DEF FrameworkDispatch
      <4>2. committed' = committed \/ committed' = [committed EXCEPT ![v] = t]
        BY <4>1 DEF Patch, Rebuild, RebuildFails
      <4> QED BY <3>2, <4>2
    <3> QED BY <2>1, <3>1, <3>2
  <2> QED BY <2>1, <2>2 DEF Screen!vars
<1> QED BY <1>2, <1>3

\* The marker's dispatch commits nothing, slips, or meets a frame on its way.
LEMMA MarkerSlips ==
  ASSUME RestOK, Marker
  PROVE  Screen!Ask \/ Screen!Slip \/ UNCHANGED Screen!vars
<1>1. PICK changed \in BOOLEAN : FrameworkDispatch(window, changed) /\ Unheard(changed)
  BY DEF Marker
<1>2. /\ redraw \in BOOLEAN /\ silent \in BOOLEAN
      /\ silent' = (~redraw /\ (silent \/ changed))
      /\ UNCHANGED <<redraw, window, painted>>
  BY <1>1 DEF Unheard, Marker, RestOK
<1>3. CASE redraw
  BY <1>2, <1>3 DEF Screen!Ask
<1>4. CASE ~redraw /\ changed
  BY <1>2, <1>4 DEF Screen!Slip
<1>5. CASE ~redraw /\ ~changed
  <2>1. silent' = silent /\ committed' = committed
    BY <1>1, <1>2, <1>5 DEF FrameworkDispatch, NothingSet
  <2> QED BY <1>2, <2>1 DEF Screen!vars
<1> QED BY <1>3, <1>4, <1>5

\* What is deferred is for the open window: it cannot close before it is sent.
DeferredOpen ==
  \A i \in 1 .. Len(deferred) : window \in Views /\ deferred[i][1] = window

LEMMA StepKeepsDeferred ==
  ASSUME ScrollAssumption, ScrollInv, DeferredOpen, [Next]_vars
  PROVE  DeferredOpen'
<1>1. deferred \in Seq(Pairs) /\ NoView \notin Views
  BY DEF ScrollInv, ScrollTypes, ScrollAssumption
<1>2. CASE UNCHANGED <<window, deferred>>
  BY <1>2 DEF DeferredOpen
<1>3. CASE DeliverScroll
  <2>1. deferred # <<>> /\ deferred' = Tail(deferred) /\ window' = window
    BY <1>3 DEF DeliverScroll
  <2>2. /\ Len(deferred') = Len(deferred) - 1
        /\ \A i \in 1 .. Len(deferred') : deferred'[i] = deferred[i + 1]
    BY <1>1, <2>1
  <2> QED BY <1>1, <2>1, <2>2 DEF DeferredOpen
<1>4. CASE PaintDiv
  <2> DEFINE p == <<window, painted.shape[next].sid>>
  <2>1. /\ window' = window /\ next # 0
        /\ deferred' \in {deferred, Append(deferred, p)}
    BY <1>4 DEF PaintDiv
  <2>2. window \in Views /\ p[1] = window
    BY <2>1 DEF ScrollInv, DrawsCommitted
  <2> HIDE DEF p
  <2>3. CASE deferred' = Append(deferred, p)
    <3>1. /\ Len(deferred') = Len(deferred) + 1
          /\ \A i \in 1 .. Len(deferred') :
               deferred'[i] = IF i <= Len(deferred) THEN deferred[i] ELSE p
      BY <1>1, <2>3
    <3> QED BY <1>1, <2>1, <2>2, <3>1 DEF DeferredOpen
  <2> QED BY <2>1, <2>3 DEF DeferredOpen
<1>5. CASE Close \/ \E v \in Views : Open(v)
  <2>1. Len(deferred') = 0
    <3>1. deferred' = deferred
      BY <1>5 DEF Close, Open
    <3>2. deferred = <<>> \/ window = NoView
      BY <1>5 DEF Close, Open, Idle
    <3>3. window = NoView => Len(deferred) = 0
      BY <1>1 DEF DeferredOpen
    <3> QED BY <1>1, <3>1, <3>2, <3>3
  <2> QED BY <2>1 DEF DeferredOpen
<1>6. CASE (\E v \in Views : OtherEvent(v) \/ SetOutside(v)) \/ Marker \/ Wheel \/ Draw
           \/ EndDraw \/ UNCHANGED vars
  BY <1>2, <1>6 DEF OtherEvent, SetOutside, Marker, Wheel, Draw, EndDraw, vars
<1> QED BY <1>3, <1>4, <1>5, <1>6 DEF Next

LEMMA ScreenStep ==
  ASSUME ScrollAssumption, ScrollInv, RestOK, DeferredOpen, [Next]_vars
  PROVE  [Screen!Next]_(Screen!vars)
<1>1. /\ redraw \in BOOLEAN /\ silent \in BOOLEAN /\ NoView \notin Views
      /\ window \in Views \cup {NoView} /\ committed \in [Views -> Trees]
  BY DEF RestOK, ScrollAssumption, ScrollInv, ScrollTypes
<1>2. ASSUME NEW v \in Views, OtherEvent(v)
      PROVE  Screen!Ask \/ UNCHANGED Screen!vars
  <2>1. PICK changed \in BOOLEAN : FrameworkDispatch(v, changed) /\ NotifyIfChanged(v, changed)
    BY <1>2 DEF OtherEvent
  <2> QED BY <1>1, <1>2, <2>1, DispatchAsks DEF OtherEvent
<1>3. CASE DeliverScroll
  <2>1. Head(deferred)[1] \in Views /\ UNCHANGED <<window, painted>>
    BY <1>3, PairsOfViews DEF DeliverScroll, ScrollInv, ScrollTypes
  <2>2. PICK changed \in BOOLEAN : /\ FrameworkDispatch(Head(deferred)[1], changed)
                                   /\ NotifyIfChanged(Head(deferred)[1], changed)
    BY <1>3 DEF DeliverScroll
  <2> QED BY <1>1, <2>1, <2>2, DispatchAsks DEF Screen!Next
<1>4. ASSUME NEW v \in Views, SetOutside(v)
      PROVE  Screen!Closed
  BY <1>4 DEF SetOutside, Screen!Closed
<1>5. ASSUME NEW v \in Views, Open(v)
      PROVE  Screen!Open
  BY <1>1, <1>5 DEF Open, Screen!Open
<1>6. CASE Close
  BY <1>6 DEF Close, Screen!Closed, Screen!Next
<1>7. CASE Wheel
  BY <1>1, <1>7 DEF Wheel, Asks, Screen!Ask, Screen!Next
<1>8. CASE Draw
  BY <1>8 DEF Draw, app, Screen!Draw, Screen!Next
<1>9. CASE PaintDiv
  BY <1>9 DEF PaintDiv, app, Screen!vars
<1>10. CASE EndDraw
  BY <1>10 DEF EndDraw, app, Screen!vars
<1>11. CASE Marker
  BY <1>11, MarkerSlips DEF Screen!Next
<1>12. CASE UNCHANGED vars
  BY <1>12 DEF vars, app, Screen!vars
<1> QED BY <1>2, <1>3, <1>4, <1>5, <1>6, <1>7, <1>8, <1>9, <1>10, <1>11, <1>12
        DEF Next, Screen!Next

\* Scroll feedback and dispatch implement Redraw: whatever handler commits a
\* tree, and whatever view it is dispatched to, the window is owed a frame until
\* one shows it, but for the marker's (lib.rs 396-411, 4413, 4684-4705, 5625-5646).
THEOREM ScrollImplementsRedraw == Spec => ImplementsRedraw
<1>1. Init => Screen!Init
  BY DEF Init, Screen!Init, Screen!UpToDate
<1>2. Init /\ ScrollAssumption => RestOK
  BY InitRest
<1>3. Init => DeferredOpen
  BY DEF Init, DeferredOpen
<1> QED BY InitScroll, StepKeepsScroll, InitScreen, StepKeepsScreen, StepKeepsTypes,
           StepKeepsDeferred, ScreenStep, ScrollAssumption, <1>1, <1>2, <1>3,
           PTL DEF Spec, ImplementsRedraw, Screen!Spec

-----------------------------------------------------------------------------
(* An open window that is owed nothing is up to date.                      *)

LEMMA UpToDateNext == Screen!UpToDate /\ [Screen!Next]_(Screen!vars) => Screen!UpToDate'
BY DEF Screen!UpToDate, Screen!Next, Screen!vars, Screen!Open, Screen!Ask, Screen!Slip,
       Screen!Draw, Screen!Closed

\* An open window without a frame on its way shows what the application wants,
\* unless a failed rebuild, an unseen set or a set in the dispatch of another
\* view left its tree behind, or the marker's handler changed it unheard (lib.rs
\* 396-411, 4413, 4684-4705, framework.mbt:27-78).
THEOREM OnlyTheExcusedShowLess == Spec => []WantedUnlessOwed
<1>1. Init => Screen!UpToDate
  BY DEF Init, Screen!UpToDate
<1>2. Init /\ ScrollAssumption => RestOK
  BY InitRest
<1>3. Init => DeferredOpen
  BY DEF Init, DeferredOpen
<1>4. ScrollInv /\ ScrollAssumption /\ Screen!UpToDate => WantedUnlessOwed
  <2> SUFFICES ASSUME ScrollInv, ScrollAssumption, Screen!UpToDate, window # NoView, ~redraw,
                      ~silent
               PROVE  painted = want[window] \/ window \in excused
    BY DEF WantedUnlessOwed
  <2>1. painted = committed[window]
    BY DEF Screen!UpToDate
  <2>2. window \in Views
    BY DEF ScrollInv, ScrollTypes
  <2> QED BY <2>1, <2>2 DEF ScrollInv, OnlyExcusedBehind
<1> QED BY InitScroll, StepKeepsScroll, InitScreen, StepKeepsScreen, StepKeepsTypes,
           StepKeepsDeferred, ScreenStep, UpToDateNext, ScrollAssumption,
           <1>1, <1>2, <1>3, <1>4, PTL DEF Spec

-----------------------------------------------------------------------------
(* Feedback comes to rest.                                                 *)

\* The divs that a draw has painted are in the mirror.
PaintedMirrored ==
  next # 0 =>
    \A i \in 1 .. Len(painted.shape) :
      i < next => <<window, painted.shape[i].sid>> \in DOMAIN mirror

LEMMA StepMirrors ==
  ASSUME ScrollInv, ScrollAssumption, PaintedMirrored, [Next]_vars
  PROVE  PaintedMirrored'
<1>1. next \in Nat
  BY DEF ScrollInv, ScrollTypes
<1>2. CASE PaintDiv
  <2> DEFINE p == <<window, painted.shape[next].sid>>
  <2>1. next # 0 /\ next' = next + 1 /\ UNCHANGED <<window, painted>>
        /\ DOMAIN mirror' = DOMAIN mirror \cup {p}
    BY <1>2 DEF PaintDiv, Put
  <2>2. ASSUME NEW i \in 1 .. Len(painted.shape), i < next + 1
        PROVE  <<window, painted.shape[i].sid>> \in DOMAIN mirror'
    <3>1. i = next \/ i < next
      BY <1>1, <2>2
    <3> QED BY <2>1, <3>1 DEF PaintedMirrored
  <2> QED BY <2>1, <2>2 DEF PaintedMirrored
<1>3. CASE Draw
  <2>1. next' = 1
    BY <1>3 DEF Draw
  <2>2. ~(\E i \in 1 .. Len(painted'.shape) : i < 1)
    OBVIOUS
  <2> QED BY <2>1, <2>2 DEF PaintedMirrored
<1>4. CASE EndDraw \/ DeliverScroll \/ Close \/ Wheel \/ Marker
           \/ \E v \in Views : OtherEvent(v)
  BY <1>4 DEF EndDraw, DeliverScroll, Close, Wheel, Marker, OtherEvent, Idle,
              PaintedMirrored
<1>5. ASSUME NEW v \in Views, SetOutside(v) \/ Open(v)
      PROVE  PaintedMirrored'
  BY <1>5 DEF SetOutside, Open, ScrollInv, DrawsCommitted, ScrollAssumption, PaintedMirrored
<1>6. CASE UNCHANGED vars
  BY <1>6 DEF vars, scroll, PaintedMirrored
<1> QED BY <1>2, <1>3, <1>4, <1>5, <1>6 DEF Next

\* A frame settles the window.
LEMMA EndSettles ==
  ASSUME ScrollInv, ScreenInv, ScrollAssumption, PaintedMirrored, EndDraw
  PROVE  Settled'
<1>1. /\ next \in Nat /\ next # 0 /\ next > Len(painted.shape)
      /\ UNCHANGED <<window, painted, handle, mirror, committed>>
      /\ window \in Views /\ painted = committed[window] /\ painted \in Trees
  BY DEF EndDraw, app, scroll, ScrollInv, ScrollTypes, DrawsCommitted
<1>2. painted.shape \in Seq(Divs) /\ \A d \in Divs : d.max \in Nat
  BY <1>1 DEF Trees, ScrollAssumption
<1>3. ASSUME NEW d \in Range(painted.shape)
      PROVE  /\ <<window, d.sid>> \in DOMAIN mirror
             /\ mirror[<<window, d.sid>>] = Clamp(d, ScrollHandleFor(d))
  <2>1. PICK i \in 1 .. Len(painted.shape) : d = painted.shape[i]
    BY <1>2 DEF Range
  <2>2. i < next /\ d \in Divs
    BY <1>1, <1>2, <2>1
  <2>3. <<window, d.sid>> \in DOMAIN mirror
    BY <1>1, <2>1, <2>2 DEF PaintedMirrored
  <2>4. mirror[<<window, d.sid>>] = ScrollHandleFor(d) /\ InRange(d)
    BY <1>1, <2>1, <2>2, <2>3 DEF ScreenInv
  <2>5. ScrollHandleFor(d) \in Int /\ d.max \in Nat
    BY <1>2, <2>2, <2>4 DEF InRange
  <2> QED BY <2>3, <2>4, <2>5, ClampIs DEF InRange
<1>4. \A e : ScrollHandleFor(e)' = ScrollHandleFor(e)
  BY <1>1 DEF ScrollHandleFor
<1>5. window # NoView
  BY <1>1 DEF ScrollAssumption
<1> QED BY <1>1, <1>3, <1>4, <1>5 DEF Settled

\* A prepaint clamps the handles, which changes no clamped offset.
LEMMA DrawClamps ==
  ASSUME ScrollInv, ScreenInv, ScrollAssumption, Draw,
         NEW d \in Range(committed[window].shape)
  PROVE  Clamp(d, ScrollHandleFor(d)') = Clamp(d, ScrollHandleFor(d))
<1> DEFINE shape == committed[window].shape
<1>1. committed[window] \in Trees
  BY DEF Draw, ScrollInv, ScrollTypes
<1>2. shape \in Shapes /\ shape \in Seq(Divs) /\ \A e \in Divs : e.max \in Nat
  BY <1>1 DEF Trees, ScrollAssumption
<1>3. d.max \in Nat
  BY <1>2 DEF Range
<1>4. handle' = [k \in DOMAIN handle |->
                  IF \E e \in Range(shape) : e.key = k
                    THEN Clamp(CHOOSE e \in Range(shape) : e.key = k, handle[k])
                    ELSE handle[k]]
  BY DEF Draw
<1> HIDE DEF shape
<1>5. CASE d.key \in DOMAIN handle
  <2>1. d.key # NoKey /\ handle[d.key] \in Int
    BY <1>5 DEF ScreenInv
  <2>2. (CHOOSE e \in Range(shape) : e.key = d.key) = d /\ d \in Range(shape)
    BY <1>2, <2>1, KeyedDiv DEF shape
  <2>3. handle'[d.key] = Clamp(d, handle[d.key]) /\ d.key \in DOMAIN handle'
    BY <1>4, <1>5, <2>2
  <2>4. Clamp(d, handle[d.key]) \in -d.max .. 0
    BY <1>3, <2>1, ClampIs
  <2>5. Clamp(d, Clamp(d, handle[d.key])) = Clamp(d, handle[d.key])
    BY <1>3, <2>4, ClampIs
  <2> QED BY <1>5, <2>3, <2>5 DEF ScrollHandleFor
<1>6. CASE d.key \notin DOMAIN handle
  BY <1>4, <1>6 DEF ScrollHandleFor
<1> QED BY <1>5, <1>6

\* Painting a div of a settled window changes nothing that it announces.
LEMMA PaintIsQuiet ==
  ASSUME ScrollInv, ScrollAssumption, Settled, PaintDiv
  PROVE  Settled' /\ deferred' = deferred
<1> DEFINE d == painted.shape[next]
           p == <<window, d.sid>>
<1>1. /\ next \in Nat /\ window \in Views /\ painted = committed[window]
      /\ painted \in Trees /\ next \in 1 .. Len(painted.shape)
  BY DEF PaintDiv, ScrollInv, ScrollTypes, DrawsCommitted
<1>2. painted.shape \in Seq(Divs)
  BY <1>1 DEF Trees, ScrollAssumption
<1>3. d \in Range(committed[window].shape)
  BY <1>1, <1>2 DEF Range
<1>4. p \in DOMAIN mirror /\ mirror[p] = Clamp(d, ScrollHandleFor(d)) /\ sent = mirror
  BY <1>3 DEF Settled, ScrollInv, MapsAgree
<1>5. /\ deferred' = deferred /\ UNCHANGED <<window, handle, committed>>
      /\ mirror' = Put(mirror, p, mirror[p])
  BY <1>4 DEF PaintDiv, app
<1>6. DOMAIN mirror' = DOMAIN mirror /\ \A q \in DOMAIN mirror : mirror'[q] = mirror[q]
  BY <1>4, <1>5 DEF Put
<1>7. \A e : ScrollHandleFor(e)' = ScrollHandleFor(e)
  BY <1>5 DEF ScrollHandleFor
<1> QED BY <1>5, <1>6, <1>7 DEF Settled

\* A dispatch, of any view, that keeps the window's divs prunes none of them.
LEMMA DispatchIsQuiet ==
  ASSUME ScrollInv, ScrollAssumption, Settled, KeepsDivs, UNCHANGED handle,
         NEW v \in Views, NEW changed, FrameworkDispatch(v, changed)
  PROVE  Settled'
<1>1. /\ window \in Views /\ window' = window
      /\ committed'[window].shape = committed[window].shape
      /\ committed \in [Views -> Trees]
  BY DEF KeepsDivs, Settled, ScrollInv, ScrollTypes
<1>2. ASSUME NEW d \in Range(committed[window].shape)
      PROVE  /\ <<window, d.sid>> \in DOMAIN mirror'
             /\ mirror'[<<window, d.sid>>] = mirror[<<window, d.sid>>]
  <2> DEFINE p == <<window, d.sid>>
  <2>1. p \in DOMAIN mirror
    BY DEF Settled
  <2>2. CASE UNCHANGED mirror
    BY <2>1, <2>2
  <2>3. ASSUME NEW t \in Trees, Rebuild(v, t)
        PROVE  p \in DOMAIN mirror' /\ mirror'[p] = mirror[p]
    <3>1. committed' = [committed EXCEPT ![v] = t] /\ Prune(v, t)
      BY <2>3 DEF Rebuild
    <3>2. v = window => t.shape = committed[window].shape
      BY <1>1, <3>1
    <3>3. v = window => d.sid \in Sids(t)
      BY <3>2 DEF Sids
    <3>4. p \notin Stale(v, t)
      BY <3>3 DEF Stale
    <3>5. mirror' = Restrict(mirror, DOMAIN mirror \ Stale(v, t))
      BY <3>1 DEF Prune
    <3> QED BY <2>1, <3>4, <3>5 DEF Restrict
  <2> QED BY <2>2, <2>3 DEF FrameworkDispatch, NothingSet, Patch, RebuildFails
<1>3. \A e : ScrollHandleFor(e)' = ScrollHandleFor(e)
  BY DEF ScrollHandleFor
<1> QED BY <1>1, <1>2, <1>3 DEF Settled

LEMMA StepIsQuiet ==
  ASSUME ScrollInv, ScreenInv, ScrollAssumption, DeferredOpen,
         Settled, KeepsDivs, ~Wheel, [Next]_vars
  PROVE  Settled' /\ Len(deferred') <= Len(deferred)
<1>0. deferred \in Seq(Pairs) /\ Len(deferred) \in Nat /\ window # NoView
      /\ NoView \notin Views
  BY DEF ScrollInv, ScrollTypes, Settled, ScrollAssumption
<1>1. ASSUME NEW v \in Views, OtherEvent(v)
      PROVE  Settled' /\ Len(deferred') <= Len(deferred)
  <2>1. UNCHANGED <<handle, deferred>>
    BY <1>1 DEF OtherEvent
  <2>2. PICK changed \in BOOLEAN : FrameworkDispatch(v, changed)
    BY <1>1 DEF OtherEvent
  <2> QED BY <1>0, <2>1, <2>2, DispatchIsQuiet
<1>2. CASE DeliverScroll
  <2>1. deferred # <<>> /\ deferred' = Tail(deferred) /\ UNCHANGED handle
    BY <1>2 DEF DeliverScroll
  <2>2. Head(deferred)[1] \in Views
    BY <1>0, <2>1, PairsOfViews
  <2>3. Len(deferred') <= Len(deferred)
    BY <1>0, <2>1
  <2>4. PICK changed \in BOOLEAN : FrameworkDispatch(Head(deferred)[1], changed)
    BY <1>2 DEF DeliverScroll
  <2> QED BY <2>1, <2>2, <2>3, <2>4, DispatchIsQuiet
<1>3. CASE PaintDiv
  BY <1>0, <1>3, PaintIsQuiet
<1>4. CASE Draw
  <2>1. UNCHANGED <<window, mirror, committed, deferred>>
    BY <1>4 DEF Draw, app, scroll
  <2>2. \A d \in Range(committed[window].shape) :
          Clamp(d, ScrollHandleFor(d)') = Clamp(d, ScrollHandleFor(d))
    BY <1>4, DrawClamps
  <2>3. \A d : Clamp(d, ScrollHandleFor(d))' = Clamp(d, ScrollHandleFor(d)')
    BY DEF Clamp
  <2>4. \A d \in Range(committed[window].shape) :
          /\ <<window, d.sid>> \in DOMAIN mirror
          /\ mirror[<<window, d.sid>>] = Clamp(d, ScrollHandleFor(d))'
    BY <2>2, <2>3 DEF Settled
  <2>5. Settled'
    BY <1>0, <2>1, <2>4 DEF Settled
  <2> QED BY <1>0, <2>1, <2>5
<1>5. CASE EndDraw \/ UNCHANGED vars
  <2>1. UNCHANGED <<window, mirror, committed, deferred, handle>>
    BY <1>5 DEF EndDraw, vars, app, scroll
  <2>2. \A e : ScrollHandleFor(e)' = ScrollHandleFor(e)
    BY <2>1 DEF ScrollHandleFor
  <2> QED BY <1>0, <2>1, <2>2 DEF Settled
<1>6. CASE Close \/ \E v \in Views : SetOutside(v) \/ Open(v)
  BY <1>0, <1>6 DEF Close, SetOutside, Open, KeepsDivs
<1>7. CASE Marker
  <2>1. UNCHANGED <<handle, deferred>> /\ window \in Views
    BY <1>7 DEF Marker, ScrollInv, ScrollTypes
  <2>2. PICK changed \in BOOLEAN : FrameworkDispatch(window, changed)
    BY <1>7 DEF Marker
  <2> QED BY <1>0, <2>1, <2>2, DispatchIsQuiet
<1> QED BY <1>1, <1>2, <1>3, <1>4, <1>5, <1>6, <1>7 DEF Next

\* A frame leaves every scroll div of the tree announced or seeded, and after it
\* no redraw, patch or rebuild that keeps the divs announces anything: feedback
\* feeds itself only through the wheel or a change of shape (lib.rs 5610-5646).
THEOREM FeedbackComesToRest == Spec => SettledStaysQuiet
<1>1. Init => PaintedMirrored /\ DeferredOpen
  BY DEF Init, PaintedMirrored, DeferredOpen
<1>2. ScrollInv /\ ScreenInv /\ ScrollAssumption /\ DeferredOpen /\ PaintedMirrored
        /\ [Next]_vars
      => /\ EndDraw => Settled'
         /\ Settled /\ KeepsDivs /\ ~Wheel => Settled' /\ Len(deferred') <= Len(deferred)
  BY EndSettles, StepIsQuiet
<1> QED BY InitScroll, StepKeepsScroll, InitScreen, StepKeepsScreen, StepKeepsDeferred,
           StepMirrors, ScrollAssumption, <1>1, <1>2, PTL DEF Spec, SettledStaysQuiet
=============================================================================
