-------------------------- MODULE KeyRoutingProofs --------------------------
(***************************************************************************)
(* Proofs about KeyRouting, for any keystrokes and preedits: the strip     *)
(* shows what the bridge has marked, a committed tree gets a frame, the    *)
(* keys of a focused text input are its own, and text and Enter arrive     *)
(* once.                                                                   *)
(*                                                                         *)
(* No step depends on how the platform answers: each dispatch leaves the   *)
(* payload queue empty, and whatever marks dispatches the same text.       *)
(***************************************************************************)
EXTENDS KeyRouting, TLAPS

Seen == [key : Nat, named : Nat, marker : Nat, app : Nat, widget : Nat,
         dropped : Nat, ime : BOOLEAN,
         from : {"root", "widget", "item", "ime"}, typed : BOOLEAN,
         name : Names \cup {None}]

Marks == Preedits \cup {Empty}

\* What the properties need of the types, and that no payload stays queued.
RoutingOK ==
  /\ platform \in Platforms /\ focus \in {"root", "widget", "item"}
  /\ marked \in Marks /\ queue = <<>>
  /\ redraw \in BOOLEAN /\ behind \in BOOLEAN /\ silent \in BOOLEAN
  /\ seen \in Seen

RoutingInv == RoutingOK /\ MarkedIsShown /\ ChangeIsDrawn /\ WidgetOwnsKeys

\* What every step preserves, by the part of the state it is about.
BridgeKept == marked' \in Marks /\ queue' = <<>> /\ MarkedIsShown'
ShownKept  ==
  /\ redraw' \in BOOLEAN /\ behind' \in BOOLEAN /\ silent' \in BOOLEAN
  /\ ChangeIsDrawn'
SeenKept   == seen' \in Seen /\ WidgetOwnsKeys'

-----------------------------------------------------------------------------
(* Dispatches.                                                             *)

\* A payload is what the handler copies, and the queue is empty again.
LEMMA PayloadIsCopied ==
  ASSUME NEW text, queue = <<>>, Payload(text)
  PROVE  queue' = <<>> /\ strip' = IF text = Typed THEN strip ELSE text
<1>1. Append(queue, text)[Len(queue) + 1] = text
  OBVIOUS
<1> QED BY <1>1 DEF Payload

\* A dispatch that is not about the bridge's mark leaves strip and mark.
LEMMA UnmarkedKept ==
  ASSUME RoutingInv, UNCHANGED marked, NoPayload \/ Payload(Typed)
  PROVE  BridgeKept
<1>1. queue' = <<>> /\ strip' = strip
  BY PayloadIsCopied DEF NoPayload, RoutingInv, RoutingOK
<1> QED BY <1>1 DEF BridgeKept, MarkedIsShown, RoutingInv, RoutingOK

LEMMA HandlersKeep ==
  ASSUME RoutingInv, UNCHANGED platform,
         Handlers(TRUE) \/ (Handlers(FALSE) /\ platform = "macos")
  PROVE  ShownKept
<1>1. CASE UNCHANGED shown
  BY <1>1 DEF shown, ShownKept, ChangeIsDrawn, RoutingInv, RoutingOK
<1>2. CASE behind' = TRUE /\ redraw' = TRUE /\ silent' = silent
  BY <1>2 DEF ShownKept, ChangeIsDrawn, RoutingInv, RoutingOK
<1>3. CASE /\ behind' = TRUE /\ redraw' = redraw /\ silent' = TRUE
           /\ platform = "macos"
  BY <1>3 DEF ShownKept, ChangeIsDrawn, RoutingInv, RoutingOK
<1>4. redraw \in BOOLEAN /\ silent \in BOOLEAN
  BY DEF RoutingInv, RoutingOK
<1>5. CASE Handlers(TRUE)
  <2>1. \/ UNCHANGED shown
        \/ behind' = TRUE /\ redraw' = TRUE /\ silent' = silent
    BY <1>4, <1>5 DEF Handlers
  <2> QED BY <2>1, <1>1, <1>2
<1>6. CASE Handlers(FALSE) /\ platform = "macos"
  <2>1. \/ UNCHANGED shown
        \/ behind' = TRUE /\ redraw' = redraw /\ silent' = TRUE
    BY <1>4, <1>6 DEF Handlers
  <2> QED BY <1>6, <2>1, <1>1, <1>3
<1> QED BY <1>5, <1>6

LEMMA RefreshingKeeps ==
  ASSUME RoutingInv, UNCHANGED platform, Refreshing
  PROVE  ShownKept
BY DEF Refreshing, ShownKept, ChangeIsDrawn, RoutingInv, RoutingOK

LEMMA UnshownKept ==
  ASSUME RoutingInv, UNCHANGED platform, UNCHANGED shown
  PROVE  ShownKept
BY DEF shown, ShownKept, ChangeIsDrawn, RoutingInv, RoutingOK

-----------------------------------------------------------------------------
(* The platform's calls.                                                   *)

\* What a call that begins with s may make of it.
From(s) ==
  {s, [s EXCEPT !.app = @ + 1], [s EXCEPT !.widget = @ + 1],
   [s EXCEPT !.dropped = @ + 1]}

LEMMA FromKeepsSeen ==
  ASSUME NEW s \in Seen, seen' \in From(s),
         s.from = "widget" => s.key + s.named + s.marker = 0
  PROVE  SeenKept
<1>1. seen' \in Seen
  BY DEF From, Seen
<1>2. /\ seen'.from = s.from /\ seen'.key = s.key
      /\ seen'.named = s.named /\ seen'.marker = s.marker
  BY DEF From, Seen
<1> QED BY <1>1, <1>2 DEF SeenKept, WidgetOwnsKeys

LEMMA ReplaceKeeps ==
  ASSUME RoutingInv, KeyAssumption, UNCHANGED platform, NEW text, NEW s,
         BridgeReplace(text, s)
  PROVE  BridgeKept /\ ShownKept /\ seen' \in From(s)
<1>1. CASE text = Empty
  <2>1. marked' = Empty /\ queue' = queue /\ UNCHANGED shown /\ seen' = s
    BY <1>1 DEF BridgeReplace
  <2> QED BY <2>1, UnshownKept DEF BridgeKept, MarkedIsShown, Marks, From,
                                   RoutingInv, RoutingOK
<1>2. CASE text # Empty
  <2>1. marked' = Empty /\ Payload(Empty) /\ Refreshing
    BY <1>2 DEF BridgeReplace
  <2>2. queue' = <<>>
    BY <2>1, PayloadIsCopied DEF RoutingInv, RoutingOK
  <2>3. seen' = [s EXCEPT !.app = @ + 1]
    BY <1>2 DEF BridgeReplace
  <2> QED BY <2>1, <2>2, <2>3, RefreshingKeeps DEF BridgeKept, MarkedIsShown,
                                                   Marks, From
<1> QED BY <1>1, <1>2

LEMMA MarkKeeps ==
  ASSUME RoutingInv, KeyAssumption, UNCHANGED platform, NEW text \in Marks, NEW s,
         BridgeMark(text, s)
  PROVE  BridgeKept /\ ShownKept /\ seen' \in From(s)
<1>1. text # Typed
  BY DEF KeyAssumption, Marks
<1>2. marked' = text /\ Payload(text) /\ Refreshing /\ seen' = s
  BY DEF BridgeMark
<1>3. queue' = <<>> /\ strip' = text
  BY <1>1, <1>2, PayloadIsCopied DEF RoutingInv, RoutingOK
<1> QED BY <1>2, <1>3, RefreshingKeeps DEF BridgeKept, MarkedIsShown, From

LEMMA WidgetKeeps ==
  ASSUME RoutingInv, UNCHANGED platform, NEW text, NEW mark, NEW s,
         WidgetAnswer(text, mark, s)
  PROVE  BridgeKept /\ ShownKept /\ seen' \in From(s)
<1>1. NoPayload /\ Refreshing /\ UNCHANGED marked
  BY DEF WidgetAnswer
<1>2. seen' \in From(s)
  BY DEF WidgetAnswer, From
<1> QED BY <1>1, <1>2, UnmarkedKept, RefreshingKeeps

LEMMA TextKeeps ==
  ASSUME RoutingInv, KeyAssumption, UNCHANGED platform, NEW s, HandText(s)
  PROVE  BridgeKept /\ ShownKept /\ seen' \in From(s)
<1>1. CASE BridgeReplace(Typed, s)
  BY <1>1, ReplaceKeeps
<1>2. CASE WidgetAnswer(Typed, FALSE, s)
  BY <1>2, WidgetKeeps
<1>3. CASE /\ seen' = [s EXCEPT !.dropped = @ + 1]
           /\ NoPayload /\ UNCHANGED <<marked, composing, widget, shown>>
  <2>1. UNCHANGED marked /\ UNCHANGED shown
    BY <1>3
  <2> QED BY <1>3, <2>1, UnmarkedKept, UnshownKept DEF From
<1> QED BY <1>1, <1>2, <1>3 DEF HandText

LEMMA ImeKeeps ==
  ASSUME RoutingInv, KeyAssumption, UNCHANGED platform, NEW s, ImeAnswers(s)
  PROVE  BridgeKept /\ ShownKept /\ seen' \in From(s)
<1>1. CASE HandText(s)
  BY <1>1, TextKeeps
<1>2. CASE BridgeReplace(Empty, s)
  BY <1>2, ReplaceKeeps
<1>3. ASSUME NEW text \in Marks, BridgeMark(text, s)
      PROVE  BridgeKept /\ ShownKept /\ seen' \in From(s)
  BY <1>3, MarkKeeps
<1>4. CASE BridgeUnmark(s)
  BY <1>4, <1>3 DEF BridgeUnmark, Marks
<1>5. ASSUME NEW mark \in BOOLEAN, WidgetAnswer(Empty, mark, s)
      PROVE  BridgeKept /\ ShownKept /\ seen' \in From(s)
  BY <1>5, WidgetKeeps
<1>6. CASE /\ seen' = s /\ NoPayload
           /\ UNCHANGED <<marked, composing, widget, shown>>
  <2>1. UNCHANGED marked /\ UNCHANGED shown
    BY <1>6
  <2> QED BY <1>6, <2>1, UnmarkedKept, UnshownKept DEF From
<1> QED BY <1>1, <1>2, <1>3, <1>4, <1>5, <1>6 DEF ImeAnswers, Marks

-----------------------------------------------------------------------------
(* The key listener.                                                       *)

LEMMA FreshIsSeen ==
  ASSUME RoutingInv, KeyAssumption, NEW k \in Keys
  PROVE  /\ Fresh(k) \in Seen
         /\ Fresh(k).from = focus
         /\ Fresh(k).key + Fresh(k).named + Fresh(k).marker = 0
<1>1. k.name \in Names
  BY DEF KeyAssumption
<1>2. focus \in {"root", "widget", "item"}
  BY DEF RoutingInv, RoutingOK
<1> DEFINE typed == k.char = "text" /\ k.mods = {}
<1>3. typed \in BOOLEAN
  OBVIOUS
<1>4. Fresh(k) = [Unseen EXCEPT !.from = focus, !.name = k.name, !.typed = typed]
  BY DEF Fresh
<1> HIDE DEF typed
<1>5. Fresh(k) = [key |-> 0, named |-> 0, marker |-> 0, app |-> 0, widget |-> 0,
                  dropped |-> 0, ime |-> FALSE, from |-> focus,
                  typed |-> typed, name |-> k.name]
  BY <1>4 DEF Unseen
<1>6. Fresh(k) \in Seen
  BY <1>1, <1>2, <1>3, <1>5 DEF Seen
<1>7. /\ Fresh(k).from = focus
      /\ Fresh(k).key = 0 /\ Fresh(k).named = 0 /\ Fresh(k).marker = 0
  BY <1>5
<1> QED BY <1>6, <1>7

LEMMA UnseenIsSeen ==
  /\ Unseen \in Seen
  /\ Unseen.from = "root"
BY DEF Unseen, Seen, None

LEMMA KeyDownKeeps ==
  ASSUME RoutingInv, KeyAssumption, NEW k \in Keys, KeyDown(k)
  PROVE  BridgeKept /\ ShownKept /\ SeenKept /\ focus' \in {"root", "widget", "item"}
<1>1. UNCHANGED platform /\ UNCHANGED marked
  BY DEF KeyDown, keyboard
<1>2. focus \in {"root", "widget", "item"} /\ Fresh(k) \in Seen
  BY FreshIsSeen DEF RoutingInv, RoutingOK
<1>3. CASE ComposingKey(k)
  <2>1. NoPayload /\ UNCHANGED shown /\ UNCHANGED focus
    BY <1>3 DEF ComposingKey
  <2>2. SeenKept
    BY <1>2, <1>3 DEF ComposingKey, SeenKept, WidgetOwnsKeys, Seen
  <2> QED BY <1>1, <1>2, <2>1, <2>2, UnmarkedKept, UnshownKept
<1>4. CASE ListenTab(k)
  <2>1. NoPayload /\ seen' = Fresh(k) /\ focus' \in {"root", "widget", "item"}
    BY <1>4 DEF ListenTab
  <2>2. ShownKept
    BY <1>1, <1>4 DEF ListenTab, ShownKept, ChangeIsDrawn, RoutingInv, RoutingOK
  <2>3. SeenKept
    BY <2>1, FreshIsSeen DEF SeenKept, WidgetOwnsKeys
  <2> QED BY <1>1, <2>1, <2>2, <2>3, UnmarkedKept
<1>5. CASE ListenInput(k)
  <2>1. NoPayload /\ UNCHANGED shown /\ UNCHANGED focus /\ seen' = Fresh(k)
    BY <1>5 DEF ListenInput
  <2>2. SeenKept
    BY <2>1, FreshIsSeen DEF SeenKept, WidgetOwnsKeys
  <2> QED BY <1>1, <1>2, <2>1, <2>2, UnmarkedKept, UnshownKept
<1>6. CASE ListenIme(k)
  <2>1. NoPayload /\ Handlers(FALSE) /\ UNCHANGED focus /\ platform = "macos"
    BY <1>6 DEF ListenIme, ImeOwned
  <2>2. SeenKept
    BY <1>2, <1>6, FreshIsSeen DEF ListenIme, InputFocused, SeenKept,
                                   WidgetOwnsKeys, Seen
  <2> QED BY <1>1, <1>2, <2>1, <2>2, UnmarkedKept, HandlersKeep
<1>7. CASE ListenKey(k)
  <2>1. UNCHANGED focus /\ focus # "widget"
    BY <1>7 DEF ListenKey, InputFocused
  <2>2. NoPayload \/ Payload(Typed)
    BY <1>7 DEF ListenKey
  <2>3. Handlers(TRUE) \/ UNCHANGED shown
    BY <1>7 DEF ListenKey
  <2>4. SeenKept
    BY <1>2, <1>7, <2>1, FreshIsSeen DEF ListenKey, SeenKept, WidgetOwnsKeys, Seen
  <2> QED BY <1>1, <1>2, <2>1, <2>2, <2>3, <2>4, UnmarkedKept, HandlersKeep,
             UnshownKept
<1> QED BY <1>3, <1>4, <1>5, <1>6, <1>7 DEF KeyDown

-----------------------------------------------------------------------------
(* All steps.                                                              *)

LEMMA OtherKeeps ==
  ASSUME RoutingInv, SwitchSource \/ Mouse \/ Frame \/ Reopen \/ UNCHANGED vars
  PROVE  RoutingInv'
<1>1. UNCHANGED platform /\ UNCHANGED marked /\ NoPayload
  BY DEF SwitchSource, Mouse, Frame, Reopen, vars, keyboard, NoPayload
<1>2. BridgeKept
  BY <1>1, UnmarkedKept
<1>3. focus' \in {"root", "widget", "item"}
  BY DEF SwitchSource, Mouse, Frame, Reopen, vars, RoutingInv, RoutingOK
<1>4. SeenKept
  <2>1. seen' = seen \/ seen' = Unseen
    BY DEF SwitchSource, Mouse, Frame, Reopen, vars
  <2> QED BY <2>1, UnseenIsSeen DEF SeenKept, WidgetOwnsKeys, RoutingInv, RoutingOK
<1>5. ShownKept
  <2>1. CASE Mouse
    <3>1. CASE Handlers(TRUE)
      BY <1>1, <3>1, HandlersKeep
    <3>2. CASE redraw' = TRUE /\ UNCHANGED silent /\ behind' \in {behind, TRUE}
      BY <1>1, <3>2 DEF ShownKept, ChangeIsDrawn, RoutingInv, RoutingOK
    <3> QED BY <2>1, <3>1, <3>2 DEF Mouse
  <2>2. CASE Frame \/ Reopen
    BY <2>2 DEF Frame, Reopen, ShownKept, ChangeIsDrawn
  <2>3. CASE SwitchSource \/ UNCHANGED vars
    BY <1>1, <2>3, UnshownKept DEF SwitchSource, vars
  <2> QED BY <2>1, <2>2, <2>3
<1> QED BY <1>1, <1>2, <1>3, <1>4, <1>5 DEF RoutingInv, RoutingOK, BridgeKept,
                                            ShownKept, SeenKept

LEMMA StepKeepsRouting ==
  ASSUME RoutingInv, KeyAssumption, [Next]_vars
  PROVE  RoutingInv'
<1>1. ASSUME NEW k \in Keys, KeyDown(k)
      PROVE  RoutingInv'
  <2>1. UNCHANGED platform
    BY <1>1 DEF KeyDown, keyboard
  <2> QED BY <1>1, <2>1, KeyDownKeeps DEF RoutingInv, RoutingOK, BridgeKept,
                                          ShownKept, SeenKept
<1>2. ASSUME NEW s \in Seen, HandText(s) \/ ImeAnswers(s),
             s.from = "widget" => s.key + s.named + s.marker = 0,
             UNCHANGED <<platform, focus>>
      PROVE  RoutingInv'
  <2>1. BridgeKept /\ ShownKept /\ seen' \in From(s)
    BY <1>2, TextKeeps, ImeKeeps
  <2>2. SeenKept
    BY <1>2, <2>1, FromKeepsSeen
  <2> QED BY <1>2, <2>1, <2>2 DEF RoutingInv, RoutingOK, BridgeKept, ShownKept,
                                  SeenKept
<1>3. seen \in Seen /\ (seen.from = "widget" => seen.key + seen.named + seen.marker = 0)
  BY DEF RoutingInv, RoutingOK, WidgetOwnsKeys
<1>4. CASE CharArrives
  BY <1>2, <1>3, <1>4 DEF CharArrives, keyboard
<1>5. CASE ContextAnswers
  <2> DEFINE s == [seen EXCEPT !.ime = TRUE]
  <2>1. s \in Seen /\ (s.from = "widget" => s.key + s.named + s.marker = 0)
    BY <1>3 DEF Seen
  <2> QED BY <1>2, <1>5, <2>1 DEF ContextAnswers, keyboard
<1>6. CASE ImeActs
  BY <1>2, <1>6, UnseenIsSeen DEF ImeActs, keyboard
<1> QED BY <1>1, <1>4, <1>5, <1>6, OtherKeeps DEF Next

LEMMA InitRouting == Init => RoutingInv
BY UnseenIsSeen DEF Init, RoutingInv, RoutingOK, Marks, MarkedIsShown,
                    ChangeIsDrawn, WidgetOwnsKeys

-----------------------------------------------------------------------------
\* The application's preedit strip shows what the bridge has marked, through
\* every dispatch, focus change, frame and window (lib.rs 3521-3539, 4080-4127).
THEOREM MarkIsShown == Spec => []MarkedIsShown
<1>1. RoutingInv => MarkedIsShown
  BY DEF RoutingInv
<1> QED BY InitRouting, StepKeepsRouting, KeyAssumption, <1>1, PTL DEF Spec

\* A tree that a handler commits gets a frame, but for the marker's dispatch on
\* macOS (lib.rs 4091-4097, 4264-4280, 4404-4446).
THEOREM ChangesAreDrawn == Spec => []ChangeIsDrawn
<1>1. RoutingInv => ChangeIsDrawn
  BY DEF RoutingInv
<1> QED BY InitRouting, StepKeepsRouting, KeyAssumption, <1>1, PTL DEF Spec

\* No key of a focused text input reaches the application as a key event
\* (lib.rs 4381-4403).
THEOREM KeysAreTheWidgets == Spec => []WidgetOwnsKeys
<1>1. RoutingInv => WidgetOwnsKeys
  BY DEF RoutingInv
<1> QED BY InitRouting, StepKeepsRouting, KeyAssumption, <1>1, PTL DEF Spec
-----------------------------------------------------------------------------
(* The text of a keystroke.                                                *)

\* While the platform still has its part to do, nothing is delivered; an Enter
\* that the listener forwards leaves it no part; and whoever types at the root
\* has an input handler.
TextInv ==
  /\ flight \in {None, "char", "context"}
  /\ focus = "root" /\ ~redraw => client # None
  /\ flight # None => seen.app = 0 /\ seen.widget = 0 /\ seen.dropped = 0
  /\ flight = "char" /\ seen.from = "root" => client # None
  /\ seen.name = "enter" /\ seen.from \in {"root", "item"} => flight = None
  /\ TextArrivesOnce /\ EnterOnce

\* What a call leaves of focus, client and the window's state.
LEMMA HandlersRedraw ==
  ASSUME RoutingInv, Handlers(TRUE) \/ Handlers(FALSE) \/ UNCHANGED shown
  PROVE  redraw => redraw'
BY DEF Handlers, shown, RoutingInv, RoutingOK

LEMMA AnswersRedraw ==
  ASSUME RoutingInv, NEW s, HandText(s) \/ ImeAnswers(s)
  PROVE  redraw => redraw'
BY DEF HandText, ImeAnswers, BridgeReplace, BridgeUnmark, BridgeMark,
       WidgetAnswer, Refreshing, shown

\* A text that is handed to the client is counted once, and dropped only for
\* want of a client.
LEMMA TextIsCounted ==
  ASSUME KeyAssumption, NEW s, HandText(s)
  PROVE  \/ seen' = [s EXCEPT !.app = @ + 1]
         \/ seen' = [s EXCEPT !.widget = @ + 1]
         \/ client = None /\ seen' = [s EXCEPT !.dropped = @ + 1]
<1>1. Typed # Empty
  BY DEF KeyAssumption
<1> QED BY <1>1 DEF HandText, BridgeReplace, WidgetAnswer

\* The fields of a fresh keystroke.
LEMMA FreshIs ==
  ASSUME NEW k
  PROVE  /\ Fresh(k).app = 0 /\ Fresh(k).widget = 0 /\ Fresh(k).dropped = 0
         /\ Fresh(k).name = k.name /\ Fresh(k).from = focus
         /\ Fresh(k).typed => k.char = "text" /\ k.mods = {}
         /\ Fresh(k).named = 0
<1> DEFINE typed == k.char = "text" /\ k.mods = {}
<1>1. Fresh(k) = [Unseen EXCEPT !.from = focus, !.name = k.name, !.typed = typed]
  BY DEF Fresh
<1> HIDE DEF typed
<1>2. Fresh(k) = [key |-> 0, named |-> 0, marker |-> 0, app |-> 0, widget |-> 0,
                  dropped |-> 0, ime |-> FALSE, from |-> focus,
                  typed |-> typed, name |-> k.name]
  BY <1>1 DEF Unseen
<1>3. /\ Fresh(k).app = 0 /\ Fresh(k).widget = 0 /\ Fresh(k).dropped = 0
      /\ Fresh(k).name = k.name /\ Fresh(k).from = focus
      /\ Fresh(k).typed = typed /\ Fresh(k).named = 0
  BY <1>2
<1> QED BY <1>3 DEF typed

\* What the platform does about a keystroke that the listener forwarded or
\* left alone.
LEMMA FollowUpIs ==
  ASSUME RoutingInv, KeyAssumption, NEW k \in Keys
  PROVE  /\ FollowUp(k) \in {None, "char", "context"}
         /\ k.name = "enter" /\ ~InputFocused => FollowUp(k) = None
         /\ FollowUp(k) = "context" => ImeOwned(k)
         /\ FollowUp(k) = "char" /\ ~InputFocused =>
              k.char = "text" /\ WmCharWillDeliver(k)
         /\ k.char = "text" /\ k.mods = {} /\ FollowUp(k) = None =>
              ~InputFocused /\ platform = "macos"
<1>1. platform \in {"macos", "windows"}
  BY DEF RoutingInv, RoutingOK, KeyAssumption
<1>2. k.name = "enter" => k.char # "text"
  BY DEF KeyAssumption
<1> QED BY <1>1, <1>2 DEF FollowUp, CharMessage, ImeOwned, WmCharWillDeliver, Alt,
                          None

LEMMA KeyDownCounts ==
  ASSUME RoutingInv, TextInv, KeyAssumption, NEW k \in Keys, KeyDown(k)
  PROVE  TextInv'
<1>1. ~redraw /\ flight = None /\ UNCHANGED <<client, platform>>
  BY DEF KeyDown, keyboard
<1>2. k.name \in {"enter", "tab"} => k.char # "text"
  BY DEF KeyAssumption
<1>3. focus = "root" => client # None
  BY <1>1 DEF TextInv
<1>4. CASE ComposingKey(k)
  <2>1. /\ flight' = "context" /\ UNCHANGED focus
        /\ seen' = [Fresh(k) EXCEPT !.ime = TRUE, !.from = "ime"]
    BY <1>4 DEF ComposingKey
  <2>2. Fresh(k) \in Seen
    BY FreshIsSeen
  <2>3. /\ seen'.app = 0 /\ seen'.widget = 0 /\ seen'.dropped = 0
        /\ seen'.ime = TRUE /\ seen'.from = "ime"
    BY <2>1, <2>2, FreshIs DEF Seen
  <2> QED BY <1>1, <1>3, <2>1, <2>3 DEF TextInv, TextArrivesOnce, EnterOnce, None
<1>5. CASE ListenTab(k)
  <2>1. flight' = None /\ redraw' = TRUE /\ seen' = Fresh(k) /\ k.name = "tab"
    BY <1>5 DEF ListenTab
  <2>2. TextArrivesOnce' /\ EnterOnce'
    BY <1>2, <2>1, FreshIs DEF TextArrivesOnce, EnterOnce
  <2> QED BY <1>1, <2>1, <2>2 DEF TextInv, None
<1>6. CASE ListenInput(k)
  <2>1. /\ flight' = FollowUp(k) /\ UNCHANGED focus /\ seen' = Fresh(k)
        /\ focus = "widget"
    BY <1>6 DEF ListenInput, InputFocused
  <2>2. /\ seen'.app = 0 /\ seen'.widget = 0 /\ seen'.dropped = 0
        /\ seen'.from = "widget"
        /\ seen'.typed => k.char = "text" /\ k.mods = {}
    BY <2>1, FreshIs
  <2>3. /\ FollowUp(k) \in {None, "char", "context"}
        /\ k.char = "text" /\ k.mods = {} => FollowUp(k) # None
    BY <2>1, FollowUpIs DEF InputFocused
  <2> QED BY <1>1, <2>1, <2>2, <2>3 DEF TextInv, TextArrivesOnce, EnterOnce
<1>7. CASE ListenIme(k)
  <2>1. /\ flight' = FollowUp(k) /\ UNCHANGED focus /\ ImeOwned(k)
        /\ seen' = [Fresh(k) EXCEPT !.marker = 1, !.ime = TRUE]
    BY <1>7 DEF ListenIme
  <2>2. Fresh(k) \in Seen
    BY FreshIsSeen
  <2>3. /\ seen'.app = 0 /\ seen'.widget = 0 /\ seen'.dropped = 0
        /\ seen'.ime = TRUE /\ seen'.from = focus /\ seen'.name = k.name
    BY <2>1, <2>2, FreshIs DEF Seen
  <2>4. k.name # "enter"
    BY <2>1 DEF ImeOwned
  <2> QED BY <1>1, <1>3, <2>1, <2>3, <2>4, FollowUpIs
          DEF TextInv, TextArrivesOnce, EnterOnce
<1>8. CASE ListenKey(k)
  <2> DEFINE text == TypedText(k) /\ ~WmCharWillDeliver(k)
  <2>1. /\ flight' = FollowUp(k) /\ UNCHANGED focus /\ ~ImeOwned(k)
        /\ ~InputFocused /\ k.name # "tab"
    BY <1>8 DEF ListenKey
  <2>2. seen' = [Fresh(k) EXCEPT !.key = IF KeyCode(k) THEN 1 ELSE 0,
                                 !.named = IF NamedKey(k) THEN 1 ELSE 0,
                                 !.app = IF text THEN 1 ELSE 0]
    BY <1>8 DEF ListenKey
  <2>3. Fresh(k) \in Seen
    BY FreshIsSeen
  <2>4. text \in BOOLEAN
    OBVIOUS
  <2> HIDE DEF text
  <2>5. /\ seen'.app = IF text THEN 1 ELSE 0
        /\ seen'.named = IF NamedKey(k) THEN 1 ELSE 0
        /\ seen'.widget = 0 /\ seen'.dropped = 0
        /\ seen'.from = focus /\ seen'.name = k.name
        /\ seen'.typed => k.char = "text" /\ k.mods = {}
    BY <2>2, <2>3, <2>4, FreshIs DEF Seen
  <2>6. FollowUp(k) # None => ~text
    BY <2>1, FollowUpIs DEF text
  <2>7. k.char = "text" /\ k.mods = {} /\ FollowUp(k) = None => text
    BY FollowUpIs DEF text, TypedText, WmCharWillDeliver
  <2>8. k.name = "enter" => ~text /\ NamedKey(k) /\ FollowUp(k) = None
    BY <1>2, <2>1, FollowUpIs DEF text, TypedText, NamedKey
  <2>9. FollowUp(k) \in {None, "char", "context"}
    BY FollowUpIs
  <2>10. TextArrivesOnce'
    BY <2>1, <2>5, <2>7 DEF TextArrivesOnce
  <2>11. EnterOnce'
    BY <2>5, <2>8 DEF EnterOnce
  <2> QED BY <1>1, <1>3, <2>1, <2>5, <2>6, <2>8, <2>9, <2>10, <2>11 DEF TextInv
<1> QED BY <1>4, <1>5, <1>6, <1>7, <1>8 DEF KeyDown

\* What answers a keystroke in flight; s is what is seen so far.
LEMMA CharCounts ==
  ASSUME RoutingInv, TextInv, KeyAssumption, CharArrives
  PROVE  TextInv'
<1>1. /\ flight = "char" /\ flight' = None /\ HandText(seen)
      /\ UNCHANGED <<focus, client>>
  BY DEF CharArrives
<1>2. seen \in Seen /\ redraw \in BOOLEAN
  BY DEF RoutingInv, RoutingOK
<1>3. seen.app = 0 /\ seen.widget = 0 /\ seen.dropped = 0
  BY <1>1 DEF TextInv, None
<1>4. redraw => redraw'
  BY <1>1, <1>2, AnswersRedraw
<1>5. redraw' \in BOOLEAN
  BY <1>1, TextKeeps DEF ShownKept, CharArrives, keyboard
<1>6. /\ seen'.from = seen.from /\ seen'.name = seen.name
      /\ seen'.app + seen'.widget <= 1
      /\ seen'.app + seen'.widget + seen'.dropped = 1
      /\ seen'.dropped = 1 => client = None
  BY <1>1, <1>2, <1>3, TextIsCounted DEF Seen
<1>7. TextArrivesOnce'
  BY <1>1, <1>6 DEF TextArrivesOnce, TextInv
<1>8. ~(seen.name = "enter" /\ seen.from \in {"root", "item"})
  BY <1>1 DEF TextInv, None
<1> QED BY <1>1, <1>2, <1>4, <1>5, <1>6, <1>7, <1>8 DEF TextInv, EnterOnce

LEMMA ImeCounts ==
  ASSUME RoutingInv, TextInv, KeyAssumption, ContextAnswers \/ ImeActs
  PROVE  TextInv'
<1> DEFINE s == IF flight = "context" THEN [seen EXCEPT !.ime = TRUE] ELSE Unseen
<1>1. /\ flight' = None /\ ImeAnswers(s) /\ UNCHANGED <<focus, client, platform>>
  BY DEF ContextAnswers, ImeActs, keyboard, None
<1>2. /\ seen \in Seen /\ redraw \in BOOLEAN
      /\ ~(flight = "context" /\ seen.name = "enter"
           /\ seen.from \in {"root", "item"})
  BY DEF RoutingInv, RoutingOK, TextInv, None
<1>3. /\ s \in Seen /\ s.app = 0 /\ s.widget = 0 /\ s.dropped = 0
      /\ s.ime \/ ~s.typed
      /\ ~(s.name = "enter" /\ s.from \in {"root", "item"})
  <2>1. CASE flight = "context"
    <3>1. s = [seen EXCEPT !.ime = TRUE]
      BY <2>1
    <3>2. seen.app = 0 /\ seen.widget = 0 /\ seen.dropped = 0
      BY <2>1 DEF TextInv, None
    <3> QED BY <1>2, <2>1, <3>1, <3>2 DEF Seen
  <2>2. CASE flight # "context"
    <3>1. s = Unseen
      BY <2>2
    <3>2. /\ Unseen.app = 0 /\ Unseen.widget = 0 /\ Unseen.dropped = 0
          /\ Unseen.typed = FALSE /\ Unseen.name = "none"
      BY DEF Unseen, None
    <3> QED BY <3>1, <3>2, UnseenIsSeen
  <2> QED BY <2>1, <2>2
<1> HIDE DEF s
<1>4. redraw => redraw'
  BY <1>1, AnswersRedraw
<1>5. redraw' \in BOOLEAN /\ seen' \in From(s)
  BY <1>1, ImeKeeps DEF ShownKept
<1>6. /\ seen'.from = s.from /\ seen'.name = s.name
      /\ seen'.typed = s.typed /\ seen'.ime = s.ime
      /\ seen'.app + seen'.widget <= 1
  BY <1>3, <1>5 DEF From, Seen
<1>7. TextArrivesOnce'
  BY <1>3, <1>6 DEF TextArrivesOnce
<1>8. EnterOnce'
  BY <1>3, <1>6 DEF EnterOnce
<1> QED BY <1>1, <1>2, <1>3, <1>4, <1>5, <1>6, <1>7, <1>8 DEF TextInv, None

\* The other steps take nothing from the keystroke, and keep the client of
\* whoever types at the root.
LEMMA OtherCounts ==
  ASSUME RoutingInv, TextInv, SwitchSource \/ Mouse \/ Frame \/ Reopen \/ UNCHANGED vars
  PROVE  TextInv'
<1>1. /\ flight' = flight
      /\ flight = None \/ UNCHANGED vars
      /\ seen' = seen \/ seen' = Unseen
  BY DEF SwitchSource, Mouse, Frame, Reopen, vars
<1>2. /\ Unseen.app = 0 /\ Unseen.widget = 0 /\ Unseen.dropped = 0
      /\ Unseen.typed = FALSE /\ Unseen.name = "none"
  BY DEF Unseen, None
<1>3. /\ TextArrivesOnce' /\ EnterOnce'
      /\ seen'.name = "enter" /\ seen'.from \in {"root", "item"} => flight' = None
      /\ flight' # None =>
           seen'.app = 0 /\ seen'.widget = 0 /\ seen'.dropped = 0
  BY <1>1, <1>2 DEF TextInv, TextArrivesOnce, EnterOnce, vars
<1>4. focus' = "root" /\ ~redraw' => client' # None
  <2>1. CASE Mouse
    <3>1. CASE focus' = focus
      <4>1. Handlers(TRUE) /\ UNCHANGED client
        BY <2>1, <3>1 DEF Mouse
      <4> QED BY <3>1, <4>1, HandlersRedraw DEF TextInv
    <3>2. CASE focus' # focus
      BY <2>1, <3>2 DEF Mouse
    <3> QED BY <3>1, <3>2
  <2>2. CASE Frame
    BY <2>2 DEF Frame, None
  <2>3. CASE Reopen
    BY <2>3 DEF Reopen
  <2>4. CASE SwitchSource \/ UNCHANGED vars
    BY <2>4 DEF SwitchSource, vars, shown, TextInv
  <2> QED BY <2>1, <2>2, <2>3, <2>4
<1>5. flight' = "char" /\ seen'.from = "root" => client' # None
  BY <1>1 DEF TextInv, vars, None
<1> QED BY <1>1, <1>3, <1>4, <1>5 DEF TextInv

LEMMA StepKeepsText ==
  ASSUME RoutingInv, TextInv, KeyAssumption, [Next]_vars
  PROVE  TextInv'
BY KeyDownCounts, CharCounts, ImeCounts, OtherCounts DEF Next

LEMMA InitText == Init => TextInv
BY DEF Init, TextInv, TextArrivesOnce, EnterOnce, Unseen, None

-----------------------------------------------------------------------------
\* The text of one keystroke arrives once, at one receiver, or was left to an
\* input handler that is not there (lib.rs 4381-4454).
THEOREM TextsArriveOnce == Spec => []TextArrivesOnce
<1>1. TextInv => TextArrivesOnce
  BY DEF TextInv
<1> QED BY InitRouting, StepKeepsRouting, InitText, StepKeepsText, KeyAssumption,
           <1>1, PTL DEF Spec

\* A forwarded Enter is one named key and never a text (lib.rs 4637-4672).
THEOREM EntersOnce == Spec => []EnterOnce
<1>1. TextInv => EnterOnce
  BY DEF TextInv
<1> QED BY InitRouting, StepKeepsRouting, InitText, StepKeepsText, KeyAssumption,
           <1>1, PTL DEF Spec

-----------------------------------------------------------------------------
(* Types.                                                                  *)

RestOK ==
  /\ source \in BOOLEAN /\ client \in {None, "bridge", "widget"}
  /\ widget \in BOOLEAN /\ composing \in BOOLEAN /\ strip \in Marks

\* What a dispatch or an input method may change of these.
AppOK == widget' \in BOOLEAN /\ composing' \in BOOLEAN /\ strip' \in Marks

LEMMA PayloadIsTyped ==
  ASSUME RoutingInv, RestOK,
         NoPayload \/ \E text \in Marks \cup {Typed} : Payload(text)
  PROVE  strip' \in Marks
BY PayloadIsCopied DEF NoPayload, RoutingInv, RoutingOK, RestOK

LEMMA HandlersTyped ==
  ASSUME RestOK, Handlers(TRUE) \/ Handlers(FALSE) \/ Refreshing
  PROVE  widget' \in BOOLEAN
BY DEF Handlers, Refreshing, RestOK

LEMMA AnswersTyped ==
  ASSUME RoutingInv, RestOK, NEW s, HandText(s) \/ ImeAnswers(s)
  PROVE  AppOK
<1>1. ASSUME NEW text \in Marks \cup {Typed}, BridgeReplace(text, s)
      PROVE  AppOK
  <2>1. NoPayload \/ Payload(Empty)
    BY <1>1 DEF BridgeReplace, NoPayload
  <2>2. UNCHANGED composing /\ (UNCHANGED widget \/ Refreshing)
    BY <1>1 DEF BridgeReplace
  <2> QED BY <2>1, <2>2, PayloadIsTyped, HandlersTyped DEF AppOK, RestOK, Marks
<1>2. ASSUME NEW text \in Marks, BridgeMark(text, s)
      PROVE  AppOK
  BY <1>2, PayloadIsTyped, HandlersTyped DEF BridgeMark, AppOK, RestOK
<1>3. ASSUME NEW text, NEW mark \in BOOLEAN, WidgetAnswer(text, mark, s)
      PROVE  AppOK
  BY <1>3, PayloadIsTyped, HandlersTyped DEF WidgetAnswer, AppOK
<1>4. CASE NoPayload /\ UNCHANGED <<composing, widget>>
  BY <1>4, PayloadIsTyped DEF AppOK, RestOK
<1>5. CASE HandText(s)
  BY <1>1, <1>3, <1>4, <1>5 DEF HandText
<1>6. CASE ImeAnswers(s)
  <2>1. Empty \in Marks
    BY DEF Marks
  <2> QED BY <1>1, <1>2, <1>3, <1>4, <1>5, <1>6, <2>1 DEF ImeAnswers, BridgeUnmark, Marks
<1> QED BY <1>5, <1>6

LEMMA KeyDownTyped ==
  ASSUME RoutingInv, RestOK, NEW k \in Keys, KeyDown(k)
  PROVE  AppOK
<1>1. UNCHANGED composing
  BY DEF KeyDown
<1>2. CASE ComposingKey(k) \/ ListenTab(k) \/ ListenInput(k)
  <2>1. NoPayload /\ UNCHANGED widget
    BY <1>2 DEF ComposingKey, ListenTab, ListenInput
  <2> QED BY <1>1, <2>1, PayloadIsTyped DEF AppOK, RestOK
<1>3. CASE ListenIme(k)
  BY <1>1, <1>3, PayloadIsTyped, HandlersTyped DEF ListenIme, AppOK, RestOK
<1>4. CASE ListenKey(k)
  <2>1. NoPayload \/ Payload(Typed)
    BY <1>4 DEF ListenKey
  <2>2. Handlers(TRUE) \/ UNCHANGED widget
    BY <1>4 DEF ListenKey
  <2> QED BY <1>1, <2>1, <2>2, PayloadIsTyped, HandlersTyped DEF AppOK, RestOK
<1> QED BY <1>2, <1>3, <1>4 DEF KeyDown

LEMMA StepKeepsTypes ==
  ASSUME RoutingInv, RestOK, [Next]_vars
  PROVE  RestOK'
<1>1. ASSUME AppOK, UNCHANGED <<source, client>>
      PROVE  RestOK'
  BY <1>1 DEF AppOK, RestOK
<1>2. ASSUME NEW k \in Keys, KeyDown(k)
      PROVE  RestOK'
  BY <1>1, <1>2, KeyDownTyped DEF KeyDown, keyboard
<1>3. CASE CharArrives \/ ContextAnswers \/ ImeActs
  BY <1>1, <1>3, AnswersTyped DEF CharArrives, ContextAnswers, ImeActs, keyboard
<1>4. CASE Mouse
  <2>1. UNCHANGED <<source, client, composing, strip>> /\ widget' \in BOOLEAN
    BY <1>4, HandlersTyped DEF Mouse, NoPayload, keyboard, RestOK
  <2> QED BY <2>1 DEF RestOK
<1>5. CASE SwitchSource \/ Frame \/ Reopen \/ UNCHANGED vars
  BY <1>5 DEF SwitchSource, Frame, Reopen, vars, keyboard, RestOK, None
<1> QED BY <1>2, <1>3, <1>4, <1>5 DEF Next

\* KeyRouting is type-correct.
THEOREM RoutingTyped == Spec => []TypeOK
<1>1. Init => RestOK
  BY DEF Init, RestOK, Marks, None
<1>2. RoutingInv /\ TextInv /\ RestOK => TypeOK
  <2>1. <<>> \in Seq({Typed, Empty} \cup Preedits)
    OBVIOUS
  <2> QED BY <2>1 DEF RoutingInv, RoutingOK, TextInv, RestOK, TypeOK, Marks
<1> QED BY InitRouting, StepKeepsRouting, InitText, StepKeepsText, StepKeepsTypes,
           KeyAssumption, <1>1, <1>2, PTL DEF Spec
=============================================================================
