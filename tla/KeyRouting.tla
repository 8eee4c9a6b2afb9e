----------------------------- MODULE KeyRouting -----------------------------
(***************************************************************************)
(* Where a keystroke goes: the window's key listener, the input method's   *)
(* bridge and the payload queue (gpui-sys/src/lib.rs 162-169, 368-385,     *)
(* 545-576, 3505-3557, 4019-4349, 4364-4470 and 4600-4688).                *)
(*                                                                         *)
(* A keystroke may reach MoonBit as EVENT_KEY, EVENT_NAMED_KEY or          *)
(* EVENT_TEXT from the listener, or as text that the platform hands back   *)
(* to the input handler that the last frame registered: the bridge, which  *)
(* dispatches EVENT_TEXT, or a text-input widget.  Which of them delivers  *)
(* the text depends on the platform, the focus, the input source and the   *)
(* modifiers, and it must be one.                                          *)
(*                                                                         *)
(* Of the platform only what the sources state is assumed: a dirty window  *)
(* is drawn before a key is routed; handle_input registers a handler for   *)
(* the focused handle; Windows follows a keydown with a character message  *)
(* except under Alt, control characters filtered; macOS sends composing    *)
(* keydowns to the input context first, and those that the listener        *)
(* declines, for an input method or a text input, after it.                *)
(***************************************************************************)
EXTENDS Naturals, Sequences, FiniteSets

CONSTANTS
  Platforms,    \* among "macos" and "windows"
  Keys,         \* keystrokes [name, char, mods]
  Preedits,     \* texts that an input method composes
  Empty,        \* the empty text
  Typed         \* the text of a keystroke, or of a commit

Names == {"tab", "enter", "arrow", "space", "letter"}

ASSUME KeyAssumption ==
  /\ Platforms \subseteq {"macos", "windows"}
  /\ Keys \subseteq [name : Names, char : {"none", "text", "control"},
                     mods : SUBSET {"ctrl", "alt", "cmd"}]
  /\ \A k \in Keys : k.name \in {"enter", "tab"} => k.char # "text"
  /\ Empty \notin Preedits /\ Typed \notin Preedits /\ Empty # Typed

VARIABLES
  platform,
  source,       \* the selected input source composes (macOS)
  focus,        \* "root", "widget", or an "item": a focusable div
  client,       \* the input handler that the last frame registered
  widget,       \* the committed tree has a text input
  marked,       \* IME_MARKED of the view: Empty for no marked range
  composing,    \* the widget has a marked range
  strip,        \* the preedit that the application shows
  queue,        \* EVENT_QUEUE
  flight,       \* what the platform still does about the keystroke
  seen,         \* what the last keystroke has led to
  redraw,       \* the window is dirty
  behind,       \* the committed tree is not the painted one
  silent        \* ... because a dispatch's result was thrown away

keyboard == <<platform, source>>
shown    == <<redraw, behind, silent>>
vars     == <<keyboard, focus, client, widget, marked, composing, strip,
              queue, flight, seen, shown>>

None   == "none"
Unseen == [key |-> 0, named |-> 0, marker |-> 0, app |-> 0, widget |-> 0,
           dropped |-> 0, ime |-> FALSE, from |-> "root", typed |-> FALSE,
           name |-> None]

Init ==
  /\ platform \in Platforms /\ source = FALSE
  /\ focus = "root" /\ client = None
  /\ widget \in BOOLEAN
  /\ marked = Empty /\ composing = FALSE /\ strip = Empty
  /\ queue = <<>> /\ flight = None /\ seen = Unseen
  /\ redraw = TRUE /\ behind = TRUE /\ silent = FALSE

-----------------------------------------------------------------------------
(* Dispatches.                                                             *)

\* Mutant of Payload: a commit is taken for a preedit.
PayloadUntagged(text) == queue' = <<>> /\ strip' = text

\* Push, dispatch, clear: while it runs, the handler copies the entry of its
\* token; what is not a commit's text is the preedit to show.
Payload(text) ==
  LET token == Len(queue) + 1
      copied == Append(queue, text)[token]
  IN /\ queue' = <<>>
     /\ strip' = IF copied = Typed THEN strip ELSE copied

NoPayload == UNCHANGED <<queue, strip>>

\* What the handlers changed: nothing, or the tree, in which a text input may
\* have come or gone.  notify_if_changed asks for a frame.
Handlers(notify) ==
  \/ UNCHANGED <<widget, shown>>
  \/ /\ widget' \in BOOLEAN
     /\ behind' = TRUE
     /\ redraw' = (redraw \/ notify) /\ silent' = (silent \/ ~notify)

\* As Handlers, and window.refresh() whatever the result.
Refreshing ==
  /\ redraw' = TRUE /\ UNCHANGED silent
  /\ \/ UNCHANGED <<widget, behind>>
     \/ widget' \in BOOLEAN /\ behind' = TRUE

-----------------------------------------------------------------------------
(* The bridge and the widget as input handlers.  s is what is seen so far. *)

\* ImeBridge::replace_text_in_range.  The second dispatch carries the text;
\* the first has emptied the strip.  An empty text only unmarks.
BridgeReplace(text, s) ==
  /\ marked' = Empty
  /\ IF text = Empty
       THEN UNCHANGED <<queue, strip, widget, shown>> /\ seen' = s
       ELSE /\ Payload(Empty) /\ Refreshing
            /\ seen' = [s EXCEPT !.app = @ + 1]
  /\ UNCHANGED composing

\* Mutant of BridgeMark: an update dispatches only what it adds to nothing.
BridgeMarkFirst(text, s) ==
  /\ marked' = text
  /\ IF marked = Empty THEN Payload(text) ELSE NoPayload
  /\ Refreshing /\ seen' = s /\ UNCHANGED composing

\* ImeBridge::replace_and_mark_text_in_range; Empty unmarks.
BridgeMark(text, s) ==
  /\ marked' = text
  /\ Payload(text) /\ Refreshing
  /\ seen' = s /\ UNCHANGED composing

\* ImeBridge::unmark_text.
BridgeUnmark(s) == BridgeMark(Empty, s)

\* The widget's handler (module TextInput): here only whether it composes, and
\* that text reached it.
WidgetAnswer(text, mark, s) ==
  /\ composing' = mark
  /\ seen' = IF text = Typed THEN [s EXCEPT !.widget = @ + 1] ELSE s
  /\ NoPayload /\ Refreshing /\ UNCHANGED marked

\* A text that the platform hands to the client of the last frame.
HandText(s) ==
  \/ client = "bridge" /\ BridgeReplace(Typed, s)
  \/ client = "widget" /\ WidgetAnswer(Typed, FALSE, s)
  \/ /\ client = None
     /\ seen' = [s EXCEPT !.dropped = @ + 1]
     /\ NoPayload /\ UNCHANGED <<marked, composing, widget, shown>>

\* An input method commits, composes, cancels by an empty commit, or unmarks.
ImeAnswers(s) ==
  \/ HandText(s)
  \/ /\ client = "bridge"
     /\ \/ BridgeReplace(Empty, s) \/ BridgeUnmark(s)
        \/ \E text \in Preedits \cup {Empty} : BridgeMark(text, s)
  \/ /\ client = "widget"
     /\ \E mark \in BOOLEAN : WidgetAnswer(Empty, mark, s)
  \/ /\ seen' = s /\ NoPayload
     /\ UNCHANGED <<marked, composing, widget, shown>>

-----------------------------------------------------------------------------
(* The key listener.                                                       *)

Alt(k)  == "alt" \in k.mods

\* key_code, named_key_id and typed_text.
KeyCode(k)   == k.name = "letter"
NamedKey(k)  == k.name \in {"enter", "arrow", "tab"}

TypedText(k) == k.char = "text" \/ k.name = "letter"

\* Mutant of ImeOwned: Enter is the input method's even while it is idle.
ImeOwnedEnter(k) ==
  /\ k.char # "none" /\ k.mods \cap {"ctrl", "cmd"} = {}
  /\ platform = "macos" /\ source

\* ime_owned_when_idle, the modifiers and ime_input_source_active.
ImeOwned(k) ==
  /\ k.name # "enter" /\ k.char # "none"
  /\ k.mods \cap {"ctrl", "cmd"} = {}
  /\ platform = "macos" /\ source

\* Mutant of WmCharWillDeliver: on no platform.
WmCharNever(k) == FALSE

WmCharWillDeliver(k) == platform = "windows" /\ ~Alt(k)

\* Windows' character message: for what types text, without Ctrl or Alt.
CharMessage(k) ==
  platform = "windows" /\ k.char = "text" /\ k.mods \cap {"ctrl", "alt"} = {}

\* Mutant of InputFocused: looks for a widget in the tree, not for its focus.
InputInTree == widget /\ focus # "item"

InputFocused == focus = "widget"

\* What the platform does after the listener.
FollowUp(k) ==
  CASE CharMessage(k) -> "char"
    [] platform = "macos" /\ ImeOwned(k) -> "context"
    [] platform = "macos" /\ InputFocused /\ k.char = "text"
         /\ k.mods \cap {"ctrl", "cmd"} = {} -> "char"
    [] OTHER -> None

Fresh(k) == [Unseen EXCEPT !.from = focus, !.name = k.name,
               !.typed = k.char = "text" /\ k.mods = {}]

\* Tab moves the focus and is not forwarded.
ListenTab(k) ==
  /\ k.name = "tab"
  /\ focus' \in {"root", "item"} \cup (IF widget THEN {"widget"} ELSE {})
  /\ seen' = Fresh(k) /\ redraw' = TRUE /\ flight' = None
  /\ NoPayload /\ UNCHANGED <<widget, behind, silent>>

\* A focused text input takes every other key.
ListenInput(k) ==
  /\ k.name # "tab" /\ InputFocused
  /\ seen' = Fresh(k) /\ flight' = FollowUp(k)
  /\ NoPayload /\ UNCHANGED <<focus, widget, shown>>

\* A key that the input method owns: the marker, whose result is ignored.
ListenIme(k) ==
  /\ k.name # "tab" /\ ~InputFocused /\ ImeOwned(k)
  /\ seen' = [Fresh(k) EXCEPT !.marker = 1, !.ime = TRUE]
  /\ flight' = FollowUp(k)
  /\ Handlers(FALSE)
  /\ NoPayload /\ UNCHANGED focus

\* Mutant of ListenKey: the notification of EVENT_TEXT alone is kept.
ListenKeySilent(k) ==
  /\ k.name # "tab" /\ ~InputFocused /\ ~ImeOwned(k)
  /\ seen' = [Fresh(k) EXCEPT !.key = 1]
  /\ flight' = FollowUp(k)
  /\ Handlers(FALSE)
  /\ NoPayload /\ UNCHANGED focus

\* EVENT_KEY or EVENT_NAMED_KEY, and then EVENT_TEXT unless a character
\* message will deliver it.
ListenKey(k) ==
  /\ k.name # "tab" /\ ~InputFocused /\ ~ImeOwned(k)
  /\ LET text == TypedText(k) /\ ~WmCharWillDeliver(k) IN
     /\ seen' = [Fresh(k) EXCEPT !.key = IF KeyCode(k) THEN 1 ELSE 0,
                                 !.named = IF NamedKey(k) THEN 1 ELSE 0,
                                 !.app = IF text THEN 1 ELSE 0]
     /\ IF text THEN Payload(Typed) ELSE NoPayload
     /\ IF text \/ KeyCode(k) \/ NamedKey(k)
          THEN Handlers(TRUE) ELSE UNCHANGED <<widget, shown>>
  /\ flight' = FollowUp(k)
  /\ UNCHANGED focus

ImeComposing ==
  \/ client = "bridge" /\ marked # Empty
  \/ client = "widget" /\ composing

\* macOS sends the keydown of a composition to the input context first.
ComposingKey(k) ==
  /\ platform = "macos" /\ ImeComposing
  /\ seen' = [Fresh(k) EXCEPT !.ime = TRUE, !.from = "ime"]
  /\ flight' = "context"
  /\ NoPayload /\ UNCHANGED <<focus, widget, shown>>

KeyDown(k) ==
  /\ ~redraw /\ flight = None
  /\ \/ ComposingKey(k)
     \/ /\ ~(platform = "macos" /\ ImeComposing)
        /\ ListenTab(k) \/ ListenInput(k) \/ ListenIme(k) \/ ListenKey(k)
  /\ UNCHANGED <<keyboard, client, marked, composing>>

\* The platform's part of the keystroke.
CharArrives ==
  /\ flight = "char" /\ flight' = None
  /\ HandText(seen)
  /\ UNCHANGED <<keyboard, focus, client>>

ContextAnswers ==
  /\ flight = "context" /\ flight' = None
  /\ ImeAnswers([seen EXCEPT !.ime = TRUE])
  /\ UNCHANGED <<keyboard, focus, client>>

-----------------------------------------------------------------------------
(* Everything else.                                                        *)

\* The candidate window is clicked, the input method gives up, or, on Windows,
\* where it answers with messages of its own, it goes on by itself.
ImeActs ==
  /\ flight = None /\ client # None
  /\ ImeComposing \/ platform = "windows"
  /\ ImeAnswers(Unseen)
  /\ UNCHANGED <<keyboard, focus, client, flight>>

SwitchSource ==
  /\ platform = "macos" /\ flight = None
  /\ source' = ~source
  /\ UNCHANGED <<platform, focus, client, widget, marked, composing, strip,
                 queue, flight, seen, shown>>

\* A click moves the focus; dispatch_mouse sends its position as a payload
\* that is neither text nor preedit.
Mouse ==
  /\ flight = None
  /\ focus' \in {"root", "item"} \cup (IF widget THEN {"widget"} ELSE {})
  /\ IF focus' = focus
       THEN Handlers(TRUE)
       ELSE /\ redraw' = TRUE /\ UNCHANGED silent
            /\ \/ UNCHANGED <<widget, behind>>
               \/ widget' \in BOOLEAN /\ behind' = TRUE
  /\ seen' = Unseen
  /\ NoPayload /\ UNCHANGED <<keyboard, client, marked, composing, flight>>

\* A frame registers the bridge for the view's focus handle, and then each
\* text input for its own; one that lost its place in the tree is not there.
Frame ==
  /\ redraw /\ flight = None
  /\ client' = CASE focus = "root" -> "bridge"
                 [] focus = "widget" /\ widget -> "widget"
                 [] OTHER -> None
  /\ redraw' = FALSE /\ behind' = FALSE /\ silent' = FALSE
  /\ UNCHANGED <<keyboard, focus, widget, marked, composing, strip, queue,
                 flight, seen>>

\* Another window of the view: its models are new, IME_MARKED is not.
Reopen ==
  /\ flight = None
  /\ focus' = "root" /\ client' = None /\ composing' = FALSE
  /\ redraw' = TRUE /\ behind' = TRUE /\ silent' = FALSE
  /\ seen' = Unseen
  /\ UNCHANGED <<keyboard, widget, marked, strip, queue, flight>>

Next ==
  \/ \E k \in Keys : KeyDown(k)
  \/ CharArrives \/ ContextAnswers
  \/ ImeActs \/ SwitchSource \/ Mouse \/ Frame \/ Reopen

Spec == Init /\ [][Next]_vars

-----------------------------------------------------------------------------
(* Properties.                                                             *)

TypeOK ==
  /\ platform \in Platforms /\ source \in BOOLEAN
  /\ focus \in {"root", "widget", "item"}
  /\ client \in {None, "bridge", "widget"} /\ widget \in BOOLEAN
  /\ marked \in Preedits \cup {Empty} /\ composing \in BOOLEAN
  /\ strip \in Preedits \cup {Empty}
  /\ queue \in Seq({Typed, Empty} \cup Preedits)
  /\ flight \in {None, "char", "context"}
  /\ redraw \in BOOLEAN /\ behind \in BOOLEAN /\ silent \in BOOLEAN

\* The text of one keystroke is delivered once, whether by the listener, by a
\* character message or by an input method's commit, and never both to the
\* application and to a text input.  Typed text that no input method takes does
\* arrive, unless the sources leave it to an input handler while none is
\* registered: the focus is on a div that is merely focusable, or on a text
\* input that left the tree (4381-4454, RFC 0003 section 3.4).
TextArrivesOnce ==
  /\ seen.app + seen.widget <= 1
  /\ flight = None /\ seen.typed /\ ~seen.ime =>
       /\ seen.app + seen.widget + seen.dropped = 1
       /\ seen.dropped = 1 => seen.from # "root"

\* Enter is neither lost to an idle input method nor delivered a second time
\* as a line feed (4637-4657, 4659-4672).
EnterOnce ==
  seen.name = "enter" /\ seen.from \in {"root", "item"} =>
    seen.named = 1 /\ seen.app = 0

\* Keys of a focused text input are the widget's alone: the application sees
\* neither key nor text of them (RFC 0003 section 3.4, 4386-4403).
WidgetOwnsKeys ==
  seen.from = "widget" =>
    seen.key + seen.named + seen.marker = 0

\* While the bridge is marked the application shows what the input method
\* composes, through updates, frames, focus changes and reopened windows
\* (3521-3539, 4080-4127).
MarkedIsShown == marked # Empty => strip = marked

\* A tree that a handler commits gets a frame, whichever path led to the
\* handler; the one exception is the marker of an input method's key, whose
\* result is ignored (4404-4446).
ChangeIsDrawn ==
  /\ behind => redraw \/ silent
  /\ silent => platform = "macos"
=============================================================================
