# Formal models of gpui-moonbit

gpui-moonbit lets MoonBit programs drive the Rust UI library gpui. MoonBit
encodes a whole widget tree as one command buffer, `gpui-sys` (one Rust crate,
`gpui-sys/src/lib.rs`) decodes it, renders it and calls back into MoonBit
through one function, `mb_dispatch`, which returns 0 or 1: "the tree changed".
Everything happens on the main thread except `gpui_post_event`, which any native
thread may call, and the HTTP transport of the image loader.

This directory holds TLA+ models of the parts of that program where the order of
events matters, the TLC configurations that check them, and proofs of
main invariants for every value of the constants. Line numbers below are those
of `gpui-sys/src/lib.rs` unless another file is named.

## 1. Inventory

| Component | State | Operations | Hard part | What makes it correct |
|---|---|---|---|---|
| Asynchronous injection (160-428) | `INJECT` cell, `entries`, `wake_tx`, the pump's channel | `gpui_post_event`, `install_inject_queue`, drain pump | many producer threads against the main thread; pumps die with windows; `OnceLock` get/set | exactly once, in order, bounded, no lost wake, everything accepted is drained |
| Window lifecycle (2087-2199) | view registry, `WAYLAND_DISPLAY` | `gpui_run_window`, the retry after a panic | a retry runs the installation twice; statics outlive windows | the queue outlives every window; what is left behind misleads nobody |
| Decoder and commit (849-1997) | node arena, handle stack, root, `VIEWS` | one command at a time, walk, swap | failure at any command; moved nodes; depth; two hand-kept tables of operands | atomic commit; bounded depth; unique keys; valid runs; reader and writer in step |
| Text patch (1999-2080) | `VIEWS` | `gpui_update_text` | data validated against the old text | what the decoder checked stays true |
| Text input (2640-3449, 5475-5546) | `TextInputModel`s, `INPUT_MIRROR`, `INPUT_SET_TEXT_QUEUE`, `INPUT_DIRTY` | IME callbacks, editing keys, pull ABI, `gpui_input_set_text`, prepaint | three copies of one text, synchronised at different times; UTF-16 against UTF-8 | slices on boundaries; exact gate; fresh mirror; each write gets its frame |
| Scroll feedback (2713-2778, 3467-3497, 5539-5648) | `SCROLL_MIRROR`, `SCROLL_SENT`, retained handles | wheel, paint, deferred `EVENT_SCROLL`, pull, prune on commit | announce after the draw, prune at commit, announcements that rebuild | the maps agree; no change unheard; announcements end; the pull is what is on the screen |
| Framework dispatch (`moonbit-bindings/framework.mbt`, `store.mbt`, `signal.mbt`, `handlers.mbt`) | store cells, `dirty`, handler registry | `framework_dispatch`, its variant with a patch, `set` | dirt outside a dispatch; failing rebuild; one flag for all views | the committed tree is the one the store describes |
| Key routing, IME bridge and payload queue (160-169, 3521-3557, 4042-4453, 4601-4672) | `EVENT_QUEUE`, `IME_MARKED`, focus, the client of the last frame, the application's preedit strip | key down, the platform's callbacks, mouse, frames | the same keystroke arrives on two paths, chosen by platform, focus and input source | each text once and to one receiver; the strip shows what is composed |
| Benchmark loop (2202-2341, 2378-2635, 4497-4590) | `WINDOW_BENCHMARK` | frame tick | every branch must arm the next frame; what is a sample of which frame | the report is written and counts what it says |
| Caret blink, probes and text metrics (2342-2376, 3559-4020, 4484-4496) | `PROBE_BOUNDS`, `TEXT_METRICS`, frame callbacks | commit, frame, prepaint, the two text pulls | pull between frames; hit-testing in pixels, bytes and characters | the blink chain lives; tables are those of the painted tree; a click puts the caret where it is |
| HTTP and images (`http.rs`, 4816-4975), rendering (4982-5547) | one runtime | | little ordering of their own | |

Build drivers, generators, examples, the headless harness, fuzzers and benches
are tools around the program and are not modelled. `PROJECT.json` lists every
component with its status, and the hazards, each at the line where it bites.

How they interact: `run_window` installs the injection queue and spawns the pump;
the pump, clicks, keys, the IME and scroll announcements all call `mb_dispatch`;
a handler may call `gpui_build_tree`, `gpui_update_text` and
`gpui_input_set_text`, and pull, before it returns; the call site then schedules
a frame; the frame renders `VIEWS`, creates the text-input models, registers the
input clients and applies queued writes in prepaint, records probes and rows,
announces scrolling, and arms the callbacks of the next frame.

## 2. Modules

| Module | Role |
|---|---|
| `InjectFifo` | abstract: one bounded FIFO, each event handled once, in order |
| `AsyncInjection` | injection and window lifecycle, lock region by lock region; implements `InjectFifo` |
| `AsyncInjectionProofs` | its theorems |
| `Redraw` | abstract: a window whose tree changes is owed a frame until one shows it, except by a dispatch that nobody hears; `TextInput`, `ScrollFeedback` and `FrameLoop` implement it |
| `CommandFormat` | the operands of every opcode, as Rust reads and as MoonBit writes them |
| `TreeBuffer`, `MCTreeBuffer` | extends it: decoder, walk, swap, patch; values for TLC |
| `TreeBufferProofs` | its theorems |
| `TextInput`, `MCTextInput` | the text-input widget with handlers and frames; values for TLC |
| `TextInputProofs` | its theorems |
| `ScrollFeedback`, `MCScrollFeedback` | scroll feedback composed with framework dispatch |
| `ScrollFeedbackProofs` | its theorems |
| `KeyRouting`, `MCKeyRouting` | keys, input method, payload queue |
| `KeyRoutingProofs` | its theorems |
| `PrefixSums` | offsets into a text, in any unit; used by `TextInput` and `TextMetrics` |
| `TextMetrics`, `TextMetricsProofs` | the two text pulls as operators, with reference definitions; theorems |
| `FrameLoop`, `MCFrameLoop` | extends it: frames, blink chain, benchmark, probes and rows |
| `FrameLoopProofs` | its theorems |
| `DataInduction` | lemmas for the proofs: induction over numbers, the values of recursive functions, sums of offsets |

Each component's module also holds a few definitions marked "Mutant of": an
action or helper with one plausible mistake. No specification uses them. Put in
the place of the definition they mimic, each makes TLC refute the property it is
paired with in `PROJECT.json`, which shows that the property can fail.

### AsyncInjection

A producer's call is four steps: `Post` (argument checks, 271-283), `GetOrInit`
(292-303), `Push` or `QueueFull` (one region of the `entries` lock, 304-310) and
`Wake` (the `wake_tx` lock, 313-318). The main thread takes `RunWindow`,
`InstallGet` (the `INJECT.get` of line 225), then `InstallSwap` or `InstallSet`
(226-233), `OpenWindow`, `RunReturns`, and `RunPanics` for a panic of the
windowing code, which under Wayland goes back to the start once (2171-2199). The
pump's future is `PumpStart`, `Pop`, `Dispatch` or `Drop`, `PumpIdle`,
`PumpWake`, `PumpExit`. A handler run by `Dispatch` may commit trees
(`built`). `armed` says that the sender in the cell is the one whose receiver
the live pump holds, and `wakes` counts the units in that channel. The pump runs
only while the event loop does, and neither a return nor a panic interrupts a
drain: `drain_injected_events` is synchronous.

Payloads are opaque to the library, so an entry is named by the call that posted
it. `accepted`, `taken`, `delivered`, `okayed` and `owed` are history variables.
The test-only `stop_drain_pump` is left out. A panic inside a handler is the
MoonBit program's and is not modelled.

### TreeBuffer

A build is `BeginBuild`, any number of `Decode` steps (one per command),
`EndOfBuffer` (1920-1926), one `Visit` per node of the walk (1940-1982), and
`Swap` (1986-1997). Because each step picks any command, all buffers are
covered, and `Malformed` ends one at any place with any status that the operands
of some opcode can fail with (`Faults`; a superset of what one command can return).
`CommandFormat` has those operands twice, from the match arms of
`build_tree_from_buffer` and from the methods of MoonBit's `CommandBuffer`. Handles are 1-based, and 0 is "no
root". A text's content is the set of its UTF-8 character boundaries, which is
what `is_char_boundary` and `len` look at; styles are not kept, and all setters
but `OP_SET_KEY` and the two text commands are the one action `OpSetStyle`.
`gpui_build_tree` runs in one go on the main thread; its steps are separate
actions only so that a failure can strike at each of them, and no other call
interleaves. `UpdateText` is `gpui_update_text`; keys are unique, so it finds at
most one div, and the choice in `UpdateText` is over one element.

### TextInput

`model` is `FfiView.inputs`, `mirror` is `INPUT_MIRROR`, `queue` the pending
writes, by input (the prepaint of an input takes its own and leaves the rest),
`dirty` is `INPUT_DIRTY`, `repaint` a frame asked for by `cx.notify` or
`window.refresh`. Characters have a width in bytes and one in UTF-16 units;
selections and marks are byte ranges.

Actions are the platform callbacks on an input of the last frame (`Commit`,
`Preedit`, `Unmark`, `Erase`, `MoveCaret`, `Submit`), the dispatches that are not
about an input (`Injected`, `Event`, `Mouse`, `Bridge`, `Marker`, `Elsewhere`), and `Paint`
and `Reopen`. A handler is a
record of what it does before it returns: at most one `gpui_input_set_text`, the
tree it leaves, and the flag it reports. `framework_dispatch` reports every
rebuild as a change, hence the first conjunct of `HandlerRuns`. What the call site makes of the result
differs between sites and is copied from each: `FoldOr` (`changed == 1 ||
take_input_dirty() == 1`, which does not take the flag when `changed` is 1),
`FoldMax` (`changed.max(take_input_dirty())`), `FoldNone` (`dispatch_mouse`). Three sites fold
neither. `Bridge` (4080-4128) ignores both and refreshes the window. `Marker` (4413) ignores
both and asks for nothing. `Elsewhere` is an injected entry of another view (396-411): it
takes the flag, which is global, and notifies the other view. `slips` is history: which
of the last two has left this view short of a frame since one was last asked for.

Left out: geometry queries, the placeholder, painting itself, and the dispatch of the
benchmark's typing (2410), which ignores result and flag like `Bridge` and whose tick
refreshes the window as it does. Which keys lead to the marker, the focus, and the
bridge's own state are in `KeyRouting`.

### ScrollFeedback

A tree is its scroll divs, in paint order, and one text. `Wheel` (gpui's, external)
moves a retained handle and dirties the window; `Draw` takes the committed tree
and lets gpui clamp its handles; `PaintDiv` is `ScrollFeedback::paint` of the
next div; `EndDraw`; then `DeliverScroll` runs the deferred announcements one by
one, whose handlers pull and dispatch. `FrameworkDispatch` is the MoonBit side:
nothing set, a patch, a rebuild (which may itself set a cell while it builds), or
a rebuild that fails. `want` is the tree that the store's cells describe, by view.
One store and one dirty flag serve all views (`store.mbt:38-45`), so that a set
(`SetAll`) may change what any of them wants, while only the view of the dispatch
is rebuilt (`framework.mbt:41`). The flag needs no variable: a dispatch clears it at its
start and reads it once, before it ends. `OtherEvent` is any dispatch but a scroll:
an event of the window's view, or an injected entry of any view, whose result notifies
nobody unless the view's window is open. `Marker` is the input method's marker (4413),
whose result is thrown away; `silent` is history, that such a dispatch has swapped the
tree since a frame was last asked for. `Rebuild` prunes the two maps with the commit, since nothing
runs between the two. `known` and `excused` are history: the offset that the
application pulled last or was seeded with, and the views that a failed rebuild,
a set no dispatch saw, or a set in the dispatch of another view has left behind. Views share the maps; one window is
open at a time, and the maps survive it. One axis of two; viewport sizes left out.

### KeyRouting

One keystroke is `KeyDown`, the listener's branches in their order (`ListenTab`,
`ListenInput`, `ListenIme`, `ListenKey`), followed by what the platform does
about it (`CharArrives`, `ContextAnswers`). `client` is the input handler of the
last frame, `focus` the focus now: `Frame` brings them together. `seen` counts
what the last keystroke led to and is the properties' history. A payload is
pushed, copied by its token and cleared in one step, because a handler cannot
re-enter the event loop.

The platform is external. Assumed of it is what the sources say: on Windows a
character message follows a keydown unless Alt is down, without control
characters (4432-4445); on macOS a keydown goes to the input context first while
the client is marked, and afterwards if the listener declined it for an input
method or an input; a window is drawn before it routes a key, if dirty. Linux is left out: the sources do not say what its backend hands to an
input handler after a keydown.

### FrameLoop and TextMetrics

A frame is `Frame` (takes the callbacks armed so far), the callbacks in order
(`BlinkFrame`, or a `Tick` branch), `CallbacksDone`, `DrawFrame`. A window is
also drawn between frames (`DrawEarly`), before a key is routed or as it opens;
that order is what makes samples and paints disagree if a branch errs. A tree is
its probes and rows in prepaint order; a table entry is the item that wrote it.
The benchmark record keeps the counters, and of the times only which frame a
sample is of. `Marker` commits a tree and asks for nothing, as above. `acted`, `drawn`,
`idle`, `blind`, `retried` and `silent` are history.

`TextMetrics` has the two pulls between characters, bytes and pixels. gpui's
layout is external: the left edge of a character is the sum of the advances
before it. `Nearest` is the reference definition for a hit.

## 3. Runs

| Run | Instance | Shows |
|---|---|---|
| `injection` | 2 producers, 2 posts each, capacity 2, 2 windows | `TypeOK` with `Bounded`, `ExactlyOnceInOrder`, `OkMeansAccepted`, `NoLostWake`, `OwedIsDelivered`, `BacklogDrains`, `ImplementsFifo` |
| `install_race` | the same, 1 post, 1 window | `PumpLivesWhileWindowRuns` fails |
| `tree_shape` | 5 nodes, depth 3, 1 key | `HandlesSound`, `CommittedWellFormed`, `FormatsAgree` |
| `tree_text` | 2 views, 2 calls, 2 nodes, 2 texts, 3 run ranges, 2 carets | `BuiltTextValid`, `BuildIsAtomic` |
| `patched_text` | 1 view, otherwise as above | `CommittedTextValid` fails |
| `input_text` | 1 input, 2 characters of width 1/1 and 4/2, UTF-16 offsets 0, 1 and 5, 2 queued writes | `SlicesAreSafe` |
| `input_writes` | 2 inputs of at most one plain character, 1 queued write each | `GateIsExact`, `MirrorFresh`, `WriteNotForgotten`, `ScheduledWriteApplied`, `ImplementsRedraw` |
| `write_frame` | 1 input | `WriteSchedulesFrame` fails |
| `write_composing` | 1 input | `CompositionSurvivesWrites` fails |
| `scroll` | 2 views of one store, 2 shapes of 2 divs, 2 texts, 2 wheel turns, 2 changes, 2 windows | `MapsAgree`, `UnheardIsDeferred`, `PullIsOnScreen`, `OnlyExcusedBehind`, `EventuallyQuiet`, `WantedIsShown` |
| `keys` | macOS and Windows, 10 keystrokes, 2 preedits | `TextArrivesOnce`, `EnterOnce`, `WidgetOwnsKeys`, `MarkedIsShown`, `ChangeIsDrawn` |
| `frames` | 4 trees, 4 glyphs, target 3, 1 early draw, 1 window closed or panicked | `OneTick`, `ReportAccounts`, `TablesArePainted`, `ClickPutsCaret`, `BenchmarkEnds`, `BlinkGoesOn` |

Every state machine has one type invariant, checked by its first run.

Why the bounds are enough to be interesting:

- `injection`: four posts against a capacity of two fill the queue while others
  are in hand; two windows plus the Wayland retry give three installations, so
  that a backlog from before a window, from between two windows, and from a
  failed attempt all occur. One view, because views interact only through the
  `trees` set; a bad view and an oversized payload are among the inputs.
- `tree_shape`: five nodes allow chains of depth 4 (one past the limit of 3),
  siblings, a dropped subtree, and a root named twice.
- `tree_text`: three ranges give a run that splits a character, two that
  touch, and an overlap. The view symmetry is sound: no operation tells views
  apart.
- `input_text`: offset 1 falls inside the surrogate pair of a text that starts
  with the wide character, 5 is past the end of every text.
- `input_writes`: two inputs are needed for a write from the handler of another
  input and for an input that leaves the tree with a write queued.
- `scroll`: between the two shapes one id stays on another key, one leaves, one
  comes, and one div has no key; the offsets are past either end, so that every
  turn is clamped, and the ranges differ, so that a div that takes over a
  handle clamps it again. Two changes allow a rebuild in the handler of the first of
  two announcements.
- `keys`: printable keys with and without the modifiers, a name that types
  (space), Enter with a line feed, an arrow and Tab. No bound on the length of
  a behaviour.
- `frames`: the glyphs are one byte, wide, without width, and outside of the
  Basic Multilingual Plane; the trees have the caret blinking, still and absent, with
  and without a clearing probe, with two rows of one key, and with a caret that is a
  div. Target 3 gives samples with and without an
  action before the last.

`MaxPosts`, `MaxRuns`, `MaxNodes`, `MaxRuns` (of a text), `MaxCalls`, `MaxLen`,
`MaxWrites`, `Contents`, `Ranges`, `Carets`, `Offsets`, `Texts`, `MaxWheel`,
`MaxChanges`, `MaxOpens`, `First`, `WheelTo`, `MaxEarly` and `MaxClosed` are bounds
of the instances; `MaxEntries`, `MaxDepth` and `Target` are the program's own limits
made small. Deadlock is not checked for injection, the tree and scrolling, whose
instances stop when their calls or windows are used up; it is for the others.

Fairness. `BacklogDrains` assumes that a thread inside `gpui_post_event` keeps
running and that the foreground executor polls a runnable pump. Nothing obliges
anyone to post or to open or close a window. `ScheduledWriteApplied` assumes that
a frame that was asked for is drawn (`ScheduledPaint`); no other action is fair.
`EventuallyQuiet` and `WantedIsShown` assume that gpui draws a dirty window,
finishes a draw, and then flushes its deferred effects (`cx.defer` at 5638 is
gpui's promise). `BenchmarkEnds` and `BlinkGoesOn` assume that an open window
that is dirty or has callbacks gets its frame, and that gpui finishes a frame that
it begins; both concern windows that nobody closes. Nothing obliges the user, the
wheel, the application or the platform to act.

## 4. What the failing runs show

- `install_race` (223-237). The window's first `INJECT.get` returns `None`, a
  producer's `get_or_init` creates the queue with a disconnected sender, and
  `INJECT.set` fails and drops the window's sender. The pump drains once and
  exits, and posts made while that window runs wait for the next window. The
  comments at 219-222 and 415-417 say that the pump lives as long as the window.
- `patched_text` (2010-2030). A patch replaces the content under runs and a
  caret that were checked against the old one; the comments at 1233-1236
  and 3808 rely on the check of the committed text.
- `write_frame` (4269-4279). `dispatch_mouse` does not fold the dirty flag, so a
  write made by a mouse handler that reports no change gets no frame until some
  other dispatch; 2671-2673 says that dispatch sites fold it. The marker (4413) and an
  entry of another view (407) miss it as well.
- `write_composing` (3226-3254). The gate of `gpui_input_set_text` is checked
  when the write is made, not when it is applied; a composition that begins in
  between is ended by the prepaint. RFC 0003 line 107 says that the call does not
  break a composition.

What else was noticed, without a run of its own. In text input, the same window
as in `write_composing` lets an edit overwrite the mirror after an accepted write,
which the prepaint then discards (3416-3419 says that reads see the write). In the
decoder, the `NODE_ABSENT` and "child is its own parent" tests can never succeed
(proved); the comment at 1930-1937 has a subtree nested under a fresh parent after
it was built, which the decoder's stack order does not allow; nodes left on the
stack at the end of a buffer are dropped without a status; the wire comment at 926
gives `OP_IMAGE` integer bounds where the decoder reads floats (1279). In the
framework, a rebuild that fails, or one that sets a cell itself, leaves the
committed tree behind the store until something else is set (`excused`). So does a set
in the dispatch of one view for every other view that shows the cell: only the
dispatched view is rebuilt, and the next dispatch clears the flag, although
`signal.mbt:3-6` says that the UI that "silently does not update" disappears; RFC 0001
(line 302) leaves a store per view to the application. The marker's dispatch (4413)
throws its result away, so that a tree its handler commits waits for the next frame
(`silent`, and `ChangeIsDrawn` in `KeyRouting`), and so does a write it makes. For keys,
`docs/architecture.md:189` says that Enter also fires `EVENT_TEXT`, which
`typed_text` (4637-4645) prevents; typed text is lost while the focus is on a
div that is merely focusable or on an input that left the tree, on the paths that
leave the text to an input handler (`dropped` in `TextArrivesOnce`); an
empty commit unmarks without a dispatch, so that the application's strip keeps the
preedit (4088-4090). In the frame loop, the printed `action_count` is the target,
one more than the actions driven (2622); the X11 retry goes on with the ticked
state of the failed attempt, so that its first sample may come before its first
paint; a benchmark closed before its report stops the blinking of later plain
windows (4489). In hit-testing, `set_text_row` takes UTF-16 units where
the pull returns characters and its comment says characters
(`gpui-bindings.mbt:401` and 423): behind a character outside of the Basic
Multilingual Plane the caret is drawn in the wrong place, hence `Basic` in
`ClickPutsCaret`.

## 5. Proofs

All proofs are in the `*Proofs` modules and `DataInduction` and hold for every value of the
constants under the named assumptions: `BoundsAssumption` (capacity at
least 1, bounds natural) and `BadViewAssumption` (a negative view id is not a
valid one) for injection, `TreeAssumption` for the tree (limits and offsets are natural numbers), `InputAssumption` for
text input (widths of 1 to 4 bytes and 1 or 2 units, texts are sequences of
characters, `NoModel` and `NoEntry` are neither a model nor an entry), `ScrollAssumption` (views are finitely many; in a tree ids are
unique, since the application issues them, and so are keys, which the decoder
checks; ranges are natural numbers), `KeyAssumption` (the shape of keystrokes;
Enter and Tab carry a control character or none, not text; `Empty` and `Typed`
are no preedits), `FrameAssumption` (the shape of trees, in which the keys of divs are unique
but those of text rows need not be, and a positive target), `MetricsAssumption` (widths and advances). They are assumptions
about the instance, not about its behaviour.

**Injection.** `TypeCorrect`; `QueueBounded`; `EntriesExactlyOnce`;
`OkIsTruthful`; `WakesAreNeverLost`; `OwedDelivered`; and
`InjectionImplementsFifo`, that every behaviour is one of `InjectFifo` with
`pending <- held \o entries` and `handled <- taken`. The invariant `IInv` adds
three facts to the properties: a call in progress carries its own thread and
number (`CallsNumbered`); accepted entries have smaller numbers than a call that
has not pushed yet (`AcceptedNumbered`, without which nothing says that an entry
is accepted only once, as `InjectFifo!Accept` demands); and an entry that was
owed still has its tree, since trees are never removed (`OwedHasTree`). The
capacity of the abstract queue is one more than the code's: the drain holds one
entry popped and not yet dispatched.

`OnlyTheRaceLosesThePump` gives the cause of `install_race` exactly: a window
whose `INJECT.get()` found a queue has a connected pump for as long as it runs
(`SeenQueueKeepsPump`), so that only a producer between `INJECT.get()` and
`INJECT.set()` ends one. `ThreadsKeepTheirOrder` is about the entries of one
thread: each accepted entry has a larger number than the thread's earlier ones,
because a call in progress has one larger than all of them (`ThreadOrder`);
what is taken is a prefix of what is accepted.

**Tree.** `HandlesAreSound`: for every buffer, the stack's handles increase
strictly, are not moved and differ from the root, and hence no build returns
`NODE_ABSENT`. The argument is that a push appends the largest
slot so far, and every pop takes the top, so that a node that left the stack is
below nothing that is on it. `BuildsAreAtomic`: a step changes the committed tree
of one view, and only as the swap of its build that ends with `OK`, or as a patch
(`TreesOfStep`); no command of a buffer, and no failure at any of them, does
(`DecodeIsAtomic`). `BuiltTextsAreValid`: the decoder compares a run with the one
before it only, and that all are sorted and apart follows by induction on the
last one, since no run ends before it starts (`RunKeepsText`). The invariant
speaks of every node of the arena, reachable or not, so that a commit need not be
followed down the tree; a text that a patch replaced is out of it through
`patched`. `TreeTyped` rests on children and walk items being slots.

`TreesAreWellFormed` (invariant `ShapeInv`) is about reachability, and needs to know
what the recursion of `Levels` returns. The arena is a forest (`Forest`): a child was
live when it was taken, hence in no other list of children, and is younger than its
parent. So a node lies on one level below a root that is nobody's child (`OneDepth`).
The walk (`WalkInv`) keeps each node with its level, and has met, or has on its stack,
the root and every child of what it met; with an empty stack it has met
all levels (`LevelsInside`), each node at most `MaxDepth` deep and with a key of its
own. A patch changes no edge, and trees with the same edges have the same levels
(`SameLevels`).

`FormatsAreOne` needs no invariant: it compares, for every opcode, what the decoder's
arm reads with each layout that the builder's method may write. `BytesConcat` says that
the bytes of two layouts one after the other are those of the layouts joined, so that a
match of parts is a match of the whole (`MatchConcat`). Operand by operand, a float is read as
pixels and an unset value is four bytes of zero, which is also an integer zero and,
as a whole, an unset color (`ZeroColor`).

**Text input.** `BusyIsExact`, `PullsAreFresh` and `WritesAreNotForgotten`. They
rest on one invariant about the models' and mirror entries' relation, and need no
arithmetic about offsets: each action stores a model and its `Synced` image in
one step, or touches neither, except for an accepted write, which leaves a
queue entry and the dirty flag behind. `WriteNotForgotten` has two exceptions, which
`slips` records: the entry of another view that takes the flag, and the marker, whose handler may
bring an input with an old write into the tree without a frame.

Two more give the causes of the failing runs exactly. `OnlyThreeSitesForgetWrites`: a
queued write loses its frame in no step but `MouseForgets`, a mouse handler that
writes and reports no change; `MarkerForgets`, a marker's handler that writes or swaps the
tree; and `ElsewhereForgets`, the handler of another view's entry that writes. The next
submit, event or entry of the view gives it one, unless `slips` excuses it
(`WritesKeepTheirFrame`). `WritesQueuedOutsideCompositions`: no step queues a
write for an input that holds marked text after it (`NoWriteWhileComposing`), since the
gate reads `BUSY`, which is exact, and nothing marks text in the same step; so a
write that breaks a composition was queued before it.

`InputsTyped` and `NoSlicePanics` (invariant `EditInv`) do need it. A range that the
platform asks for in UTF-16 is turned into a boundary, whatever its offset; the
boundaries of a spliced text are those of its parts, shifted (`SpliceBoundaries`); and
the platform's selection inside of a preedit is turned into boundaries of the preedit,
which is spliced in at the start of the mark. The previous and next boundary of a caret
exist because boundaries are a finite set that holds 0 and the length.

**Scroll feedback.** `TheMapsAgree`, `NothingGoesUnheard` and
`OnlyTheExcusedAreBehind`, by one invariant. In the last one a dispatch excuses
the other views that its sets change, and a view that has caught up needs no excuse
(`LeavesExcused`): what is shown is that the dispatched view itself loses no change. Painting and pruning seem to race:
a paint writes both maps for the ids of the tree that was rendered, a commit prunes
them to the ids of the new one. `DrawsCommitted` says why they do not: nothing commits
between the render that took the tree and the last of its divs, because the
announcements are deferred past the draw. `SeedIsKnown` says that the first
observation of an id, which is not announced, is what the application starts from.
`PullsAreOnScreen` needs two steps (`ScreenInv`): after prepaint every handle of the
tree is in range, so that the paint's own clamp is the identity, and the divs
painted so far have left their handle's offset in the mirror. It is here that keys must
be unique: two divs of one key share a handle, and the range of the second would move
what the first has written. `ScrollTyped` is its type invariant.

`OnlyTheExcusedShowLess` and `FeedbackComesToRest` are the safety halves of the two
liveness properties. An open window that is owed no frame shows what the
application wants, unless its view is excused or `silent` holds: `Redraw!UpToDate`, which the
refinement carries over, says that it shows what is committed, and
`OnlyExcusedBehind` that this is what is wanted. And a draw ends in a `Settled` state, in
which the mirror has every div's offset as the next prepaint will clamp it; from it only
the wheel or a change of shape makes a div announce anything (`SettledStaysQuiet`).

**Keys.** `MarkIsShown`, `ChangesAreDrawn` and `KeysAreTheWidgets`. The
platform may answer a keystroke in any way: the argument uses only that each
dispatch finds and leaves the payload queue empty, so that a handler copies the
payload of its own event, that whatever sets or ends the mark dispatches the same
text, and that a keystroke starts a fresh count. `TextsArriveOnce` and `EntersOnce`
need the keystroke in flight (`TextInv`): while the platform still has its part of a
key nothing of it is delivered, an Enter that is forwarded leaves no part behind, and
a root with the focus has a client registered, because every change of the
focus asks for a frame. `RoutingTyped` is the type invariant.

**Frames.** `FramesTyped`, `TickIsAlways`, `ReportsAccount`, `TablesAreOfTheFrame` and
`ClicksPutCarets`. `LoopInv` says where
the callbacks of the window's next frame are, before, during and after a frame.
`CountsOK` relates the counters of an unfinished benchmark: the first sample
follows a tick without an action, every later one a tick with one. `PaintBetween`
is needed for `blind = 0`: a tick refreshes its window while the frame is under
way, so that a draw comes before the next tick, except in the first tick of a
retried attempt, which finds the state of the failed one.

`TablesAreOfTheFrame` is an induction over the items that prepaint has reached: from
the leading `probe:clear` on, both tables describe exactly those items, and a later
row of the same key, or the caret of one, replaces the earlier. `ClicksPutCarets`
follows from `HitIsNearest` and `CaretIsAtCharacter`, theorems about `TextMetrics`
alone: for every text and all widths, also zero ones, the character under a
position and the one after it are between them nearer than any other boundary,
and without surrogate pairs the n-th unit is the n-th character.

`BenchmarkCountsDown` and `CaretKeepsAFrame` are the safety halves of the liveness
properties here. `TicksLeft` is the number of ticks until the report: each tick takes one
of it, no other step changes it, and the report comes when it is one
(`TicksCountDown`). A plain window with a blinking caret is dirty or has a callback armed
or running (`BlinkIsArmed`): a paint of the caret arms one, and that callback
asks for the next draw.

**Redraw.** `InputsImplementRedraw`, `ScrollImplementsRedraw` and
`FramesImplementRedraw`: seen through the tree that is committed, the one shown and
whether a frame was asked for, the three components are one specification. It is
stated as a refinement because the code has no single place where it is decided: the
call sites fold the handler's result and the dirty flag in three ways, `emit_changed`,
the bridge and the frame callbacks refresh whatever the result, and announcements are dispatched
after a draw, for a view that must still be the window's (`DeferredOpen`: it cannot
close before they are sent). A step that commits a tree and asks for nothing, or one
that takes back what another asked for, is neither a step of `Redraw` nor a stutter.
One site keeps no promise, the marker of macOS (4413): in `Redraw` it is `Slip`, and after it
an open window may show an old tree until something asks for a frame, which is what
`silent` remembers. The key routing states the same exception in `ChangeIsDrawn`. TLC checks the refinement in the run of the text input, where the
call sites differ; for the other two the theorem is the evidence.

**Induction.** The library's induction theorems take an operator as a parameter,
which the provers cannot instantiate. `DataInduction` therefore states induction for
sets (a set of numbers has a least element; what holds 0 and with each number the
next holds all up to a bound), which a proof applies to the set of the numbers that
satisfy what it wants. `IterationExists` gives a recursive function over an
interval its value, from which come `SumDef` for `SumTo`, `LevelsAre` for `Levels`,
`FlattenIs` for the library's `FlattenSeq` and the fold of `Prepaint`.

Every safety property of a passing run is a theorem. What is model-checked only is
liveness: under fairness it is out of the prover's reach, as `ENABLED` is. Of each of the
six properties a safety half is proved, and what remains is that the fair steps
come: for `BacklogDrains`, `WakesAreNeverLost` and `OnlyTheRaceLosesThePump`; for
`ScheduledWriteApplied`, `WritesAreNotForgotten`; for `EventuallyQuiet`,
`FeedbackComesToRest`; for `WantedIsShown`, `OnlyTheExcusedShowLess`; for
`BenchmarkEnds`, `BenchmarkCountsDown` with `TickIsAlways`; for `BlinkGoesOn`,
`CaretKeepsAFrame`.

The failing runs show violations. What does hold in their place is proved:
`OnlyTheRaceLosesThePump` for `install_race`, `OnlyThreeSitesForgetWrites` for
`write_frame`, `WritesQueuedOutsideCompositions` for `write_composing`, and
`BuiltTextsAreValid` for `patched_text`, by which only a patched view is ever
invalid. `SeenQueueKeepsPump`, `ThreadOrder`, `WritesKeepTheirFrame`,
`NoWriteWhileComposing`, `SettledStaysQuiet`, `WantedUnlessOwed`, `TicksCountDown` and
`BlinkIsArmed` are stated by theorems only; no run checks them.

## 6. Plan

The plan is carried out. `KeyRouting` stays outside of `Redraw`: of a window's tree it
keeps only whether the screen is behind it, and `ChangeIsDrawn` says of its paths what the
refinement says of the others. What a change of the code would call for first
is noted in the sections above: the sites that fold the dirty flag
differently or not at all, one store under several views, and the gap between `INJECT.get()` and `INJECT.set()`.

## 7. Not modelled

- **HTTP transport and images**: one runtime thread and one oneshot per request;
  what can go wrong is inside tokio, reqwest and gpui's loader, which the
  repository does not hold.
- **Tree rendering and style mapping**: a recursion from nodes to gpui elements
  without state of its own; the maps it touches are in the other modules.
- **Linux key routing**: its backend's part after a keydown is nowhere in the
  sources.
- **Components, widgets, signals, handler registry** of the MoonBit side: pure
  construction of buffers, and maps that a dispatch reads.
- **Geometry queries** of the input handler, the placeholder, the opacity curve of
  the blink, times of the benchmark: values that no decision reads.
- **Build drivers, generators, harness, tests, examples**: no part of the running
  program.
