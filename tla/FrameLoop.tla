----------------------------- MODULE FrameLoop -----------------------------
(***************************************************************************)
(* What happens from frame to frame in a window: the callbacks of          *)
(* on_next_frame, the caret's blink chain (gpui-sys/src/lib.rs 2342-2376,  *)
(* 3695-3723 and 4486-4496), the benchmark's loop (2202-2341, 2378-2635    *)
(* and 4497-4590), and the tables that a frame's prepaint leaves for the   *)
(* pulls of later handlers (3559-3691 and 3725-3875).                      *)
(*                                                                         *)
(* Of gpui is assumed: a frame runs the callbacks armed before it, in      *)
(* order, and then draws the window if it is dirty; a window may also be   *)
(* drawn between frames, before a key is routed or when it opens.  A tree  *)
(* is the sequence of its probes and rows in prepaint order.               *)
(***************************************************************************)
EXTENDS TextMetrics, Functions

CONSTANTS
  Trees,        \* what the application commits
  NoTree,       \* nothing painted yet
  Target,       \* frames that the benchmark is to sample
  NoBench, NoReport,
  MaxEarly,     \* bound: callbacks armed when a draw comes between two frames
  MaxClosed     \* bound: windows that close or panic before they are done

Kinds == {"clear", "probe", "row"}

\* WindowBenchmark: the part that its branches and counts need.
Bench ==
  [scenario : 0 .. 2,
   ticked   : BOOLEAN,    \* previous_frame.is_some()
   warming  : BOOLEAN,    \* warming_up
   work     : BOOLEAN,    \* paint_work_ms.is_some()
   samples  : Nat,        \* samples, latencies, work_samples
   stamps   : Nat,        \* action_timestamps_epoch_ms
   acted    : BOOLEAN,    \* an action was driven at the last tick
   drawn    : BOOLEAN,    \* a draw has come since the last tick
   idle     : Nat,        \* samples of frames without an action
   blind    : Nat,        \* samples without a paint of their own
   retried  : BOOLEAN]    \* the window is that of the X11 retry

Item == [kind : Kinds, key : STRING, text : Seq(Glyphs),
         caret : {"none", "still", "blink"}]

\* The keys of a tree's divs are unique, since the decoder refuses others; those
\* of its rows need not be.
ASSUME FrameAssumption ==
  /\ Trees \subseteq Seq(Item)
  /\ \A t \in Trees : \A i, j \in 1 .. Len(t) :
       /\ t[i].kind = "clear" => t[i].key = "probe:clear"
       /\ "row" \notin {t[i].kind, t[j].kind} /\ t[i].key = t[j].key => i = j
  /\ NoTree \notin Trees /\ NoBench \notin Bench /\ NoReport \notin Bench
  /\ Target \in Nat \ {0} /\ MaxEarly \in Nat /\ MaxClosed \in Nat

VARIABLES
  committed,    \* the view's tree in VIEWS
  window,       \* "none", "plain" or "bench"
  attempt,      \* run_window's first or second try, 0 while a retry is due
  painted,      \* the tree of the last frame
  dirty,        \* the window is to be drawn
  silent,       \* history: a tree that nobody heard of was committed since then
  callbacks,    \* armed with on_next_frame
  running,      \* those of the frame under way
  phase,        \* "idle", "callbacks" or "draw"
  beat,         \* flips with every draw
  bench,        \* WINDOW_BENCHMARK
  report,       \* the report that was printed
  bounds,       \* PROBE_BOUNDS: the item that wrote each key's rectangle
  metrics,      \* TEXT_METRICS: the content of each row's layout
  closed

tables == <<bounds, metrics>>
vars == <<committed, window, attempt, painted, dirty, silent, callbacks, running,
          phase, beat, bench, report, tables, closed>>

Init ==
  /\ committed \in Trees /\ window = "none" /\ attempt = 1
  /\ painted = NoTree /\ dirty = FALSE /\ silent = FALSE
  /\ callbacks = <<>> /\ running = <<>> /\ phase = "idle" /\ beat = FALSE
  /\ bench = NoBench /\ report = NoReport
  /\ bounds = <<>> /\ metrics = <<>> /\ closed = 0

-----------------------------------------------------------------------------
(* The tree.                                                               *)

\* tree_has_blinking_caret.
Blinks(tree) == \E i \in 1 .. Len(tree) : tree[i].caret = "blink"

Put(f, x, y) == [z \in DOMAIN f \cup {x} |-> IF z = x THEN y ELSE f[z]]

\* Mutant of PrepaintItem: the rows' layouts outlive probe:clear.
PrepaintKeeping(tab, item) ==
  CASE item.kind = "clear" -> [tab EXCEPT !.bounds = Put(<<>>, item.key, item)]
    [] item.kind = "probe" -> [tab EXCEPT !.bounds = Put(@, item.key, item)]
    [] item.kind = "row" ->
         [bounds |-> IF item.caret = "none" THEN tab.bounds
                     ELSE Put(tab.bounds, "caret", item),
          metrics |-> Put(tab.metrics, item.key, item.text)]

\* ProbeBoundsProbe::prepaint and TextRowProbe::prepaint.
PrepaintItem(tab, item) ==
  CASE item.kind = "clear" -> [bounds |-> Put(<<>>, item.key, item), metrics |-> <<>>]
    [] item.kind = "probe" -> [tab EXCEPT !.bounds = Put(@, item.key, item)]
    [] item.kind = "row" ->
         [bounds |-> IF item.caret = "none" THEN tab.bounds
                     ELSE Put(tab.bounds, "caret", item),
          metrics |-> Put(tab.metrics, item.key, item.text)]

Prepaint(tree) ==
  LET tab[n \in 0 .. Len(tree)] ==
        IF n = 0 THEN [bounds |-> bounds, metrics |-> metrics]
        ELSE PrepaintItem(tab[n - 1], tree[n])
  IN  /\ bounds' = tab[Len(tree)].bounds
      /\ metrics' = tab[Len(tree)].metrics

-----------------------------------------------------------------------------
(* Windows.                                                                *)

BenchRecord(scenario) ==
  [scenario |-> scenario, ticked |-> FALSE, warming |-> scenario # 0,
   work |-> FALSE, samples |-> 0, stamps |-> 0, acted |-> FALSE,
   drawn |-> FALSE, idle |-> 0, blind |-> 0, retried |-> FALSE]

\* A frame is asked for; it makes up for whatever nobody heard of.
Refresh == dirty' = TRUE /\ silent' = FALSE

Opened(kind, armed) ==
  /\ window' = kind /\ callbacks' = armed
  /\ painted' = NoTree /\ Refresh
  /\ UNCHANGED <<committed, running, phase, beat, report, tables, closed>>

\* gpui_run_window.  A benchmark that was left is still there.
RunWindow ==
  /\ window = "none" /\ attempt = 1
  /\ Opened("plain", <<>>) /\ UNCHANGED <<attempt, bench>>

\* gpui_run_window_benchmark: the first tick is armed with the window.
RunBenchmark ==
  /\ window = "none" /\ attempt = 1
  /\ \E scenario \in 0 .. 2 : bench' = BenchRecord(scenario)
  /\ Opened("bench", <<"tick">>) /\ UNCHANGED attempt

\* The X11 retry of a benchmark; its state is that of the failed attempt.
RetryBenchmark ==
  /\ attempt = 0
  /\ attempt' = 2 /\ bench' = [bench EXCEPT !.retried = TRUE]
  /\ Opened("bench", <<"tick">>)

Gone ==
  /\ window' = "none" /\ callbacks' = <<>> /\ running' = <<>>
  /\ phase' = "idle" /\ dirty' = FALSE /\ silent' = FALSE

\* The user closes the window; WINDOW_BENCHMARK stays.
Close ==
  /\ window # "none" /\ phase = "idle" /\ closed < MaxClosed
  /\ Gone /\ attempt' = 1 /\ closed' = closed + 1
  /\ UNCHANGED <<committed, painted, beat, bench, report, tables>>

\* The event loop panics, under Wayland and in the first attempt.  (For a plain
\* window this is Close, and RunWindow again.)
Panic ==
  /\ window = "bench" /\ attempt = 1 /\ closed < MaxClosed
  /\ Gone /\ attempt' = 0 /\ closed' = closed + 1
  /\ UNCHANGED <<committed, painted, beat, bench, report, tables>>

\* A handler commits or patches a tree and its dispatch reports 1.
Commit ==
  /\ window # "none" /\ phase = "idle"
  /\ committed' \in Trees /\ Refresh
  /\ UNCHANGED <<window, attempt, painted, callbacks, running, phase, beat,
                 bench, report, tables, closed>>

\* So does the handler of the marker, whose result is thrown away.
Marker ==
  /\ window # "none" /\ phase = "idle"
  /\ committed' \in Trees /\ silent' = ~dirty
  /\ UNCHANGED <<window, attempt, painted, dirty, callbacks, running, phase,
                 beat, bench, report, tables, closed>>

-----------------------------------------------------------------------------
(* Frames.                                                                 *)

Frame ==
  /\ window # "none" /\ phase = "idle"
  /\ dirty \/ callbacks # <<>>
  /\ running' = callbacks /\ callbacks' = <<>> /\ phase' = "callbacks"
  /\ UNCHANGED <<committed, window, attempt, painted, dirty, silent, beat,
                 bench, report, tables, closed>>

\* Mutant of ArmBlink: the first frame of a tree alone arms the chain.
ArmBlinkOnce(tree) ==
  callbacks' = IF bench = NoBench /\ Blinks(tree) /\ painted # tree
                 THEN Append(callbacks, "blink") ELSE callbacks

\* Mutant of ArmBlink: the benchmark is not asked.
ArmBlinkAlways(tree) ==
  callbacks' = IF Blinks(tree) THEN Append(callbacks, "blink") ELSE callbacks

\* Render: the blink chain goes on unless there is a benchmark.
ArmBlink(tree) ==
  callbacks' = IF bench = NoBench /\ Blinks(tree)
                 THEN Append(callbacks, "blink") ELSE callbacks

\* Render and prepaint; BenchmarkFrameProbe::paint if there is a benchmark.
Draw ==
  /\ painted' = committed /\ beat' = ~beat
  /\ dirty' = FALSE /\ silent' = FALSE
  /\ Prepaint(committed)
  /\ ArmBlink(committed)
  /\ bench' = IF bench = NoBench THEN bench
              ELSE [bench EXCEPT !.work = TRUE, !.drawn = TRUE]
  /\ UNCHANGED <<committed, window, attempt, running, report, closed>>

DrawEarly ==
  /\ window # "none" /\ phase = "idle" /\ dirty /\ Len(callbacks) <= MaxEarly
  /\ Draw /\ UNCHANGED phase

DrawFrame == phase = "draw" /\ dirty /\ Draw /\ phase' = "idle"

\* Both callbacks refresh the window, so that every frame with one draws it.
CallbacksDone ==
  /\ phase = "callbacks" /\ running = <<>> /\ phase' = "draw"
  /\ UNCHANGED <<committed, window, attempt, painted, dirty, silent, callbacks,
                 running, beat, bench, report, tables, closed>>

Running(callback) ==
  phase = "callbacks" /\ running # <<>> /\ Head(running) = callback

\* schedule_blink_frame's callback: notify and refresh.
BlinkFrame ==
  /\ Running("blink") /\ running' = Tail(running)
  /\ Refresh
  /\ UNCHANGED <<committed, window, attempt, painted, callbacks, phase, beat,
                 bench, report, tables, closed>>

-----------------------------------------------------------------------------
(* benchmark_frame_tick.                                                   *)

\* schedule_benchmark_frame and window.refresh.
Schedule == callbacks' = Append(callbacks, "tick") /\ Refresh

\* benchmark_drive_action: in scenario 1 MoonBit may commit another tree.
DriveAction(scenario) ==
  IF scenario = 1 THEN committed' \in Trees ELSE UNCHANGED committed

\* b after a tick that drove an action, or did not.
Ticked(b, acted) == [b EXCEPT !.acted = acted, !.drawn = FALSE]

TickStays == UNCHANGED <<window, attempt, painted, phase, beat, report,
                         tables, closed>>

\* The warm-up action of scenarios 1 and 2.
TickFirst ==
  /\ Running("tick") /\ ~bench.ticked
  /\ DriveAction(bench.scenario)
  /\ bench' = Ticked([bench EXCEPT !.ticked = TRUE], bench.scenario # 0)
  /\ running' = Tail(running) /\ Schedule /\ TickStays

\* Mutant of TickWarm: refreshes without a next tick.
TickWarmLast ==
  /\ Running("tick") /\ bench.ticked /\ bench.warming
  /\ bench' = Ticked([bench EXCEPT !.warming = FALSE], FALSE)
  /\ running' = Tail(running) /\ Refresh
  /\ UNCHANGED <<committed, callbacks>> /\ TickStays

\* The warm-up repaint settles: no action, and no sample.
TickWarm ==
  /\ Running("tick") /\ bench.ticked /\ bench.warming
  /\ bench' = Ticked([bench EXCEPT !.warming = FALSE], FALSE)
  /\ running' = Tail(running) /\ Schedule
  /\ UNCHANGED committed /\ TickStays

\* A sample of the frame since the last tick takes its paint_work_ms.
Sampled(b) ==
  [b EXCEPT !.work = FALSE, !.samples = @ + 1,
            !.idle = IF b.acted THEN @ ELSE @ + 1,
            !.blind = IF b.work /\ b.drawn THEN @ ELSE @ + 1]

\* Mutant of TickSample: the action comes first, and is sampled at once.
TickSampleActing ==
  LET b == Sampled(bench) IN
  /\ Running("tick") /\ bench.ticked /\ ~bench.warming /\ bench.scenario # 0
  /\ b.samples < Target
  /\ DriveAction(b.scenario)
  /\ bench' = Ticked([b EXCEPT !.stamps = @ + 2], TRUE)
  /\ running' = Tail(running) /\ Schedule /\ TickStays

\* Mutant of TickSample: one sample more than the target.
TickSampleLate ==
  LET b == Sampled(bench) IN
  /\ Running("tick") /\ bench.ticked /\ ~bench.warming /\ bench.scenario # 0
  /\ b.samples <= Target
  /\ DriveAction(b.scenario)
  /\ bench' = Ticked([b EXCEPT !.stamps = @ + 1], TRUE)
  /\ running' = Tail(running) /\ Schedule /\ TickStays

\* A sample short of the target, and then the next action.
TickSample ==
  LET b == Sampled(bench) IN
  /\ Running("tick") /\ bench.ticked /\ ~bench.warming /\ bench.scenario # 0
  /\ b.samples < Target
  /\ DriveAction(b.scenario)
  /\ bench' = Ticked([b EXCEPT !.stamps = @ + 1], TRUE)
  /\ running' = Tail(running) /\ Schedule /\ TickStays

\* The report is printed, the benchmark is over, and the application quits.
\* With scenario 0 the second tick reports the first paint.
TickReport ==
  LET b == Sampled(bench) IN
  /\ Running("tick") /\ bench.ticked /\ ~bench.warming
  /\ bench.scenario = 0 \/ b.samples >= Target
  /\ report' = b /\ bench' = NoBench
  /\ Gone /\ attempt' = 1
  /\ UNCHANGED <<committed, painted, beat, tables, closed>>

Tick == TickFirst \/ TickWarm \/ TickSample \/ TickReport

Next ==
  \/ RunWindow \/ RunBenchmark \/ RetryBenchmark \/ Close \/ Panic
  \/ Commit \/ Marker \/ Frame \/ DrawEarly \/ DrawFrame \/ CallbacksDone
  \/ BlinkFrame \/ Tick

Spec == Init /\ [][Next]_vars

\* An open window gets its frames, and gpui finishes those it begins.
FairSpec ==
  /\ Spec
  /\ WF_vars(Frame)
  /\ WF_vars(DrawFrame \/ CallbacksDone \/ BlinkFrame \/ Tick)

-----------------------------------------------------------------------------
(* Properties.                                                             *)

Items(tree, kind) == {i \in Range(tree) : i.kind = kind}

Callbacks == Seq({"tick", "blink"})

TypeOK ==
  /\ committed \in Trees /\ painted \in Trees \cup {NoTree}
  /\ window \in {"none", "plain", "bench"} /\ attempt \in 0 .. 2
  /\ dirty \in BOOLEAN /\ silent \in BOOLEAN /\ beat \in BOOLEAN
  /\ callbacks \in Callbacks /\ running \in Callbacks
  /\ phase \in {"idle", "callbacks", "draw"}
  /\ bench \in Bench \cup {NoBench} /\ report \in Bench \cup {NoReport}
  /\ bench # NoBench => bench.samples < Target
  /\ window = "none" => callbacks = <<>> /\ phase = "idle"
  /\ closed \in 0 .. MaxClosed

\* Until its report a benchmark has one tick armed or running, in every branch
\* of the tick and after a retry, and no blink callback adds frames of its own
\* to those it measures (2447-2546, 4484-4496).
OneTick == window = "bench" => running \o callbacks = <<"tick">>

\* What the report of scenarios 1 and 2 counts: the samples asked for, each of
\* a frame that was painted after the last tick, and each but the first of a
\* frame with an action.  The first follows the settled warm-up, so there is
\* one action, and one timestamp, less than the action_count that is printed
\* (2462-2507, 2622-2630).  Scenario 0 reports one paint and no action.  The
\* window of a retry takes over the ticks of the failed one, so that its first
\* sample may come before its first paint.
ReportAccounts ==
  report # NoReport =>
    /\ report.retried \/ report.blind = 0
    /\ report.samples = IF report.scenario = 0 THEN 1 ELSE Target
    /\ report.stamps = report.samples - 1
    /\ report.scenario # 0 => report.idle = 1

\* How many ticks a benchmark is from its report: with the two that warm it up,
\* Target + 2 for scenarios 1 and 2, and two for scenario 0.
Count(condition) == IF condition THEN 1 ELSE 0
TicksLeft(b) ==
  (IF b.scenario = 0 THEN 1 ELSE Target - b.samples) + Count(b.warming) + Count(~b.ticked)

\* Every tick brings the report one tick nearer, nothing else moves it, whatever
\* is drawn or committed in between and also over the retry of the window, and
\* it is printed by the last tick, not sooner (2447-2569).
TicksCountDown ==
  [][/\ bench # NoBench /\ bench' # NoBench /\ ~RunBenchmark =>
          TicksLeft(bench') = TicksLeft(bench) - Count(Tick)
     /\ TickReport => TicksLeft(bench) = 1]_vars

\* A plain window that shows a blinking caret has a frame on its way: a callback
\* armed or running, or the window dirty; so the chain cannot stop by itself
\* (2361-2376, 4486-4496).
BlinkIsArmed ==
  window = "plain" /\ bench = NoBench /\ painted # NoTree /\ Blinks(painted) =>
    dirty \/ running # <<>> \/ callbacks # <<>>

\* A benchmark's window does not stay: unless it is closed it reports, and
\* then the application quits (2447-2569).
BenchmarkEnds == window = "bench" ~> window # "bench"

\* While a tree with a blinking caret is on the screen its window is drawn
\* over and over; only a benchmark, also one that was left behind by a closed
\* window, stops the chain (2361-2376, 4486-4496).
BlinkGoesOn ==
  <>[](window = "plain" /\ bench = NoBench /\ painted # NoTree /\ Blinks(painted)) =>
    []<>beat /\ []<>~beat

\* In a tree that begins with probe:clear the tables are those of the last
\* frame: a pull never meets a row, a text, a probe or a caret that is not on
\* the screen, whatever has been committed or patched since, and whatever an
\* earlier window left; and it finds every probe, and of rows with one key the
\* last (3559-3570, 3620-3637, 3726-3737).
TablesArePainted ==
  painted # NoTree /\ painted # <<>> /\ painted[1].kind = "clear" =>
    /\ DOMAIN metrics = {i.key : i \in Items(painted, "row")}
    /\ \A n \in 1 .. Len(painted) :
         painted[n].kind = "row"
         /\ (\A m \in n + 1 .. Len(painted) :
              painted[m].kind = "row" => painted[m].key # painted[n].key)
         => metrics[painted[n].key] = painted[n].text
    /\ \A k \in DOMAIN bounds : bounds[k] \in Range(painted)
    /\ \A i \in Items(painted, "probe") :
         i.key \in DOMAIN bounds /\ (i.key # "caret" => bounds[i.key] = i)
    /\ "caret" \in DOMAIN bounds <=>
         \E i \in Range(painted) :
           IF i.kind = "row" THEN i.caret # "none" ELSE i.key = "caret"

\* A click in or beside a painted row leads to the boundary that no other is
\* closer to, with multi-byte characters and combining marks; and an
\* application that sets its caret to the index it pulled gets it drawn there.
\* Beyond the Basic Multilingual Plane the index of the pull is not the one
\* that set_text_row counts by (3891-3929, 3974-4020, gpui-bindings.mbt
\* 416-431).
ClickPutsCaret ==
  \A k \in DOMAIN metrics :
    LET s == metrics[k] IN
    \A x \in -1 .. SumTo(Advance, s)[Len(s)] + 1 :
      LET i == CharForPosition(s, x) IN
      /\ Nearest(s, x, i)
      /\ Basic(s) => CaretOffset(s, i) = CharIndexToByte(s, i)

\* A window whose tree a handler or the benchmark's action commits, also between
\* the callbacks and the draw of one frame, is owed a frame until one shows that
\* tree (2447-2546, 4475-4516); the marker's handler (4413) is the one exception.
Screen == INSTANCE Redraw WITH
  Nothing <- NoTree, tree <- committed, shown <- painted, owed <- dirty,
  silent <- silent, open <- window # "none"

ImplementsRedraw == Screen!Spec
=============================================================================
