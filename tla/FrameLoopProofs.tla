-------------------------- MODULE FrameLoopProofs --------------------------
(***************************************************************************)
(* Proofs about FrameLoop, for any trees, target and order of frames:      *)
(* types, the one tick of a benchmark's window, the counts of its report,  *)
(* the tables behind the pulls, and where a click puts the caret.          *)
(*                                                                         *)
(* The counts rest on the loop: a tick refreshes the window while its      *)
(* frame is running, so that a draw comes before the next tick             *)
(* (PaintBetween), and the first sample follows a tick without an action   *)
(* (CountsOK).  The tables are those that prepaint leaves, by induction    *)
(* over the items of the tree; a click is a theorem of TextMetricsProofs,  *)
(* once the painted rows are known to be texts.                            *)
(***************************************************************************)
EXTENDS FrameLoop, TextMetricsProofs

\* Where the callbacks are, and whose they are.
LoopInv ==
  /\ phase # "callbacks" => running = <<>>
  /\ window = "none" => attempt = 0 \/ running = <<>>
  /\ window = "bench" =>
       /\ bench # NoBench
       /\ \/ running = <<"tick">> /\ callbacks = <<>>
          \/ running = <<>> /\ callbacks = <<"tick">>
  /\ window = "plain" => running \in Seq({"blink"}) /\ callbacks \in Seq({"blink"})
  /\ attempt = 0 => window = "none" /\ bench # NoBench

\* What a benchmark has counted so far.
CountsOK(b) ==
  /\ b.scenario = 0 => b.samples = 0
  /\ b.stamps = b.samples
  /\ ~b.ticked \/ b.warming => b.samples = 0
  /\ ~b.ticked /\ b.scenario # 0 => b.warming
  /\ b.ticked /\ ~b.warming /\ b.samples = 0 /\ b.scenario # 0 => ~b.acted
  /\ b.samples = 0 => b.idle = 0
  /\ b.samples # 0 => b.acted /\ b.idle = 1
  /\ b.retried \/ b.blind = 0

\* Between two ticks there is a draw, or it is due in this frame.
PaintBetween ==
  window = "bench" /\ bench.ticked /\ ~bench.retried =>
    \/ bench.work /\ bench.drawn
    \/ dirty /\ running = <<>> /\ phase \in {"callbacks", "draw"}

CountInv ==
  /\ bench # NoBench => CountsOK(bench)
  /\ PaintBetween
  /\ ReportAccounts

FrameInv == TypeOK /\ LoopInv /\ CountInv

-----------------------------------------------------------------------------
(* The benchmark's record.                                                 *)

LEMMA Bounds ==
  ASSUME FrameAssumption
  PROVE  /\ Target \in Nat /\ Target > 0 /\ MaxClosed \in Nat
         /\ NoBench \notin Bench /\ NoReport \notin Bench
<1>1. /\ Target \in Nat \ {0} /\ MaxClosed \in Nat
      /\ NoBench \notin Bench /\ NoReport \notin Bench
  BY DEF FrameAssumption
<1> QED BY <1>1

LEMMA NewBench ==
  ASSUME NEW s \in 0 .. 2, FrameAssumption
  PROVE  /\ BenchRecord(s) \in Bench /\ BenchRecord(s).samples < Target
         /\ CountsOK(BenchRecord(s)) /\ ~BenchRecord(s).ticked
<1> DEFINE warming == s # 0
<1>1. warming \in BOOLEAN /\ (s # 0 => warming)
  OBVIOUS
<1>2. BenchRecord(s) =
        [scenario |-> s, ticked |-> FALSE, warming |-> warming, work |-> FALSE,
         samples |-> 0, stamps |-> 0, acted |-> FALSE, drawn |-> FALSE,
         idle |-> 0, blind |-> 0, retried |-> FALSE]
  BY DEF BenchRecord
<1> HIDE DEF warming
<1>3. BenchRecord(s) \in Bench
  BY <1>1, <1>2 DEF Bench
<1>4. BenchRecord(s).samples < Target
  BY <1>2, Bounds
<1>5. CountsOK(BenchRecord(s)) /\ ~BenchRecord(s).ticked
  BY <1>1, <1>2 DEF CountsOK
<1> QED BY <1>3, <1>4, <1>5

\* The record after a tick.
LEMMA TickedIs ==
  ASSUME NEW b \in Bench, NEW acted \in BOOLEAN
  PROVE  /\ Ticked(b, acted) \in Bench
         /\ Ticked(b, acted).acted = acted
         /\ Ticked(b, acted).scenario = b.scenario
         /\ Ticked(b, acted).ticked = b.ticked
         /\ Ticked(b, acted).warming = b.warming
         /\ Ticked(b, acted).work = b.work
         /\ Ticked(b, acted).samples = b.samples
         /\ Ticked(b, acted).stamps = b.stamps
         /\ Ticked(b, acted).idle = b.idle /\ Ticked(b, acted).blind = b.blind
         /\ Ticked(b, acted).retried = b.retried
BY DEF Ticked, Bench

\* The record after a sample.
LEMMA SampledIs ==
  ASSUME NEW b \in Bench
  PROVE  /\ Sampled(b) \in Bench /\ Sampled(b).samples = b.samples + 1
         /\ Sampled(b).idle = IF b.acted THEN b.idle ELSE b.idle + 1
         /\ b.work /\ b.drawn => Sampled(b).blind = b.blind
         /\ Sampled(b).scenario = b.scenario /\ Sampled(b).ticked = b.ticked
         /\ Sampled(b).warming = b.warming /\ Sampled(b).stamps = b.stamps
         /\ Sampled(b).acted = b.acted /\ Sampled(b).retried = b.retried
<1> DEFINE idle == IF b.acted THEN b.idle ELSE b.idle + 1
           blind == IF b.work /\ b.drawn THEN b.blind ELSE b.blind + 1
<1>1. /\ idle \in Nat /\ blind \in Nat /\ b.samples + 1 \in Nat
      /\ b.work /\ b.drawn => blind = b.blind
  BY DEF Bench
<1>2. Sampled(b) = [b EXCEPT !.work = FALSE, !.samples = b.samples + 1,
                             !.idle = idle, !.blind = blind]
  BY DEF Sampled, Bench
<1> HIDE DEF idle, blind
<1>3. Sampled(b) \in Bench
  BY <1>1, <1>2 DEF Bench
<1>4. /\ Sampled(b).samples = b.samples + 1
      /\ Sampled(b).idle = idle /\ Sampled(b).blind = blind
  BY <1>2 DEF Bench
<1>5. /\ Sampled(b).scenario = b.scenario /\ Sampled(b).ticked = b.ticked
      /\ Sampled(b).warming = b.warming /\ Sampled(b).stamps = b.stamps
      /\ Sampled(b).acted = b.acted /\ Sampled(b).retried = b.retried
  BY <1>2 DEF Bench
<1> QED BY <1>1, <1>3, <1>4, <1>5 DEF idle

-----------------------------------------------------------------------------
(* Windows.                                                                *)

LEMMA OpenKeeps ==
  ASSUME FrameInv, FrameAssumption, RunWindow \/ RunBenchmark \/ RetryBenchmark
  PROVE  FrameInv'
<1>1. /\ window = "none" /\ phase = "idle" /\ running = <<>>
      /\ UNCHANGED <<committed, running, phase, beat, report, closed>>
      /\ painted' = NoTree /\ dirty' = TRUE /\ silent' = FALSE
  BY DEF FrameInv, LoopInv, TypeOK, RunWindow, RunBenchmark, RetryBenchmark, Opened,
         Refresh
<1>2. CASE RunWindow
  <2>1. /\ window' = "plain" /\ callbacks' = <<>> /\ attempt' = 1
        /\ UNCHANGED bench
    BY <1>2 DEF RunWindow, Opened
  <2>2. TypeOK'
    <3>1. TypeOK /\ <<>> \in Callbacks
      BY DEF FrameInv, Callbacks
    <3>2. dirty' \in BOOLEAN /\ silent' \in BOOLEAN
      BY <1>1
    <3>3. running' \in Callbacks /\ callbacks' \in Callbacks /\ attempt' \in 0 .. 2
      BY <1>1, <2>1, <3>1
    <3> QED BY <1>1, <2>1, <3>1, <3>2, <3>3 DEF TypeOK
  <2>3. LoopInv'
    BY <1>1, <2>1 DEF LoopInv
  <2>4. CountInv'
    BY <1>1, <2>1 DEF FrameInv, CountInv, PaintBetween, ReportAccounts
  <2> QED BY <2>2, <2>3, <2>4 DEF FrameInv
<1>3. ASSUME NEW b \in Bench, bench' = b, b.samples < Target, CountsOK(b),
             window' = "bench", callbacks' = <<"tick">>, attempt' \in 1 .. 2,
             ~b.ticked \/ b.retried
      PROVE  FrameInv'
  <2>1. b # NoBench
    BY Bounds
  <2>2. <<"tick">> \in Callbacks
    BY DEF Callbacks
  <2>3. TypeOK'
    <3>1. TypeOK /\ <<>> \in Callbacks
      BY DEF FrameInv, Callbacks
    <3>2. dirty' \in BOOLEAN /\ silent' \in BOOLEAN
      BY <1>1
    <3>3. running' \in Callbacks /\ callbacks' \in Callbacks /\ attempt' \in 0 .. 2
      BY <1>1, <1>3, <2>2, <3>1
    <3> QED BY <1>1, <1>3, <2>1, <3>1, <3>2, <3>3 DEF TypeOK
  <2>4. LoopInv'
    BY <1>1, <1>3, <2>1 DEF LoopInv
  <2>5. CountInv'
    BY <1>1, <1>3 DEF FrameInv, CountInv, PaintBetween, ReportAccounts
  <2> QED BY <2>3, <2>4, <2>5 DEF FrameInv
<1>4. CASE RunBenchmark
  <2>1. PICK s \in 0 .. 2 : bench' = BenchRecord(s)
    BY <1>4 DEF RunBenchmark
  <2>2. window' = "bench" /\ callbacks' = <<"tick">> /\ attempt' = 1
    BY <1>4 DEF RunBenchmark, Opened
  <2> QED BY <1>3, <2>1, <2>2, NewBench
<1>5. CASE RetryBenchmark
  <2> DEFINE b == [bench EXCEPT !.retried = TRUE]
  <2>1. bench \in Bench /\ bench.samples < Target /\ CountsOK(bench)
    BY <1>5 DEF RetryBenchmark, FrameInv, LoopInv, TypeOK, CountInv
  <2>2. b \in Bench /\ b.samples < Target /\ b.retried
    BY <2>1 DEF Bench
  <2>3. /\ b.scenario = bench.scenario /\ b.ticked = bench.ticked
        /\ b.warming = bench.warming /\ b.samples = bench.samples
        /\ b.stamps = bench.stamps /\ b.acted = bench.acted
        /\ b.idle = bench.idle
    BY <2>1 DEF Bench
  <2> HIDE DEF b
  <2>4. CountsOK(b)
    BY <2>1, <2>2, <2>3 DEF CountsOK
  <2>5. bench' = b /\ window' = "bench" /\ callbacks' = <<"tick">> /\ attempt' = 2
    BY <1>5 DEF RetryBenchmark, Opened, b
  <2> QED BY <1>3, <2>2, <2>4, <2>5
<1> QED BY <1>2, <1>4, <1>5

\* Close, panic, or the end of a benchmark.
LEMMA GoneKeeps ==
  ASSUME FrameInv, Gone, attempt' \in 0 .. 2, closed' \in 0 .. MaxClosed,
         attempt' = 0 => bench' # NoBench,
         UNCHANGED <<committed, painted, beat>>,
         \/ UNCHANGED <<bench, report>>
         \/ bench' = NoBench /\ report' \in Bench /\ ReportAccounts'
  PROVE  FrameInv'
<1>1. <<>> \in Callbacks
  BY DEF Callbacks
<1>2. TypeOK'
  BY <1>1 DEF Gone, FrameInv, TypeOK
<1>3. LoopInv'
  BY DEF Gone, LoopInv
<1>4. CountInv'
  BY DEF Gone, FrameInv, CountInv, PaintBetween, ReportAccounts
<1> QED BY <1>2, <1>3, <1>4 DEF FrameInv

LEMMA LeaveKeeps ==
  ASSUME FrameInv, FrameAssumption, Close \/ Panic
  PROVE  FrameInv'
<1>1. closed' = closed + 1 /\ closed < MaxClosed /\ closed \in 0 .. MaxClosed
  BY DEF Close, Panic, FrameInv, TypeOK
<1>2. closed' \in 0 .. MaxClosed
  BY <1>1, Bounds
<1>3. attempt' \in 0 .. 2 /\ (attempt' = 0 => bench' # NoBench)
  BY DEF Close, Panic, FrameInv, LoopInv
<1> QED BY <1>2, <1>3, GoneKeeps DEF Close, Panic

-----------------------------------------------------------------------------
(* Frames.                                                                 *)

LEMMA FrameKeeps ==
  ASSUME FrameInv, Commit \/ Marker \/ Frame \/ CallbacksDone \/ UNCHANGED vars
  PROVE  FrameInv'
<1>1. <<>> \in Callbacks
  BY DEF Callbacks
<1>2. TypeOK'
  BY <1>1 DEF Commit, Marker, Refresh, Frame, CallbacksDone, vars, FrameInv, TypeOK
<1>3. LoopInv'
  <2>1. CASE Commit \/ Marker \/ UNCHANGED vars
    BY <2>1 DEF Commit, Marker, Refresh, vars, FrameInv, LoopInv
  <2>2. CASE Frame
    BY <2>2 DEF Frame, FrameInv, LoopInv
  <2>3. CASE CallbacksDone
    BY <2>3 DEF CallbacksDone, FrameInv, LoopInv
  <2> QED BY <2>1, <2>2, <2>3
<1>4. CountInv'
  <2>1. UNCHANGED <<bench, report, window>>
    BY DEF Commit, Marker, Frame, CallbacksDone, vars
  <2>2. PaintBetween'
    BY <2>1 DEF Commit, Marker, Frame, CallbacksDone, vars, FrameInv, CountInv,
                PaintBetween
  <2> QED BY <2>1, <2>2 DEF FrameInv, CountInv, ReportAccounts
<1> QED BY <1>2, <1>3, <1>4 DEF FrameInv

\* The record after a draw.
LEMMA DrawnIs ==
  ASSUME NEW b \in Bench, NEW c, c = [b EXCEPT !.work = TRUE, !.drawn = TRUE]
  PROVE  /\ c \in Bench /\ c.samples = b.samples /\ c.work /\ c.drawn
         /\ CountsOK(b) => CountsOK(c)
BY DEF Bench, CountsOK

LEMMA DrawKeeps ==
  ASSUME FrameInv, FrameAssumption, DrawEarly \/ DrawFrame
  PROVE  FrameInv'
<1>1. /\ Draw /\ phase' = "idle" /\ running = <<>> /\ window \in {"plain", "bench"}
  BY DEF DrawEarly, DrawFrame, FrameInv, LoopInv, TypeOK
<1>2. /\ painted' = committed /\ beat' = ~beat
      /\ dirty' = FALSE /\ silent' = FALSE
      /\ UNCHANGED <<committed, window, attempt, running, report, closed>>
  BY <1>1 DEF Draw
<1>3. /\ bench = NoBench => bench' = NoBench
      /\ bench # NoBench => bench' = [bench EXCEPT !.work = TRUE, !.drawn = TRUE]
  BY <1>1 DEF Draw
<1>4. \/ callbacks' = callbacks
      \/ bench = NoBench /\ callbacks' = Append(callbacks, "blink")
  BY <1>1 DEF Draw, ArmBlink
<1>5. bench # NoBench =>
        /\ bench' \in Bench /\ bench'.samples = bench.samples
        /\ bench'.work /\ bench'.drawn /\ CountsOK(bench')
  BY <1>3, DrawnIs DEF FrameInv, TypeOK, CountInv
<1>6. callbacks' \in Callbacks
  <2>1. callbacks \in Seq({"tick", "blink"})
    BY DEF FrameInv, TypeOK, Callbacks
  <2> QED BY <1>4, <2>1 DEF Callbacks
<1>7. TypeOK'
  BY <1>1, <1>2, <1>3, <1>5, <1>6 DEF FrameInv, TypeOK
<1>8. LoopInv'
  <2>1. bench # NoBench => bench' # NoBench
    BY <1>5, Bounds
  <2>2. CASE window = "bench"
    BY <1>1, <1>2, <1>4, <2>1, <2>2 DEF FrameInv, LoopInv
  <2>3. CASE window = "plain"
    <3>1. callbacks' \in Seq({"blink"})
      BY <1>4, <2>3 DEF FrameInv, LoopInv
    <3> QED BY <1>1, <1>2, <2>1, <2>3, <3>1 DEF FrameInv, LoopInv
  <2> QED BY <1>1, <2>2, <2>3
<1>9. CountInv'
  BY <1>1, <1>2, <1>3, <1>5 DEF FrameInv, CountInv, PaintBetween, ReportAccounts, LoopInv
<1> QED BY <1>7, <1>8, <1>9 DEF FrameInv

LEMMA BlinkKeeps ==
  ASSUME FrameInv, BlinkFrame
  PROVE  FrameInv'
<1>1. /\ phase = "callbacks" /\ running # <<>> /\ Head(running) = "blink"
      /\ running' = Tail(running) /\ dirty' = TRUE /\ silent' = FALSE
      /\ UNCHANGED <<committed, window, attempt, painted, callbacks, phase, beat,
                     bench, report, closed>>
  BY DEF BlinkFrame, Running, Refresh
<1>2. window = "plain"
  BY <1>1 DEF FrameInv, TypeOK, LoopInv
<1>3. Tail(running) \in Callbacks /\ Tail(running) \in Seq({"blink"})
  BY <1>1, <1>2 DEF FrameInv, TypeOK, LoopInv, Callbacks
<1>4. TypeOK'
  BY <1>1, <1>3 DEF FrameInv, TypeOK
<1>5. LoopInv'
  BY <1>1, <1>2, <1>3 DEF FrameInv, LoopInv
<1>6. CountInv'
  BY <1>1, <1>2 DEF FrameInv, CountInv, PaintBetween, ReportAccounts
<1> QED BY <1>4, <1>5, <1>6 DEF FrameInv

-----------------------------------------------------------------------------
(* The tick.                                                               *)

\* A running tick is that of a benchmark's window, alone.
LEMMA TickIsBench ==
  ASSUME FrameInv, Running("tick")
  PROVE  /\ window = "bench" /\ bench # NoBench /\ bench \in Bench
         /\ bench.samples < Target /\ CountsOK(bench)
         /\ running = <<"tick">> /\ callbacks = <<>> /\ phase = "callbacks"
         /\ bench.ticked /\ ~bench.retried => bench.work /\ bench.drawn
<1>1. running # <<>> /\ Head(running) = "tick" /\ phase = "callbacks"
  BY DEF Running
<1>2. window = "bench"
  <2>1. window # "none"
    BY <1>1 DEF FrameInv, TypeOK
  <2>2. window # "plain"
    <3>1. SUFFICES ASSUME window = "plain"
                   PROVE  FALSE
      OBVIOUS
    <3>2. running \in Seq({"blink"})
      BY <3>1 DEF FrameInv, LoopInv
    <3>3. Head(running) \in {"blink"}
      BY <1>1, <3>2
    <3> QED BY <1>1, <3>3
  <2> QED BY <2>1, <2>2 DEF FrameInv, TypeOK
<1> QED BY <1>1, <1>2 DEF FrameInv, LoopInv, TypeOK, CountInv, PaintBetween

\* A tick that schedules the next: b is the record it leaves.
LEMMA ScheduledKeeps ==
  ASSUME FrameInv, FrameAssumption, Running("tick"), Schedule, TickStays,
         running' = Tail(running), committed' \in Trees,
         bench' \in Bench, bench'.samples < Target, CountsOK(bench')
  PROVE  FrameInv'
<1>1. /\ window = "bench" /\ running' = <<>> /\ callbacks' = <<"tick">>
      /\ phase' = "callbacks" /\ dirty' = TRUE /\ silent' = FALSE /\ bench' # NoBench
      /\ UNCHANGED <<window, attempt, painted, phase, beat, report, closed>>
  <2>1. UNCHANGED <<window, attempt, painted, phase, beat, report, closed>>
    BY DEF TickStays
  <2>2. bench' # NoBench
    BY Bounds
  <2>3. window = "bench" /\ running = <<"tick">> /\ callbacks = <<>> /\ phase = "callbacks"
    BY TickIsBench
  <2>4. running' = <<>>
    BY <2>3
  <2>5. callbacks' = <<"tick">> /\ dirty' = TRUE /\ silent' = FALSE
    BY <2>3 DEF Schedule, Refresh
  <2> QED BY <2>1, <2>2, <2>3, <2>4, <2>5
<1>2. running' \in Callbacks /\ callbacks' \in Callbacks
  <2>1. <<>> \in Callbacks /\ <<"tick">> \in Callbacks
    BY DEF Callbacks
  <2> QED BY <1>1, <2>1
<1>3. TypeOK'
  BY <1>1, <1>2 DEF FrameInv, TypeOK
<1>4. LoopInv'
  BY <1>1 DEF FrameInv, LoopInv
<1>5. CountInv'
  BY <1>1 DEF FrameInv, CountInv, PaintBetween, ReportAccounts
<1> QED BY <1>3, <1>4, <1>5 DEF FrameInv

LEMMA DriveStays ==
  ASSUME FrameInv, NEW s, DriveAction(s)
  PROVE  committed' \in Trees
BY DEF DriveAction, FrameInv, TypeOK

LEMMA TickFirstKeeps ==
  ASSUME FrameInv, FrameAssumption, TickFirst
  PROVE  FrameInv'
<1> DEFINE b == [bench EXCEPT !.ticked = TRUE]
           acted == bench.scenario # 0
<1>1. Running("tick") /\ ~bench.ticked /\ bench' = Ticked(b, acted)
  BY DEF TickFirst
<1>2. bench \in Bench /\ bench.samples < Target /\ CountsOK(bench)
  BY <1>1, TickIsBench
<1>3. acted \in BOOLEAN /\ (bench.scenario = 0 <=> ~acted)
  OBVIOUS
<1> HIDE DEF acted
<1>4. /\ b \in Bench
      /\ b.scenario = bench.scenario /\ b.warming = bench.warming
      /\ b.samples = bench.samples /\ b.stamps = bench.stamps
      /\ b.idle = bench.idle /\ b.blind = bench.blind
      /\ b.retried = bench.retried
  BY <1>2 DEF Bench
<1>5. bench' \in Bench /\ bench'.samples = bench.samples
  BY <1>1, <1>3, <1>4, TickedIs
<1>6. /\ bench'.scenario = bench.scenario /\ bench'.stamps = bench.stamps
      /\ bench'.warming = bench.warming /\ bench'.idle = bench.idle
      /\ bench'.blind = bench.blind /\ bench'.retried = bench.retried
  BY <1>1, <1>3, <1>4, TickedIs
<1>7. bench.scenario # 0 => bench.warming
  BY <1>1, <1>2 DEF CountsOK
<1>8. CountsOK(bench')
  BY <1>1, <1>2, <1>5, <1>6, <1>7 DEF CountsOK
<1> QED BY <1>1, <1>2, <1>5, <1>8, ScheduledKeeps, DriveStays DEF TickFirst

LEMMA TickWarmKeeps ==
  ASSUME FrameInv, FrameAssumption, TickWarm
  PROVE  FrameInv'
<1> DEFINE b == [bench EXCEPT !.warming = FALSE]
<1>1. /\ Running("tick") /\ bench.ticked /\ bench.warming
      /\ bench' = Ticked(b, FALSE) /\ UNCHANGED committed
  BY DEF TickWarm
<1>2. bench \in Bench /\ bench.samples < Target /\ CountsOK(bench)
  BY <1>1, TickIsBench
<1>3. /\ b \in Bench
      /\ b.scenario = bench.scenario /\ b.ticked = bench.ticked
      /\ b.samples = bench.samples /\ b.stamps = bench.stamps
      /\ b.idle = bench.idle /\ b.blind = bench.blind
      /\ b.retried = bench.retried
  BY <1>2 DEF Bench
<1>4. /\ bench' \in Bench /\ ~bench'.acted
      /\ bench'.scenario = bench.scenario /\ bench'.ticked = bench.ticked
      /\ bench'.samples = bench.samples /\ bench'.stamps = bench.stamps
      /\ bench'.idle = bench.idle /\ bench'.blind = bench.blind
      /\ bench'.retried = bench.retried
  BY <1>1, <1>3, TickedIs
<1>5. CountsOK(bench')
  BY <1>1, <1>2, <1>4 DEF CountsOK
<1>6. committed' \in Trees /\ bench'.samples < Target
  BY <1>1, <1>2, <1>4 DEF FrameInv, TypeOK
<1> QED BY <1>1, <1>4, <1>5, <1>6, ScheduledKeeps DEF TickWarm

LEMMA TickSampleKeeps ==
  ASSUME FrameInv, FrameAssumption, TickSample
  PROVE  FrameInv'
<1> DEFINE a == Sampled(bench)
           b == [a EXCEPT !.stamps = @ + 1]
<1>1. /\ Running("tick") /\ bench.ticked /\ ~bench.warming /\ bench.scenario # 0
      /\ a.samples < Target /\ DriveAction(a.scenario) /\ bench' = Ticked(b, TRUE)
  BY DEF TickSample
<1>2. /\ bench \in Bench /\ CountsOK(bench)
      /\ ~bench.retried => bench.work /\ bench.drawn
  BY <1>1, TickIsBench
<1>3. /\ a \in Bench /\ a.samples = bench.samples + 1
      /\ a.idle = IF bench.acted THEN bench.idle ELSE bench.idle + 1
      /\ bench.work /\ bench.drawn => a.blind = bench.blind
      /\ a.scenario = bench.scenario /\ a.ticked = bench.ticked
      /\ a.warming = bench.warming /\ a.stamps = bench.stamps
      /\ a.retried = bench.retried
  BY <1>2, SampledIs
<1> HIDE DEF a
<1>4. /\ b \in Bench /\ b.stamps = bench.stamps + 1
      /\ b.scenario = a.scenario /\ b.ticked = a.ticked
      /\ b.warming = a.warming /\ b.samples = a.samples /\ b.idle = a.idle
      /\ b.blind = a.blind /\ b.retried = a.retried
  BY <1>3 DEF Bench
<1> HIDE DEF b
<1>5. /\ bench' \in Bench /\ bench'.acted /\ bench'.stamps = bench.stamps + 1
      /\ bench'.scenario = a.scenario /\ bench'.ticked = a.ticked
      /\ bench'.warming = a.warming /\ bench'.samples = a.samples
      /\ bench'.idle = a.idle /\ bench'.blind = a.blind
      /\ bench'.retried = a.retried
  BY <1>1, <1>4, TickedIs
<1>6. bench.samples \in Nat /\ bench.idle \in Nat
  BY <1>2 DEF Bench
<1>7. bench'.idle = 1
  <2>1. CASE bench.samples = 0
    <3>1. ~bench.acted /\ bench.idle = 0
      BY <1>1, <1>2, <2>1 DEF CountsOK
    <3> QED BY <1>3, <1>5, <3>1
  <2>2. CASE bench.samples # 0
    <3>1. bench.acted /\ bench.idle = 1
      BY <1>2, <2>2 DEF CountsOK
    <3> QED BY <1>3, <1>5, <3>1
  <2> QED BY <2>1, <2>2
<1>8. /\ bench'.stamps = bench'.samples /\ bench'.samples # 0
      /\ bench'.retried \/ bench'.blind = 0
  BY <1>2, <1>3, <1>5, <1>6 DEF CountsOK
<1>9. /\ bench'.ticked /\ ~bench'.warming /\ bench'.scenario # 0
  BY <1>1, <1>3, <1>5
<1>10. CountsOK(bench')
  BY <1>5, <1>7, <1>8, <1>9 DEF CountsOK
<1>11. bench'.samples < Target
  BY <1>1, <1>5
<1> QED BY <1>1, <1>5, <1>10, <1>11, ScheduledKeeps, DriveStays DEF TickSample

LEMMA TickReportKeeps ==
  ASSUME FrameInv, FrameAssumption, TickReport
  PROVE  FrameInv'
<1> DEFINE a == Sampled(bench)
<1>1. /\ Running("tick") /\ bench.ticked /\ ~bench.warming
      /\ bench.scenario = 0 \/ a.samples >= Target
      /\ report' = a /\ bench' = NoBench
  BY DEF TickReport
<1>2. /\ bench \in Bench /\ bench.samples < Target /\ CountsOK(bench)
      /\ ~bench.retried => bench.work /\ bench.drawn
  BY <1>1, TickIsBench
<1>3. /\ a \in Bench /\ a.samples = bench.samples + 1
      /\ a.idle = IF bench.acted THEN bench.idle ELSE bench.idle + 1
      /\ bench.work /\ bench.drawn => a.blind = bench.blind
      /\ a.scenario = bench.scenario /\ a.stamps = bench.stamps
      /\ a.retried = bench.retried
  BY <1>2, SampledIs
<1> HIDE DEF a
<1>4. bench.samples \in Nat /\ bench.idle \in Nat /\ Target \in Nat
  BY <1>2, Bounds DEF Bench
<1>5. a.retried \/ a.blind = 0
  BY <1>2, <1>3 DEF CountsOK
<1>6. a.samples = IF a.scenario = 0 THEN 1 ELSE Target
  BY <1>1, <1>2, <1>3, <1>4 DEF CountsOK
<1>7. a.stamps = a.samples - 1
  BY <1>2, <1>3, <1>4 DEF CountsOK
<1>8. a.scenario # 0 => a.idle = 1
  BY <1>1, <1>2, <1>3, <1>4 DEF CountsOK
<1>9. ReportAccounts'
  BY <1>1, <1>5, <1>6, <1>7, <1>8 DEF ReportAccounts
<1>10. /\ Gone /\ attempt' = 1 /\ closed' \in 0 .. MaxClosed
       /\ UNCHANGED <<committed, painted, beat>>
  BY DEF TickReport, FrameInv, TypeOK
<1> QED BY <1>1, <1>3, <1>9, <1>10, GoneKeeps

-----------------------------------------------------------------------------
LEMMA StepKeepsFrame ==
  ASSUME FrameInv, FrameAssumption, [Next]_vars
  PROVE  FrameInv'
BY OpenKeeps, LeaveKeeps, FrameKeeps, DrawKeeps, BlinkKeeps, TickFirstKeeps,
   TickWarmKeeps, TickSampleKeeps, TickReportKeeps DEF Next, Tick

LEMMA InitFrame ==
  ASSUME Init, FrameAssumption
  PROVE  FrameInv
<1>1. <<>> \in Callbacks
  BY DEF Callbacks
<1>2. 0 \in 0 .. MaxClosed /\ 1 \in 0 .. 2
  BY Bounds
<1>3. TypeOK
  BY <1>1, <1>2 DEF Init, TypeOK
<1> QED BY <1>3 DEF Init, FrameInv, LoopInv, CountInv, PaintBetween, ReportAccounts

\* The frame model is type correct; a benchmark never holds as many samples as
\* it was asked for, since it reports instead (lib.rs 2482-2546).
THEOREM FramesTyped == Spec => []TypeOK
<1>1. FrameInv => TypeOK
  BY DEF FrameInv
<1> QED BY InitFrame, StepKeepsFrame, FrameAssumption, <1>1, PTL DEF Spec

\* A benchmark's window always has exactly its one tick, armed or running
\* (lib.rs 2336-2341, 2447-2546, 4484-4496).
THEOREM TickIsAlways == Spec => []OneTick
<1>1. FrameInv => OneTick
  <2>1. <<"tick">> \o <<>> = <<"tick">> /\ <<>> \o <<"tick">> = <<"tick">>
    OBVIOUS
  <2> QED BY <2>1 DEF FrameInv, LoopInv, OneTick
<1> QED BY InitFrame, StepKeepsFrame, FrameAssumption, <1>1, PTL DEF Spec

\* A report counts the samples asked for, each of a painted frame and all but
\* the first of a frame with an action (lib.rs 2462-2507, 2622-2630).
THEOREM ReportsAccount == Spec => []ReportAccounts
<1>1. FrameInv => ReportAccounts
  BY DEF FrameInv, CountInv
<1> QED BY InitFrame, StepKeepsFrame, FrameAssumption, <1>1, PTL DEF Spec

-----------------------------------------------------------------------------
(* The ticks that are left, and the blink chain.                           *)

LEMMA TicksOf ==
  ASSUME NEW b \in Bench, FrameAssumption
  PROVE  /\ TicksLeft(b) = (IF b.scenario = 0 THEN 1 ELSE Target - b.samples)
                             + (IF b.warming THEN 1 ELSE 0) + (IF b.ticked THEN 0 ELSE 1)
         /\ TicksLeft(b) \in Int
<1>1. /\ b.samples \in Nat /\ Target \in Nat
      /\ b.warming \in BOOLEAN /\ b.ticked \in BOOLEAN
  BY Bounds DEF Bench
<1> QED BY <1>1 DEF TicksLeft, Count

LEMMA SameTicks ==
  ASSUME NEW b \in Bench, NEW c \in Bench, FrameAssumption,
         c.scenario = b.scenario, c.samples = b.samples,
         c.warming = b.warming, c.ticked = b.ticked
  PROVE  TicksLeft(c) = TicksLeft(b)
BY TicksOf

\* What each tick counts: the first, the one that settles the warm-up, a sample.
LEMMA FirstCounts ==
  ASSUME FrameInv, FrameAssumption, TickFirst
  PROVE  TicksLeft(bench') = TicksLeft(bench) - 1
<1> DEFINE b == [bench EXCEPT !.ticked = TRUE]
           acted == bench.scenario # 0
<1>1. Running("tick") /\ ~bench.ticked /\ bench' = Ticked(b, acted)
  BY DEF TickFirst
<1>2. bench \in Bench /\ acted \in BOOLEAN
  BY <1>1, TickIsBench
<1> HIDE DEF acted
<1>3. /\ b \in Bench /\ b.ticked
      /\ b.scenario = bench.scenario /\ b.warming = bench.warming
      /\ b.samples = bench.samples
  BY <1>2 DEF Bench
<1> HIDE DEF b
<1>4. /\ bench' \in Bench /\ bench'.ticked
      /\ bench'.scenario = bench.scenario /\ bench'.warming = bench.warming
      /\ bench'.samples = bench.samples
  BY <1>1, <1>2, <1>3, TickedIs
<1>5. /\ bench.samples \in Nat /\ Target \in Nat
  BY <1>2, Bounds DEF Bench
<1> QED BY <1>1, <1>2, <1>4, <1>5, TicksOf

LEMMA WarmCounts ==
  ASSUME FrameInv, FrameAssumption, TickWarm
  PROVE  TicksLeft(bench') = TicksLeft(bench) - 1
<1> DEFINE b == [bench EXCEPT !.warming = FALSE]
<1>1. /\ Running("tick") /\ bench.ticked /\ bench.warming
      /\ bench' = Ticked(b, FALSE)
  BY DEF TickWarm
<1>2. bench \in Bench
  BY <1>1, TickIsBench
<1>3. /\ b \in Bench /\ ~b.warming
      /\ b.scenario = bench.scenario /\ b.ticked = bench.ticked
      /\ b.samples = bench.samples
  BY <1>2 DEF Bench
<1> HIDE DEF b
<1>4. /\ bench' \in Bench /\ ~bench'.warming
      /\ bench'.scenario = bench.scenario /\ bench'.ticked = bench.ticked
      /\ bench'.samples = bench.samples
  BY <1>1, <1>3, TickedIs
<1>5. bench.samples \in Nat /\ Target \in Nat
  BY <1>2, Bounds DEF Bench
<1>6. TicksLeft(bench) =
        (IF bench.scenario = 0 THEN 1 ELSE Target - bench.samples) + 1 + 0
  BY <1>1, <1>2, TicksOf
<1>7. TicksLeft(bench') =
        (IF bench.scenario = 0 THEN 1 ELSE Target - bench.samples) + 0 + 0
  BY <1>1, <1>4, TicksOf
<1> QED BY <1>5, <1>6, <1>7

LEMMA SampleCounts ==
  ASSUME FrameInv, FrameAssumption, TickSample
  PROVE  TicksLeft(bench') = TicksLeft(bench) - 1
<1> DEFINE a == Sampled(bench)
           b == [a EXCEPT !.stamps = @ + 1]
<1>1. /\ Running("tick") /\ bench.ticked /\ ~bench.warming /\ bench.scenario # 0
      /\ bench' = Ticked(b, TRUE)
  BY DEF TickSample
<1>2. bench \in Bench
  BY <1>1, TickIsBench
<1>3. /\ a \in Bench /\ a.samples = bench.samples + 1
      /\ a.scenario = bench.scenario /\ a.ticked = bench.ticked
      /\ a.warming = bench.warming
  BY <1>2, SampledIs
<1> HIDE DEF a
<1>4. /\ b \in Bench
      /\ b.scenario = a.scenario /\ b.ticked = a.ticked
      /\ b.warming = a.warming /\ b.samples = a.samples
  BY <1>3 DEF Bench
<1> HIDE DEF b
<1>5. /\ bench' \in Bench
      /\ bench'.scenario = bench.scenario /\ bench'.ticked = bench.ticked
      /\ bench'.warming = bench.warming /\ bench'.samples = bench.samples + 1
  BY <1>1, <1>3, <1>4, TickedIs
<1>6. bench.samples \in Nat /\ Target \in Nat
  BY <1>2, Bounds DEF Bench
<1>7. TicksLeft(bench) = (Target - bench.samples) + 0 + 0
  BY <1>1, <1>2, TicksOf
<1>8. TicksLeft(bench') = (Target - (bench.samples + 1)) + 0 + 0
  BY <1>1, <1>5, TicksOf
<1> QED BY <1>6, <1>7, <1>8

LEMMA ReportIsLast ==
  ASSUME FrameInv, FrameAssumption, TickReport
  PROVE  TicksLeft(bench) = 1
<1> DEFINE a == Sampled(bench)
<1>1. /\ Running("tick") /\ bench.ticked /\ ~bench.warming
      /\ bench.scenario = 0 \/ a.samples >= Target
  BY DEF TickReport
<1>2. bench \in Bench /\ bench.samples < Target
  BY <1>1, TickIsBench
<1>3. a.samples = bench.samples + 1
  BY <1>2, SampledIs
<1> HIDE DEF a
<1>4. bench.samples \in Nat /\ Target \in Nat
  BY <1>2, Bounds DEF Bench
<1> QED BY <1>1, <1>2, <1>3, <1>4, TicksOf

\* A draw marks the record, the retry's window too: neither is a tick.
LEMMA OthersKeepTicks ==
  ASSUME FrameInv, FrameAssumption, [Next]_vars, ~Tick, ~RunBenchmark,
         bench # NoBench
  PROVE  TicksLeft(bench') = TicksLeft(bench)
<1>1. bench \in Bench
  BY DEF FrameInv, TypeOK
<1>2. CASE UNCHANGED bench
  BY <1>2
<1>3. CASE Draw
  <2>1. bench' = [bench EXCEPT !.work = TRUE, !.drawn = TRUE]
    BY <1>3 DEF Draw
  <2>2. /\ bench' \in Bench
        /\ bench'.scenario = bench.scenario /\ bench'.samples = bench.samples
        /\ bench'.warming = bench.warming /\ bench'.ticked = bench.ticked
    BY <1>1, <2>1 DEF Bench
  <2> QED BY <1>1, <2>2, SameTicks
<1>4. CASE RetryBenchmark
  <2>1. bench' = [bench EXCEPT !.retried = TRUE]
    BY <1>4 DEF RetryBenchmark
  <2>2. /\ bench' \in Bench
        /\ bench'.scenario = bench.scenario /\ bench'.samples = bench.samples
        /\ bench'.warming = bench.warming /\ bench'.ticked = bench.ticked
    BY <1>1, <2>1 DEF Bench
  <2> QED BY <1>1, <2>2, SameTicks
<1>5. RunWindow \/ Close \/ Panic \/ Commit \/ Marker \/ Frame \/ CallbacksDone \/ BlinkFrame
        => UNCHANGED bench
  BY DEF RunWindow, Close, Panic, Commit, Marker, Frame, CallbacksDone, BlinkFrame
<1>6. DrawEarly \/ DrawFrame => Draw
  BY DEF DrawEarly, DrawFrame
<1>7. UNCHANGED vars => UNCHANGED bench
  BY DEF vars
<1> QED BY <1>2, <1>3, <1>4, <1>5, <1>6, <1>7 DEF Next

\* A benchmark ends after Target + 2 ticks in scenarios 1 and 2 and after two in
\* scenario 0: every tick takes it one nearer to its report, no draw, commit,
\* frame or retry moves it, and the report comes with the last one, for every
\* target (lib.rs 2447-2569).  With TickIsAlways, a benchmark's window can
\* neither stop nor go on for ever: what remains for BenchmarkEnds is that
\* gpui's frames come.
THEOREM BenchmarkCountsDown == Spec => TicksCountDown
<1>1. ASSUME FrameInv, FrameAssumption, [Next]_vars
      PROVE  [/\ bench # NoBench /\ bench' # NoBench /\ ~RunBenchmark =>
                   TicksLeft(bench') = TicksLeft(bench) - Count(Tick)
              /\ TickReport => TicksLeft(bench) = 1]_vars
  <2>1. ASSUME bench # NoBench, bench' # NoBench, ~RunBenchmark, Tick
        PROVE  TicksLeft(bench') = TicksLeft(bench) - 1
    <3>1. ~TickReport
      BY <2>1 DEF TickReport
    <3> QED BY <1>1, <2>1, <3>1, FirstCounts, WarmCounts, SampleCounts DEF Tick
  <2>2. ASSUME bench # NoBench, bench' # NoBench, ~RunBenchmark, ~Tick
        PROVE  TicksLeft(bench') = TicksLeft(bench) - 0
    <3>1. bench \in Bench
      BY <1>1, <2>2 DEF FrameInv, TypeOK
    <3>2. TicksLeft(bench) \in Int
      BY <1>1, <3>1, TicksOf
    <3> QED BY <1>1, <2>2, <3>2, OthersKeepTicks
  <2>3. TickReport => TicksLeft(bench) = 1
    BY <1>1, ReportIsLast
  <2> QED BY <2>1, <2>2, <2>3 DEF Count
<1> QED BY InitFrame, StepKeepsFrame, FrameAssumption, <1>1, PTL DEF Spec, TicksCountDown

LEMMA StepKeepsBlink ==
  ASSUME FrameInv, FrameAssumption, BlinkIsArmed, [Next]_vars
  PROVE  BlinkIsArmed'
<1>1. CASE RunWindow \/ RunBenchmark \/ RetryBenchmark
  BY <1>1 DEF RunWindow, RunBenchmark, RetryBenchmark, Opened, BlinkIsArmed
<1>2. CASE Close \/ Panic
  BY <1>2 DEF Close, Panic, Gone, BlinkIsArmed
<1>3. CASE Commit \/ Marker \/ BlinkFrame
  BY <1>3 DEF Commit, Marker, BlinkFrame, Refresh, BlinkIsArmed
<1>4. CASE Frame
  <2>1. running = <<>>
    BY <1>4 DEF Frame, FrameInv, LoopInv
  <2>2. /\ running' = callbacks
        /\ UNCHANGED <<window, bench, painted, dirty>>
    BY <1>4 DEF Frame
  <2> QED BY <2>1, <2>2 DEF BlinkIsArmed, Blinks
<1>5. CASE DrawEarly \/ DrawFrame
  <2>1. Draw
    BY <1>5 DEF DrawEarly, DrawFrame
  <2>2. SUFFICES ASSUME bench' = NoBench, Blinks(painted)'
                 PROVE  callbacks' # <<>>
    BY DEF BlinkIsArmed
  <2>3. bench = NoBench
    <3>1. SUFFICES ASSUME bench # NoBench
                   PROVE  FALSE
      OBVIOUS
    <3>2. bench \in Bench
      BY <3>1 DEF FrameInv, TypeOK
    <3>3. bench' = [bench EXCEPT !.work = TRUE, !.drawn = TRUE]
      BY <2>1, <3>1 DEF Draw
    <3>4. bench' \in Bench
      BY <3>2, <3>3, DrawnIs
    <3> QED BY <2>2, <3>4, Bounds
  <2>4. Blinks(committed)
    BY <2>1, <2>2 DEF Draw, Blinks
  <2>5. callbacks' = Append(callbacks, "blink")
    BY <2>1, <2>3, <2>4 DEF Draw, ArmBlink
  <2>6. callbacks \in Seq({"tick", "blink"})
    BY DEF FrameInv, TypeOK, Callbacks
  <2> QED BY <2>5, <2>6
<1>6. CASE Tick
  <2>1. Running("tick")
    BY <1>6 DEF Tick, TickFirst, TickWarm, TickSample, TickReport
  <2>2. window = "bench"
    BY <2>1, TickIsBench
  <2>3. window' # "plain"
    BY <1>6, <2>2 DEF Tick, TickFirst, TickWarm, TickSample, TickReport, TickStays, Gone
  <2> QED BY <2>3 DEF BlinkIsArmed
<1>7. CASE CallbacksDone
  BY <1>7 DEF CallbacksDone, BlinkIsArmed, Blinks
<1>8. CASE UNCHANGED vars
  BY <1>8 DEF vars, BlinkIsArmed, Blinks
<1> QED BY <1>1, <1>2, <1>3, <1>4, <1>5, <1>6, <1>7, <1>8 DEF Next

\* In a plain window a blinking caret that is on the screen always has its next
\* frame on the way, through every order of draws, commits and callbacks and
\* after every window before it; a benchmark that was left behind is the only
\* exception (lib.rs 2361-2376, 4486-4496).
THEOREM CaretKeepsAFrame == Spec => []BlinkIsArmed
<1>1. Init => BlinkIsArmed
  BY DEF Init, BlinkIsArmed
<1> QED BY InitFrame, StepKeepsFrame, StepKeepsBlink, FrameAssumption, <1>1, PTL DEF Spec

-----------------------------------------------------------------------------
(* The tables of the last frame.                                           *)

Keys == STRING \cup {"caret"}
Table(V) == UNION {[D -> V] : D \in SUBSET Keys}
Tabs == [bounds : Table(Item), metrics : Table(Seq(Glyphs))]

LEMMA EmptyTable ==
  ASSUME NEW V
  PROVE  <<>> \in Table(V) /\ DOMAIN <<>> = {}
<1>1. <<>> \in Seq(V) /\ Len(<<>>) = 0
  OBVIOUS
<1>2. <<>> \in [1 .. 0 -> V] /\ 1 .. 0 = {}
  BY <1>1, LenProperties
<1> QED BY <1>2 DEF Table

LEMMA PutTable ==
  ASSUME NEW V, NEW f \in Table(V), NEW x \in Keys, NEW y \in V
  PROVE  Put(f, x, y) \in Table(V)
<1>1. PICK D \in SUBSET Keys : f \in [D -> V]
  BY DEF Table
<1>2. Put(f, x, y) \in [D \cup {x} -> V] /\ D \cup {x} \in SUBSET Keys
  BY <1>1 DEF Put
<1> QED BY <1>2 DEF Table

LEMMA PrepaintItemTabs ==
  ASSUME NEW tab \in Tabs, NEW item \in Item
  PROVE  PrepaintItem(tab, item) \in Tabs
<1>1. tab.bounds \in Table(Item) /\ tab.metrics \in Table(Seq(Glyphs))
  BY DEF Tabs
<1>5. tab = [bounds |-> tab.bounds, metrics |-> tab.metrics]
  BY DEF Tabs
<1>6. item.key \in Keys /\ item.text \in Seq(Glyphs) /\ item.kind \in Kinds
  BY DEF Item, Keys
<1>2. CASE item.kind = "clear"
  <2>1. <<>> \in Table(Item) /\ <<>> \in Table(Seq(Glyphs))
    BY EmptyTable
  <2>2. Put(<<>>, item.key, item) \in Table(Item)
    BY <1>6, <2>1, PutTable
  <2>3. PrepaintItem(tab, item) = [bounds |-> Put(<<>>, item.key, item), metrics |-> <<>>]
    BY <1>2 DEF PrepaintItem
  <2> QED BY <2>1, <2>2, <2>3 DEF Tabs
<1>3. CASE item.kind = "probe"
  <2>1. Put(tab.bounds, item.key, item) \in Table(Item)
    BY <1>1, <1>6, PutTable
  <2>2. PrepaintItem(tab, item) = [tab EXCEPT !.bounds = Put(tab.bounds, item.key, item)]
    BY <1>3 DEF PrepaintItem
  <2> QED BY <1>5, <1>1, <2>1, <2>2 DEF Tabs
<1>4. CASE item.kind = "row"
  <2>4. "caret" \in Keys
    BY DEF Keys
  <2>1. Put(tab.bounds, "caret", item) \in Table(Item)
    BY <1>1, <2>4, PutTable
  <2>2. Put(tab.metrics, item.key, item.text) \in Table(Seq(Glyphs))
    BY <1>1, <1>6, PutTable
  <2>3. PrepaintItem(tab, item) =
          [bounds |-> IF item.caret = "none" THEN tab.bounds
                      ELSE Put(tab.bounds, "caret", item),
           metrics |-> Put(tab.metrics, item.key, item.text)]
    BY <1>4 DEF PrepaintItem
  <2> QED BY <1>1, <2>1, <2>2, <2>3 DEF Tabs
<1> QED BY <1>6, <1>2, <1>3, <1>4 DEF Kinds

Prepaints(tree, tab) ==
  \A n \in 1 .. Len(tree) : tab[n] = PrepaintItem(tab[n - 1], tree[n])

\* The recursion of Prepaint has a value.
LEMMA PrepaintIs ==
  ASSUME NEW tree \in Seq(Item), bounds \in Table(Item), metrics \in Table(Seq(Glyphs)),
         Prepaint(tree)
  PROVE  \E tab \in [0 .. Len(tree) -> Tabs] :
           /\ Prepaints(tree, tab)
           /\ bounds' = tab[Len(tree)].bounds /\ metrics' = tab[Len(tree)].metrics
<1> DEFINE base == [bounds |-> bounds, metrics |-> metrics]
           step == [p \in Tabs \X (1 .. Len(tree)) |-> PrepaintItem(p[1], tree[p[2]])]
<1>1. Len(tree) \in Nat /\ \A k \in 1 .. Len(tree) : tree[k] \in Item
  OBVIOUS
<1>2. base \in Tabs
  BY DEF Tabs
<1>3. step \in [Tabs \X (1 .. Len(tree)) -> Tabs]
  <2>1. ASSUME NEW p \in Tabs \X (1 .. Len(tree))
        PROVE  PrepaintItem(p[1], tree[p[2]]) \in Tabs
    <3>1. p[1] \in Tabs /\ p[2] \in 1 .. Len(tree)
      OBVIOUS
    <3> QED BY <1>1, <3>1, PrepaintItemTabs
  <2> QED BY <2>1
<1> HIDE DEF step, base
<1>4. PICK g \in [0 .. Len(tree) -> Tabs] : Iterates(step, base, Len(tree), g)
  BY <1>1, <1>2, <1>3, IterationExists
<1>5. ASSUME NEW k \in 1 .. Len(tree) PROVE g[k] = PrepaintItem(g[k - 1], tree[k])
  <2>1. k - 1 \in 0 .. Len(tree)
    BY <1>1
  <2>2. g[k - 1] \in Tabs
    BY <2>1
  <2>3. step[<<g[k - 1], k>>] = PrepaintItem(g[k - 1], tree[k])
    BY <2>2 DEF step
  <2> QED BY <1>4, <2>3 DEF Iterates
<1> DEFINE next(h, n) == IF n = 0 THEN base ELSE PrepaintItem(h[n - 1], tree[n])
           value == CHOOSE h : h = [n \in 0 .. Len(tree) |-> next(h, n)]
<1>6. g = [n \in 0 .. Len(tree) |-> next(g, n)]
  <2>1. \A n \in 0 .. Len(tree) : g[n] = next(g, n)
    BY <1>1, <1>4, <1>5 DEF Iterates
  <2> HIDE DEF next
  <2> QED BY <2>1
<1>7. bounds' = value[Len(tree)].bounds /\ metrics' = value[Len(tree)].metrics
  BY DEF Prepaint, base
<1>8. value = [n \in 0 .. Len(tree) |-> next(value, n)]
  <2> HIDE DEF next
  <2> QED BY <1>6
<1> HIDE DEF value
<1>9. \A n \in 0 .. Len(tree) : value[n] = next(value, n)
  <2> HIDE DEF next
  <2> QED BY <1>8
<1>10. \A n \in 0 .. Len(tree) : value[n] = g[n]
  <2> DEFINE R == {n \in 0 .. Len(tree) : value[n] = g[n]}
  <2>1. 0 \in R
    BY <1>1, <1>4, <1>9 DEF Iterates
  <2>2. ASSUME NEW n \in 0 .. Len(tree) - 1, n \in R PROVE n + 1 \in R
    <3>1. n + 1 \in 1 .. Len(tree) /\ (n + 1) - 1 = n /\ n + 1 # 0
      BY <1>1
    <3> QED BY <1>1, <1>5, <1>9, <2>2, <3>1
  <2> HIDE DEF R
  <2>3. \A n \in 0 .. Len(tree) : n \in R
    BY <1>1, <2>1, <2>2, UpTo
  <2> QED BY <2>3 DEF R
<1>11. Len(tree) \in 0 .. Len(tree)
  BY <1>1
<1>12. Prepaints(tree, g)
  BY <1>5 DEF Prepaints
<1> QED BY <1>7, <1>10, <1>11, <1>12

\* What the tables hold after the first n items of a tree.
TabsOf(tree, n, tab) ==
  /\ DOMAIN tab.metrics = {tree[m].key : m \in {k \in 1 .. n : tree[k].kind = "row"}}
  /\ \A m \in 1 .. n :
       tree[m].kind = "row"
       /\ (\A l \in m + 1 .. n : tree[l].kind = "row" => tree[l].key # tree[m].key)
       => tab.metrics[tree[m].key] = tree[m].text
  /\ \A k \in DOMAIN tab.bounds : \E m \in 1 .. n : tab.bounds[k] = tree[m]
  /\ \A m \in 1 .. n : tree[m].kind = "probe" =>
       /\ tree[m].key \in DOMAIN tab.bounds
       /\ tree[m].key # "caret" => tab.bounds[tree[m].key] = tree[m]
  /\ "caret" \in DOMAIN tab.bounds <=>
       \E m \in 1 .. n :
         IF tree[m].kind = "row" THEN tree[m].caret # "none" ELSE tree[m].key = "caret"

\* What FrameAssumption says of a tree that begins with the clearing probe.
LEMMA OneClear ==
  ASSUME FrameAssumption, NEW tree \in Trees, tree # <<>>, tree[1].kind = "clear"
  PROVE  /\ tree \in Seq(Item) /\ Len(tree) \in Nat \ {0}
         /\ \A n \in 1 .. Len(tree) : tree[n] \in Item
         /\ tree[1].key = "probe:clear"
         /\ \A n \in 2 .. Len(tree) : tree[n].kind # "clear"
         /\ \A m, n \in 1 .. Len(tree) :
              tree[m].kind # "row" /\ tree[n].kind # "row" /\ m # n
              => tree[m].key # tree[n].key
<1>1. tree \in Seq(Item)
  BY DEF FrameAssumption
<1>2. /\ \A n \in 1 .. Len(tree) : tree[n].kind = "clear" => tree[n].key = "probe:clear"
      /\ \A m, n \in 1 .. Len(tree) :
           tree[m].kind # "row" /\ tree[n].kind # "row" /\ tree[m].key = tree[n].key
           => m = n
  BY DEF FrameAssumption
<1>3. Len(tree) \in Nat \ {0} /\ \A n \in 1 .. Len(tree) : tree[n] \in Item
  BY <1>1
<1>4. 1 \in 1 .. Len(tree)
  BY <1>3
<1>5. ASSUME NEW n \in 2 .. Len(tree) PROVE tree[n].kind # "clear"
  <2>1. n \in 1 .. Len(tree) /\ n # 1
    BY <1>3
  <2> QED BY <1>2, <1>4, <2>1
<1>6. tree[1].key = "probe:clear"
  BY <1>2, <1>4
<1> QED BY <1>1, <1>2, <1>3, <1>5, <1>6

\* The clearing probe leaves nothing of what was there.
LEMMA ClearTabs ==
  ASSUME FrameAssumption, NEW tree \in Trees, tree # <<>>, tree[1].kind = "clear",
         NEW tab
  PROVE  TabsOf(tree, 1, PrepaintItem(tab, tree[1]))
<1> DEFINE new == PrepaintItem(tab, tree[1])
<1>1. tree[1] \in Item /\ tree[1].key = "probe:clear" /\ 1 .. 1 = {1}
  BY OneClear
<1>2. new = [bounds |-> Put(<<>>, tree[1].key, tree[1]), metrics |-> <<>>]
  BY DEF PrepaintItem
<1>3. DOMAIN <<>> = {} /\ <<>> \in Table(Item)
  BY EmptyTable
<1>4. /\ DOMAIN new.metrics = {}
      /\ DOMAIN new.bounds = {"probe:clear"} /\ new.bounds["probe:clear"] = tree[1]
  <2> DEFINE put == Put(<<>>, tree[1].key, tree[1])
  <2>2. /\ DOMAIN put = DOMAIN <<>> \cup {tree[1].key}
        /\ \A z \in DOMAIN <<>> \cup {tree[1].key} :
             put[z] = IF z = tree[1].key THEN tree[1] ELSE <<>>[z]
    BY DEF Put
  <2> HIDE DEF put
  <2>3. DOMAIN put = {"probe:clear"} /\ put["probe:clear"] = tree[1]
    BY <1>1, <1>3, <2>2
  <2> QED BY <1>2, <1>3, <2>3 DEF put
<1> HIDE DEF new
<1>5. DOMAIN new.metrics = {tree[m].key : m \in {k \in 1 .. 1 : tree[k].kind = "row"}}
  BY <1>1, <1>4
<1>6. "caret" \notin DOMAIN new.bounds /\ tree[1].kind # "row" /\ tree[1].key # "caret"
  BY <1>1, <1>4
<1> QED BY <1>1, <1>4, <1>5, <1>6 DEF TabsOf, new

LEMMA ProbeTabs ==
  ASSUME FrameAssumption, NEW tree \in Trees, tree # <<>>, tree[1].kind = "clear",
         NEW n \in 1 .. Len(tree) - 1, tree[n + 1].kind = "probe",
         NEW tab \in Tabs, TabsOf(tree, n, tab)
  PROVE  TabsOf(tree, n + 1, PrepaintItem(tab, tree[n + 1]))
<1> DEFINE item == tree[n + 1]
           new == PrepaintItem(tab, item)
<1>1. /\ Len(tree) \in Nat /\ n \in Nat
      /\ n + 1 \in 1 .. Len(tree) /\ 1 .. n + 1 = 1 .. n \cup {n + 1}
      /\ 1 .. n \subseteq 1 .. Len(tree) /\ n + 1 \notin 1 .. n
  BY OneClear
<1>2. /\ item \in Item
      /\ \A m \in 1 .. n : tree[m].kind # "row" => tree[m].key # item.key
  BY <1>1, OneClear
<1>3. /\ tab.bounds \in Table(Item) /\ item.key \in STRING
      /\ new.metrics = tab.metrics /\ new.bounds = Put(tab.bounds, item.key, item)
  BY <1>2 DEF Tabs, Item, PrepaintItem
<1>4. /\ DOMAIN new.bounds = DOMAIN tab.bounds \cup {item.key}
      /\ \A z \in DOMAIN tab.bounds \cup {item.key} :
           new.bounds[z] = IF z = item.key THEN item ELSE tab.bounds[z]
  <2> DEFINE put == Put(tab.bounds, item.key, item)
  <2>1. /\ DOMAIN put = DOMAIN tab.bounds \cup {item.key}
        /\ \A z \in DOMAIN tab.bounds \cup {item.key} :
             put[z] = IF z = item.key THEN item ELSE tab.bounds[z]
    BY DEF Put
  <2> QED BY <1>3, <2>1
<1> HIDE DEF new
<1>5. DOMAIN new.metrics =
        {tree[m].key : m \in {k \in 1 .. n + 1 : tree[k].kind = "row"}}
  <2>1. {k \in 1 .. n + 1 : tree[k].kind = "row"} = {k \in 1 .. n : tree[k].kind = "row"}
    BY <1>1
  <2> QED BY <1>3, <2>1 DEF TabsOf
<1>6. ASSUME NEW m \in 1 .. n + 1, tree[m].kind = "row",
             \A l \in m + 1 .. n + 1 : tree[l].kind = "row" => tree[l].key # tree[m].key
      PROVE  new.metrics[tree[m].key] = tree[m].text
  <2>1. m \in 1 .. n
    BY <1>1, <1>6
  <2>2. \A l \in m + 1 .. n : l \in m + 1 .. n + 1
    BY <1>1
  <2> QED BY <1>3, <1>6, <2>1, <2>2 DEF TabsOf
<1>7. ASSUME NEW k \in DOMAIN new.bounds
      PROVE  \E m \in 1 .. n + 1 : new.bounds[k] = tree[m]
  BY <1>1, <1>4 DEF TabsOf
<1>8. ASSUME NEW m \in 1 .. n + 1, tree[m].kind = "probe"
      PROVE  /\ tree[m].key \in DOMAIN new.bounds
             /\ tree[m].key # "caret" => new.bounds[tree[m].key] = tree[m]
  <2>1. CASE m = n + 1
    BY <1>4, <2>1
  <2>2. CASE m # n + 1
    <3>1. m \in 1 .. n /\ tree[m].key # item.key
      BY <1>1, <1>2, <1>8, <2>2
    <3> QED BY <1>4, <1>8, <3>1 DEF TabsOf
  <2> QED BY <2>1, <2>2
<1>9. "caret" \in DOMAIN new.bounds <=>
        \E m \in 1 .. n + 1 :
          IF tree[m].kind = "row" THEN tree[m].caret # "none" ELSE tree[m].key = "caret"
  BY <1>1, <1>4 DEF TabsOf
<1> QED BY <1>5, <1>6, <1>7, <1>8, <1>9 DEF TabsOf, new

LEMMA RowTabs ==
  ASSUME FrameAssumption, NEW tree \in Trees, tree # <<>>, tree[1].kind = "clear",
         NEW n \in 1 .. Len(tree) - 1, tree[n + 1].kind = "row",
         NEW tab \in Tabs, TabsOf(tree, n, tab)
  PROVE  TabsOf(tree, n + 1, PrepaintItem(tab, tree[n + 1]))
<1> DEFINE item == tree[n + 1]
           new == PrepaintItem(tab, item)
<1>1. /\ Len(tree) \in Nat /\ n \in Nat
      /\ n + 1 \in 1 .. Len(tree) /\ 1 .. n + 1 = 1 .. n \cup {n + 1}
      /\ 1 .. n \subseteq 1 .. Len(tree) /\ n + 1 \notin 1 .. n
  BY OneClear
<1>2. /\ new.metrics = Put(tab.metrics, item.key, item.text)
      /\ new.bounds = IF item.caret = "none" THEN tab.bounds
                      ELSE Put(tab.bounds, "caret", item)
  BY DEF PrepaintItem
<1>3. /\ DOMAIN new.metrics = DOMAIN tab.metrics \cup {item.key}
      /\ \A z \in DOMAIN tab.metrics \cup {item.key} :
           new.metrics[z] = IF z = item.key THEN item.text ELSE tab.metrics[z]
  <2> DEFINE put == Put(tab.metrics, item.key, item.text)
  <2>1. /\ DOMAIN put = DOMAIN tab.metrics \cup {item.key}
        /\ \A z \in DOMAIN tab.metrics \cup {item.key} :
             put[z] = IF z = item.key THEN item.text ELSE tab.metrics[z]
    BY DEF Put
  <2> QED BY <1>2, <2>1
<1>4. /\ \A z \in DOMAIN new.bounds : z \in DOMAIN tab.bounds \/ z = "caret"
      /\ \A z \in DOMAIN tab.bounds :
           z \in DOMAIN new.bounds /\ (z # "caret" => new.bounds[z] = tab.bounds[z])
      /\ "caret" \in DOMAIN new.bounds <=>
           item.caret # "none" \/ "caret" \in DOMAIN tab.bounds
      /\ "caret" \in DOMAIN new.bounds =>
           \/ new.bounds["caret"] = item
           \/ "caret" \in DOMAIN tab.bounds /\ new.bounds["caret"] = tab.bounds["caret"]
  <2>1. CASE item.caret = "none"
    BY <1>2, <2>1
  <2>2. CASE item.caret # "none"
    <3> DEFINE put == Put(tab.bounds, "caret", item)
    <3>1. /\ DOMAIN put = DOMAIN tab.bounds \cup {"caret"}
          /\ \A z \in DOMAIN tab.bounds \cup {"caret"} :
               put[z] = IF z = "caret" THEN item ELSE tab.bounds[z]
      BY DEF Put
    <3> HIDE DEF put
    <3>2. new.bounds = put
      BY <1>2, <2>2 DEF put
    <3> QED BY <2>2, <3>1, <3>2
  <2> QED BY <2>1, <2>2
<1> HIDE DEF new
<1>5. DOMAIN new.metrics =
        {tree[m].key : m \in {k \in 1 .. n + 1 : tree[k].kind = "row"}}
  <2>1. {k \in 1 .. n + 1 : tree[k].kind = "row"} =
          {k \in 1 .. n : tree[k].kind = "row"} \cup {n + 1}
    BY <1>1
  <2> QED BY <1>3, <2>1 DEF TabsOf
<1>6. ASSUME NEW m \in 1 .. n + 1, tree[m].kind = "row",
             \A l \in m + 1 .. n + 1 : tree[l].kind = "row" => tree[l].key # tree[m].key
      PROVE  new.metrics[tree[m].key] = tree[m].text
  <2>1. CASE m = n + 1
    BY <1>3, <2>1
  <2>2. CASE m # n + 1
    <3>1. m \in 1 .. n /\ n + 1 \in m + 1 .. n + 1
      BY <1>1, <2>2
    <3>2. \A l \in m + 1 .. n : l \in m + 1 .. n + 1
      BY <1>1, <3>1
    <3>3. tab.metrics[tree[m].key] = tree[m].text
      BY <1>6, <3>1, <3>2 DEF TabsOf
    <3>4. tree[m].key \in DOMAIN tab.metrics
      BY <1>6, <3>1 DEF TabsOf
    <3>5. tree[m].key # item.key
      BY <1>6, <3>1
    <3> QED BY <1>3, <3>3, <3>4, <3>5
  <2> QED BY <2>1, <2>2
<1>7. ASSUME NEW k \in DOMAIN new.bounds
      PROVE  \E m \in 1 .. n + 1 : new.bounds[k] = tree[m]
  <2>1. \A z \in DOMAIN tab.bounds : \E m \in 1 .. n : tab.bounds[z] = tree[m]
    BY DEF TabsOf
  <2>2. CASE k = "caret"
    BY <1>1, <1>4, <2>1, <2>2
  <2>3. CASE k # "caret"
    BY <1>1, <1>4, <2>1, <2>3
  <2> QED BY <2>2, <2>3
<1>8. ASSUME NEW m \in 1 .. n + 1, tree[m].kind = "probe"
      PROVE  /\ tree[m].key \in DOMAIN new.bounds
             /\ tree[m].key # "caret" => new.bounds[tree[m].key] = tree[m]
  <2>1. m \in 1 .. n
    BY <1>1, <1>8
  <2>2. /\ tree[m].key \in DOMAIN tab.bounds
        /\ tree[m].key # "caret" => tab.bounds[tree[m].key] = tree[m]
    BY <1>8, <2>1 DEF TabsOf
  <2> QED BY <1>4, <2>2
<1>9. "caret" \in DOMAIN new.bounds <=>
        \E m \in 1 .. n + 1 :
          IF tree[m].kind = "row" THEN tree[m].caret # "none" ELSE tree[m].key = "caret"
  <2>1. "caret" \in DOMAIN tab.bounds <=>
          \E m \in 1 .. n :
            IF tree[m].kind = "row" THEN tree[m].caret # "none" ELSE tree[m].key = "caret"
    BY DEF TabsOf
  <2> QED BY <1>1, <1>4, <2>1
<1> QED BY <1>5, <1>6, <1>7, <1>8, <1>9 DEF TabsOf, new

\* A tree that begins with the clearing probe, once it is prepainted.
LEMMA TreeTabs ==
  ASSUME FrameAssumption, NEW tree \in Trees, tree # <<>>, tree[1].kind = "clear",
         NEW tab \in [0 .. Len(tree) -> Tabs], Prepaints(tree, tab)
  PROVE  TabsOf(tree, Len(tree), tab[Len(tree)])
<1> DEFINE R == {n \in 0 .. Len(tree) : n # 0 => TabsOf(tree, n, tab[n])}
<1>1. /\ Len(tree) \in Nat \ {0}
      /\ \A n \in 1 .. Len(tree) : tree[n].kind \in Kinds
      /\ \A n \in 2 .. Len(tree) : tree[n].kind # "clear"
  BY OneClear DEF Item
<1>2. 0 \in R
  BY <1>1
<1>3. ASSUME NEW n \in 0 .. Len(tree) - 1, n \in R PROVE n + 1 \in R
  <2>1. n + 1 \in 1 .. Len(tree) /\ (n + 1) - 1 = n /\ n \in 0 .. Len(tree)
    BY <1>1
  <2>2. tab[n + 1] = PrepaintItem(tab[n], tree[n + 1]) /\ tab[n] \in Tabs
    BY <2>1 DEF Prepaints
  <2>3. CASE n = 0
    <3>1. TabsOf(tree, 1, PrepaintItem(tab[0], tree[1]))
      BY ClearTabs
    <3> QED BY <2>1, <2>2, <2>3, <3>1
  <2>4. CASE n # 0
    <3>1. /\ n \in 1 .. Len(tree) - 1 /\ n + 1 \in 2 .. Len(tree)
          /\ TabsOf(tree, n, tab[n])
      BY <1>1, <1>3, <2>4
    <3>2. tree[n + 1].kind = "probe" \/ tree[n + 1].kind = "row"
      BY <1>1, <2>1, <3>1 DEF Kinds
    <3>3. TabsOf(tree, n + 1, PrepaintItem(tab[n], tree[n + 1]))
      BY <2>2, <3>1, <3>2, ProbeTabs, RowTabs
    <3> QED BY <2>1, <2>2, <3>3
  <2> QED BY <2>3, <2>4
<1> HIDE DEF R
<1>4. \A n \in 0 .. Len(tree) : n \in R
  BY <1>1, <1>2, <1>3, UpTo
<1>5. Len(tree) \in R /\ Len(tree) # 0
  BY <1>1, <1>4
<1> QED BY <1>5 DEF R

TablesInv ==
  /\ bounds \in Table(Item) /\ metrics \in Table(Seq(Glyphs))
  /\ painted \in Trees \cup {NoTree}
  /\ painted # NoTree /\ painted # <<>> /\ painted[1].kind = "clear"
     => TabsOf(painted, Len(painted), [bounds |-> bounds, metrics |-> metrics])

LEMMA DrawTables ==
  ASSUME FrameAssumption, TypeOK, TablesInv, Draw
  PROVE  TablesInv'
<1>1. /\ committed \in Trees /\ committed \in Seq(Item) /\ painted' = committed
      /\ Prepaint(committed)
  BY DEF FrameAssumption, TypeOK, Draw
<1>2. PICK tab \in [0 .. Len(committed) -> Tabs] :
        /\ Prepaints(committed, tab)
        /\ bounds' = tab[Len(committed)].bounds
        /\ metrics' = tab[Len(committed)].metrics
  BY <1>1, PrepaintIs DEF TablesInv
<1>3. tab[Len(committed)] \in Tabs
  BY <1>1
<1>4. /\ bounds' \in Table(Item) /\ metrics' \in Table(Seq(Glyphs))
      /\ tab[Len(committed)] = [bounds |-> bounds', metrics |-> metrics']
  BY <1>2, <1>3 DEF Tabs
<1>5. ASSUME committed # <<>>, committed[1].kind = "clear"
      PROVE  TabsOf(committed, Len(committed), [bounds |-> bounds', metrics |-> metrics'])
  <2>1. TabsOf(committed, Len(committed), tab[Len(committed)])
    BY <1>1, <1>2, <1>5, TreeTabs
  <2> QED BY <1>4, <2>1
<1> QED BY <1>1, <1>4, <1>5 DEF TablesInv, Table

LEMMA StepKeepsTables ==
  ASSUME FrameAssumption, TypeOK, TablesInv, [Next]_vars
  PROVE  TablesInv'
<1>1. CASE UNCHANGED <<painted, tables>>
  BY <1>1 DEF TablesInv, tables, TabsOf, Table
<1>2. CASE painted' = NoTree /\ UNCHANGED tables
  BY <1>2 DEF TablesInv, tables, Table
<1>3. CASE Draw
  BY <1>3, DrawTables
<1>4. CASE UNCHANGED vars
  BY <1>1, <1>4 DEF vars, tables
<1>5. RunWindow \/ RunBenchmark \/ RetryBenchmark => painted' = NoTree /\ UNCHANGED tables
  BY DEF RunWindow, RunBenchmark, RetryBenchmark, Opened
<1>6. Close \/ Panic \/ Commit \/ Marker \/ Frame \/ CallbacksDone \/ BlinkFrame
        => UNCHANGED <<painted, tables>>
  BY DEF Close, Panic, Commit, Marker, Frame, CallbacksDone, BlinkFrame
<1>7. Tick => UNCHANGED <<painted, tables>>
  BY DEF Tick, TickFirst, TickWarm, TickSample, TickReport, TickStays
<1>8. DrawEarly \/ DrawFrame => Draw
  BY DEF DrawEarly, DrawFrame
<1> QED BY <1>1, <1>2, <1>3, <1>4, <1>5, <1>6, <1>7, <1>8 DEF Next

LEMMA InitTables ==
  ASSUME Init
  PROVE  TablesInv
<1>1. bounds \in Table(Item) /\ metrics \in Table(Seq(Glyphs))
  BY EmptyTable DEF Init
<1> QED BY <1>1 DEF Init, TablesInv

LEMMA TablesPainted ==
  ASSUME FrameAssumption, TablesInv
  PROVE  TablesArePainted
<1> SUFFICES ASSUME painted # NoTree, painted # <<>>, painted[1].kind = "clear"
             PROVE  TablesArePainted
  BY DEF TablesArePainted
<1>1. /\ painted \in Trees /\ painted \in Seq(Item)
      /\ TabsOf(painted, Len(painted), [bounds |-> bounds, metrics |-> metrics])
  BY DEF TablesInv, FrameAssumption
<1>2. DOMAIN painted = 1 .. Len(painted)
  BY <1>1
<1>3. Range(painted) = {painted[n] : n \in 1 .. Len(painted)}
  BY <1>2 DEF Range
<1>4. DOMAIN metrics = {i.key : i \in Items(painted, "row")}
  BY <1>1, <1>3 DEF TabsOf, Items
<1>5. /\ \A k \in DOMAIN bounds : bounds[k] \in Range(painted)
      /\ \A i \in Items(painted, "probe") :
           i.key \in DOMAIN bounds /\ (i.key # "caret" => bounds[i.key] = i)
  BY <1>1, <1>3 DEF TabsOf, Items
<1>6. "caret" \in DOMAIN bounds <=>
        \E i \in Range(painted) :
          IF i.kind = "row" THEN i.caret # "none" ELSE i.key = "caret"
  BY <1>1, <1>3 DEF TabsOf
<1>7. \A n \in 1 .. Len(painted) :
        painted[n].kind = "row"
        /\ (\A m \in n + 1 .. Len(painted) :
             painted[m].kind = "row" => painted[m].key # painted[n].key)
        => metrics[painted[n].key] = painted[n].text
  BY <1>1 DEF TabsOf
<1> QED BY <1>4, <1>5, <1>6, <1>7 DEF TablesArePainted

\* The tables that a pull reads are those of the frame on the screen, whatever
\* was committed since: no row, text, probe or caret of an earlier frame or
\* window is left (lib.rs 3559-3570, 3620-3637, 3726-3737).
THEOREM TablesAreOfTheFrame == Spec => []TablesArePainted
<1>1. FrameInv => TypeOK
  BY DEF FrameInv
<1>2. TablesInv /\ FrameAssumption => TablesArePainted
  BY TablesPainted
<1> QED BY InitFrame, StepKeepsFrame, InitTables, StepKeepsTables, FrameAssumption,
           <1>1, <1>2, PTL DEF Spec

LEMMA RowsHit ==
  ASSUME MetricsAssumption, TablesInv
  PROVE  ClickPutsCaret
<1> SUFFICES ASSUME NEW k \in DOMAIN metrics,
                    NEW x \in -1 .. SumTo(Advance, metrics[k])[Len(metrics[k])] + 1
             PROVE  LET s == metrics[k]
                        i == CharForPosition(s, x)
                    IN  Nearest(s, x, i) /\ (Basic(s) => CaretOffset(s, i) = CharIndexToByte(s, i))
  BY DEF ClickPutsCaret
<1> DEFINE s == metrics[k]
           i == CharForPosition(s, x)
<1>1. s \in Seq(Glyphs)
  BY DEF TablesInv, Table
<1>2. SumTo(Advance, s)[Len(s)] \in Nat
  <2>1. Len(s) \in 0 .. Len(s)
    BY <1>1
  <2> QED BY <1>1, <2>1, EdgesGrow
<1>3. x \in Int
  BY <1>2
<1>4. i \in 0 .. Len(s) /\ Nearest(s, x, i)
  BY <1>1, <1>3, HitIsNearest
<1> QED BY <1>1, <1>4, CaretIsAtCharacter

\* A click in or beside any row of the last frame is taken to the boundary that
\* no other is closer to, and a caret set to the index that was pulled is drawn
\* there: for every font and every text of the application's rows (lib.rs
\* 3891-3929, 3974-4020, gpui-bindings.mbt 416-431).
THEOREM ClicksPutCarets == Spec => []ClickPutsCaret
<1>1. FrameInv => TypeOK
  BY DEF FrameInv
<1>2. TablesInv /\ MetricsAssumption => ClickPutsCaret
  BY RowsHit
<1> QED BY InitFrame, StepKeepsFrame, InitTables, StepKeepsTables, FrameAssumption,
           MetricsAssumption, <1>1, <1>2, PTL DEF Spec

-----------------------------------------------------------------------------
(* The refinement of Redraw.                                               *)

LEMMA TickAsks ==
  ASSUME TypeOK, Tick
  PROVE  Screen!Ask \/ Screen!Closed
<1>1. CASE TickFirst \/ TickWarm \/ TickSample
  BY <1>1 DEF TickFirst, TickWarm, TickSample, Schedule, Refresh, TickStays, Screen!Ask
<1>2. CASE TickReport
  BY <1>2 DEF TickReport, Gone, Screen!Closed
<1> QED BY <1>1, <1>2 DEF Tick

LEMMA FrameStep ==
  ASSUME TypeOK, [Next]_vars
  PROVE  [Screen!Next]_(Screen!vars)
<1>1. CASE RunWindow \/ RunBenchmark \/ RetryBenchmark
  BY <1>1 DEF RunWindow, RunBenchmark, RetryBenchmark, Opened, Refresh, Screen!Open,
              Screen!Next
<1>2. CASE Close \/ Panic
  BY <1>2 DEF Close, Panic, Gone, Screen!Closed, Screen!Next
<1>3. CASE Commit \/ BlinkFrame
  BY <1>3 DEF Commit, BlinkFrame, Refresh, Screen!Ask, Screen!Next
<1>4. CASE DrawEarly \/ DrawFrame
  BY <1>4 DEF DrawEarly, DrawFrame, Draw, Screen!Draw, Screen!Next
<1>5. CASE Tick
  BY <1>5, TickAsks DEF Screen!Next
<1>6. CASE Frame \/ CallbacksDone \/ UNCHANGED vars
  BY <1>6 DEF Frame, CallbacksDone, vars, Screen!vars
<1>7. CASE Marker
  <2>1. CASE dirty
    BY <1>7, <2>1 DEF Marker, Screen!Ask, Screen!Next
  <2>2. CASE ~dirty
    BY <1>7, <2>2 DEF Marker, Screen!Slip, Screen!Next
  <2> QED BY <2>1, <2>2
<1> QED BY <1>1, <1>2, <1>3, <1>4, <1>5, <1>6, <1>7 DEF Next

\* Frames and the benchmark's loop implement Redraw: whatever a handler or the
\* benchmark's action commits, before or in the middle of a frame, the window is
\* owed a frame until one shows it (lib.rs 2447-2546, 4475-4516), but for what the
\* marker's handler commits (4413).
THEOREM FramesImplementRedraw == Spec => ImplementsRedraw
<1>1. Init => Screen!Init
  BY DEF Init, Screen!Init, Screen!UpToDate
<1>2. FrameInv => TypeOK
  BY DEF FrameInv
<1> QED BY InitFrame, StepKeepsFrame, FrameAssumption, FrameStep, <1>1, <1>2,
           PTL DEF Spec, ImplementsRedraw, Screen!Spec
=============================================================================
