--------------------------- MODULE AsyncInjection ---------------------------
(***************************************************************************)
(* Asynchronous event injection (gpui-sys/src/lib.rs 166-428): producers on *)
(* any thread call gpui_post_event, the drain pump of the running window   *)
(* moves the entries onto the main thread and dispatches them, and windows *)
(* come and go (run_window, its panics and the Wayland->X11 retry).        *)
(*                                                                         *)
(* Every lock region is one step, and everything between two regions is a  *)
(* place where the other threads may run:                                  *)
(*   producer  Post -> GetOrInit -> Push -> Wake                           *)
(*   main      RunWindow -> InstallGet -> InstallSwap | InstallSet         *)
(*             -> OpenWindow -> RunReturns, or RunPanics on the way        *)
(*   pump      PumpStart -> (Pop -> Dispatch | Drop)* -> PumpIdle          *)
(*             -> PumpWake ... | PumpExit, only while the event loop runs  *)
(* The payload is opaque to the library, so an entry is identified by the  *)
(* call that posted it.                                                    *)
(***************************************************************************)
EXTENDS Integers, Sequences, SequencesExt

CONSTANTS
  Producers,    \* threads that post
  Views,        \* non-negative view ids
  BadView,      \* any negative view id
  NoCall,       \* a producer outside gpui_post_event
  MaxEntries,   \* INJECT_QUEUE_MAX_ENTRIES
  MaxPosts,     \* bound: calls each producer makes
  MaxRuns       \* bound: calls of gpui_run_window

ASSUME BoundsAssumption ==
  /\ MaxEntries \in Nat \ {0}
  /\ MaxPosts \in Nat
  /\ MaxRuns \in Nat

ASSUME BadViewAssumption == BadView \notin Views

VARIABLES
  \* The INJECT cell and its two mutexes.
  injectSet,    \* INJECT holds a queue
  entries,      \* InjectQueue.entries
  armed,        \* wake_tx is connected to the receiver of the live pump
  wakes,        \* units buffered in that pump's channel
  \* Producers.
  pc,           \* where in gpui_post_event each producer is
  call,         \* the entry it is posting
  posts,        \* calls it has made
  \* The main thread.
  main,         \* where in run_window_with_fallback / run_window it is
  sawQueue,     \* INJECT.get() returned Some in install_inject_queue
  wayland,      \* WAYLAND_DISPLAY is set (on Linux)
  runs,         \* calls of gpui_run_window
  trees,        \* views whose VIEWS slot holds a committed tree
  pump,         \* state of the live pump's future
  held,         \* the entry drain_injected_events has popped, if any
  \* History.
  accepted,     \* entries, in the order they were pushed
  taken,        \* entries, in the order the pump disposed of them
  delivered,    \* those it dispatched as EVENT_ASYNC
  okayed,       \* those whose call returned GPUI_STATUS_OK
  owed          \* those whose view had a tree when they were pushed

queueVars    == <<injectSet, entries, armed, wakes>>
producerVars == <<pc, call, posts>>
mainVars     == <<main, sawQueue, wayland, runs>>
pumpVars     == <<pump, held>>
history      == <<accepted, taken, delivered, okayed, owed>>
vars == <<queueVars, producerVars, mainVars, trees, pumpVars, history>>

Entry == [view : Views, by : Producers, n : 1 .. MaxPosts]

-----------------------------------------------------------------------------
Init ==
  /\ injectSet = FALSE /\ entries = <<>> /\ armed = FALSE /\ wakes = 0
  /\ pc = [p \in Producers |-> "idle"]
  /\ call = [p \in Producers |-> NoCall]
  /\ posts = [p \in Producers |-> 0]
  /\ main = "idle" /\ sawQueue = FALSE /\ wayland \in BOOLEAN /\ runs = 0
  /\ trees = {}
  /\ pump = "none" /\ held = <<>>
  /\ accepted = <<>> /\ taken = <<>>
  /\ delivered = {} /\ okayed = {} /\ owed = {}

-----------------------------------------------------------------------------
(* gpui_post_event, on thread p.                                           *)

\* A negative view, a negative or oversized length, or a null pointer with a
\* length returns before the queue is touched.  "big" stands for all of the
\* length and pointer errors.
ValidPost(view, size) == view # BadView /\ size = "fits"

Post(p, view, size) ==
  /\ pc[p] = "idle"
  /\ posts[p] < MaxPosts
  /\ posts' = [posts EXCEPT ![p] = @ + 1]
  /\ \/ /\ ValidPost(view, size)
        /\ pc' = [pc EXCEPT ![p] = "init"]
        /\ call' = [call EXCEPT ![p] = [view |-> view, by |-> p, n |-> posts[p] + 1]]
     \/ /\ ~ValidPost(view, size)
        /\ UNCHANGED <<pc, call>>
  /\ UNCHANGED <<queueVars, mainVars, trees, pumpVars, history>>

\* INJECT.get_or_init: a queue created here has a disconnected sender.
GetOrInit(p) ==
  /\ pc[p] = "init"
  /\ injectSet' = TRUE
  /\ pc' = [pc EXCEPT ![p] = "push"]
  /\ UNCHANGED <<entries, armed, wakes, call, posts, mainVars, trees, pumpVars, history>>

\* Mutant of Push: the capacity test is off by one.
PushPastCapacity(p) ==
  /\ pc[p] = "push"
  /\ Len(entries) <= MaxEntries
  /\ entries' = Append(entries, call[p])
  /\ pc' = [pc EXCEPT ![p] = "wake"]
  /\ accepted' = Append(accepted, call[p])
  /\ owed' = IF call[p].view \in trees THEN owed \union {call[p]} ELSE owed
  /\ UNCHANGED <<injectSet, armed, wakes, call, posts, mainVars, trees, pumpVars,
                 taken, delivered, okayed>>

\* The capacity test and the push are one region of the entries lock.
Push(p) ==
  /\ pc[p] = "push"
  /\ Len(entries) < MaxEntries
  /\ entries' = Append(entries, call[p])
  /\ pc' = [pc EXCEPT ![p] = "wake"]
  /\ accepted' = Append(accepted, call[p])
  /\ owed' = IF call[p].view \in trees THEN owed \union {call[p]} ELSE owed
  /\ UNCHANGED <<injectSet, armed, wakes, call, posts, mainVars, trees, pumpVars,
                 taken, delivered, okayed>>

\* Mutant of QueueFull: a full queue is reported as OK.
QueueFullSaysOk(p) ==
  /\ pc[p] = "push"
  /\ Len(entries) >= MaxEntries
  /\ pc' = [pc EXCEPT ![p] = "idle"]
  /\ call' = [call EXCEPT ![p] = NoCall]
  /\ okayed' = okayed \union {call[p]}
  /\ UNCHANGED <<queueVars, posts, mainVars, trees, pumpVars, accepted, taken, delivered, owed>>

QueueFull(p) ==
  /\ pc[p] = "push"
  /\ Len(entries) >= MaxEntries
  /\ pc' = [pc EXCEPT ![p] = "idle"]
  /\ call' = [call EXCEPT ![p] = NoCall]
  /\ UNCHANGED <<queueVars, posts, mainVars, trees, pumpVars, history>>

\* Mutant of Wake: only the entry that made the queue non-empty is announced.
WakeFirstOnly(p) ==
  /\ pc[p] = "wake"
  /\ wakes' = IF armed /\ Len(entries) = 1 THEN wakes + 1 ELSE wakes
  /\ pc' = [pc EXCEPT ![p] = "idle"]
  /\ call' = [call EXCEPT ![p] = NoCall]
  /\ okayed' = okayed \union {call[p]}
  /\ UNCHANGED <<injectSet, entries, armed, posts, mainVars, trees, pumpVars,
                 accepted, taken, delivered, owed>>

\* unbounded_send on whatever sender is installed now; a send that fails is
\* ignored and the call still returns OK.
Wake(p) ==
  /\ pc[p] = "wake"
  /\ wakes' = IF armed THEN wakes + 1 ELSE wakes
  /\ pc' = [pc EXCEPT ![p] = "idle"]
  /\ call' = [call EXCEPT ![p] = NoCall]
  /\ okayed' = okayed \union {call[p]}
  /\ UNCHANGED <<injectSet, entries, armed, posts, mainVars, trees, pumpVars,
                 accepted, taken, delivered, owed>>

-----------------------------------------------------------------------------
(* The main thread around the event loop.                                  *)

\* gpui_build_tree before a window runs.
CommitTree(v) ==
  /\ main = "idle"
  /\ v \notin trees
  /\ trees' = trees \union {v}
  /\ UNCHANGED <<queueVars, producerVars, mainVars, pumpVars, history>>

RunWindow ==
  /\ main = "idle"
  /\ runs < MaxRuns
  /\ runs' = runs + 1
  /\ main' = "entered"
  /\ UNCHANGED <<queueVars, producerVars, sawQueue, wayland, trees, pumpVars, history>>

\* install_inject_queue reads the cell ...
InstallGet ==
  /\ main = "entered"
  /\ sawQueue' = injectSet
  /\ main' = "install"
  /\ UNCHANGED <<queueVars, producerVars, wayland, runs, trees, pumpVars, history>>

\* Mutant of InstallSwap: a new window starts with a new queue.
InstallFresh ==
  /\ main = "install"
  /\ sawQueue
  /\ armed' = TRUE
  /\ wakes' = 0
  /\ entries' = <<>>
  /\ pump' = "spawned"
  /\ main' = "opening"
  /\ UNCHANGED <<injectSet, producerVars, sawQueue, wayland, runs, trees, held, history>>

\* ... and on Some swaps the sender under the wake_tx lock; run_window spawns
\* the pump with the new receiver.
InstallSwap ==
  /\ main = "install"
  /\ sawQueue
  /\ armed' = TRUE
  /\ wakes' = 0
  /\ pump' = "spawned"
  /\ main' = "opening"
  /\ UNCHANGED <<injectSet, entries, producerVars, sawQueue, wayland, runs, trees,
                 held, history>>

\* ... and on None sets the cell.  If a producer created the queue in between,
\* set returns Err and the new sender is dropped with it, while the receiver
\* still goes to the pump.
InstallSet ==
  /\ main = "install"
  /\ ~sawQueue
  /\ injectSet' = TRUE
  /\ armed' = ~injectSet
  /\ wakes' = 0
  /\ pump' = "spawned"
  /\ main' = "opening"
  /\ UNCHANGED <<entries, producerVars, sawQueue, wayland, runs, trees, held, history>>

\* open_window and register_view succeed; the loop starts to run the spawned
\* tasks once the launch callback returns.
OpenWindow ==
  /\ main = "opening"
  /\ main' = "running"
  /\ UNCHANGED <<queueVars, producerVars, sawQueue, wayland, runs, trees, pumpVars, history>>

\* The pump's future dies with its App, and its receiver with it.
DropPump ==
  /\ pump' = "none"
  /\ armed' = FALSE
  /\ wakes' = 0

\* Neither a return nor a panic interrupts a drain: drain_injected_events runs
\* to completion on the main thread.
RunReturns ==
  /\ main = "running"
  /\ pump # "draining"
  /\ DropPump
  /\ main' = "idle"
  /\ UNCHANGED <<injectSet, entries, producerVars, sawQueue, wayland, runs, trees,
                 held, history>>

\* A panic of the windowing code unwinds out of run_window.  Under Wayland the
\* variable is cleared and run_window is entered once more.
RunPanics ==
  /\ main \in {"entered", "opening", "running"}
  /\ pump # "draining"
  /\ DropPump
  /\ wayland' = FALSE
  /\ main' = IF wayland THEN "entered" ELSE "idle"
  /\ UNCHANGED <<injectSet, entries, producerVars, sawQueue, runs, trees, held, history>>

-----------------------------------------------------------------------------
(* spawn_drain_pump and drain_injected_events, on the main thread.         *)

\* Mutant of PumpStart: the pump waits for a wake before its first drain.
PumpStartWaiting ==
  /\ main = "running"
  /\ pump = "spawned"
  /\ pump' = "waiting"
  /\ UNCHANGED <<queueVars, producerVars, mainVars, trees, held, history>>

PumpStart ==
  /\ main = "running"
  /\ pump = "spawned"
  /\ pump' = "draining"
  /\ UNCHANGED <<queueVars, producerVars, mainVars, trees, held, history>>

\* Mutant of Pop: the newest entry first.
PopNewest ==
  /\ pump = "draining"
  /\ held = <<>>
  /\ entries # <<>>
  /\ held' = <<Last(entries)>>
  /\ entries' = Front(entries)
  /\ UNCHANGED <<injectSet, armed, wakes, producerVars, mainVars, trees, pump, history>>

Pop ==
  /\ pump = "draining"
  /\ held = <<>>
  /\ entries # <<>>
  /\ held' = <<Head(entries)>>
  /\ entries' = Tail(entries)
  /\ UNCHANGED <<injectSet, armed, wakes, producerVars, mainVars, trees, pump, history>>

\* dispatch_injected: the handler may commit trees while it runs.
Dispatch(built) ==
  /\ held # <<>>
  /\ held[1].view \in trees
  /\ held' = <<>>
  /\ taken' = Append(taken, held[1])
  /\ delivered' = delivered \union {held[1]}
  /\ trees' = trees \union built
  /\ UNCHANGED <<queueVars, producerVars, mainVars, pump, accepted, okayed, owed>>

\* Mutant of Drop: entries are dropped without looking at VIEWS.
DropAny ==
  /\ held # <<>>
  /\ held' = <<>>
  /\ taken' = Append(taken, held[1])
  /\ UNCHANGED <<queueVars, producerVars, mainVars, trees, pump, accepted, delivered,
                 okayed, owed>>

\* No committed tree: the entry is dropped.
Drop ==
  /\ held # <<>>
  /\ held[1].view \notin trees
  /\ held' = <<>>
  /\ taken' = Append(taken, held[1])
  /\ UNCHANGED <<queueVars, producerVars, mainVars, trees, pump, accepted, delivered,
                 okayed, owed>>

\* pop_injected returned None: await the channel.
PumpIdle ==
  /\ pump = "draining"
  /\ held = <<>>
  /\ entries = <<>>
  /\ pump' = "waiting"
  /\ UNCHANGED <<queueVars, producerVars, mainVars, trees, held, history>>

PumpWake ==
  /\ main = "running"
  /\ pump = "waiting"
  /\ wakes > 0
  /\ wakes' = wakes - 1
  /\ pump' = "draining"
  /\ UNCHANGED <<injectSet, entries, armed, producerVars, mainVars, trees, held, history>>

\* Nothing buffered and no sender left: next() yields None.
PumpExit ==
  /\ main = "running"
  /\ pump = "waiting"
  /\ wakes = 0
  /\ ~armed
  /\ pump' = "exited"
  /\ UNCHANGED <<queueVars, producerVars, mainVars, trees, held, history>>

-----------------------------------------------------------------------------
ProducerStep(p) == GetOrInit(p) \/ Push(p) \/ QueueFull(p) \/ Wake(p)

PumpStep ==
  \/ PumpStart \/ Pop \/ Drop \/ PumpIdle \/ PumpWake \/ PumpExit
  \/ \E built \in SUBSET Views : Dispatch(built)

MainStep ==
  \/ RunWindow \/ InstallGet \/ InstallSwap \/ InstallSet \/ OpenWindow
  \/ RunReturns \/ RunPanics
  \/ \E v \in Views : CommitTree(v)

Next ==
  \/ \E p \in Producers :
       \/ ProducerStep(p)
       \/ \E view \in Views \union {BadView}, size \in {"fits", "big"} : Post(p, view, size)
  \/ PumpStep
  \/ MainStep

Spec == Init /\ [][Next]_vars

\* Threads inside gpui_post_event keep running, and the foreground executor
\* keeps polling a runnable future.  Nothing obliges anyone to post, or to
\* open or close a window.
Fairness ==
  /\ \A p \in Producers : WF_vars(ProducerStep(p))
  /\ WF_vars(PumpStep)

FairSpec == Spec /\ Fairness

-----------------------------------------------------------------------------
Types ==
  /\ injectSet \in BOOLEAN /\ armed \in BOOLEAN /\ wakes \in Nat
  /\ entries \in Seq(Entry)
  /\ pc \in [Producers -> {"idle", "init", "push", "wake"}]
  /\ call \in [Producers -> Entry \union {NoCall}]
  /\ \A p \in Producers : pc[p] # "idle" => call[p] \in Entry
  /\ posts \in [Producers -> 0 .. MaxPosts]
  /\ main \in {"idle", "entered", "install", "opening", "running"}
  /\ sawQueue \in BOOLEAN /\ wayland \in BOOLEAN
  /\ runs \in 0 .. MaxRuns
  /\ trees \in SUBSET Views
  /\ pump \in {"none", "spawned", "draining", "waiting", "exited"}
  /\ held \in Seq(Entry) /\ Len(held) <= 1
  /\ accepted \in Seq(Entry) /\ taken \in Seq(Entry)
  /\ delivered \in SUBSET Entry /\ okayed \in SUBSET Entry /\ owed \in SUBSET Entry

\* However the producers' capacity tests and pushes interleave (303-308).
Bounded == Len(entries) <= MaxEntries

\* Every variable keeps its type, the queue never exceeds
\* INJECT_QUEUE_MAX_ENTRIES, and the drain holds at most one entry (lib.rs
\* 303-308, 396-411).
TypeOK == Types /\ Bounded

\* Entries leave in the order they were pushed, none lost, none twice, across
\* drains, windows that close, panics and retries (lib.rs 192-210, 396-411).
ExactlyOnceInOrder == accepted = taken \o held \o entries

\* A call that returned OK has its entry in the queue's history, and an entry
\* gets there only through a call that returns OK (lib.rs 264-319).
OkMeansAccepted ==
  ToSet(accepted) = okayed \union {call[p] : p \in {q \in Producers : pc[q] = "wake"}}

\* A pump asleep on a connected channel with work queued has a wake buffered,
\* or a producer on its way to send one (lib.rs 192-203): no wake is lost.
NoLostWake ==
  pump = "waiting" /\ armed /\ entries # <<>> =>
    wakes > 0 \/ \E p \in Producers : pc[p] = "wake"

\* An entry posted to a view that already had a tree is dispatched when its
\* turn comes, never dropped (lib.rs 391-405).
OwedIsDelivered == \A e \in ToSet(taken) : e \in owed => e \in delivered

\* What run_window's comment says of the pump (lib.rs 415-417): it exits when
\* the window is closed, so never under a window that still runs.
PumpLivesWhileWindowRuns == main = "running" => pump # "exited"

\* Where that comment fails, and only there (lib.rs 214-230): a window whose
\* install_inject_queue found the queue in INJECT keeps a connected pump until
\* it closes.  A pump exits under a running window only if a producer created
\* the queue between INJECT.get() and INJECT.set().
SeenQueueKeepsPump ==
  main \in {"opening", "running"} =>
    /\ injectSet
    /\ pump # "none"
    /\ pump = "exited" => ~sawQueue /\ ~armed
    /\ sawQueue => armed

\* Entries of one thread are accepted, and so dispatched or dropped, in the
\* order of its calls, none of them twice, whatever the other threads, the
\* refusals of a full queue and the windows do (lib.rs 264-319, 396-411).
InCallOrder(s) ==
  \A i, j \in DOMAIN s : i < j /\ s[i].by = s[j].by => s[i].n < s[j].n

ThreadOrder == InCallOrder(accepted) /\ InCallOrder(taken)

\* While a window with a connected pump keeps running, everything accepted is
\* eventually handled, and the backlog of the time before it too.
BacklogDrains ==
  <>[](main = "running" /\ armed) => <>[](entries = <<>> /\ held = <<>>)

\* What the invariants above rest on.  A call in progress carries its caller
\* and its number, and until it pushes no accepted entry has that number; an
\* entry owed to a view stays owed because trees are never taken away.
CallsNumbered ==
  \A p \in Producers : pc[p] # "idle" => call[p].by = p /\ call[p].n = posts[p]

AcceptedNumbered ==
  \A e \in ToSet(accepted) :
    /\ e.n <= posts[e.by]
    /\ pc[e.by] \in {"init", "push"} => e.n < posts[e.by]

OwedHasTree == \A e \in owed : e.view \in trees

\* A pump exists from the install to the end of its window, and runs only once
\* the event loop does; its sender is connected for no longer.
PumpOfWindow ==
  /\ main \in {"install", "opening", "running"} /\ sawQueue => injectSet
  /\ main \in {"opening", "running"} <=> pump # "none"
  /\ main = "opening" => pump = "spawned"
  /\ armed => pump # "none"
  /\ held # <<>> => pump = "draining"

IInv ==
  /\ Types /\ Bounded /\ ExactlyOnceInOrder /\ OkMeansAccepted /\ NoLostWake
  /\ OwedIsDelivered /\ CallsNumbered /\ AcceptedNumbered /\ OwedHasTree

\* Injection implements the bounded FIFO: one more entry than the queue holds
\* may be pending, the one the drain has in hand.
Fifo == INSTANCE InjectFifo WITH
          Event <- Entry, Capacity <- MaxEntries + 1,
          pending <- held \o entries, handled <- taken

ImplementsFifo == Fifo!Spec
=============================================================================
