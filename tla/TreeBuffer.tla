----------------------------- MODULE TreeBuffer -----------------------------
(***************************************************************************)
(* gpui_build_tree and gpui_update_text (gpui-sys/src/lib.rs 849-2080): the *)
(* stack machine that decodes one command buffer into an arena of nodes,   *)
(* the walk that validates the result, the swap into VIEWS, and the patch  *)
(* of a committed tree.                                                    *)
(*                                                                         *)
(* A buffer is any sequence of commands: each Decode step picks the next   *)
(* one, and the buffer may end, or stop making sense, anywhere.  A text's  *)
(* content is the set of its UTF-8 character boundaries, 0 and the length  *)
(* included, which is all that is_char_boundary and len() look at.         *)
(***************************************************************************)
EXTENDS CommandFormat

CONSTANTS
  Views, Keys,
  NoKey,        \* a div without OP_SET_KEY
  NoTree,       \* a VIEWS slot that is None
  Contents,     \* bound: the texts the buffer may carry, as boundary sets
  Ranges,       \* bound: <<start, len>> of the text runs it may carry
  Carets,       \* bound: caret offsets it may carry
  NoCaret,
  MaxDepth,     \* MAX_TREE_DEPTH
  MaxNodes,     \* bound: nodes in one buffer
  MaxRuns,      \* bound: runs on one text
  MaxCalls      \* bound: FFI calls

ASSUME TreeAssumption ==
  /\ MaxDepth \in Nat \ {0} /\ MaxNodes \in Nat /\ MaxRuns \in Nat /\ MaxCalls \in Nat
  /\ Contents \subseteq SUBSET Nat /\ Ranges \subseteq Nat \X Nat /\ Carets \subseteq Nat

VARIABLES
  phase,        \* "idle" | "decode" | "walk": progress of one build call
  target,       \* the view being built
  nodes,        \* the arena; slot i holds node i until it is moved
  moved,        \* slots whose node was taken by OP_ADD_CHILD
  stack,        \* handles, top last
  root,         \* slot named by the last OP_SET_ROOT, 0 if none
  walk,         \* the validation walk's own stack
  seen,         \* keys met by the walk
  visited,      \* nodes met by the walk
  result,       \* status of the last call
  trees,        \* VIEWS
  patched,      \* history: views patched since their last build
  calls

staging == <<nodes, moved, stack, root, walk, seen, visited>>
vars == <<phase, target, staging, result, trees, patched, calls>>

Div     == [kind |-> "div", key |-> NoKey, content |-> {}, runs |-> <<>>,
            caret |-> NoCaret, kids |-> <<>>]
Text(c) == [Div EXCEPT !.kind = "text", !.content = c]
Leaf    == [Div EXCEPT !.kind = "leaf"]

Init ==
  /\ phase = "idle" /\ target \in Views
  /\ nodes = <<>> /\ moved = {} /\ stack = <<>> /\ root = 0
  /\ walk = <<>> /\ seen = {} /\ visited = {}
  /\ result = "none"
  /\ trees = [v \in Views |-> NoTree] /\ patched = {} /\ calls = 0

-----------------------------------------------------------------------------
\* Mutant of Discard: the set of moved slots outlives the arena.
DiscardKeepingMoved ==
  /\ nodes' = <<>> /\ moved' = moved /\ stack' = <<>> /\ root' = 0
  /\ walk' = <<>> /\ seen' = {} /\ visited' = {}

\* Every return drops the staging state.
Discard ==
  /\ nodes' = <<>> /\ moved' = {} /\ stack' = <<>> /\ root' = 0
  /\ walk' = <<>> /\ seen' = {} /\ visited' = {}

Fail(status) ==
  /\ phase' = "idle"
  /\ result' = status
  /\ Discard
  /\ UNCHANGED <<target, trees, patched, calls>>

Continue == UNCHANGED <<phase, target, walk, seen, visited, result, trees, patched, calls>>

BeginBuild(v) ==
  /\ phase = "idle"
  /\ calls < MaxCalls
  /\ calls' = calls + 1
  /\ phase' = "decode"
  /\ target' = v
  /\ result' = "none"
  /\ UNCHANGED <<staging, trees, patched>>

\* The header is wrong or the opcode is unknown; or a command's operand is cut
\* short, not finite, out of its enumeration, or a flag that is unknown.
MalformedStatuses ==
  {"BAD_BUFFER_VERSION", "UNKNOWN_OPCODE"} \union UNION {Faults(op) : op \in DOMAIN Reads}

Malformed(status) ==
  /\ phase = "decode"
  /\ Fail(status)

PushNode(n) ==
  /\ phase = "decode"
  /\ Len(nodes) < MaxNodes
  /\ nodes' = Append(nodes, n)
  /\ stack' = Append(stack, Len(nodes) + 1)
  /\ UNCHANGED <<moved, root>>
  /\ Continue

OpDiv     == PushNode(Div)
OpText(c) == PushNode(Text(c))
OpLeaf    == PushNode(Leaf)    \* OP_TEXT_INPUT and OP_IMAGE

Top == Last(stack)

\* What a command that works on the top node of a given kind finds.
TopStatus(kind) ==
  CASE stack = <<>>              -> "INVALID_HANDLE"
    [] stack # <<>> /\ Top \in moved -> "NODE_ABSENT"
    [] stack # <<>> /\ Top \notin moved /\ nodes[Top].kind # kind -> "WRONG_NODE_KIND"
    [] OTHER                     -> "OK"

OnTop(kind, update(_)) ==
  /\ phase = "decode"
  /\ IF TopStatus(kind) = "OK"
     THEN /\ nodes' = [nodes EXCEPT ![Top] = update(@)]
          /\ UNCHANGED <<moved, stack, root>>
          /\ Continue
     ELSE Fail(TopStatus(kind))

OpSetKey(k) == OnTop("div", LAMBDA n : [n EXCEPT !.key = k])

\* Any of the Setters; no style is kept.
OpSetStyle == OnTop("div", LAMBDA n : n)

RunEnd(r) == r[1] + r[2]

\* Mutant of RunFits: the end of a run is checked against the length only.
RunFitsByLength(r, n) ==
  /\ r[1] \in n.content
  /\ \E b \in n.content : RunEnd(r) <= b
  /\ n.runs # <<>> => RunEnd(Last(n.runs)) <= r[1]

RunFits(r, n) ==
  /\ r[1] \in n.content
  /\ RunEnd(r) \in n.content
  /\ n.runs # <<>> => RunEnd(Last(n.runs)) <= r[1]

OpTextRun(r) ==
  /\ TopStatus("text") = "OK" => Len(nodes[Top].runs) < MaxRuns
  /\ IF TopStatus("text") = "OK" /\ ~RunFits(r, nodes[Top])
     THEN phase = "decode" /\ Fail("INVALID_TEXT_RUN")
     ELSE OnTop("text", LAMBDA n : [n EXCEPT !.runs = Append(@, r)])

OpSetTextRow(offset) ==
  IF TopStatus("text") = "OK" /\ offset # NoCaret /\ offset \notin nodes[Top].content
  THEN phase = "decode" /\ Fail("INVALID_TEXT_RUN")
  ELSE OnTop("text", LAMBDA n : [n EXCEPT !.caret = offset])

\* OP_ADD_CHILD pops the child, then the parent, and pushes the parent back.
AddChildStatus ==
  IF Len(stack) < 2 THEN "INVALID_HANDLE"
  ELSE LET child == stack[Len(stack)]
           parent == stack[Len(stack) - 1]
       IN  CASE parent = child -> "INVALID_HANDLE"
             [] parent # child /\ parent \in moved -> "NODE_ABSENT"
             [] parent # child /\ parent \notin moved /\ nodes[parent].kind # "div"
                  -> "WRONG_NODE_KIND"
             [] parent # child /\ parent \notin moved /\ nodes[parent].kind = "div"
                  /\ child \in moved -> "NODE_ABSENT"
             [] OTHER -> "OK"

\* Mutant of OpAddChild: the child's handle stays on the stack.
AddChildKeepingHandle ==
  /\ phase = "decode"
  /\ IF AddChildStatus = "OK"
     THEN /\ nodes' = [nodes EXCEPT ![stack[Len(stack) - 1]].kids = Append(@, Top)]
          /\ moved' = moved \union {Top}
          /\ UNCHANGED <<stack, root>>
          /\ Continue
     ELSE Fail(AddChildStatus)

OpAddChild ==
  /\ phase = "decode"
  /\ IF AddChildStatus = "OK"
     THEN /\ nodes' = [nodes EXCEPT ![stack[Len(stack) - 1]].kids = Append(@, Top)]
          /\ moved' = moved \union {Top}
          /\ stack' = Front(stack)
          /\ UNCHANGED root
          /\ Continue
     ELSE Fail(AddChildStatus)

OpSetRoot ==
  /\ phase = "decode"
  /\ IF stack = <<>> THEN Fail("INVALID_HANDLE")
     ELSE IF Top \in moved THEN Fail("NODE_ABSENT")
     ELSE /\ root' = Top
          /\ stack' = Front(stack)
          /\ UNCHANGED <<nodes, moved>>
          /\ Continue

-----------------------------------------------------------------------------
(* The end of the buffer: validate, then swap.                             *)

\* Mutant of EndOfBuffer: the tree is committed before it is validated.
CommitBeforeWalk ==
  /\ phase = "decode"
  /\ IF root = 0 THEN Fail("NO_ROOT")
     ELSE IF root \in moved THEN Fail("NODE_ABSENT")
     ELSE /\ phase' = "walk"
          /\ walk' = <<[node |-> root, depth |-> 1]>>
          /\ trees' = [trees EXCEPT ![target] = [root |-> root, nodes |-> nodes]]
          /\ UNCHANGED <<target, nodes, moved, stack, root, seen, visited, result,
                         patched, calls>>

EndOfBuffer ==
  /\ phase = "decode"
  /\ IF root = 0 THEN Fail("NO_ROOT")
     ELSE IF root \in moved THEN Fail("NODE_ABSENT")
     ELSE /\ phase' = "walk"
          /\ walk' = <<[node |-> root, depth |-> 1]>>
          /\ UNCHANGED <<target, nodes, moved, stack, root, seen, visited, result, trees,
                         patched, calls>>

\* Mutant of Visit: a depth limit off by one.
VisitOneTooDeep ==
  /\ phase = "walk"
  /\ walk # <<>>
  /\ LET at == Last(walk)
         n == nodes[at.node]
     IN  IF at.depth > MaxDepth + 1 THEN Fail("DEPTH_EXCEEDED")
         ELSE IF n.key # NoKey /\ n.key \in seen THEN Fail("DUPLICATE_KEY")
         ELSE /\ seen' = IF n.key = NoKey THEN seen ELSE seen \union {n.key}
              /\ visited' = visited \union {at.node}
              /\ walk' = Front(walk) \o
                   [i \in DOMAIN n.kids |-> [node |-> n.kids[i], depth |-> at.depth + 1]]
              /\ UNCHANGED <<phase, target, nodes, moved, stack, root, result, trees,
                             patched, calls>>

\* One iteration: the depth is tested before the kind and the key.
Visit ==
  /\ phase = "walk"
  /\ walk # <<>>
  /\ LET at == Last(walk)
         n == nodes[at.node]
     IN  IF at.depth > MaxDepth THEN Fail("DEPTH_EXCEEDED")
         ELSE IF n.key # NoKey /\ n.key \in seen THEN Fail("DUPLICATE_KEY")
         ELSE /\ seen' = IF n.key = NoKey THEN seen ELSE seen \union {n.key}
              /\ visited' = visited \union {at.node}
              /\ walk' = Front(walk) \o
                   [i \in DOMAIN n.kids |-> [node |-> n.kids[i], depth |-> at.depth + 1]]
              /\ UNCHANGED <<phase, target, nodes, moved, stack, root, result, trees,
                             patched, calls>>

Swap ==
  /\ phase = "walk"
  /\ walk = <<>>
  /\ trees' = [trees EXCEPT ![target] = [root |-> root, nodes |-> nodes]]
  /\ patched' = patched \ {target}
  /\ phase' = "idle"
  /\ result' = "OK"
  /\ Discard
  /\ UNCHANGED <<target, calls>>

-----------------------------------------------------------------------------
(* Shape of a committed tree.                                              *)

\* Level d of the tree; every node has a larger slot than its parent, so there
\* are no more levels than slots.
Levels(t) ==
  LET level[d \in DOMAIN t.nodes] ==
        IF d = 1 THEN {t.root}
        ELSE UNION {ToSet(t.nodes[i].kids) : i \in level[d - 1]}
  IN  level

Members(t) == UNION {Levels(t)[d] : d \in DOMAIN t.nodes}

\* gpui_update_text: the keyed div's first child, when it is a text, gets a new
\* content; its runs and its caret stay.
Patchable(t, k) ==
  {t.nodes[i].kids[1] :
     i \in {j \in Members(t) : /\ t.nodes[j].key = k
                              /\ t.nodes[j].kids # <<>>
                              /\ t.nodes[t.nodes[j].kids[1]].kind = "text"}}

UpdateText(v, k, c) ==
  /\ phase = "idle"
  /\ calls < MaxCalls
  /\ calls' = calls + 1
  /\ IF trees[v] # NoTree /\ Patchable(trees[v], k) # {}
     THEN /\ \E i \in Patchable(trees[v], k) :
               trees' = [trees EXCEPT ![v].nodes[i].content = c]
          /\ patched' = patched \union {v}
          /\ result' = "OK"
     ELSE /\ result' = "KEY_NOT_FOUND"
          /\ UNCHANGED <<trees, patched>>
  /\ UNCHANGED <<phase, target, staging>>

-----------------------------------------------------------------------------
Decode ==
  \/ OpDiv \/ OpLeaf \/ OpAddChild \/ OpSetRoot
  \/ \E c \in Contents : OpText(c)
  \/ OpSetStyle \/ \E k \in Keys : OpSetKey(k)
  \/ \E r \in Ranges : OpTextRun(r)
  \/ \E o \in Carets \union {NoCaret} : OpSetTextRow(o)
  \/ \E s \in MalformedStatuses : Malformed(s)

Next ==
  \/ \E v \in Views : BeginBuild(v)
  \/ Decode
  \/ EndOfBuffer \/ Visit \/ Swap
  \/ \E v \in Views, k \in Keys, c \in Contents : UpdateText(v, k, c)

Spec == Init /\ [][Next]_vars

-----------------------------------------------------------------------------
Slots == 1 .. Len(nodes)

Node == [kind : {"div", "text", "leaf"}, key : Keys \union {NoKey},
         content : SUBSET Nat, runs : Seq(Nat \X Nat), caret : Nat \union {NoCaret},
         kids : Seq(Nat)]

TypeOK ==
  /\ phase \in {"idle", "decode", "walk"}
  /\ target \in Views
  /\ nodes \in Seq(Node) /\ moved \in SUBSET Slots
  /\ stack \in Seq(Slots) /\ root \in Slots \union {0}
  /\ walk \in Seq([node : Slots, depth : Nat])
  /\ seen \in SUBSET Keys /\ visited \in SUBSET Slots
  /\ patched \in SUBSET Views /\ calls \in Nat

\* The handles on the stack are distinct, live and in creation order, so the
\* tests for a moved node and for a node added to itself (lib.rs 1867-1889,
\* 1904-1906, 1057-1061) can never succeed: those statuses are unreachable.
StackSound ==
  /\ \A i \in DOMAIN stack : stack[i] \notin moved /\ stack[i] # root
  /\ \A i, j \in DOMAIN stack : i < j => stack[i] < stack[j]
  /\ root \notin moved

AbsentUnreachable == result # "NODE_ABSENT"

\* No command makes the decoder return NODE_ABSENT, and its handles are sound.
HandlesSound == StackSound /\ AbsentUnreachable

WellFormed(t) ==
  /\ \A d \in DOMAIN t.nodes : d > MaxDepth => Levels(t)[d] = {}
  /\ \A i, j \in Members(t) :
       /\ i # j /\ t.nodes[i].key # NoKey => t.nodes[i].key # t.nodes[j].key
       /\ i # j => ToSet(t.nodes[i].kids) \intersect ToSet(t.nodes[j].kids) = {}
  /\ \A i \in Members(t) :
       /\ IsInjective(t.nodes[i].kids)
       /\ t.nodes[i].kids # <<>> => t.nodes[i].kind = "div"

\* What the renderers recurse over: a tree no deeper than MAX_TREE_DEPTH whose
\* keys, the targets of probes and patches, are unique (lib.rs 961-978,
\* 1920-1990).
CommittedWellFormed == \A v \in Views : trees[v] # NoTree => WellFormed(trees[v])

TextValid(n) ==
  /\ \A i \in DOMAIN n.runs : n.runs[i][1] \in n.content /\ RunEnd(n.runs[i]) \in n.content
  /\ \A i, j \in DOMAIN n.runs : i < j => RunEnd(n.runs[i]) <= n.runs[j][1]
  /\ n.caret # NoCaret => n.caret \in n.content

TreeTextValid(t) == \A i \in DOMAIN t.nodes : TextValid(t.nodes[i])

\* Runs and carets of a tree as it was built, and of any node the buffer has
\* left beside it, lie on boundaries of their text, sorted and apart (lib.rs
\* 1233-1257, 1845-1852).
BuiltTextValid ==
  \A v \in Views \ patched : trees[v] # NoTree => TreeTextValid(trees[v])

\* lib.rs 1233-1236 and 3808: the renderer relies on every committed text,
\* patched or not, to satisfy what the decoder checked.
CommittedTextValid == \A v \in Views : trees[v] # NoTree => TreeTextValid(trees[v])

\* While it decodes, the decoder reads each command as the builder wrote it, byte
\* for byte and whatever the builder leaves unset, so that after any command it
\* is at the next opcode (lib.rs 1104-1912, gpui-bindings.mbt 278-950).
FormatsAgree == phase = "decode" => InStep

\* A build that fails, at whatever command or node of the walk, leaves every
\* committed tree as it was; one that succeeds replaces the target's only
\* (lib.rs 1065-1068).
BuildIsAtomic ==
  [][phase # "idle" =>
       \A v \in Views : trees'[v] # trees[v] => v = target /\ result' = "OK"]_vars
=============================================================================
