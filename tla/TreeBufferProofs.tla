-------------------------- MODULE TreeBufferProofs --------------------------
(***************************************************************************)
(* Proofs about TreeBuffer: for any buffer, however long and however it is *)
(* malformed, the handles on the decoder's stack are distinct, live and in *)
(* creation order, so no command ever meets a node that was moved away.    *)
(*                                                                         *)
(* The invariant behind it says that handles are slots of the arena: a new *)
(* node gets a slot above all of them, and a node is moved, or named as    *)
(* the root, only when its handle leaves the stack.                        *)
(*                                                                         *)
(* Then: a build changes its target only, in the step that succeeds; the   *)
(* runs and the caret of every text built are on character boundaries; the *)
(* types of the decoder and of the walk; and that every committed tree is  *)
(* one: the decoder builds a forest, so that a node has one depth below    *)
(* the root, and the walk meets every node at that depth.  Last, the       *)
(* operands that the decoder reads are those that the builder writes.      *)
(***************************************************************************)
EXTENDS TreeBuffer, DataInduction

ArenaOK ==
  /\ nodes \in Seq(Node)
  /\ stack \in Seq(Nat)
  /\ \A i \in DOMAIN stack : stack[i] \in Slots
  /\ moved \subseteq Slots
  /\ root \in Slots \union {0}

StackInv == ArenaOK /\ StackSound /\ AbsentUnreachable

-----------------------------------------------------------------------------
LEMMA FailKeepsInv ==
  ASSUME NEW status, Fail(status), status # "NODE_ABSENT"
  PROVE  StackInv'
<1>1. nodes' = <<>> /\ stack' = <<>> /\ moved' = {} /\ root' = 0
  BY DEF Fail, Discard
<1>2. nodes' \in Seq(Node) /\ stack' \in Seq(Nat)
  BY <1>1
<1>3. ArenaOK'
  BY <1>1, <1>2 DEF ArenaOK, Slots
<1>4. StackSound'
  BY <1>1 DEF StackSound
<1>5. AbsentUnreachable'
  BY DEF Fail, AbsentUnreachable
<1> QED BY <1>3, <1>4, <1>5 DEF StackInv

\* The last handle of a non-empty stack.
LEMMA TopIsLive ==
  ASSUME StackInv, stack # <<>>
  PROVE  Top = stack[Len(stack)] /\ Len(stack) \in DOMAIN stack /\ Top \in Slots /\ Top \notin moved
<1>1. stack \in Seq(Nat) /\ Len(stack) \in Nat /\ Len(stack) # 0
  BY DEF StackInv, ArenaOK
<1>2. Len(stack) \in DOMAIN stack
  BY <1>1
<1>3. Top = stack[Len(stack)]
  BY DEF Top, Last
<1> QED BY <1>2, <1>3 DEF StackInv, ArenaOK, StackSound

LEMMA PushKeepsInv ==
  ASSUME StackInv, NEW n \in Node, PushNode(n)
  PROVE  StackInv'
<1> DEFINE h == Len(nodes) + 1
<1>1. nodes \in Seq(Node) /\ stack \in Seq(Nat) /\ h \in Nat
  BY DEF StackInv, ArenaOK
<1>2. nodes' = Append(nodes, n) /\ stack' = Append(stack, h)
  BY DEF PushNode
<1>3. moved' = moved /\ root' = root /\ result' = result
  BY DEF PushNode, Continue
<1>4. nodes' \in Seq(Node) /\ Len(nodes') = h /\ stack' \in Seq(Nat)
  BY <1>1, <1>2
<1>5. Slots' = Slots \union {h}
  BY <1>1, <1>4 DEF Slots
<1>6. /\ Len(stack') = Len(stack) + 1 /\ Len(stack) \in Nat
      /\ stack'[Len(stack) + 1] = h
      /\ \A i \in DOMAIN stack : stack'[i] = stack[i]
      /\ DOMAIN stack = 1 .. Len(stack) /\ DOMAIN stack' = 1 .. (Len(stack) + 1)
  BY <1>1, <1>2
<1>7. \A x \in Slots \union {0} : x < h
  BY <1>1 DEF Slots
<1>8. \A i \in DOMAIN stack' : i \in DOMAIN stack \/ (i = Len(stack) + 1 /\ stack'[i] = h)
  BY <1>6
<1>9. ArenaOK'
  <2>1. \A i \in DOMAIN stack' : stack'[i] \in Slots'
    BY <1>5, <1>6, <1>8 DEF StackInv, ArenaOK
  <2>2. moved' \subseteq Slots' /\ root' \in Slots' \union {0}
    BY <1>3, <1>5 DEF StackInv, ArenaOK
  <2> QED BY <1>4, <2>1, <2>2 DEF ArenaOK
<1>10. \A i \in DOMAIN stack' : stack'[i] \notin moved' /\ stack'[i] # root'
  BY <1>3, <1>6, <1>7, <1>8 DEF StackInv, ArenaOK, StackSound
<1>11. \A i, j \in DOMAIN stack' : i < j => stack'[i] < stack'[j]
  <2> SUFFICES ASSUME NEW i \in DOMAIN stack', NEW j \in DOMAIN stack', i < j
               PROVE  stack'[i] < stack'[j]
    OBVIOUS
  <2>1. i \in DOMAIN stack
    BY <1>6
  <2>2. CASE j \in DOMAIN stack
    BY <1>6, <2>1, <2>2 DEF StackInv, StackSound
  <2>3. CASE j = Len(stack) + 1
    BY <1>6, <1>7, <2>1, <2>3 DEF StackInv, ArenaOK
  <2> QED BY <1>8, <2>2, <2>3
<1>12. root' \notin moved'
  BY <1>3 DEF StackInv, StackSound
<1> QED BY <1>3, <1>9, <1>10, <1>11, <1>12 DEF StackInv, StackSound, AbsentUnreachable

\* A command on the top node changes that node only, or fails with a status
\* other than NODE_ABSENT.
LEMMA TopStatusKnown ==
  ASSUME StackInv, NEW kind
  PROVE  /\ TopStatus(kind) # "NODE_ABSENT"
         /\ TopStatus(kind) = "OK" => stack # <<>> /\ nodes[Top].kind = kind
<1>1. CASE stack = <<>>
  BY <1>1 DEF TopStatus
<1>2. CASE stack # <<>>
  BY <1>2, TopIsLive DEF TopStatus
<1> QED BY <1>1, <1>2

LEMMA UpdateTopKeepsInv ==
  ASSUME StackInv, stack # <<>>, NEW x \in Node, nodes' = [nodes EXCEPT ![Top] = x],
         UNCHANGED <<moved, stack, root, result>>
  PROVE  StackInv'
<1>1. nodes \in Seq(Node) /\ Top \in 1 .. Len(nodes)
  BY TopIsLive DEF StackInv, ArenaOK, Slots
<1>2. nodes' \in Seq(Node) /\ Len(nodes') = Len(nodes)
  BY <1>1, ExceptSeq
<1>3. Slots' = Slots
  BY <1>2 DEF Slots
<1>4. ArenaOK'
  BY <1>2, <1>3 DEF StackInv, ArenaOK
<1>5. StackSound' /\ AbsentUnreachable'
  BY DEF StackInv, StackSound, AbsentUnreachable
<1> QED BY <1>4, <1>5 DEF StackInv

\* Popping the top and marking it moved or naming it the root.
LEMMA PopKeepsInv ==
  ASSUME StackInv, stack # <<>>, stack' = Front(stack),
         nodes' \in Seq(Node), Len(nodes') = Len(nodes),
         \/ moved' = moved \union {Top} /\ root' = root
         \/ moved' = moved /\ root' = Top,
         result' = result
  PROVE  StackInv'
<1> DEFINE n == Len(stack)
<1>1. stack \in Seq(Nat) /\ n \in Nat /\ n # 0 /\ DOMAIN stack = 1 .. n
  BY DEF StackInv, ArenaOK
<1>2. /\ stack' \in Seq(Nat)
      /\ DOMAIN stack' = 1 .. n - 1
      /\ \A i \in DOMAIN stack' : stack'[i] = stack[i] /\ i \in DOMAIN stack /\ i < n
  <2>1. stack' = SubSeq(stack, 1, n - 1)
    BY DEF Front
  <2>2. \A i \in 1 .. n - 1 : stack[i] \in Nat
    BY <1>1
  <2>3. /\ stack' \in Seq(Nat)
        /\ Len(stack') = IF 1 <= n - 1 THEN n - 1 - 1 + 1 ELSE 0
        /\ \A i \in 1 .. n - 1 - 1 + 1 : stack'[i] = stack[1 + i - 1]
    <3>1. 1 \in Int /\ n - 1 \in Int
      BY <1>1
    <3> QED BY <2>1, <2>2, <3>1, SubSeqProperties
  <2> HIDE DEF n
  <2>4. Len(stack') = n - 1
    <3>1. Len(stack') = IF 1 <= n - 1 THEN n - 1 - 1 + 1 ELSE 0
      BY <2>3
    <3>2. n \in Nat /\ n # 0
      BY <1>1
    <3> QED BY <3>1, <3>2
  <2>5. DOMAIN stack' = 1 .. n - 1
    BY <2>3, <2>4
  <2>6. ASSUME NEW i \in 1 .. n - 1
        PROVE  stack'[i] = stack[i] /\ i \in DOMAIN stack /\ i < n
    <3>1. n \in Nat /\ i \in 1 .. n - 1 - 1 + 1 /\ 1 + i - 1 = i /\ i \in 1 .. n /\ i < n
      BY <1>1
    <3>2. stack'[i] = stack[1 + i - 1]
      BY <2>3, <3>1
    <3> QED BY <1>1, <3>1, <3>2
  <2> QED BY <2>3, <2>5, <2>6
<1>3. Slots' = Slots
  BY DEF Slots
<1>4. Top = stack[n] /\ n \in DOMAIN stack /\ Top \in Slots /\ Top \notin moved
  BY TopIsLive
<1> HIDE DEF n
<1>5. \A i \in DOMAIN stack' : stack'[i] < Top
  BY <1>2, <1>4 DEF StackInv, StackSound
<1>6. \A i \in DOMAIN stack' : stack'[i] # Top
  BY <1>1, <1>2, <1>4, <1>5
<1>7. ArenaOK'
  <2>1. \A i \in DOMAIN stack' : stack'[i] \in Slots'
    BY <1>2, <1>3 DEF StackInv, ArenaOK
  <2>2. moved' \subseteq Slots' /\ root' \in Slots' \union {0}
    BY <1>3, <1>4 DEF StackInv, ArenaOK
  <2> QED BY <1>2, <2>1, <2>2 DEF ArenaOK
<1>8. \A i \in DOMAIN stack' : stack'[i] \notin moved' /\ stack'[i] # root'
  BY <1>2, <1>6 DEF StackInv, StackSound
<1>9. \A i, j \in DOMAIN stack' : i < j => stack'[i] < stack'[j]
  BY <1>2 DEF StackInv, StackSound
<1>10. root' \notin moved'
  BY <1>4 DEF StackInv, StackSound
<1> QED BY <1>7, <1>8, <1>9, <1>10 DEF StackInv, StackSound, AbsentUnreachable

-----------------------------------------------------------------------------
\* What the constants and the type of a node give each command.
LEMMA NewNodes ==
  ASSUME TreeAssumption, NEW c \in Contents
  PROVE  Div \in Node /\ Text(c) \in Node /\ Leaf \in Node
<1>1. Div \in Node
  <2>1. <<>> \in Seq(Nat \X Nat) /\ <<>> \in Seq(Nat)
    OBVIOUS
  <2> QED BY <2>1 DEF Div, Node
<1>2. c \in SUBSET Nat
  BY DEF TreeAssumption
<1> QED BY <1>1, <1>2 DEF Text, Leaf, Node

LEMMA TopNode ==
  ASSUME StackInv, stack # <<>>
  PROVE  nodes[Top] \in Node
<1>1. nodes \in Seq(Node) /\ Top \in 1 .. Len(nodes)
  BY TopIsLive DEF StackInv, ArenaOK, Slots
<1> QED BY <1>1

\* A setter of the top div, whether it stores a key or a style.
LEMMA SetKeepsInv ==
  ASSUME StackInv, OpSetStyle \/ \E k \in Keys : OpSetKey(k)
  PROVE  StackInv'
<1>1. CASE TopStatus("div") = "OK"
  <2>1. stack # <<>>
    BY <1>1, TopStatusKnown
  <2>2. PICK x \in Node : /\ nodes' = [nodes EXCEPT ![Top] = x]
                          /\ UNCHANGED <<moved, stack, root, result>>
    <3>1. CASE OpSetStyle
      BY <1>1, <2>1, <3>1, TopNode DEF OpSetStyle, OnTop, Continue
    <3>2. ASSUME NEW k \in Keys, OpSetKey(k)
          PROVE  \E x \in Node : /\ nodes' = [nodes EXCEPT ![Top] = x]
                                 /\ UNCHANGED <<moved, stack, root, result>>
      <4> DEFINE x == [nodes[Top] EXCEPT !.key = k]
      <4>1. x \in Node
        BY <2>1, TopNode DEF Node
      <4>2. nodes' = [nodes EXCEPT ![Top] = x] /\ UNCHANGED <<moved, stack, root, result>>
        BY <1>1, <3>2 DEF OpSetKey, OnTop, Continue
      <4> HIDE DEF x
      <4> QED BY <4>1, <4>2
    <3> QED BY <3>1, <3>2
  <2> QED BY <2>1, <2>2, UpdateTopKeepsInv
<1>2. CASE TopStatus("div") # "OK"
  <2>1. Fail(TopStatus("div"))
    BY <1>2 DEF OpSetStyle, OpSetKey, OnTop
  <2> QED BY <2>1, TopStatusKnown, FailKeepsInv
<1> QED BY <1>1, <1>2

LEMMA TextRunKeepsInv ==
  ASSUME StackInv, TreeAssumption, NEW r \in Ranges, OpTextRun(r)
  PROVE  StackInv'
<1>1. CASE TopStatus("text") = "OK" /\ ~RunFits(r, nodes[Top])
  BY <1>1, FailKeepsInv DEF OpTextRun
<1>2. CASE TopStatus("text") = "OK" /\ RunFits(r, nodes[Top])
  <2>1. stack # <<>>
    BY <1>2, TopStatusKnown
  <2> DEFINE x == [nodes[Top] EXCEPT !.runs = Append(@, r)]
  <2>2. nodes[Top] \in Node /\ r \in Nat \X Nat
    BY <2>1, TopNode DEF TreeAssumption
  <2>3. Append(nodes[Top].runs, r) \in Seq(Nat \X Nat)
    <3>1. nodes[Top].runs \in Seq(Nat \X Nat)
      BY <2>2 DEF Node
    <3> QED BY <2>2, <3>1, AppendProperties
  <2>4. x \in Node
    BY <2>2, <2>3 DEF Node
  <2>5. nodes' = [nodes EXCEPT ![Top] = x] /\ UNCHANGED <<moved, stack, root, result>>
    BY <1>2 DEF OpTextRun, OnTop, Continue
  <2> HIDE DEF x
  <2> QED BY <2>1, <2>4, <2>5, UpdateTopKeepsInv
<1>3. CASE TopStatus("text") # "OK"
  <2>1. Fail(TopStatus("text"))
    BY <1>3 DEF OpTextRun, OnTop
  <2> QED BY <2>1, TopStatusKnown, FailKeepsInv
<1> QED BY <1>1, <1>2, <1>3

LEMMA TextRowKeepsInv ==
  ASSUME StackInv, TreeAssumption, NEW o \in Carets \union {NoCaret}, OpSetTextRow(o)
  PROVE  StackInv'
<1> DEFINE outside == o # NoCaret /\ o \notin nodes[Top].content
<1>1. CASE TopStatus("text") = "OK" /\ outside
  BY <1>1, FailKeepsInv DEF OpSetTextRow
<1>2. CASE TopStatus("text") = "OK" /\ ~outside
  <2>1. stack # <<>>
    BY <1>2, TopStatusKnown
  <2> DEFINE x == [nodes[Top] EXCEPT !.caret = o]
  <2>2. nodes[Top] \in Node /\ o \in Nat \union {NoCaret}
    BY <2>1, TopNode DEF TreeAssumption
  <2>3. x \in Node
    BY <2>2 DEF Node
  <2>4. nodes' = [nodes EXCEPT ![Top] = x] /\ UNCHANGED <<moved, stack, root, result>>
    BY <1>2 DEF OpSetTextRow, OnTop, Continue
  <2> HIDE DEF x
  <2> QED BY <2>1, <2>3, <2>4, UpdateTopKeepsInv
<1>3. CASE TopStatus("text") # "OK"
  <2>1. Fail(TopStatus("text"))
    BY <1>3 DEF OpSetTextRow, OnTop
  <2> QED BY <2>1, TopStatusKnown, FailKeepsInv
<1> QED BY <1>1, <1>2, <1>3

LEMMA AddChildKeepsInv ==
  ASSUME StackInv, OpAddChild
  PROVE  StackInv'
<1> DEFINE n == Len(stack)
<1>1. n \in Nat /\ DOMAIN stack = 1 .. n /\ nodes \in Seq(Node)
  BY DEF StackInv, ArenaOK
<1>2. CASE n < 2
  <2>1. AddChildStatus = "INVALID_HANDLE"
    BY <1>2 DEF AddChildStatus
  <2>2. Fail("INVALID_HANDLE")
    BY <2>1 DEF OpAddChild
  <2> QED BY <2>2, FailKeepsInv
<1>3. CASE ~(n < 2)
  <2> DEFINE parent == stack[n - 1]
  <2>1. stack # <<>> /\ n - 1 \in DOMAIN stack
    BY <1>1, <1>3
  <2>2. Top = stack[n] /\ Top \in Slots /\ Top \notin moved
    BY <2>1, TopIsLive
  <2>3. parent \in Slots /\ parent \notin moved
    BY <2>1 DEF StackInv, ArenaOK, StackSound
  <2>4. AddChildStatus # "NODE_ABSENT"
    BY <1>3, <2>2, <2>3 DEF AddChildStatus
  <2>5. CASE AddChildStatus # "OK"
    <3>1. Fail(AddChildStatus)
      BY <2>5 DEF OpAddChild
    <3> QED BY <2>4, <3>1, FailKeepsInv
  <2>6. CASE AddChildStatus = "OK"
    <3> DEFINE x == [nodes[parent] EXCEPT !.kids = Append(@, Top)]
    <3>1. /\ nodes' = [nodes EXCEPT ![parent] = x]
          /\ moved' = moved \union {Top} /\ stack' = Front(stack) /\ root' = root
          /\ result' = result
      BY <2>6 DEF OpAddChild, Continue
    <3>2. nodes[parent] \in Node /\ Top \in Nat /\ parent \in 1 .. Len(nodes)
      BY <1>1, <2>2, <2>3 DEF Slots
    <3>3. Append(nodes[parent].kids, Top) \in Seq(Nat)
      <4>1. nodes[parent].kids \in Seq(Nat)
        BY <3>2 DEF Node
      <4> QED BY <3>2, <4>1, AppendProperties
    <3>4. x \in Node
      BY <3>2, <3>3 DEF Node
    <3> HIDE DEF x, parent
    <3>5. nodes' \in Seq(Node) /\ Len(nodes') = Len(nodes)
      BY <1>1, <3>1, <3>2, <3>4, ExceptSeq
    <3> QED BY <2>1, <3>1, <3>5, PopKeepsInv
  <2> QED BY <2>5, <2>6
<1> QED BY <1>2, <1>3

LEMMA SetRootKeepsInv ==
  ASSUME StackInv, OpSetRoot
  PROVE  StackInv'
<1>1. CASE stack = <<>>
  BY <1>1, FailKeepsInv DEF OpSetRoot
<1>2. CASE stack # <<>>
  <2>1. Top \notin moved
    BY <1>2, TopIsLive
  <2>2. /\ root' = Top /\ stack' = Front(stack) /\ nodes' = nodes /\ moved' = moved
        /\ result' = result
    BY <1>2, <2>1 DEF OpSetRoot, Continue
  <2>3. nodes' \in Seq(Node) /\ Len(nodes') = Len(nodes)
    BY <2>2 DEF StackInv, ArenaOK
  <2> QED BY <1>2, <2>2, <2>3, PopKeepsInv
<1> QED BY <1>1, <1>2

\* A step that leaves the arena and the stack alone.
LEMMA OtherKeepsInv ==
  ASSUME StackInv, UNCHANGED <<nodes, moved, stack, root>>, result' # "NODE_ABSENT"
  PROVE  StackInv'
BY DEF StackInv, ArenaOK, StackSound, AbsentUnreachable, Slots

LEMMA DecodeKeepsInv ==
  ASSUME StackInv, TreeAssumption, Decode
  PROVE  StackInv'
<1>1. CASE OpDiv
  <2>1. Div \in Node
    <3>1. <<>> \in Seq(Nat \X Nat) /\ <<>> \in Seq(Nat)
      OBVIOUS
    <3> QED BY <3>1 DEF Div, Node
  <2> QED BY <1>1, <2>1, PushKeepsInv DEF OpDiv
<1>2. CASE OpLeaf
  <2>1. Leaf \in Node
    <3>1. <<>> \in Seq(Nat \X Nat) /\ <<>> \in Seq(Nat)
      OBVIOUS
    <3> QED BY <3>1 DEF Leaf, Div, Node
  <2> QED BY <1>2, <2>1, PushKeepsInv DEF OpLeaf
<1>3. ASSUME NEW c \in Contents, OpText(c)
      PROVE  StackInv'
  <2>1. Text(c) \in Node
    BY NewNodes
  <2> QED BY <1>3, <2>1, PushKeepsInv DEF OpText
<1>4. ASSUME NEW s \in MalformedStatuses, Malformed(s)
      PROVE  StackInv'
  <2>1. s # "NODE_ABSENT"
    BY DEF MalformedStatuses, Faults
  <2> QED BY <1>4, <2>1, FailKeepsInv DEF Malformed
<1> QED BY <1>1, <1>2, <1>3, <1>4, SetKeepsInv, TextRunKeepsInv, TextRowKeepsInv,
           AddChildKeepsInv, SetRootKeepsInv DEF Decode

LEMMA EndKeepsInv ==
  ASSUME StackInv, EndOfBuffer \/ Visit \/ Swap
  PROVE  StackInv'
<1>1. CASE EndOfBuffer
  <2>1. root \notin moved
    BY DEF StackInv, StackSound
  <2>2. CASE root = 0
    BY <1>1, <2>2, FailKeepsInv DEF EndOfBuffer
  <2>3. CASE root # 0
    <3>1. UNCHANGED <<nodes, moved, stack, root, result>>
      BY <1>1, <2>1, <2>3 DEF EndOfBuffer
    <3> QED BY <3>1, OtherKeepsInv DEF StackInv, AbsentUnreachable
  <2> QED BY <2>2, <2>3
<1>2. CASE Visit
  <2>1. \/ Fail("DEPTH_EXCEEDED") \/ Fail("DUPLICATE_KEY")
        \/ UNCHANGED <<nodes, moved, stack, root, result>>
    BY <1>2 DEF Visit
  <2> QED BY <2>1, FailKeepsInv, OtherKeepsInv DEF StackInv, AbsentUnreachable
<1>3. CASE Swap
  <2>1. nodes' = <<>> /\ stack' = <<>> /\ moved' = {} /\ root' = 0 /\ result' = "OK"
    BY <1>3 DEF Swap, Discard
  <2>2. nodes' \in Seq(Node) /\ stack' \in Seq(Nat)
    BY <2>1
  <2>3. ArenaOK' /\ StackSound'
    BY <2>1, <2>2 DEF ArenaOK, StackSound, Slots
  <2> QED BY <2>1, <2>3 DEF StackInv, AbsentUnreachable
<1> QED BY <1>1, <1>2, <1>3

LEMMA StepKeepsStackInv ==
  ASSUME StackInv, TreeAssumption, [Next]_vars
  PROVE  StackInv'
<1>1. ASSUME NEW v \in Views, BeginBuild(v)
      PROVE  StackInv'
  BY <1>1, OtherKeepsInv DEF BeginBuild, staging
<1>2. ASSUME NEW v \in Views, NEW k \in Keys, NEW c \in Contents, UpdateText(v, k, c)
      PROVE  StackInv'
  <2>1. UNCHANGED <<nodes, moved, stack, root>> /\ result' \in {"OK", "KEY_NOT_FOUND"}
    BY <1>2 DEF UpdateText, staging
  <2> QED BY <2>1, OtherKeepsInv
<1>3. CASE UNCHANGED vars
  <2>1. UNCHANGED <<nodes, moved, stack, root, result>>
    BY <1>3 DEF vars, staging
  <2> QED BY <2>1, OtherKeepsInv DEF StackInv, AbsentUnreachable
<1> QED BY <1>1, <1>2, <1>3, DecodeKeepsInv, EndKeepsInv DEF Next

LEMMA InitStackInv == Init => StackInv
<1> SUFFICES ASSUME Init
             PROVE  StackInv
  OBVIOUS
<1>1. nodes \in Seq(Node) /\ stack \in Seq(Nat)
  BY DEF Init
<1>2. ArenaOK /\ StackSound
  BY <1>1 DEF Init, ArenaOK, StackSound, Slots
<1> QED BY <1>2 DEF Init, StackInv, AbsentUnreachable

-----------------------------------------------------------------------------
\* The decoder's handles are distinct, live and in creation order, whatever the
\* buffer says, and GPUI_STATUS_NODE_ABSENT is never returned: the tests for a
\* node that was moved away (lib.rs 1057-1061, 1863-1912, 1924-1926) cannot
\* succeed.
THEOREM HandlesAreSound == Spec => []HandlesSound
<1>1. StackInv => HandlesSound
  BY DEF StackInv, HandlesSound
<1> QED BY InitStackInv, StepKeepsStackInv, TreeAssumption, <1>1, PTL DEF Spec

-----------------------------------------------------------------------------
(* Atomicity of a build.                                                   *)

\* VIEWS has a slot for each view; the slots' content does not matter here.
ViewsKept == trees = [v \in Views |-> trees[v]]

LEMMA FailIsAtomic ==
  ASSUME NEW status, Fail(status)
  PROVE  UNCHANGED trees
BY DEF Fail

\* No command touches VIEWS, whether it succeeds or not.
LEMMA DecodeIsAtomic ==
  ASSUME Decode
  PROVE  UNCHANGED trees
<1>1. CASE OpDiv \/ OpLeaf \/ \E c \in Contents : OpText(c)
  BY <1>1 DEF OpDiv, OpLeaf, OpText, PushNode, Continue
<1>2. CASE OpAddChild \/ OpSetRoot
  BY <1>2 DEF OpAddChild, OpSetRoot, Fail, Continue
<1>3. CASE OpSetStyle \/ \E k \in Keys : OpSetKey(k)
  BY <1>3 DEF OpSetStyle, OpSetKey, OnTop, Fail, Continue
<1>4. CASE \E r \in Ranges : OpTextRun(r)
  BY <1>4 DEF OpTextRun, OnTop, Fail, Continue
<1>5. CASE \E o \in Carets \union {NoCaret} : OpSetTextRow(o)
  BY <1>5 DEF OpSetTextRow, OnTop, Fail, Continue
<1>6. CASE \E s \in MalformedStatuses : Malformed(s)
  BY <1>6 DEF Malformed, Fail
<1> QED BY <1>1, <1>2, <1>3, <1>4, <1>5, <1>6 DEF Decode

\* What a step may do to VIEWS: nothing, the swap of the target's tree at the
\* end of a build, or a patch between builds.
LEMMA TreesOfStep ==
  ASSUME [Next]_vars
  PROVE  \/ UNCHANGED trees
         \/ /\ trees' = [trees EXCEPT ![target] = [root |-> root, nodes |-> nodes]]
            /\ result' = "OK"
         \/ /\ phase = "idle"
            /\ \E v \in Views : \E t : trees' = [trees EXCEPT ![v] = t]
<1>1. CASE \E v \in Views : BeginBuild(v)
  BY <1>1 DEF BeginBuild
<1>2. CASE Decode
  BY <1>2, DecodeIsAtomic
<1>3. CASE EndOfBuffer \/ Visit
  BY <1>3 DEF EndOfBuffer, Visit, Fail
<1>4. CASE Swap
  BY <1>4 DEF Swap
<1>5. ASSUME NEW v \in Views, NEW k \in Keys, NEW c \in Contents, UpdateText(v, k, c)
      PROVE  \/ UNCHANGED trees
             \/ /\ phase = "idle"
                /\ \E w \in Views : \E t : trees' = [trees EXCEPT ![w] = t]
  <2>1. CASE trees[v] # NoTree /\ Patchable(trees[v], k) # {}
    <3>1. PICK i \in Patchable(trees[v], k) :
            trees' = [trees EXCEPT ![v].nodes[i].content = c]
      BY <1>5, <2>1 DEF UpdateText
    <3> DEFINE t == [trees[v] EXCEPT !.nodes[i].content = c]
    <3>2. trees' = [trees EXCEPT ![v] = t]
      BY <3>1
    <3> HIDE DEF t
    <3> QED BY <1>5, <3>2 DEF UpdateText
  <2>2. CASE ~(trees[v] # NoTree /\ Patchable(trees[v], k) # {})
    BY <1>5, <2>2 DEF UpdateText
  <2> QED BY <2>1, <2>2
<1>6. CASE UNCHANGED vars
  BY <1>6 DEF vars
<1> QED BY <1>1, <1>2, <1>3, <1>4, <1>5, <1>6 DEF Next

\* Whatever the buffer, a step of a build changes at most the tree of its target,
\* and that only with the step that reports success (lib.rs 1065-1068,
\* 1913-1919, 1986-1997).
THEOREM BuildsAreAtomic == Spec => BuildIsAtomic
<1> DEFINE Atomic == phase # "idle" =>
             \A v \in Views : trees'[v] # trees[v] => v = target /\ result' = "OK"
<1>1. Init => ViewsKept
  BY DEF Init, ViewsKept
<1>2. ViewsKept /\ [Next]_vars => ViewsKept'
  BY TreesOfStep DEF ViewsKept
<1>3. ViewsKept /\ [Next]_vars => [Atomic]_vars
  BY TreesOfStep DEF ViewsKept
<1> QED BY <1>1, <1>2, <1>3, PTL DEF Spec, BuildIsAtomic

-----------------------------------------------------------------------------
(* Text runs and carets.                                                   *)

NodesValid == \A i \in DOMAIN nodes : TextValid(nodes[i])

TextInv == ViewsKept /\ NodesValid /\ BuiltTextValid

LEMMA NewIsValid ==
  ASSUME NEW c
  PROVE  TextValid(Div) /\ TextValid(Text(c)) /\ TextValid(Leaf)
<1>1. \A n : n.runs = <<>> /\ n.caret = NoCaret => TextValid(n)
  BY DEF TextValid
<1>2. /\ Div.runs = <<>> /\ Div.caret = NoCaret
      /\ Text(c).runs = <<>> /\ Text(c).caret = NoCaret
      /\ Leaf.runs = <<>> /\ Leaf.caret = NoCaret
  BY DEF Div, Text, Leaf
<1> QED BY <1>1, <1>2

\* A node's validity depends on its text, runs and caret.
LEMMA SameText ==
  ASSUME NEW m, NEW n, TextValid(m),
         n.content = m.content /\ n.runs = m.runs /\ n.caret = m.caret
  PROVE  TextValid(n)
BY DEF TextValid

LEMMA FailKeepsValid ==
  ASSUME NEW status, Fail(status)
  PROVE  NodesValid'
BY DEF Fail, Discard, NodesValid

LEMMA PushKeepsValid ==
  ASSUME StackInv, NodesValid, NEW n, TextValid(n), PushNode(n)
  PROVE  NodesValid'
<1>1. nodes \in Seq(Node) /\ nodes' = Append(nodes, n)
  BY DEF StackInv, ArenaOK, PushNode
<1> QED BY <1>1 DEF NodesValid

LEMMA UpdateKeepsValid ==
  ASSUME NodesValid, NEW h \in DOMAIN nodes, NEW x, TextValid(x),
         nodes' = [nodes EXCEPT ![h] = x]
  PROVE  NodesValid'
BY DEF NodesValid

LEMMA SlotIsNode ==
  ASSUME StackInv, NEW h \in Slots
  PROVE  h \in DOMAIN nodes /\ nodes[h] \in Node
BY DEF StackInv, ArenaOK, Slots

LEMMA SetKeepsValid ==
  ASSUME StackInv, NodesValid, OpSetStyle \/ \E k \in Keys : OpSetKey(k)
  PROVE  NodesValid'
<1>1. CASE TopStatus("div") = "OK"
  <2>1. Top \in DOMAIN nodes /\ nodes[Top] \in Node /\ TextValid(nodes[Top])
    BY <1>1, TopStatusKnown, TopIsLive, SlotIsNode DEF NodesValid
  <2>2. CASE OpSetStyle
    <3>1. nodes' = [nodes EXCEPT ![Top] = nodes[Top]]
      BY <1>1, <2>2 DEF OpSetStyle, OnTop
    <3> QED BY <2>1, <3>1, UpdateKeepsValid
  <2>3. ASSUME NEW k \in Keys, OpSetKey(k)
        PROVE  NodesValid'
    <3> DEFINE x == [nodes[Top] EXCEPT !.key = k]
    <3>1. nodes' = [nodes EXCEPT ![Top] = x]
      BY <1>1, <2>3 DEF OpSetKey, OnTop
    <3>2. /\ x.content = nodes[Top].content /\ x.runs = nodes[Top].runs
          /\ x.caret = nodes[Top].caret
      BY <2>1 DEF Node
    <3> HIDE DEF x
    <3>3. TextValid(x)
      BY <2>1, <3>2, SameText
    <3> QED BY <2>1, <3>1, <3>3, UpdateKeepsValid
  <2> QED BY <2>2, <2>3
<1>2. CASE TopStatus("div") # "OK"
  BY <1>2, FailKeepsValid DEF OpSetStyle, OpSetKey, OnTop
<1> QED BY <1>1, <1>2

\* A run that fits behind the last one is behind them all.
LEMMA RunKeepsText ==
  ASSUME NEW n \in Node, NEW r \in Nat \X Nat, TextValid(n), RunFits(r, n),
         NEW x, x.content = n.content, x.caret = n.caret,
         x.runs = Append(n.runs, r)
  PROVE  TextValid(x)
<1> DEFINE last == Len(n.runs)
<1>1. n.runs \in Seq(Nat \X Nat) /\ last \in Nat
  BY DEF Node
<1>2. /\ x.runs \in Seq(Nat \X Nat) /\ Len(x.runs) = last + 1
      /\ DOMAIN x.runs = 1 .. last + 1 /\ DOMAIN n.runs = 1 .. last
      /\ \A i \in 1 .. last : x.runs[i] = n.runs[i]
      /\ x.runs[last + 1] = r
  BY <1>1
<1>3. ASSUME NEW q \in Nat \X Nat
      PROVE  q[1] \in Nat /\ RunEnd(q) \in Nat /\ q[1] <= RunEnd(q)
  BY DEF RunEnd
<1>4. ASSUME NEW i \in 1 .. last
      PROVE  RunEnd(n.runs[i]) <= r[1]
  <2>1. n.runs # <<>> /\ Last(n.runs) = n.runs[last] /\ last \in 1 .. last
    BY <1>1 DEF Last
  <2>2. RunEnd(n.runs[last]) <= r[1]
    BY <2>1 DEF RunFits
  <2>3. n.runs[i] \in Nat \X Nat /\ n.runs[last] \in Nat \X Nat
    BY <1>1, <2>1
  <2>4. CASE i < last
    <3>1. RunEnd(n.runs[i]) <= n.runs[last][1]
      BY <1>2, <2>1, <2>4 DEF TextValid
    <3>2. /\ n.runs[last][1] <= RunEnd(n.runs[last]) /\ n.runs[last][1] \in Nat
          /\ RunEnd(n.runs[last]) \in Nat /\ RunEnd(n.runs[i]) \in Nat
          /\ r[1] \in Nat
      BY <1>3, <2>3
    <3> QED BY <2>2, <3>1, <3>2
  <2>5. CASE i = last
    BY <2>2, <2>5
  <2> QED BY <1>1, <2>4, <2>5
<1>5. ASSUME NEW i \in DOMAIN x.runs
      PROVE  x.runs[i][1] \in x.content /\ RunEnd(x.runs[i]) \in x.content
  <2>1. CASE i = last + 1
    BY <1>2, <2>1 DEF RunFits
  <2>2. CASE i # last + 1
    <3>1. i \in 1 .. last
      BY <1>1, <1>2, <2>2
    <3> QED BY <1>2, <3>1 DEF TextValid
  <2> QED BY <2>1, <2>2
<1>6. ASSUME NEW i \in DOMAIN x.runs, NEW j \in DOMAIN x.runs, i < j
      PROVE  RunEnd(x.runs[i]) <= x.runs[j][1]
  <2>1. i \in 1 .. last
    BY <1>1, <1>2, <1>6
  <2>2. CASE j = last + 1
    BY <1>2, <1>4, <2>1, <2>2
  <2>3. CASE j # last + 1
    <3>1. j \in 1 .. last
      BY <1>1, <1>2, <2>3
    <3> QED BY <1>2, <1>6, <2>1, <3>1 DEF TextValid
  <2> QED BY <2>2, <2>3
<1>7. x.caret # NoCaret => x.caret \in x.content
  BY DEF TextValid
<1> QED BY <1>5, <1>6, <1>7 DEF TextValid

LEMMA TextRunKeepsValid ==
  ASSUME StackInv, TreeAssumption, NodesValid, NEW r \in Ranges, OpTextRun(r)
  PROVE  NodesValid'
<1>1. CASE TopStatus("text") = "OK" /\ RunFits(r, nodes[Top])
  <2>1. Top \in DOMAIN nodes /\ nodes[Top] \in Node /\ TextValid(nodes[Top])
    BY <1>1, TopStatusKnown, TopIsLive, SlotIsNode DEF NodesValid
  <2> DEFINE x == [nodes[Top] EXCEPT !.runs = Append(@, r)]
  <2>2. nodes' = [nodes EXCEPT ![Top] = x]
    BY <1>1 DEF OpTextRun, OnTop
  <2>3. /\ x.content = nodes[Top].content /\ x.caret = nodes[Top].caret
        /\ x.runs = Append(nodes[Top].runs, r)
    BY <2>1 DEF Node
  <2>4. r \in Nat \X Nat
    BY DEF TreeAssumption
  <2> HIDE DEF x
  <2>5. TextValid(x)
    BY <1>1, <2>1, <2>3, <2>4, RunKeepsText
  <2> QED BY <2>1, <2>2, <2>5, UpdateKeepsValid
<1>2. CASE ~(TopStatus("text") = "OK" /\ RunFits(r, nodes[Top]))
  <2>1. \E status : Fail(status)
    BY <1>2 DEF OpTextRun, OnTop
  <2> QED BY <2>1, FailKeepsValid
<1> QED BY <1>1, <1>2

LEMMA TextRowKeepsValid ==
  ASSUME StackInv, NodesValid, NEW o, OpSetTextRow(o)
  PROVE  NodesValid'
<1> DEFINE outside == o # NoCaret /\ o \notin nodes[Top].content
<1>1. CASE TopStatus("text") = "OK" /\ ~outside
  <2>1. Top \in DOMAIN nodes /\ nodes[Top] \in Node /\ TextValid(nodes[Top])
    BY <1>1, TopStatusKnown, TopIsLive, SlotIsNode DEF NodesValid
  <2> DEFINE x == [nodes[Top] EXCEPT !.caret = o]
  <2>2. nodes' = [nodes EXCEPT ![Top] = x]
    BY <1>1 DEF OpSetTextRow, OnTop
  <2>3. /\ x.content = nodes[Top].content /\ x.caret = o
        /\ x.runs = nodes[Top].runs
    BY <2>1 DEF Node
  <2> HIDE DEF x
  <2>4. TextValid(x)
    BY <1>1, <2>1, <2>3 DEF TextValid
  <2> QED BY <2>1, <2>2, <2>4, UpdateKeepsValid
<1>2. CASE ~(TopStatus("text") = "OK" /\ ~outside)
  <2>1. \E status : Fail(status)
    BY <1>2 DEF OpSetTextRow, OnTop
  <2> QED BY <2>1, FailKeepsValid
<1> QED BY <1>1, <1>2

LEMMA AddChildKeepsValid ==
  ASSUME StackInv, NodesValid, OpAddChild
  PROVE  NodesValid'
<1>1. CASE AddChildStatus = "OK"
  <2> DEFINE p == stack[Len(stack) - 1]
             x == [nodes[p] EXCEPT !.kids = Append(@, Top)]
  <2>1. stack \in Seq(Nat) /\ ~(Len(stack) < 2)
    BY <1>1 DEF AddChildStatus, StackInv, ArenaOK
  <2>2. Len(stack) - 1 \in DOMAIN stack
    BY <2>1
  <2>3. p \in DOMAIN nodes /\ nodes[p] \in Node /\ TextValid(nodes[p])
    BY <2>2, SlotIsNode DEF StackInv, ArenaOK, NodesValid
  <2>4. nodes' = [nodes EXCEPT ![p] = x]
    BY <1>1 DEF OpAddChild
  <2>5. /\ x.content = nodes[p].content /\ x.caret = nodes[p].caret
        /\ x.runs = nodes[p].runs
    BY <2>3 DEF Node
  <2> HIDE DEF x
  <2>6. TextValid(x)
    BY <2>3, <2>5, SameText
  <2> QED BY <2>3, <2>4, <2>6, UpdateKeepsValid
<1>2. CASE AddChildStatus # "OK"
  BY <1>2, FailKeepsValid DEF OpAddChild
<1> QED BY <1>1, <1>2

LEMMA DecodeKeepsValid ==
  ASSUME StackInv, TreeAssumption, NodesValid, Decode
  PROVE  NodesValid'
<1>1. CASE OpDiv \/ OpLeaf \/ \E c \in Contents : OpText(c)
  BY <1>1, NewIsValid, PushKeepsValid DEF OpDiv, OpLeaf, OpText
<1>2. CASE OpSetRoot
  BY <1>2, FailKeepsValid DEF OpSetRoot, NodesValid
<1>3. CASE \E s \in MalformedStatuses : Malformed(s)
  BY <1>3, FailKeepsValid DEF Malformed
<1> QED BY <1>1, <1>2, <1>3, SetKeepsValid, TextRunKeepsValid, TextRowKeepsValid,
           AddChildKeepsValid DEF Decode

\* A patch marks its view; what a swap commits is the arena.
LEMMA StepKeepsTextInv ==
  ASSUME StackInv, TreeAssumption, TextInv, [Next]_vars
  PROVE  TextInv'
<1>1. ViewsKept'
  BY TreesOfStep DEF TextInv, ViewsKept
<1>2. CASE Decode
  <2>1. UNCHANGED <<trees, patched>>
    <3>1. UNCHANGED patched
      BY <1>2 DEF Decode, OpDiv, OpLeaf, OpText, OpAddChild, OpSetRoot, OpSetStyle,
                  OpSetKey, OpTextRun, OpSetTextRow, Malformed, PushNode, OnTop,
                  Fail, Continue
    <3> QED BY <1>2, <3>1, DecodeIsAtomic
  <2> QED BY <1>1, <1>2, <2>1, DecodeKeepsValid DEF TextInv, BuiltTextValid
<1>3. CASE EndOfBuffer \/ Visit \/ UNCHANGED vars \/ \E v \in Views : BeginBuild(v)
  <2>1. UNCHANGED <<trees, patched>>
    BY <1>3 DEF EndOfBuffer, Visit, BeginBuild, Fail, vars
  <2>2. nodes' = nodes \/ \E status : Fail(status)
    BY <1>3 DEF EndOfBuffer, Visit, BeginBuild, vars, staging
  <2>3. NodesValid'
    BY <2>2, FailKeepsValid DEF TextInv, NodesValid
  <2> QED BY <1>1, <2>1, <2>3 DEF TextInv, BuiltTextValid
<1>4. CASE Swap
  <2> DEFINE t == [root |-> root, nodes |-> nodes]
  <2>1. /\ trees' = [trees EXCEPT ![target] = t] /\ patched' = patched \ {target}
        /\ nodes' = <<>>
    BY <1>4 DEF Swap, Discard
  <2>2. TreeTextValid(t)
    BY DEF TreeTextValid, TextInv, NodesValid
  <2> HIDE DEF t
  <2>3. BuiltTextValid'
    BY <2>1, <2>2 DEF TextInv, ViewsKept, BuiltTextValid
  <2>4. NodesValid'
    BY <2>1 DEF NodesValid
  <2> QED BY <1>1, <2>3, <2>4 DEF TextInv
<1>5. ASSUME NEW v \in Views, NEW k \in Keys, NEW c \in Contents, UpdateText(v, k, c)
      PROVE  TextInv'
  <2>1. UNCHANGED nodes
    BY <1>5 DEF UpdateText, staging
  <2>2. \/ UNCHANGED <<trees, patched>>
        \/ /\ patched' = patched \union {v}
           /\ \A w \in Views : w # v => trees'[w] = trees[w]
    BY <1>5 DEF UpdateText, TextInv, ViewsKept
  <2>3. BuiltTextValid'
    BY <2>2 DEF TextInv, BuiltTextValid
  <2> QED BY <1>1, <2>1, <2>3 DEF TextInv, NodesValid
<1> QED BY <1>2, <1>3, <1>4, <1>5 DEF Next

\* As it is built, every text of a tree has its runs and caret on character
\* boundaries, the runs sorted and apart, whatever the buffer says (lib.rs
\* 1233-1257, 1845-1852).
THEOREM BuiltTextsAreValid == Spec => []BuiltTextValid
<1>1. Init => TextInv
  BY DEF Init, TextInv, ViewsKept, NodesValid, BuiltTextValid
<1>2. TextInv => BuiltTextValid
  BY DEF TextInv
<1> QED BY InitStackInv, StepKeepsStackInv, StepKeepsTextInv, TreeAssumption,
           <1>1, <1>2, PTL DEF Spec

-----------------------------------------------------------------------------
(* Types: children, and what the walk has met, are slots of the arena.     *)

KidsOK ==
  \A i \in DOMAIN nodes : \A j \in DOMAIN nodes[i].kids : nodes[i].kids[j] \in Slots

WalkOK ==
  /\ walk \in Seq([node : Slots, depth : Nat])
  /\ seen \in SUBSET Keys /\ visited \in SUBSET Slots

CallOK ==
  /\ phase \in {"idle", "decode", "walk"} /\ target \in Views
  /\ patched \in SUBSET Views /\ calls \in Nat

TypeInv == KidsOK /\ WalkOK /\ CallOK

LEMMA SeqGrows ==
  ASSUME NEW S, NEW T, S \subseteq T, NEW s \in Seq(S)
  PROVE  s \in Seq(T)
OBVIOUS

\* The walk takes the last item of a sequence and keeps the rest.
LEMMA EndsOfSeq ==
  ASSUME NEW S, NEW s \in Seq(S), s # <<>>
  PROVE  Last(s) \in S /\ Front(s) \in Seq(S)
<1>1. Len(s) \in Nat /\ Len(s) # 0
  OBVIOUS
<1>2. Last(s) \in S
  BY <1>1 DEF Last
<1>3. \A i \in 1 .. Len(s) - 1 : s[i] \in S
  BY <1>1
<1>4. 1 \in Int /\ Len(s) - 1 \in Int
  BY <1>1
<1>5. SubSeq(s, 1, Len(s) - 1) \in Seq(S)
  BY <1>3, <1>4, SubSeqProperties
<1> QED BY <1>2, <1>5 DEF Front

LEMMA FailKeepsTypes ==
  ASSUME CallOK, NEW status, Fail(status)
  PROVE  TypeInv'
<1>1. nodes' = <<>> /\ walk' = <<>> /\ seen' = {} /\ visited' = {}
  BY DEF Fail, Discard
<1>2. KidsOK' /\ WalkOK'
  BY <1>1 DEF KidsOK, WalkOK
<1>3. CallOK'
  BY DEF Fail, CallOK
<1> QED BY <1>2, <1>3 DEF TypeInv

\* A command that does not fail leaves the walk to come as it is.
LEMMA ContinueKeepsTypes ==
  ASSUME TypeInv, Continue, Slots \subseteq Slots', KidsOK'
  PROVE  TypeInv'
<1>1. UNCHANGED <<phase, target, walk, seen, visited, patched, calls>>
  BY DEF Continue
<1>2. [node : Slots, depth : Nat] \subseteq [node : Slots', depth : Nat]
  OBVIOUS
<1>3. walk' \in Seq([node : Slots', depth : Nat])
  BY <1>1, <1>2, SeqGrows DEF TypeInv, WalkOK
<1> QED BY <1>1, <1>3 DEF TypeInv, WalkOK, CallOK

LEMMA PushKeepsTypes ==
  ASSUME StackInv, TypeInv, NEW n, n.kids = <<>>, PushNode(n)
  PROVE  TypeInv'
<1>1. nodes \in Seq(Node) /\ nodes' = Append(nodes, n) /\ Continue
  BY DEF StackInv, ArenaOK, PushNode
<1>2. Slots \subseteq Slots'
  BY <1>1 DEF Slots
<1>3. KidsOK'
  BY <1>1, <1>2 DEF KidsOK, TypeInv
<1> QED BY <1>1, <1>2, <1>3, ContinueKeepsTypes

\* A node is changed; its children are slots, as they were.
LEMMA UpdateKeepsTypes ==
  ASSUME StackInv, TypeInv, Continue, NEW h \in Slots, NEW x,
         nodes' = [nodes EXCEPT ![h] = x],
         \A j \in DOMAIN x.kids : x.kids[j] \in Slots
  PROVE  TypeInv'
<1>1. nodes \in Seq(Node) /\ h \in DOMAIN nodes
  BY SlotIsNode DEF StackInv, ArenaOK
<1>2. DOMAIN nodes' = DOMAIN nodes /\ Slots' = Slots
  BY <1>1 DEF Slots
<1>3. KidsOK'
  BY <1>1, <1>2 DEF KidsOK, TypeInv
<1> QED BY <1>2, <1>3, ContinueKeepsTypes

LEMMA TopKids ==
  ASSUME StackInv, TypeInv, stack # <<>>
  PROVE  /\ Top \in Slots /\ nodes[Top] \in Node
         /\ \A j \in DOMAIN nodes[Top].kids : nodes[Top].kids[j] \in Slots
BY TopIsLive, SlotIsNode DEF TypeInv, KidsOK

\* The commands on the top node: if they succeed its edges and its kind stay.
LEMMA TopUpdate ==
  ASSUME StackInv,
         \/ OpSetStyle \/ \E k \in Keys : OpSetKey(k)
         \/ \E r \in Ranges : OpTextRun(r)
         \/ \E o \in Carets \union {NoCaret} : OpSetTextRow(o)
  PROVE  \/ \E status : Fail(status)
         \/ /\ stack # <<>> /\ Continue /\ UNCHANGED <<moved, root>>
            /\ \E x : /\ nodes' = [nodes EXCEPT ![Top] = x]
                      /\ x.kids = nodes[Top].kids /\ x.kind = nodes[Top].kind
<1> SUFFICES ASSUME ~\E status : Fail(status)
             PROVE  /\ stack # <<>> /\ Continue /\ UNCHANGED <<moved, root>>
                    /\ \E x : /\ nodes' = [nodes EXCEPT ![Top] = x]
                              /\ x.kids = nodes[Top].kids /\ x.kind = nodes[Top].kind
  OBVIOUS
<1>1. PICK kind \in {"div", "text"} :
        /\ TopStatus(kind) = "OK" /\ Continue /\ UNCHANGED <<moved, root>>
        /\ \/ nodes' = [nodes EXCEPT ![Top] = nodes[Top]]
           \/ \E k : nodes' = [nodes EXCEPT ![Top] = [nodes[Top] EXCEPT !.key = k]]
           \/ \E r : nodes' = [nodes EXCEPT ![Top] =
                                 [nodes[Top] EXCEPT !.runs = Append(@, r)]]
           \/ \E o : nodes' = [nodes EXCEPT ![Top] =
                                 [nodes[Top] EXCEPT !.caret = o]]
  <2>1. CASE OpSetStyle
    BY <2>1 DEF OpSetStyle, OnTop
  <2>2. CASE \E k \in Keys : OpSetKey(k)
    BY <2>2 DEF OpSetKey, OnTop
  <2>3. CASE \E r \in Ranges : OpTextRun(r)
    BY <2>3 DEF OpTextRun, OnTop
  <2>4. CASE \E o \in Carets \union {NoCaret} : OpSetTextRow(o)
    BY <2>4 DEF OpSetTextRow, OnTop
  <2> QED BY <2>1, <2>2, <2>3, <2>4
<1>2. stack # <<>>
  BY <1>1, TopStatusKnown
<1>3. nodes[Top] \in Node
  BY <1>2, TopNode
<1>4. \A y : /\ [nodes[Top] EXCEPT !.key = y].kids = nodes[Top].kids
             /\ [nodes[Top] EXCEPT !.key = y].kind = nodes[Top].kind
             /\ [nodes[Top] EXCEPT !.runs = Append(@, y)].kids = nodes[Top].kids
             /\ [nodes[Top] EXCEPT !.runs = Append(@, y)].kind = nodes[Top].kind
             /\ [nodes[Top] EXCEPT !.caret = y].kids = nodes[Top].kids
             /\ [nodes[Top] EXCEPT !.caret = y].kind = nodes[Top].kind
  BY <1>3 DEF Node
<1>5. PICK x : /\ nodes' = [nodes EXCEPT ![Top] = x]
               /\ x.kids = nodes[Top].kids /\ x.kind = nodes[Top].kind
  <2>1. CASE nodes' = [nodes EXCEPT ![Top] = nodes[Top]]
    BY <2>1
  <2>2. CASE \E k : nodes' = [nodes EXCEPT ![Top] = [nodes[Top] EXCEPT !.key = k]]
    <3> DEFINE K(k) == [nodes[Top] EXCEPT !.key = k]
    <3>1. PICK k : nodes' = [nodes EXCEPT ![Top] = K(k)]
      BY <2>2
    <3>2. K(k).kids = nodes[Top].kids /\ K(k).kind = nodes[Top].kind
      BY <1>4
    <3> HIDE DEF K
    <3> QED BY <3>1, <3>2
  <2>3. CASE \E r : nodes' = [nodes EXCEPT ![Top] =
                                [nodes[Top] EXCEPT !.runs = Append(@, r)]]
    <3> DEFINE R(r) == [nodes[Top] EXCEPT !.runs = Append(@, r)]
    <3>1. PICK r : nodes' = [nodes EXCEPT ![Top] = R(r)]
      BY <2>3
    <3>2. R(r).kids = nodes[Top].kids /\ R(r).kind = nodes[Top].kind
      BY <1>4
    <3> HIDE DEF R
    <3> QED BY <3>1, <3>2
  <2>4. CASE \E o : nodes' = [nodes EXCEPT ![Top] = [nodes[Top] EXCEPT !.caret = o]]
    <3> DEFINE O(o) == [nodes[Top] EXCEPT !.caret = o]
    <3>1. PICK o : nodes' = [nodes EXCEPT ![Top] = O(o)]
      BY <2>4
    <3>2. O(o).kids = nodes[Top].kids /\ O(o).kind = nodes[Top].kind
      BY <1>4
    <3> HIDE DEF O
    <3> QED BY <3>1, <3>2
  <2> QED BY <1>1, <2>1, <2>2, <2>3, <2>4
<1> QED BY <1>1, <1>2, <1>5

LEMMA TopKeepsTypes ==
  ASSUME StackInv, TypeInv,
         \/ OpSetStyle \/ \E k \in Keys : OpSetKey(k)
         \/ \E r \in Ranges : OpTextRun(r)
         \/ \E o \in Carets \union {NoCaret} : OpSetTextRow(o)
  PROVE  TypeInv'
<1>1. CASE \E status : Fail(status)
  BY <1>1, FailKeepsTypes DEF TypeInv
<1>2. CASE ~\E status : Fail(status)
  BY <1>2, TopUpdate, TopKids, UpdateKeepsTypes
<1> QED BY <1>1, <1>2

LEMMA AddChildKeepsTypes ==
  ASSUME StackInv, TypeInv, OpAddChild
  PROVE  TypeInv'
<1>1. CASE AddChildStatus = "OK"
  <2> DEFINE p == stack[Len(stack) - 1]
             x == [nodes[p] EXCEPT !.kids = Append(@, Top)]
  <2>1. stack \in Seq(Nat) /\ ~(Len(stack) < 2)
    BY <1>1 DEF AddChildStatus, StackInv, ArenaOK
  <2>2. Len(stack) - 1 \in DOMAIN stack /\ stack # <<>>
    BY <2>1
  <2>3. p \in Slots /\ p \in DOMAIN nodes /\ nodes[p] \in Node /\ Top \in Slots
    BY <2>2, SlotIsNode, TopIsLive DEF StackInv, ArenaOK
  <2>4. nodes' = [nodes EXCEPT ![p] = x] /\ Continue
    BY <1>1 DEF OpAddChild
  <2>5. x.kids = Append(nodes[p].kids, Top) /\ nodes[p].kids \in Seq(Nat)
    BY <2>3 DEF Node
  <2> HIDE DEF x
  <2>6. \A j \in DOMAIN x.kids : x.kids[j] \in Slots
    BY <2>3, <2>5 DEF TypeInv, KidsOK
  <2> QED BY <2>3, <2>4, <2>6, UpdateKeepsTypes
<1>2. CASE AddChildStatus # "OK"
  BY <1>2, FailKeepsTypes DEF OpAddChild, TypeInv
<1> QED BY <1>1, <1>2

LEMMA DecodeKeepsTypes ==
  ASSUME StackInv, TypeInv, Decode
  PROVE  TypeInv'
<1>1. CASE OpDiv \/ OpLeaf \/ \E c \in Contents : OpText(c)
  <2>1. Div.kids = <<>> /\ Leaf.kids = <<>> /\ \A c : Text(c).kids = <<>>
    BY DEF Div, Leaf, Text
  <2> QED BY <1>1, <2>1, PushKeepsTypes DEF OpDiv, OpLeaf, OpText
<1>2. CASE OpSetRoot
  <2>1. \/ \E status : Fail(status)
        \/ Continue /\ nodes' = nodes
    BY <1>2 DEF OpSetRoot
  <2>2. nodes' = nodes => Slots' = Slots /\ KidsOK'
    BY DEF Slots, KidsOK, TypeInv
  <2> QED BY <2>1, <2>2, FailKeepsTypes, ContinueKeepsTypes DEF TypeInv
<1>3. CASE \E s \in MalformedStatuses : Malformed(s)
  BY <1>3, FailKeepsTypes DEF Malformed, TypeInv
<1> QED BY <1>1, <1>2, <1>3, TopKeepsTypes, AddChildKeepsTypes DEF Decode

LEMMA VisitKeepsTypes ==
  ASSUME StackInv, TypeInv, Visit
  PROVE  TypeInv'
<1> DEFINE at == Last(walk)
           n == nodes[at.node]
           Item == [node : Slots, depth : Nat]
<1>1. CASE \E status : Fail(status)
  BY <1>1, FailKeepsTypes DEF TypeInv
<1>2. CASE ~\E status : Fail(status)
  <2>1. /\ seen' = IF n.key = NoKey THEN seen ELSE seen \union {n.key}
        /\ visited' = visited \union {at.node}
        /\ walk' = Front(walk) \o
             [i \in DOMAIN n.kids |-> [node |-> n.kids[i], depth |-> at.depth + 1]]
        /\ UNCHANGED <<phase, target, nodes, patched, calls>>
    BY <1>2 DEF Visit
  <2>2. walk \in Seq(Item) /\ walk # <<>>
    BY DEF Visit, TypeInv, WalkOK
  <2>3. at \in Item
    BY <2>2, EndsOfSeq
  <2>4. Front(walk) \in Seq(Item)
    BY <2>2, EndsOfSeq
  <2>5. n \in Node /\ \A j \in DOMAIN n.kids : n.kids[j] \in Slots
    BY <2>3, SlotIsNode DEF TypeInv, KidsOK
  <2> HIDE DEF n, at
  <2> DEFINE next == [i \in DOMAIN n.kids |->
                        [node |-> n.kids[i], depth |-> at.depth + 1]]
  <2>6. n.kids \in Seq(Nat) /\ at.depth + 1 \in Nat
    BY <2>3, <2>5 DEF Node
  <2>7. next \in Seq(Item)
    <3>1. DOMAIN n.kids = 1 .. Len(n.kids) /\ Len(n.kids) \in Nat
      BY <2>6
    <3>2. \A i \in 1 .. Len(n.kids) :
            [node |-> n.kids[i], depth |-> at.depth + 1] \in Item
      BY <2>5, <2>6, <3>1
    <3>3. next \in [1 .. Len(n.kids) -> Item]
      BY <3>1, <3>2
    <3> HIDE DEF next, Item
    <3> QED BY <3>1, <3>3
  <2> HIDE DEF next
  <2>8. walk' \in Seq(Item)
    BY <2>1, <2>4, <2>7 DEF next
  <2>9. Slots' = Slots /\ KidsOK'
    BY <2>1 DEF Slots, KidsOK, TypeInv
  <2>10. seen' \in SUBSET Keys /\ visited' \in SUBSET Slots
    BY <2>1, <2>3, <2>5 DEF Node, TypeInv, WalkOK
  <2> QED BY <2>1, <2>8, <2>9, <2>10 DEF TypeInv, WalkOK, CallOK
<1> QED BY <1>1, <1>2

LEMMA StepKeepsTypes ==
  ASSUME StackInv, TreeAssumption, TypeInv, [Next]_vars
  PROVE  TypeInv'
<1>1. ASSUME NEW v \in Views, BeginBuild(v)
      PROVE  TypeInv'
  <2>1. /\ UNCHANGED <<nodes, walk, seen, visited, patched>>
        /\ phase' = "decode" /\ target' = v /\ calls' = calls + 1
    BY <1>1 DEF BeginBuild, staging
  <2> QED BY <2>1 DEF TypeInv, KidsOK, WalkOK, CallOK, Slots
<1>2. CASE EndOfBuffer
  <2>1. \/ \E status : Fail(status)
        \/ /\ root # 0 /\ phase' = "walk" /\ walk' = <<[node |-> root, depth |-> 1]>>
           /\ UNCHANGED <<target, nodes, seen, visited, patched, calls>>
    BY <1>2 DEF EndOfBuffer
  <2>2. root # 0 => root \in Slots
    BY DEF StackInv, ArenaOK
  <2>3. root \in Slots =>
          <<[node |-> root, depth |-> 1]>> \in Seq([node : Slots, depth : Nat])
    OBVIOUS
  <2> QED BY <2>1, <2>2, <2>3, FailKeepsTypes DEF TypeInv, KidsOK, WalkOK, CallOK, Slots
<1>3. CASE Swap
  <2>1. /\ nodes' = <<>> /\ walk' = <<>> /\ seen' = {} /\ visited' = {}
        /\ phase' = "idle" /\ patched' = patched \ {target}
        /\ UNCHANGED <<target, calls>>
    BY <1>3 DEF Swap, Discard
  <2>2. KidsOK' /\ WalkOK'
    BY <2>1 DEF KidsOK, WalkOK
  <2> QED BY <2>1, <2>2 DEF TypeInv, CallOK
<1>4. ASSUME NEW v \in Views, NEW k \in Keys, NEW c \in Contents, UpdateText(v, k, c)
      PROVE  TypeInv'
  <2>1. /\ UNCHANGED <<phase, target, nodes, walk, seen, visited>>
        /\ calls' = calls + 1 /\ patched' \in {patched, patched \union {v}}
    BY <1>4 DEF UpdateText, staging
  <2> QED BY <2>1 DEF TypeInv, KidsOK, WalkOK, CallOK, Slots
<1>5. CASE UNCHANGED vars
  BY <1>5 DEF vars, staging, TypeInv, KidsOK, WalkOK, CallOK, Slots
<1> QED BY <1>1, <1>2, <1>3, <1>4, <1>5, DecodeKeepsTypes, VisitKeepsTypes DEF Next

LEMMA InitTypeInv == Init => TypeInv
<1> SUFFICES ASSUME Init
             PROVE  TypeInv
  OBVIOUS
<1>1. nodes = <<>> /\ walk = <<>> /\ seen = {} /\ visited = {}
  BY DEF Init
<1>2. KidsOK /\ WalkOK
  BY <1>1 DEF KidsOK, WalkOK
<1> QED BY <1>2 DEF Init, TypeInv, CallOK

\* TreeBuffer is type-correct: children, and the nodes of the walk, are slots of
\* the arena.
THEOREM TreeTyped == Spec => []TypeOK
<1>1. Init => TypeInv
  BY InitTypeInv
<1>2. StackInv /\ TypeInv => TypeOK
  <2> SUFFICES ASSUME StackInv, TypeInv
               PROVE  TypeOK
    OBVIOUS
  <2>1. stack \in Seq(Slots)
    <3>1. stack \in Seq(Nat) /\ \A i \in DOMAIN stack : stack[i] \in Slots
      BY DEF StackInv, ArenaOK
    <3> QED BY <3>1
  <2> QED BY <2>1 DEF StackInv, ArenaOK, TypeInv, WalkOK, CallOK, TypeOK
<1> QED BY InitStackInv, StepKeepsStackInv, StepKeepsTypes, TreeAssumption,
           <1>1, <1>2, PTL DEF Spec

-----------------------------------------------------------------------------
(* The levels of a tree.                                                   *)

Kids(ns, i) == ToSet(ns[i].kids)

\* What the decoder builds is a forest: a node is taken once, by a div that is
\* older than it.
Forest(ns, taken) ==
  /\ \A i \in DOMAIN ns :
       /\ \A k \in Kids(ns, i) : k \in DOMAIN ns /\ k \in taken /\ i < k
       /\ IsInjective(ns[i].kids)
       /\ ns[i].kids # <<>> => ns[i].kind = "div"
  /\ \A i, j \in DOMAIN ns : i # j => Kids(ns, i) \intersect Kids(ns, j) = {}


LEMMA KidsAre ==
  ASSUME NEW ns, NEW i, NEW k
  PROVE  k \in Kids(ns, i) <=> \E j \in DOMAIN ns[i].kids : k = ns[i].kids[j]
BY DEF Kids, ToSet

LevelBy(t, lev) ==
  /\ lev \in [DOMAIN t.nodes -> SUBSET DOMAIN t.nodes]
  /\ lev[1] = {t.root}
  /\ \A d \in DOMAIN t.nodes : d # 1 =>
       lev[d] = UNION {Kids(t.nodes, i) : i \in lev[d - 1]}

\* The recursion of Levels has a value.
LEMMA LevelsAre ==
  ASSUME NEW t, NEW N \in Nat \ {0}, DOMAIN t.nodes = 1 .. N, t.root \in 1 .. N,
         \A i \in 1 .. N : Kids(t.nodes, i) \subseteq 1 .. N
  PROVE  LevelBy(t, Levels(t))
<1> DEFINE S == SUBSET (1 .. N)
           below(X) == UNION {Kids(t.nodes, i) : i \in X}
           step == [p \in S \X (1 .. N - 1) |-> below(p[1])]
<1>1. N - 1 \in Nat /\ {t.root} \in S /\ 1 \in 1 .. N
  OBVIOUS
<1>2. \A X \in S : below(X) \in S
  OBVIOUS
<1>3. step \in [S \X (1 .. N - 1) -> S]
  <2>1. ASSUME NEW p \in S \X (1 .. N - 1) PROVE below(p[1]) \in S
    <3>1. p[1] \in S
      OBVIOUS
    <3> QED BY <1>2, <3>1
  <2> HIDE DEF below, S
  <2> QED BY <2>1
<1> HIDE DEF step, S
<1>4. PICK g \in [0 .. N - 1 -> S] : Iterates(step, {t.root}, N - 1, g)
  BY <1>1, <1>3, IterationExists
<1> HIDE DEF below
<1>5. ASSUME NEW d \in 1 .. N, d # 1
      PROVE  d - 1 \in 1 .. N - 1 /\ g[d - 1] = below(g[d - 2])
  <2>1. d - 1 \in 1 .. N - 1 /\ (d - 1) - 1 = d - 2 /\ d - 2 \in 0 .. N - 1
    BY <1>1, <1>5
  <2>2. g[d - 2] \in S
    BY <2>1
  <2>3. step[<<g[d - 2], d - 1>>] = below(g[d - 2])
    BY <2>1, <2>2 DEF step
  <2> QED BY <1>4, <2>1, <2>3 DEF Iterates
<1> DEFINE next(h, d) == IF d = 1 THEN {t.root} ELSE below(h[d - 1])
           value == CHOOSE h : h = [d \in DOMAIN t.nodes |-> next(h, d)]
           w == [d \in 1 .. N |-> g[d - 1]]
<1>6. \A d \in 1 .. N : w[d] = next(w, d)
  <2>1. ASSUME NEW d \in 1 .. N, d = 1 PROVE w[d] = {t.root}
    BY <1>4, <2>1 DEF Iterates
  <2>2. ASSUME NEW d \in 1 .. N, d # 1 PROVE w[d] = below(w[d - 1])
    <3>1. d - 1 \in 1 .. N /\ (d - 1) - 1 = d - 2
      BY <1>1, <2>2
    <3>2. w[d] = g[d - 1] /\ w[d - 1] = g[d - 2]
      BY <3>1
    <3> QED BY <1>5, <2>2, <3>2
  <2> HIDE DEF w
  <2> QED BY <2>1, <2>2
<1>7. w = [d \in DOMAIN t.nodes |-> next(w, d)]
  <2> HIDE DEF next
  <2> QED BY <1>6
<1>8. Levels(t) = value
  BY DEF Levels, Kids, below
<1>9. value = [d \in DOMAIN t.nodes |-> next(value, d)]
  <2> HIDE DEF next, w
  <2> QED BY <1>7
<1> HIDE DEF value, w
<1>10. \A d \in 1 .. N : value[d] = next(value, d)
  <2> HIDE DEF next
  <2> QED BY <1>9
<1>11. value[1] = {t.root} /\ \A d \in 1 .. N : d # 1 => value[d] = below(value[d - 1])
  BY <1>1, <1>10
<1>12. \A d \in 1 .. N : value[d] \in S
  <2> DEFINE R == {d \in 0 .. N : d # 0 => value[d] \in S}
  <2>1. 0 \in R
    OBVIOUS
  <2>2. ASSUME NEW d \in 0 .. N - 1, d \in R PROVE d + 1 \in R
    <3>1. d + 1 \in 1 .. N /\ (d + 1) - 1 = d /\ d + 1 \in 0 .. N
      BY <1>1
    <3>2. CASE d = 0
      <4>1. d + 1 = 1 /\ value[1] \in S
        BY <1>1, <1>11, <3>2
      <4> QED BY <3>1, <4>1
    <3>3. CASE d # 0
      <4>1. value[d] \in S /\ d + 1 # 1
        BY <2>2, <3>1, <3>3
      <4>2. below(value[d]) \in S
        BY <1>2, <4>1
      <4> QED BY <1>11, <3>1, <4>1, <4>2
    <3> QED BY <3>2, <3>3
  <2> HIDE DEF R
  <2>3. \A d \in 0 .. N : d \in R
    BY <2>1, <2>2, UpTo
  <2> QED BY <2>3 DEF R
<1>13. value \in [DOMAIN t.nodes -> SUBSET DOMAIN t.nodes]
  <2> HIDE DEF next
  <2> QED BY <1>9, <1>12 DEF S
<1> HIDE DEF next
<1> QED BY <1>8, <1>11, <1>13 DEF LevelBy, below

\* Two trees with the same edges have the same levels.
LEMMA SameLevels ==
  ASSUME NEW t, NEW u, NEW N \in Nat \ {0}, DOMAIN t.nodes = 1 .. N, DOMAIN u.nodes = 1 .. N,
         NEW a, NEW b, LevelBy(t, a), LevelBy(u, b), t.root = u.root,
         \A i \in 1 .. N : t.nodes[i].kids = u.nodes[i].kids
  PROVE  a = b
<1> DEFINE R == {d \in 0 .. N : d # 0 => a[d] = b[d]}
<1>1. 0 \in R
  OBVIOUS
<1>2. ASSUME NEW d \in 0 .. N - 1, d \in R PROVE d + 1 \in R
  <2>1. d + 1 \in 1 .. N /\ (d + 1) - 1 = d /\ d + 1 \in 0 .. N
    OBVIOUS
  <2>2. CASE d = 0
    <3>1. d + 1 = 1 /\ a[1] = b[1]
      BY <2>2 DEF LevelBy
    <3> QED BY <2>1, <3>1
  <2>3. CASE d # 0
    <3>1. a[d] = b[d] /\ a[d] \subseteq 1 .. N /\ d + 1 # 1
      BY <1>2, <2>1, <2>3 DEF LevelBy
    <3>2. /\ a[d + 1] = UNION {Kids(t.nodes, i) : i \in a[d]}
          /\ b[d + 1] = UNION {Kids(u.nodes, i) : i \in b[d]}
      BY <2>1, <3>1 DEF LevelBy
    <3>3. \A i \in a[d] : Kids(t.nodes, i) = Kids(u.nodes, i)
      BY <3>1 DEF Kids
    <3> QED BY <2>1, <3>1, <3>2, <3>3
  <2> QED BY <2>2, <2>3
<1> HIDE DEF R
<1>3. \A d \in 0 .. N : d \in R
  BY <1>1, <1>2, UpTo
<1>4. \A d \in 1 .. N : a[d] = b[d]
  BY <1>3 DEF R
<1> QED BY <1>4 DEF LevelBy

\* In a forest a node has one parent, and thus one depth below a root.
LEMMA OneDepth ==
  ASSUME NEW t, NEW N \in Nat \ {0}, DOMAIN t.nodes = 1 .. N, NEW taken,
         Forest(t.nodes, taken), t.root \notin taken, NEW lev, LevelBy(t, lev),
         NEW d \in 1 .. N, NEW e \in 1 .. N, NEW i, i \in lev[d], i \in lev[e]
  PROVE  d = e
<1> DEFINE R == {m \in 0 .. N : m # 0 => \A n \in m + 1 .. N : lev[m] \intersect lev[n] = {}}
<1>1. \A n \in 1 .. N : lev[n] \subseteq 1 .. N
  BY DEF LevelBy
<1>2. ASSUME NEW n \in 1 .. N, n # 1, NEW k \in lev[n]
      PROVE  k \in taken /\ \E j \in lev[n - 1] : j \in 1 .. N /\ k \in Kids(t.nodes, j)
  <2>1. n - 1 \in 1 .. N
    BY <1>2
  <2>4. lev[n] = UNION {Kids(t.nodes, j) : j \in lev[n - 1]}
    BY <1>2 DEF LevelBy
  <2>2. PICK j \in lev[n - 1] : k \in Kids(t.nodes, j)
    BY <1>2, <2>4
  <2>3. j \in 1 .. N
    BY <1>1, <2>1
  <2> QED BY <2>2, <2>3 DEF Forest
<1>3. 0 \in R
  OBVIOUS
<1>4. ASSUME NEW m \in 0 .. N - 1, m \in R PROVE m + 1 \in R
  <2>1. m + 1 \in 1 .. N /\ (m + 1) - 1 = m /\ m + 1 \in 0 .. N
    OBVIOUS
  <2>2. ASSUME NEW n \in (m + 1) + 1 .. N, NEW k \in lev[m + 1], k \in lev[n]
        PROVE  FALSE
    <3>1. n \in 1 .. N /\ n # 1 /\ n - 1 \in m + 1 .. N
      BY <2>1
    <3>2. k \in taken
      BY <1>2, <2>2, <3>1
    <3>3. CASE m = 0
      <4>1. lev[m + 1] = {t.root}
        BY <3>3 DEF LevelBy
      <4> QED BY <2>2, <3>2, <4>1
    <3>4. CASE m # 0
      <4>1. m + 1 # 1
        BY <3>4
      <4>2. PICK x \in lev[m] : x \in 1 .. N /\ k \in Kids(t.nodes, x)
        BY <1>2, <2>1, <2>2, <4>1
      <4>3. PICK y \in lev[n - 1] : y \in 1 .. N /\ k \in Kids(t.nodes, y)
        BY <1>2, <2>2, <3>1
      <4>4. x = y
        BY <4>2, <4>3 DEF Forest
      <4> QED BY <1>4, <3>1, <3>4, <4>2, <4>3, <4>4
    <3> QED BY <3>3, <3>4
  <2> QED BY <2>1, <2>2
<1> HIDE DEF R
<1>5. \A m \in 0 .. N : m \in R
  BY <1>3, <1>4, UpTo
<1>6. \A m \in 1 .. N : \A n \in m + 1 .. N : lev[m] \intersect lev[n] = {}
  BY <1>5 DEF R
<1>7. d < e => e \in d + 1 .. N
  OBVIOUS
<1>8. e < d => d \in e + 1 .. N
  OBVIOUS
<1> QED BY <1>6, <1>7, <1>8

\* What holds the root and the children of its members holds every level.
LEMMA LevelsInside ==
  ASSUME NEW t, NEW N \in Nat \ {0}, DOMAIN t.nodes = 1 .. N, NEW lev, LevelBy(t, lev),
         NEW X, t.root \in X, \A i \in X : \A k \in Kids(t.nodes, i) : k \in X
  PROVE  \A d \in 1 .. N : lev[d] \subseteq X
<1> DEFINE R == {d \in 0 .. N : d # 0 => lev[d] \subseteq X}
<1>1. 0 \in R
  OBVIOUS
<1>2. ASSUME NEW d \in 0 .. N - 1, d \in R PROVE d + 1 \in R
  <2>1. d + 1 \in 1 .. N /\ (d + 1) - 1 = d /\ d + 1 \in 0 .. N
    OBVIOUS
  <2>2. CASE d = 0
    BY <2>1, <2>2 DEF LevelBy
  <2>3. CASE d # 0
    <3>1. lev[d] \subseteq X /\ d + 1 # 1
      BY <1>2, <2>1, <2>3
    <3>2. lev[d + 1] = UNION {Kids(t.nodes, i) : i \in lev[d]}
      BY <2>1, <3>1 DEF LevelBy
    <3> QED BY <2>1, <3>1, <3>2
  <2> QED BY <2>2, <2>3
<1> HIDE DEF R
<1>3. \A d \in 0 .. N : d \in R
  BY <1>1, <1>2, UpTo
<1> QED BY <1>3 DEF R

-----------------------------------------------------------------------------
(* The decoder builds a forest.                                            *)

LEMMA FailKeepsForest ==
  ASSUME NEW status, Fail(status)
  PROVE  Forest(nodes, moved)'
<1>1. nodes' = <<>>
  BY DEF Fail, Discard
<1>2. DOMAIN nodes' = {}
  BY <1>1
<1> QED BY <1>2 DEF Forest

LEMMA SameForest ==
  ASSUME NEW ns, NEW ms, NEW taken, Forest(ns, taken), DOMAIN ms = DOMAIN ns,
         \A i \in DOMAIN ns : ms[i].kids = ns[i].kids /\ ms[i].kind = ns[i].kind
  PROVE  Forest(ms, taken)
<1>1. \A i \in DOMAIN ns : Kids(ms, i) = Kids(ns, i)
  BY DEF Kids
<1> QED BY <1>1 DEF Forest

LEMMA PushKeepsForest ==
  ASSUME StackInv, Forest(nodes, moved), NEW n, n.kids = <<>>, PushNode(n)
  PROVE  Forest(nodes, moved)'
<1> DEFINE h == Len(nodes) + 1
<1>1. nodes \in Seq(Node) /\ nodes' = Append(nodes, n) /\ moved' = moved
  BY DEF StackInv, ArenaOK, PushNode
<1>2. /\ DOMAIN nodes' = DOMAIN nodes \union {h} /\ nodes'[h] = n
      /\ \A i \in DOMAIN nodes : nodes'[i] = nodes[i] /\ i # h
  BY <1>1
<1> HIDE DEF h
<1>3. DOMAIN n.kids = {}
  OBVIOUS
<1>4. Kids(nodes', h) = {} /\ IsInjective(nodes'[h].kids)
  BY <1>2, <1>3 DEF Kids, ToSet, IsInjective
<1>5. \A i \in DOMAIN nodes : Kids(nodes', i) = Kids(nodes, i)
  BY <1>2 DEF Kids
<1>6. ASSUME NEW i \in DOMAIN nodes'
      PROVE  /\ \A k \in Kids(nodes', i) : k \in DOMAIN nodes' /\ k \in moved' /\ i < k
             /\ IsInjective(nodes'[i].kids)
             /\ nodes'[i].kids # <<>> => nodes'[i].kind = "div"
  <2>1. CASE i = h
    BY <1>2, <1>4, <2>1
  <2>2. CASE i # h
    BY <1>1, <1>2, <1>5, <2>2 DEF Forest
  <2> QED BY <2>1, <2>2
<1>7. \A i, j \in DOMAIN nodes' : i # j => Kids(nodes', i) \intersect Kids(nodes', j) = {}
  BY <1>2, <1>4, <1>5 DEF Forest
<1> QED BY <1>6, <1>7 DEF Forest

LEMMA TopKeepsForest ==
  ASSUME StackInv, Forest(nodes, moved),
         \/ OpSetStyle \/ \E k \in Keys : OpSetKey(k)
         \/ \E r \in Ranges : OpTextRun(r)
         \/ \E o \in Carets \union {NoCaret} : OpSetTextRow(o)
  PROVE  Forest(nodes, moved)'
<1>1. CASE \E status : Fail(status)
  BY <1>1, FailKeepsForest
<1>2. CASE ~\E status : Fail(status)
  <2>1. /\ stack # <<>> /\ moved' = moved
        /\ \E x : /\ nodes' = [nodes EXCEPT ![Top] = x]
                  /\ x.kids = nodes[Top].kids /\ x.kind = nodes[Top].kind
    BY <1>2, TopUpdate
  <2>2. Top \in DOMAIN nodes
    BY <2>1, TopIsLive, SlotIsNode
  <2>3. /\ DOMAIN nodes' = DOMAIN nodes
        /\ \A i \in DOMAIN nodes : nodes'[i].kids = nodes[i].kids
                                   /\ nodes'[i].kind = nodes[i].kind
    BY <2>1, <2>2
  <2> QED BY <2>1, <2>3, SameForest
<1> QED BY <1>1, <1>2

\* A child is live and younger than its parent, so it is no one's child yet.
LEMMA AddChildKeepsForest ==
  ASSUME StackInv, Forest(nodes, moved), OpAddChild
  PROVE  Forest(nodes, moved)'
<1>1. CASE AddChildStatus = "OK"
  <2> DEFINE n == Len(stack)
             p == stack[n - 1]
             c == Top
             kids == Append(nodes[p].kids, c)
             x == [nodes[p] EXCEPT !.kids = kids]
  <2>1. stack \in Seq(Nat) /\ ~(n < 2)
    BY <1>1 DEF AddChildStatus, StackInv, ArenaOK
  <2>2. n - 1 \in DOMAIN stack /\ n \in DOMAIN stack /\ n - 1 < n /\ stack # <<>>
    BY <2>1
  <2>3. c = stack[n] /\ c \in Slots /\ c \notin moved
    BY <2>2, TopIsLive
  <2>4. p < c /\ p \notin moved /\ p \in Slots
    BY <2>2, <2>3 DEF StackInv, ArenaOK, StackSound
  <2>5. /\ p \in DOMAIN nodes /\ c \in DOMAIN nodes /\ nodes[p] \in Node
        /\ DOMAIN nodes = Slots
    BY <2>3, <2>4, SlotIsNode DEF StackInv, ArenaOK, Slots
  <2>6. nodes[p].kind = "div"
    BY <1>1, <2>1, <2>3, <2>4 DEF AddChildStatus, Slots
  <2>7. nodes' = [nodes EXCEPT ![p] = x] /\ moved' = moved \union {c}
    BY <1>1 DEF OpAddChild
  <2>8. nodes[p].kids \in Seq(Nat) /\ c \in Nat
    BY <2>3, <2>5 DEF Node, Slots
  <2> HIDE DEF n, p, c
  <2>9. x.kids = kids /\ x.kind = "div"
    BY <2>5, <2>6 DEF Node
  <2>10. /\ DOMAIN kids = DOMAIN nodes[p].kids \union {Len(nodes[p].kids) + 1}
         /\ Len(nodes[p].kids) + 1 \notin DOMAIN nodes[p].kids
         /\ kids[Len(nodes[p].kids) + 1] = c
         /\ \A j \in DOMAIN nodes[p].kids : kids[j] = nodes[p].kids[j]
    BY <2>8
  <2> HIDE DEF kids, x
  <2>11. /\ DOMAIN nodes' = DOMAIN nodes /\ nodes'[p] = x
         /\ \A i \in DOMAIN nodes : i # p => nodes'[i] = nodes[i]
    BY <2>5, <2>7
  <2>12. /\ Kids(nodes', p) = Kids(nodes, p) \union {c}
         /\ \A i \in DOMAIN nodes : i # p => Kids(nodes', i) = Kids(nodes, i)
    <3>1. {kids[j] : j \in DOMAIN kids} = {nodes[p].kids[j] : j \in DOMAIN nodes[p].kids} \union {c}
      BY <2>10
    <3> QED BY <2>9, <2>11, <3>1 DEF Kids, ToSet
  <2>13. /\ \A i \in DOMAIN nodes : c \notin Kids(nodes, i)
         /\ \A i, j \in DOMAIN nodes : i # j => Kids(nodes, i) \intersect Kids(nodes, j) = {}
    BY <2>3 DEF Forest
  <2>14. IsInjective(kids)
    <3>1. IsInjective(nodes[p].kids)
      BY <2>5 DEF Forest
    <3>2. \A j \in DOMAIN nodes[p].kids : nodes[p].kids[j] # c
      BY <2>5, <2>13 DEF Kids, ToSet
    <3> QED BY <2>10, <3>1, <3>2 DEF IsInjective
  <2>15. ASSUME NEW i \in DOMAIN nodes'
         PROVE  /\ \A k \in Kids(nodes', i) : k \in DOMAIN nodes' /\ k \in moved' /\ i < k
                /\ IsInjective(nodes'[i].kids)
                /\ nodes'[i].kids # <<>> => nodes'[i].kind = "div"
    <3>1. CASE i = p
      BY <2>4, <2>5, <2>7, <2>9, <2>11, <2>12, <2>14, <3>1 DEF Forest
    <3>2. CASE i # p
      BY <2>7, <2>11, <2>12, <3>2 DEF Forest
    <3> QED BY <3>1, <3>2
  <2>16. \A i, j \in DOMAIN nodes' : i # j => Kids(nodes', i) \intersect Kids(nodes', j) = {}
    BY <2>5, <2>11, <2>12, <2>13
  <2> QED BY <2>15, <2>16 DEF Forest
<1>2. CASE AddChildStatus # "OK"
  BY <1>2, FailKeepsForest DEF OpAddChild
<1> QED BY <1>1, <1>2

LEMMA DecodeKeepsForest ==
  ASSUME StackInv, Forest(nodes, moved), Decode
  PROVE  Forest(nodes, moved)'
<1>1. CASE OpDiv \/ OpLeaf \/ \E c \in Contents : OpText(c)
  <2>1. Div.kids = <<>> /\ Leaf.kids = <<>> /\ \A c : Text(c).kids = <<>>
    BY DEF Div, Leaf, Text
  <2> QED BY <1>1, <2>1, PushKeepsForest DEF OpDiv, OpLeaf, OpText
<1>2. CASE OpSetRoot
  <2>1. (\E status : Fail(status)) \/ UNCHANGED <<nodes, moved>>
    BY <1>2 DEF OpSetRoot
  <2> QED BY <2>1, FailKeepsForest
<1>3. CASE \E s \in MalformedStatuses : Malformed(s)
  BY <1>3, FailKeepsForest DEF Malformed
<1> QED BY <1>1, <1>2, <1>3, TopKeepsForest, AddChildKeepsForest DEF Decode

-----------------------------------------------------------------------------
(* The walk has met, or has still to meet, the root and the children of     *)
(* every node it met: when its stack is empty it has met the whole tree.    *)

\* The tree that the walk validates.
Built == [root |-> root, nodes |-> nodes]

\* A node that the walk has met, or has still to meet.
Met(k) == k \in visited \/ \E e \in ToSet(walk) : e.node = k

WalkInv ==
  /\ phase # "walk" => walk = <<>> /\ visited = {} /\ seen = {}
  /\ phase = "walk" =>
       /\ root \in Slots
       /\ Met(root)
       /\ \A i \in visited : \A k \in Kids(nodes, i) : Met(k)
       /\ \A e \in ToSet(walk) : /\ 1 <= e.depth /\ e.depth <= e.node
                                 /\ e.node \in Levels(Built)[e.depth]
       /\ \A i \in visited : \E d \in Slots : d <= MaxDepth /\ i \in Levels(Built)[d]
       /\ \A i \in visited : nodes[i].key # NoKey => nodes[i].key \in seen
       /\ \A i, j \in visited :
            i # j /\ nodes[i].key # NoKey => nodes[i].key # nodes[j].key

LEMMA BuiltLevels ==
  ASSUME StackInv, Forest(nodes, moved), root \in Slots
  PROVE  /\ Len(nodes) \in Nat \ {0} /\ DOMAIN nodes = 1 .. Len(nodes)
         /\ LevelBy(Built, Levels(Built))
<1> DEFINE N == Len(nodes)
<1>1. nodes \in Seq(Node)
  BY DEF StackInv, ArenaOK
<1>2. N \in Nat \ {0} /\ DOMAIN nodes = 1 .. N
  BY <1>1 DEF Slots
<1>3. Built.nodes = nodes /\ Built.root = root /\ root \in 1 .. N
  BY DEF Built, Slots
<1> HIDE DEF N
<1>4. \A i \in 1 .. N : Kids(nodes, i) \subseteq 1 .. N
  BY <1>2 DEF Forest
<1>5. LevelBy(Built, Levels(Built))
  BY <1>2, <1>3, <1>4, LevelsAre
<1> QED BY <1>2, <1>5 DEF N

\* Taking the last item of the walk and adding others.
LEMMA WalkItems ==
  ASSUME NEW S, NEW w \in Seq(S), w # <<>>, NEW x \in Seq(S)
  PROVE  /\ ToSet(Front(w) \o x) \subseteq ToSet(w) \union ToSet(x)
         /\ ToSet(w) \subseteq ToSet(Front(w) \o x) \union {Last(w)}
         /\ ToSet(x) \subseteq ToSet(Front(w) \o x)
<1> DEFINE n == Len(w)
           f == Front(w)
           y == f \o x
<1>1. n \in Nat \ {0} /\ DOMAIN w = 1 .. n
  OBVIOUS
<1>2. f \in Seq(S)
  BY EndsOfSeq
<1>3. Last(w) = w[n]
  BY DEF Last
<1>4. Len(f) = n - 1 /\ \A i \in 1 .. n - 1 : f[i] = w[i]
  BY <1>1 DEF Front
<1> HIDE DEF f, n
<1>5. /\ Len(x) \in Nat /\ Len(y) = n - 1 + Len(x) /\ DOMAIN x = 1 .. Len(x)
      /\ DOMAIN y = 1 .. n - 1 + Len(x)
      /\ \A i \in 1 .. n - 1 : y[i] = f[i]
      /\ \A i \in 1 .. Len(x) : y[n - 1 + i] = x[i]
  <2>1. \A i \in 1 .. Len(f) + Len(x) : y[i] = IF i <= Len(f) THEN f[i] ELSE x[i - Len(f)]
    BY <1>2
  <2>2. Len(y) = Len(f) + Len(x) /\ Len(x) \in Nat /\ DOMAIN y = 1 .. Len(f) + Len(x)
    BY <1>2
  <2> HIDE DEF y
  <2>3. \A i \in 1 .. Len(x) : /\ n - 1 + i \in 1 .. n - 1 + Len(x)
                               /\ ~(n - 1 + i <= n - 1) /\ (n - 1 + i) - (n - 1) = i
    BY <1>1
  <2>4. \A i \in 1 .. n - 1 : i \in 1 .. n - 1 + Len(x) /\ i <= n - 1
    BY <1>1, <2>2
  <2> QED BY <1>4, <2>1, <2>2, <2>3, <2>4
<1> HIDE DEF y
<1>6. ASSUME NEW i \in DOMAIN y
      PROVE  y[i] \in ToSet(w) \union ToSet(x)
  <2>1. CASE i \in 1 .. n - 1
    BY <1>1, <1>4, <1>5, <2>1 DEF ToSet
  <2>2. CASE i \notin 1 .. n - 1
    <3> DEFINE j == i - (n - 1)
    <3>1. j \in 1 .. Len(x) /\ n - 1 + j = i
      BY <1>1, <1>5, <2>2
    <3> HIDE DEF j
    <3> QED BY <1>5, <3>1 DEF ToSet
  <2> QED BY <2>1, <2>2
<1>7. ASSUME NEW i \in DOMAIN w
      PROVE  w[i] \in ToSet(y) \union {w[n]}
  <2>1. CASE i = n
    BY <2>1
  <2>2. CASE i # n
    <3>1. i \in 1 .. n - 1 /\ i \in DOMAIN y
      BY <1>1, <1>5, <2>2
    <3> QED BY <1>4, <1>5, <3>1 DEF ToSet
  <2> QED BY <2>1, <2>2
<1>8. ASSUME NEW i \in DOMAIN x
      PROVE  x[i] \in ToSet(y)
  <2>1. n - 1 + i \in DOMAIN y
    BY <1>1, <1>5
  <2> QED BY <1>5, <2>1 DEF ToSet
<1> QED BY <1>3, <1>6, <1>7, <1>8 DEF ToSet, f, y

LEMMA FailKeepsWalk ==
  ASSUME NEW status, Fail(status)
  PROVE  WalkInv'
BY DEF Fail, Discard, WalkInv

\* The walk starts at the root, on the first level.
LEMMA EndKeepsWalk ==
  ASSUME StackInv, Forest(nodes, moved), WalkInv, EndOfBuffer
  PROVE  WalkInv'
<1>1. CASE \E status : Fail(status)
  BY <1>1, FailKeepsWalk
<1>2. CASE ~\E status : Fail(status)
  <2> DEFINE e == [node |-> root, depth |-> 1]
  <2>1. /\ phase = "decode" /\ root # 0 /\ phase' = "walk" /\ walk' = <<e>>
        /\ nodes' = nodes /\ root' = root /\ visited' = visited /\ seen' = seen
    BY <1>2 DEF EndOfBuffer
  <2>2. visited' = {} /\ Built' = Built
    BY <2>1 DEF WalkInv, Built
  <2>3. root \in Slots
    BY <2>1 DEF StackInv, ArenaOK
  <2>4. ToSet(walk') = {e}
    BY <2>1 DEF ToSet
  <2>5. e.node \in Levels(Built)[1]
    BY <2>3, BuiltLevels DEF LevelBy, Built
  <2>6. e.node = root /\ e.depth = 1
    OBVIOUS
  <2>7. 1 <= root
    BY <2>3 DEF Slots
  <2> HIDE DEF e
  <2>8. Met(root)'
    BY <2>1, <2>4, <2>6 DEF Met
  <2>9. root' \in Slots'
    BY <2>1, <2>3 DEF Slots
  <2>10. \A x \in ToSet(walk') : /\ 1 <= x.depth /\ x.depth <= x.node
                                 /\ x.node \in Levels(Built')[x.depth]
    BY <2>2, <2>4, <2>5, <2>6, <2>7
  <2> QED BY <2>1, <2>2, <2>8, <2>9, <2>10 DEF WalkInv
<1> QED BY <1>1, <1>2

\* A node met is at its depth, and its children are one below.
LEMMA VisitKeepsWalk ==
  ASSUME StackInv, TypeInv, TreeAssumption, Forest(nodes, moved), WalkInv, Visit
  PROVE  WalkInv'
<1> DEFINE at == Last(walk)
           A == at.node
           D == at.depth
           n == nodes[A]
           Item == [node : Slots, depth : Nat]
           next == [i \in DOMAIN n.kids |-> [node |-> n.kids[i], depth |-> D + 1]]
<1>1. CASE \E status : Fail(status)
  BY <1>1, FailKeepsWalk
<1>2. CASE ~\E status : Fail(status)
  <2>1. /\ phase = "walk" /\ phase' = "walk" /\ walk # <<>>
        /\ ~(D > MaxDepth) /\ ~(n.key # NoKey /\ n.key \in seen)
        /\ seen' = IF n.key = NoKey THEN seen ELSE seen \union {n.key}
        /\ visited' = visited \union {A}
        /\ walk' = Front(walk) \o next
        /\ nodes' = nodes /\ root' = root
    BY <1>2 DEF Visit
  <2>2. walk \in Seq(Item)
    BY DEF TypeInv, WalkOK
  <2>3. at \in Item
    BY <2>1, <2>2, EndsOfSeq
  <2>4. A \in Slots /\ D \in Nat /\ A \in DOMAIN nodes
    BY <2>3, SlotIsNode
  <2>5. at \in ToSet(walk)
    <3>1. at = walk[Len(walk)] /\ Len(walk) \in DOMAIN walk
      BY <2>1, <2>2 DEF Last
    <3> HIDE DEF at
    <3> QED BY <3>1 DEF ToSet
  <2>6. root \in Slots /\ 1 <= D /\ D <= A /\ A \in Levels(Built)[D]
    BY <2>1, <2>5 DEF WalkInv
  <2>7. n \in Node /\ \A j \in DOMAIN n.kids : n.kids[j] \in Slots
    BY <2>4, SlotIsNode DEF TypeInv, KidsOK
  <2>8. next \in Seq(Item)
    <3>1. DOMAIN n.kids = 1 .. Len(n.kids) /\ Len(n.kids) \in Nat /\ D + 1 \in Nat
      BY <2>4, <2>7 DEF Node
    <3> HIDE DEF n, A, D
    <3>2. \A i \in 1 .. Len(n.kids) : [node |-> n.kids[i], depth |-> D + 1] \in Item
      BY <2>7, <3>1
    <3>3. next \in [1 .. Len(n.kids) -> Item]
      BY <3>1, <3>2
    <3> HIDE DEF next, Item
    <3> QED BY <3>1, <3>3
  <2>9. \A e \in ToSet(next) : e.depth = D + 1 /\ e.node \in Kids(nodes, A)
    <3> SUFFICES ASSUME NEW e \in ToSet(next)
                 PROVE  e.depth = D + 1 /\ e.node \in Kids(nodes, A)
      OBVIOUS
    <3>1. PICK j \in DOMAIN n.kids : e = [node |-> n.kids[j], depth |-> D + 1]
      BY DEF ToSet
    <3>2. e.depth = D + 1 /\ e.node = n.kids[j]
      BY <3>1
    <3> QED BY <3>2, KidsAre
  <2>10. \A k \in Kids(nodes, A) : \E e \in ToSet(next) : e.node = k
    <3> SUFFICES ASSUME NEW k \in Kids(nodes, A)
                 PROVE  \E e \in ToSet(next) : e.node = k
      OBVIOUS
    <3>1. PICK j \in DOMAIN n.kids : k = n.kids[j]
      BY KidsAre
    <3>2. next[j].node = k /\ next[j] \in ToSet(next)
      BY <3>1 DEF ToSet
    <3> QED BY <3>2
  <2> HIDE DEF next, Item, n
  <2>11. /\ ToSet(walk') \subseteq ToSet(walk) \union ToSet(next)
         /\ ToSet(walk) \subseteq ToSet(walk') \union {at}
         /\ ToSet(next) \subseteq ToSet(walk')
    BY <2>1, <2>2, <2>8, WalkItems
  <2> HIDE DEF at
  <2>12. /\ Slots' = Slots /\ Built' = Built
         /\ \A i : Kids(nodes', i) = Kids(nodes, i)
    BY <2>1 DEF Slots, Built, Kids
  <2>13. ASSUME NEW k, Met(k)
         PROVE  Met(k)'
    <3>1. CASE k \in visited
      BY <2>1, <3>1 DEF Met
    <3>2. CASE k \notin visited
      <4>1. PICK e \in ToSet(walk) : e.node = k
        BY <2>13, <3>2 DEF Met
      <4>2. CASE e = at
        BY <2>1, <4>1, <4>2 DEF Met
      <4>3. CASE e # at
        BY <2>11, <4>1, <4>3 DEF Met
      <4> QED BY <4>2, <4>3
    <3> QED BY <3>1, <3>2
  <2>14. Met(root)'
    BY <2>1, <2>13 DEF WalkInv
  <2>15. ASSUME NEW i \in visited', NEW k \in Kids(nodes', i)
         PROVE  Met(k)'
    <3>1. CASE i \in visited
      BY <2>1, <2>12, <2>13, <2>15, <3>1 DEF WalkInv
    <3>2. CASE i = A
      BY <2>10, <2>11, <2>12, <2>15, <3>2 DEF Met
    <3> QED BY <2>1, <2>15, <3>1, <3>2
  <2>16. /\ Len(nodes) \in Nat \ {0} /\ DOMAIN nodes = 1 .. Len(nodes)
         /\ LevelBy(Built, Levels(Built))
    BY <2>6, BuiltLevels
  <2>17. D \in 1 .. Len(nodes)
    BY <2>4, <2>6, <2>16 DEF Slots
  <2>18. ASSUME NEW k \in Kids(nodes, A)
         PROVE  D + 1 <= k /\ k \in Levels(Built)[D + 1]
    <3>1. k \in 1 .. Len(nodes) /\ A < k /\ A \in 1 .. Len(nodes)
      BY <2>4, <2>16 DEF Forest
    <3>2. D + 1 <= k /\ D + 1 \in 1 .. Len(nodes) /\ D + 1 # 1 /\ (D + 1) - 1 = D
      BY <2>4, <2>6, <2>16, <2>17, <3>1
    <3>3. Built.nodes = nodes
      BY DEF Built
    <3>4. Levels(Built)[D + 1] = UNION {Kids(nodes, i) : i \in Levels(Built)[D]}
      BY <2>16, <3>2, <3>3 DEF LevelBy
    <3> QED BY <2>6, <3>2, <3>4
  <2>19. ASSUME NEW e \in ToSet(walk')
         PROVE  /\ 1 <= e.depth /\ e.depth <= e.node
                /\ e.node \in Levels(Built')[e.depth]
    <3>1. CASE e \in ToSet(walk)
      BY <2>1, <2>12, <3>1 DEF WalkInv
    <3>2. CASE e \in ToSet(next)
      BY <2>4, <2>9, <2>12, <2>18, <3>2
    <3> QED BY <2>11, <3>1, <3>2
  <2>20. ASSUME NEW i \in visited'
         PROVE  \E d \in Slots' : d <= MaxDepth /\ i \in Levels(Built')[d]
    <3>1. CASE i \in visited
      BY <2>1, <2>12, <3>1 DEF WalkInv
    <3>2. CASE i = A
      <4>1. D \in Slots /\ D <= MaxDepth
        BY <2>1, <2>4, <2>17 DEF Slots, TreeAssumption
      <4> QED BY <2>6, <2>12, <3>2, <4>1
    <3> QED BY <2>1, <2>20, <3>1, <3>2
  <2>21. ASSUME NEW i \in visited'
         PROVE  nodes'[i].key # NoKey => nodes'[i].key \in seen'
    <3>1. CASE i \in visited
      BY <2>1, <3>1 DEF WalkInv
    <3>2. CASE i = A
      BY <2>1, <3>2 DEF n
    <3> QED BY <2>1, <2>21, <3>1, <3>2
  <2>22. ASSUME NEW i \in visited', NEW j \in visited', i # j, nodes[i].key # NoKey
         PROVE  nodes[i].key # nodes[j].key
    <3>1. CASE i \in visited /\ j \in visited
      BY <2>1, <2>22, <3>1 DEF WalkInv
    <3>2. CASE i \in visited /\ j = A
      <4>1. nodes[i].key \in seen
        BY <2>1, <2>22, <3>2 DEF WalkInv
      <4> QED BY <2>1, <2>22, <3>2, <4>1 DEF n
    <3>3. CASE i = A /\ j \in visited
      <4>1. nodes[j].key # NoKey => nodes[j].key \in seen
        BY <2>1, <3>3 DEF WalkInv
      <4> QED BY <2>1, <2>22, <3>3, <4>1 DEF n
    <3> QED BY <2>1, <2>22, <3>1, <3>2, <3>3
  <2> HIDE DEF A, D
  <2>23. root' \in Slots'
    BY <2>1, <2>6, <2>12
  <2>24. \A i, j \in visited' :
           i # j /\ nodes'[i].key # NoKey => nodes'[i].key # nodes'[j].key
    BY <2>1, <2>22
  <2> QED BY <2>1, <2>14, <2>15, <2>19, <2>20, <2>21, <2>23, <2>24 DEF WalkInv
<1> QED BY <1>1, <1>2

\* A decode step fails, or goes on decoding before any walk.
LEMMA DecodeKeepsWalk ==
  ASSUME WalkInv, Decode
  PROVE  WalkInv'
<1>1. phase = "decode" /\ (Continue \/ \E status : Fail(status))
  BY DEF Decode, OpDiv, OpLeaf, OpText, OpAddChild, OpSetRoot, OpSetStyle, OpSetKey,
         OpTextRun, OpSetTextRow, Malformed, PushNode, OnTop
<1>2. CASE Continue
  BY <1>1, <1>2 DEF Continue, WalkInv
<1> QED BY <1>1, <1>2, FailKeepsWalk

\* A tree in VIEWS.
Shaped(t) ==
  /\ t = [root |-> t.root, nodes |-> t.nodes]
  /\ t.nodes \in Seq(Node) /\ t.root \in DOMAIN t.nodes
  /\ \A i \in DOMAIN t.nodes : Kids(t.nodes, i) \subseteq DOMAIN t.nodes

TreesInv ==
  /\ ViewsKept
  /\ \A v \in Views : trees[v] # NoTree => Shaped(trees[v]) /\ WellFormed(trees[v])

ShapeInv == Forest(nodes, moved) /\ WalkInv /\ TreesInv

LEMMA ShapedLevels ==
  ASSUME NEW t, Shaped(t)
  PROVE  /\ Len(t.nodes) \in Nat \ {0} /\ DOMAIN t.nodes = 1 .. Len(t.nodes)
         /\ LevelBy(t, Levels(t))
<1> DEFINE N == Len(t.nodes)
<1>1. t.nodes \in Seq(Node) /\ t.root \in DOMAIN t.nodes
  BY DEF Shaped
<1>2. N \in Nat \ {0} /\ DOMAIN t.nodes = 1 .. N
  BY <1>1
<1> HIDE DEF N
<1>3. t.root \in 1 .. N /\ \A i \in 1 .. N : Kids(t.nodes, i) \subseteq 1 .. N
  BY <1>1, <1>2 DEF Shaped
<1>4. LevelBy(t, Levels(t))
  BY <1>2, <1>3, LevelsAre
<1> QED BY <1>2, <1>4 DEF N

\* When nothing is left to visit, the tree is as the renderers want it.
LEMMA BuiltIsWellFormed ==
  ASSUME StackInv, TreeAssumption, Forest(nodes, moved), WalkInv, Swap
  PROVE  Shaped(Built) /\ WellFormed(Built)
<1> DEFINE N == Len(nodes)
           lev == Levels(Built)
<1>1. phase = "walk" /\ walk = <<>>
  BY DEF Swap
<1>2. ToSet(walk) = {}
  BY <1>1 DEF ToSet
<1>3. \A k : Met(k) => k \in visited
  BY <1>2 DEF Met
<1>4. root \in Slots /\ root \in visited
  BY <1>1, <1>3 DEF WalkInv
<1>5. Built.nodes = nodes /\ Built.root = root
  BY DEF Built
<1>6. N \in Nat \ {0} /\ DOMAIN nodes = 1 .. N /\ LevelBy(Built, lev)
  BY <1>4, BuiltLevels
<1>7. \A d \in 1 .. N : lev[d] \subseteq visited
  <2>1. \A i \in visited : \A k \in Kids(nodes, i) : k \in visited
    BY <1>1, <1>3 DEF WalkInv
  <2> HIDE DEF N, lev
  <2> QED BY <1>4, <1>5, <1>6, <2>1, LevelsInside
<1>8. root \notin moved
  BY DEF StackInv, StackSound
<1>9. Shaped(Built)
  <2>1. Built = [root |-> Built.root, nodes |-> Built.nodes]
    BY DEF Built
  <2>2. nodes \in Seq(Node) /\ root \in DOMAIN nodes
    BY <1>4, SlotIsNode DEF StackInv, ArenaOK
  <2>3. \A i \in DOMAIN nodes : Kids(nodes, i) \subseteq DOMAIN nodes
    BY DEF Forest
  <2> QED BY <1>5, <2>1, <2>2, <2>3 DEF Shaped
<1>10. ASSUME NEW d \in 1 .. N, d > MaxDepth, NEW i \in lev[d]
       PROVE  FALSE
  <2>1. i \in visited
    BY <1>7
  <2>2. PICK e \in Slots : e <= MaxDepth /\ i \in lev[e]
    BY <1>1, <2>1 DEF WalkInv
  <2>3. e \in 1 .. N
    BY <2>2 DEF Slots
  <2> HIDE DEF lev, N
  <2>4. d = e
    BY <1>5, <1>6, <1>8, <1>10, <2>2, <2>3, OneDepth
  <2> QED BY <1>6, <1>10, <2>2, <2>3, <2>4 DEF TreeAssumption
<1>11. Members(Built) = UNION {lev[d] : d \in 1 .. N}
  BY <1>5, <1>6 DEF Members
<1>12. Members(Built) \subseteq visited /\ Members(Built) \subseteq DOMAIN nodes
  <2>1. \A d \in 1 .. N : lev[d] \subseteq DOMAIN nodes
    BY <1>5, <1>6 DEF LevelBy
  <2> HIDE DEF lev, N
  <2> QED BY <1>7, <1>11, <2>1
<1>13. ASSUME NEW i \in Members(Built), NEW j \in Members(Built), i # j
       PROVE  /\ nodes[i].key # NoKey => nodes[i].key # nodes[j].key
              /\ ToSet(nodes[i].kids) \intersect ToSet(nodes[j].kids) = {}
  <2>1. i \in visited /\ j \in visited /\ i \in DOMAIN nodes /\ j \in DOMAIN nodes
    BY <1>12
  <2>2. nodes[i].key # NoKey => nodes[i].key # nodes[j].key
    BY <1>1, <1>13, <2>1 DEF WalkInv
  <2>3. Kids(nodes, i) \intersect Kids(nodes, j) = {}
    BY <1>13, <2>1 DEF Forest
  <2> QED BY <2>2, <2>3 DEF Kids
<1>14. \A i \in Members(Built) :
         IsInjective(nodes[i].kids) /\ (nodes[i].kids # <<>> => nodes[i].kind = "div")
  BY <1>12 DEF Forest
<1>15. \A d \in 1 .. N : d > MaxDepth => lev[d] = {}
  BY <1>10
<1> HIDE DEF lev, N
<1>16. WellFormed(Built)
  BY <1>5, <1>6, <1>13, <1>14, <1>15 DEF WellFormed, lev
<1> QED BY <1>9, <1>16

\* A tree with the same edges, keys and kinds.
LEMMA SameShape ==
  ASSUME NEW t, NEW u, Shaped(t), Shaped(u), WellFormed(t), u.root = t.root,
         DOMAIN u.nodes = DOMAIN t.nodes,
         \A i \in DOMAIN t.nodes : /\ u.nodes[i].kids = t.nodes[i].kids
                                   /\ u.nodes[i].key = t.nodes[i].key
                                   /\ u.nodes[i].kind = t.nodes[i].kind
  PROVE  WellFormed(u)
<1> DEFINE N == Len(t.nodes)
<1>1. N \in Nat \ {0} /\ DOMAIN t.nodes = 1 .. N /\ LevelBy(t, Levels(t))
  BY ShapedLevels
<1>2. LevelBy(u, Levels(u))
  BY ShapedLevels
<1> HIDE DEF N
<1>3. Levels(u) = Levels(t)
  BY <1>1, <1>2, SameLevels
<1>4. Members(u) = Members(t)
  BY <1>3 DEF Members
<1>5. Members(t) \subseteq DOMAIN t.nodes
  BY <1>1 DEF Members, LevelBy
<1>6. \A i \in Members(t) : /\ u.nodes[i].kids = t.nodes[i].kids
                            /\ u.nodes[i].key = t.nodes[i].key
                            /\ u.nodes[i].kind = t.nodes[i].kind
  BY <1>5
<1>7. \A d \in DOMAIN u.nodes : d > MaxDepth => Levels(u)[d] = {}
  BY <1>3 DEF WellFormed
<1>8. ASSUME NEW i \in Members(u), NEW j \in Members(u), i # j
      PROVE  /\ u.nodes[i].key # NoKey => u.nodes[i].key # u.nodes[j].key
             /\ ToSet(u.nodes[i].kids) \intersect ToSet(u.nodes[j].kids) = {}
  BY <1>4, <1>6, <1>8 DEF WellFormed
<1>9. ASSUME NEW i \in Members(u)
      PROVE  /\ IsInjective(u.nodes[i].kids)
             /\ u.nodes[i].kids # <<>> => u.nodes[i].kind = "div"
  BY <1>4, <1>6 DEF WellFormed
<1> QED BY <1>7, <1>8, <1>9 DEF WellFormed

LEMMA PatchKeepsShape ==
  ASSUME NEW t, Shaped(t), WellFormed(t), NEW i \in DOMAIN t.nodes, NEW c \in SUBSET Nat,
         NEW v, v = [t EXCEPT !.nodes[i].content = c]
  PROVE  Shaped(v) /\ WellFormed(v)
<1> DEFINE x == [t.nodes[i] EXCEPT !.content = c]
           u == v
<1>1. /\ t = [root |-> t.root, nodes |-> t.nodes]
      /\ t.nodes \in Seq(Node) /\ t.root \in DOMAIN t.nodes
  BY DEF Shaped
<1>2. t.nodes[i] \in Node
  BY <1>1
<1>3. /\ x \in Node /\ x.kids = t.nodes[i].kids /\ x.key = t.nodes[i].key
      /\ x.kind = t.nodes[i].kind
  BY <1>2 DEF Node
<1>4. u = [root |-> t.root, nodes |-> [t.nodes EXCEPT ![i] = x]]
  BY <1>1
<1> HIDE DEF x
<1>5. u.root = t.root /\ u.nodes = [t.nodes EXCEPT ![i] = x]
  BY <1>4
<1>6. u = [root |-> u.root, nodes |-> u.nodes]
  BY <1>4, <1>5
<1>7. u.nodes \in Seq(Node)
  <2>1. i \in 1 .. Len(t.nodes) /\ x \in Node
    BY <1>1, <1>3
  <2>2. [t.nodes EXCEPT ![i] = x] \in Seq(Node)
    BY <1>1, <2>1, ExceptSeq
  <2> QED BY <1>5, <2>2
<1>8. /\ DOMAIN u.nodes = DOMAIN t.nodes
      /\ \A j \in DOMAIN t.nodes : /\ u.nodes[j].kids = t.nodes[j].kids
                                   /\ u.nodes[j].key = t.nodes[j].key
                                   /\ u.nodes[j].kind = t.nodes[j].kind
  BY <1>3, <1>5
<1>9. \A j \in DOMAIN t.nodes : Kids(u.nodes, j) \subseteq DOMAIN t.nodes
  BY <1>8 DEF Kids, Shaped
<1>10. Shaped(u)
  BY <1>1, <1>5, <1>6, <1>7, <1>8, <1>9 DEF Shaped
<1>11. u.root = t.root /\ DOMAIN u.nodes = DOMAIN t.nodes
  BY <1>5, <1>8
<1>12. \A j \in DOMAIN t.nodes : /\ u.nodes[j].kids = t.nodes[j].kids
                                 /\ u.nodes[j].key = t.nodes[j].key
                                 /\ u.nodes[j].kind = t.nodes[j].kind
  BY <1>8
<1> HIDE DEF u
<1>13. WellFormed(u)
  BY <1>10, <1>11, <1>12, SameShape
<1> QED BY <1>10, <1>13 DEF u

LEMMA StepKeepsShape ==
  ASSUME StackInv, TypeInv, TreeAssumption, ShapeInv, [Next]_vars
  PROVE  ShapeInv'
<1>1. ViewsKept'
  BY TreesOfStep DEF ShapeInv, TreesInv, ViewsKept
<1>2. UNCHANGED trees => TreesInv'
  BY <1>1 DEF ShapeInv, TreesInv
<1>3. CASE Decode
  BY <1>2, <1>3, DecodeIsAtomic, DecodeKeepsForest, DecodeKeepsWalk DEF ShapeInv
<1>4. CASE EndOfBuffer
  <2>1. UNCHANGED trees /\ (UNCHANGED <<nodes, moved>> \/ \E status : Fail(status))
    BY <1>4 DEF EndOfBuffer, Fail
  <2>2. Forest(nodes, moved)'
    BY <2>1, FailKeepsForest DEF ShapeInv
  <2> QED BY <1>2, <1>4, <2>1, <2>2, EndKeepsWalk DEF ShapeInv
<1>5. CASE Visit
  <2>1. UNCHANGED trees /\ (UNCHANGED <<nodes, moved>> \/ \E status : Fail(status))
    BY <1>5 DEF Visit, Fail
  <2>2. Forest(nodes, moved)'
    BY <2>1, FailKeepsForest DEF ShapeInv
  <2> QED BY <1>2, <1>5, <2>1, <2>2, VisitKeepsWalk DEF ShapeInv
<1>6. CASE Swap
  <2>1. /\ trees' = [trees EXCEPT ![target] = Built] /\ target \in Views
        /\ phase' = "idle" /\ Discard
    BY <1>6 DEF Swap, Built, TypeInv, CallOK
  <2>2. Shaped(Built) /\ WellFormed(Built)
    BY <1>6, BuiltIsWellFormed DEF ShapeInv
  <2>3. TreesInv'
    BY <1>1, <2>1, <2>2 DEF ShapeInv, TreesInv, ViewsKept
  <2>4. nodes' = <<>> /\ DOMAIN nodes' = {}
    BY <2>1 DEF Discard
  <2>5. Forest(nodes, moved)'
    BY <2>4 DEF Forest
  <2>6. WalkInv'
    BY <2>1 DEF Discard, WalkInv
  <2> QED BY <2>3, <2>5, <2>6 DEF ShapeInv
<1>7. ASSUME NEW v \in Views, BeginBuild(v)
      PROVE  ShapeInv'
  <2>1. /\ phase = "idle" /\ phase' = "decode" /\ UNCHANGED trees
        /\ UNCHANGED <<nodes, moved, walk, seen, visited>>
    BY <1>7 DEF BeginBuild, staging
  <2> QED BY <1>2, <2>1 DEF ShapeInv, WalkInv
<1>8. ASSUME NEW v \in Views, NEW k \in Keys, NEW c \in Contents, UpdateText(v, k, c)
      PROVE  ShapeInv'
  <2>1. /\ phase = "idle" /\ phase' = "idle"
        /\ UNCHANGED <<nodes, moved, walk, seen, visited>>
    BY <1>8 DEF UpdateText, staging
  <2>2. Forest(nodes, moved)' /\ WalkInv'
    BY <2>1 DEF ShapeInv, WalkInv
  <2>3. CASE UNCHANGED trees
    BY <1>2, <2>2, <2>3 DEF ShapeInv
  <2>4. CASE ~UNCHANGED trees
    <3> DEFINE t == trees[v]
    <3>1. PICK i \in Patchable(t, k) :
            trees' = [trees EXCEPT ![v].nodes[i].content = c]
      BY <1>8, <2>4 DEF UpdateText
    <3>2. t # NoTree
      BY <1>8, <2>4 DEF UpdateText
    <3>3. Shaped(t) /\ WellFormed(t)
      BY <3>2 DEF ShapeInv, TreesInv
    <3>4. i \in DOMAIN t.nodes
      <4>1. PICK j \in Members(t) : t.nodes[j].kids # <<>> /\ i = t.nodes[j].kids[1]
        BY <3>1 DEF Patchable
      <4>2. j \in DOMAIN t.nodes
        BY <3>3, <4>1, ShapedLevels DEF Members, LevelBy
      <4>3. t.nodes[j].kids \in Seq(Nat)
        <5>1. t.nodes[j] \in Node
          BY <3>3, <4>2 DEF Shaped
        <5> HIDE DEF t
        <5> QED BY <5>1 DEF Node
      <4>4. 1 \in DOMAIN t.nodes[j].kids
        BY <4>1, <4>3
      <4>5. i \in Kids(t.nodes, j)
        BY <4>1, <4>4, KidsAre
      <4> QED BY <3>3, <4>2, <4>5 DEF Shaped
    <3> DEFINE u == [t EXCEPT !.nodes[i].content = c]
    <3>5. trees'[v] = u /\ \A w \in Views : w # v => trees'[w] = trees[w]
      BY <3>1 DEF ShapeInv, TreesInv, ViewsKept
    <3>6. c \in SUBSET Nat
      BY DEF TreeAssumption
    <3> HIDE DEF u, t
    <3>7. Shaped(u) /\ WellFormed(u)
      BY <3>3, <3>4, <3>6, PatchKeepsShape DEF u
    <3>8. TreesInv'
      BY <1>1, <3>5, <3>7 DEF ShapeInv, TreesInv
    <3> QED BY <2>2, <3>8 DEF ShapeInv
  <2> QED BY <2>3, <2>4
<1>9. CASE UNCHANGED vars
  BY <1>2, <1>9 DEF ShapeInv, WalkInv, Met, Built, Slots, vars, staging
<1> QED BY <1>3, <1>4, <1>5, <1>6, <1>7, <1>8, <1>9 DEF Next

\* Every tree in VIEWS, built by whatever buffer and then patched, is one that
\* the renderers can recurse over: no deeper than MAX_TREE_DEPTH, no node
\* reached twice, no key used twice, children under divs only (lib.rs 961-978,
\* 1920-1990).
THEOREM TreesAreWellFormed == Spec => []CommittedWellFormed
<1>1. Init => TypeInv
  BY InitTypeInv
<1>2. Init => ShapeInv
  <2> SUFFICES ASSUME Init
               PROVE  ShapeInv
    OBVIOUS
  <2>1. DOMAIN nodes = {}
    BY DEF Init
  <2>2. Forest(nodes, moved)
    BY <2>1 DEF Forest
  <2>3. WalkInv
    BY DEF Init, WalkInv
  <2>4. TreesInv
    BY DEF Init, TreesInv, ViewsKept
  <2> QED BY <2>2, <2>3, <2>4 DEF ShapeInv
<1>3. ShapeInv => CommittedWellFormed
  BY DEF ShapeInv, TreesInv, CommittedWellFormed
<1> QED BY InitStackInv, StepKeepsStackInv, StepKeepsTypes, StepKeepsShape,
           TreeAssumption, <1>1, <1>2, <1>3, PTL DEF Spec

-----------------------------------------------------------------------------
(* The two layouts of a command.                                           *)

Codes == {"b", "i", "f", "0", "bytes"}
Operands == {"byte", "int", "px", "float", "zero", "str"}

\* What FlattenSeq computes, sequence by sequence.
Flattens(ss, all) ==
  /\ all \in [0 .. Len(ss) -> Seq(Codes)]
  /\ all[0] = <<>> /\ all[Len(ss)] = FlattenSeq(ss)
  /\ \A k \in 1 .. Len(ss) : all[k] = all[k - 1] \o ss[k]

LEMMA FlattenIs ==
  ASSUME NEW ss \in Seq(Seq(Codes))
  PROVE  \E all : Flattens(ss, all)
<1> DEFINE n == Len(ss)
           step == [p \in Seq(Codes) \X (1 .. n) |-> p[1] \o ss[p[2]]]
<1>1. n \in Nat /\ <<>> \in Seq(Codes) /\ \A k \in 1 .. n : ss[k] \in Seq(Codes)
  BY EmptySeq
<1>2. step \in [Seq(Codes) \X (1 .. n) -> Seq(Codes)]
  <2>1. ASSUME NEW p \in Seq(Codes) \X (1 .. n) PROVE p[1] \o ss[p[2]] \in Seq(Codes)
    <3>1. p[1] \in Seq(Codes) /\ ss[p[2]] \in Seq(Codes)
      BY <1>1
    <3> QED BY <3>1, ConcatProperties
  <2> QED BY <2>1
<1>3. \A a \in Seq(Codes), k \in 1 .. n : step[<<a, k>>] = a \o ss[k]
  OBVIOUS
<1> HIDE DEF step
<1>4. PICK g \in [0 .. n -> Seq(Codes)] : Iterates(step, <<>>, n, g)
  BY <1>1, <1>2, IterationExists
<1>5. g[0] = <<>> /\ \A k \in 1 .. n : g[k] = g[k - 1] \o ss[k]
  <2>1. \A k \in 1 .. n : k - 1 \in 0 .. n
    BY <1>1
  <2>2. \A k \in 1 .. n : g[k - 1] \in Seq(Codes)
    BY <2>1
  <2> QED BY <1>3, <1>4, <2>2 DEF Iterates
<1>6. CASE n = 0
  <2>1. FlattenSeq(ss) = <<>>
    BY <1>6 DEF FlattenSeq
  <2> QED BY <1>4, <1>5, <1>6, <2>1 DEF Flattens
<1>7. CASE n # 0
  <2> DEFINE flat == CHOOSE f : f = [i \in 1 .. n |->
                       IF i = 1 THEN ss[i] ELSE f[i - 1] \o ss[i]]
  <2>1. FlattenSeq(ss) = flat[n]
    BY <1>7 DEF FlattenSeq
  <2> DEFINE h == [i \in 1 .. n |-> g[i]]
  <2>2. ASSUME NEW i \in 1 .. n
        PROVE  h[i] = IF i = 1 THEN ss[i] ELSE h[i - 1] \o ss[i]
    <3>1. h[i] = g[i - 1] \o ss[i] /\ ss[i] \in Seq(Codes)
      BY <1>1, <1>5
    <3>2. CASE i = 1
      <4>1. i - 1 = 0 /\ <<>> \o ss[i] = ss[i]
        BY <3>1, <3>2
      <4> QED BY <1>5, <3>1, <3>2, <4>1
    <3>3. CASE i # 1
      <4>1. i - 1 \in 1 .. n
        BY <1>1, <3>3
      <4> QED BY <3>1, <3>3, <4>1
    <3> QED BY <3>2, <3>3
  <2>3. h = [i \in 1 .. n |-> IF i = 1 THEN ss[i] ELSE h[i - 1] \o ss[i]]
    BY <2>2
  <2> HIDE DEF h
  <2>4. flat = [i \in 1 .. n |-> IF i = 1 THEN ss[i] ELSE flat[i - 1] \o ss[i]]
    BY <2>3
  <2> HIDE DEF flat
  <2> DEFINE R == {k \in 0 .. n : k # 0 => flat[k] = g[k]}
  <2>5. 0 \in R
    BY <1>1
  <2>6. ASSUME NEW k \in 0 .. n - 1, k \in R PROVE k + 1 \in R
    <3>1. k + 1 \in 1 .. n /\ (k + 1) - 1 = k
      BY <1>1
    <3>2. flat[k + 1] = IF k + 1 = 1 THEN ss[k + 1] ELSE flat[k] \o ss[k + 1]
      BY <2>4, <3>1
    <3>3. g[k + 1] = g[k] \o ss[k + 1] /\ ss[k + 1] \in Seq(Codes)
      BY <1>1, <1>5, <3>1
    <3>4. CASE k = 0
      <4>1. <<>> \o ss[k + 1] = ss[k + 1]
        BY <3>3, ConcatEmptySeq
      <4>2. flat[k + 1] = ss[k + 1] /\ g[k] = <<>>
        BY <1>5, <3>2, <3>4
      <4>3. flat[k + 1] = g[k + 1] /\ k + 1 \in 0 .. n
        BY <1>1, <3>1, <3>3, <4>1, <4>2
      <4> QED BY <4>3
    <3>5. CASE k # 0
      <4>1. flat[k] = g[k] /\ k + 1 # 1
        BY <2>6, <3>5
      <4>2. flat[k + 1] = flat[k] \o ss[k + 1]
        BY <3>2, <4>1
      <4>3. flat[k + 1] = g[k + 1] /\ k + 1 \in 0 .. n
        BY <1>1, <3>1, <3>3, <4>1, <4>2
      <4> QED BY <4>3
    <3> QED BY <3>4, <3>5
  <2> HIDE DEF R
  <2>7. \A k \in 0 .. n : k \in R
    BY <1>1, <2>5, <2>6, UpTo
  <2>8. flat[n] = g[n]
    BY <1>1, <1>7, <2>7 DEF R
  <2> QED BY <1>4, <1>5, <2>1, <2>8 DEF Flattens
<1> QED BY <1>6, <1>7

LEMMA SpelledIs ==
  /\ Spelled("byte") = <<"b">> /\ Spelled("int") = <<"i", "i", "i", "i">>
  /\ Spelled("px") = <<"f", "f", "f", "f">> /\ Spelled("float") = Spelled("px")
  /\ Spelled("zero") = <<"0", "0", "0", "0">>
  /\ Spelled("str") = <<"i", "i", "i", "i">> \o <<"bytes">>
BY DEF Spelled, Four

LEMMA SpelledTyped == \A k \in Operands : Spelled(k) \in Seq(Codes)
<1>1. /\ <<"b">> \in Seq(Codes) /\ <<"i", "i", "i", "i">> \in Seq(Codes)
      /\ <<"f", "f", "f", "f">> \in Seq(Codes) /\ <<"0", "0", "0", "0">> \in Seq(Codes)
      /\ <<"bytes">> \in Seq(Codes)
  BY DEF Codes
<1>2. <<"i", "i", "i", "i">> \o <<"bytes">> \in Seq(Codes)
  BY <1>1, ConcatProperties
<1> QED BY <1>1, <1>2, SpelledIs DEF Operands

\* The bytes of a layout, operand by operand.
Spells(w, all) ==
  /\ all \in [0 .. Len(w) -> Seq(Codes)]
  /\ all[0] = <<>> /\ all[Len(w)] = Bytes(w)
  /\ \A k \in 1 .. Len(w) : all[k] = all[k - 1] \o Spelled(w[k])

LEMMA BytesIs ==
  ASSUME NEW w \in Seq(Operands)
  PROVE  (\E all : Spells(w, all)) /\ Bytes(w) \in Seq(Codes)
<1> DEFINE ss == [i \in DOMAIN w |-> Spelled(w[i])]
<1>1. /\ Len(w) \in Nat /\ DOMAIN w = 1 .. Len(w)
      /\ \A i \in 1 .. Len(w) : Spelled(w[i]) \in Seq(Codes)
  BY SpelledTyped
<1>2. ss \in Seq(Seq(Codes)) /\ Len(ss) = Len(w)
  BY <1>1
<1>3. Bytes(w) = FlattenSeq(ss) /\ \A i \in 1 .. Len(w) : ss[i] = Spelled(w[i])
  BY <1>1 DEF Bytes
<1> HIDE DEF ss
<1>4. PICK all : Flattens(ss, all)
  BY <1>2, FlattenIs
<1>5. Spells(w, all)
  BY <1>2, <1>3, <1>4 DEF Flattens, Spells
<1>6. all[Len(w)] \in Seq(Codes)
  BY <1>1, <1>5 DEF Spells
<1> QED BY <1>5, <1>6 DEF Spells

LEMMA CodesAssociate ==
  ASSUME NEW s \in Seq(Codes), NEW t \in Seq(Codes), NEW u \in Seq(Codes)
  PROVE  (s \o t) \o u = s \o (t \o u)
BY ConcatAssociative

LEMMA BytesConcat ==
  ASSUME NEW w \in Seq(Operands), NEW v \in Seq(Operands)
  PROVE  Bytes(w \o v) = Bytes(w) \o Bytes(v)
<1> DEFINE wv == w \o v
           m == Len(w)
           n == Len(v)
<1>1. /\ wv \in Seq(Operands) /\ Len(wv) = m + n /\ m \in Nat /\ n \in Nat
      /\ \A k \in 1 .. m : wv[k] = w[k]
      /\ \A k \in 1 .. n : wv[m + k] = v[k]
  BY ConcatProperties
<1> HIDE DEF wv
<1>2. PICK a : Spells(w, a)
  BY BytesIs
<1>3. PICK b : Spells(v, b)
  BY BytesIs
<1>4. PICK c : Spells(wv, c)
  BY <1>1, BytesIs
<1>5. \A k \in 1 .. n : Spelled(v[k]) \in Seq(Codes)
  <2>1. \A k \in 1 .. n : v[k] \in Operands
    OBVIOUS
  <2> QED BY <2>1, SpelledTyped
<1> HIDE DEF m, n
<1>6. /\ a[0] = <<>> /\ \A k \in 0 .. m : a[k] \in Seq(Codes)
      /\ \A k \in 1 .. m : a[k] = a[k - 1] \o Spelled(w[k])
  BY <1>2 DEF Spells, m
<1>7. /\ b[0] = <<>> /\ \A k \in 0 .. n : b[k] \in Seq(Codes)
      /\ \A k \in 1 .. n : b[k] = b[k - 1] \o Spelled(v[k])
  BY <1>3 DEF Spells, n
<1>8. c[0] = <<>> /\ \A k \in 1 .. m + n : c[k] = c[k - 1] \o Spelled(wv[k])
  BY <1>1, <1>4 DEF Spells
<1>9. c[m] = a[m]
  <2> DEFINE R == {k \in 0 .. m : c[k] = a[k]}
  <2>1. 0 \in R
    BY <1>1, <1>6, <1>8
  <2>2. ASSUME NEW k \in 0 .. m - 1, k \in R PROVE k + 1 \in R
    <3>1. k + 1 \in 1 .. m /\ k + 1 \in 1 .. m + n /\ (k + 1) - 1 = k
      BY <1>1
    <3>2. a[k + 1] = a[k] \o Spelled(w[k + 1])
      BY <1>6, <3>1
    <3>3. c[k + 1] = c[k] \o Spelled(wv[k + 1]) /\ wv[k + 1] = w[k + 1]
      BY <1>1, <1>8, <3>1
    <3>4. c[k] = a[k]
      BY <2>2
    <3>5. c[k + 1] = a[k + 1]
      BY <3>2, <3>3, <3>4
    <3>6. k + 1 \in 0 .. m
      BY <1>1, <3>1
    <3> QED BY <3>5, <3>6
  <2> HIDE DEF R
  <2>3. \A k \in 0 .. m : k \in R
    BY <1>1, <2>1, <2>2, UpTo
  <2> QED BY <1>1, <2>3 DEF R
<1>10. m \in 0 .. m
  BY <1>1
<1>11. c[m + n] = a[m] \o b[n]
  <2> DEFINE R == {k \in 0 .. n : c[m + k] = a[m] \o b[k]}
  <2>1. 0 \in R
    <3>1. a[m] \o <<>> = a[m] /\ m + 0 = m /\ 0 \in 0 .. n
      BY <1>1, <1>6, <1>10, ConcatEmptySeq
    <3> QED BY <1>7, <1>9, <3>1
  <2>2. ASSUME NEW k \in 0 .. n - 1, k \in R PROVE k + 1 \in R
    <3>1. /\ k + 1 \in 1 .. n /\ m + (k + 1) \in 1 .. m + n /\ k \in 0 .. n
          /\ (m + (k + 1)) - 1 = m + k /\ (k + 1) - 1 = k /\ k + 1 \in 0 .. n
      BY <1>1
    <3>2. c[m + (k + 1)] = c[m + k] \o Spelled(v[k + 1])
      <4>1. wv[m + (k + 1)] = v[k + 1]
        BY <1>1, <3>1
      <4> QED BY <1>8, <3>1, <4>1
    <3>3. b[k + 1] = b[k] \o Spelled(v[k + 1])
      BY <1>7, <3>1
    <3>4. (a[m] \o b[k]) \o Spelled(v[k + 1]) = a[m] \o (b[k] \o Spelled(v[k + 1]))
      <4>1. a[m] \in Seq(Codes) /\ b[k] \in Seq(Codes) /\ Spelled(v[k + 1]) \in Seq(Codes)
        BY <1>5, <1>6, <1>7, <1>10, <3>1
      <4> QED BY <4>1, CodesAssociate
    <3>5. c[m + k] = a[m] \o b[k]
      BY <2>2
    <3> QED BY <3>1, <3>2, <3>3, <3>4, <3>5
  <2> HIDE DEF R
  <2>3. \A k \in 0 .. n : k \in R
    BY <1>1, <2>1, <2>2, UpTo
  <2>4. n \in 0 .. n
    BY <1>1
  <2>5. n \in R
    BY <2>3, <2>4
  <2> QED BY <2>5 DEF R
<1>12. a[m] = Bytes(w) /\ b[n] = Bytes(v) /\ c[m + n] = Bytes(wv)
  BY <1>1, <1>2, <1>3, <1>4 DEF Spells, m, n
<1> QED BY <1>11, <1>12 DEF wv

LEMMA ReadConcat ==
  ASSUME NEW a \in Seq(Codes), NEW b \in Seq(Codes), ReadAs(a, b),
         NEW c \in Seq(Codes), NEW d \in Seq(Codes), ReadAs(c, d)
  PROVE  ReadAs(a \o c, b \o d)
<1>1. /\ Len(a) = Len(b) /\ Len(c) = Len(d) /\ Len(a) \in Nat /\ Len(c) \in Nat
      /\ DOMAIN a = 1 .. Len(a) /\ DOMAIN c = 1 .. Len(c)
  BY DEF ReadAs
<1>2. /\ a \o c \in Seq(Codes) /\ Len(a \o c) = Len(a) + Len(c)
      /\ \A i \in 1 .. Len(a) + Len(c) :
           (a \o c)[i] = IF i <= Len(a) THEN a[i] ELSE c[i - Len(a)]
  BY ConcatProperties
<1>3. /\ Len(b \o d) = Len(a) + Len(c)
      /\ \A i \in 1 .. Len(a) + Len(c) :
           (b \o d)[i] = IF i <= Len(a) THEN b[i] ELSE d[i - Len(a)]
  BY <1>1, ConcatProperties
<1>4. ASSUME NEW i \in 1 .. Len(a) + Len(c)
      PROVE  (a \o c)[i] = (b \o d)[i] \/ (a \o c)[i] = "0"
  <2>1. CASE i <= Len(a)
    <3>1. i \in DOMAIN a /\ (a \o c)[i] = a[i] /\ (b \o d)[i] = b[i]
      BY <1>1, <1>2, <1>3, <2>1
    <3> QED BY <3>1 DEF ReadAs
  <2>2. CASE ~(i <= Len(a))
    <3>1. /\ i - Len(a) \in DOMAIN c
          /\ (a \o c)[i] = c[i - Len(a)] /\ (b \o d)[i] = d[i - Len(a)]
      BY <1>1, <1>2, <1>3, <2>2
    <3> QED BY <3>1 DEF ReadAs
  <2> QED BY <2>1, <2>2
<1>5. DOMAIN (a \o c) = 1 .. Len(a) + Len(c)
  BY <1>2
<1> QED BY <1>2, <1>3, <1>4, <1>5 DEF ReadAs

\* w, as it is written, is read as r.
Matches(w, r) ==
  w \in Seq(Operands) /\ r \in Seq(Operands) /\ ReadAs(Bytes(w), Bytes(r))

LEMMA MatchConcat ==
  ASSUME NEW w, NEW r, Matches(w, r), NEW v, NEW q, Matches(v, q)
  PROVE  Matches(w \o v, r \o q)
<1>1. /\ Bytes(w) \in Seq(Codes) /\ Bytes(r) \in Seq(Codes)
      /\ Bytes(v) \in Seq(Codes) /\ Bytes(q) \in Seq(Codes)
  BY BytesIs DEF Matches
<1>2. ReadAs(Bytes(w) \o Bytes(v), Bytes(r) \o Bytes(q))
  BY <1>1, ReadConcat DEF Matches
<1>3. Bytes(w \o v) = Bytes(w) \o Bytes(v) /\ Bytes(r \o q) = Bytes(r) \o Bytes(q)
  BY BytesConcat DEF Matches
<1>4. w \o v \in Seq(Operands) /\ r \o q \in Seq(Operands)
  BY ConcatProperties DEF Matches
<1> QED BY <1>2, <1>3, <1>4 DEF Matches

\* Operands of one size; a slot of zeros is read as any number.
Fits(k, l) == k = l \/ (k = "float" /\ l = "px") \/ (k = "zero" /\ l = "int")

LEMMA FitsRead ==
  ASSUME NEW k \in Operands, NEW l \in Operands, Fits(k, l)
  PROVE  ReadAs(Spelled(k), Spelled(l))
<1>1. CASE k = l
  BY <1>1 DEF ReadAs
<1>2. CASE k = "float" /\ l = "px"
  BY <1>2, SpelledIs DEF ReadAs
<1>3. CASE k = "zero" /\ l = "int"
  <2> DEFINE z == <<"0", "0", "0", "0">>
             i == <<"i", "i", "i", "i">>
  <2>1. Len(z) = 4 /\ Len(i) = 4 /\ DOMAIN z = 1 .. 4
    OBVIOUS
  <2>2. z[1] = "0" /\ z[2] = "0" /\ z[3] = "0" /\ z[4] = "0"
    OBVIOUS
  <2>3. \A j \in 1 .. 4 : j = 1 \/ j = 2 \/ j = 3 \/ j = 4
    OBVIOUS
  <2>4. Spelled(k) = z /\ Spelled(l) = i
    BY <1>3, SpelledIs
  <2> HIDE DEF z, i
  <2>5. \A j \in DOMAIN z : z[j] = "0"
    BY <2>1, <2>2, <2>3
  <2> QED BY <2>1, <2>4, <2>5 DEF ReadAs
<1> QED BY <1>1, <1>2, <1>3 DEF Fits

LEMMA MatchFits ==
  ASSUME NEW w \in Seq(Operands), NEW r \in Seq(Operands), Len(w) = Len(r),
         \A i \in 1 .. Len(w) : Fits(w[i], r[i])
  PROVE  Matches(w, r)
<1>1. PICK a : Spells(w, a)
  BY BytesIs
<1>2. PICK b : Spells(r, b)
  BY BytesIs
<1> DEFINE n == Len(w)
           R == {k \in 0 .. n : ReadAs(a[k], b[k])}
<1>3. /\ n \in Nat
      /\ \A k \in 0 .. n : a[k] \in Seq(Codes) /\ b[k] \in Seq(Codes)
      /\ \A k \in 1 .. n : a[k] = a[k - 1] \o Spelled(w[k])
      /\ \A k \in 1 .. n : b[k] = b[k - 1] \o Spelled(r[k])
  <2>1. n \in Nat /\ Len(r) = n
    OBVIOUS
  <2> HIDE DEF n
  <2>2. /\ \A k \in 0 .. n : a[k] \in Seq(Codes)
        /\ \A k \in 1 .. n : a[k] = a[k - 1] \o Spelled(w[k])
    BY <1>1 DEF Spells, n
  <2>3. /\ \A k \in 0 .. n : b[k] \in Seq(Codes)
        /\ \A k \in 1 .. n : b[k] = b[k - 1] \o Spelled(r[k])
    BY <1>2, <2>1 DEF Spells
  <2> QED BY <2>1, <2>2, <2>3
<1>4. 0 \in R
  <2>1. a[0] = <<>> /\ b[0] = <<>>
    BY <1>1, <1>2 DEF Spells
  <2>2. ReadAs(a[0], b[0])
    BY <2>1 DEF ReadAs
  <2> QED BY <1>3, <2>2
<1>5. ASSUME NEW k \in 0 .. n - 1, k \in R PROVE k + 1 \in R
  <2>1. k + 1 \in 1 .. n /\ k \in 0 .. n /\ k + 1 \in 0 .. n /\ (k + 1) - 1 = k
    BY <1>3
  <2>2. w[k + 1] \in Operands /\ r[k + 1] \in Operands /\ Fits(w[k + 1], r[k + 1])
    BY <2>1
  <2>3. ReadAs(Spelled(w[k + 1]), Spelled(r[k + 1]))
    BY <2>2, FitsRead
  <2>4. /\ a[k] \in Seq(Codes) /\ b[k] \in Seq(Codes)
        /\ Spelled(w[k + 1]) \in Seq(Codes) /\ Spelled(r[k + 1]) \in Seq(Codes)
    BY <1>3, <2>1, <2>2, SpelledTyped
  <2>5. ReadAs(a[k] \o Spelled(w[k + 1]), b[k] \o Spelled(r[k + 1]))
    BY <1>5, <2>3, <2>4, ReadConcat
  <2>6. ReadAs(a[k + 1], b[k + 1])
    BY <1>3, <2>1, <2>5
  <2> QED BY <2>1, <2>6
<1> HIDE DEF R
<1>6. \A k \in 0 .. n : k \in R
  BY <1>3, <1>4, <1>5, UpTo
<1>7. ReadAs(a[n], b[n])
  BY <1>3, <1>6 DEF R
<1> QED BY <1>1, <1>2, <1>7 DEF Spells, Matches

\* The first operands of a layout, one by one.
LEMMA FirstOperands ==
  ASSUME NEW w \in Seq(Operands), NEW all, Spells(w, all)
  PROVE  /\ all[0] = <<>> /\ all[Len(w)] = Bytes(w)
         /\ Len(w) >= 1 => all[1] = all[0] \o Spelled(w[1])
         /\ Len(w) >= 2 => all[2] = all[1] \o Spelled(w[2])
         /\ Len(w) >= 3 => all[3] = all[2] \o Spelled(w[3])
<1>1. /\ Len(w) \in Nat /\ all[0] = <<>> /\ all[Len(w)] = Bytes(w)
      /\ \A k \in 1 .. Len(w) : all[k] = all[k - 1] \o Spelled(w[k])
  BY DEF Spells
<1>2. /\ Len(w) >= 1 => 1 \in 1 .. Len(w) /\ 1 - 1 = 0
      /\ Len(w) >= 2 => 2 \in 1 .. Len(w) /\ 2 - 1 = 1
      /\ Len(w) >= 3 => 3 \in 1 .. Len(w) /\ 3 - 1 = 2
  BY <1>1
<1>3. Len(w) >= 1 => all[1] = all[0] \o Spelled(w[1])
  BY <1>1, <1>2
<1>4. Len(w) >= 2 => all[2] = all[1] \o Spelled(w[2])
  BY <1>1, <1>2
<1>5. Len(w) >= 3 => all[3] = all[2] \o Spelled(w[3])
  BY <1>1, <1>2
<1> QED BY <1>1, <1>3, <1>4, <1>5

\* What the builder leaves unset of a color: four bytes of zero.
LEMMA ZeroColor == Matches(<<"zero">>, Rgba)
<1>1. /\ <<"zero">> \in Seq(Operands) /\ <<"byte">> \in Seq(Operands)
      /\ Rgb \in Seq(Operands) /\ Rgb = <<"byte", "byte", "byte">>
  BY DEF Operands, Rgb
<1>2. ASSUME NEW k \in Operands, NEW c, c = Spelled(k)
      PROVE  Bytes(<<k>>) = c
  <2>1. <<k>> \in Seq(Operands) /\ Len(<<k>>) = 1 /\ <<k>>[1] = k
    OBVIOUS
  <2>2. PICK a : Spells(<<k>>, a)
    BY <2>1, BytesIs
  <2>3. a[0] = <<>> /\ a[1] = a[0] \o c /\ a[1] = Bytes(<<k>>)
    <3> DEFINE w == <<k>>
    <3>1. w \in Seq(Operands) /\ Len(w) = 1 /\ w[1] = k /\ Spells(w, a)
      BY <2>1, <2>2
    <3> HIDE DEF w
    <3>2. a[0] = <<>> /\ a[Len(w)] = Bytes(w) /\ a[1] = a[0] \o Spelled(w[1])
      <4>1. Len(w) >= 1 /\ w \in Seq(Operands) /\ Spells(w, a)
        BY <3>1
      <4>2. /\ a[0] = <<>> /\ a[Len(w)] = Bytes(w)
            /\ Len(w) >= 1 => a[1] = a[0] \o Spelled(w[1])
        BY <4>1, FirstOperands
      <4> QED BY <4>1, <4>2
    <3>3. a[1] = a[0] \o c /\ a[1] = Bytes(w)
      BY <1>2, <3>1, <3>2
    <3> QED BY <3>2, <3>3 DEF w
  <2>4. <<>> \o c = c
    BY <1>2, SpelledTyped, ConcatEmptySeq
  <2> QED BY <2>3, <2>4
<1>3. /\ Bytes(<<"zero">>) = <<"0", "0", "0", "0">> /\ Bytes(<<"byte">>) = <<"b">>
  BY <1>2, SpelledIs DEF Operands
<1>4. Len(Bytes(Rgb)) = 3
  <2>1. Len(Rgb) = 3 /\ Rgb[1] = "byte" /\ Rgb[2] = "byte" /\ Rgb[3] = "byte"
    BY <1>1
  <2>2. PICK a : Spells(Rgb, a)
    BY <1>1, BytesIs
  <2>3. /\ a[0] = <<>> /\ a[3] = Bytes(Rgb)
        /\ a[1] = a[0] \o <<"b">> /\ a[2] = a[1] \o <<"b">> /\ a[3] = a[2] \o <<"b">>
    <3>1. /\ a[0] = <<>> /\ a[3] = Bytes(Rgb)
          /\ a[1] = a[0] \o Spelled("byte") /\ a[2] = a[1] \o Spelled("byte")
          /\ a[3] = a[2] \o Spelled("byte")
      <4>1. /\ a[0] = <<>> /\ a[Len(Rgb)] = Bytes(Rgb)
            /\ a[1] = a[0] \o Spelled(Rgb[1]) /\ a[2] = a[1] \o Spelled(Rgb[2])
            /\ a[3] = a[2] \o Spelled(Rgb[3])
        <5>1. Len(Rgb) >= 1 /\ Len(Rgb) >= 2 /\ Len(Rgb) >= 3
          BY <2>1
        <5>2. Rgb \in Seq(Operands)
          BY <1>1
        <5> QED BY <2>2, <5>1, <5>2, FirstOperands
      <4>2. a[1] = a[0] \o Spelled("byte")
        BY <2>1, <4>1
      <4>3. a[2] = a[1] \o Spelled("byte")
        BY <2>1, <4>1
      <4>4. a[3] = a[2] \o Spelled("byte") /\ a[3] = Bytes(Rgb)
        BY <2>1, <4>1
      <4> QED BY <4>1, <4>2, <4>3, <4>4
    <3> QED BY <3>1, SpelledIs
  <2>4. /\ <<"b">> \in Seq(Codes) /\ Len(<<"b">>) = 1
        /\ <<>> \in Seq(Codes) /\ Len(<<>>) = 0
    BY DEF Codes
  <2>5. a[1] \in Seq(Codes) /\ Len(a[1]) = 1
    BY <2>3, <2>4, ConcatProperties
  <2>6. a[2] \in Seq(Codes) /\ Len(a[2]) = 2
    BY <2>3, <2>4, <2>5, ConcatProperties
  <2> QED BY <2>3, <2>4, <2>6, ConcatProperties
<1>5. Rgba \in Seq(Operands) /\ Bytes(Rgba) = Bytes(Rgb) \o <<"b">>
  BY <1>1, <1>3, BytesConcat, ConcatProperties DEF Rgba
<1>6. Len(Bytes(Rgba)) = 4
  <2>1. <<"b">> \in Seq(Codes) /\ Len(<<"b">>) = 1
    BY DEF Codes
  <2>2. Bytes(Rgb) \in Seq(Codes)
    BY <1>1, BytesIs
  <2>3. Len(Bytes(Rgb) \o <<"b">>) = Len(Bytes(Rgb)) + Len(<<"b">>)
    BY <2>1, <2>2, ConcatProperties
  <2> QED BY <1>4, <1>5, <2>1, <2>3
<1>7. ReadAs(<<"0", "0", "0", "0">>, Bytes(Rgba))
  <2> DEFINE z == <<"0", "0", "0", "0">>
  <2>1. Len(z) = 4 /\ DOMAIN z = 1 .. 4
    OBVIOUS
  <2>2. z[1] = "0" /\ z[2] = "0" /\ z[3] = "0" /\ z[4] = "0"
    OBVIOUS
  <2>3. \A j \in 1 .. 4 : j = 1 \/ j = 2 \/ j = 3 \/ j = 4
    OBVIOUS
  <2> HIDE DEF z
  <2>4. \A j \in DOMAIN z : z[j] = "0"
    BY <2>1, <2>2, <2>3
  <2>5. ReadAs(z, Bytes(Rgba))
    BY <1>6, <2>1, <2>4 DEF ReadAs
  <2> QED BY <2>5 DEF z
<1> QED BY <1>1, <1>3, <1>5, <1>7 DEF Matches

LEMMA MatchSelf == \A w \in Seq(Operands) : Matches(w, w)
<1>1. SUFFICES ASSUME NEW w \in Seq(Operands)
               PROVE  Matches(w, w)
  OBVIOUS
<1>2. \A i \in 1 .. Len(w) : Fits(w[i], w[i])
  BY DEF Fits
<1> QED BY <1>2, MatchFits

\* A table made of two that share no opcode.
Joins(h, f, g) ==
  /\ DOMAIN h = DOMAIN f \cup DOMAIN g
  /\ \A op \in DOMAIN f : h[op] = f[op]
  /\ \A op \in DOMAIN g : h[op] = g[op]

LEMMA MergeJoins ==
  ASSUME NEW f, NEW g, DOMAIN f \cap DOMAIN g = {}
  PROVE  Joins(Merge(f, g), f, g)
<1>1. DOMAIN Merge(f, g) = DOMAIN f \cup DOMAIN g
  BY DEF Merge
<1>2. \A op \in DOMAIN f : Merge(f, g)[op] = f[op]
  BY DEF Merge
<1>3. ASSUME NEW op \in DOMAIN g PROVE Merge(f, g)[op] = g[op]
  <2>1. op \notin DOMAIN f
    OBVIOUS
  <2> QED BY <2>1 DEF Merge
<1> QED BY <1>1, <1>2, <1>3 DEF Joins

\* No opcode is in two of the decoder's tables, or in two of the builder's.
LEMMA ReadsAre ==
  /\ DOMAIN Reads = DOMAIN BoxReads \cup DOMAIN ItemReads \cup DOMAIN PlaceReads
                      \cup DOMAIN TypeReads \cup DOMAIN FocusReads \cup DOMAIN NodeReads
  /\ \A op \in DOMAIN BoxReads : Reads[op] = BoxReads[op]
  /\ \A op \in DOMAIN ItemReads : Reads[op] = ItemReads[op]
  /\ \A op \in DOMAIN PlaceReads : Reads[op] = PlaceReads[op]
  /\ \A op \in DOMAIN TypeReads : Reads[op] = TypeReads[op]
  /\ \A op \in DOMAIN FocusReads : Reads[op] = FocusReads[op]
  /\ \A op \in DOMAIN NodeReads : Reads[op] = NodeReads[op]
<1> DEFINE inner == Merge(ItemReads, PlaceReads)
           left == Merge(BoxReads, inner)
           right == Merge(TypeReads, FocusReads)
<1>1. /\ DOMAIN BoxReads \cap (DOMAIN ItemReads \cup DOMAIN PlaceReads) = {}
      /\ DOMAIN ItemReads \cap DOMAIN PlaceReads = {}
      /\ DOMAIN TypeReads \cap DOMAIN FocusReads = {}
      /\ (DOMAIN BoxReads \cup DOMAIN ItemReads \cup DOMAIN PlaceReads)
           \cap (DOMAIN TypeReads \cup DOMAIN FocusReads) = {}
      /\ (DOMAIN BoxReads \cup DOMAIN ItemReads \cup DOMAIN PlaceReads
            \cup DOMAIN TypeReads \cup DOMAIN FocusReads) \cap DOMAIN NodeReads = {}
  BY DEF BoxReads, ItemReads, PlaceReads, TypeReads, FocusReads, NodeReads
<1>2. Joins(inner, ItemReads, PlaceReads)
  BY <1>1, MergeJoins
<1> HIDE DEF inner
<1>3. Joins(left, BoxReads, inner)
  <2>1. DOMAIN BoxReads \cap DOMAIN inner = {}
    BY <1>1, <1>2 DEF Joins
  <2> QED BY <2>1, MergeJoins
<1>4. Joins(right, TypeReads, FocusReads)
  BY <1>1, MergeJoins
<1> HIDE DEF left, right
<1>5. Joins(Setters, left, right)
  <2>1. DOMAIN left \cap DOMAIN right = {}
    BY <1>1, <1>2, <1>3, <1>4 DEF Joins
  <2>2. Joins(Merge(left, right), left, right)
    BY <2>1, MergeJoins
  <2> QED BY <2>2 DEF Setters, left, right, inner
<1>6. Joins(Reads, Setters, NodeReads)
  <2>1. DOMAIN Setters \cap DOMAIN NodeReads = {}
    BY <1>1, <1>2, <1>3, <1>4, <1>5 DEF Joins
  <2> QED BY <2>1, MergeJoins DEF Reads
<1>7. DOMAIN Reads = DOMAIN BoxReads \cup DOMAIN ItemReads \cup DOMAIN PlaceReads
                      \cup DOMAIN TypeReads \cup DOMAIN FocusReads \cup DOMAIN NodeReads
  BY <1>2, <1>3, <1>4, <1>5, <1>6 DEF Joins
<1>8. \A op \in DOMAIN left : Reads[op] = left[op]
  BY <1>5, <1>6 DEF Joins
<1>9. \A op \in DOMAIN right : Reads[op] = right[op]
  BY <1>5, <1>6 DEF Joins
<1>10. \A op \in DOMAIN BoxReads : Reads[op] = BoxReads[op]
  BY <1>3, <1>8 DEF Joins
<1>11. \A op \in DOMAIN inner : Reads[op] = inner[op]
  BY <1>3, <1>8 DEF Joins
<1>12. \A op \in DOMAIN ItemReads : Reads[op] = ItemReads[op]
  BY <1>2, <1>11 DEF Joins
<1>13. \A op \in DOMAIN PlaceReads : Reads[op] = PlaceReads[op]
  BY <1>2, <1>11 DEF Joins
<1>14. \A op \in DOMAIN TypeReads : Reads[op] = TypeReads[op]
  BY <1>4, <1>9 DEF Joins
<1>15. \A op \in DOMAIN FocusReads : Reads[op] = FocusReads[op]
  BY <1>4, <1>9 DEF Joins
<1>16. \A op \in DOMAIN NodeReads : Reads[op] = NodeReads[op]
  BY <1>6 DEF Joins
<1> QED BY <1>7, <1>10, <1>12, <1>13, <1>14, <1>15, <1>16

LEMMA WritesAre ==
  /\ DOMAIN Writes = DOMAIN BoxWrites \cup DOMAIN ItemWrites
                       \cup DOMAIN TypeWrites \cup DOMAIN NodeWrites
  /\ \A op \in DOMAIN BoxWrites : Writes[op] = BoxWrites[op]
  /\ \A op \in DOMAIN ItemWrites : Writes[op] = ItemWrites[op]
  /\ \A op \in DOMAIN TypeWrites : Writes[op] = TypeWrites[op]
  /\ \A op \in DOMAIN NodeWrites : Writes[op] = NodeWrites[op]
<1> DEFINE left == Merge(BoxWrites, ItemWrites)
           right == Merge(TypeWrites, NodeWrites)
<1>1. /\ DOMAIN BoxWrites \cap DOMAIN ItemWrites = {}
      /\ DOMAIN TypeWrites \cap DOMAIN NodeWrites = {}
      /\ (DOMAIN BoxWrites \cup DOMAIN ItemWrites)
           \cap (DOMAIN TypeWrites \cup DOMAIN NodeWrites) = {}
  BY DEF BoxWrites, ItemWrites, TypeWrites, NodeWrites
<1>2. Joins(left, BoxWrites, ItemWrites)
  BY <1>1, MergeJoins
<1>3. Joins(right, TypeWrites, NodeWrites)
  BY <1>1, MergeJoins
<1> HIDE DEF left, right
<1>4. Joins(Writes, left, right)
  <2>1. DOMAIN left \cap DOMAIN right = {}
    BY <1>1, <1>2, <1>3 DEF Joins
  <2>2. Joins(Merge(left, right), left, right)
    BY <2>1, MergeJoins
  <2> QED BY <2>2 DEF Writes, left, right
<1>5. DOMAIN Writes = DOMAIN BoxWrites \cup DOMAIN ItemWrites
                       \cup DOMAIN TypeWrites \cup DOMAIN NodeWrites
  BY <1>2, <1>3, <1>4 DEF Joins
<1>6. \A op \in DOMAIN BoxWrites : Writes[op] = BoxWrites[op]
  BY <1>2, <1>4 DEF Joins
<1>7. \A op \in DOMAIN ItemWrites : Writes[op] = ItemWrites[op]
  BY <1>2, <1>4 DEF Joins
<1>8. \A op \in DOMAIN TypeWrites : Writes[op] = TypeWrites[op]
  BY <1>3, <1>4 DEF Joins
<1>9. \A op \in DOMAIN NodeWrites : Writes[op] = NodeWrites[op]
  BY <1>3, <1>4 DEF Joins
<1> QED BY <1>5, <1>6, <1>7, <1>8, <1>9

LEMMA SameOpcodes == DOMAIN Reads = DOMAIN Writes
<1>1. DOMAIN BoxReads \cup DOMAIN ItemReads \cup DOMAIN PlaceReads
        \cup DOMAIN TypeReads \cup DOMAIN FocusReads \cup DOMAIN NodeReads
      = DOMAIN BoxWrites \cup DOMAIN ItemWrites \cup DOMAIN TypeWrites \cup DOMAIN NodeWrites
  BY DEF BoxReads, ItemReads, PlaceReads, TypeReads, FocusReads, NodeReads,
         BoxWrites, ItemWrites, TypeWrites, NodeWrites
<1> QED BY <1>1, ReadsAre, WritesAre

LEMMA ColorsTyped ==
  Rgb \in Seq(Operands) /\ Rgba \in Seq(Operands) /\ Sides \in Seq(Operands)
<1>1. Rgb \in Seq(Operands) /\ <<"byte">> \in Seq(Operands) /\ Sides \in Seq(Operands)
  BY DEF Rgb, Sides, Operands
<1> QED BY <1>1, ConcatProperties DEF Rgba

LEMMA LayoutsTyped ==
  /\ <<>> \in Seq(Operands) /\ <<"px">> \in Seq(Operands) /\ <<"byte">> \in Seq(Operands)
  /\ <<"int">> \in Seq(Operands) /\ <<"str">> \in Seq(Operands)
  /\ <<"px", "px">> \in Seq(Operands) /\ <<"int", "int">> \in Seq(Operands)
  /\ <<"int", "str">> \in Seq(Operands) /\ <<"int", "int", "int">> \in Seq(Operands)
  /\ <<"px", "px", "int", "str">> \in Seq(Operands)
  /\ <<"int", "int", "byte">> \in Seq(Operands)
  /\ <<"str", "byte", "int">> \in Seq(Operands)
BY DEF Operands

LEMMA ReadsTyped == \A op \in DOMAIN Reads : Reads[op] \in Seq(Operands)
<1>1. \A op \in DOMAIN BoxReads : BoxReads[op] \in Seq(Operands)
  <2>1. \A op \in DOMAIN BoxReads :
          BoxReads[op] \in {<<"px", "px">>, Rgb, <<"byte">>, <<>>, <<"px">>, <<"int">>}
    BY DEF BoxReads
  <2> QED BY <2>1, LayoutsTyped, ColorsTyped
<1>2. \A op \in DOMAIN ItemReads : ItemReads[op] \in Seq(Operands)
  <2>1. <<"px">> \o Rgb \in Seq(Operands)
    BY LayoutsTyped, ColorsTyped, ConcatProperties
  <2>2. \A op \in DOMAIN ItemReads :
          ItemReads[op] \in {<<"px">> \o Rgb, Rgba, Sides, <<"int", "int">>,
                             <<"int", "int", "int">>, <<"int">>}
    BY DEF ItemReads
  <2> QED BY <2>1, <2>2, LayoutsTyped, ColorsTyped
<1>3. \A op \in DOMAIN PlaceReads : PlaceReads[op] \in Seq(Operands)
  <2>1. Sides \o Rgba \in Seq(Operands)
    BY ColorsTyped, ConcatProperties
  <2>2. \A op \in DOMAIN PlaceReads :
          PlaceReads[op] \in {Sides \o Rgba, <<"int">>, Sides}
    BY DEF PlaceReads
  <2> QED BY <2>1, <2>2, LayoutsTyped, ColorsTyped
<1>4. \A op \in DOMAIN TypeReads : TypeReads[op] \in Seq(Operands)
  <2>1. \A op \in DOMAIN TypeReads : TypeReads[op] \in {<<"int">>, Rgba, <<"str">>}
    BY DEF TypeReads
  <2> QED BY <2>1, LayoutsTyped, ColorsTyped
<1>5. \A op \in DOMAIN FocusReads : FocusReads[op] \in Seq(Operands)
  BY LayoutsTyped DEF FocusReads
<1>6. \A op \in DOMAIN NodeReads : NodeReads[op] \in Seq(Operands)
  <2>1. <<"str">> \o Rgb \o <<"px">> \in Seq(Operands)
    BY LayoutsTyped, ColorsTyped, ConcatProperties
  <2>2. <<"int", "int", "byte">> \o Rgba \o <<"int">> \o Rgba \in Seq(Operands)
    BY LayoutsTyped, ColorsTyped, ConcatProperties
  <2>3. <<"str", "byte", "int">> \o Rgb \o <<"byte">> \in Seq(Operands)
    BY LayoutsTyped, ColorsTyped, ConcatProperties
  <2>4. DOMAIN NodeReads =
          {"DIV", "TEXT", "TEXT_INPUT", "IMAGE", "SET_KEY", "TEXT_RUN", "SET_TEXT_ROW",
           "ADD_CHILD", "SET_ROOT"}
    BY DEF NodeReads
  <2>5. /\ NodeReads["TEXT"] \in Seq(Operands) /\ NodeReads["TEXT_RUN"] \in Seq(Operands)
        /\ NodeReads["SET_TEXT_ROW"] \in Seq(Operands)
    BY <2>1, <2>2, <2>3 DEF NodeReads
  <2>6. /\ NodeReads["DIV"] = <<>> /\ NodeReads["TEXT_INPUT"] = <<"int", "str">>
        /\ NodeReads["IMAGE"] = <<"px", "px", "int", "str">>
        /\ NodeReads["SET_KEY"] = <<"str">>
        /\ NodeReads["ADD_CHILD"] = <<>> /\ NodeReads["SET_ROOT"] = <<>>
    BY DEF NodeReads
  <2> QED BY <2>4, <2>5, <2>6, LayoutsTyped
<1> QED BY <1>1, <1>2, <1>3, <1>4, <1>5, <1>6, ReadsAre

\* The builder's layouts, table by table.
Good(op, ws) == \A w \in ws : Matches(w, Reads[op])

LEMMA SameIsGood ==
  ASSUME NEW op \in DOMAIN Reads, NEW ws, ws = {Reads[op]}
  PROVE  Good(op, ws)
BY ReadsTyped, MatchSelf DEF Good

LEMMA Floats ==
  /\ Matches(<<"float">>, <<"px">>)
  /\ Matches(<<"float", "float">>, <<"px", "px">>)
  /\ Matches(<<"float", "float", "int", "str">>, <<"px", "px", "int", "str">>)
<1>1. Matches(<<"float">>, <<"px">>)
  <2> DEFINE w == <<"float">>
             r == <<"px">>
  <2>1. w \in Seq(Operands) /\ r \in Seq(Operands) /\ Len(w) = 1 /\ Len(r) = 1
    BY DEF Operands
  <2>2. Fits(w[1], r[1])
    BY DEF Fits
  <2> HIDE DEF w, r
  <2>3. \A i \in 1 .. 1 : Fits(w[i], r[i])
    BY <2>2
  <2>4. Matches(w, r)
    BY <2>1, <2>3, MatchFits
  <2> QED BY <2>4 DEF w, r
<1>2. Matches(<<"float", "float">>, <<"px", "px">>)
  <2> DEFINE w == <<"float", "float">>
             r == <<"px", "px">>
  <2>1. w \in Seq(Operands) /\ r \in Seq(Operands) /\ Len(w) = 2 /\ Len(r) = 2
    BY DEF Operands
  <2>2. Fits(w[1], r[1]) /\ Fits(w[2], r[2])
    BY DEF Fits
  <2> HIDE DEF w, r
  <2>3. \A i \in 1 .. 2 : Fits(w[i], r[i])
    <3>1. \A i \in 1 .. 2 : i = 1 \/ i = 2
      OBVIOUS
    <3> QED BY <2>2, <3>1
  <2>4. Matches(w, r)
    BY <2>1, <2>3, MatchFits
  <2> QED BY <2>4 DEF w, r
<1>3. Matches(<<"float", "float", "int", "str">>, <<"px", "px", "int", "str">>)
  <2> DEFINE w == <<"float", "float", "int", "str">>
             r == <<"px", "px", "int", "str">>
  <2>1. w \in Seq(Operands) /\ r \in Seq(Operands) /\ Len(w) = 4 /\ Len(r) = 4
    BY DEF Operands
  <2>2. Fits(w[1], r[1]) /\ Fits(w[2], r[2]) /\ Fits(w[3], r[3]) /\ Fits(w[4], r[4])
    BY DEF Fits
  <2> HIDE DEF w, r
  <2>3. \A i \in 1 .. 4 : Fits(w[i], r[i])
    <3>1. \A i \in 1 .. 4 : i = 1 \/ i = 2 \/ i = 3 \/ i = 4
      OBVIOUS
    <3> QED BY <2>2, <3>1
  <2>4. Matches(w, r)
    BY <2>1, <2>3, MatchFits
  <2> QED BY <2>4 DEF w, r
<1> QED BY <1>1, <1>2, <1>3

LEMMA Zeros ==
  /\ Matches(<<"zero">>, <<"int">>)
  /\ Matches(<<"str", "byte", "zero">>, <<"str", "byte", "int">>)
<1>1. Matches(<<"zero">>, <<"int">>)
  <2> DEFINE w == <<"zero">>
             r == <<"int">>
  <2>1. w \in Seq(Operands) /\ r \in Seq(Operands) /\ Len(w) = 1 /\ Len(r) = 1
    BY DEF Operands
  <2>2. Fits(w[1], r[1])
    BY DEF Fits
  <2> HIDE DEF w, r
  <2>3. \A i \in 1 .. 1 : Fits(w[i], r[i])
    BY <2>2
  <2>4. Matches(w, r)
    BY <2>1, <2>3, MatchFits
  <2> QED BY <2>4 DEF w, r
<1>2. Matches(<<"str", "byte", "zero">>, <<"str", "byte", "int">>)
  <2> DEFINE w == <<"str", "byte", "zero">>
             r == <<"str", "byte", "int">>
  <2>1. w \in Seq(Operands) /\ r \in Seq(Operands) /\ Len(w) = 3 /\ Len(r) = 3
    BY DEF Operands
  <2>2. Fits(w[1], r[1]) /\ Fits(w[2], r[2]) /\ Fits(w[3], r[3])
    BY DEF Fits
  <2> HIDE DEF w, r
  <2>3. \A i \in 1 .. 3 : Fits(w[i], r[i])
    <3>1. \A i \in 1 .. 3 : i = 1 \/ i = 2 \/ i = 3
      OBVIOUS
    <3> QED BY <2>2, <3>1
  <2>4. Matches(w, r)
    BY <2>1, <2>3, MatchFits
  <2> QED BY <2>4 DEF w, r
<1> QED BY <1>1, <1>2

LEMMA BoxGood == \A op \in DOMAIN BoxWrites : Good(op, BoxWrites[op])
<1>1. \A op \in {"SET_BG", "SET_FLEX", "SET_CENTER", "SET_ON_CLICK"} :
        op \in DOMAIN Reads /\ BoxWrites[op] = {Reads[op]}
  BY ReadsAre DEF BoxReads, BoxWrites
<1>2. \A op \in {"SET_GAP", "SET_ROUNDED", "SET_PADDING"} :
        Reads[op] = <<"px">> /\ BoxWrites[op] = {<<"float">>}
  BY ReadsAre DEF BoxReads, BoxWrites
<1>3. /\ Reads["SET_SIZE"] = <<"px", "px">>
      /\ BoxWrites["SET_SIZE"] = {<<"float", "float">>}
  BY ReadsAre DEF BoxReads, BoxWrites
<1>4. /\ Reads["SET_BORDER"] = <<"px">> \o Rgb
      /\ BoxWrites["SET_BORDER"] = {<<"float">> \o Rgb}
  BY ReadsAre DEF ItemReads, BoxWrites
<1>5. Matches(<<"float">> \o Rgb, <<"px">> \o Rgb)
  BY Floats, ColorsTyped, MatchSelf, MatchConcat
<1>6. DOMAIN BoxWrites =
        {"SET_BG", "SET_FLEX", "SET_CENTER", "SET_ON_CLICK", "SET_GAP", "SET_ROUNDED",
         "SET_PADDING", "SET_SIZE", "SET_BORDER"}
  BY DEF BoxWrites
<1>7. \A op \in {"SET_BG", "SET_FLEX", "SET_CENTER", "SET_ON_CLICK"} :
        Good(op, BoxWrites[op])
  BY <1>1, SameIsGood
<1>8. \A op \in {"SET_GAP", "SET_ROUNDED", "SET_PADDING"} : Good(op, BoxWrites[op])
  BY <1>2, Floats DEF Good
<1>9. Good("SET_SIZE", BoxWrites["SET_SIZE"])
  BY <1>3, Floats DEF Good
<1>10. Good("SET_BORDER", BoxWrites["SET_BORDER"])
  BY <1>4, <1>5 DEF Good
<1> QED BY <1>6, <1>7, <1>8, <1>9, <1>10

LEMMA ItemsGood ==
  /\ \A op \in DOMAIN ItemWrites : Good(op, ItemWrites[op])
  /\ \A op \in DOMAIN TypeWrites : Good(op, TypeWrites[op])
<1>1. \A op \in DOMAIN ItemWrites : op \in DOMAIN Reads
  BY SameOpcodes, WritesAre
<1>2. \A op \in DOMAIN ItemWrites : ItemWrites[op] = {Reads[op]}
  <2>1. \A op \in {"SET_BG_COLOR", "SET_MARGIN", "SET_MIN_SIZE", "SET_MAX_SIZE",
                   "SET_FLEX_ITEM", "SET_ALIGN", "SET_OVERFLOW", "SET_OPACITY"} :
          op \in DOMAIN ItemReads /\ ItemWrites[op] = {ItemReads[op]}
    <3>1. /\ ItemWrites["SET_BG_COLOR"] = {ItemReads["SET_BG_COLOR"]}
          /\ ItemWrites["SET_MARGIN"] = {ItemReads["SET_MARGIN"]}
          /\ ItemWrites["SET_MIN_SIZE"] = {ItemReads["SET_MIN_SIZE"]}
          /\ ItemWrites["SET_MAX_SIZE"] = {ItemReads["SET_MAX_SIZE"]}
          /\ ItemWrites["SET_FLEX_ITEM"] = {ItemReads["SET_FLEX_ITEM"]}
          /\ ItemWrites["SET_ALIGN"] = {ItemReads["SET_ALIGN"]}
          /\ ItemWrites["SET_OVERFLOW"] = {ItemReads["SET_OVERFLOW"]}
          /\ ItemWrites["SET_OPACITY"] = {ItemReads["SET_OPACITY"]}
      BY DEF ItemReads, ItemWrites
    <3>2. {"SET_BG_COLOR", "SET_MARGIN", "SET_MIN_SIZE", "SET_MAX_SIZE",
           "SET_FLEX_ITEM", "SET_ALIGN", "SET_OVERFLOW", "SET_OPACITY"}
            \subseteq DOMAIN ItemReads
      BY DEF ItemReads
    <3> QED BY <3>1, <3>2
  <2>2. \A op \in DOMAIN PlaceReads : ItemWrites[op] = {PlaceReads[op]}
    <3>1. /\ ItemWrites["SET_SHADOW"] = {PlaceReads["SET_SHADOW"]}
          /\ ItemWrites["SET_CURSOR"] = {PlaceReads["SET_CURSOR"]}
          /\ ItemWrites["SET_POSITION"] = {PlaceReads["SET_POSITION"]}
          /\ ItemWrites["SET_INSET"] = {PlaceReads["SET_INSET"]}
          /\ ItemWrites["SET_PADDING_SIDES"] = {PlaceReads["SET_PADDING_SIDES"]}
      BY DEF PlaceReads, ItemWrites
    <3>2. DOMAIN PlaceReads = {"SET_SHADOW", "SET_CURSOR", "SET_POSITION", "SET_INSET",
                               "SET_PADDING_SIDES"}
      BY DEF PlaceReads
    <3> QED BY <3>1, <3>2
  <2>3. "SET_SCROLL_ID" \in DOMAIN FocusReads
        /\ ItemWrites["SET_SCROLL_ID"] = {FocusReads["SET_SCROLL_ID"]}
    BY DEF FocusReads, ItemWrites
  <2>4. \A op \in DOMAIN ItemWrites :
          \/ op \in {"SET_BG_COLOR", "SET_MARGIN", "SET_MIN_SIZE", "SET_MAX_SIZE",
                    "SET_FLEX_ITEM", "SET_ALIGN", "SET_OVERFLOW", "SET_OPACITY"}
          \/ op \in DOMAIN PlaceReads \/ op = "SET_SCROLL_ID"
    BY DEF PlaceReads, ItemWrites
  <2> QED BY <2>1, <2>2, <2>3, <2>4, ReadsAre
<1>3. \A op \in DOMAIN TypeWrites : op \in DOMAIN Reads
  BY SameOpcodes, WritesAre
<1>4. \A op \in DOMAIN TypeWrites : TypeWrites[op] = {Reads[op]}
  BY ReadsAre DEF TypeReads, FocusReads, TypeWrites
<1> QED BY <1>1, <1>2, <1>3, <1>4, SameIsGood

LEMMA RunIsGood ==
  ASSUME NEW color \in {Rgba, <<"zero">>}, NEW weight \in {<<"int">>, <<"zero">>},
         NEW background \in {Rgba, <<"zero">>}
  PROVE  Matches(<<"int", "int", "byte">> \o color \o weight \o background,
                 <<"int", "int", "byte">> \o Rgba \o <<"int">> \o Rgba)
<1>1. Matches(color, Rgba) /\ Matches(background, Rgba)
  BY ZeroColor, ColorsTyped, MatchSelf
<1>2. <<"int">> \in Seq(Operands) /\ <<"int", "int", "byte">> \in Seq(Operands)
  BY DEF Operands
<1>3. Matches(weight, <<"int">>)
  BY <1>2, Zeros, MatchSelf
<1>4. Matches(<<"int", "int", "byte">>, <<"int", "int", "byte">>)
  BY <1>2, MatchSelf
<1> DEFINE head == <<"int", "int", "byte">>
           int == <<"int">>
<1> HIDE DEF head, int
<1>5. Matches(head \o color, head \o Rgba)
  BY <1>1, <1>4, MatchConcat DEF head
<1>6. Matches(head \o color \o weight, head \o Rgba \o int)
  BY <1>3, <1>5, MatchConcat DEF int
<1>7. Matches(head \o color \o weight \o background, head \o Rgba \o int \o Rgba)
  BY <1>1, <1>6, MatchConcat
<1> QED BY <1>7 DEF head, int

LEMMA NodesGood == \A op \in DOMAIN NodeWrites : Good(op, NodeWrites[op])
<1>1. \A op \in {"DIV", "TEXT_INPUT", "SET_KEY", "ADD_CHILD", "SET_ROOT"} :
        op \in DOMAIN Reads /\ NodeWrites[op] = {Reads[op]}
  <2>1. \A op \in {"DIV", "TEXT_INPUT", "SET_KEY", "ADD_CHILD", "SET_ROOT"} :
          op \in DOMAIN NodeReads /\ NodeWrites[op] = {NodeReads[op]}
    <3>1. /\ NodeWrites["DIV"] = {NodeReads["DIV"]}
          /\ NodeWrites["TEXT_INPUT"] = {NodeReads["TEXT_INPUT"]}
          /\ NodeWrites["SET_KEY"] = {NodeReads["SET_KEY"]}
          /\ NodeWrites["ADD_CHILD"] = {NodeReads["ADD_CHILD"]}
          /\ NodeWrites["SET_ROOT"] = {NodeReads["SET_ROOT"]}
      BY DEF NodeReads, NodeWrites
    <3>2. {"DIV", "TEXT_INPUT", "SET_KEY", "ADD_CHILD", "SET_ROOT"} \subseteq DOMAIN NodeReads
      BY DEF NodeReads
    <3> QED BY <3>1, <3>2
  <2> QED BY <2>1, ReadsAre
<1>2. \A op \in {"DIV", "TEXT_INPUT", "SET_KEY", "ADD_CHILD", "SET_ROOT"} :
        Good(op, NodeWrites[op])
  BY <1>1, SameIsGood
<1>3. Good("TEXT", NodeWrites["TEXT"])
  <2>1. /\ Reads["TEXT"] = <<"str">> \o Rgb \o <<"px">>
        /\ NodeWrites["TEXT"] = {<<"str">> \o Rgb \o <<"float">>}
    BY ReadsAre DEF NodeReads, NodeWrites
  <2>2. <<"str">> \in Seq(Operands)
    BY DEF Operands
  <2>3. <<"str">> \o Rgb \in Seq(Operands)
    BY <2>2, ColorsTyped, ConcatProperties
  <2>4. Matches(<<"str">> \o Rgb, <<"str">> \o Rgb)
    BY <2>3, MatchSelf
  <2>5. Matches(<<"str">> \o Rgb \o <<"float">>, <<"str">> \o Rgb \o <<"px">>)
    BY <2>4, Floats, MatchConcat
  <2> QED BY <2>1, <2>5 DEF Good
<1>4. Good("IMAGE", NodeWrites["IMAGE"])
  <2>1. /\ Reads["IMAGE"] = <<"px", "px", "int", "str">>
        /\ NodeWrites["IMAGE"] = {<<"float", "float", "int", "str">>}
    BY ReadsAre DEF NodeReads, NodeWrites
  <2> QED BY <2>1, Floats DEF Good
<1>5. Good("TEXT_RUN", NodeWrites["TEXT_RUN"])
  <2>1. Reads["TEXT_RUN"] = <<"int", "int", "byte">> \o Rgba \o <<"int">> \o Rgba
    BY ReadsAre DEF NodeReads
  <2>2. \A w \in NodeWrites["TEXT_RUN"] :
          \E color \in {Rgba, <<"zero">>}, background \in {Rgba, <<"zero">>},
             weight \in {<<"int">>, <<"zero">>} :
            w = <<"int", "int", "byte">> \o color \o weight \o background
    <3>1. NodeWrites["TEXT_RUN"] =
            {<<"int", "int", "byte">> \o color \o weight \o background :
               color, background \in {Rgba, <<"zero">>},
               weight \in {<<"int">>, <<"zero">>}}
      BY DEF NodeWrites
    <3> DEFINE C == {Rgba, <<"zero">>}
               W == {<<"int">>, <<"zero">>}
               Run(color, background, weight) ==
                 <<"int", "int", "byte">> \o color \o weight \o background
    <3>2. NodeWrites["TEXT_RUN"] =
            {Run(color, background, weight) : color \in C, background \in C, weight \in W}
      BY <3>1
    <3> HIDE DEF Run, C, W
    <3>3. \A w \in NodeWrites["TEXT_RUN"] : \E color \in C, background \in C, weight \in W :
            w = Run(color, background, weight)
      BY <3>2
    <3> QED BY <3>3 DEF Run, C, W
  <2> QED BY <2>1, <2>2, RunIsGood DEF Good
<1>6. Good("SET_TEXT_ROW", NodeWrites["SET_TEXT_ROW"])
  <2>1. Reads["SET_TEXT_ROW"] = <<"str", "byte", "int">> \o Rgb \o <<"byte">>
    BY ReadsAre DEF NodeReads
  <2>2. \A w \in NodeWrites["SET_TEXT_ROW"] :
          \E offset \in {"int", "zero"} :
            w = <<"str", "byte", offset>> \o Rgb \o <<"byte">>
    BY DEF NodeWrites
  <2>3. ASSUME NEW offset \in {"int", "zero"}
        PROVE  Matches(<<"str", "byte", offset>> \o Rgb \o <<"byte">>,
                       <<"str", "byte", "int">> \o Rgb \o <<"byte">>)
    <3>1. /\ <<"str", "byte", "int">> \in Seq(Operands)
          /\ <<"byte">> \in Seq(Operands)
      BY DEF Operands
    <3>2. Matches(<<"str", "byte", offset>>, <<"str", "byte", "int">>)
      BY <3>1, Zeros, MatchSelf
    <3>3. Matches(<<"str", "byte", offset>> \o Rgb, <<"str", "byte", "int">> \o Rgb)
      BY <3>2, ColorsTyped, MatchSelf, MatchConcat
    <3>4. Matches(<<"byte">>, <<"byte">>)
      BY <3>1, MatchSelf
    <3> QED BY <3>3, <3>4, MatchConcat
  <2> QED BY <2>1, <2>2, <2>3 DEF Good
<1>7. DOMAIN NodeWrites =
        {"DIV", "TEXT_INPUT", "SET_KEY", "ADD_CHILD", "SET_ROOT", "TEXT", "IMAGE",
         "TEXT_RUN", "SET_TEXT_ROW"}
  BY DEF NodeWrites
<1> QED BY <1>2, <1>3, <1>4, <1>5, <1>6, <1>7

\* The decoder's operands and the builder's are one format: for every opcode,
\* whatever the builder leaves unset, the bytes that are written have the length
\* and the places of those that are read, so that no command shifts the next
\* (lib.rs 1104-1912, gpui-bindings.mbt 278-950).
THEOREM FormatsAreOne == Spec => []FormatsAgree
<1>1. InStep
  <2>1. \A op \in DOMAIN Writes : Good(op, Writes[op])
    BY WritesAre, BoxGood, ItemsGood, NodesGood
  <2> QED BY <2>1, SameOpcodes DEF Good, Matches, InStep
<1>2. FormatsAgree
  BY <1>1 DEF FormatsAgree
<1>3. [Next]_vars => FormatsAgree'
  BY <1>1 DEF FormatsAgree
<1> QED BY <1>2, <1>3, PTL DEF Spec
=============================================================================
