------------------------ MODULE AsyncInjectionProofs ------------------------
(***************************************************************************)
(* Proofs about AsyncInjection for every number of producers, views,       *)
(* queue capacity, posts and window runs.                                  *)
(***************************************************************************)
EXTENDS AsyncInjection, SequenceTheorems, TLAPS

-----------------------------------------------------------------------------
(* Facts about sequences.                                                  *)

\* Taking the head off the third part of a concatenation and putting it in
\* the empty second part changes nothing.
LEMMA ShiftHead ==
  ASSUME NEW S, NEW s \in Seq(S), NEW t \in Seq(S), t # <<>>
  PROVE  s \o <<>> \o t = s \o <<Head(t)>> \o Tail(t)
<1>1. /\ Head(t) \in S /\ Tail(t) \in Seq(S) /\ Len(Tail(t)) = Len(t) - 1
      /\ \A i \in 1 .. Len(Tail(t)) : Tail(t)[i] = t[i + 1]
  BY HeadTailProperties
<1>2. /\ <<Head(t)>> \in Seq(S) /\ Len(<<Head(t)>>) = 1 /\ <<Head(t)>>[1] = Head(t)
      /\ Head(t) = t[1]
  BY <1>1
<1>3. <<Head(t)>> \o Tail(t) = t
  <2>1. /\ <<Head(t)>> \o Tail(t) \in Seq(S)
        /\ Len(<<Head(t)>> \o Tail(t)) = Len(t)
        /\ \A i \in 1 .. Len(t) : (<<Head(t)>> \o Tail(t))[i] = t[i]
    BY <1>1, <1>2, ConcatProperties, LenProperties
  <2>2. QED
    BY <2>1, SeqEqual
<1>4. s \o <<>> = s
  BY ConcatEmptySeq
<1>5. s \o <<Head(t)>> \o Tail(t) = s \o (<<Head(t)>> \o Tail(t))
  BY <1>1, <1>2, ConcatAssociative
<1>6. QED
  BY <1>3, <1>4, <1>5

\* Appending the middle singleton to the first part changes nothing.
LEMMA ShiftSingleton ==
  ASSUME NEW S, NEW s \in Seq(S), NEW e \in S, NEW t \in Seq(S)
  PROVE  s \o <<e>> \o t = Append(s, e) \o <<>> \o t
<1>1. Append(s, e) = s \o <<e>>
  BY AppendIsConcat
<1>2. Append(s, e) \in Seq(S)
  BY AppendProperties
<1>3. Append(s, e) \o <<>> = Append(s, e)
  BY <1>2, ConcatEmptySeq
<1>4. QED
  BY <1>1, <1>3

\* Appending to the last part appends to the whole.
LEMMA AppendLast ==
  ASSUME NEW S, NEW s \in Seq(S), NEW t \in Seq(S), NEW e \in S
  PROVE  s \o Append(t, e) = Append(s \o t, e)
<1>1. /\ Append(t, e) = t \o <<e>>
      /\ s \o t \in Seq(S)
      /\ <<e>> \in Seq(S)
  BY AppendIsConcat, ConcatProperties
<1>2. Append(s \o t, e) = (s \o t) \o <<e>>
  BY <1>1, AppendIsConcat
<1>3. QED
  BY <1>1, <1>2, ConcatAssociative

\* A sequence of at most one element is empty or a singleton.
LEMMA AtMostOne ==
  ASSUME NEW S, NEW s \in Seq(S), Len(s) <= 1, s # <<>>
  PROVE  s = <<s[1]>> /\ s[1] \in S
<1>1. Len(s) = 1
  <2>1. Len(s) \in Nat \ {0}
    BY EmptySeq
  <2> QED
    BY <2>1
<1>2. s[1] \in S
  BY <1>1, ElementOfSeq
<1>3. <<s[1]>> \in Seq(S) /\ Len(<<s[1]>>) = 1 /\ <<s[1]>>[1] = s[1]
  BY <1>2
<1>4. QED
  BY <1>1, <1>2, <1>3, SeqEqual

-----------------------------------------------------------------------------
(* Type correctness.                                                       *)

LEMMA TypesInit == Init => Types
<1> SUFFICES ASSUME Init PROVE Types
  OBVIOUS
<1>1. 0 \in 0 .. MaxPosts /\ 0 \in 0 .. MaxRuns
  BY BoundsAssumption
<1>2. <<>> \in Seq(Entry) /\ Len(<<>>) = 0
  BY EmptySeq
<1>3. /\ pc \in [Producers -> {"idle", "init", "push", "wake"}]
      /\ call \in [Producers -> Entry \union {NoCall}]
      /\ \A p \in Producers : pc[p] = "idle"
      /\ posts \in [Producers -> 0 .. MaxPosts]
  BY <1>1 DEF Init
<1>4. /\ injectSet \in BOOLEAN /\ armed \in BOOLEAN /\ wakes \in Nat
      /\ sawQueue \in BOOLEAN /\ wayland \in BOOLEAN
      /\ main = "idle" /\ pump = "none" /\ runs \in 0 .. MaxRuns
      /\ trees \in SUBSET Views
  BY <1>1 DEF Init
<1>5. /\ delivered \in SUBSET Entry /\ okayed \in SUBSET Entry /\ owed \in SUBSET Entry
      /\ entries = <<>> /\ held = <<>> /\ accepted = <<>> /\ taken = <<>>
  BY DEF Init
<1> QED
  BY <1>2, <1>3, <1>4, <1>5 DEF Types

LEMMA TypesNext == Types /\ [Next]_vars => Types'
<1> SUFFICES ASSUME Types, [Next]_vars PROVE Types'
  OBVIOUS
<1> USE DEF Types, queueVars, producerVars, mainVars, pumpVars, history
<1>1. ASSUME NEW p \in Producers, NEW view \in Views \union {BadView},
             NEW size \in {"fits", "big"}, Post(p, view, size)
      PROVE  Types'
  <2>1. CASE ValidPost(view, size)
    <3>1. posts[p] + 1 \in 1 .. MaxPosts /\ posts[p] + 1 \in 0 .. MaxPosts
      BY <1>1, BoundsAssumption DEF Post
    <3>2. [view |-> view, by |-> p, n |-> posts[p] + 1] \in Entry
      BY <2>1, <3>1 DEF ValidPost, Entry
    <3> QED
      BY <1>1, <2>1, <3>1, <3>2 DEF Post
  <2>2. CASE ~ValidPost(view, size)
    <3>1. posts[p] + 1 \in 0 .. MaxPosts
      BY <1>1, BoundsAssumption DEF Post
    <3> QED
      BY <1>1, <2>2, <3>1 DEF Post
  <2> QED
    BY <2>1, <2>2
<1>2. ASSUME NEW p \in Producers, GetOrInit(p) PROVE Types'
  BY <1>2 DEF GetOrInit
<1>3. ASSUME NEW p \in Producers, Push(p) PROVE Types'
  <2>1. call[p] \in Entry
    BY <1>3 DEF Push
  <2>2. Append(entries, call[p]) \in Seq(Entry) /\ Append(accepted, call[p]) \in Seq(Entry)
    BY <2>1, AppendProperties
  <2> QED
    BY <1>3, <2>1, <2>2 DEF Push
<1>4. ASSUME NEW p \in Producers, QueueFull(p) PROVE Types'
  BY <1>4 DEF QueueFull
<1>5. ASSUME NEW p \in Producers, Wake(p) PROVE Types'
  <2>1. call[p] \in Entry
    BY <1>5 DEF Wake
  <2> QED
    BY <1>5, <2>1 DEF Wake
<1>6. ASSUME NEW v \in Views, CommitTree(v) PROVE Types'
  BY <1>6 DEF CommitTree
<1>7. CASE RunWindow
  BY <1>7, BoundsAssumption DEF RunWindow
<1>8. CASE InstallGet
  BY <1>8 DEF InstallGet
<1>9. CASE InstallSwap
  BY <1>9 DEF InstallSwap
<1>10. CASE InstallSet
  BY <1>10 DEF InstallSet
<1>11. CASE OpenWindow
  BY <1>11 DEF OpenWindow
<1>12. CASE RunReturns
  BY <1>12 DEF RunReturns, DropPump
<1>13. CASE RunPanics
  BY <1>13 DEF RunPanics, DropPump
<1>14. CASE PumpStart
  BY <1>14 DEF PumpStart
<1>15. CASE Pop
  <2>1. Head(entries) \in Entry /\ Tail(entries) \in Seq(Entry)
    BY <1>15, HeadTailProperties DEF Pop
  <2>2. <<Head(entries)>> \in Seq(Entry) /\ Len(<<Head(entries)>>) = 1
    BY <2>1
  <2> QED
    BY <1>15, <2>1, <2>2 DEF Pop
<1>16. ASSUME NEW built \in SUBSET Views, Dispatch(built) PROVE Types'
  <2>1. held[1] \in Entry
    BY <1>16, AtMostOne DEF Dispatch
  <2>2. Append(taken, held[1]) \in Seq(Entry) /\ <<>> \in Seq(Entry) /\ Len(<<>>) = 0
    BY <2>1, AppendProperties, EmptySeq
  <2> QED
    BY <1>16, <2>1, <2>2 DEF Dispatch
<1>17. CASE Drop
  <2>1. held[1] \in Entry
    BY <1>17, AtMostOne DEF Drop
  <2>2. Append(taken, held[1]) \in Seq(Entry) /\ <<>> \in Seq(Entry) /\ Len(<<>>) = 0
    BY <2>1, AppendProperties, EmptySeq
  <2> QED
    BY <1>17, <2>1, <2>2 DEF Drop
<1>18. CASE PumpIdle
  BY <1>18 DEF PumpIdle
<1>19. CASE PumpWake
  BY <1>19 DEF PumpWake
<1>20. CASE PumpExit
  BY <1>20 DEF PumpExit
<1>21. CASE UNCHANGED vars
  BY <1>21 DEF vars
<1> QED
  BY <1>1, <1>2, <1>3, <1>4, <1>5, <1>6, <1>7, <1>8, <1>9, <1>10, <1>11, <1>12, <1>13,
     <1>14, <1>15, <1>16, <1>17, <1>18, <1>19, <1>20, <1>21
  DEF Next, ProducerStep, PumpStep, MainStep

-----------------------------------------------------------------------------
(* Where entries move.  Only Push, Pop and the end of one drain iteration  *)
(* touch the queue, the entry in hand or the histories of them.            *)

Dispose ==
  /\ held # <<>>
  /\ held' = <<>>
  /\ taken' = Append(taken, held[1])
  /\ UNCHANGED <<entries, accepted, owed, okayed, pc, call, posts>>
  /\ \/ held[1].view \in trees /\ delivered' = delivered \union {held[1]}
     \/ held[1].view \notin trees /\ delivered' = delivered

LEMMA EntrySteps ==
  ASSUME [Next]_vars
  PROVE  \/ \E p \in Producers : Push(p)
         \/ Pop
         \/ Dispose
         \/ UNCHANGED <<entries, held, accepted, taken, delivered, owed>>
<1> USE DEF queueVars, producerVars, mainVars, pumpVars, history
<1>1. ASSUME NEW p \in Producers, NEW view \in Views \union {BadView},
             NEW size \in {"fits", "big"}, Post(p, view, size)
      PROVE  UNCHANGED <<entries, held, accepted, taken, delivered, owed>>
  BY <1>1 DEF Post
<1>2. ASSUME NEW p \in Producers, GetOrInit(p) \/ QueueFull(p) \/ Wake(p)
      PROVE  UNCHANGED <<entries, held, accepted, taken, delivered, owed>>
  BY <1>2 DEF GetOrInit, QueueFull, Wake
<1>3. ASSUME MainStep
      PROVE  UNCHANGED <<entries, held, accepted, taken, delivered, owed>>
  BY <1>3 DEF MainStep, RunWindow, InstallGet, InstallSwap, InstallSet, OpenWindow,
              RunReturns, RunPanics, DropPump, CommitTree
<1>4. ASSUME PumpStart \/ PumpIdle \/ PumpWake \/ PumpExit
      PROVE  UNCHANGED <<entries, held, accepted, taken, delivered, owed>>
  BY <1>4 DEF PumpStart, PumpIdle, PumpWake, PumpExit
<1>5. ASSUME NEW built \in SUBSET Views, Dispatch(built)
      PROVE  Dispose
  BY <1>5 DEF Dispatch, Dispose
<1>6. ASSUME Drop
      PROVE  Dispose
  BY <1>6 DEF Drop, Dispose
<1>7. CASE UNCHANGED vars
  BY <1>7 DEF vars
<1> QED
  BY <1>1, <1>2, <1>3, <1>4, <1>5, <1>6, <1>7 DEF Next, ProducerStep, PumpStep

\* What Append does to the elements of a sequence.
LEMMA AppendElements ==
  ASSUME NEW S, NEW s \in Seq(S), NEW e \in S
  PROVE  ToSet(Append(s, e)) = ToSet(s) \union {e}
<1>1. /\ Append(s, e) \in Seq(S)
      /\ Len(Append(s, e)) = Len(s) + 1
      /\ \A i \in 1 .. Len(s) : Append(s, e)[i] = s[i]
      /\ Append(s, e)[Len(s) + 1] = e
  BY AppendProperties
<1>2. /\ Len(s) \in Nat
      /\ DOMAIN s = 1 .. Len(s)
      /\ DOMAIN Append(s, e) = 1 .. Len(s) + 1
  BY <1>1, LenProperties
<1>3. ToSet(Append(s, e)) \subseteq ToSet(s) \union {e}
  BY <1>1, <1>2 DEF ToSet
<1>4. ToSet(s) \union {e} \subseteq ToSet(Append(s, e))
  <2>1. Len(s) + 1 \in DOMAIN Append(s, e)
    BY <1>2
  <2>2. \A i \in DOMAIN s : i \in DOMAIN Append(s, e) /\ Append(s, e)[i] = s[i]
    BY <1>1, <1>2
  <2> QED
    BY <1>1, <2>1, <2>2 DEF ToSet
<1> QED
  BY <1>3, <1>4

\* The elements of a concatenation are those of its parts.
LEMMA ConcatElements ==
  ASSUME NEW S, NEW s \in Seq(S), NEW t \in Seq(S)
  PROVE  ToSet(s) \union ToSet(t) = ToSet(s \o t)
<1>1. /\ s \o t \in Seq(S)
      /\ Len(s \o t) = Len(s) + Len(t)
      /\ \A i \in 1 .. Len(s) + Len(t) :
           (s \o t)[i] = IF i <= Len(s) THEN s[i] ELSE t[i - Len(s)]
  BY ConcatProperties
<1>2. /\ Len(s) \in Nat /\ Len(t) \in Nat
      /\ DOMAIN s = 1 .. Len(s) /\ DOMAIN t = 1 .. Len(t)
      /\ DOMAIN (s \o t) = 1 .. Len(s) + Len(t)
  BY <1>1, LenProperties
<1>3. ToSet(s) \subseteq ToSet(s \o t)
  <2>1. \A i \in DOMAIN s : i \in DOMAIN (s \o t) /\ (s \o t)[i] = s[i]
    BY <1>1, <1>2
  <2> QED
    BY <2>1 DEF ToSet
<1>4. ToSet(t) \subseteq ToSet(s \o t)
  <2>1. \A i \in DOMAIN t : i + Len(s) \in DOMAIN (s \o t) /\ (s \o t)[i + Len(s)] = t[i]
    BY <1>1, <1>2
  <2> QED
    BY <2>1 DEF ToSet
<1>5. ToSet(s \o t) \subseteq ToSet(s) \union ToSet(t)
  <2>1. ASSUME NEW i \in DOMAIN (s \o t)
        PROVE  (s \o t)[i] \in ToSet(s) \union ToSet(t)
    <3>1. CASE i <= Len(s)
      BY <1>1, <1>2, <3>1 DEF ToSet
    <3>2. CASE ~(i <= Len(s))
      <4>1. i - Len(s) \in DOMAIN t /\ (s \o t)[i] = t[i - Len(s)]
        BY <1>1, <1>2, <3>2
      <4> QED
        BY <4>1 DEF ToSet
    <3> QED
      BY <3>1, <3>2
  <2> QED
    BY <2>1 DEF ToSet
<1> QED
  BY <1>3, <1>4, <1>5

-----------------------------------------------------------------------------
(* The parts of the inductive invariant.                                   *)

LEMMA BoundedNext ==
  ASSUME Types, Bounded, [Next]_vars
  PROVE  Bounded'
<1> USE DEF Bounded, Types
<1>1. ASSUME NEW p \in Producers, Push(p) PROVE Bounded'
  <2>1. call[p] \in Entry
    BY <1>1 DEF Push
  <2>2. Len(Append(entries, call[p])) = Len(entries) + 1 /\ Len(entries) \in Nat
    BY <2>1, AppendProperties, LenProperties
  <2> QED
    BY <1>1, <2>2, BoundsAssumption DEF Push
<1>2. CASE Pop
  <2>1. Len(Tail(entries)) = Len(entries) - 1 /\ Len(entries) \in Nat
    BY <1>2, HeadTailProperties, LenProperties DEF Pop
  <2> QED
    BY <1>2, <2>1, BoundsAssumption DEF Pop
<1>3. CASE Dispose
  BY <1>3 DEF Dispose
<1>4. CASE UNCHANGED <<entries, held, accepted, taken, delivered, owed>>
  BY <1>4
<1> QED
  BY <1>1, <1>2, <1>3, <1>4, EntrySteps

LEMMA ExactlyOnceNext ==
  ASSUME Types, ExactlyOnceInOrder, [Next]_vars
  PROVE  ExactlyOnceInOrder'
<1> USE DEF ExactlyOnceInOrder, Types
<1>1. ASSUME NEW p \in Producers, Push(p) PROVE ExactlyOnceInOrder'
  <2>1. call[p] \in Entry
    BY <1>1 DEF Push
  <2>2. taken \o held \in Seq(Entry)
    BY ConcatProperties
  <2>3. (taken \o held) \o Append(entries, call[p])
          = Append((taken \o held) \o entries, call[p])
    BY <2>1, <2>2, AppendLast
  <2> QED
    BY <1>1, <2>3 DEF Push, pumpVars
<1>2. CASE Pop
  <2>1. taken \o <<>> \o entries = taken \o <<Head(entries)>> \o Tail(entries)
    BY <1>2, ShiftHead DEF Pop
  <2> QED
    BY <1>2, <2>1 DEF Pop, history
<1>3. CASE Dispose
  <2>1. held = <<held[1]>> /\ held[1] \in Entry
    BY <1>3, AtMostOne DEF Dispose
  <2>2. taken \o <<held[1]>> \o entries = Append(taken, held[1]) \o <<>> \o entries
    BY <2>1, ShiftSingleton
  <2> QED
    BY <1>3, <2>1, <2>2 DEF Dispose
<1>4. CASE UNCHANGED <<entries, held, accepted, taken, delivered, owed>>
  BY <1>4
<1> QED
  BY <1>1, <1>2, <1>3, <1>4, EntrySteps

\* The wake protocol: an entry is pushed before its wake is sent, a drain ends
\* only on an empty queue, and a fresh channel comes with a pump that has its
\* startup drain before it.
LEMMA NoLostWakeNext ==
  ASSUME Types, NoLostWake, [Next]_vars
  PROVE  NoLostWake'
<1> USE DEF NoLostWake, Types, queueVars, producerVars, mainVars, pumpVars, history
<1>1. ASSUME NEW p \in Producers, NEW view \in Views \union {BadView},
             NEW size \in {"fits", "big"}, Post(p, view, size)
      PROVE  NoLostWake'
  BY <1>1 DEF Post
<1>2. ASSUME NEW p \in Producers, GetOrInit(p) PROVE NoLostWake'
  BY <1>2 DEF GetOrInit
<1>3. ASSUME NEW p \in Producers, Push(p) PROVE NoLostWake'
  BY <1>3 DEF Push
<1>4. ASSUME NEW p \in Producers, QueueFull(p) PROVE NoLostWake'
  BY <1>4 DEF QueueFull
<1>5. ASSUME NEW p \in Producers, Wake(p) PROVE NoLostWake'
  BY <1>5 DEF Wake
<1>6. ASSUME NEW v \in Views, CommitTree(v) PROVE NoLostWake'
  BY <1>6 DEF CommitTree
<1>7. CASE RunWindow \/ InstallGet \/ OpenWindow
  BY <1>7 DEF RunWindow, InstallGet, OpenWindow
<1>8. CASE InstallSwap \/ InstallSet
  BY <1>8 DEF InstallSwap, InstallSet
<1>9. CASE RunReturns \/ RunPanics
  BY <1>9 DEF RunReturns, RunPanics, DropPump
<1>10. CASE PumpStart \/ PumpIdle \/ PumpWake \/ PumpExit
  BY <1>10 DEF PumpStart, PumpIdle, PumpWake, PumpExit
<1>11. CASE Pop
  BY <1>11 DEF Pop
<1>12. ASSUME NEW built \in SUBSET Views, Dispatch(built) PROVE NoLostWake'
  BY <1>12 DEF Dispatch
<1>13. CASE Drop
  BY <1>13 DEF Drop
<1>14. CASE UNCHANGED vars
  BY <1>14 DEF vars
<1> QED
  BY <1>1, <1>2, <1>3, <1>4, <1>5, <1>6, <1>7, <1>8, <1>9, <1>10, <1>11, <1>12, <1>13,
     <1>14
  DEF Next, ProducerStep, PumpStep, MainStep

LEMMA CallsNumberedNext ==
  ASSUME Types, CallsNumbered, [Next]_vars
  PROVE  CallsNumbered'
<1> USE DEF CallsNumbered, Types, producerVars
<1>1. ASSUME NEW p \in Producers, NEW view \in Views \union {BadView},
             NEW size \in {"fits", "big"}, Post(p, view, size)
      PROVE  CallsNumbered'
  BY <1>1 DEF Post
<1>2. ASSUME NEW p \in Producers, ProducerStep(p) PROVE CallsNumbered'
  BY <1>2 DEF ProducerStep, GetOrInit, Push, QueueFull, Wake
<1>3. CASE UNCHANGED producerVars
  BY <1>3
<1>4. PumpStep \/ MainStep \/ UNCHANGED vars => UNCHANGED producerVars
  BY DEF PumpStep, MainStep, vars, PumpStart, Pop, Drop, PumpIdle, PumpWake, PumpExit,
         Dispatch, RunWindow, InstallGet, InstallSwap, InstallSet, OpenWindow,
         RunReturns, RunPanics, CommitTree
<1> QED
  BY <1>1, <1>2, <1>3, <1>4 DEF Next

\* What happens to the calls and their numbers, by kind of step.
LEMMA CallSteps ==
  ASSUME Types, [Next]_vars
  PROVE  \/ \E p \in Producers : Push(p)
         \/ \E p \in Producers :
              /\ pc[p] = "idle" /\ pc'[p] \in {"idle", "init"}
              /\ \A q \in Producers \ {p} : pc'[q] = pc[q] /\ call'[q] = call[q]
              /\ posts' = [posts EXCEPT ![p] = @ + 1]
              /\ UNCHANGED <<accepted, okayed>>
         \/ \E p \in Producers :
              /\ pc[p] \in {"init", "push"} /\ pc'[p] \in {"idle", "push"}
              /\ \A q \in Producers \ {p} : pc'[q] = pc[q] /\ call'[q] = call[q]
              /\ UNCHANGED <<posts, accepted, okayed>>
         \/ \E p \in Producers : Wake(p)
         \/ UNCHANGED <<pc, call, posts, accepted, okayed>>
<1> USE DEF Types, producerVars, history
<1>1. ASSUME NEW p \in Producers, NEW view \in Views \union {BadView},
             NEW size \in {"fits", "big"}, Post(p, view, size)
      PROVE  /\ pc[p] = "idle" /\ pc'[p] \in {"idle", "init"}
             /\ \A q \in Producers \ {p} : pc'[q] = pc[q] /\ call'[q] = call[q]
             /\ posts' = [posts EXCEPT ![p] = @ + 1]
             /\ UNCHANGED <<accepted, okayed>>
  BY <1>1 DEF Post
<1>2. ASSUME NEW p \in Producers, GetOrInit(p) \/ QueueFull(p)
      PROVE  /\ pc[p] \in {"init", "push"} /\ pc'[p] \in {"idle", "push"}
             /\ \A q \in Producers \ {p} : pc'[q] = pc[q] /\ call'[q] = call[q]
             /\ UNCHANGED <<posts, accepted, okayed>>
  BY <1>2 DEF GetOrInit, QueueFull
<1>3. PumpStep \/ MainStep \/ UNCHANGED vars => UNCHANGED <<pc, call, posts, accepted, okayed>>
  BY DEF PumpStep, MainStep, vars, PumpStart, Pop, Drop, PumpIdle, PumpWake, PumpExit,
         Dispatch, RunWindow, InstallGet, InstallSwap, InstallSet, OpenWindow,
         RunReturns, RunPanics, CommitTree
<1> QED
  BY <1>1, <1>2, <1>3 DEF Next, ProducerStep

LEMMA AcceptedNumberedNext ==
  ASSUME Types, CallsNumbered, AcceptedNumbered, [Next]_vars
  PROVE  AcceptedNumbered'
<1> DEFINE Numbered(e) == /\ e.n <= posts[e.by]
                          /\ pc[e.by] \in {"init", "push"} => e.n < posts[e.by]
<1>0. \A e \in Entry : e.by \in Producers /\ e.n \in 1 .. MaxPosts
  BY DEF Entry
<1>e. ToSet(accepted) \subseteq Entry
  BY ElementOfSeq, LenProperties DEF Types, ToSet
<1>p. posts \in [Producers -> Nat] /\ pc \in [Producers -> {"idle", "init", "push", "wake"}]
  BY DEF Types
<1>1. ASSUME NEW p \in Producers, Push(p) PROVE AcceptedNumbered'
  <2>1. call[p] \in Entry /\ call[p].by = p /\ call[p].n = posts[p]
    BY <1>1 DEF Push, CallsNumbered, Types
  <2>2. ToSet(accepted') = ToSet(accepted) \union {call[p]}
    BY <1>1, <2>1, AppendElements DEF Push, Types
  <2>3. posts' = posts /\ pc' = [pc EXCEPT ![p] = "wake"]
    BY <1>1 DEF Push
  <2>4. ASSUME NEW e \in ToSet(accepted) PROVE Numbered(e)'
    BY <2>3, <2>4, <1>0, <1>e, <1>p DEF AcceptedNumbered
  <2>5. Numbered(call[p])'
    <3>1. call'[p] = call[p] /\ pc'[p] = "wake" /\ posts'[p] = posts[p] /\ posts[p] \in Nat
      BY <1>1, <2>3, <1>p DEF Push
    <3> QED
      BY <2>1, <3>1
  <2> QED
    BY <1>1, <2>2, <2>4, <2>5 DEF AcceptedNumbered, Push
<1>2. ASSUME NEW p \in Producers,
             pc[p] = "idle", \A q \in Producers \ {p} : pc'[q] = pc[q],
             posts' = [posts EXCEPT ![p] = @ + 1], accepted' = accepted
      PROVE  AcceptedNumbered'
  BY <1>2, <1>0, <1>e, <1>p DEF AcceptedNumbered
<1>3. ASSUME NEW p \in Producers,
             pc[p] \in {"init", "push"},
             \A q \in Producers \ {p} : pc'[q] = pc[q],
             posts' = posts, accepted' = accepted
      PROVE  AcceptedNumbered'
  BY <1>3, <1>0, <1>e, <1>p DEF AcceptedNumbered
<1>4. ASSUME NEW p \in Producers, Wake(p) PROVE AcceptedNumbered'
  BY <1>4, <1>0, <1>e, <1>p DEF AcceptedNumbered, Wake
<1>5. CASE UNCHANGED <<pc, call, posts, accepted, okayed>>
  BY <1>5 DEF AcceptedNumbered
<1> QED
  BY <1>1, <1>2, <1>3, <1>4, <1>5, CallSteps

LEMMA OkMeansAcceptedNext ==
  ASSUME Types, OkMeansAccepted, [Next]_vars
  PROVE  OkMeansAccepted'
<1> USE DEF OkMeansAccepted
<1>1. ASSUME NEW p \in Producers, Push(p) PROVE OkMeansAccepted'
  <2>1. ToSet(accepted') = ToSet(accepted) \union {call[p]}
    <3>1. call[p] \in Entry /\ accepted \in Seq(Entry)
          /\ accepted' = Append(accepted, call[p])
      BY <1>1 DEF Push, Types
    <3> QED
      BY <3>1, AppendElements
  <2>2. /\ call' = call /\ okayed' = okayed /\ pc[p] = "push"
        /\ \A q \in Producers : pc'[q] = "wake" <=> (q = p \/ pc[q] = "wake")
    BY <1>1 DEF Push, Types
  <2> QED
    BY <2>1, <2>2
<1>2. ASSUME NEW p \in Producers,
             pc[p] # "wake", pc'[p] # "wake",
             \A q \in Producers \ {p} : pc'[q] = pc[q] /\ call'[q] = call[q],
             accepted' = accepted, okayed' = okayed
      PROVE  OkMeansAccepted'
  <2>1. {call'[q] : q \in {r \in Producers : pc'[r] = "wake"}}
          = {call[q] : q \in {r \in Producers : pc[r] = "wake"}}
    BY <1>2
  <2> QED
    BY <1>2, <2>1
<1>3. ASSUME NEW p \in Producers, Wake(p) PROVE OkMeansAccepted'
  <2>1. /\ accepted' = accepted /\ okayed' = okayed \union {call[p]}
        /\ pc[p] = "wake" /\ pc'[p] = "idle"
        /\ \A q \in Producers \ {p} : pc'[q] = pc[q] /\ call'[q] = call[q]
    BY <1>3 DEF Wake, Types
  <2>2. {call[q] : q \in {r \in Producers : pc[r] = "wake"}}
          = {call'[q] : q \in {r \in Producers : pc'[r] = "wake"}} \union {call[p]}
    BY <2>1
  <2> QED
    BY <2>1, <2>2
<1>4. CASE UNCHANGED <<pc, call, posts, accepted, okayed>>
  BY <1>4
<1> QED
  BY <1>1, <1>2, <1>3, <1>4, CallSteps

LEMMA OwedHasTreeNext ==
  ASSUME OwedHasTree, [Next]_vars
  PROVE  OwedHasTree'
<1> USE DEF OwedHasTree
<1>1. trees \subseteq trees'
  BY DEF Next, ProducerStep, PumpStep, MainStep, vars, Post, GetOrInit, Push, QueueFull,
         Wake, PumpStart, Pop, Drop, PumpIdle, PumpWake, PumpExit,
         Dispatch, RunWindow, InstallGet, InstallSwap, InstallSet, OpenWindow,
         RunReturns, RunPanics, CommitTree
<1>2. CASE \E p \in Producers : Push(p)
  BY <1>2 DEF Push
<1>3. CASE Pop \/ Dispose \/ UNCHANGED <<entries, held, accepted, taken, delivered, owed>>
  BY <1>1, <1>3 DEF Pop, Dispose, history
<1> QED
  BY <1>2, <1>3, EntrySteps

\* What the pump has disposed of, has in hand or has yet to pop was accepted.
LEMMA PartsAccepted ==
  ASSUME Types, ExactlyOnceInOrder
  PROVE  ToSet(taken) \subseteq ToSet(accepted)
         /\ ToSet(held \o entries) \subseteq ToSet(accepted)
<1>1. /\ taken \in Seq(Entry) /\ held \o entries \in Seq(Entry)
      /\ taken \o (held \o entries) = accepted
  <2>1. taken \in Seq(Entry) /\ held \in Seq(Entry) /\ entries \in Seq(Entry)
    BY DEF Types
  <2>2. held \o entries \in Seq(Entry)
    BY <2>1, ConcatProperties
  <2>3. (taken \o held) \o entries = taken \o (held \o entries)
    BY <2>1, ConcatAssociative
  <2> QED
    BY <2>1, <2>2, <2>3 DEF ExactlyOnceInOrder
<1>2. ToSet(taken) \union ToSet(held \o entries) = ToSet(accepted)
  BY <1>1, ConcatElements
<1> QED
  BY <1>2

\* The entry a producer is about to push is new.
LEMMA PushIsFresh ==
  ASSUME Types, CallsNumbered, AcceptedNumbered, NEW p \in Producers, pc[p] = "push"
  PROVE  call[p] \notin ToSet(accepted)
<1>1. call[p] \in Entry /\ call[p].by = p /\ call[p].n = posts[p] /\ posts[p] \in Nat
  BY DEF Types, CallsNumbered
<1> QED
  BY <1>1 DEF AcceptedNumbered

LEMMA OwedIsDeliveredNext ==
  ASSUME Types, ExactlyOnceInOrder, CallsNumbered, AcceptedNumbered, OwedHasTree,
         OwedIsDelivered, [Next]_vars
  PROVE  OwedIsDelivered'
<1> USE DEF OwedIsDelivered
<1>1. ASSUME NEW p \in Producers, Push(p) PROVE OwedIsDelivered'
  <2>1. call[p] \notin ToSet(taken)
    BY <1>1, PushIsFresh, PartsAccepted DEF Push
  <2> QED
    BY <1>1, <2>1 DEF Push
<1>2. CASE Pop
  BY <1>2 DEF Pop, history
<1>3. CASE Dispose
  <2>1. held[1] \in Entry
    BY <1>3, AtMostOne DEF Dispose, Types
  <2>2. ToSet(taken') = ToSet(taken) \union {held[1]}
    BY <1>3, <2>1, AppendElements DEF Dispose, Types
  <2> QED
    BY <1>3, <2>2 DEF Dispose, OwedHasTree
<1>4. CASE UNCHANGED <<entries, held, accepted, taken, delivered, owed>>
  BY <1>4
<1> QED
  BY <1>1, <1>2, <1>3, <1>4, EntrySteps

-----------------------------------------------------------------------------
LEMMA IInvInit == Init => IInv
<1> SUFFICES ASSUME Init PROVE IInv
  OBVIOUS
<1>1. Types
  BY TypesInit
<1>2. ToSet(<<>>) = {} /\ Len(<<>>) = 0 /\ <<>> \o <<>> \o <<>> = <<>>
  BY DEF ToSet
<1>3. Bounded /\ ExactlyOnceInOrder /\ NoLostWake /\ OwedHasTree
  BY <1>2, BoundsAssumption DEF Init, Bounded, ExactlyOnceInOrder, NoLostWake, OwedHasTree
<1>4. \A p \in Producers : pc[p] = "idle"
  BY DEF Init
<1>5. CallsNumbered /\ AcceptedNumbered /\ OwedIsDelivered
  BY <1>2, <1>4 DEF Init, CallsNumbered, AcceptedNumbered, OwedIsDelivered
<1>6. OkMeansAccepted
  BY <1>2, <1>4 DEF Init, OkMeansAccepted
<1> QED
  BY <1>1, <1>3, <1>5, <1>6 DEF IInv

LEMMA IInvNext == IInv /\ [Next]_vars => IInv'
<1> SUFFICES ASSUME IInv, [Next]_vars PROVE IInv'
  OBVIOUS
<1>1. Types'
  BY TypesNext DEF IInv
<1>2. Bounded' /\ ExactlyOnceInOrder' /\ NoLostWake'
  BY BoundedNext, ExactlyOnceNext, NoLostWakeNext DEF IInv
<1>3. OkMeansAccepted' /\ CallsNumbered' /\ AcceptedNumbered'
  BY OkMeansAcceptedNext, CallsNumberedNext, AcceptedNumberedNext DEF IInv
<1>4. OwedHasTree' /\ OwedIsDelivered'
  BY OwedHasTreeNext, OwedIsDeliveredNext DEF IInv
<1> QED
  BY <1>1, <1>2, <1>3, <1>4 DEF IInv

LEMMA Inductive == Spec => []IInv
BY IInvInit, IInvNext, PTL DEF Spec

\* No wake is lost: a pump asleep on a connected channel while entries wait
\* has a wake buffered or on its way, for any number of producers.
THEOREM WakesAreNeverLost == Spec => []NoLostWake
<1>1. IInv => NoLostWake
  BY DEF IInv
<1> QED
  BY <1>1, Inductive, PTL

\* The pump disposes of the accepted entries in order, each exactly once, and
\* across every close, panic and retry of a window.
THEOREM EntriesExactlyOnce == Spec => []ExactlyOnceInOrder
<1>1. IInv => ExactlyOnceInOrder
  BY DEF IInv
<1> QED
  BY <1>1, Inductive, PTL

\* Every variable keeps its type: in particular the drain holds at most one
\* entry and a producer inside gpui_post_event always has one to post; and the
\* queue stays within its capacity (lib.rs 303-308, 396-411).
THEOREM TypeCorrect == Spec => []TypeOK
<1>1. IInv => TypeOK
  BY DEF IInv, TypeOK
<1> QED
  BY <1>1, Inductive, PTL

\* Concurrent producers never push the queue past its capacity (lib.rs 303-308).
THEOREM QueueBounded == Spec => []Bounded
<1>1. IInv => Bounded
  BY DEF IInv
<1> QED
  BY <1>1, Inductive, PTL

\* A call returns OK exactly for the entries that got into the queue.
THEOREM OkIsTruthful == Spec => []OkMeansAccepted
<1>1. IInv => OkMeansAccepted
  BY DEF IInv
<1> QED
  BY <1>1, Inductive, PTL

\* An entry for a view that had a tree when it was posted is dispatched.
THEOREM OwedDelivered == Spec => []OwedIsDelivered
<1>1. IInv => OwedIsDelivered
  BY DEF IInv
<1> QED
  BY <1>1, Inductive, PTL

-----------------------------------------------------------------------------
(* Which window can lose its pump.                                         *)

LEMMA PumpOfWindowNext ==
  ASSUME Types, PumpOfWindow, [Next]_vars
  PROVE  PumpOfWindow'
<1> USE DEF PumpOfWindow, Types, queueVars, producerVars, mainVars, pumpVars, history
<1>1. ASSUME NEW p \in Producers, NEW view \in Views \union {BadView},
             NEW size \in {"fits", "big"}, Post(p, view, size)
      PROVE  PumpOfWindow'
  BY <1>1 DEF Post
<1>2. ASSUME NEW p \in Producers, ProducerStep(p) PROVE PumpOfWindow'
  BY <1>2 DEF ProducerStep, GetOrInit, Push, QueueFull, Wake
<1>3. ASSUME NEW v \in Views, CommitTree(v) PROVE PumpOfWindow'
  BY <1>3 DEF CommitTree
<1>4. CASE RunWindow \/ InstallGet \/ OpenWindow
  BY <1>4 DEF RunWindow, InstallGet, OpenWindow
<1>5. CASE InstallSwap \/ InstallSet
  BY <1>5 DEF InstallSwap, InstallSet
<1>6. CASE RunReturns \/ RunPanics
  BY <1>6 DEF RunReturns, RunPanics, DropPump
<1>7. CASE PumpStart \/ PumpIdle \/ PumpWake \/ PumpExit
  BY <1>7 DEF PumpStart, PumpIdle, PumpWake, PumpExit
<1>8. CASE Pop \/ Drop
  BY <1>8 DEF Pop, Drop
<1>9. ASSUME NEW built \in SUBSET Views, Dispatch(built) PROVE PumpOfWindow'
  BY <1>9 DEF Dispatch
<1>10. CASE UNCHANGED vars
  BY <1>10 DEF vars
<1> QED
  BY <1>1, <1>2, <1>3, <1>4, <1>5, <1>6, <1>7, <1>8, <1>9, <1>10
  DEF Next, PumpStep, MainStep

LEMMA SeenQueueKeepsPumpNext ==
  ASSUME Types, PumpOfWindow, SeenQueueKeepsPump, [Next]_vars
  PROVE  SeenQueueKeepsPump'
<1> USE DEF PumpOfWindow, SeenQueueKeepsPump, Types,
            queueVars, producerVars, mainVars, pumpVars, history
<1>1. ASSUME NEW p \in Producers, NEW view \in Views \union {BadView},
             NEW size \in {"fits", "big"}, Post(p, view, size)
      PROVE  SeenQueueKeepsPump'
  BY <1>1 DEF Post
<1>2. ASSUME NEW p \in Producers, ProducerStep(p) PROVE SeenQueueKeepsPump'
  BY <1>2 DEF ProducerStep, GetOrInit, Push, QueueFull, Wake
<1>3. ASSUME NEW v \in Views, CommitTree(v) PROVE SeenQueueKeepsPump'
  BY <1>3 DEF CommitTree
<1>4. CASE RunWindow \/ InstallGet \/ OpenWindow
  BY <1>4 DEF RunWindow, InstallGet, OpenWindow
<1>5. CASE InstallSwap \/ InstallSet
  BY <1>5 DEF InstallSwap, InstallSet
<1>6. CASE RunReturns \/ RunPanics
  BY <1>6 DEF RunReturns, RunPanics, DropPump
<1>7. CASE PumpStart \/ PumpIdle \/ PumpWake \/ PumpExit
  BY <1>7 DEF PumpStart, PumpIdle, PumpWake, PumpExit
<1>8. CASE Pop \/ Drop
  BY <1>8 DEF Pop, Drop
<1>9. ASSUME NEW built \in SUBSET Views, Dispatch(built) PROVE SeenQueueKeepsPump'
  BY <1>9 DEF Dispatch
<1>10. CASE UNCHANGED vars
  BY <1>10 DEF vars
<1> QED
  BY <1>1, <1>2, <1>3, <1>4, <1>5, <1>6, <1>7, <1>8, <1>9, <1>10
  DEF Next, PumpStep, MainStep

\* A window that found the queue in INJECT keeps a connected pump to its end:
\* the exit that the run install_race finds needs a producer between
\* INJECT.get() and INJECT.set(), for any number of producers and windows
\* (lib.rs 214-230, 415-428).
THEOREM OnlyTheRaceLosesThePump == Spec => []SeenQueueKeepsPump
<1>1. Init => PumpOfWindow /\ SeenQueueKeepsPump
  BY DEF Init, PumpOfWindow, SeenQueueKeepsPump
<1>2. IInv /\ PumpOfWindow /\ SeenQueueKeepsPump /\ [Next]_vars
        => (PumpOfWindow /\ SeenQueueKeepsPump)'
  BY PumpOfWindowNext, SeenQueueKeepsPumpNext DEF IInv
<1> QED
  BY <1>1, <1>2, Inductive, PTL DEF Spec

-----------------------------------------------------------------------------
(* The entries of one thread keep the order of its calls.                  *)

LEMMA CallOrderNext ==
  ASSUME IInv, InCallOrder(accepted), [Next]_vars
  PROVE  InCallOrder(accepted')
<1>0. /\ Types /\ CallsNumbered /\ AcceptedNumbered
      /\ accepted \in Seq(Entry)
      /\ posts \in [Producers -> 0 .. MaxPosts]
  BY DEF IInv, Types
<1>1. ASSUME NEW p \in Producers, Push(p) PROVE InCallOrder(accepted')
  <2>1. /\ call[p] \in Entry /\ call[p].by = p /\ call[p].n = posts[p] /\ pc[p] = "push"
        /\ accepted' = Append(accepted, call[p])
    BY <1>0, <1>1 DEF Push, CallsNumbered, Types
  <2>2. /\ accepted' \in Seq(Entry)
        /\ DOMAIN accepted' = 1 .. Len(accepted) + 1
        /\ DOMAIN accepted = 1 .. Len(accepted) /\ Len(accepted) \in Nat
        /\ \A i \in DOMAIN accepted : accepted'[i] = accepted[i]
        /\ accepted'[Len(accepted) + 1] = call[p]
    BY <1>0, <2>1, AppendProperties, LenProperties
  <2>3. ASSUME NEW i \in DOMAIN accepted, accepted[i].by = p
        PROVE  accepted[i].n < posts[p]
    BY <1>0, <2>1, <2>3 DEF AcceptedNumbered, ToSet
  <2>4. ASSUME NEW i \in DOMAIN accepted', NEW j \in DOMAIN accepted', i < j,
               accepted'[i].by = accepted'[j].by
        PROVE  accepted'[i].n < accepted'[j].n
    <3>1. i \in DOMAIN accepted
      BY <2>2, <2>4
    <3>2. CASE j = Len(accepted) + 1
      BY <2>1, <2>2, <2>3, <2>4, <3>1, <3>2
    <3>3. CASE j \in DOMAIN accepted
      BY <2>2, <2>4, <3>1, <3>3 DEF InCallOrder
    <3> QED
      BY <2>2, <3>2, <3>3
  <2> QED
    BY <2>4 DEF InCallOrder
<1>2. CASE accepted' = accepted
  BY <1>2
<1> QED
  BY <1>1, <1>2, EntrySteps DEF Pop, Dispose, history

\* What was taken is the first part of what was accepted.
LEMMA TakenInOrder ==
  ASSUME IInv, InCallOrder(accepted)
  PROVE  InCallOrder(taken)
<1>1. /\ taken \in Seq(Entry) /\ held \in Seq(Entry) /\ entries \in Seq(Entry)
      /\ accepted = (taken \o held) \o entries
  BY DEF IInv, Types, ExactlyOnceInOrder
<1>2. held \o entries \in Seq(Entry) /\ accepted = taken \o (held \o entries)
  BY <1>1, ConcatProperties, ConcatAssociative
<1>3. \A i \in DOMAIN taken : i \in DOMAIN accepted /\ accepted[i] = taken[i]
  BY <1>1, <1>2, ConcatProperties, LenProperties
<1> QED
  BY <1>3 DEF InCallOrder

\* The entries of one thread are accepted and disposed of in the order of its
\* calls and none twice (lib.rs 264-319, 396-411).
THEOREM ThreadsKeepTheirOrder == Spec => []ThreadOrder
<1>1. Init => InCallOrder(accepted)
  BY DEF Init, InCallOrder
<1>2. IInv /\ InCallOrder(accepted) /\ [Next]_vars => InCallOrder(accepted)'
  BY CallOrderNext DEF InCallOrder
<1>3. IInv /\ InCallOrder(accepted) => ThreadOrder
  BY TakenInOrder DEF ThreadOrder
<1> QED
  BY <1>1, <1>2, <1>3, Inductive, PTL DEF Spec

-----------------------------------------------------------------------------
(* Refinement: the pump, the wake channel, the windows and their failures  *)
(* are invisible to whoever watches the entries only.                      *)

LEMMA FifoStep ==
  ASSUME IInv, [Next]_vars
  PROVE  [Fifo!Next]_(Fifo!vars)
<1> USE DEF Fifo!Next, Fifo!vars
<1>0. /\ Types /\ Bounded /\ ExactlyOnceInOrder /\ CallsNumbered /\ AcceptedNumbered
      /\ held \in Seq(Entry) /\ entries \in Seq(Entry) /\ taken \in Seq(Entry)
      /\ Len(held) <= 1 /\ Len(held) \in Nat /\ Len(entries) \in Nat
  BY LenProperties DEF IInv, Types
<1>1. ASSUME NEW p \in Producers, Push(p) PROVE Fifo!Accept(call[p]) /\ call[p] \in Entry
  <2>1. call[p] \in Entry
    BY <1>0, <1>1 DEF Push, Types
  <2>2. held \o Append(entries, call[p]) = Append(held \o entries, call[p])
    BY <1>0, <2>1, AppendLast
  <2>3. Len(held \o entries) = Len(held) + Len(entries)
    BY <1>0, ConcatProperties
  <2>4. Len(held \o entries) < MaxEntries + 1
    BY <1>0, <1>1, <2>3, BoundsAssumption DEF Push
  <2>5. /\ \A i \in DOMAIN (held \o entries) : (held \o entries)[i] # call[p]
        /\ \A i \in DOMAIN taken : taken[i] # call[p]
    <3>1. call[p] \notin ToSet(accepted)
      BY <1>0, <1>1, PushIsFresh DEF Push
    <3>2. call[p] \notin ToSet(held \o entries) /\ call[p] \notin ToSet(taken)
      BY <1>0, <3>1, PartsAccepted
    <3> QED
      BY <3>2 DEF ToSet
  <2> QED
    BY <1>1, <2>1, <2>2, <2>4, <2>5 DEF Push, pumpVars, Fifo!Accept
<1>2. ASSUME Pop PROVE UNCHANGED Fifo!vars
  <2>1. <<>> \o <<>> \o entries = <<>> \o <<Head(entries)>> \o Tail(entries)
    BY <1>0, <1>2, ShiftHead, EmptySeq DEF Pop
  <2>2. Head(entries) \in Entry /\ Tail(entries) \in Seq(Entry)
    BY <1>0, <1>2, HeadTailProperties DEF Pop
  <2>3. <<>> \o <<>> = <<>> /\ <<>> \o <<Head(entries)>> = <<Head(entries)>>
    BY <2>2, ConcatEmptySeq, EmptySeq
  <2> QED
    BY <1>2, <2>1, <2>3 DEF Pop, history
<1>3. ASSUME Dispose PROVE Fifo!Handle
  <2>1. held = <<held[1]>> /\ held[1] \in Entry
    BY <1>0, <1>3, AtMostOne DEF Dispose
  <2>2. /\ <<held[1]>> \o entries # <<>>
        /\ Head(<<held[1]>> \o entries) = held[1]
        /\ Tail(<<held[1]>> \o entries) = entries
    BY <1>0, <2>1
  <2>3. <<>> \o entries = entries
    BY <1>0, ConcatEmptySeq
  <2>4. /\ held \o entries # <<>>
        /\ Head(held \o entries) = held[1]
        /\ Tail(held \o entries) = entries
    BY <2>1, <2>2
  <2> QED
    BY <1>3, <2>3, <2>4 DEF Dispose, Fifo!Handle
<1>4. CASE UNCHANGED <<entries, held, accepted, taken, delivered, owed>>
  BY <1>4
<1> QED
  BY <1>1, <1>2, <1>3, <1>4, EntrySteps

\* Injection implements the bounded FIFO of InjectFifo.
THEOREM InjectionImplementsFifo == Spec => ImplementsFifo
<1>1. Init => Fifo!Init
  BY DEF Init, Fifo!Init
<1>2. IInv /\ [Next]_vars => [Fifo!Next]_(Fifo!vars)
  BY FifoStep
<1> QED
  BY <1>1, <1>2, Inductive, PTL DEF Spec, ImplementsFifo, Fifo!Spec
=============================================================================
