----------------------------- MODULE InjectFifo -----------------------------
(***************************************************************************)
(* What asynchronous injection promises, without threads, wake channels,   *)
(* windows or retries: one bounded FIFO.  An accepted event joins the end; *)
(* events leave from the front, one at a time, each exactly once, whatever *)
(* happens to the windows in between.                                      *)
(***************************************************************************)
EXTENDS Integers, Sequences

CONSTANTS Event,      \* everything a producer may post
          Capacity    \* events accepted and not yet handled, at most

VARIABLES pending,    \* accepted, in acceptance order
          handled     \* taken off the front, in that order

vars == <<pending, handled>>

Init ==
  /\ pending = <<>>
  /\ handled = <<>>

\* An event is accepted at most once: a post is one call.
Accept(e) ==
  /\ Len(pending) < Capacity
  /\ \A i \in DOMAIN pending : pending[i] # e
  /\ \A i \in DOMAIN handled : handled[i] # e
  /\ pending' = Append(pending, e)
  /\ UNCHANGED handled

Handle ==
  /\ pending # <<>>
  /\ handled' = Append(handled, Head(pending))
  /\ pending' = Tail(pending)

Next == Handle \/ \E e \in Event : Accept(e)

Spec == Init /\ [][Next]_vars
=============================================================================
