-------------------------- MODULE MCScrollFeedback --------------------------
(* A small instance of ScrollFeedback for TLC. *)
EXTENDS ScrollFeedback

CONSTANTS feed, side       \* two keys

Div(k, s, m) == [key |-> k, sid |-> s, max |-> m]

\* Two lists; then one without a key, and the first under the second id.
Lists == <<Div(feed, 1, 2), Div(side, 2, 1)>>
Moved == <<Div(NoKey, 3, 1), Div(feed, 2, 1)>>
SomeShapes == {Lists, Moved}
SomeFirst == {[v \in Views |-> [shape |-> Lists, text |-> CHOOSE t \in Texts : TRUE]]}
SomeOffsets == {-3, 1}
=============================================================================
