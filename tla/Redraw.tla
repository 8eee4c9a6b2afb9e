------------------------------- MODULE Redraw -------------------------------
(***************************************************************************)
(* What the call sites of mb_dispatch, and all else that commits a tree or *)
(* asks for a frame, promise to the frames: a window whose tree changes is *)
(* owed a frame from that very step, and the debt is paid only by a frame  *)
(* that shows the tree as it is then.  One site promises nothing: the      *)
(* marker of a key that an input method owns (lib.rs 4413) is dispatched   *)
(* with its result thrown away.  It follows that an open window that is    *)
(* owed nothing shows its tree, or that such a dispatch has swapped the    *)
(* tree since a frame was last asked for.                                  *)
(***************************************************************************)
CONSTANT Nothing      \* what a window shows before its first frame

VARIABLES tree,       \* what is committed for the window
          shown,      \* the tree of its last frame
          owed,       \* a frame was asked for
          silent,     \* a dispatch that nobody heard has swapped the tree since
          open        \* there is a window

vars == <<tree, shown, owed, silent, open>>

UpToDate == open => owed \/ silent \/ shown = tree

Init == UpToDate

\* A new window is drawn.
Open ==
  /\ open' = TRUE
  /\ shown' = Nothing
  /\ owed' = TRUE
  /\ silent' = FALSE

\* A handler commits a tree, or something asks for a frame without one.
Ask ==
  /\ owed' = TRUE
  /\ silent' = FALSE
  /\ UNCHANGED <<shown, open>>

\* A handler commits a tree, and its result is thrown away.
Slip ==
  /\ ~owed
  /\ silent' = TRUE
  /\ UNCHANGED <<shown, owed, open>>

Draw ==
  /\ shown' = tree
  /\ owed' = FALSE
  /\ silent' = FALSE
  /\ UNCHANGED <<tree, open>>

\* Nothing is promised while there is no window.
Closed == open' = FALSE

Next == Open \/ Ask \/ Slip \/ Draw \/ Closed

Spec == Init /\ [][Next]_vars
=============================================================================
