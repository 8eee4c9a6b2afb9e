----------------------------- MODULE PrefixSums -----------------------------
(***************************************************************************)
(* Offsets into a text.  A text is a sequence of characters, and each unit *)
(* of measure (UTF-8 bytes, UTF-16 units, pixels of advance) gives each of *)
(* its characters a size.                                                  *)
(***************************************************************************)
EXTENDS Integers, Sequences

\* The sum of f over the first n characters of s, for each n.
SumTo(f, s) ==
  LET to[n \in 0 .. Len(s)] == IF n = 0 THEN 0 ELSE to[n - 1] + f[s[n]] IN to
=============================================================================
