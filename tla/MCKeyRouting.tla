---------------------------- MODULE MCKeyRouting ----------------------------
(* A small instance of KeyRouting for TLC. *)
EXTENDS KeyRouting

Key(n, c, m) == [name |-> n, char |-> c, mods |-> m]

\* Plain and with each modifier; space is a name that types; a line feed.
SomeKeys ==
  {Key("letter", "text", {}), Key("letter", "none", {"ctrl"}),
   Key("letter", "none", {"cmd"}), Key("letter", "text", {"alt"}),
   Key("letter", "text", {"ctrl", "alt"}), Key("space", "text", {}),
   Key("enter", "control", {}), Key("enter", "none", {"cmd"}),
   Key("arrow", "none", {}), Key("tab", "control", {})}
=============================================================================
