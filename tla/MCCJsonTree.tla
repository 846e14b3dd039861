----------------------------- MODULE MCCJsonTree -----------------------------
(***************************************************************************)
(* Instances of CJsonTree for TLC: "a" is copied, "A" and "b" constants.   *)
(***************************************************************************)
EXTENDS CJsonTree

\* Long lists of plain items; names; names that differ in case with references to
\* items and strings; string values alone.
Apps ==
  {[blocks |-> 5, names |-> {}, values |-> {FALSE}, refs |-> FALSE],
   [blocks |-> 4, names |-> {"a"}, values |-> {FALSE}, refs |-> FALSE],
   [blocks |-> 3, names |-> {"a", "A"}, values |-> BOOLEAN, refs |-> TRUE],
   [blocks |-> 3, names |-> {"a"}, values |-> BOOLEAN, refs |-> FALSE]}

OneName == {"a"}
OneConst == {"A"}
LowerAA == [m \in {"a", "A"} |-> "a"]
=============================================================================
