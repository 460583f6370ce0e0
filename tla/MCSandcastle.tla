---------------------------- MODULE MCSandcastle ----------------------------
(***************************************************************************)
(* Small instances of Sandcastle for TLC: two Tasks of one Feature, the    *)
(* second blocked by the first or not, and a standalone Task, gated or not.*)
(***************************************************************************)
EXTENDS Sandcastle

CONSTANTS a, b, s, f

TwoTasks == {a, b}
ThreeTasks == {a, b, s}

FeatureOf == [t \in Tasks |-> IF t = s THEN None ELSE f]
InOrder == [t \in Tasks |-> IF t = b THEN {a} ELSE {}]
NoOrder == [t \in Tasks |-> {}]

Ordered == {[blockers |-> InOrder, gated |-> {}]}
OrderedOrGated ==
  {[blockers |-> InOrder, gated |-> {}], [blockers |-> InOrder, gated |-> {s}],
   [blockers |-> NoOrder, gated |-> {s}]}
=============================================================================
