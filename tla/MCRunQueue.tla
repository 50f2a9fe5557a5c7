----------------------------- MODULE MCRunQueue -----------------------------
(* RunQueue for TLC: four runs with two limited tags, two pools and two locations. *)
EXTENDS RunQueue

CONSTANTS a, b   \* locations

FourRuns  == 1 .. 4
FirstRuns == 1 .. 3
Tags      == <<{"t", "u"}, {"t"}, {"u"}, {"t"}>>
Located   == <<a, a, b, b>>

\* Runs 2 and 3 share a pool, 1 and 3 another, which has no limit but the default, and a tag that two
\* may have, and the last comes before two.
Priorities == <<0, 0, 2, 1>>
Pools      == <<{"d"}, {"p"}, {"p", "d"}, {}>>
TagLimits  == [t \in {"t", "u"} |-> IF t = "t" THEN 1 ELSE 2]
OnePool    == [p \in {"p"} |-> 1]

\* Run 3 takes the tag from 1 for which 2 was left out, and 4 is like 2.
Overtaking == <<1, 0, 2, 0>>
NoPools    == [r \in FourRuns |-> {}]
OneEach    == [t \in {"t", "u"} |-> 1]
=============================================================================
