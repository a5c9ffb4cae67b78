------------------------- MODULE MCHabitatSchedule -------------------------
(* A small instance of HabitatSchedule for TLC: an activity that asks for  *)
(* a second run if its first was cheap, one that always wants two, and one *)
(* that fails of itself if its run was dear.                               *)
EXTENDS HabitatSchedule

MCPlan(a, given) ==
    IF a = 0 THEN IF given = <<>> THEN "m2" ELSE IF Len(given) = 1 /\ given[1].work = 1 THEN "m1" ELSE Done
    ELSE IF a = 1 THEN IF Len(given) < 2 THEN "m1" ELSE Done
    ELSE IF given = <<>> THEN "m2" ELSE IF given[1].work = 1 THEN Done ELSE Broken

Of(w, a) == [work |-> w, attempts |-> a]
MCCeiling == [m \in {"m1", "m2"} |-> IF m = "m1" THEN Of(1, 0) ELSE Of(2, 1)]
MCCost == {Of(1, 0), Of(3, 1)}
MCLimits == {[work |-> 6, attempts |-> 1, runs |-> 4], [work |-> 9, attempts |-> 9, runs |-> 9]}
=============================================================================
