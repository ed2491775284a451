--------------------------- MODULE MCOccurrences ---------------------------
(* Instances of Occurrences for TLC: schedules of a few instants, two        *)
(* schedulers on one workspace.                                              *)
EXTENDS Occurrences

Kinds   == [c \in Configs |-> IF c = "off" THEN "off" ELSE IF c = "grid" THEN "interval" ELSE "cron"]
\* "minutely" is due at every instant, "sparse" at every third.
Calendar ==
  [c \in Configs |-> IF c = "sparse" THEN {d \in Instants : d % 3 = 1}
                      ELSE IF c = "later" THEN {d \in Instants : d % 3 = 2}
                      ELSE IF c = "grid" THEN {d \in Instants : d % 2 = 0}
                      ELSE Instants]
NoSkew    == [p \in Procs |-> 0]
OneAhead  == [p \in Procs |-> IF p = "s2" THEN 1 ELSE 0]
=============================================================================
