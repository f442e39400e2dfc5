--------------------------- MODULE MCMetricLifecycle ---------------------------
(* MetricLifecycle on a small instance: the members of Actors and of Requests *)
(* are interchangeable, and so are those of Events and of Values.             *)
EXTENDS MetricLifecycle, TLC

Symmetry == Permutations(Actors) \cup Permutations(Requests)
              \cup Permutations(Events) \cup Permutations(Values)
===============================================================================
