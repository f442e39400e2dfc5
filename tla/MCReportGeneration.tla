-------------------------- MODULE MCReportGeneration --------------------------
(* ReportGeneration on a small instance: users are interchangeable, and so are *)
(* requests.                                                                   *)
EXTENDS ReportGeneration, FiniteSets, TLC

CONSTANTS MaxFormats,   \* how many formats a client asks for (a bound)
          Keyed         \* whether every request has an idempotency key (a bound)

\* Where the data changes under the jobs they are of one format less: the two of XBRL
\* overwrite each other's file.
FewFormats == report = NoReport \/ Cardinality(report.requested) <= MaxFormats - data
XbrlOnce == Keyed => "xbrl again" \notin adding

MCSpec == Init /\ [][Next /\ (FewFormats /\ XbrlOnce)']_vars

Symmetry == Permutations(Actors) \cup Permutations(Requests)
===============================================================================
