--------------------------- MODULE MCExtractionReview ---------------------------
(* ExtractionReview on a small instance: the members of Requests, of Numbers   *)
(* and of Callbacks are interchangeable.                                       *)
EXTENDS ExtractionReview, TLC

Symmetry == Permutations(Requests) \cup Permutations(Numbers) \cup Permutations(Callbacks)
===============================================================================
