-------------------------- MODULE MCDocumentIngestion --------------------------
(* DocumentIngestion on a small instance: the members of Runs, of Uploads and *)
(* of Docs are interchangeable.                                               *)
EXTENDS DocumentIngestion, TLC

Symmetry == Permutations(Runs) \cup Permutations(Uploads) \cup Permutations(Docs)
===============================================================================
