--------------------------- MODULE MCEvidenceStore ---------------------------
(* Small instances of the evidence store for TLC.                           *)
EXTENDS EvidenceStore, TLC

\* Callers and physical directories are interchangeable where no liveness is asked.
Symmetry == Permutations(Procs) \cup Permutations(Candidates) \cup Permutations(Keys)
=============================================================================
