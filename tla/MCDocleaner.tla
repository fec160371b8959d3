---------------------------- MODULE MCDocleaner -----------------------------
(* Small instances of Docleaner for TLC.                                   *)
EXTENDS Docleaner, TLC

\* The jobs are interchangeable.  Used for runs without temporal properties.
JobSymmetry == Permutations(JobIds)
=============================================================================
