------------------------------ MODULE MCQueue -------------------------------
(* Small instances of AsyncJobQueue for TLC.                               *)
EXTENDS AsyncJobQueue, TLC

\* The jobs are interchangeable.  Used for runs without temporal properties.
JobSymmetry == Permutations(JobIds)
=============================================================================
