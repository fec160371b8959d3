----------------------------- MODULE MCRequests -----------------------------
(* Small instances of Requests for TLC.                                    *)
EXTENDS Requests, TLC

\* The clients are interchangeable.  Used for runs without liveness properties.
ClientSymmetry == Permutations(Clients)
=============================================================================
