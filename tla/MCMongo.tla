------------------------------ MODULE MCMongo -------------------------------
(* Small instances of MongoRepository for TLC.                             *)
EXTENDS MongoRepository, TLC

\* Clients are interchangeable, and so are jobs.
MongoSymmetry == Permutations(Clients) \cup Permutations(JobIds)
=============================================================================
