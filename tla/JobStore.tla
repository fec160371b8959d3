------------------------------ MODULE JobStore ------------------------------
(***************************************************************************)
(* What services/repository.py promises about jobs and their documents,    *)
(* every method being one step: a job appears with its source, and a       *)
(* result with the update that stores it; no update takes a result back,   *)
(* or the end of a job.  Documents disappear, one by one, of jobs that     *)
(* somebody deletes only.  A job that was deleted never comes back.        *)
(***************************************************************************)
CONSTANTS JobIds, SessionIds, NoSession

VARIABLES
    jobs,       \* what is stored of each job
    docs,       \* the documents of each job that a reader gets
    condemned   \* the jobs that somebody began to delete

storeVars == <<jobs, docs, condemned>>

Document(state, s) == [state |-> state, sid |-> s, finished |-> FALSE, result |-> FALSE]

Init == /\ jobs = [j \in JobIds |-> Document("none", NoSession)]
        /\ docs = [j \in JobIds |-> {}]
        /\ condemned = {}

Stored(j) == jobs[j].state = "stored"

Add(j, s) ==
    /\ jobs[j].state = "none"
    /\ jobs' = [jobs EXCEPT ![j] = Document("stored", s)]
    /\ docs' = [docs EXCEPT ![j] = {"src"}]
    /\ UNCHANGED condemned

\* A new status, or the end of the job.
SetStatus(j, finished) ==
    /\ Stored(j)
    /\ jobs[j].finished => finished
    /\ jobs' = [jobs EXCEPT ![j].finished = finished]
    /\ UNCHANGED <<docs, condemned>>

\* The result comes once, with the end of the job.
SetResult(j) ==
    /\ Stored(j) /\ ~jobs[j].finished /\ ~jobs[j].result
    /\ jobs' = [jobs EXCEPT ![j].finished = TRUE, ![j].result = TRUE]
    /\ docs' = [docs EXCEPT ![j] = @ \cup {"result"}]
    /\ UNCHANGED condemned

Condemn(j) ==
    /\ jobs[j].state # "none"
    /\ condemned' = condemned \cup {j}
    /\ UNCHANGED <<jobs, docs>>

Lose(j, x) ==
    /\ j \in condemned
    /\ docs' = [docs EXCEPT ![j] = @ \ {x}]
    /\ UNCHANGED <<jobs, condemned>>

Remove(S) ==
    /\ jobs' = [j \in JobIds |-> IF j \in S THEN [jobs[j] EXCEPT !.state = "deleted"]
                                            ELSE jobs[j]]
    /\ docs' = [j \in JobIds |-> IF j \in S THEN {} ELSE docs[j]]
    /\ UNCHANGED condemned

Delete(j) == Stored(j) /\ j \in condemned /\ Remove({j})

DeleteAllOf(s) == Remove({j \in JobIds : Stored(j) /\ jobs[j].sid = s})

Next ==
    \/ \E j \in JobIds : \/ \E s \in SessionIds \cup {NoSession} : Add(j, s)
                         \/ \E finished \in BOOLEAN : SetStatus(j, finished)
                         \/ SetResult(j) \/ Condemn(j) \/ Delete(j)
                         \/ \E x \in {"src", "result"} : Lose(j, x)
    \/ \E s \in SessionIds : DeleteAllOf(s)

Spec == Init /\ [][Next]_storeVars
=============================================================================
