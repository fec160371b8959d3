---------------------------- MODULE JobLifecycle ----------------------------
(***************************************************************************)
(* What the system promises about jobs and sessions, without queue,        *)
(* worker, coroutines, purger and requests: a job is created, alone or in  *)
(* an open session, then enqueued, executed and finished, in that order    *)
(* and once.  It disappears alone only when it is finished, or together    *)
(* with its session, of which nothing remains.  A service that keeps       *)
(* running also finishes it (services/job_queue.py: "Enqueued jobs are     *)
(* expected to be performed and their status flag updated eventually").    *)
(***************************************************************************)
CONSTANTS JobIds, SessionIds, NoSession

VARIABLES status, owner, session

lifeVars == <<status, owner, session>>

Init == /\ status = [j \in JobIds |-> "NEW"]
        /\ owner = [j \in JobIds |-> NoSession]
        /\ session = [s \in SessionIds |-> "NEW"]

Create(j, s) == /\ status[j] = "NEW"
                /\ s # NoSession => session[s] = "OPEN"
                /\ status' = [status EXCEPT ![j] = "CREATED"]
                /\ owner' = [owner EXCEPT ![j] = s]
                /\ UNCHANGED session

Move(j, from, to) == /\ status[j] = from
                     /\ status' = [status EXCEPT ![j] = to]
                     /\ UNCHANGED <<owner, session>>

Enqueue(j) == Move(j, "CREATED", "QUEUED")
Start(j) == Move(j, "QUEUED", "RUNNING")
Finish(j) == Move(j, "RUNNING", "SUCCESS") \/ Move(j, "RUNNING", "ERROR")

Remove(S) ==
    /\ status' = [j \in JobIds |-> IF j \in S THEN "DELETED" ELSE status[j]]
    /\ owner' = [j \in JobIds |-> IF j \in S THEN NoSession ELSE owner[j]]

Delete(j) == /\ status[j] \in {"SUCCESS", "ERROR"}
             /\ Remove({j})
             /\ UNCHANGED session

OpenSession(s) == /\ session[s] = "NEW"
                  /\ session' = [session EXCEPT ![s] = "OPEN"]
                  /\ UNCHANGED <<status, owner>>

DeleteSession(s) == /\ session[s] = "OPEN"
                    /\ session' = [session EXCEPT ![s] = "DELETED"]
                    /\ Remove({j \in JobIds : owner[j] = s})

Next == \/ \E j \in JobIds : \/ \E s \in SessionIds \cup {NoSession} : Create(j, s)
                             \/ Enqueue(j) \/ Start(j) \/ Finish(j) \/ Delete(j)
        \/ \E s \in SessionIds : OpenSession(s) \/ DeleteSession(s)

Spec == Init /\ [][Next]_lifeVars

FairSpec == Spec /\ \A j \in JobIds : /\ WF_lifeVars(Enqueue(j))
                                      /\ WF_lifeVars(Start(j))
                                      /\ WF_lifeVars(Finish(j))
=============================================================================
