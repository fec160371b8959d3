------------------------ MODULE MongoRepository_proofs ------------------------
(***************************************************************************)
(* Proofs about module MongoRepository: for every finite set of clients    *)
(* and of jobs, every set of sessions and every number of faults.          *)
(***************************************************************************)
EXTENDS MongoRepository, FiniteSetTheorems, TLAPS

-----------------------------------------------------------------------------
(* Types.                                                                  *)

AddSteps == {"upload", "insert"}   \* the job is not stored yet
JobSteps == AddSteps \cup {"touch_added", "count", "upload_result", "set", "touch_updated",
                           "touch_deleted", "delete_one", "read"}

MethodHasJob == \A c \in Clients : client[c].step \in JobSteps => client[c].job \in JobIds

\* The client that starts a method, or makes a call, is the only one that moves.
LEMMA BeginEffect ==
  ASSUME TypeOK, NEW c \in Clients, NEW step \in Steps, NEW j \in JobIds \cup {NoJob},
         NEW s \in SessionIds \cup {NoSession}, NEW what \in Updates,
         Begin(c, step, j, s, what)
  PROVE  /\ client' \in [Clients -> Method]
         /\ client[c].step \in Ends
         /\ client'[c] = [step |-> step, job |-> j, sid |-> s, what |-> what,
                            listed |-> {}]
         /\ \A d \in Clients : d # c => client'[d] = client[d]
         /\ UNCHANGED faults
  BY DEF Begin, TypeOK, Method

LEMMA CallEffect ==
  ASSUME TypeOK, NEW c \in Clients, NEW this, NEW next \in Steps \cup Ends,
         Call(c, this, next)
  PROVE  /\ client' \in [Clients -> Method]
         /\ client[c].step = this
         /\ client'[c].step = next
         /\ next \in Steps => /\ client'[c].job = client[c].job
                              /\ client'[c].sid = client[c].sid
                              /\ client'[c].what = client[c].what
                              /\ client'[c].listed = client[c].listed
         /\ next \in Ends => client'[c].job = NoJob
         /\ \A d \in Clients : d # c => client'[d] = client[d]
         /\ UNCHANGED faults
<1>0. client[c] \in Method /\ client \in [Clients -> Method]
  BY DEF TypeOK
<1>1. Idle \in Method
  BY DEF Idle, Method, Steps, Ends, Updates
<1>2. CASE next \in Ends
  <2>1. [Idle EXCEPT !.step = next] \in Method
    BY <1>1, <1>2 DEF Method
  <2> QED
    BY <1>0, <1>2, <2>1 DEF Call, Idle, Steps, Ends
<1>3. CASE next \notin Ends
  <2>1. [client[c] EXCEPT !.step = next] \in Method
    BY <1>0 DEF Method
  <2> QED
    BY <1>0, <1>3, <2>1 DEF Call, Method
<1> QED
  BY <1>2, <1>3

LEMMA ListEffect ==
  ASSUME TypeOK, NEW c \in Clients, List(c)
  PROVE  /\ client' \in [Clients -> Method]
         /\ client[c].step = "list" /\ client'[c].step = "list"
         /\ client'[c].job = client[c].job
         /\ client'[c].sid = client[c].sid
         /\ \A d \in Clients : d # c => client'[d] = client[d]
         /\ UNCHANGED <<faults, jobs, sessions, files, total>>
<1>0. client[c] \in Method /\ client \in [Clients -> Method]
  BY DEF TypeOK
<1>1. PICK j \in JobIds : client' = [client EXCEPT ![c].listed = @ \cup {j}]
  BY DEF List, SessionJobs
<1>2. [client[c] EXCEPT !.listed = client[c].listed \cup {j}] \in Method
  BY <1>0 DEF Method
<1>3. /\ client' \in [Clients -> Method]
      /\ client'[c].step = client[c].step
      /\ client'[c].job = client[c].job
      /\ client'[c].sid = client[c].sid
      /\ \A d \in Clients : d # c => client'[d] = client[d]
  BY <1>0, <1>1, <1>2 DEF Method
<1> QED
  BY <1>3 DEF List, DeleteFilesOf

LEMMA BeginType ==
  ASSUME TypeOK, MethodHasJob, NEW c \in Clients, NEW step \in Steps,
         NEW j \in JobIds \cup {NoJob}, NEW s \in SessionIds \cup {NoSession},
         NEW what \in Updates, Begin(c, step, j, s, what), step \in JobSteps => j \in JobIds
  PROVE  client' \in [Clients -> Method] /\ MethodHasJob' /\ faults' = faults
<1>1. /\ client' \in [Clients -> Method]
      /\ client'[c] = [step |-> step, job |-> j, sid |-> s, what |-> what,
                            listed |-> {}]
      /\ \A d \in Clients : d # c => client'[d] = client[d]
      /\ faults' = faults
  BY BeginEffect
<1> QED
  BY <1>1 DEF MethodHasJob

\* No method goes on about a job that did not begin with one.
LEMMA CallGoesOn ==
  ASSUME NEW c \in Clients, Calls(c), ~List(c)
  PROVE  \E this \in Steps, next \in Steps \cup Ends :
            /\ Call(c, this, next)
            /\ next \in JobSteps => this \in JobSteps
            /\ \/ this \notin {"touch_added", "count"} /\ next \notin {"touch_added", "count"}
               \/ Insert(c) \/ TouchAdded(c) \/ Count(c)
<1> USE DEF Steps, Ends, JobSteps, AddSteps
<1>1. CASE Upload(c)
  BY <1>1 DEF Upload
<1>2. CASE Insert(c)
  <2>1. PICK next \in {"touch_added", "count"} : Call(c, "insert", next)
    BY <1>2 DEF Insert, Or
  <2> QED
    BY <1>2, <2>1
<1>3. CASE TouchAdded(c)
  <2>1. Call(c, "touch_added", "count")
    BY <1>3 DEF TouchAdded, Touch
  <2> QED
    BY <1>3, <2>1
<1>4. CASE Count(c)
  <2>1. Call(c, "count", "idle")
    BY <1>4 DEF Count
  <2> QED
    BY <1>4, <2>1
<1>5. CASE UploadResult(c)
  BY <1>5 DEF UploadResult
<1>6. CASE Set(c)
  <2>1. PICK next \in {"touch_updated", "idle"} : Call(c, "set", next)
    BY <1>6 DEF Set, SetIn, Or
  <2> QED
    BY <2>1
<1>7. CASE TouchUpdated(c)
  BY <1>7 DEF TouchUpdated, Touch
<1>8. CASE TouchDeleted(c)
  BY <1>8 DEF TouchDeleted
<1>9. CASE DeleteOne(c)
  BY <1>9 DEF DeleteOne
<1>10. CASE Listed(c)
  BY <1>10 DEF Listed
<1>11. CASE DeleteMany(c)
  BY <1>11 DEF DeleteMany
<1>12. CASE DeleteSession(c)
  BY <1>12 DEF DeleteSession
<1>13. CASE Read(c)
  <2>1. PICK next \in {"idle", "no_file"} : Call(c, "read", next)
    BY <1>13 DEF Read
  <2> QED
    BY <2>1
<1> QED
  BY <1>1, <1>2, <1>3, <1>4, <1>5, <1>6, <1>7, <1>8, <1>9, <1>10, <1>11, <1>12, <1>13
     DEF Calls

\* The methods that begin, for which job, and with which call.
Starts(c) ==
  \/ \E j \in JobIds, s \in SessionIds \cup {NoSession} : BeginAdd(c, j, s)
  \/ \E j \in JobIds, what \in Updates : BeginUpdate(c, j, what)
  \/ \E j \in JobIds : BeginDelete(c, j) \/ BeginFind(c, j)
  \/ \E s \in SessionIds : BeginDeleteSession(c, s)

LEMMA DeletionType ==
  ASSUME TypeOK, NEW j \in JobIds, NEW what, DeleteFilesOf(j, what)
  PROVE  doomed' \subseteq files /\ condemned' \in SUBSET JobIds /\ hasty' \in SUBSET condemned'
  BY DEF DeleteFilesOf, FilesOf, TypeOK

LEMMA HasResultType == \A j : HasResult(j) \in Updates
  BY DEF HasResult, Updates

LEMMA TypeStep == TypeOK /\ MethodHasJob /\ [Next]_vars => TypeOK' /\ MethodHasJob'
<1> SUFFICES ASSUME TypeOK, MethodHasJob, [Next]_vars PROVE TypeOK' /\ MethodHasJob'
  OBVIOUS
<1> USE DEF deleted
<1>0. /\ client \in [Clients -> Method]
      /\ \A c \in Clients : client[c] \in Method
      /\ \A j \in JobIds : jobs[j].sid \in SessionIds \cup {NoSession}
      /\ NoJob \notin JobIds
  BY MongoAssumption DEF TypeOK
<1>1. CASE UNCHANGED vars
  BY <1>1 DEF vars, db, history, deleted, TypeOK, MethodHasJob
<1>2. ASSUME NEW c \in Clients, Starts(c) PROVE TypeOK' /\ MethodHasJob'
  <2>1. ASSUME NEW j \in JobIds, NEW s \in SessionIds \cup {NoSession}, BeginAdd(c, j, s)
        PROVE  TypeOK' /\ MethodHasJob'
    <3>1. Begin(c, "upload", j, s, "status") /\ UNCHANGED <<db, deleted>>
      BY <2>1 DEF BeginAdd
    <3>2. "upload" \in Steps /\ "status" \in Updates
      BY DEF Steps, Updates
    <3> QED
      BY <3>1, <3>2, BeginType DEF db, deleted, TypeOK
  <2>2. ASSUME NEW j \in JobIds, NEW what \in Updates, BeginUpdate(c, j, what)
        PROVE  TypeOK' /\ MethodHasJob'
    <3>1. PICK step \in {"upload_result", "set"} :
            Begin(c, step, j, jobs[j].sid, what) /\ UNCHANGED <<db, deleted>>
      BY <2>2 DEF BeginUpdate
    <3>2. step \in Steps
      BY DEF Steps
    <3> QED
      BY <1>0, <3>1, <3>2, BeginType DEF db, deleted, TypeOK
  <2>3. ASSUME NEW j \in JobIds, BeginDelete(c, j) PROVE TypeOK' /\ MethodHasJob'
    <3>1. PICK step \in {"touch_deleted", "delete_one"} :
            /\ Begin(c, step, j, jobs[j].sid, HasResult(j))
            /\ DeleteFilesOf(j, HasResult(j)) \/ UNCHANGED <<db, deleted>>
      BY <2>3 DEF BeginDelete
    <3>2. client' \in [Clients -> Method] /\ MethodHasJob' /\ faults' = faults
      BY <1>0, <3>1, BeginType, HasResultType DEF Steps
    <3>3. CASE DeleteFilesOf(j, HasResult(j))
      BY <3>2, <3>3, DeletionType DEF DeleteFilesOf, TypeOK
    <3>4. CASE UNCHANGED <<db, deleted>>
      BY <3>2, <3>4 DEF db, deleted, TypeOK
    <3> QED
      BY <3>1, <3>3, <3>4
  <2>4. ASSUME NEW j \in JobIds, BeginFind(c, j) PROVE TypeOK' /\ MethodHasJob'
    <3>1. Begin(c, "read", j, NoSession, HasResult(j)) /\ UNCHANGED <<db, deleted>>
      BY <2>4 DEF BeginFind
    <3>2. "read" \in Steps
      BY DEF Steps
    <3> QED
      BY <3>1, <3>2, BeginType, HasResultType DEF db, deleted, TypeOK
  <2>5. ASSUME NEW s \in SessionIds, BeginDeleteSession(c, s) PROVE TypeOK' /\ MethodHasJob'
    <3>1. Begin(c, "list", NoJob, s, "status") /\ UNCHANGED <<db, deleted>>
      BY <2>5 DEF BeginDeleteSession
    <3>2. "list" \in Steps /\ "status" \in Updates /\ "list" \notin JobSteps
      BY DEF Steps, Updates, JobSteps, AddSteps
    <3> QED
      BY <3>1, <3>2, BeginType DEF db, deleted, TypeOK
  <2> QED
    BY <1>2, <2>1, <2>2, <2>3, <2>4, <2>5 DEF Starts
<1>7. ASSUME NEW c \in Clients, List(c) PROVE TypeOK' /\ MethodHasJob'
  <2>1. PICK j \in JobIds : DeleteFilesOf(j, HasResult(j))
    BY <1>7 DEF List, SessionJobs
  <2>2. client' \in [Clients -> Method] /\ MethodHasJob'
    BY <1>7, ListEffect DEF MethodHasJob
  <2> QED
    BY <1>7, <2>1, <2>2, DeletionType, ListEffect DEF TypeOK
<1>3. ASSUME NEW c \in Clients, Calls(c), ~List(c) PROVE TypeOK' /\ MethodHasJob'
  <2>1. PICK this \in Steps, next \in Steps \cup Ends :
          Call(c, this, next) /\ (next \in JobSteps => this \in JobSteps)
    BY <1>3, CallGoesOn
  <2>2. client' \in [Clients -> Method] /\ MethodHasJob' /\ faults' = faults
    BY <2>1, CallEffect DEF MethodHasJob, JobSteps, AddSteps, Ends, Steps
  <2>3. client[c].step \in JobSteps => client[c].job \in JobIds
    BY DEF MethodHasJob
  <2>4. CASE Upload(c) \/ UploadResult(c)
    <3>1. client[c].job \in JobIds
      BY <2>3, <2>4 DEF Upload, UploadResult, Call, JobSteps, AddSteps
    <3> QED
      BY <2>2, <2>4, <3>1 DEF Upload, UploadResult, TypeOK
  <2>5. CASE Insert(c)
    BY <1>0, <2>2, <2>5 DEF Insert, Document, Method, TypeOK
  <2>6. CASE Count(c)
    BY <2>2, <2>6 DEF Count, TypeOK
  <2>7. CASE Set(c)
    <3> DEFINE R == [state : {"none", "stored", "deleted"}, sid : SessionIds \cup {NoSession},
                     finished : BOOLEAN, result : BOOLEAN]
    <3>1. ASSUME NEW j \in JobIds, NEW x \in BOOLEAN, NEW y \in BOOLEAN
          PROVE  [jobs[j] EXCEPT !.state = "stored", !.finished = x, !.result = y] \in R
      BY DEF TypeOK
    <3>2. ASSUME NEW j \in JobIds PROVE jobs'[j] \in R
      <4>1. \/ jobs'[j] = jobs[j]
            \/ \E x, y \in BOOLEAN :
                  jobs'[j] = [jobs[j] EXCEPT !.state = "stored", !.finished = x, !.result = y]
        BY <2>7 DEF Set, SetIn
      <4> QED
        BY <3>1, <4>1 DEF TypeOK
    <3>3. DOMAIN jobs' = JobIds /\ jobs' = [j \in JobIds |-> jobs'[j]]
      BY <2>7 DEF Set, SetIn
    <3>4. jobs' \in [JobIds -> R]
      BY <3>2, <3>3
    <3> QED
      BY <2>2, <2>7, <3>4 DEF Set, SetIn, TypeOK
  <2>8. CASE TouchDeleted(c)
    <3>1. client[c].job \in JobIds /\ DeleteFilesOf(client[c].job, client[c].what)
      BY <2>3, <2>8 DEF TouchDeleted, Call, JobSteps
    <3> QED
      BY <2>2, <3>1, DeletionType DEF DeleteFilesOf, TypeOK
  <2>9. CASE DeleteOne(c) \/ DeleteMany(c)
    BY <2>2, <2>9 DEF DeleteOne, DeleteMany, TypeOK
  <2>10. CASE DeleteSession(c)
    BY <2>2, <2>10 DEF DeleteSession, TypeOK
  <2>11. CASE TouchAdded(c) \/ TouchUpdated(c) \/ Listed(c) \/ Read(c)
    BY <2>2, <2>11 DEF TouchAdded, TouchUpdated, Touch, Listed, Read, db, deleted, TypeOK
  <2> QED
    BY <1>3, <2>4, <2>5, <2>6, <2>7, <2>8, <2>9, <2>10, <2>11 DEF Calls
<1>4. ASSUME NEW c \in Clients, Interrupt(c) PROVE TypeOK' /\ MethodHasJob'
  <2>1. Idle \in Method /\ Idle.step \notin JobSteps
    BY DEF Idle, Method, Steps, Ends, Updates, JobSteps, AddSteps
  <2> QED
    BY <1>0, <1>4, <2>1, MongoAssumption DEF Interrupt, Fault, db, deleted, TypeOK, MethodHasJob
<1>5. ASSUME NEW s \in SessionIds, AddSession(s) PROVE TypeOK' /\ MethodHasJob'
  BY <1>5 DEF AddSession, history, deleted, TypeOK, MethodHasJob
<1>6. ASSUME NEW f \in doomed, FileDeleted(f) \/ DeletionFails(f)
      PROVE  TypeOK' /\ MethodHasJob'
  BY <1>6, MongoAssumption DEF FileDeleted, DeletionFails, Fault, history, deleted, TypeOK, MethodHasJob
<1> QED
  BY <1>1, <1>2, <1>3, <1>4, <1>5, <1>6, <1>7 DEF Next, Starts

LEMMA TypeInit == Init => TypeOK /\ MethodHasJob
<1> SUFFICES ASSUME Init PROVE TypeOK /\ MethodHasJob
  OBVIOUS
<1>1. Idle \in Method /\ Idle.step \notin JobSteps
  BY DEF Idle, Method, Steps, Ends, Updates, JobSteps, AddSteps
<1>2. MethodHasJob
  BY <1>1 DEF Init, MethodHasJob
<1>3. TypeOK
  BY <1>1, MongoAssumption DEF Init, Document, TypeOK
<1> QED
  BY <1>2, <1>3

(***************************************************************************)
(* Every reachable state is typed.                                         *)
(***************************************************************************)
THEOREM MongoTypeCorrect == Spec => []TypeOK
BY TypeInit, TypeStep, PTL DEF Spec

-----------------------------------------------------------------------------
(* Documents.  A file is deleted only if somebody began to delete its job: *)
(* so the clients that write or read a job nobody deletes may rely on the  *)
(* files that they uploaded, or that the job had when they looked at it.   *)

SrcStored(j) == <<j, "src">> \in files
ResultStored(j) == <<j, "result">> \in files

JobOK(j) == Stored(j) => \/ j \in condemned
                         \/ SrcStored(j) /\ (jobs[j].result => ResultStored(j))

ClientOK(c) ==
    LET m == client[c]
    IN  /\ m.step \in AddSteps => jobs[m.job].state = "none"
        /\ m.step = "touch_deleted" => jobs[m.job].state # "none"
        /\ m.step = "insert" => SrcStored(m.job)
        /\ m.step = "set" /\ m.what = "result" => m.job \in condemned \/ ResultStored(m.job)
        /\ m.step = "read" => \/ m.job \in condemned
                              \/ SrcStored(m.job) /\ (m.what = "result" => ResultStored(m.job))

\* Nobody else knows the token of a job that is being added.
Alone(c) == client[c].step \in AddSteps =>
                \A d \in Clients \ {c} : client[d].job # client[c].job

DoomedOK == /\ \A f \in doomed : f[1] \in condemned
            /\ \A j \in condemned : jobs[j].state # "none"

FilesInv == /\ DoomedOK
            /\ \A j \in JobIds : JobOK(j)
            /\ \A c \in Clients : ClientOK(c) /\ Alone(c)

\* What may change when somebody takes a step.
Monotone ==
    /\ condemned \subseteq condemned'
    /\ \A j \in JobIds : jobs[j].state # "none" => jobs'[j].state # "none"
    /\ \A j \in JobIds \ condemned', x \in {"src", "result"} :
           <<j, x>> \in files => <<j, x>> \in files'

LEMMA CallJob ==
  ASSUME TypeOK, MethodHasJob, NEW c \in Clients, client[c].step \in JobSteps
  PROVE  client[c].job \in JobIds
  BY DEF MethodHasJob

\* Whoever requests the deletion of files condemns their jobs.
LEMMA DeletionCondemns ==
  ASSUME TypeOK, FilesInv, NEW j \in JobIds, NEW what, DeleteFilesOf(j, what),
         jobs[j].state # "none"
  PROVE  Monotone /\ DoomedOK'
<1>1. \A f \in FilesOf(j, what) : f[1] = j
  BY DEF FilesOf
<1> QED
  BY <1>1 DEF DeleteFilesOf, FilesInv, DoomedOK, Monotone

LEMMA MonotoneStep ==
  ASSUME TypeOK, MethodHasJob, FilesInv, [Next]_vars
  PROVE  Monotone /\ DoomedOK'
<1> USE DEF deleted
<1>0. /\ jobs \in [JobIds -> [state : {"none", "stored", "deleted"},
                              sid : SessionIds \cup {NoSession}, finished : BOOLEAN,
                              result : BOOLEAN]]
      /\ condemned \subseteq JobIds
      /\ doomed \subseteq files
  BY DEF TypeOK
<1>1. CASE UNCHANGED <<jobs, files, doomed, deleted>>
  BY <1>1 DEF Monotone, FilesInv, DoomedOK
<1>2. ASSUME NEW c \in Clients, Starts(c) PROVE Monotone /\ DoomedOK'
  <2>1. CASE \E j \in JobIds : BeginDelete(c, j)
    <3>1. PICK j \in JobIds : BeginDelete(c, j)
      BY <2>1
    <3>2. DeleteFilesOf(j, HasResult(j)) \/ UNCHANGED <<db, deleted>>
      BY <3>1 DEF BeginDelete
    <3>3. jobs[j].state # "none"
      BY <3>1 DEF BeginDelete, Stored
    <3> QED
      BY <1>1, <3>2, <3>3, DeletionCondemns DEF db, deleted
  <2> QED
    BY <1>1, <1>2, <2>1 DEF Starts, BeginAdd, BeginUpdate, BeginFind, BeginDeleteSession, db
<1>3. ASSUME NEW c \in Clients, Calls(c) PROVE Monotone /\ DoomedOK'
  <2>1. CASE Upload(c) \/ UploadResult(c)
    BY <2>1 DEF Upload, UploadResult, Monotone, FilesInv, DoomedOK
  <2>2. CASE Insert(c)
    BY <1>0, <2>2 DEF Insert, Document, Monotone, FilesInv, DoomedOK
  <2>3. CASE Set(c)
    BY <1>0, <2>3 DEF Set, SetIn, Stored, Monotone, FilesInv, DoomedOK
  <2>4. CASE TouchDeleted(c)
    <3>1. client[c].step = "touch_deleted"
      BY <2>4 DEF TouchDeleted, Call
    <3>2. client[c].job \in JobIds /\ jobs[client[c].job].state # "none"
      BY <3>1, CallJob DEF FilesInv, ClientOK, JobSteps
    <3> QED
      BY <2>4, <3>2, DeletionCondemns DEF TouchDeleted
  <2>5. CASE List(c)
    <3>1. PICK j \in JobIds : Stored(j) /\ DeleteFilesOf(j, HasResult(j))
      BY <2>5 DEF List, SessionJobs
    <3> QED
      BY <3>1, DeletionCondemns DEF Stored
  <2>6. CASE DeleteOne(c) \/ DeleteMany(c)
    BY <1>0, <2>6 DEF DeleteOne, DeleteMany, Monotone, FilesInv, DoomedOK
  <2>7. CASE \/ TouchAdded(c) \/ Count(c) \/ TouchUpdated(c) \/ Listed(c)
             \/ DeleteSession(c) \/ Read(c)
    BY <1>1, <2>7 DEF TouchAdded, Count, TouchUpdated, Touch, Listed, DeleteSession, Read, db,
                      deleted
  <2> QED
    BY <1>3, <2>1, <2>2, <2>3, <2>4, <2>5, <2>6, <2>7 DEF Calls
<1>4. ASSUME NEW f \in doomed, FileDeleted(f) PROVE Monotone /\ DoomedOK'
  <2>1. f[1] \in condemned /\ UNCHANGED <<jobs, deleted>>
    BY <1>4 DEF FileDeleted, history, deleted, FilesInv, DoomedOK
  <2>2. \A j \in JobIds \ condemned', x \in {"src", "result"} : <<j, x>> # f
    BY <2>1
  <2> QED
    BY <1>4, <2>1, <2>2 DEF FileDeleted, Monotone, FilesInv, DoomedOK
<1>5. ASSUME NEW f \in doomed, DeletionFails(f) PROVE Monotone /\ DoomedOK'
  BY <1>5 DEF DeletionFails, Fault, Monotone, FilesInv, DoomedOK
<1>6. CASE \/ \E c \in Clients : Interrupt(c)
           \/ \E s \in SessionIds : AddSession(s)
           \/ UNCHANGED vars
  BY <1>1, <1>6 DEF Interrupt, Fault, AddSession, vars, db, history, deleted
<1> QED
  BY <1>2, <1>3, <1>4, <1>5, <1>6 DEF Next, Starts

\* What may happen to the document of a job.
JobChange(j) ==
    \/ jobs'[j] = jobs[j]
    \/ \E c \in Clients : /\ Insert(c) /\ client[c].job = j
                          /\ jobs'[j].state = "stored" /\ ~jobs'[j].result
    \/ \E c \in Clients : /\ Set(c) /\ client[c].job = j
                          /\ Stored(j)
                          /\ jobs'[j].state = "stored"
                          /\ jobs'[j].result => jobs[j].result \/ client[c].what = "result"
    \/ Stored(j) /\ jobs'[j].state = "deleted"

LEMMA JobChanges ==
  ASSUME TypeOK, [Next]_vars, NEW j \in JobIds
  PROVE  JobChange(j)
<1>0. jobs \in [JobIds -> [state : {"none", "stored", "deleted"},
                           sid : SessionIds \cup {NoSession}, finished : BOOLEAN,
                           result : BOOLEAN]]
  BY DEF TypeOK
<1>1. CASE UNCHANGED jobs
  BY <1>1 DEF JobChange
<1>2. ASSUME NEW c \in Clients, Insert(c) PROVE JobChange(j)
  <2>1. CASE client[c].job = j
    <3>1. jobs'[j] = Document("stored", client[c].sid)
      BY <1>0, <1>2, <2>1 DEF Insert
    <3>2. jobs'[j].state = "stored" /\ ~jobs'[j].result
      BY <3>1 DEF Document
    <3> QED
      BY <1>2, <2>1, <3>2 DEF JobChange
  <2>2. CASE client[c].job # j
    BY <1>0, <1>2, <2>2 DEF Insert, JobChange
  <2> QED
    BY <2>1, <2>2
<1>3. ASSUME NEW c \in Clients, Set(c) PROVE JobChange(j)
  <2>1. CASE client[c].job = j /\ Stored(j)
    <3>1. jobs'[j] = [jobs[j] EXCEPT !.state = "stored",
                                     !.finished = jobs[j].finished \/ client[c].what # "status",
                                     !.result = jobs[j].result \/ client[c].what = "result"]
      BY <1>0, <1>3, <2>1 DEF Set, SetIn
    <3>2. /\ jobs'[j].state = "stored"
          /\ jobs'[j].result = (jobs[j].result \/ client[c].what = "result")
      BY <1>0, <3>1
    <3> QED
      BY <1>3, <2>1, <3>2 DEF JobChange
  <2>2. CASE ~(client[c].job = j /\ Stored(j))
    BY <1>0, <1>3, <2>2 DEF Set, SetIn, JobChange
  <2> QED
    BY <2>1, <2>2
<1>4. ASSUME NEW c \in Clients, DeleteOne(c) \/ DeleteMany(c) PROVE JobChange(j)
  BY <1>0, <1>4 DEF DeleteOne, DeleteMany, SessionJobs, Stored, JobChange
<1>5. ASSUME NEW c \in Clients,
             \/ Starts(c) \/ Interrupt(c)
             \/ Upload(c) \/ TouchAdded(c) \/ Count(c) \/ UploadResult(c) \/ TouchUpdated(c)
             \/ TouchDeleted(c) \/ List(c) \/ Listed(c) \/ DeleteSession(c) \/ Read(c)
      PROVE  UNCHANGED jobs
  BY <1>5 DEF Starts, BeginAdd, BeginUpdate, BeginDelete, BeginFind, BeginDeleteSession,
              Interrupt, Upload, TouchAdded, Count, UploadResult, TouchUpdated, Touch,
              TouchDeleted, List, Listed, DeleteFilesOf, DeleteSession, Read, db
<1>6. CASE \/ \E s \in SessionIds : AddSession(s)
           \/ \E f \in doomed : FileDeleted(f) \/ DeletionFails(f)
           \/ UNCHANGED vars
  BY <1>1, <1>6 DEF AddSession, FileDeleted, DeletionFails, vars, db
<1> QED
  BY <1>1, <1>2, <1>3, <1>4, <1>5, <1>6 DEF Next, Starts, Calls

\* A job that begins to be known to a client is stored, unless the client adds it.
LEMMA StartsKnowing ==
  ASSUME TypeOK, FilesInv, NEW c \in Clients, Starts(c)
  PROVE  /\ client' \in [Clients -> Method]
         /\ \A d \in Clients : d # c => client'[d] = client[d]
         /\ UNCHANGED <<jobs, files>>
         /\ \/ client'[c].job = NoJob
            \/ client'[c].job \in JobIds /\ Stored(client'[c].job)
            \/ /\ client'[c].job \in JobIds
               /\ jobs[client'[c].job].state = "none"
               /\ \A d \in Clients : client[d].job # client'[c].job
         /\ client'[c].step \in AddSteps => \A d \in Clients : client[d].job # client'[c].job
         /\ client'[c].step \notin {"touch_added", "count"}
         /\ ClientOK(c)'
<1>0. /\ \A j \in JobIds : jobs[j].sid \in SessionIds \cup {NoSession}
      /\ {"status", "result"} \subseteq Updates
      /\ {"upload", "upload_result", "set", "touch_deleted", "delete_one", "read", "list"}
            \subseteq Steps
  BY DEF TypeOK, Updates, Steps
<1>1. ASSUME NEW step \in Steps, NEW j \in JobIds \cup {NoJob},
             NEW s \in SessionIds \cup {NoSession}, NEW what \in Updates,
             Begin(c, step, j, s, what)
      PROVE  /\ client' \in [Clients -> Method]
             /\ client'[c].step = step /\ client'[c].job = j /\ client'[c].what = what
             /\ \A d \in Clients : d # c => client'[d] = client[d]
  <2>1. /\ client' \in [Clients -> Method]
        /\ client'[c] = [step |-> step, job |-> j, sid |-> s, what |-> what,
                            listed |-> {}]
        /\ \A d \in Clients : d # c => client'[d] = client[d]
    BY <1>1, BeginEffect
  <2> QED
    BY <2>1
<1>2. ASSUME NEW j \in JobIds, NEW s \in SessionIds \cup {NoSession}, BeginAdd(c, j, s)
      PROVE  /\ client' \in [Clients -> Method]
             /\ client'[c].step = "upload" /\ client'[c].job = j
             /\ \A d \in Clients : d # c => client'[d] = client[d]
             /\ UNCHANGED <<jobs, files>>
             /\ jobs[j].state = "none"
             /\ \A d \in Clients : client[d].job # j
  BY <1>0, <1>1, <1>2 DEF BeginAdd, db
<1>3. ASSUME NEW j \in JobIds, NEW what \in Updates, BeginUpdate(c, j, what)
      PROVE  /\ client' \in [Clients -> Method]
             /\ client'[c].step \in {"upload_result", "set"} /\ client'[c].job = j
             /\ client'[c].what = what
             /\ client'[c].step = "set" => what # "result"
             /\ \A d \in Clients : d # c => client'[d] = client[d]
             /\ UNCHANGED <<jobs, files>>
             /\ Stored(j)
  BY <1>0, <1>1, <1>3 DEF BeginUpdate, db
<1>4. ASSUME NEW j \in JobIds, BeginDelete(c, j)
      PROVE  /\ client' \in [Clients -> Method]
             /\ client'[c].step \in {"touch_deleted", "delete_one"} /\ client'[c].job = j
             /\ \A d \in Clients : d # c => client'[d] = client[d]
             /\ UNCHANGED <<jobs, files>>
             /\ Stored(j)
  <2>1. PICK step \in {"touch_deleted", "delete_one"} :
            Begin(c, step, j, jobs[j].sid, HasResult(j))
    BY <1>4 DEF BeginDelete
  <2>2. UNCHANGED <<jobs, files>> /\ Stored(j)
    BY <1>4 DEF BeginDelete, DeleteFilesOf, db
  <2> QED
    BY <1>0, <1>1, <2>1, <2>2, HasResultType
<1>5. ASSUME NEW j \in JobIds, BeginFind(c, j)
      PROVE  /\ client' \in [Clients -> Method]
             /\ client'[c].step = "read" /\ client'[c].job = j
             /\ client'[c].what = "result" => jobs[j].result
             /\ \A d \in Clients : d # c => client'[d] = client[d]
             /\ UNCHANGED <<jobs, files, deleted>>
             /\ Stored(j)
  <2>1. PICK what \in {"status", "result"} :
            Begin(c, "read", j, NoSession, what) /\ (what = "result" => jobs[j].result)
    BY <1>5 DEF BeginFind, HasResult
  <2> QED
    BY <1>0, <1>1, <1>5, <2>1 DEF BeginFind, db, deleted
<1>6. ASSUME NEW s \in SessionIds, BeginDeleteSession(c, s)
      PROVE  /\ client' \in [Clients -> Method]
             /\ client'[c].step = "list" /\ client'[c].job = NoJob
             /\ \A d \in Clients : d # c => client'[d] = client[d]
             /\ UNCHANGED <<jobs, files>>
  BY <1>0, <1>1, <1>6 DEF BeginDeleteSession, db
<1> USE DEF AddSteps
<1>7. CASE \E j \in JobIds, s \in SessionIds \cup {NoSession} : BeginAdd(c, j, s)
  BY <1>2, <1>7 DEF ClientOK
<1>8. CASE \E j \in JobIds, what \in Updates : BeginUpdate(c, j, what)
  BY <1>3, <1>8 DEF ClientOK
<1>9. CASE \E j \in JobIds : BeginDelete(c, j)
  BY <1>4, <1>9 DEF ClientOK, Stored
<1>10. CASE \E j \in JobIds : BeginFind(c, j)
  <2>1. PICK j \in JobIds : BeginFind(c, j)
    BY <1>10
  <2>2. JobOK(j)
    BY DEF FilesInv
  <2> QED
    BY <1>5, <2>1, <2>2 DEF ClientOK, JobOK, SrcStored, ResultStored, deleted
<1>11. CASE \E s \in SessionIds : BeginDeleteSession(c, s)
  BY <1>6, <1>11 DEF ClientOK
<1> QED
  BY <1>7, <1>8, <1>9, <1>10, <1>11 DEF Starts

\* A client that goes on with a method, or is interrupted.
LEMMA CallsKnowing ==
  ASSUME TypeOK, MethodHasJob, FilesInv, Monotone, NEW c \in Clients, Calls(c) \/ Interrupt(c)
  PROVE  /\ client' \in [Clients -> Method]
         /\ \A d \in Clients : d # c => client'[d] = client[d]
         /\ client'[c].job \in {NoJob, client[c].job}
         /\ client'[c].step \in AddSteps => client[c].step \in AddSteps
         /\ ClientOK(c)'
<1>1. ASSUME NEW this, NEW next \in Steps \cup Ends, Call(c, this, next)
      PROVE  /\ client' \in [Clients -> Method]
             /\ client[c].step = this /\ client'[c].step = next
             /\ next \in Steps => /\ client'[c].job = client[c].job
                                  /\ client'[c].what = client[c].what
             /\ client'[c].job \in {NoJob, client[c].job}
             /\ \A d \in Clients : d # c => client'[d] = client[d]
  BY <1>1, CallEffect
<1> USE DEF AddSteps, Steps, Ends
<1>2. CASE Upload(c)
  <2>1. Call(c, "upload", "insert") /\ jobs' = jobs /\ <<client[c].job, "src">> \in files'
    BY <1>2 DEF Upload
  <2> QED
    BY <1>1, <2>1 DEF FilesInv, ClientOK, SrcStored
<1>3. CASE UploadResult(c)
  <2>1. Call(c, "upload_result", "set") /\ <<client[c].job, "result">> \in files'
    BY <1>3 DEF UploadResult
  <2> QED
    BY <1>1, <2>1 DEF ClientOK, ResultStored
<1>4. CASE \/ Insert(c) \/ TouchAdded(c) \/ Count(c) \/ Set(c) \/ TouchUpdated(c)
           \/ TouchDeleted(c) \/ DeleteOne(c) \/ Listed(c) \/ DeleteMany(c)
           \/ DeleteSession(c) \/ Read(c)
  <2>1. PICK next \in {"touch_added", "count", "touch_updated", "delete_one", "delete_many",
                       "delete_session", "idle", "no_file"} :
          \E this : Call(c, this, next)
    BY <1>4 DEF Insert, TouchAdded, Count, Set, SetIn, TouchUpdated, TouchDeleted, DeleteOne,
                Listed, DeleteMany, DeleteSession, Read, Touch, Or
  <2> QED
    BY <1>1, <2>1 DEF ClientOK
<1>6. CASE List(c)
  BY <1>6, ListEffect DEF ClientOK
<1>5. CASE Interrupt(c)
  <2>1. client' = [client EXCEPT ![c] = Idle] /\ Idle \in Method
    BY <1>5 DEF Interrupt, Idle, Method, Updates
  <2>2. client'[c] = Idle /\ client' \in [Clients -> Method]
        /\ \A d \in Clients : d # c => client'[d] = client[d]
    BY <2>1 DEF TypeOK
  <2> QED
    BY <2>2 DEF Idle, ClientOK
<1> QED
  BY <1>2, <1>3, <1>4, <1>5, <1>6 DEF Calls

LEMMA FilesInvStep == TypeOK /\ MethodHasJob /\ FilesInv /\ [Next]_vars => FilesInv'
<1> SUFFICES ASSUME TypeOK, MethodHasJob, FilesInv, [Next]_vars PROVE FilesInv'
  OBVIOUS
<1>0. /\ jobs \in [JobIds -> [state : {"none", "stored", "deleted"},
                              sid : SessionIds \cup {NoSession}, finished : BOOLEAN,
                              result : BOOLEAN]]
      /\ NoJob \notin JobIds
      /\ Monotone /\ DoomedOK'
      /\ condemned' \subseteq JobIds
  BY MonotoneStep, TypeStep, MongoAssumption DEF TypeOK
<1>1. ASSUME NEW d \in Clients, client'[d] = client[d] PROVE ClientOK(d)'
  <2> DEFINE m == client[d]
  <2>1. ClientOK(d) /\ Alone(d) /\ (m.step \in JobSteps => m.job \in JobIds)
    BY CallJob DEF FilesInv
  <2>2. ASSUME m.step \in AddSteps, jobs'[m.job].state # "none" PROVE FALSE
    <3>1. m.job \in JobIds /\ jobs[m.job].state = "none"
      BY <2>1, <2>2 DEF JobSteps, ClientOK
    <3>2. PICK c \in Clients : Insert(c) /\ client[c].job = m.job
      BY <2>2, <3>1, JobChanges DEF JobChange, Stored
    <3>3. c = d
      BY <2>1, <2>2, <3>2 DEF Alone
    <3>4. PICK next \in {"touch_added", "count"} : Call(d, "insert", next)
      BY <3>2, <3>3 DEF Insert, Or
    <3>5. client[d].step = "insert" /\ client'[d].step = next
      BY <3>4, CallEffect DEF Steps
    <3> QED
      BY <1>1, <3>4, <3>5
  <2>3. \A x \in {"src", "result"} : m.job \in JobIds \ condemned' /\ <<m.job, x>> \in files
                                        => <<m.job, x>> \in files'
    BY <1>0 DEF Monotone
  <2>4. /\ m.step \in AddSteps => jobs'[m.job].state = "none"
        /\ m.step = "touch_deleted" => jobs'[m.job].state # "none"
    BY <1>0, <2>1, <2>2 DEF ClientOK, Monotone, JobSteps
  <2>5. m.step = "insert" => <<m.job, "src">> \in files'
    <3> SUFFICES ASSUME m.step = "insert" PROVE <<m.job, "src">> \in files'
      OBVIOUS
    <3>1. m.job \in JobIds /\ jobs'[m.job].state = "none" /\ <<m.job, "src">> \in files
      BY <2>1, <2>4 DEF ClientOK, SrcStored, JobSteps, AddSteps
    <3>2. m.job \notin condemned'
      BY <1>0, <3>1 DEF DoomedOK
    <3> QED
      BY <2>3, <3>1, <3>2
  <2>6. /\ m.step = "set" /\ m.what = "result"
              => m.job \in condemned' \/ <<m.job, "result">> \in files'
        /\ m.step = "read" => \/ m.job \in condemned'
                              \/ /\ <<m.job, "src">> \in files'
                                 /\ m.what = "result" => <<m.job, "result">> \in files'
    BY <1>0, <2>1, <2>3 DEF ClientOK, Monotone, SrcStored, ResultStored, JobSteps
  <2> QED
    BY <1>1, <2>4, <2>5, <2>6 DEF ClientOK, SrcStored, ResultStored
<1>2. ASSUME NEW c \in Clients, Starts(c) \/ Calls(c) \/ Interrupt(c)
      PROVE  /\ client' \in [Clients -> Method]
             /\ ClientOK(c)'
             /\ \A d \in Clients : d # c => client'[d] = client[d]
             /\ \/ client'[c].job \in {NoJob, client[c].job}
                \/ client'[c].job \in JobIds /\ jobs[client'[c].job].state # "none"
                \/ \A d \in Clients : client[d].job # client'[c].job
             /\ \/ client'[c].step \notin AddSteps
                \/ client[c].step \in AddSteps /\ client'[c].job \in {NoJob, client[c].job}
                \/ \A d \in Clients : client[d].job # client'[c].job
  <2>1. CASE Starts(c)
    BY <1>0, <2>1, StartsKnowing DEF Stored
  <2>2. CASE Calls(c) \/ Interrupt(c)
    BY <1>0, <2>2, CallsKnowing
  <2> QED
    BY <1>2, <2>1, <2>2
<1>3. \A c \in Clients : ClientOK(c)' /\ Alone(c)'
  <2>1. CASE UNCHANGED client
    BY <1>1, <2>1 DEF FilesInv, Alone
  <2>2. ASSUME NEW c \in Clients, Starts(c) \/ Calls(c) \/ Interrupt(c)
        PROVE  \A d \in Clients : ClientOK(d)' /\ Alone(d)'
    <3>1. \A d \in Clients : ClientOK(d)'
      BY <1>1, <1>2, <2>2
    <3>2. ASSUME NEW d \in Clients, client'[d].step \in AddSteps, NEW e \in Clients \ {d}
          PROVE  client'[e].job # client'[d].job
      <4>1. CASE d # c /\ e # c
        BY <1>2, <2>2, <3>2, <4>1 DEF FilesInv, Alone
      <4>2. CASE d # c /\ e = c
        <5>1. /\ client[d].step \in AddSteps
              /\ client'[d].job = client[d].job
              /\ client[d].job \in JobIds
              /\ jobs[client[d].job].state = "none"
              /\ client[c].job # client[d].job
          BY <1>2, <2>2, <3>2, <4>2, CallJob DEF FilesInv, ClientOK, Alone, JobSteps
        <5> QED
          BY <1>0, <1>2, <2>2, <4>2, <5>1
      <4>3. CASE d = c
        <5>1. client'[e] = client[e] /\ (client[e].job = NoJob \/ client[e].job \in JobIds)
          BY <1>2, <2>2, <4>3 DEF TypeOK, Method
        <5>2. client'[c].job \in JobIds
          BY <3>2, <4>3, TypeStep DEF MethodHasJob, JobSteps
        <5> QED
          BY <1>0, <1>2, <2>2, <3>2, <4>3, <5>1, <5>2 DEF FilesInv, Alone
      <4> QED
        BY <4>1, <4>2, <4>3
    <3> QED
      BY <3>1, <3>2 DEF Alone
  <2> QED
    BY <2>1, <2>2 DEF Next, Starts, AddSession, FileDeleted, DeletionFails, vars
<1>4. \A j \in JobIds : JobOK(j)'
  <2> SUFFICES ASSUME NEW j \in JobIds, jobs'[j].state = "stored", j \notin condemned'
               PROVE  /\ <<j, "src">> \in files'
                      /\ jobs'[j].result => <<j, "result">> \in files'
    BY DEF JobOK, Stored, SrcStored, ResultStored
  <2>1. \A x \in {"src", "result"} : <<j, x>> \in files => <<j, x>> \in files'
    BY <1>0 DEF Monotone
  <2>2. j \notin condemned /\ JobOK(j)
    BY <1>0 DEF Monotone, FilesInv
  <2>3. CASE jobs'[j] = jobs[j]
    BY <2>1, <2>2, <2>3 DEF JobOK, Stored, SrcStored, ResultStored
  <2>4. ASSUME NEW c \in Clients, Insert(c), client[c].job = j, ~jobs'[j].result
        PROVE  /\ <<j, "src">> \in files'
               /\ jobs'[j].result => <<j, "result">> \in files'
    BY <2>1, <2>4 DEF Insert, Call, FilesInv, ClientOK, SrcStored
  <2>5. ASSUME NEW c \in Clients, Set(c), client[c].job = j, Stored(j),
               jobs'[j].result => jobs[j].result \/ client[c].what = "result"
        PROVE  /\ <<j, "src">> \in files'
               /\ jobs'[j].result => <<j, "result">> \in files'
    BY <2>1, <2>2, <2>5 DEF Set, SetIn, Call, FilesInv, ClientOK, JobOK, SrcStored, ResultStored
  <2> QED
    BY <2>3, <2>4, <2>5, JobChanges DEF JobChange
<1> QED
  BY <1>0, <1>3, <1>4 DEF FilesInv

LEMMA FilesInvInit == Init => FilesInv
<1> SUFFICES ASSUME Init PROVE FilesInv
  OBVIOUS
<1>1. \A c \in Clients : client[c].step = "idle"
  BY DEF Init, Idle
<1>2. \A j \in JobIds : ~Stored(j)
  BY DEF Init, Document, Stored
<1>3. \A c \in Clients : ClientOK(c) /\ Alone(c)
  BY <1>1 DEF ClientOK, Alone, AddSteps
<1> QED
  BY <1>2, <1>3 DEF Init, FilesInv, DoomedOK, JobOK

LEMMA FilesInvHolds == Spec => [](TypeOK /\ MethodHasJob /\ FilesInv)
BY TypeInit, TypeStep, FilesInvInit, FilesInvStep, PTL DEF Spec

(***************************************************************************)
(* A job that nobody tried to delete has its documents, whatever methods   *)
(* overlap, end early or fail.                                             *)
(***************************************************************************)
THEOREM JobsHaveFilesHolds == Spec => []JobsHaveFiles
<1>1. FilesInv => JobsHaveFiles
  BY DEF FilesInv, DoomedOK, JobOK, SrcStored, ResultStored, JobsHaveFiles
<1> QED
  BY <1>1, FilesInvHolds, PTL

(***************************************************************************)
(* A job that was deleted does not come back by an update, or an insertion *)
(* that began earlier.                                                     *)
(***************************************************************************)
THEOREM DeletedForeverHolds == Spec => DeletedForever
<1>1. ASSUME TypeOK, MethodHasJob, FilesInv, [Next]_vars
      PROVE  [\A j \in JobIds : jobs[j].state = "deleted" => jobs'[j].state = "deleted"]_vars
  <2> SUFFICES ASSUME NEW j \in JobIds, jobs[j].state = "deleted"
               PROVE  jobs'[j].state = "deleted"
    OBVIOUS
  <2>1. ASSUME NEW c \in Clients, Insert(c), client[c].job = j PROVE FALSE
    BY <1>1, <2>1 DEF Insert, Call, FilesInv, ClientOK, AddSteps
  <2> QED
    BY <1>1, <2>1, JobChanges DEF JobChange, Stored
<1> QED
  BY <1>1, FilesInvHolds, PTL DEF Spec, DeletedForever

(***************************************************************************)
(* find_job fails to open the files of a job only if somebody deletes the  *)
(* job, or has tried to.                                                   *)
(***************************************************************************)
THEOREM FindFailsOnlyOfDeletedHolds == Spec => FindFailsOnlyOfDeleted
<1>1. ASSUME TypeOK, MethodHasJob, FilesInv, [Next]_vars
      PROVE  [\A c \in Clients :
                LET j == client[c].job
                IN  client[c].step = "read" /\ client'[c].step = "no_file"
                        => jobs[j].state = "deleted" \/ j \in condemned]_vars
  <2> SUFFICES ASSUME NEW c \in Clients, client[c].step = "read", client'[c].step = "no_file"
               PROVE  client[c].job \in condemned
    OBVIOUS
  <2>1. Monotone
    BY <1>1, MonotoneStep
  <2>2. PICK d \in Clients : Starts(d) \/ Calls(d) \/ Interrupt(d)
    BY <1>1 DEF Next, Starts, AddSession, FileDeleted, DeletionFails, vars
  <2>3. d = c
    BY <1>1, <2>1, <2>2, StartsKnowing, CallsKnowing
  <2>4. ~Starts(c)
    BY DEF Starts, BeginAdd, BeginUpdate, BeginDelete, BeginFind, BeginDeleteSession, Begin, Ends
  <2>5. ~Interrupt(c)
    BY <1>1 DEF Interrupt, Idle, TypeOK
  <2>6. Read(c)
    BY <2>2, <2>3, <2>4, <2>5 DEF Calls, Upload, Insert, TouchAdded, Count, UploadResult, Set,
       SetIn, TouchUpdated, TouchDeleted, DeleteOne, List, Listed, DeleteMany, DeleteSession,
       Touch, Call
  <2> DEFINE m == client[c]
             needed == {<<m.job, "src">>} \cup IF m.what = "result" THEN {<<m.job, "result">>}
                                                                   ELSE {}
  <2>7. ~(needed \subseteq files)
    <3>1. Call(c, "read", IF needed \subseteq files THEN "idle" ELSE "no_file")
      BY <2>6 DEF Read
    <3>2. ASSUME needed \subseteq files PROVE client'[c].step = "idle"
      BY <1>1, <3>1, <3>2, CallEffect DEF Ends
    <3> QED
      BY <3>2
  <2> QED
    BY <1>1, <2>7 DEF FilesInv, ClientOK, SrcStored, ResultStored
<1> QED
  BY <1>1, FilesInvHolds, PTL DEF Spec, FindFailsOnlyOfDeleted

-----------------------------------------------------------------------------
(* The total.  Every job that was inserted is counted, or its add_job is   *)
(* about to count it, or a fault ended that add_job.                       *)

AddedJobs == {j \in JobIds : jobs[j].state # "none"}
Counting == {c \in Clients : client[c].step \in {"touch_added", "count"}}

LEMMA CountChange ==
  ASSUME TypeOK, MethodHasJob, FilesInv, [Next]_vars
  PROVE  \/ /\ Counting' = Counting /\ AddedJobs' = AddedJobs
            /\ total' = total /\ (faults' = faults \/ faults' = faults + 1)
         \/ \E c \in Counting :
               /\ Counting' = Counting \ {c} /\ AddedJobs' = AddedJobs
               /\ \/ total' = total + 1 /\ faults' = faults
                  \/ total' = total /\ faults' = faults + 1
         \/ \E c \in Clients \ Counting, j \in JobIds \ AddedJobs :
               /\ Counting' = Counting \cup {c} /\ AddedJobs' = AddedJobs \cup {j}
               /\ total' = total /\ faults' = faults
<1>0. Monotone /\ jobs \in [JobIds -> [state : {"none", "stored", "deleted"},
                                       sid : SessionIds \cup {NoSession},
                                       finished : BOOLEAN, result : BOOLEAN]]
  BY MonotoneStep DEF TypeOK
<1>1. ASSUME \A c \in Clients : ~Insert(c) PROVE AddedJobs' = AddedJobs
  <2>1. \A j \in JobIds : jobs'[j].state # "none" <=> jobs[j].state # "none"
    BY <1>0, <1>1, JobChanges DEF JobChange, Stored, Monotone
  <2> QED
    BY <2>1 DEF AddedJobs
<1>2. ASSUME NEW c \in Clients, \A d \in Clients : d # c => client'[d] = client[d],
             client'[c].step \notin {"touch_added", "count"}
      PROVE  Counting' = Counting \ {c}
  BY <1>2 DEF Counting
<1>3. ASSUME NEW c \in Clients, \A d \in Clients : d # c => client'[d] = client[d],
             client'[c].step \in {"touch_added", "count"}
      PROVE  Counting' = Counting \cup {c}
  BY <1>3 DEF Counting
<1>4. ASSUME NEW c \in Clients, Insert(c)
      PROVE  /\ c \notin Counting /\ Counting' = Counting \cup {c}
             /\ \E j \in JobIds \ AddedJobs : AddedJobs' = AddedJobs \cup {j}
             /\ total' = total /\ faults' = faults
  <2>1. PICK next \in {"touch_added", "count"} : Call(c, "insert", next)
    BY <1>4 DEF Insert, Or
  <2>2. /\ client[c].step = "insert" /\ client'[c].step = next
        /\ \A d \in Clients : d # c => client'[d] = client[d]
        /\ faults' = faults
    BY <2>1, CallEffect DEF Steps
  <2> DEFINE j == client[c].job
  <2>3. j \in JobIds /\ jobs[j].state = "none"
    BY <2>2, CallJob DEF FilesInv, ClientOK, JobSteps, AddSteps
  <2>4. jobs' = [jobs EXCEPT ![j] = Document("stored", client[c].sid)]
    BY <1>4 DEF Insert
  <2>5. AddedJobs' = AddedJobs \cup {j}
    BY <1>0, <2>3, <2>4 DEF AddedJobs, Document
  <2> QED
    BY <1>3, <1>4, <2>2, <2>3, <2>5 DEF Insert, Counting, AddedJobs
<1>5. ASSUME NEW c \in Clients, Count(c)
      PROVE  /\ c \in Counting /\ Counting' = Counting \ {c} /\ AddedJobs' = AddedJobs
             /\ total' = total + 1 /\ faults' = faults
  <2>1. Call(c, "count", "idle") /\ total' = total + 1 /\ jobs' = jobs
    BY <1>5 DEF Count
  <2>2. /\ client[c].step = "count" /\ client'[c].step = "idle"
        /\ \A d \in Clients : d # c => client'[d] = client[d]
        /\ faults' = faults
    BY <2>1, CallEffect DEF Ends
  <2> QED
    BY <1>2, <2>1, <2>2 DEF Counting, AddedJobs
<1>6. ASSUME NEW c \in Clients, Interrupt(c)
      PROVE  /\ Counting' = Counting \ {c} /\ AddedJobs' = AddedJobs
             /\ total' = total /\ faults' = faults + 1
  <2>1. /\ client'[c].step = "idle" /\ \A d \in Clients : d # c => client'[d] = client[d]
        /\ jobs' = jobs /\ total' = total /\ faults' = faults + 1
    BY <1>6 DEF Interrupt, Fault, db, Idle, TypeOK
  <2> QED
    BY <1>2, <2>1 DEF AddedJobs
<1>7. ASSUME NEW c \in Clients, TouchAdded(c)
      PROVE  /\ Counting' = Counting /\ AddedJobs' = AddedJobs
             /\ total' = total /\ faults' = faults
  <2>1. Call(c, "touch_added", "count") /\ total' = total /\ jobs' = jobs
    BY <1>7 DEF TouchAdded, Touch, db
  <2>2. /\ client[c].step = "touch_added" /\ client'[c].step = "count"
        /\ \A d \in Clients : d # c => client'[d] = client[d]
        /\ faults' = faults
    BY <2>1, CallEffect DEF Steps
  <2> QED
    BY <1>3, <2>1, <2>2 DEF Counting, AddedJobs
<1>8. ASSUME NEW c \in Clients,
             \/ Upload(c) \/ UploadResult(c) \/ Set(c) \/ TouchUpdated(c) \/ TouchDeleted(c)
             \/ DeleteOne(c) \/ Listed(c) \/ DeleteMany(c) \/ DeleteSession(c) \/ Read(c)
      PROVE  /\ Counting' = Counting /\ AddedJobs' = AddedJobs
             /\ total' = total /\ faults' = faults
  <2>1. PICK this \in Steps \ {"touch_added", "count"},
             next \in (Steps \cup Ends) \ {"touch_added", "count"} : Call(c, this, next)
    <3>1. ~Insert(c) /\ ~TouchAdded(c) /\ ~Count(c) /\ ~List(c)
      BY <1>8 DEF Insert, TouchAdded, Count, Upload, UploadResult, Set, SetIn, TouchUpdated,
                  Touch, TouchDeleted, DeleteOne, List, Listed, DeleteMany, DeleteSession,
                  Read, Call
    <3> QED
      BY <1>8, <3>1, CallGoesOn DEF Calls
  <2>2. /\ client[c].step = this /\ client'[c].step = next
        /\ \A d \in Clients : d # c => client'[d] = client[d]
        /\ faults' = faults
    BY <2>1, CallEffect
  <2>3. Counting' = Counting
    BY <1>2, <2>1, <2>2 DEF Counting
  <2>4. total' = total
    BY <1>8 DEF Upload, UploadResult, Set, SetIn, TouchUpdated, Touch, TouchDeleted, DeleteOne,
                DeleteFilesOf, Listed, DeleteMany, DeleteSession, Read, db
  <2>5. ASSUME NEW d \in Clients, Insert(d) PROVE FALSE
    <3>1. client[d].step = "insert"
      BY <2>5 DEF Insert, Call
    <3>2. \E e \in {"touch_added", "count"} : Call(d, "insert", e)
      BY <2>5 DEF Insert, Or
    <3>3. client'[d].step \in {"touch_added", "count"}
      BY <3>2, CallEffect DEF Steps
    <3> QED
      BY <2>1, <2>2, <3>1, <3>3
  <2> QED
    BY <1>1, <2>2, <2>3, <2>4, <2>5
<1>9. ASSUME NEW c \in Clients, Starts(c)
      PROVE  /\ Counting' = Counting /\ AddedJobs' = AddedJobs
             /\ total' = total /\ faults' = faults
  <2>1. \A d \in Clients : d # c => client'[d] = client[d]
    BY <1>9, StartsKnowing
  <2>2. /\ client[c].step \in Ends
        /\ total' = total /\ faults' = faults /\ jobs' = jobs
    BY <1>9 DEF Starts, BeginAdd, BeginUpdate, BeginDelete, DeleteFilesOf, BeginFind,
                BeginDeleteSession, Begin, db
  <2>3. client'[c].step \notin {"touch_added", "count"}
    BY <1>9, StartsKnowing
  <2> QED
    BY <1>2, <2>1, <2>2, <2>3 DEF Counting, AddedJobs, Ends
<1>10. CASE \/ \E s \in SessionIds : AddSession(s)
            \/ \E f \in doomed : FileDeleted(f) \/ DeletionFails(f)
            \/ UNCHANGED vars
  BY <1>10 DEF AddSession, FileDeleted, DeletionFails, Fault, vars, db, history, deleted, Counting, AddedJobs
<1>12. ASSUME NEW c \in Clients, List(c)
       PROVE  /\ Counting' = Counting /\ AddedJobs' = AddedJobs
              /\ total' = total /\ faults' = faults
  BY <1>12, ListEffect DEF Counting, AddedJobs
<1>11. CASE \E c \in Clients : Interrupt(c)
  <2>1. PICK c \in Clients : Interrupt(c)
    BY <1>11
  <2>2. CASE c \in Counting
    BY <1>6, <2>1, <2>2
  <2>3. CASE c \notin Counting
    <3>1. Counting \ {c} = Counting
      BY <2>3
    <3> QED
      BY <1>6, <2>1, <3>1
  <2> QED
    BY <2>2, <2>3
<1> QED
  BY <1>4, <1>5, <1>7, <1>8, <1>9, <1>10, <1>11, <1>12 DEF Next, Starts, Calls

(***************************************************************************)
(* The total counts every job once; a fault makes it miss one at most.     *)
(***************************************************************************)
THEOREM TotalCountsJobsHolds == Spec => []TotalCountsJobs
<1> DEFINE Total(n, a) == total + n <= a /\ a <= total + n + faults
           Inv == IsFiniteSet(AddedJobs) /\ IsFiniteSet(Counting)
                  /\ Total(Cardinality(Counting), Cardinality(AddedJobs))
<1>1. TotalCountsJobs <=> Total(Cardinality(Counting), Cardinality(AddedJobs))
  BY DEF TotalCountsJobs, Added, NotCounted, AddedJobs, Counting
<1>2. Init => Inv
  <2> SUFFICES ASSUME Init PROVE Inv
    OBVIOUS
  <2>1. AddedJobs = {} /\ Counting = {}
    BY DEF Init, Document, Idle, AddedJobs, Counting
  <2> QED
    BY <2>1, FS_EmptySet DEF Init
<1>3. TypeOK /\ MethodHasJob /\ FilesInv /\ Inv /\ [Next]_vars => Inv'
  <2> SUFFICES ASSUME TypeOK, MethodHasJob, FilesInv, Inv, [Next]_vars PROVE Inv'
    OBVIOUS
  <2>1. /\ Cardinality(AddedJobs) \in Nat /\ Cardinality(Counting) \in Nat
        /\ total \in Nat /\ faults \in Nat
    BY FS_CardinalityType, MongoAssumption DEF TypeOK
  <2>2. CASE /\ Counting' = Counting /\ AddedJobs' = AddedJobs
             /\ total' = total /\ (faults' = faults \/ faults' = faults + 1)
    BY <2>1, <2>2
  <2>3. ASSUME NEW c \in Counting, Counting' = Counting \ {c}, AddedJobs' = AddedJobs,
               \/ total' = total + 1 /\ faults' = faults
               \/ total' = total /\ faults' = faults + 1
        PROVE  Inv'
    <3>1. /\ IsFiniteSet(Counting')
          /\ Cardinality(Counting') = Cardinality(Counting) - 1
      BY <2>3, FS_RemoveElement
    <3> QED
      BY <2>1, <2>3, <3>1
  <2>4. ASSUME NEW c \in Clients \ Counting, NEW j \in JobIds \ AddedJobs,
               Counting' = Counting \cup {c}, AddedJobs' = AddedJobs \cup {j},
               total' = total, faults' = faults
        PROVE  Inv'
    <3>1. /\ IsFiniteSet(Counting') /\ IsFiniteSet(AddedJobs')
          /\ Cardinality(Counting') = Cardinality(Counting) + 1
          /\ Cardinality(AddedJobs') = Cardinality(AddedJobs) + 1
      BY <2>4, FS_AddElement
    <3> QED
      BY <2>1, <2>4, <3>1
  <2> QED
    BY <2>2, <2>3, <2>4, CountChange
<1> QED
  BY <1>1, <1>2, <1>3, FilesInvHolds, PTL DEF Spec
=============================================================================
