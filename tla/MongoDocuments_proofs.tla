------------------------ MODULE MongoDocuments_proofs -------------------------
(***************************************************************************)
(* Two proofs about the documents of module MongoRepository.               *)
(*                                                                         *)
(* No document outlives its job (NoDocumentLeft) by more than the faults   *)
(* account for: every file is referred to by its job, or about to be, or   *)
(* its deletion was requested, or it is the result of a job that was       *)
(* deleted before it was finished; the others are stray, and only a fault  *)
(* leaves a stray file, one at most.                                       *)
(*                                                                         *)
(* The adapter implements the atomic store of module JobStore.             *)
(***************************************************************************)
EXTENDS MongoRepository_proofs

Standalone(j) == jobs[j].sid = NoSession
Updating(c) == client[c].step \in {"upload_result", "set"}

\* Who is about to update a job finds it unfinished or deleted, unless an error is
\* reported, and has uploaded what the update refers to.  Whoever deletes a standalone
\* job before it gets its result, is hasty.
UpdaterOK(c) ==
    LET m == client[c]
        j == m.job
    IN  Updating(c) =>
          /\ Stored(j) => /\ m.what # "error" => ~jobs[j].finished
                          /\ m.step = "set" /\ m.what = "result" => <<j, "result">> \in files
          /\ m.what = "result" /\ Standalone(j) => (Stored(j) /\ j \notin condemned) \/ j \in hasty

DeleterOK(c) ==
    LET m == client[c]
    IN  /\ m.step = "touch_deleted" => /\ ~Standalone(m.job)
                                       /\ m.what = "result" => jobs[m.job].result
        /\ m.step = "delete_one" => m.job \in condemned
        /\ m.step \in {"list", "delete_many"} => m.sid \in SessionIds

UploaderOK(c) == client[c].step = "upload_result" => client[c].what = "result"

\* One coroutine at a time updates a job.
Exclusive(c) ==
    Updating(c) => \A d \in Clients \ {c} : Updating(d) => client[d].job # client[c].job

DocumentOK(j) == /\ jobs[j].state = "none" => Standalone(j)
                 /\ jobs[j].result => jobs[j].finished
                 /\ j \in condemned \ hasty => jobs[j].finished

\* The deletion of a result is requested only when its job refers to it.
DoomedResults == \A f \in doomed : f[2] = "result" => jobs[f[1]].result

OwnersInv == /\ \A c \in Clients : UpdaterOK(c) /\ DeleterOK(c) /\ UploaderOK(c) /\ Exclusive(c)
             /\ \A j \in JobIds : DocumentOK(j)
             /\ DoomedResults

-----------------------------------------------------------------------------
(* What a step does to a document, to the jobs whose files are deleted, and *)
(* to the client that takes it.                                            *)

Updated(j, what) == /\ jobs'[j].state = "stored" /\ jobs'[j].sid = jobs[j].sid
                    /\ jobs'[j].finished = (jobs[j].finished \/ what # "status")
                    /\ jobs'[j].result = (jobs[j].result \/ what = "result")

Removed(j) == /\ jobs'[j].state = "deleted" /\ jobs'[j].sid = jobs[j].sid
              /\ jobs'[j].finished = jobs[j].finished /\ jobs'[j].result = jobs[j].result

DocumentChange(j) ==
    \/ jobs'[j] = jobs[j]
    \/ \E c \in Clients : /\ Insert(c) /\ client[c].job = j /\ jobs[j].state = "none"
                          /\ jobs'[j] = Document("stored", client[c].sid)
    \/ \E c \in Clients : /\ Set(c) /\ client[c].step = "set" /\ client[c].job = j /\ Stored(j)
                          /\ Updated(j, client[c].what)
    \/ /\ Stored(j) /\ Removed(j)
       /\ \E c \in Clients : \/ client[c].step = "delete_one" /\ client[c].job = j
                             \/ client[c].step = "delete_many" /\ jobs[j].sid = client[c].sid

LEMMA SetUpdates ==
  ASSUME TypeOK, NEW c \in Clients, Set(c), NEW j \in JobIds, client[c].job = j, Stored(j)
  PROVE  Updated(j, client[c].what)
<1>1. ASSUME NEW x \in BOOLEAN, NEW y \in BOOLEAN,
             jobs'[j] = [jobs[j] EXCEPT !.state = "stored", !.finished = x, !.result = y]
      PROVE  /\ jobs'[j].state = "stored" /\ jobs'[j].sid = jobs[j].sid
             /\ jobs'[j].finished = x /\ jobs'[j].result = y
  BY <1>1 DEF TypeOK
<1>2. jobs'[j] = [jobs[j] EXCEPT !.state = "stored",
                                 !.finished = (jobs[j].finished \/ client[c].what # "status"),
                                 !.result = (jobs[j].result \/ client[c].what = "result")]
  BY DEF Set, SetIn
<1>3. /\ (jobs[j].finished \/ client[c].what # "status") \in BOOLEAN
      /\ (jobs[j].result \/ client[c].what = "result") \in BOOLEAN
  OBVIOUS
<1> QED
  BY <1>1, <1>2, <1>3 DEF Updated

LEMMA DocumentChanges ==
  ASSUME TypeOK, MethodHasJob, FilesInv, [Next]_vars, NEW j \in JobIds
  PROVE  DocumentChange(j)
<1>0. jobs \in [JobIds -> [state : {"none", "stored", "deleted"},
                           sid : SessionIds \cup {NoSession}, finished : BOOLEAN,
                           result : BOOLEAN]]
  BY DEF TypeOK
<1>1. CASE UNCHANGED jobs
  BY <1>1 DEF DocumentChange
<1>2. ASSUME NEW c \in Clients, Insert(c) PROVE DocumentChange(j)
  <2>1. client[c].step = "insert"
    BY <1>2 DEF Insert, Call
  <2>2. jobs[client[c].job].state = "none"
    BY <2>1 DEF FilesInv, ClientOK, AddSteps
  <2>3. jobs' = [jobs EXCEPT ![client[c].job] = Document("stored", client[c].sid)]
    BY <1>2 DEF Insert
  <2> QED
    BY <1>0, <1>2, <2>2, <2>3 DEF DocumentChange
<1>3. ASSUME NEW c \in Clients, Set(c) PROVE DocumentChange(j)
  <2>1. client[c].step = "set"
    BY <1>3 DEF Set, SetIn, Call
  <2>2. CASE client[c].job = j /\ Stored(j)
    BY <1>3, <2>1, <2>2, SetUpdates DEF DocumentChange
  <2>3. CASE ~(client[c].job = j /\ Stored(j))
    BY <1>3, <2>3 DEF Set, SetIn, DocumentChange
  <2> QED
    BY <2>2, <2>3
<1>4. ASSUME NEW c \in Clients, DeleteOne(c) PROVE DocumentChange(j)
  BY <1>0, <1>4 DEF DeleteOne, Call, Stored, DocumentChange, Removed
<1>5. ASSUME NEW c \in Clients, DeleteMany(c) PROVE DocumentChange(j)
  BY <1>0, <1>5 DEF DeleteMany, Call, SessionJobs, DocumentChange, Removed
<1>6. ASSUME NEW c \in Clients,
             \/ Starts(c) \/ Interrupt(c)
             \/ Upload(c) \/ TouchAdded(c) \/ Count(c) \/ UploadResult(c) \/ TouchUpdated(c)
             \/ TouchDeleted(c) \/ List(c) \/ Listed(c) \/ DeleteSession(c) \/ Read(c)
      PROVE  UNCHANGED jobs
  BY <1>6 DEF Starts, BeginAdd, BeginUpdate, BeginDelete, BeginFind, BeginDeleteSession,
              Interrupt, Upload, TouchAdded, Count, UploadResult, TouchUpdated, Touch,
              TouchDeleted, List, Listed, DeleteFilesOf, DeleteSession, Read, db
<1>7. CASE \/ \E s \in SessionIds : AddSession(s)
           \/ \E f \in doomed : FileDeleted(f) \/ DeletionFails(f)
           \/ UNCHANGED vars
  BY <1>1, <1>7 DEF AddSession, FileDeleted, DeletionFails, vars, db
<1> QED
  BY <1>1, <1>2, <1>3, <1>4, <1>5, <1>6, <1>7 DEF Next, Starts, Calls

\* The steps that request the deletion of files, of job j; all others leave the
\* history of deletions, and add nothing to the files that are doomed.
Deletes(j, what) ==
    /\ DeleteFilesOf(j, what)
    /\ \/ what = HasResult(j)
       \/ \E c \in Clients : /\ client[c].step = "touch_deleted"
                             /\ client[c].job = j /\ client[c].what = what

LEMMA Deletions ==
  ASSUME TypeOK, MethodHasJob, [Next]_vars
  PROVE  \/ \E j \in JobIds, what \in Updates : Deletes(j, what)
         \/ UNCHANGED deleted /\ doomed' \subseteq doomed
<1>1. ASSUME NEW c \in Clients, TouchDeleted(c)
      PROVE  \E j \in JobIds, what \in Updates : Deletes(j, what)
  <2>1. client[c].step = "touch_deleted" /\ DeleteFilesOf(client[c].job, client[c].what)
    BY <1>1 DEF TouchDeleted, Call
  <2>2. client[c].job \in JobIds /\ client[c].what \in Updates
    BY <2>1, CallJob DEF JobSteps, TypeOK, Method
  <2> QED
    BY <2>1, <2>2 DEF Deletes
<1>2. ASSUME NEW c \in Clients, List(c)
      PROVE  \E j \in JobIds, what \in Updates : Deletes(j, what)
  <2>1. PICK j \in JobIds : DeleteFilesOf(j, HasResult(j))
    BY <1>2 DEF List, SessionJobs
  <2> QED
    BY <2>1, HasResultType DEF Deletes
<1>3. ASSUME NEW c \in Clients, NEW j \in JobIds, BeginDelete(c, j)
      PROVE  \/ \E what \in Updates : Deletes(j, what)
             \/ UNCHANGED deleted /\ doomed' = doomed
  <2>1. DeleteFilesOf(j, HasResult(j)) \/ UNCHANGED <<db, deleted>>
    BY <1>3 DEF BeginDelete
  <2> QED
    BY <2>1, HasResultType DEF Deletes, db
<1>4. ASSUME NEW c \in Clients, Calls(c), ~TouchDeleted(c), ~List(c)
      PROVE  UNCHANGED deleted /\ doomed' = doomed
  BY <1>4 DEF Calls, Upload, Insert, TouchAdded, Count, UploadResult, Set, SetIn, TouchUpdated,
              Touch, DeleteOne, Listed, DeleteMany, DeleteSession, Read, db
<1>5. ASSUME NEW c \in Clients, Starts(c), \A k \in JobIds : ~BeginDelete(c, k)
      PROVE  UNCHANGED deleted /\ doomed' = doomed
  BY <1>5 DEF Starts, BeginAdd, BeginUpdate, BeginFind, BeginDeleteSession, db
<1>6. ASSUME \/ \E c \in Clients : Interrupt(c)
             \/ \E s \in SessionIds : AddSession(s)
             \/ \E f \in doomed : FileDeleted(f) \/ DeletionFails(f)
             \/ UNCHANGED vars
      PROVE  UNCHANGED deleted /\ doomed' \subseteq doomed
  BY <1>6 DEF Interrupt, Fault, AddSession, FileDeleted, DeletionFails, vars, history, db
<1> QED
  BY <1>1, <1>2, <1>3, <1>4, <1>5, <1>6 DEF Next, Starts

LEMMA HastyGrows ==
  ASSUME TypeOK, MethodHasJob, [Next]_vars
  PROVE  hasty \subseteq hasty'
BY Deletions DEF Deletes, DeleteFilesOf, deleted

\* Who condemns a job requests the deletion of the files that it refers to; a job
\* that was not finished, was condemned in haste.
LEMMA Condemning ==
  ASSUME TypeOK, MethodHasJob, OwnersInv, [Next]_vars, NEW j \in condemned' \ condemned
  PROVE  /\ UNCHANGED jobs
         /\ jobs[j].finished \/ j \in hasty'
         /\ Standalone(j) => FilesOf(j, HasResult(j)) \subseteq doomed'
<1>1. PICK k \in JobIds, what \in Updates : Deletes(k, what)
  BY Deletions DEF deleted
<1>2. k = j
  BY <1>1 DEF Deletes, DeleteFilesOf
<1>3. UNCHANGED jobs /\ FilesOf(j, what) \subseteq doomed'
  BY <1>1, <1>2 DEF Deletes, DeleteFilesOf
<1>4. jobs[j].finished \/ j \in hasty'
  BY <1>1, <1>2 DEF Deletes, DeleteFilesOf
<1>5. Standalone(j) => what = HasResult(j)
  BY <1>1, <1>2 DEF Deletes, OwnersInv, DeleterOK
<1> QED
  BY <1>3, <1>4, <1>5

\* A client that begins a method.
LEMMA StartsOwning ==
  ASSUME TypeOK, NEW c \in Clients, Starts(c)
  PROVE  LET m == client'[c]
         IN  /\ Updating(c)' => /\ Stored(m.job)
                                /\ m.what # "error" => ~jobs[m.job].finished
                                /\ m.step = "set" => m.what # "result"
                                /\ \A d \in Clients : client[d].job = m.job
                                                        => client[d].step \in Reading
                                /\ UNCHANGED deleted
             /\ m.step = "touch_deleted" => /\ ~Standalone(m.job)
                                            /\ m.what = "result" => jobs[m.job].result
             /\ m.step = "delete_one" => m.job \in condemned'
             /\ m.step \in {"list", "delete_many"} => m.sid \in SessionIds
             /\ UploaderOK(c)'
             /\ UNCHANGED <<jobs, files>>
<1>0. /\ \A j \in JobIds : jobs[j].sid \in SessionIds \cup {NoSession}
      /\ {"status", "result"} \subseteq Updates
      /\ {"upload", "upload_result", "set", "touch_deleted", "delete_one", "read", "list"}
            \subseteq Steps
  BY DEF TypeOK, Updates, Steps
<1>1. ASSUME NEW step \in Steps, NEW j \in JobIds \cup {NoJob},
             NEW s \in SessionIds \cup {NoSession}, NEW what \in Updates,
             Begin(c, step, j, s, what)
      PROVE  /\ client'[c].step = step /\ client'[c].job = j
             /\ client'[c].sid = s /\ client'[c].what = what
  <2>1. client'[c] = [step |-> step, job |-> j, sid |-> s, what |-> what, listed |-> {}]
    BY <1>1, BeginEffect
  <2> QED
    BY <2>1
<1> USE DEF Updating, UploaderOK
<1>2. ASSUME NEW j \in JobIds, NEW s \in SessionIds \cup {NoSession}, BeginAdd(c, j, s)
      PROVE  client'[c].step = "upload" /\ UNCHANGED <<jobs, files>>
  BY <1>0, <1>1, <1>2 DEF BeginAdd, db
<1>3. ASSUME NEW j \in JobIds, NEW what \in Updates, BeginUpdate(c, j, what)
      PROVE  /\ client'[c].step \in {"upload_result", "set"} /\ client'[c].job = j
             /\ client'[c].step = "upload_result" <=> what = "result"
             /\ client'[c].what = what
             /\ Stored(j) /\ (what # "error" => ~jobs[j].finished)
             /\ \A d \in Clients : client[d].job = j => client[d].step \in Reading
             /\ UNCHANGED <<jobs, files, deleted>>
  BY <1>0, <1>1, <1>3 DEF BeginUpdate, db
<1>4. ASSUME NEW j \in JobIds, BeginDelete(c, j)
      PROVE  /\ client'[c].job = j
             /\ \/ /\ client'[c].step = "touch_deleted" /\ ~Standalone(j)
                   /\ client'[c].what = "result" => jobs[j].result
                \/ client'[c].step = "delete_one" /\ j \in condemned'
             /\ UNCHANGED <<jobs, files>>
  <2>1. CASE Standalone(j)
    <3>1. /\ Begin(c, "delete_one", j, NoSession, HasResult(j))
          /\ DeleteFilesOf(j, HasResult(j))
      BY <1>4, <2>1 DEF BeginDelete, Standalone
    <3> QED
      BY <1>0, <1>1, <3>1, HasResultType DEF DeleteFilesOf
  <2>2. CASE ~Standalone(j)
    <3>1. Begin(c, "touch_deleted", j, jobs[j].sid, HasResult(j)) /\ UNCHANGED <<db, deleted>>
      BY <1>4, <2>2 DEF BeginDelete, Standalone
    <3>2. client'[c].step = "touch_deleted" /\ client'[c].job = j
          /\ client'[c].what = HasResult(j)
      BY <1>0, <1>1, <3>1, HasResultType
    <3> QED
      BY <2>2, <3>1, <3>2 DEF HasResult, db
  <2> QED
    BY <2>1, <2>2
<1>5. ASSUME NEW j \in JobIds, BeginFind(c, j)
      PROVE  client'[c].step = "read" /\ UNCHANGED <<jobs, files>>
  BY <1>0, <1>1, <1>5, HasResultType DEF BeginFind, db
<1>6. ASSUME NEW s \in SessionIds, BeginDeleteSession(c, s)
      PROVE  client'[c].step = "list" /\ client'[c].sid = s /\ UNCHANGED <<jobs, files>>
  BY <1>0, <1>1, <1>6 DEF BeginDeleteSession, db
<1> QED
  BY <1>2, <1>3, <1>4, <1>5, <1>6 DEF Starts

\* A client that goes on with a method, or is interrupted.
LEMMA CallsOwning ==
  ASSUME TypeOK, NEW c \in Clients, Calls(c) \/ Interrupt(c)
  PROVE  LET m == client'[c]
         IN  /\ Updating(c)' => /\ UploadResult(c) /\ Updating(c)
                                /\ m.step = "set" /\ m.job = client[c].job
                                /\ m.what = client[c].what
             /\ m.step # "touch_deleted" /\ m.step # "upload_result"
             /\ m.step = "delete_one" => m.job \in condemned'
             /\ m.step \in {"list", "delete_many"} => /\ client[c].step = "list"
                                                      /\ m.sid = client[c].sid
<1> USE DEF Steps, Ends
<1>1. ASSUME NEW this, NEW next \in Steps \cup Ends, Call(c, this, next)
      PROVE  /\ client[c].step = this /\ client'[c].step = next
             /\ next \in Steps => /\ client'[c].job = client[c].job
                                  /\ client'[c].sid = client[c].sid
                                  /\ client'[c].what = client[c].what
  BY <1>1, CallEffect
<1>2. CASE Upload(c)
  BY <1>1, <1>2 DEF Upload, Updating
<1>3. CASE UploadResult(c)
  BY <1>1, <1>3 DEF UploadResult, Updating
<1>4. CASE TouchDeleted(c)
  BY <1>1, <1>4 DEF TouchDeleted, DeleteFilesOf, Updating
<1>5. CASE Listed(c)
  BY <1>1, <1>5 DEF Listed, Updating
<1>8. CASE List(c)
  BY <1>8, ListEffect DEF Updating
<1>6. CASE \/ Insert(c) \/ TouchAdded(c) \/ Count(c) \/ Set(c) \/ TouchUpdated(c)
           \/ DeleteOne(c) \/ DeleteMany(c) \/ DeleteSession(c) \/ Read(c)
  <2>1. PICK next \in {"touch_added", "count", "touch_updated", "delete_session", "idle",
                       "no_file"} :
          \E this : Call(c, this, next)
    BY <1>6 DEF Insert, TouchAdded, Count, Set, SetIn, TouchUpdated, DeleteOne,
                DeleteMany, DeleteSession, Read, Touch, Or
  <2> QED
    BY <1>1, <2>1 DEF Updating
<1>7. CASE Interrupt(c)
  <2>1. client'[c] = Idle
    BY <1>7 DEF Interrupt, TypeOK
  <2> QED
    BY <2>1 DEF Idle, Updating
<1> QED
  BY <1>2, <1>3, <1>4, <1>5, <1>6, <1>7, <1>8 DEF Calls

LEMMA OneMoves ==
  ASSUME TypeOK, MethodHasJob, FilesInv, [Next]_vars
  PROVE  \/ UNCHANGED client
         \/ \E c \in Clients : /\ Starts(c) \/ Calls(c) \/ Interrupt(c)
                               /\ \A d \in Clients : d # c => client'[d] = client[d]
<1>1. ASSUME NEW c \in Clients, Starts(c) \/ Calls(c) \/ Interrupt(c)
      PROVE  \A d \in Clients : d # c => client'[d] = client[d]
  BY <1>1, StartsKnowing, CallsKnowing, MonotoneStep
<1> QED
  BY <1>1 DEF Next, Starts, AddSession, FileDeleted, DeletionFails, vars

LEMMA FilesShrink ==
  ASSUME TypeOK, [Next]_vars
  PROVE  files \subseteq files' \/ \E f \in doomed : FileDeleted(f)
<1>1. ASSUME NEW c \in Clients, Calls(c), ~Upload(c), ~UploadResult(c) PROVE files' = files
  BY <1>1 DEF Calls, Insert, TouchAdded, Count, Set, SetIn, TouchUpdated, Touch, TouchDeleted,
              DeleteOne, List, Listed, DeleteFilesOf, DeleteMany, DeleteSession, Read, db
<1>0. ASSUME NEW c \in Clients, Upload(c) \/ UploadResult(c) PROVE files \subseteq files'
  BY <1>0 DEF Upload, UploadResult
<1>2. ASSUME NEW c \in Clients, Starts(c) \/ Interrupt(c) PROVE files' = files
  BY <1>2 DEF Starts, BeginAdd, BeginUpdate, BeginDelete, BeginFind, BeginDeleteSession,
              DeleteFilesOf, Interrupt, db
<1>3. CASE \/ \E s \in SessionIds : AddSession(s)
           \/ \E f \in doomed : DeletionFails(f)
           \/ UNCHANGED vars
  BY <1>3 DEF AddSession, DeletionFails, vars, db
<1> QED
  BY <1>0, <1>1, <1>2, <1>3 DEF Next, Starts

-----------------------------------------------------------------------------
(* The invariant.                                                          *)

LEMMA OwnersInvInit == Init => OwnersInv
<1> SUFFICES ASSUME Init PROVE OwnersInv
  OBVIOUS
<1>1. \A c \in Clients : client[c].step = "idle"
  BY DEF Init, Idle
<1>2. \A j \in JobIds : DocumentOK(j)
  BY DEF Init, Document, DocumentOK, Standalone
<1>3. \A c \in Clients : UpdaterOK(c) /\ DeleterOK(c) /\ UploaderOK(c) /\ Exclusive(c)
  BY <1>1 DEF UpdaterOK, DeleterOK, UploaderOK, Exclusive, Updating
<1> QED
  BY <1>2, <1>3 DEF Init, OwnersInv, DoomedResults

\* The job of an updater stays as it is, or is deleted, if the updater takes no step.
LEMMA UpdatedJobStays ==
  ASSUME TypeOK, MethodHasJob, FilesInv, OwnersInv, [Next]_vars,
         NEW d \in Clients, Updating(d), client'[d] = client[d],
         NEW j \in JobIds, j = client[d].job
  PROVE  \/ jobs'[j] = jobs[j]
         \/ /\ Stored(j) /\ Removed(j)
            /\ Standalone(j) => j \in condemned
<1>1. ASSUME NEW c \in Clients, Insert(c), client[c].job = j PROVE FALSE
  <2>1. client[c].step = "insert" /\ Alone(c)
    BY <1>1 DEF Insert, Call, FilesInv
  <2>2. c # d
    BY <2>1 DEF Updating
  <2> QED
    BY <1>1, <2>1, <2>2 DEF Alone, AddSteps
<1>2. ASSUME NEW c \in Clients, Set(c), client[c].job = j PROVE FALSE
  <2>0. client[c].step = "set"
    BY <1>2 DEF Set, SetIn, Call
  <2>1. c = d
    BY <1>2, <2>0 DEF OwnersInv, Exclusive, Updating
  <2>2. PICK next \in {"touch_updated", "idle"} : Call(c, "set", next)
    BY <1>2 DEF Set, SetIn, Or
  <2>3. client[d].step = "set" /\ client'[d].step = next
    BY <2>1, <2>2, CallEffect DEF Steps, Ends
  <2> QED
    BY <2>2, <2>3
<1>3. ASSUME NEW c \in Clients, Standalone(j),
             \/ client[c].step = "delete_one" /\ client[c].job = j
             \/ client[c].step = "delete_many" /\ jobs[j].sid = client[c].sid
      PROVE  j \in condemned
  BY <1>3, MongoAssumption DEF OwnersInv, DeleterOK, Standalone
<1> QED
  BY <1>1, <1>2, <1>3, DocumentChanges DEF DocumentChange

LEMMA UpdaterStays ==
  ASSUME TypeOK, MethodHasJob, FilesInv, OwnersInv, [Next]_vars,
         NEW d \in Clients, Updating(d), client'[d] = client[d]
  PROVE  UpdaterOK(d)'
<1>1. PICK j \in JobIds : j = client[d].job
  BY CallJob DEF Updating, JobSteps
<1>2. /\ UpdaterOK(d) /\ DocumentOK(j)
      /\ jobs'[j] = jobs[j] \/ (Stored(j) /\ Removed(j) /\ (Standalone(j) => j \in condemned))
  BY <1>1, UpdatedJobStays DEF OwnersInv
<1> DEFINE m == client[d]
<1>3. ASSUME jobs'[j].state = "stored"
      PROVE  /\ m.what # "error" => ~jobs'[j].finished
             /\ m.step = "set" /\ m.what = "result" => <<j, "result">> \in files'
  <2>1. jobs'[j] = jobs[j] /\ Stored(j)
    BY <1>2, <1>3 DEF Removed, Stored
  <2>2. ASSUME m.step = "set", m.what = "result" PROVE <<j, "result">> \in files'
    <3>1. <<j, "result">> \in files /\ ~jobs[j].result
      BY <1>1, <1>2, <2>1, <2>2 DEF UpdaterOK, DocumentOK
    <3>2. <<j, "result">> \notin doomed
      BY <3>1 DEF OwnersInv, DoomedResults
    <3>3. ASSUME NEW f \in doomed, FileDeleted(f) PROVE files' = files \ {f}
      BY <3>3 DEF FileDeleted
    <3> QED
      BY <3>1, <3>2, <3>3, FilesShrink
  <2> QED
    BY <1>1, <1>2, <2>1, <2>2 DEF UpdaterOK
<1>4. ASSUME m.what = "result", jobs'[j].sid = NoSession, j \notin hasty'
      PROVE  jobs'[j].state = "stored" /\ j \notin condemned'
  <2>1. Standalone(j)
    BY <1>2, <1>4 DEF Removed, Standalone
  <2>2. Stored(j) /\ j \notin condemned
    BY <1>1, <1>2, <1>4, <2>1, HastyGrows DEF UpdaterOK
  <2>3. jobs'[j] = jobs[j]
    BY <1>2, <2>1, <2>2
  <2>4. ~jobs[j].finished
    BY <1>1, <1>2, <1>4, <2>2 DEF UpdaterOK
  <2> QED
    BY <1>4, <2>2, <2>3, <2>4, Condemning DEF Stored
<1> QED
  BY <1>1, <1>3, <1>4 DEF UpdaterOK, Updating, Stored, Standalone

LEMMA DocumentStep ==
  ASSUME TypeOK, MethodHasJob, FilesInv, OwnersInv, [Next]_vars, NEW j \in JobIds
  PROVE  DocumentOK(j)'
<1>0. DocumentOK(j) /\ DocumentChange(j)
  BY DocumentChanges DEF OwnersInv
<1>1. jobs[j] \in [state : {"none", "stored", "deleted"}, sid : SessionIds \cup {NoSession},
                   finished : BOOLEAN, result : BOOLEAN]
  BY DEF TypeOK
<1>2. /\ jobs'[j].state = "none" => jobs'[j].sid = NoSession
      /\ jobs'[j].result => jobs'[j].finished
  <2>1. CASE jobs'[j] = jobs[j]
    BY <1>0, <2>1 DEF DocumentOK, Standalone
  <2>2. ASSUME NEW s, jobs'[j] = Document("stored", s)
        PROVE  jobs'[j].state = "stored" /\ ~jobs'[j].result
    BY <2>2 DEF Document
  <2>3. ASSUME NEW what \in Updates, Updated(j, what)
        PROVE  jobs'[j].state = "stored" /\ (jobs'[j].result => jobs'[j].finished)
    BY <1>0, <1>1, <2>3 DEF Updates, Updated, DocumentOK
  <2>4. CASE Removed(j)
    BY <1>0, <1>1, <2>4 DEF Removed, DocumentOK
  <2>5. \A c \in Clients : client[c].what \in Updates
    BY DEF TypeOK, Method
  <2> QED
    BY <1>0, <2>1, <2>2, <2>3, <2>4, <2>5 DEF DocumentChange
<1>5. ASSUME j \in condemned', j \notin hasty' PROVE jobs'[j].finished
  <2>1. CASE j \in condemned
    <3>1. jobs[j].finished /\ jobs[j].state # "none"
      BY <1>0, <1>5, <2>1, HastyGrows DEF DocumentOK, FilesInv, DoomedOK
    <3> QED
      BY <1>0, <3>1 DEF DocumentChange, Updated, Removed
  <2>2. CASE j \notin condemned
    BY <1>5, <2>2, Condemning
  <2> QED
    BY <2>1, <2>2
<1> QED
  BY <1>2, <1>5 DEF DocumentOK, Standalone

\* No update takes a result back.
LEMMA ResultStays ==
  ASSUME TypeOK, MethodHasJob, FilesInv, [Next]_vars, NEW j \in JobIds,
         jobs[j].state # "none", jobs[j].result
  PROVE  jobs'[j].result
BY DocumentChanges DEF DocumentChange, Updated, Removed

LEMMA DoomedResultsStep ==
  ASSUME TypeOK, MethodHasJob, FilesInv, OwnersInv, [Next]_vars
  PROVE  DoomedResults'
<1> SUFFICES ASSUME NEW f \in doomed', f[2] = "result" PROVE jobs'[f[1]].result
  BY DEF DoomedResults
<1>1. CASE f \in doomed
  <2>1. f[1] \in JobIds /\ jobs[f[1]].state # "none" /\ jobs[f[1]].result
    BY <1>1 DEF TypeOK, FilesInv, DoomedOK, OwnersInv, DoomedResults
  <2> QED
    BY <2>1, ResultStays
<1>2. CASE f \notin doomed
  <2>1. PICK j \in JobIds, what \in Updates : Deletes(j, what)
    BY <1>2, Deletions
  <2>2. f[1] = j /\ what = "result" /\ UNCHANGED jobs
    BY <1>2, <2>1 DEF Deletes, DeleteFilesOf, FilesOf
  <2>3. jobs[j].result
    BY <2>1, <2>2 DEF Deletes, HasResult, OwnersInv, DeleterOK
  <2> QED
    BY <2>2, <2>3
<1> QED
  BY <1>1, <1>2

LEMMA OwnersInvStep ==
  TypeOK /\ MethodHasJob /\ FilesInv /\ OwnersInv /\ [Next]_vars => OwnersInv'
<1> SUFFICES ASSUME TypeOK, MethodHasJob, FilesInv, OwnersInv, [Next]_vars PROVE OwnersInv'
  OBVIOUS
<1>0. Monotone /\ MethodHasJob' /\ NoSession \notin SessionIds
  BY MonotoneStep, TypeStep, MongoAssumption
\* A client that does not move.
<1>1. ASSUME NEW d \in Clients, client'[d] = client[d] PROVE UpdaterOK(d)' /\ DeleterOK(d)'
  <2>1. UpdaterOK(d)'
    <3>1. CASE Updating(d)
      BY <1>1, <3>1, UpdaterStays
    <3>2. CASE ~Updating(d)
      BY <1>1, <3>2 DEF UpdaterOK, Updating
    <3> QED
      BY <3>1, <3>2
  <2>2. DeleterOK(d) /\ ClientOK(d)
    BY DEF OwnersInv, FilesInv
  <2>3. ASSUME client[d].step = "touch_deleted"
        PROVE  /\ jobs'[client[d].job].sid # NoSession
               /\ client[d].what = "result" => jobs'[client[d].job].result
    <3>1. PICK j \in JobIds : j = client[d].job
      BY <2>3, CallJob DEF JobSteps
    <3>2. /\ jobs[j].sid # NoSession /\ jobs[j].state # "none"
          /\ client[d].what = "result" => jobs[j].result
      BY <2>2, <2>3, <3>1 DEF DeleterOK, ClientOK, Standalone
    <3>3. jobs'[j].sid = jobs[j].sid
      BY <3>2, DocumentChanges DEF DocumentChange, Updated, Removed
    <3> QED
      BY <3>1, <3>2, <3>3, ResultStays
  <2> QED
    BY <1>0, <1>1, <2>1, <2>2, <2>3 DEF DeleterOK, Monotone, Standalone
\* The client that moves.
<1>2. ASSUME NEW c \in Clients, Starts(c) PROVE UpdaterOK(c)' /\ DeleterOK(c)'
  <2> DEFINE m == client'[c]
  <2>1. /\ Updating(c)' => /\ Stored(m.job)
                           /\ m.what # "error" => ~jobs[m.job].finished
                           /\ m.step = "set" => m.what # "result"
                           /\ UNCHANGED deleted
        /\ m.step = "touch_deleted" => /\ ~Standalone(m.job)
                                       /\ m.what = "result" => jobs[m.job].result
        /\ m.step = "delete_one" => m.job \in condemned'
        /\ m.step \in {"list", "delete_many"} => m.sid \in SessionIds
        /\ jobs' = jobs
    BY <1>2, StartsOwning
  <2>2. Updating(c)' => m.job \in JobIds
    BY <1>0 DEF Updating, MethodHasJob, JobSteps
  <2>3. Updating(c)' /\ m.what = "result" => m.job \notin condemned \/ m.job \in hasty
    BY <2>1, <2>2 DEF OwnersInv, DocumentOK
  <2>4. UpdaterOK(c)'
    BY <2>1, <2>3 DEF UpdaterOK, Stored, deleted
  <2>5. DeleterOK(c)'
    BY <2>1 DEF DeleterOK, Standalone
  <2> QED
    BY <2>4, <2>5
<1>3. ASSUME NEW c \in Clients, Calls(c) \/ Interrupt(c) PROVE UpdaterOK(c)' /\ DeleterOK(c)'
  <2> DEFINE m == client'[c]
  <2>1. /\ Updating(c)' => /\ UploadResult(c) /\ Updating(c)
                           /\ m.step = "set" /\ m.job = client[c].job /\ m.what = client[c].what
        /\ m.step # "touch_deleted"
        /\ m.step = "delete_one" => m.job \in condemned'
        /\ m.step \in {"list", "delete_many"} => client[c].step = "list" /\ m.sid = client[c].sid
    BY <1>3, CallsOwning
  <2>2. UpdaterOK(c) /\ DeleterOK(c)
    BY DEF OwnersInv
  <2>3. Updating(c)' => /\ UNCHANGED <<jobs, deleted>>
                        /\ files' = files \cup {<<m.job, "result">>}
    BY <2>1 DEF UploadResult
  <2>4. UpdaterOK(c)'
    BY <2>1, <2>2, <2>3 DEF UpdaterOK, Standalone, Stored, deleted
  <2>5. DeleterOK(c)'
    BY <2>1, <2>2 DEF DeleterOK
  <2> QED
    BY <2>4, <2>5
<1>4. \A c \in Clients : UpdaterOK(c)' /\ DeleterOK(c)'
  BY <1>1, <1>2, <1>3, OneMoves
<1>5. \A c \in Clients : Exclusive(c)'
  <2>1. CASE UNCHANGED client
    BY <2>1 DEF OwnersInv, Exclusive, Updating
  <2>2. ASSUME NEW c \in Clients, Starts(c) \/ Calls(c) \/ Interrupt(c),
               \A d \in Clients : d # c => client'[d] = client[d]
        PROVE  \A d \in Clients : Exclusive(d)'
    <3>1. ASSUME NEW d \in Clients \ {c}, Updating(c)', Updating(d)
          PROVE  client'[c].job # client[d].job
      <4>1. CASE Starts(c)
        BY <3>1, <4>1, StartsOwning DEF Updating, Reading
      <4>2. CASE Calls(c) \/ Interrupt(c)
        BY <3>1, <4>2, CallsOwning DEF OwnersInv, Exclusive
      <4> QED
        BY <2>2, <4>1, <4>2
    <3> QED
      BY <2>2, <3>1 DEF OwnersInv, Exclusive, Updating
  <2> QED
    BY <2>1, <2>2, OneMoves
<1>6. \A c \in Clients : UploaderOK(c)'
  BY StartsOwning, CallsOwning, OneMoves DEF OwnersInv, UploaderOK
<1> QED
  BY <1>4, <1>5, <1>6, DocumentStep, DoomedResultsStep DEF OwnersInv

-----------------------------------------------------------------------------
(* Stray files.                                                            *)

\* The next call of c stores a reference to file f.
Writes(c, f) ==
    LET m == client[c]
    IN  \/ m.step = "insert" /\ f = <<m.job, "src">>
        \/ m.step = "set" /\ m.what = "result" /\ f = <<m.job, "result">>

Stray == {f \in files \ doomed : /\ Standalone(f[1])
                                 /\ f \notin LateResults
                                 /\ f \in Referred => f[1] \in condemned
                                 /\ \A c \in Clients : ~Writes(c, f)}

\* How a file gets to be one that exists and that nobody deletes.
LEMMA FilesGrow ==
  ASSUME TypeOK, [Next]_vars, NEW f \in files' \ doomed', f \notin files \ doomed
  PROVE  \/ \E c \in Clients : Upload(c) /\ f = <<client[c].job, "src">>
         \/ \E c \in Clients : UploadResult(c) /\ f = <<client[c].job, "result">>
         \/ f \in doomed /\ DeletionFails(f)
<1>1. ASSUME NEW c \in Clients, Calls(c), ~Upload(c), ~UploadResult(c)
      PROVE  files' = files /\ doomed \subseteq doomed'
  BY <1>1 DEF Calls, Insert, TouchAdded, Count, Set, SetIn, TouchUpdated, Touch, TouchDeleted,
              DeleteOne, List, Listed, DeleteMany, DeleteSession, Read, DeleteFilesOf, db
<1>2. ASSUME NEW c \in Clients, Starts(c) \/ Interrupt(c)
      PROVE  files' = files /\ doomed \subseteq doomed'
  BY <1>2 DEF Starts, BeginAdd, BeginUpdate, BeginDelete, BeginFind, BeginDeleteSession,
              DeleteFilesOf, Interrupt, db
<1>3. ASSUME NEW c \in Clients, Upload(c)
      PROVE  files' = files \cup {<<client[c].job, "src">>} /\ doomed' = doomed
  BY <1>3 DEF Upload
<1>4. ASSUME NEW c \in Clients, UploadResult(c)
      PROVE  files' = files \cup {<<client[c].job, "result">>} /\ doomed' = doomed
  BY <1>4 DEF UploadResult
<1>5. ASSUME NEW g \in doomed, DeletionFails(g)
      PROVE  files' = files /\ doomed' = doomed \ {g}
  BY <1>5 DEF DeletionFails
<1>6. ASSUME NEW g \in doomed, FileDeleted(g)
      PROVE  files' = files \ {g} /\ doomed' = doomed \ {g}
  BY <1>6 DEF FileDeleted
<1>7. CASE (\E s \in SessionIds : AddSession(s)) \/ UNCHANGED vars
  BY <1>7 DEF AddSession, vars, db
<1> QED
  BY <1>1, <1>2, <1>3, <1>4, <1>5, <1>6, <1>7 DEF Next, Starts

\* A file whose reference is about to be stored, and is not any more.
LEMMA WritingEnds ==
  ASSUME TypeOK, MethodHasJob, FilesInv, OwnersInv, [Next]_vars,
         NEW f \in Stray', f \notin LateResults, NEW c \in Clients, Writes(c, f)
  PROVE  Interrupt(c)
<1>1. PICK j \in JobIds : j = client[c].job
  BY CallJob DEF Writes, JobSteps, AddSteps
<1>2. /\ f[1] = j /\ jobs'[j].sid = NoSession
      /\ f \in Referred' => j \in condemned'
      /\ ~Writes(c, f)' /\ client[c].step \in {"insert", "set"}
  BY <1>1 DEF Writes, Stray, Standalone
<1>3. ~Starts(c)
  BY <1>2 DEF Starts, BeginAdd, BeginUpdate, BeginDelete, BeginFind, BeginDeleteSession, Begin,
              Ends
<1>4. ASSUME Insert(c) PROVE FALSE
  <2>1. client[c].step = "insert" /\ f = <<j, "src">> /\ jobs[j].state = "none"
    BY <1>1, <1>4 DEF Insert, Call, Writes, FilesInv, ClientOK, AddSteps
  <2>2. j \notin condemned'
    BY <1>4, <2>1 DEF Insert, FilesInv, DoomedOK, deleted
  <2>3. jobs'[j].state = "stored"
    BY <1>1, <1>4 DEF Insert, Document, TypeOK
  <2> QED
    BY <1>2, <2>1, <2>2, <2>3 DEF Referred, Stored
<1>5. ASSUME Set(c) PROVE FALSE
  <2>1. client[c].step = "set" /\ client[c].what = "result" /\ f = <<j, "result">>
    BY <1>1, <1>5 DEF Set, SetIn, Call, Writes
  <2>2. ASSUME Stored(j) PROVE Updated(j, "result")
    BY <1>1, <1>5, <2>1, <2>2, SetUpdates
  <2>3. ASSUME ~Stored(j) PROVE jobs'[j] = jobs[j]
    BY <1>5, <2>3 DEF Set, SetIn
  <2>4. Standalone(j)
    BY <1>2, <2>2, <2>3 DEF Updated, Standalone
  <2>5. Stored(j) /\ j \notin condemned
    BY <1>1, <2>1, <2>4 DEF OwnersInv, UpdaterOK, Updating, LateResults
  <2>6. jobs'[j].state = "stored" /\ jobs'[j].result /\ condemned' = condemned
    BY <1>5, <2>2, <2>5 DEF Updated, Set, SetIn, deleted
  <2> QED
    BY <1>2, <2>1, <2>5, <2>6 DEF Referred, Stored
<1>6. ASSUME Calls(c) PROVE FALSE
  BY <1>2, <1>4, <1>5, <1>6 DEF Calls, Upload, TouchAdded, Count, UploadResult, TouchUpdated,
     Touch, TouchDeleted, DeleteOne, List, Listed, DeleteMany, DeleteSession, Read, Call
<1>7. client'[c] # client[c]
  BY <1>2 DEF Writes
<1> QED
  BY <1>3, <1>6, <1>7, OneMoves

\* A file to which its job refers stays referred to, or its deletion is requested.
LEMMA ReferredStays ==
  ASSUME TypeOK, MethodHasJob, FilesInv, OwnersInv, [Next]_vars,
         NEW f \in Stray', f \in files \ doomed, Standalone(f[1]), f \in Referred
  PROVE  f[1] \in condemned
<1> SUFFICES ASSUME f[1] \notin condemned PROVE FALSE
  OBVIOUS
<1>1. PICK j \in JobIds, x \in {"src", "result"} : f = <<j, x>>
  BY DEF Referred
<1>2. /\ Stored(j) /\ (x = "result" => jobs[j].result)
      /\ Standalone(j) /\ j \notin condemned
      /\ <<j, x>> \in Referred' => j \in condemned'
      /\ <<j, x>> \in files /\ <<j, x>> \notin doomed'
  BY <1>1 DEF Referred, Stray
<1>3. j \notin condemned'
  <2>1. <<j, x>> \in FilesOf(j, HasResult(j))
    BY <1>2 DEF FilesOf, HasResult
  <2> QED
    BY <1>2, <2>1, Condemning
<1>4. ~(jobs'[j].state = "stored" /\ (x = "result" => jobs'[j].result))
  BY <1>2, <1>3 DEF Referred, Stored
<1>5. ASSUME NEW c \in Clients,
             \/ client[c].step = "delete_one" /\ client[c].job = j
             \/ client[c].step = "delete_many" /\ jobs[j].sid = client[c].sid
      PROVE  FALSE
  BY <1>2, <1>5, MongoAssumption DEF OwnersInv, DeleterOK, Standalone
<1>6. DocumentChange(j)
  BY DocumentChanges
<1> QED
  BY <1>2, <1>4, <1>5, <1>6 DEF DocumentChange, Updated, Stored

\* A fault leaves one stray file at most, and nothing else does.
LEMMA StrayStep ==
  ASSUME TypeOK, MethodHasJob, FilesInv, OwnersInv, [Next]_vars
  PROVE  \/ Stray' \subseteq Stray /\ (faults' = faults \/ faults' = faults + 1)
         \/ faults' = faults + 1 /\ \E g : Stray' \subseteq Stray \cup {g}
<1>1. faults' = faults \/ faults' = faults + 1
  BY CountChange
<1>2. ASSUME NEW f \in Stray', f \notin Stray
      PROVE  \/ f \in doomed /\ DeletionFails(f)
             \/ \E c \in Clients : Interrupt(c) /\ Writes(c, f)
  <2>0. /\ f \in files' \ doomed' /\ jobs'[f[1]].sid = NoSession
        /\ \A c \in Clients : ~Writes(c, f)'
        /\ f[1] \in JobIds /\ f \notin LateResults
    BY TypeStep, HastyGrows DEF Stray, Standalone, LateResults, TypeOK
  <2>1. Standalone(f[1])
    <3>1. DocumentOK(f[1]) /\ DocumentChange(f[1])
      BY <2>0, DocumentChanges DEF OwnersInv
    <3> QED
      BY <2>0, <3>1 DEF DocumentChange, DocumentOK, Updated, Removed, Standalone
  <2>2. CASE f \in files \ doomed
    <3>1. f \in Referred => f[1] \in condemned
      BY <2>1, <2>2, ReferredStays
    <3>2. PICK c \in Clients : Writes(c, f)
      BY <1>2, <2>0, <2>1, <2>2, <3>1 DEF Stray
    <3> QED
      BY <2>0, <3>2, WritingEnds
  <2>3. CASE f \notin files \ doomed
    <3> USE DEF Steps
    <3>1. ASSUME NEW c \in Clients, Upload(c), f = <<client[c].job, "src">> PROVE FALSE
      <4>1. client'[c].step = "insert" /\ client'[c].job = client[c].job
        BY <3>1, CallEffect DEF Upload
      <4> QED
        BY <2>0, <3>1, <4>1 DEF Writes
    <3>2. ASSUME NEW c \in Clients, UploadResult(c), f = <<client[c].job, "result">>
          PROVE  FALSE
      <4>1. /\ client[c].step = "upload_result"
            /\ client'[c].step = "set" /\ client'[c].job = client[c].job
            /\ client'[c].what = client[c].what
        BY <3>2, CallEffect DEF UploadResult
      <4>2. client[c].what = "result"
        BY <4>1 DEF OwnersInv, UploaderOK
      <4> QED
        BY <2>0, <3>2, <4>1, <4>2 DEF Writes
    <3> QED
      BY <2>0, <2>3, <3>1, <3>2, FilesGrow
  <2> QED
    BY <2>2, <2>3
<1>3. ASSUME NEW g \in doomed, DeletionFails(g)
      PROVE  faults' = faults + 1 /\ Stray' \subseteq Stray \cup {g}
  <2>1. faults' = faults + 1 /\ UNCHANGED client /\ doomed' = doomed \ {g}
    BY <1>3 DEF DeletionFails, Fault
  <2>2. ASSUME NEW f \in Stray', f \notin Stray, f # g PROVE FALSE
    <3>1. \A c \in Clients : ~Writes(c, f)
      BY <2>1, <2>2 DEF Stray, Writes
    <3>2. f \in doomed /\ DeletionFails(f)
      BY <1>2, <2>2, <3>1
    <3>3. f \in doomed' /\ f \in Stray'
      BY <2>1, <2>2, <3>2
    <3> QED
      BY <3>3 DEF Stray
  <2> QED
    BY <2>1, <2>2
<1>4. ASSUME NEW c \in Clients, Interrupt(c)
      PROVE  faults' = faults + 1 /\ \E g : Stray' \subseteq Stray \cup {g}
  <2>1. /\ faults' = faults + 1 /\ doomed' = doomed
        /\ \A d \in Clients : d # c => client'[d] = client[d]
    BY <1>4 DEF Interrupt, Fault, db, TypeOK
  <2> DEFINE g == IF client[c].step = "insert" THEN <<client[c].job, "src">>
                                               ELSE <<client[c].job, "result">>
  <2>2. ASSUME NEW f \in Stray', f \notin Stray PROVE f = g
    <3>1. f \notin doomed'
      BY DEF Stray
    <3>2. PICK d \in Clients : Writes(d, f)
      BY <1>2, <2>1, <2>2, <3>1
    <3>3. ~Writes(d, f)'
      BY DEF Stray
    <3>4. d = c
      BY <2>1, <3>2, <3>3 DEF Writes
    <3> QED
      BY <3>2, <3>4 DEF Writes
  <2> QED
    BY <2>1, <2>2
<1> QED
  <2>1. CASE Stray' \subseteq Stray
    BY <1>1, <2>1
  <2>2. CASE ~(Stray' \subseteq Stray)
    <3>1. PICK f \in Stray' : f \notin Stray
      BY <2>2
    <3>2. \/ f \in doomed /\ DeletionFails(f)
          \/ \E c \in Clients : Interrupt(c)
      BY <1>2, <3>1
    <3> QED
      BY <1>3, <1>4, <3>2
  <2> QED
    BY <2>1, <2>2

(***************************************************************************)
(* No document of a standalone job outlives the job: when nobody is at     *)
(* work, the files no job refers to are at most as many as the faults, the *)
(* results apart that came after their job was deleted.                    *)
(***************************************************************************)
THEOREM NoDocumentLeftHolds == Spec => []NoDocumentLeft
<1> DEFINE Inv == /\ IsFiniteSet(Stray)
                  /\ Cardinality(Stray) <= faults
<1>1. Init => Inv
  <2> SUFFICES ASSUME Init PROVE Inv
    OBVIOUS
  <2>1. Stray = {}
    BY DEF Init, Stray
  <2> QED
    BY <2>1, FS_EmptySet DEF Init
<1>2. TypeOK /\ MethodHasJob /\ FilesInv /\ OwnersInv /\ Inv /\ [Next]_vars => Inv'
  <2> SUFFICES ASSUME TypeOK, MethodHasJob, FilesInv, OwnersInv, Inv, [Next]_vars PROVE Inv'
    OBVIOUS
  <2>1. faults \in Nat /\ Cardinality(Stray) \in Nat
    BY FS_CardinalityType, MongoAssumption DEF TypeOK
  <2>2. CASE Stray' \subseteq Stray /\ (faults' = faults \/ faults' = faults + 1)
    <3>1. IsFiniteSet(Stray') /\ Cardinality(Stray') <= Cardinality(Stray)
      BY <2>2, FS_Subset
    <3>2. Cardinality(Stray') \in Nat
      BY <3>1, FS_CardinalityType
    <3> QED
      BY <2>1, <2>2, <3>1, <3>2
  <2>3. ASSUME NEW g, Stray' \subseteq Stray \cup {g}, faults' = faults + 1 PROVE Inv'
    <3>1. /\ IsFiniteSet(Stray \cup {g})
          /\ Cardinality(Stray \cup {g}) <= Cardinality(Stray) + 1
          /\ Cardinality(Stray \cup {g}) \in Nat
      <4>1. CASE g \in Stray
        <5>1. Stray \cup {g} = Stray
          BY <4>1
        <5> QED
          BY <2>1, <5>1
      <4>2. CASE g \notin Stray
        <5>1. /\ IsFiniteSet(Stray \cup {g})
              /\ Cardinality(Stray \cup {g}) = Cardinality(Stray) + 1
          BY <4>2, FS_AddElement
        <5> QED
          BY <2>1, <5>1
      <4> QED
        BY <4>1, <4>2
    <3>2. IsFiniteSet(Stray') /\ Cardinality(Stray') <= Cardinality(Stray \cup {g})
      BY <2>3, <3>1, FS_Subset
    <3>3. Cardinality(Stray') \in Nat
      BY <3>2, FS_CardinalityType
    <3> QED
      BY <2>1, <2>3, <3>1, <3>2, <3>3
  <2> QED
    BY <2>2, <2>3, StrayStep
<1>3. TypeOK /\ Inv => NoDocumentLeft
  <2> SUFFICES ASSUME TypeOK, Inv, Quiet
               PROVE  Cardinality({f \in (files \ Referred) \ LateResults :
                                       jobs[f[1]].sid = NoSession}) <= faults
    BY DEF NoDocumentLeft
  <2> DEFINE Left == {f \in (files \ Referred) \ LateResults : jobs[f[1]].sid = NoSession}
  <2>1. Left \subseteq Stray
    BY DEF Quiet, Stray, Standalone, Writes, Ends
  <2>2. IsFiniteSet(Left) /\ Cardinality(Left) <= Cardinality(Stray)
    BY <2>1, FS_Subset
  <2>3. Cardinality(Left) \in Nat /\ Cardinality(Stray) \in Nat /\ faults \in Nat
    BY <2>2, FS_CardinalityType, MongoAssumption DEF TypeOK
  <2> QED
    BY <2>2, <2>3
<1> QED
  BY <1>1, <1>2, <1>3, FilesInvHolds, OwnersInvInit, OwnersInvStep, PTL DEF Spec

-----------------------------------------------------------------------------
(* Jobs and documents as an atomic store: the steps of the database as     *)
(* steps of the store.                                                     *)

LEMMA DocsOf ==
  ASSUME NEW j \in JobIds
  PROVE  /\ Docs(j) = {x \in {"src", "result"} :
                          <<j, x>> \in files /\ Stored(j) /\ (x = "result" => jobs[j].result)}
         /\ Docs(j)' = {x \in {"src", "result"} :
                          /\ <<j, x>> \in files' /\ jobs'[j].state = "stored"
                          /\ x = "result" => jobs'[j].result}
  BY DEF Docs, Referred, Stored

\* A reader is not told of a file that the job does not refer to.
LEMMA DocsStay ==
  ASSUME NEW j \in JobIds, jobs'[j] = jobs[j],
         \A x \in {"src", "result"} : Stored(j) /\ (x = "result" => jobs[j].result)
                                        => (<<j, x>> \in files' <=> <<j, x>> \in files)
  PROVE  Docs(j)' = Docs(j)
<1>1. Docs(j) = {x \in {"src", "result"} :
                   <<j, x>> \in files /\ Stored(j) /\ (x = "result" => jobs[j].result)}
  BY DocsOf
<1>2. Docs(j)' = {x \in {"src", "result"} :
                   <<j, x>> \in files' /\ Stored(j) /\ (x = "result" => jobs[j].result)}
  BY DocsOf DEF Stored
<1> QED
  BY <1>1, <1>2

LEMMA InsertIsAdd ==
  ASSUME TypeOK, MethodHasJob, FilesInv, NEW c \in Clients, Insert(c)
  PROVE  Store!Next
<1>0. client[c].step = "insert"
  BY DEF Insert, Call
<1>1. PICK k \in JobIds, s \in SessionIds \cup {NoSession} :
         k = client[c].job /\ s = client[c].sid
  BY <1>0, CallJob DEF JobSteps, AddSteps, TypeOK, Method
<1>2. /\ jobs' = [jobs EXCEPT ![k] = Document("stored", s)]
      /\ UNCHANGED <<files, condemned>>
  BY <1>1 DEF Insert, deleted
<1>3. jobs[k].state = "none" /\ <<k, "src">> \in files
  BY <1>0, <1>1 DEF FilesInv, ClientOK, AddSteps, SrcStored
<1>4. /\ jobs'[k].state = "stored" /\ ~jobs'[k].result
      /\ \A j \in JobIds \ {k} : jobs'[j] = jobs[j]
  BY <1>1, <1>2 DEF Document, TypeOK
<1>5. Docs(k)' = {"src"}
  BY <1>1, <1>2, <1>3, <1>4, DocsOf
<1>6. \A j \in JobIds \ {k} : Docs(j)' = Docs(j)
  BY <1>2, <1>4, DocsStay
<1>7. [j \in JobIds |-> Docs(j)]' = [[j \in JobIds |-> Docs(j)] EXCEPT ![k] = {"src"}]
  BY <1>1, <1>5, <1>6
<1>8. Store!Document("stored", s) = Document("stored", s)
  BY DEF Store!Document, Document
<1>9. Store!Add(k, s)
  BY <1>2, <1>3, <1>7, <1>8 DEF Store!Add
<1> QED
  BY <1>1, <1>9 DEF Store!Next

\* An update of job k that finds it stored.
LEMMA UpdatedField ==
  ASSUME TypeOK, TypeOK', NEW k \in JobIds, NEW finished \in BOOLEAN, NEW result \in BOOLEAN,
         jobs'[k].state = jobs[k].state, jobs'[k].sid = jobs[k].sid,
         jobs'[k].finished = finished, jobs'[k].result = result,
         \A j \in JobIds \ {k} : jobs'[j] = jobs[j]
  PROVE  jobs' = [jobs EXCEPT ![k].finished = finished, ![k].result = result]
<1> DEFINE Doc == [state : {"none", "stored", "deleted"}, sid : SessionIds \cup {NoSession},
                   finished : BOOLEAN, result : BOOLEAN]
           new == [jobs EXCEPT ![k].finished = finished, ![k].result = result]
<1>1. jobs \in [JobIds -> Doc] /\ jobs' \in [JobIds -> Doc]
  BY DEF TypeOK
<1>2. jobs[k] \in Doc /\ jobs'[k] \in Doc
  BY <1>1
<1>3. jobs'[k] = [[jobs[k] EXCEPT !.finished = finished] EXCEPT !.result = result]
  BY <1>2
<1>4. new[k] = [[jobs[k] EXCEPT !.finished = finished] EXCEPT !.result = result]
  BY <1>1
<1>5. \A j \in JobIds \ {k} : new[j] = jobs[j]
  BY <1>1
<1>6. new = [j \in JobIds |-> new[j]]
  BY <1>1
<1>7. jobs' = [j \in JobIds |-> jobs'[j]]
  BY <1>1
<1> HIDE DEF new
<1>8. \A j \in JobIds : jobs'[j] = new[j]
  BY <1>3, <1>4, <1>5
<1>9. jobs' = new
  BY <1>6, <1>7, <1>8
<1> QED
  BY <1>9 DEF new

\* The same of a job whose result is left alone.
LEMMA FinishedField ==
  ASSUME TypeOK, TypeOK', NEW k \in JobIds, NEW finished \in BOOLEAN,
         jobs'[k].state = jobs[k].state, jobs'[k].sid = jobs[k].sid,
         jobs'[k].finished = finished, jobs'[k].result = jobs[k].result,
         \A j \in JobIds \ {k} : jobs'[j] = jobs[j]
  PROVE  jobs' = [jobs EXCEPT ![k].finished = finished]
<1> DEFINE Doc == [state : {"none", "stored", "deleted"}, sid : SessionIds \cup {NoSession},
                   finished : BOOLEAN, result : BOOLEAN]
           new == [jobs EXCEPT ![k].finished = finished]
<1>1. jobs \in [JobIds -> Doc] /\ jobs' \in [JobIds -> Doc]
  BY DEF TypeOK
<1>2. jobs[k] \in Doc /\ jobs'[k] \in Doc
  BY <1>1
<1>3. jobs'[k] = [jobs[k] EXCEPT !.finished = finished]
  BY <1>2
<1>4. new[k] = [jobs[k] EXCEPT !.finished = finished]
  BY <1>1
<1>5. \A j \in JobIds \ {k} : new[j] = jobs[j]
  BY <1>1
<1>6. new = [j \in JobIds |-> new[j]]
  BY <1>1
<1>7. jobs' = [j \in JobIds |-> jobs'[j]]
  BY <1>1
<1> HIDE DEF new
<1>8. \A j \in JobIds : jobs'[j] = new[j]
  BY <1>3, <1>4, <1>5
<1>9. jobs' = new
  BY <1>6, <1>7, <1>8
<1> QED
  BY <1>9 DEF new

LEMMA SetIsUpdate ==
  ASSUME TypeOK, TypeOK', MethodHasJob, FilesInv, OwnersInv, NEW c \in Clients, Set(c),
         Stored(client[c].job)
  PROVE  Store!Next
<1>1. client[c].step = "set" /\ UNCHANGED <<files, condemned>>
  BY DEF Set, SetIn, Call, deleted
<1>2. PICK k \in JobIds, what \in Updates : k = client[c].job /\ what = client[c].what
  BY <1>1, CallJob DEF JobSteps, TypeOK, Method
<1>3. /\ Stored(k) /\ (what # "error" => ~jobs[k].finished)
      /\ what = "result" => <<k, "result">> \in files
      /\ jobs[k].result => jobs[k].finished
  BY <1>1, <1>2 DEF UpdaterOK, Updating, OwnersInv, DocumentOK
<1>4. \A j \in JobIds \ {k} : jobs'[j] = jobs[j]
  BY <1>2 DEF Set, SetIn
<1>5. Updated(k, what)
  BY <1>2, SetUpdates
<1>6. jobs[k].finished \in BOOLEAN /\ jobs[k].result \in BOOLEAN
  BY DEF TypeOK
<1>7. \A j \in JobIds \ {k} : Docs(j)' = Docs(j)
  BY <1>1, <1>4, DocsStay
<1>8. ASSUME what = "result" PROVE Store!SetResult(k)
  <2>1. ~jobs[k].finished /\ ~jobs[k].result
    BY <1>3, <1>8
  <2>2. /\ jobs'[k].state = jobs[k].state /\ jobs'[k].sid = jobs[k].sid
        /\ jobs'[k].finished = TRUE /\ jobs'[k].result = TRUE
    BY <1>3, <1>5, <1>8 DEF Updated, Stored
  <2>3. jobs' = [jobs EXCEPT ![k].finished = TRUE, ![k].result = TRUE]
    BY <1>4, <2>2, UpdatedField
  <2>4. Docs(k)' = Docs(k) \cup {"result"}
    BY <1>1, <1>3, <1>8, <2>1, <2>2, DocsOf DEF Stored
  <2> QED
    BY <1>1, <1>3, <1>7, <2>1, <2>3, <2>4 DEF Store!SetResult, Store!Stored, Stored
<1>9. ASSUME what # "result" PROVE \E finished \in BOOLEAN : Store!SetStatus(k, finished)
  <2>1. PICK finished \in BOOLEAN : finished = jobs'[k].finished
    BY DEF TypeOK
  <2>2. jobs[k].finished => finished
    BY <1>5, <1>6, <2>1 DEF Updated
  <2>3. /\ jobs'[k].state = jobs[k].state /\ jobs'[k].sid = jobs[k].sid
        /\ jobs'[k].finished = finished /\ jobs'[k].result = jobs[k].result
    BY <1>3, <1>5, <1>6, <1>9, <2>1 DEF Updated, Stored
  <2>4. jobs' = [jobs EXCEPT ![k].finished = finished]
    BY <1>4, <2>3, FinishedField
  <2>5. Docs(k)' = Docs(k)
    BY <1>1, <2>3, DocsOf DEF Stored
  <2>6. Store!SetStatus(k, finished)
    BY <1>1, <1>3, <1>7, <2>2, <2>4, <2>5 DEF Store!SetStatus, Store!Stored, Stored
  <2> QED
    BY <2>6
<1> QED
  BY <1>8, <1>9 DEF Store!Next

LEMMA CondemnStep ==
  ASSUME NEW j \in JobIds, NEW what, DeleteFilesOf(j, what), jobs[j].state # "none"
  PROVE  Store!Next
<1>1. \A k \in JobIds : Docs(k)' = Docs(k)
  BY DocsOf DEF DeleteFilesOf, Stored
<1>2. Store!Condemn(j)
  BY <1>1 DEF Store!Condemn, DeleteFilesOf
<1> QED
  BY <1>2 DEF Store!Next

LEMMA RemovalStep ==
  ASSUME NEW S \in SUBSET JobIds, UNCHANGED <<files, condemned>>,
         jobs' = [j \in JobIds |-> IF j \in S THEN [jobs[j] EXCEPT !.state = "deleted"]
                                              ELSE jobs[j]],
         TypeOK
  PROVE  Store!Remove(S)
<1>1. ASSUME NEW j \in S PROVE Docs(j)' = {}
  <2>1. jobs'[j].state = "deleted"
    BY DEF TypeOK
  <2> QED
    BY <2>1, DocsOf
<1>2. ASSUME NEW j \in JobIds \ S PROVE Docs(j)' = Docs(j)
  BY DocsOf DEF Stored
<1> QED
  BY <1>1, <1>2 DEF Store!Remove

LEMMA FileStep ==
  ASSUME TypeOK, FilesInv, NEW f \in doomed, FileDeleted(f)
  PROVE  Store!Next
<1>1. PICK k \in JobIds, x \in {"src", "result"} : f = <<k, x>>
  BY DEF TypeOK
<1>2. /\ k \in condemned /\ files' = files \ {<<k, x>>}
      /\ UNCHANGED <<jobs, condemned>>
  BY <1>1 DEF FilesInv, DoomedOK, FileDeleted, history, deleted
<1>3. Docs(k)' = Docs(k) \ {x}
  BY <1>2, DocsOf DEF Stored
<1>4. ASSUME NEW j \in JobIds \ {k} PROVE Docs(j)' = Docs(j)
  BY <1>2, DocsStay
<1>5. Store!Lose(k, x)
  BY <1>2, <1>3, <1>4 DEF Store!Lose
<1> QED
  BY <1>5 DEF Store!Next

\* Nobody reads a document whose upload was not followed by the update of its job.
LEMMA UploadIsHidden ==
  ASSUME TypeOK, MethodHasJob, FilesInv, OwnersInv, NEW c \in Clients,
         Upload(c) \/ UploadResult(c)
  PROVE  UNCHANGED Store!storeVars
<1> DEFINE k == client[c].job
<1>1. UNCHANGED <<jobs, condemned>>
  BY DEF Upload, UploadResult, deleted
<1>2. CASE Upload(c)
  <2>1. files' = files \cup {<<k, "src">>} /\ ~Stored(k)
    BY <1>2 DEF Upload, Call, FilesInv, ClientOK, AddSteps, Stored
  <2>2. ASSUME NEW j \in JobIds PROVE Docs(j)' = Docs(j)
    BY <1>1, <2>1, DocsStay
  <2> QED
    BY <1>1, <2>2 DEF Store!storeVars
<1>3. CASE UploadResult(c)
  <2>1. client[c].step = "upload_result" /\ files' = files \cup {<<k, "result">>}
    BY <1>3 DEF UploadResult, Call
  <2>2. k \in JobIds
    BY <2>1, CallJob DEF JobSteps
  <2>3. Stored(k) => ~jobs[k].result
    BY <2>1, <2>2 DEF UpdaterOK, UploaderOK, Updating, OwnersInv, DocumentOK
  <2>4. ASSUME NEW j \in JobIds PROVE Docs(j)' = Docs(j)
    BY <1>1, <2>1, <2>3, DocsStay
  <2> QED
    BY <1>1, <2>4 DEF Store!storeVars
<1> QED
  BY <1>2, <1>3

LEMMA NothingStored ==
  ASSUME UNCHANGED <<jobs, files, condemned>>
  PROVE  UNCHANGED Store!storeVars
<1>1. ASSUME NEW j \in JobIds PROVE Docs(j)' = Docs(j)
  BY DocsOf DEF Stored
<1> QED
  BY <1>1 DEF Store!storeVars

LEMMA StoreStep ==
  ASSUME TypeOK, MethodHasJob, FilesInv, OwnersInv, [Next]_vars
  PROVE  [Store!Next]_(Store!storeVars)
<1>0. NoSession \notin SessionIds /\ TypeOK'
  BY MongoAssumption, TypeStep
<1>1. ASSUME NEW c \in Clients, NEW j \in JobIds, BeginDelete(c, j)
      PROVE  [Store!Next]_(Store!storeVars)
  <2>1. \/ DeleteFilesOf(j, HasResult(j)) /\ jobs[j].state # "none"
        \/ UNCHANGED <<jobs, files, condemned>>
    BY <1>1 DEF BeginDelete, Stored, db, deleted
  <2> QED
    BY <2>1, CondemnStep, NothingStored
<1>2. ASSUME NEW c \in Clients, TouchDeleted(c) PROVE Store!Next
  <2>1. client[c].step = "touch_deleted" /\ DeleteFilesOf(client[c].job, client[c].what)
    BY <1>2 DEF TouchDeleted, Call
  <2>2. client[c].job \in JobIds /\ jobs[client[c].job].state # "none"
    BY <2>1, CallJob DEF JobSteps, FilesInv, ClientOK
  <2> QED
    BY <2>1, <2>2, CondemnStep
<1>3. ASSUME NEW c \in Clients, List(c) PROVE Store!Next
  <2>1. PICK j \in JobIds : DeleteFilesOf(j, HasResult(j)) /\ jobs[j].state # "none"
    BY <1>3 DEF List, SessionJobs, Stored
  <2> QED
    BY <2>1, CondemnStep
<1>4. ASSUME NEW c \in Clients, Set(c), ~Stored(client[c].job)
      PROVE  UNCHANGED <<jobs, files, condemned>>
  <2>1. ASSUME NEW j \in JobIds PROVE jobs'[j] = jobs[j]
    BY <1>4 DEF Set, SetIn
  <2> QED
    BY <1>4, <2>1 DEF Set, SetIn, deleted, TypeOK
<1>5. ASSUME NEW c \in Clients, DeleteOne(c) PROVE [Store!Next]_(Store!storeVars)
  <2> DEFINE k == client[c].job
  <2>1. /\ client[c].step = "delete_one" /\ UNCHANGED <<files, condemned>>
        /\ jobs' = [jobs EXCEPT ![k].state = IF @ = "stored" THEN "deleted" ELSE @]
    BY <1>5 DEF DeleteOne, Call, deleted
  <2>2. k \in JobIds /\ k \in condemned
    BY <2>1, CallJob DEF JobSteps, OwnersInv, DeleterOK
  <2>3. CASE Stored(k)
    <3>1. jobs' = [j \in JobIds |-> IF j \in {k} THEN [jobs[j] EXCEPT !.state = "deleted"]
                                                 ELSE jobs[j]]
      BY <2>1, <2>2, <2>3 DEF Stored, TypeOK
    <3>2. Store!Delete(k)
      BY <2>1, <2>2, <2>3, <3>1, RemovalStep DEF Store!Delete, Store!Stored, Stored
    <3> QED
      BY <2>2, <3>2 DEF Store!Next
  <2>4. CASE ~Stored(k)
    <3>1. jobs' = jobs
      BY <2>1, <2>2, <2>4 DEF Stored, TypeOK
    <3> QED
      BY <2>1, <3>1, NothingStored
  <2> QED
    BY <2>3, <2>4
<1>6. ASSUME NEW c \in Clients, DeleteMany(c) PROVE Store!Next
  <2> DEFINE S == SessionJobs(client[c].sid)
  <2>1. /\ client[c].step = "delete_many" /\ UNCHANGED <<files, condemned>>
        /\ jobs' = [j \in JobIds |-> IF j \in S THEN [jobs[j] EXCEPT !.state = "deleted"]
                                                ELSE jobs[j]]
    BY <1>6 DEF DeleteMany, Call, deleted
  <2>2. client[c].sid \in SessionIds
    BY <2>1 DEF OwnersInv, DeleterOK
  <2>3. Store!Remove(S)
    BY <2>1, RemovalStep DEF SessionJobs
  <2>4. Store!DeleteAllOf(client[c].sid)
    BY <2>3 DEF Store!DeleteAllOf, Store!Stored, SessionJobs, Stored
  <2> QED
    BY <2>2, <2>4 DEF Store!Next
<1>7. ASSUME NEW c \in Clients,
             \/ TouchAdded(c) \/ Count(c) \/ TouchUpdated(c) \/ Listed(c) \/ DeleteSession(c)
             \/ Read(c) \/ Interrupt(c)
      PROVE  UNCHANGED <<jobs, files, condemned>>
  BY <1>7 DEF TouchAdded, Count, TouchUpdated, Touch, Listed, DeleteSession, Read, Interrupt,
              Fault, db, deleted
<1>8. ASSUME NEW c \in Clients, Starts(c), \A j \in JobIds : ~BeginDelete(c, j)
      PROVE  UNCHANGED <<jobs, files, condemned>>
  BY <1>8 DEF Starts, BeginAdd, BeginUpdate, BeginFind, BeginDeleteSession, db, deleted
<1>9. CASE \/ \E s \in SessionIds : AddSession(s)
           \/ \E f \in doomed : DeletionFails(f)
           \/ UNCHANGED vars
  <2>1. UNCHANGED <<jobs, files, condemned>>
    BY <1>9 DEF AddSession, DeletionFails, Fault, vars, db, history, deleted
  <2> QED
    BY <2>1, NothingStored
<1>10. ASSUME NEW c \in Clients, Calls(c) \/ Interrupt(c)
       PROVE  [Store!Next]_(Store!storeVars)
  BY <1>0, <1>2, <1>3, <1>4, <1>5, <1>6, <1>7, <1>10, InsertIsAdd, SetIsUpdate, UploadIsHidden,
     NothingStored DEF Calls
<1>11. ASSUME NEW c \in Clients, Starts(c) PROVE [Store!Next]_(Store!storeVars)
  BY <1>1, <1>8, <1>11, NothingStored
<1> QED
  BY <1>9, <1>10, <1>11, FileStep DEF Next, Starts

(***************************************************************************)
(* The MongoDB adapter implements the store: whatever methods overlap, end *)
(* early or fail, jobs and the documents that readers get of them change   *)
(* as if each method were one step.                                        *)
(***************************************************************************)
THEOREM StoreImplemented == Spec => ImplementsStore
<1>1. Init => Store!Init
  <2> SUFFICES ASSUME Init PROVE Store!Init
    OBVIOUS
  <2>1. ASSUME NEW j \in JobIds PROVE Docs(j) = {}
    BY DocsOf DEF Init
  <2> QED
    BY <2>1 DEF Init, Store!Init, Store!Document, Document
<1> QED
  BY <1>1, StoreStep, FilesInvHolds, OwnersInvInit, OwnersInvStep, PTL
     DEF Spec, ImplementsStore, Store!Spec
=============================================================================
