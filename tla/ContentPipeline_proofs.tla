----------------------- MODULE ContentPipeline_proofs -----------------------
(***************************************************************************)
(* Safety of ContentPipeline for any set of contents, any number of        *)
(* workers and any number of deliveries: the type invariant, the inductive *)
(* invariant IInv, what follows from it, and the refinement of             *)
(* ContentCustody.                                                         *)
(***************************************************************************)
EXTENDS ContentPipeline, TLAPS

(* The actions of Next, each by its name. *)
RunAction(c, n) ==
  \/ zencoder_finishes(c, n) \/ zencoder_fails(c, n)
  \/ indexAction_unknown(c, n) \/ indexAction_encoder(c, n)
  \/ indexAction_content(c, n) \/ indexAction_dies(c, n)
  \/ zencoder_repeats(c, n) \/ zencoder_gives_up(c, n)

ContentAction(c) ==
  \/ acl_create(c) \/ acl_create_receive(c) \/ acl_create_flush(c)
  \/ acl_create_backgroundTask(c) \/ acl_create_dies(c) \/ work(c) \/ sendDataToCloud_find(c)
  \/ sendDataToCloud_uploading(c) \/ uploadFile(c)
  \/ sendDataToCloud_uploaded(c) \/ setACL(c) \/ jobs_create(c)
  \/ processData_flush(c) \/ worker_deleteLocalData(c) \/ work_returns(c)
  \/ worker_dies(c) \/ gearmand_restarts(c) \/ acl_delete(c)
  \/ deleteFile_ok(c) \/ deleteFile_throws(c) \/ acl_delete_row(c)
  \/ acl_delete_dies(c) \/ course_delete(c)

(* Next is one of these actions of one content. *)
LEMMA NextCases ==
  Next <=> \E c \in Contents : ContentAction(c) \/ \E n \in Runs : RunAction(c, n)
BY Zenon DEF Next, WebRequest, WorkerStep, Crash, Delete, Encoding, Notification,
   NotificationTrouble, ContentAction, RunAction

-----------------------------------------------------------------------------
(* Types at the start. *)
LEMMA InitType == Init => TypeOK
BY ConstantsAssumption DEF Init, TypeOK, Kinds, Statuses, WebSteps, JobSteps,
   DelSteps, Runs

(* Types after a step of a web request that uploads a file. *)
LEMMA TypeWeb ==
  ASSUME TypeOK, NEW c \in Contents,
         \/ acl_create(c) \/ acl_create_receive(c) \/ acl_create_flush(c)
         \/ acl_create_backgroundTask(c) \/ acl_create_dies(c)
  PROVE  TypeOK'
<1> USE DEF TypeOK, Statuses, WebSteps, JobSteps, Goto, Fault, dbVars,
      storeVars, encVars, delVars
<1>1. CASE acl_create(c) BY <1>1 DEF acl_create
<1>2. CASE acl_create_receive(c) BY <1>2 DEF acl_create_receive
<1>3. CASE acl_create_flush(c) BY <1>3 DEF acl_create_flush
<1>4. CASE acl_create_backgroundTask(c) BY <1>4 DEF acl_create_backgroundTask
<1>5. CASE acl_create_dies(c) BY <1>5 DEF acl_create_dies
<1>6. QED BY <1>1, <1>2, <1>3, <1>4, <1>5

(* Types after a step of a worker. *)
LEMMA TypeWorker ==
  ASSUME TypeOK, NEW c \in Contents,
         \/ work(c) \/ sendDataToCloud_find(c) \/ sendDataToCloud_uploading(c)
         \/ uploadFile(c) \/ sendDataToCloud_uploaded(c) \/ setACL(c)
         \/ jobs_create(c) \/ processData_flush(c)
         \/ worker_deleteLocalData(c) \/ work_returns(c)
         \/ worker_dies(c) \/ gearmand_restarts(c)
  PROVE  TypeOK'
<1> USE ConstantsAssumption DEF TypeOK, Statuses, JobSteps, Runs, Update, Goto,
      Fault, dbVars, storeVars, encVars, delVars
<1>1. CASE work(c) BY <1>1 DEF work
<1>2. CASE sendDataToCloud_find(c) BY <1>2 DEF sendDataToCloud_find
<1>3. CASE sendDataToCloud_uploading(c) BY <1>3 DEF sendDataToCloud_uploading
<1>4. CASE uploadFile(c) BY <1>4 DEF uploadFile
<1>5. CASE sendDataToCloud_uploaded(c) BY <1>5 DEF sendDataToCloud_uploaded
<1>6. CASE setACL(c) BY <1>6 DEF setACL
<1>7. CASE jobs_create(c)
  <2>1. enc' \in [Contents -> [Runs -> {"none", "processing", "finished", "failed"}]]
    <3>1. \/ enc' = [enc EXCEPT ![c][deliveries[c]] = "processing"]
          \/ enc' = enc
      BY <1>7, Zenon DEF jobs_create
    <3> DEFINE states == {"none", "processing", "finished", "failed"}
               run == [enc[c] EXCEPT ![deliveries[c]] = "processing"]
    <3>2. run \in [Runs -> states]
      OBVIOUS
    <3>3. enc \in [Contents -> [Runs -> states]]
      OBVIOUS
    <3>4. enc' = [enc EXCEPT ![c] = run] \/ enc' = enc
      BY <3>1
    <3> HIDE DEF run
    <3>5. QED BY <3>2, <3>3, <3>4
  <2>2. status' \in [Contents -> Statuses]
    BY <1>7 DEF jobs_create
  <2>3. job' \in [Contents -> JobSteps] /\ faulted' \subseteq Contents
    BY <1>7 DEF jobs_create
  <2>4. QED BY <1>7, <2>1, <2>2, <2>3 DEF jobs_create
<1>8. CASE processData_flush(c) BY <1>8 DEF processData_flush
<1>9. CASE worker_deleteLocalData(c) BY <1>9 DEF worker_deleteLocalData
<1>10. CASE work_returns(c) BY <1>10 DEF work_returns
<1>11. CASE worker_dies(c) BY <1>11 DEF worker_dies
<1>12. CASE gearmand_restarts(c) BY <1>12 DEF gearmand_restarts
<1>13. QED BY <1>1, <1>2, <1>3, <1>4, <1>5, <1>6, <1>7, <1>8, <1>9, <1>10,
               <1>11, <1>12

(* Types after a step of Zencoder or of a notification. *)
LEMMA TypeRun ==
  ASSUME TypeOK, NEW c \in Contents, NEW n \in Runs, RunAction(c, n)
  PROVE  TypeOK'
<1> USE DEF TypeOK, Statuses, Update, Fault, dbVars, storeVars, encVars, delVars
<1>1. CASE zencoder_finishes(c, n) BY <1>1 DEF zencoder_finishes
<1>2. CASE zencoder_fails(c, n) BY <1>2 DEF zencoder_fails
<1>3. CASE indexAction_unknown(c, n) BY <1>3 DEF indexAction_unknown
<1>4. CASE indexAction_encoder(c, n) BY <1>4 DEF indexAction_encoder
<1>5. CASE indexAction_content(c, n) BY <1>5 DEF indexAction_content
<1>6. CASE indexAction_dies(c, n) BY <1>6 DEF indexAction_dies
<1>7. CASE zencoder_repeats(c, n) BY <1>7 DEF zencoder_repeats
<1>8. CASE zencoder_gives_up(c, n) BY <1>8 DEF zencoder_gives_up
<1>9. QED BY <1>1, <1>2, <1>3, <1>4, <1>5, <1>6, <1>7, <1>8 DEF RunAction

(* Types after a step of a deletion. *)
LEMMA TypeDelete ==
  ASSUME TypeOK, NEW c \in Contents, Delete(c)
  PROVE  TypeOK'
<1> USE DEF TypeOK, Statuses, DelSteps, Update, Fault, dbVars, storeVars,
      encVars, delVars
<1>1. CASE acl_delete(c) BY <1>1 DEF acl_delete
<1>2. CASE deleteFile_ok(c) BY <1>2 DEF deleteFile_ok
<1>3. CASE deleteFile_throws(c) BY <1>3 DEF deleteFile_throws
<1>4. CASE acl_delete_row(c) BY <1>4 DEF acl_delete_row
<1>5. CASE acl_delete_dies(c) BY <1>5 DEF acl_delete_dies
<1>6. CASE course_delete(c) BY <1>6 DEF course_delete
<1>7. QED BY <1>1, <1>2, <1>3, <1>4, <1>5, <1>6 DEF Delete

(* Types after any step. *)
LEMMA NextType == TypeOK /\ [Next]_vars => TypeOK'
<1> SUFFICES ASSUME TypeOK, [Next]_vars PROVE TypeOK'
  OBVIOUS
<1>1. CASE UNCHANGED vars BY <1>1 DEF vars, TypeOK
<1>2. ASSUME NEW c \in Contents, ContentAction(c) PROVE TypeOK'
  BY <1>2, TypeWeb, TypeWorker, TypeDelete DEF ContentAction, Delete
<1>3. QED BY <1>1, <1>2, TypeRun, NextCases

(* Every reachable state is well typed, in particular the deliveries of a  *)
(* job never exceed their bound and every step is one of the code's steps. *)
THEOREM TypeCorrect == Spec => []TypeOK
BY InitType, NextType, PTL DEF Spec
-----------------------------------------------------------------------------
(* The inductive invariant.  The properties alone are not inductive: that  *)
(* the original survives a redelivery, for instance, depends on what the   *)
(* job has already done at each of its steps.  CInv(c) says it of one      *)
(* content; the contents only share the workers.                           *)

(* Only a request that ran to its end has queued a job. *)
JobAfterRequest(c) ==
  job[c] # "none" \/ (\E n \in Runs : enc[c][n] # "none") => web[c] = "done"

(* A worker holds the n-th delivery of the job, n >= 1. *)
RunInRange(c) == job[c] \in Running => deliveries[c] \in Runs

(* After the upload the object is in S3. *)
UploadedInS3(c) ==
  job[c] \in {"uploaded", "acl", "encode", "record", "cleanup"} /\ del[c] = "idle"
  => orig[c] # "none"

(* The worker cleans up after a video or audio only when it is recorded. *)
CleanupTracked(c) == job[c] = "cleanup" /\ IsMedia(c) => Tracked(c)

(* Only videos and audios are transcoded. *)
EncodedIsMedia(c) ==
  \/ job[c] \in {"encode", "record"} \/ conv[c] \/ \E n \in Runs : enc[c][n] # "none"
  => IsMedia(c)

(* A finished Zencoder job has left its output in S3. *)
FinishedIsStored(c) ==
  \A n \in Runs : enc[c][n] = "finished" /\ del[c] = "idle" => conv[c]

(* A notification that is being handled is one of a finished, recorded job.*)
HandlingIsFinished(c) ==
  \A n \in Runs :
    note[c][n] = "handling" => enc[c][n] = "finished" /\ rec[c][n] # "none"

(* The job has not been delivered, or its first delivery has not reached   *)
(* the step that can make the content ready.                               *)
FirstRun(c) ==
  \/ deliveries[c] = 0
  \/ /\ deliveries[c] = 1
     /\ \/ job[c] \in {"find", "uploading", "upload", "uploaded", "encode", "record"}
        \/ job[c] = "acl" /\ IsMedia(c)

FirstRunNotReady(c) == FirstRun(c) => status[c] # "ready"

(* A delivery has no queue_encoder row before its worker writes it. *)
FreshRun(c) ==
  \A n \in Runs :
    \/ deliveries[c] < n
    \/ /\ deliveries[c] = n
       /\ job[c] \in {"find", "uploading", "upload", "uploaded", "acl", "encode",
                     "record"}
    => rec[c][n] = "none"

(* A calm deletion: nothing comes back, and the objects go one by one. *)
CalmDeletion(c) ==
  c \in calm =>
    /\ Quiet(c) /\ del[c] # "idle" /\ (local[c] => ext[c] # named[c])
    /\ del[c] = "second" => kind[c] # "file"
    /\ del[c] = "second" => IF kind[c] = "audio" THEN ~conv[c] ELSE orig[c] = "none"
    /\ del[c] \in {"row", "done"} /\ (kind[c] # "audio" \/ c \notin faulted)
       => orig[c] = "none" /\ ~conv[c]

NeverLost(c) ==
  Received(c) /\ del[c] = "idle" => local[c] \/ orig[c] # "none"

Deliverable(c) ==
  status[c] = "ready" /\ del[c] = "idle" =>
    IF IsMedia(c) THEN conv[c] ELSE orig[c] # "none"

TranscodingTracked(c) == status[c] = "transcoding" => Tracked(c)

LocalKept(c) ==
  Received(c) /\ del[c] = "idle" /\ IsMedia(c) /\ ~local[c] => Tracked(c)

CInv(c) ==
  /\ JobAfterRequest(c)
  /\ RunInRange(c)
  /\ UploadedInS3(c)
  /\ CleanupTracked(c)
  /\ EncodedIsMedia(c)
  /\ FinishedIsStored(c)
  /\ HandlingIsFinished(c)
  /\ FirstRunNotReady(c)
  /\ FreshRun(c)
  /\ CalmDeletion(c)
  /\ NeverLost(c)
  /\ Deliverable(c)
  /\ TranscodingTracked(c)
  /\ LocalKept(c)

IInv == TypeOK /\ \A c \in Contents : CInv(c)

-----------------------------------------------------------------------------
(* The state of one content, and that only its own actions change it. *)
Same(c) ==
  /\ kind'[c] = kind[c] /\ named'[c] = named[c] /\ ext'[c] = ext[c]
  /\ status'[c] = status[c] /\ local'[c] = local[c]
  /\ orig'[c] = orig[c] /\ conv'[c] = conv[c] /\ web'[c] = web[c]
  /\ job'[c] = job[c] /\ deliveries'[c] = deliveries[c] /\ enc'[c] = enc[c]
  /\ rec'[c] = rec[c] /\ note'[c] = note[c] /\ del'[c] = del[c]
  /\ (c \in calm' <=> c \in calm) /\ (c \in faulted => c \in faulted')

(* A step that leaves a content alone keeps its invariant. *)
LEMMA Frame ==
  ASSUME NEW c \in Contents, CInv(c), Same(c)
  PROVE  CInv(c)'
BY DEF CInv, Same, JobAfterRequest, RunInRange, UploadedInS3, CleanupTracked, EncodedIsMedia,
   FinishedIsStored, HandlingIsFinished, FirstRun, FirstRunNotReady, FreshRun,
   CalmDeletion, NeverLost, Deliverable, TranscodingTracked, LocalKept,
   IsMedia, Tracked, Received, Quiet

(* A step acts on one content and leaves the others alone. *)
LEMMA Locality ==
  ASSUME TypeOK, NEW c \in Contents, NEW d \in Contents, c # d,
         ContentAction(c) \/ \E n \in Runs : RunAction(c, n)
  PROVE  Same(d)
<1> USE DEF TypeOK, Same, Update, Goto, Fault, dbVars, storeVars, encVars, delVars
<1>1. CASE ContentAction(c)
  <2>1. CASE acl_create(c) BY <2>1 DEF acl_create
  <2>2. CASE acl_create_receive(c) BY <2>2 DEF acl_create_receive
  <2>3. CASE acl_create_flush(c) BY <2>3 DEF acl_create_flush
  <2>4. CASE acl_create_backgroundTask(c) BY <2>4 DEF acl_create_backgroundTask
  <2>5. CASE acl_create_dies(c) BY <2>5 DEF acl_create_dies
  <2>6. CASE work(c) BY <2>6 DEF work
  <2>7. CASE sendDataToCloud_find(c) BY <2>7 DEF sendDataToCloud_find
  <2>8. CASE sendDataToCloud_uploading(c) BY <2>8 DEF sendDataToCloud_uploading
  <2>9. CASE uploadFile(c) BY <2>9 DEF uploadFile
  <2>10. CASE sendDataToCloud_uploaded(c) BY <2>10 DEF sendDataToCloud_uploaded
  <2>11. CASE setACL(c) BY <2>11 DEF setACL
  <2>12. CASE jobs_create(c) BY <2>12 DEF jobs_create
  <2>13. CASE processData_flush(c) BY <2>13 DEF processData_flush
  <2>14. CASE worker_deleteLocalData(c) BY <2>14 DEF worker_deleteLocalData
  <2>15. CASE work_returns(c) BY <2>15 DEF work_returns
  <2>16. CASE worker_dies(c) BY <2>16 DEF worker_dies
  <2>17. CASE gearmand_restarts(c) BY <2>17 DEF gearmand_restarts
  <2>18. CASE acl_delete(c) BY <2>18 DEF acl_delete
  <2>19. CASE deleteFile_ok(c) BY <2>19 DEF deleteFile_ok
  <2>20. CASE deleteFile_throws(c) BY <2>20 DEF deleteFile_throws
  <2>21. CASE acl_delete_row(c) BY <2>21 DEF acl_delete_row
  <2>22. CASE acl_delete_dies(c) BY <2>22 DEF acl_delete_dies
  <2>23. CASE course_delete(c) BY <2>23 DEF course_delete
  <2>24. QED BY <1>1, <2>1, <2>2, <2>3, <2>4, <2>5, <2>6, <2>7, <2>8, <2>9,
                <2>10, <2>11, <2>12, <2>13, <2>14, <2>15, <2>16, <2>17, <2>18,
                <2>19, <2>20, <2>21, <2>22, <2>23 DEF ContentAction
<1>2. ASSUME NEW n \in Runs, RunAction(c, n) PROVE Same(d)
 
    BY <1>2 DEF RunAction, zencoder_finishes, zencoder_fails,
       indexAction_unknown, indexAction_encoder, indexAction_content,
       indexAction_dies, zencoder_repeats, zencoder_gives_up
<1>3. QED BY <1>1, <1>2

(* The web request. *)
LEMMA WebKeeps ==
  ASSUME TypeOK, NEW c \in Contents, CInv(c),
         \/ acl_create(c)
         \/ acl_create_receive(c)
         \/ acl_create_flush(c)
         \/ acl_create_backgroundTask(c)
         \/ acl_create_dies(c)
  PROVE  CInv(c)'
<1> USE ConstantsAssumption DEF TypeOK, CInv, JobAfterRequest, RunInRange, UploadedInS3,
      CleanupTracked, EncodedIsMedia, FinishedIsStored, HandlingIsFinished,
      FirstRun, FirstRunNotReady, FreshRun, CalmDeletion, NeverLost,
      Deliverable, TranscodingTracked, LocalKept, IsMedia, Tracked, Received,
      Quiet, Present, Running, JobSteps, Runs, Update, Goto, Fault, dbVars, storeVars, encVars,
      delVars
<1>1. CASE acl_create(c) BY <1>1 DEF acl_create
<1>2. CASE acl_create_receive(c) BY <1>2 DEF acl_create_receive
<1>3. CASE acl_create_flush(c) BY <1>3 DEF acl_create_flush
<1>4. CASE acl_create_backgroundTask(c) BY <1>4 DEF acl_create_backgroundTask
<1>5. CASE acl_create_dies(c) BY <1>5 DEF acl_create_dies
<1>6. QED BY <1>1, <1>2, <1>3, <1>4, <1>5

(* The worker and its queue. *)
LEMMA WorkerKeeps ==
  ASSUME TypeOK, NEW c \in Contents, CInv(c),
         \/ work(c)
         \/ sendDataToCloud_find(c)
         \/ sendDataToCloud_uploading(c)
         \/ uploadFile(c)
         \/ sendDataToCloud_uploaded(c)
         \/ setACL(c)
         \/ jobs_create(c)
         \/ processData_flush(c)
         \/ worker_deleteLocalData(c)
         \/ work_returns(c)
         \/ worker_dies(c)
         \/ gearmand_restarts(c)
  PROVE  CInv(c)'
<1> USE ConstantsAssumption DEF TypeOK, CInv, JobAfterRequest, RunInRange, UploadedInS3,
      CleanupTracked, EncodedIsMedia, FinishedIsStored, HandlingIsFinished,
      FirstRun, FirstRunNotReady, FreshRun, CalmDeletion, NeverLost,
      Deliverable, TranscodingTracked, LocalKept, IsMedia, Tracked, Received,
      Quiet, Present, Running, JobSteps, Runs, Update, Goto, Fault, dbVars, storeVars, encVars,
      delVars
<1>1. CASE work(c) BY <1>1 DEF work
<1>2. CASE sendDataToCloud_find(c) BY <1>2 DEF sendDataToCloud_find
<1>3. CASE sendDataToCloud_uploading(c) BY <1>3 DEF sendDataToCloud_uploading
<1>4. CASE uploadFile(c) BY <1>4 DEF uploadFile
<1>5. CASE sendDataToCloud_uploaded(c) BY <1>5 DEF sendDataToCloud_uploaded
<1>6. CASE setACL(c) BY <1>6 DEF setACL
<1>7. CASE jobs_create(c)
  <2>1. deliveries[c] \in Runs /\ IsMedia(c) /\ job[c] = "encode"
    BY <1>7 DEF jobs_create
  <2>2. CASE /\ enc' = [enc EXCEPT ![c][deliveries[c]] = "processing"]
             /\ Goto(c, "record")
             /\ UNCHANGED <<status, faulted>>
    <3>1. \A n \in Runs :
            enc'[c][n] = IF n = deliveries[c] THEN "processing" ELSE enc[c][n]
      BY <2>1, <2>2
    <3>2. /\ job'[c] = "record"
          /\ UNCHANGED <<kind, named, status, ext, local, orig, conv, web, deliveries, rec,
                         note, del, calm, faulted>>
      BY <1>7, <2>2 DEF jobs_create
    <3>3. c \notin calm
      BY <2>1
    <3> HIDE DEF TypeOK, Goto, CInv
    <3>4. /\ JobAfterRequest(c)' /\ RunInRange(c)' /\ UploadedInS3(c)'
          /\ CleanupTracked(c)' /\ EncodedIsMedia(c)'
      BY <2>1, <3>2 DEF CInv
    <3>5. FinishedIsStored(c)'
      BY <3>1, <3>2 DEF CInv
    <3>6. HandlingIsFinished(c)'
      BY <2>1, <3>1, <3>2 DEF CInv
    <3>7. FirstRunNotReady(c)' /\ FreshRun(c)' /\ CalmDeletion(c)'
      BY <2>1, <3>2, <3>3 DEF CInv
    <3>8. NeverLost(c)' /\ Deliverable(c)' /\ TranscodingTracked(c)' /\ LocalKept(c)'
      BY <2>1, <3>2 DEF CInv
    <3>9. QED BY <3>4, <3>5, <3>6, <3>7, <3>8 DEF CInv
  <2>3. CASE Goto(c, "finish") /\ Fault(c) /\ UNCHANGED <<status, enc>>
    BY <1>7, <2>1, <2>3 DEF jobs_create
  <2>4. CASE /\ Update(c, "error") /\ Fault(c) /\ UNCHANGED enc
             /\ \/ Goto(c, "finish")
                \/ deliveries[c] < MaxDeliveries /\ Goto(c, "queued")
    BY <1>7, <2>1, <2>4 DEF jobs_create
  <2>5. QED BY <1>7, <2>2, <2>3, <2>4, Zenon DEF jobs_create
<1>8. CASE processData_flush(c) BY <1>8 DEF processData_flush
<1>9. CASE worker_deleteLocalData(c) BY <1>9 DEF worker_deleteLocalData
<1>10. CASE work_returns(c) BY <1>10 DEF work_returns
<1>11. CASE worker_dies(c) BY <1>11 DEF worker_dies
<1>12. CASE gearmand_restarts(c) BY <1>12 DEF gearmand_restarts
<1>13. QED BY <1>1, <1>2, <1>3, <1>4, <1>5, <1>6, <1>7, <1>8, <1>9, <1>10,
              <1>11, <1>12

(* Zencoder and its notifications. *)
LEMMA RunKeeps ==
  ASSUME TypeOK, NEW c \in Contents, NEW n \in Runs, CInv(c),
         \/ zencoder_finishes(c, n)
         \/ zencoder_fails(c, n)
         \/ indexAction_unknown(c, n)
         \/ indexAction_encoder(c, n)
         \/ indexAction_content(c, n)
         \/ indexAction_dies(c, n)
         \/ zencoder_repeats(c, n)
         \/ zencoder_gives_up(c, n)
  PROVE  CInv(c)'
<1> USE ConstantsAssumption DEF TypeOK, CInv, JobAfterRequest, RunInRange, UploadedInS3,
      CleanupTracked, EncodedIsMedia, FinishedIsStored, HandlingIsFinished,
      FirstRun, FirstRunNotReady, FreshRun, CalmDeletion, NeverLost,
      Deliverable, TranscodingTracked, LocalKept, IsMedia, Tracked, Received,
      Quiet, Present, Running, JobSteps, Runs, Update, Goto, Fault, dbVars, storeVars, encVars,
      delVars
<1>1. CASE zencoder_finishes(c, n) BY <1>1 DEF zencoder_finishes
<1>2. CASE zencoder_fails(c, n) BY <1>2 DEF zencoder_fails
<1>3. CASE indexAction_unknown(c, n) BY <1>3 DEF indexAction_unknown
<1>4. CASE indexAction_encoder(c, n) BY <1>4 DEF indexAction_encoder
<1>5. CASE indexAction_content(c, n) BY <1>5 DEF indexAction_content
<1>6. CASE indexAction_dies(c, n) BY <1>6 DEF indexAction_dies
<1>7. CASE zencoder_repeats(c, n) BY <1>7 DEF zencoder_repeats
<1>8. CASE zencoder_gives_up(c, n) BY <1>8 DEF zencoder_gives_up
<1>9. QED BY <1>1, <1>2, <1>3, <1>4, <1>5, <1>6, <1>7, <1>8

(* Deletion. *)
LEMMA DeleteKeeps ==
  ASSUME TypeOK, NEW c \in Contents, CInv(c),
         \/ acl_delete(c)
         \/ deleteFile_ok(c)
         \/ deleteFile_throws(c)
         \/ acl_delete_row(c)
         \/ acl_delete_dies(c)
         \/ course_delete(c)
  PROVE  CInv(c)'
<1> USE ConstantsAssumption DEF TypeOK, CInv, JobAfterRequest, RunInRange, UploadedInS3,
      CleanupTracked, EncodedIsMedia, FinishedIsStored, HandlingIsFinished,
      FirstRun, FirstRunNotReady, FreshRun, CalmDeletion, NeverLost,
      Deliverable, TranscodingTracked, LocalKept, IsMedia, Tracked, Received,
      Quiet, Present, Running, JobSteps, Runs, Update, Goto, Fault, dbVars, storeVars, encVars,
      delVars
<1>1. CASE acl_delete(c) BY <1>1 DEF acl_delete
<1>2. CASE deleteFile_ok(c)
  <2>1. CASE del[c] = OrigAt(c)
    BY <1>2, <2>1 DEF deleteFile_ok, OrigAt, Kinds
  <2>2. CASE del[c] # OrigAt(c)
    BY <1>2, <2>2 DEF deleteFile_ok, OrigAt, Kinds
  <2>3. QED BY <2>1, <2>2
<1>3. CASE deleteFile_throws(c) BY <1>3 DEF deleteFile_throws
<1>4. CASE acl_delete_row(c) BY <1>4 DEF acl_delete_row
<1>5. CASE acl_delete_dies(c) BY <1>5 DEF acl_delete_dies
<1>6. CASE course_delete(c) BY <1>6 DEF course_delete
<1>7. QED BY <1>1, <1>2, <1>3, <1>4, <1>5, <1>6

-----------------------------------------------------------------------------
(* The inductive invariant holds at the start. *)
LEMMA InitIInv == Init => IInv
<1> SUFFICES ASSUME Init, NEW c \in Contents PROVE CInv(c)
  BY InitType DEF IInv
<1> QED
 
    BY ConstantsAssumption DEF Init, CInv, JobAfterRequest, RunInRange,
       UploadedInS3,
     CleanupTracked, EncodedIsMedia, FinishedIsStored, HandlingIsFinished, FirstRun,
     FirstRunNotReady, FreshRun, CalmDeletion, NeverLost, Deliverable,
     TranscodingTracked, LocalKept, IsMedia, Tracked, Received, Quiet, Running,
     JobSteps, Runs

(* Every step keeps the inductive invariant. *)
LEMMA NextIInv == IInv /\ [Next]_vars => IInv'
<1> SUFFICES ASSUME IInv, [Next]_vars PROVE IInv'
  OBVIOUS
<1>1. TypeOK /\ TypeOK'
  BY NextType DEF IInv
<1>2. CASE UNCHANGED vars
  <2> SUFFICES ASSUME NEW c \in Contents PROVE CInv(c)'
    BY <1>1 DEF IInv
  <2>1. CInv(c) /\ Same(c)
    BY <1>2 DEF IInv, Same, vars
  <2>2. QED BY <2>1, Frame
<1>3. ASSUME NEW c \in Contents, NEW d \in Contents,
             ContentAction(c) \/ \E n \in Runs : RunAction(c, n)
      PROVE  CInv(d)'
  <2>1. CInv(c) /\ CInv(d)
    BY DEF IInv
  <2>2. CASE c # d
    BY <1>1, <1>3, <2>1, <2>2, Locality, Frame
  <2>3. CASE c = d /\ ContentAction(c)
    BY <1>1, <2>1, <2>3, WebKeeps, WorkerKeeps, DeleteKeeps DEF ContentAction
  <2>4. ASSUME NEW n \in Runs, RunAction(c, n), c = d PROVE CInv(d)'
    BY <1>1, <2>1, <2>4, RunKeeps DEF RunAction
  <2>5. QED BY <1>3, <2>2, <2>3, <2>4
<1>4. QED BY <1>1, <1>2, <1>3, NextCases DEF IInv

(* The inductive invariant holds in every reachable state. *)
THEOREM Invariance == Spec => []IInv
BY InitIInv, NextIInv, PTL DEF Spec

(* No crash, failure or redelivery loses the only copy of an upload. *)
THEOREM NeverLostCorrect == Spec => []OriginalNeverLost
<1>1. IInv => OriginalNeverLost
  BY DEF IInv, CInv, NeverLost, OriginalNeverLost
<1>2. QED BY <1>1, Invariance, PTL

(* Content shown as ready has the object its download link names. *)
THEOREM ReadyCorrect == Spec => []ReadyIsStored
<1>1. IInv => ReadyIsStored
  BY DEF IInv, CInv, Deliverable, ReadyIsStored
<1>2. QED BY <1>1, Invariance, PTL

(* A content in transcoding can be found by a notification. *)
THEOREM TrackedCorrect == Spec => []TranscodingIsTracked
<1>1. IInv => TranscodingIsTracked
  BY DEF IInv, CInv, TranscodingTracked, TranscodingIsTracked
<1>2. QED BY <1>1, Invariance, PTL

(* The local copy is kept until the transcoding job is recorded. *)
THEOREM LocalKeptCorrect == Spec => []LocalKeptUntilTracked
<1>1. IInv => LocalKeptUntilTracked
  BY DEF IInv, CInv, LocalKept, LocalKeptUntilTracked
<1>2. QED BY <1>1, Invariance, PTL

(* A deletion that began with nothing under way leaves no copy behind. *)
THEOREM CalmDeleteCorrect == Spec => []CalmDeleteLeavesNothing
<1>1. IInv => CalmDeleteLeavesNothing
  BY DEF IInv, TypeOK, CInv, CalmDeletion, CalmDeleteLeavesNothing
<1>2. QED BY <1>1, Invariance, PTL

-----------------------------------------------------------------------------
(* What one step of one content may do to its status. *)
LEMMA ReadyStep ==
  ASSUME IInv, NEW c \in Contents, status[c] = "ready", deliveries'[c] = 1,
         ContentAction(c) \/ \E n \in Runs : RunAction(c, n)
  PROVE  status'[c] \in {"ready", "deleted"}
<1> USE DEF IInv, TypeOK, CInv, FirstRun, FirstRunNotReady, EncodedIsMedia, IsMedia,
      Update, Goto, Present, dbVars
<1>1. CASE ContentAction(c)
  <2> CInv(c)
    OBVIOUS
  <2>1. CASE acl_create(c) BY <2>1 DEF acl_create
  <2>2. CASE acl_create_receive(c) BY <2>2 DEF acl_create_receive
  <2>3. CASE acl_create_flush(c) BY <2>3 DEF acl_create_flush
  <2>4. CASE acl_create_backgroundTask(c) BY <2>4 DEF acl_create_backgroundTask
  <2>5. CASE acl_create_dies(c) BY <2>5 DEF acl_create_dies
  <2>6. CASE work(c) BY <2>6 DEF work
  <2>7. CASE sendDataToCloud_find(c) BY <2>7 DEF sendDataToCloud_find
  <2>8. CASE sendDataToCloud_uploading(c) BY <2>8 DEF sendDataToCloud_uploading
  <2>9. CASE uploadFile(c) BY <2>9 DEF uploadFile
  <2>10. CASE sendDataToCloud_uploaded(c) BY <2>10 DEF sendDataToCloud_uploaded
  <2>11. CASE setACL(c) BY <2>11 DEF setACL
  <2>12. CASE jobs_create(c) BY <2>12 DEF jobs_create
  <2>13. CASE processData_flush(c) BY <2>13 DEF processData_flush
  <2>14. CASE worker_deleteLocalData(c) BY <2>14 DEF worker_deleteLocalData
  <2>15. CASE work_returns(c) BY <2>15 DEF work_returns
  <2>16. CASE worker_dies(c) BY <2>16 DEF worker_dies
  <2>17. CASE gearmand_restarts(c) BY <2>17 DEF gearmand_restarts
  <2>18. CASE acl_delete(c) BY <2>18 DEF acl_delete
  <2>19. CASE deleteFile_ok(c) BY <2>19 DEF deleteFile_ok
  <2>20. CASE deleteFile_throws(c) BY <2>20 DEF deleteFile_throws
  <2>21. CASE acl_delete_row(c) BY <2>21 DEF acl_delete_row
  <2>22. CASE acl_delete_dies(c) BY <2>22 DEF acl_delete_dies
  <2>23. CASE course_delete(c) BY <2>23 DEF course_delete
  <2>24. QED BY <1>1, <2>1, <2>2, <2>3, <2>4, <2>5, <2>6, <2>7, <2>8, <2>9,
                <2>10, <2>11, <2>12, <2>13, <2>14, <2>15, <2>16, <2>17, <2>18,
                <2>19, <2>20, <2>21, <2>22, <2>23 DEF ContentAction
<1>2. ASSUME NEW n \in Runs, RunAction(c, n) PROVE status'[c] \in {"ready", "deleted"}
 
    BY <1>2 DEF RunAction, zencoder_finishes, zencoder_fails,
       indexAction_unknown, indexAction_encoder, indexAction_content,
       indexAction_dies, zencoder_repeats, zencoder_gives_up
<1>3. QED BY <1>1, <1>2

(* Without a redelivery, only deletion takes "ready" back. *)
THEOREM ReadyFinalCorrect == Spec => ReadyIsFinal
<1> DEFINE Final ==
      \A c \in Contents :
        status[c] = "ready" /\ deliveries'[c] = 1 =>
          status'[c] \in {"ready", "deleted"}
<1>1. ASSUME IInv, [Next]_vars PROVE [Final]_vars
  <2>1. ASSUME NEW c \in Contents, NEW d \in Contents,
               status[d] = "ready", deliveries'[d] = 1,
               ContentAction(c) \/ \E n \in Runs : RunAction(c, n)
        PROVE  status'[d] \in {"ready", "deleted"}
    <3>1. CASE c = d
      BY <1>1, <2>1, <3>1, ReadyStep
    <3>2. CASE c # d
      <4>1. Same(d)
        BY <1>1, <2>1, <3>2, Locality DEF IInv
      <4>2. QED BY <2>1, <4>1 DEF Same
    <3>3. QED BY <3>1, <3>2
  <2>2. QED BY <1>1, <2>1, NextCases
<1>2. QED BY <1>1, Invariance, PTL DEF Spec, ReadyIsFinal

-----------------------------------------------------------------------------
(* Refinement: what a step of ContentPipeline may do to the custody and    *)
(* the visibility of the content that takes it.                            *)
Seen(c) == status[c] = "ready"

Custodian(c) ==
  IF del[c] # "idle" THEN "released"
  ELSE IF ~Received(c) THEN "none"
  ELSE IF local[c] \/ orig[c] # "none" THEN "held" ELSE "lost"

AbstractStep(c) ==
  \/ Custodian(c)' = Custodian(c) /\ Seen(c)' = Seen(c)
  \/ Custodian(c) = "none" /\ Custodian(c)' = "held" /\ Seen(c)' = Seen(c)
  \/ Custodian(c)' = Custodian(c) /\ Custodian(c) # "none" /\ Seen(c)' /\ ~Seen(c)
  \/ Custodian(c)' = Custodian(c) /\ ~Seen(c)' /\ Seen(c)
  \/ /\ Custodian(c) # "released" /\ Custodian(c)' = "released"
     /\ Seen(c)' = Seen(c) \/ ~Seen(c)'

(* What a step on a content may do to where its file is and to who sees it. *)
LEMMA ActorStep ==
  ASSUME IInv, IInv', NEW c \in Contents,
         ContentAction(c) \/ \E n \in Runs : RunAction(c, n)
  PROVE  AbstractStep(c)
<1>1. /\ TypeOK /\ NeverLost(c) /\ NeverLost(c)'
      /\ JobAfterRequest(c) /\ HandlingIsFinished(c)
  BY DEF IInv, CInv
<1> USE <1>1 DEF TypeOK, NeverLost, JobAfterRequest, HandlingIsFinished, AbstractStep,
      Seen, Custodian, Received, Update, Goto, Present, dbVars, storeVars, encVars,
      delVars
<1>2. CASE ContentAction(c)
  <2>1. CASE acl_create(c) BY <2>1 DEF acl_create
  <2>2. CASE acl_create_receive(c) BY <2>2 DEF acl_create_receive
  <2>3. CASE acl_create_flush(c) BY <2>3 DEF acl_create_flush
  <2>4. CASE acl_create_backgroundTask(c) BY <2>4 DEF acl_create_backgroundTask
  <2>5. CASE acl_create_dies(c) BY <2>5 DEF acl_create_dies
  <2>6. CASE work(c) BY <2>6 DEF work
  <2>7. CASE sendDataToCloud_find(c) BY <2>7 DEF sendDataToCloud_find
  <2>8. CASE sendDataToCloud_uploading(c) BY <2>8 DEF sendDataToCloud_uploading
  <2>9. CASE uploadFile(c) BY <2>9 DEF uploadFile
  <2>10. CASE sendDataToCloud_uploaded(c) BY <2>10 DEF sendDataToCloud_uploaded
  <2>11. CASE setACL(c) BY <2>11 DEF setACL
  <2>12. CASE jobs_create(c) BY <2>12 DEF jobs_create
  <2>13. CASE processData_flush(c) BY <2>13 DEF processData_flush
  <2>14. CASE worker_deleteLocalData(c) BY <2>14 DEF worker_deleteLocalData
  <2>15. CASE work_returns(c) BY <2>15 DEF work_returns
  <2>16. CASE worker_dies(c) BY <2>16 DEF worker_dies
  <2>17. CASE gearmand_restarts(c) BY <2>17 DEF gearmand_restarts
  <2>18. CASE acl_delete(c) BY <2>18 DEF acl_delete
  <2>19. CASE deleteFile_ok(c) BY <2>19 DEF deleteFile_ok
  <2>20. CASE deleteFile_throws(c) BY <2>20 DEF deleteFile_throws
  <2>21. CASE acl_delete_row(c) BY <2>21 DEF acl_delete_row
  <2>22. CASE acl_delete_dies(c) BY <2>22 DEF acl_delete_dies
  <2>23. CASE course_delete(c) BY <2>23 DEF course_delete
  <2>24. QED BY <1>2, <2>1, <2>2, <2>3, <2>4, <2>5, <2>6, <2>7, <2>8, <2>9,
                <2>10, <2>11, <2>12, <2>13, <2>14, <2>15, <2>16, <2>17, <2>18,
                <2>19, <2>20, <2>21, <2>22, <2>23 DEF ContentAction
<1>3. ASSUME NEW n \in Runs, RunAction(c, n) PROVE AbstractStep(c)
  <2>1. CASE zencoder_finishes(c, n) BY <2>1 DEF zencoder_finishes
  <2>2. CASE zencoder_fails(c, n) BY <2>2 DEF zencoder_fails
  <2>3. CASE indexAction_unknown(c, n) BY <2>3 DEF indexAction_unknown
  <2>4. CASE indexAction_encoder(c, n) BY <2>4 DEF indexAction_encoder
  <2>5. CASE indexAction_content(c, n) BY <2>5 DEF indexAction_content
  <2>6. CASE indexAction_dies(c, n) BY <2>6 DEF indexAction_dies
  <2>7. CASE zencoder_repeats(c, n) BY <2>7 DEF zencoder_repeats
  <2>8. CASE zencoder_gives_up(c, n) BY <2>8 DEF zencoder_gives_up
  <2>9. QED BY <1>3, <2>1, <2>2, <2>3, <2>4, <2>5, <2>6, <2>7, <2>8 DEF RunAction
<1>4. QED BY <1>2, <1>3

(* Such a step is a step of ContentCustody, or stutters there. *)
LEMMA MapsToCustody ==
  ASSUME NEW c \in Contents, AbstractStep(c),
         \A d \in Contents \ {c} : Custodian(d)' = Custodian(d) /\ Seen(d)' = Seen(d)
  PROVE  [Custody!Next]_(Custody!vars)
<1>1. /\ custody = [d \in Contents |-> Custodian(d)]
      /\ custody' = [d \in Contents |-> Custodian(d)']
      /\ viewable = [d \in Contents |-> Seen(d)]
      /\ viewable' = [d \in Contents |-> Seen(d)']
      /\ \A d \in Contents : Seen(d) \in BOOLEAN /\ Seen(d)' \in BOOLEAN
  BY DEF custody, viewable, Custodian, Seen
<1> HIDE DEF Custodian, Seen
<1>2. CASE Custodian(c)' = Custodian(c) /\ Seen(c)' = Seen(c)
  BY <1>1, <1>2 DEF Custody!vars
<1>3. CASE Custodian(c) = "none" /\ Custodian(c)' = "held" /\ Seen(c)' = Seen(c)
  BY <1>1, <1>3 DEF Custody!Next, Custody!Accept
<1>4. CASE Custodian(c)' = Custodian(c) /\ Custodian(c) # "none" /\ Seen(c)' /\ ~Seen(c)
  BY <1>1, <1>4 DEF Custody!Next, Custody!Offer
<1>5. CASE Custodian(c)' = Custodian(c) /\ ~Seen(c)' /\ Seen(c)
  BY <1>1, <1>5 DEF Custody!Next, Custody!Withdraw
<1>6. CASE /\ Custodian(c) # "released" /\ Custodian(c)' = "released"
           /\ Seen(c)' = Seen(c) \/ ~Seen(c)'
  BY <1>1, <1>6 DEF Custody!Next, Custody!Release
<1>7. QED BY <1>2, <1>3, <1>4, <1>5, <1>6 DEF AbstractStep

(* Every behaviour of the pipeline is one of ContentCustody. *)
THEOREM CustodyCorrect == Spec => ImplementsCustody
<1>1. Init => Custody!Init
  <2> SUFFICES ASSUME Init PROVE Custody!Init
    OBVIOUS
  <2>1. custody = [c \in Contents |-> "none"]
    BY DEF Init, custody, Received
  <2>2. viewable = [c \in Contents |-> FALSE]
    <3>1. \A c \in Contents : status[c] # "ready"
      BY DEF Init
    <3>2. QED BY <3>1, Zenon DEF viewable
  <2>3. QED BY <2>1, <2>2 DEF Custody!Init
<1>2. ASSUME IInv, IInv', [Next]_vars PROVE [Custody!Next]_(Custody!vars)
  <2>1. CASE UNCHANGED vars
    BY <2>1 DEF vars, Custody!vars, custody, viewable, Received
  <2>2. ASSUME NEW c \in Contents,
               ContentAction(c) \/ \E n \in Runs : RunAction(c, n)
        PROVE  [Custody!Next]_(Custody!vars)
    <3>1. AbstractStep(c)
      BY <1>2, <2>2, ActorStep
    <3>2. ASSUME NEW d \in Contents \ {c}
          PROVE  Custodian(d)' = Custodian(d) /\ Seen(d)' = Seen(d)
      <4>1. Same(d)
        BY <1>2, <2>2, Locality DEF IInv
      <4>2. QED BY <4>1 DEF Same, Custodian, Seen, Received
    <3>3. QED BY <3>1, <3>2, MapsToCustody
  <2>3. QED BY <1>2, <2>1, <2>2, NextCases
<1>3. QED BY <1>1, <1>2, Invariance, PTL DEF Spec, ImplementsCustody, Custody!Spec
====
