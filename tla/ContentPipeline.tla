-------------------------- MODULE ContentPipeline --------------------------
(***************************************************************************)
(* The life of one uploaded course content (video, audio or file): the web *)
(* request that creates it, the Gearman job that sends it to S3 and has    *)
(* it transcoded, the Zencoder notification that makes it "ready", and its *)
(* deletion.                                                               *)
(*                                                                         *)
(* Code: App\Service\Content\{Video,Audio,File}, Gearman\DEP\Content\*,    *)
(* App\Service\Core\Cloud, Notification_ZencoderController.                *)
(*                                                                         *)
(* An atomic step is the code between two effects that another process     *)
(* can see: a Doctrine flush (one transaction), a call to S3, to Zencoder  *)
(* or to Gearman, a change of the shared directory.  Doctrine updates only *)
(* changed columns, WHERE id = ..: on a row deleted meanwhile it writes    *)
(* nothing and reports nothing, and the worker's entity manager keeps      *)
(* returning the entity it loaded (Update below).                          *)
(***************************************************************************)
EXTENDS Naturals, FiniteSets

CONSTANTS
  Contents,        \* identifiers of the content rows
  NumWorkers,      \* Gearman workers (supervisord: numprocs=1)
  MaxDeliveries    \* bound: times Gearman hands out the job of one content

ASSUME ConstantsAssumption ==
  /\ NumWorkers \in Nat \ {0}
  /\ MaxDeliveries \in Nat \ {0}

(* The n-th delivery of a job creates at most one Zencoder job, so the     *)
(* Zencoder jobs of a content are numbered by the delivery.                *)
Runs == 1 .. MaxDeliveries

Kinds    == {"video", "audio", "file"}
Statuses == {"absent", "new", "uploading", "uploaded", "transcoding",
             "ready", "error", "deleted"}
WebSteps == {"idle", "receive", "store", "enqueue", "done", "aborted"}
JobSteps == {"none", "queued", "find", "uploading", "upload", "uploaded",
             "acl", "encode", "record", "cleanup", "finish", "done"}
DelSteps == {"idle", "first", "second", "row", "failed", "done", "course"}

(* Steps of a job a worker is executing. *)
Running == JobSteps \ {"none", "queued", "done"}

VARIABLES
  kind,        \* [Contents -> Kinds]: the discriminator of the row
  named,       \* TRUE: the uploaded file's name has an extension
  status,      \* the status column; "absent"/"deleted": there is no row
  ext,         \* TRUE: the column original_extension is not NULL
  local,       \* TRUE: the original is in SHARE_PATH
  orig,        \* the original in S3: "none", "private", "granted" (setACL)
  conv,        \* TRUE: the converted object is in S3
  web,         \* where the acl_create request of the content is
  job,         \* where its Gearman job is
  deliveries,  \* times the job was handed to a worker
  enc,         \* [Contents -> [Runs -> ..]]: the job at Zencoder
  rec,         \* [Contents -> [Runs -> ..]]: its row of queue_encoder
  note,        \* [Contents -> [Runs -> ..]]: its notification
  del,         \* where the acl_delete request of the content is
  calm,        \* history: contents whose acl_delete began with nothing running
  faulted      \* history: contents hit by a failure of an external service

vars == <<kind, named, status, ext, local, orig, conv, web, job, deliveries, enc,
          rec, note, del, calm, faulted>>

dbVars    == <<kind, named, status, ext>>
storeVars == <<local, orig, conv>>
encVars   == <<enc, rec, note>>
delVars   == <<del, calm>>

TypeOK ==
  /\ kind \in [Contents -> Kinds]
  /\ named \in [Contents -> BOOLEAN]
  /\ status \in [Contents -> Statuses]
  /\ ext \in [Contents -> BOOLEAN]
  /\ local \in [Contents -> BOOLEAN]
  /\ orig \in [Contents -> {"none", "private", "granted"}]
  /\ conv \in [Contents -> BOOLEAN]
  /\ web \in [Contents -> WebSteps]
  /\ job \in [Contents -> JobSteps]
  /\ deliveries \in [Contents -> 0 .. MaxDeliveries]
  /\ enc \in [Contents -> [Runs -> {"none", "processing", "finished", "failed"}]]
  /\ rec \in [Contents -> [Runs -> {"none", "transcoding", "finished"}]]
  /\ note \in [Contents -> [Runs -> {"none", "pending", "handling", "acked",
                                     "dropped"}]]
  /\ del \in [Contents -> DelSteps]
  /\ calm \subseteq Contents
  /\ faulted \subseteq Contents

Init ==
  /\ kind \in [Contents -> Kinds]
  /\ named \in [Contents -> BOOLEAN]
  /\ status = [c \in Contents |-> "absent"]
  /\ ext = [c \in Contents |-> FALSE]
  /\ local = [c \in Contents |-> FALSE]
  /\ orig = [c \in Contents |-> "none"]
  /\ conv = [c \in Contents |-> FALSE]
  /\ web = [c \in Contents |-> "idle"]
  /\ job = [c \in Contents |-> "none"]
  /\ deliveries = [c \in Contents |-> 0]
  /\ enc = [c \in Contents |-> [n \in Runs |-> "none"]]
  /\ rec = [c \in Contents |-> [n \in Runs |-> "none"]]
  /\ note = [c \in Contents |-> [n \in Runs |-> "none"]]
  /\ del = [c \in Contents |-> "idle"]
  /\ calm = {}
  /\ faulted = {}

Present(c) == status[c] \notin {"absent", "deleted"}
IsMedia(c) == kind[c] \in {"video", "audio"}

(* flush() of an entity whose status was set to s. *)
Update(c, s) ==
  status' = IF Present(c) THEN [status EXCEPT ![c] = s] ELSE status

(* The exception reaches the catch of Gearman\DEP\Content, which logs it.  *)
Goto(c, step) == job' = [job EXCEPT ![c] = step]
Fault(c)      == faulted' = faulted \cup {c}

-----------------------------------------------------------------------------
(* The web request: acl_create.                                            *)

(* The form is valid and the user may create content: first flush.         *)
acl_create(c) ==
  /\ status[c] = "absent" /\ web[c] = "idle"
  /\ status' = [status EXCEPT ![c] = "new"]
  /\ web' = [web EXCEPT ![c] = "receive"]
  /\ UNCHANGED <<kind, named, ext, storeVars, job, deliveries, encVars, delVars,
                 faulted>>

(* The file is renamed to <id>.<extension> in SHARE_PATH.. *)
acl_create_receive(c) ==
  /\ web[c] = "receive"
  /\ local' = [local EXCEPT ![c] = TRUE]
  /\ web' = [web EXCEPT ![c] = "store"]
  /\ UNCHANGED <<dbVars, orig, conv, job, deliveries, encVars, delVars, faulted>>

(* .. and the second flush stores the extension, NULL if there is none.    *)
acl_create_flush(c) ==
  /\ web[c] = "store"
  /\ ext' = IF Present(c) THEN [ext EXCEPT ![c] = named[c]] ELSE ext
  /\ web' = [web EXCEPT ![c] = "enqueue"]
  /\ UNCHANGED <<kind, named, status, storeVars, job, deliveries, encVars,
                 delVars, faulted>>

(* Mutant: the file is removed again when the queue refuses the job. *)
backgroundTask_cleans_up(c) ==
  /\ web[c] = "enqueue"
  /\ web' = [web EXCEPT ![c] = "done"]
  /\ \/ Goto(c, "queued") /\ UNCHANGED <<local, faulted>>
     \/ Fault(c) /\ local' = [local EXCEPT ![c] = FALSE] /\ UNCHANGED job
  /\ UNCHANGED <<dbVars, orig, conv, deliveries, encVars, delVars>>

(* backgroundTask: the job is queued, or the caller gets an exception (the *)
(* audio service: FALSE) and the row stays as it is.                       *)
acl_create_backgroundTask(c) ==
  /\ web[c] = "enqueue"
  /\ web' = [web EXCEPT ![c] = "done"]
  /\ \/ Goto(c, "queued") /\ UNCHANGED faulted
     \/ Fault(c) /\ UNCHANGED job
  /\ UNCHANGED <<dbVars, storeVars, deliveries, encVars, delVars>>

(* The web request dies between two of its effects. *)
acl_create_dies(c) ==
  /\ \/ web[c] = "receive" /\ web' = [web EXCEPT ![c] = "aborted"]
     \/ web[c] \in {"store", "enqueue"} /\ web' = [web EXCEPT ![c] = "done"]
  /\ Fault(c)
  /\ UNCHANGED <<dbVars, storeVars, job, deliveries, encVars, delVars>>

-----------------------------------------------------------------------------
(* The worker: Gearman\DEP\Content\*::sendOriginalToCloud.                 *)

(* work() takes a queued job; each worker process executes one at a time.  *)
work(c) ==
  /\ job[c] = "queued" /\ deliveries[c] < MaxDeliveries
  /\ Cardinality({d \in Contents : job[d] \in Running}) < NumWorkers
  /\ Goto(c, "find")
  /\ deliveries' = [deliveries EXCEPT ![c] = @ + 1]
  /\ UNCHANGED <<dbVars, storeVars, web, encVars, delVars, faulted>>

(* Mutant: the worker waits until the file is there. *)
sendDataToCloud_waits(c) ==
  /\ job[c] = "find"
  /\ \/ Present(c) /\ ext[c] /\ local[c] /\ Goto(c, "uploading")
     \/ ~Present(c) /\ Goto(c, "finish")
  /\ UNCHANGED <<dbVars, storeVars, web, deliveries, encVars, delVars, faulted>>

(* system_sendDataToCloud up to its first exceptions: no row, no           *)
(* extension, no local file.                                               *)
sendDataToCloud_find(c) ==
  /\ job[c] = "find"
  /\ \/ /\ Present(c) /\ ext[c] /\ local[c]
        /\ Goto(c, "uploading") /\ UNCHANGED status
     \/ /\ ~Present(c)
        /\ Goto(c, "finish") /\ UNCHANGED status
     \/ /\ Present(c) /\ ~(ext[c] /\ local[c])
        /\ Update(c, "error") /\ Goto(c, "finish")
  /\ UNCHANGED <<kind, named, ext, storeVars, web, deliveries, encVars, delVars,
                 faulted>>

sendDataToCloud_uploading(c) ==
  /\ job[c] = "uploading"
  /\ Update(c, "uploading") /\ Goto(c, "upload")
  /\ UNCHANGED <<kind, named, ext, storeVars, web, deliveries, encVars, delVars,
                 faulted>>

(* Mutant: the local file is removed whether or not S3 took it. *)
uploadFile_finally(c) ==
  /\ job[c] = "upload"
  /\ local' = [local EXCEPT ![c] = FALSE]
  /\ \/ /\ local[c]
        /\ orig' = [orig EXCEPT ![c] = "private"]
        /\ Goto(c, "uploaded") /\ UNCHANGED faulted
     \/ Goto(c, "finish") /\ Fault(c) /\ UNCHANGED orig
  /\ UNCHANGED <<dbVars, conv, web, deliveries, encVars, delVars>>

(* Cloud::uploadFile: a new object has no grants; every failure throws and *)
(* leaves the status at "uploading".                                       *)
uploadFile(c) ==
  /\ job[c] = "upload"
  /\ \/ /\ local[c]
        /\ orig' = [orig EXCEPT ![c] = "private"]
        /\ Goto(c, "uploaded") /\ UNCHANGED faulted
     \/ Goto(c, "finish") /\ Fault(c) /\ UNCHANGED orig
     \/ ~local[c] /\ Goto(c, "finish") /\ UNCHANGED <<orig, faulted>>
  /\ UNCHANGED <<dbVars, local, conv, web, deliveries, encVars, delVars>>

(* A file is done once it is uploaded, a video or audio is not. *)
sendDataToCloud_uploaded(c) ==
  /\ job[c] = "uploaded"
  /\ Update(c, IF IsMedia(c) THEN "uploaded" ELSE "ready")
  /\ Goto(c, "acl")
  /\ UNCHANGED <<kind, named, ext, storeVars, web, deliveries, encVars, delVars,
                 faulted>>

(* Mutant: a failure of setACL is noted in the status. *)
setACL_marks_error(c) ==
  /\ job[c] = "acl"
  /\ \/ /\ orig[c] # "none"
        /\ orig' = [orig EXCEPT ![c] = "granted"]
        /\ Goto(c, IF IsMedia(c) THEN "encode" ELSE "cleanup")
        /\ UNCHANGED <<status, faulted>>
     \/ Update(c, "error") /\ Goto(c, "finish") /\ Fault(c) /\ UNCHANGED orig
  /\ UNCHANGED <<kind, named, ext, local, conv, web, deliveries, encVars, delVars>>

(* Cloud::setACL, after the status was flushed. *)
setACL(c) ==
  /\ job[c] = "acl"
  /\ \/ /\ orig[c] # "none"
        /\ orig' = [orig EXCEPT ![c] = "granted"]
        /\ Goto(c, IF IsMedia(c) THEN "encode" ELSE "cleanup")
        /\ UNCHANGED faulted
     \/ Goto(c, "finish") /\ Fault(c) /\ UNCHANGED orig
     \/ orig[c] = "none" /\ Goto(c, "finish") /\ UNCHANGED <<orig, faulted>>
  /\ UNCHANGED <<dbVars, local, conv, web, deliveries, encVars, delVars>>

(* Mutant: a refused transcoding job does not end the upload. *)
jobs_create_goes_on(c) ==
  /\ job[c] = "encode"
  /\ \/ /\ enc' = [enc EXCEPT ![c][deliveries[c]] = "processing"]
        /\ Goto(c, "record") /\ UNCHANGED faulted
     \/ Goto(c, "cleanup") /\ Fault(c) /\ UNCHANGED enc
  /\ UNCHANGED <<dbVars, storeVars, web, deliveries, rec, note, delVars>>

(* system_processData: Zencoder accepts the job, refuses it (exception),   *)
(* or answers without a job id.  In the last case the status becomes       *)
(* "error" and Encoder::update is called on an entity that has no row: an  *)
(* exception, or a fatal error that ends the worker.                       *)
jobs_create(c) ==
  /\ job[c] = "encode"
  /\ \/ /\ enc' = [enc EXCEPT ![c][deliveries[c]] = "processing"]
        /\ Goto(c, "record")
        /\ UNCHANGED <<status, faulted>>
     \/ /\ Goto(c, "finish") /\ Fault(c)
        /\ UNCHANGED <<status, enc>>
     \/ /\ Update(c, "error") /\ Fault(c)
        /\ \/ Goto(c, "finish")
           \/ deliveries[c] < MaxDeliveries /\ Goto(c, "queued")
        /\ UNCHANGED enc
  /\ UNCHANGED <<kind, named, ext, storeVars, web, deliveries, rec, note, delVars>>

(* Mutant: the queue_encoder entity is never persisted. *)
processData_not_persisted(c) ==
  /\ job[c] = "record"
  /\ Update(c, "transcoding") /\ Goto(c, "cleanup")
  /\ UNCHANGED <<kind, named, ext, storeVars, web, deliveries, encVars, delVars,
                 faulted>>

(* One flush inserts the queue_encoder row and updates the status. *)
processData_flush(c) ==
  /\ job[c] = "record"
  /\ rec' = [rec EXCEPT ![c][deliveries[c]] = "transcoding"]
  /\ Update(c, "transcoding") /\ Goto(c, "cleanup")
  /\ UNCHANGED <<kind, named, ext, storeVars, web, deliveries, enc, note, delVars,
                 faulted>>

(* system_deleteLocalData of the worker. *)
worker_deleteLocalData(c) ==
  /\ job[c] = "cleanup"
  /\ local' = [local EXCEPT ![c] = FALSE]
  /\ Goto(c, "finish")
  /\ UNCHANGED <<dbVars, orig, conv, web, deliveries, encVars, delVars,
                 faulted>>

(* The function returns: Gearman forgets the job, also after an exception. *)
work_returns(c) ==
  /\ job[c] = "finish"
  /\ Goto(c, "done")
  /\ UNCHANGED <<dbVars, storeVars, web, deliveries, encVars, delVars, faulted>>

(* The worker dies while it holds the job: Gearman queues the job again    *)
(* and supervisord starts another worker.                                  *)
worker_dies(c) ==
  /\ job[c] \in Running /\ deliveries[c] < MaxDeliveries
  /\ Goto(c, "queued")
  /\ UNCHANGED <<dbVars, storeVars, web, deliveries, encVars, delVars, faulted>>

(* gearmand restarts: background jobs live in its memory only. *)
gearmand_restarts(c) ==
  /\ job[c] = "queued"
  /\ Goto(c, "none") /\ Fault(c)
  /\ UNCHANGED <<dbVars, storeVars, web, deliveries, encVars, delVars>>

-----------------------------------------------------------------------------
(* Zencoder and its notification (at least once, given up after failures). *)

zencoder_finishes(c, n) ==
  /\ enc[c][n] = "processing" /\ orig[c] = "granted"
  /\ enc' = [enc EXCEPT ![c][n] = "finished"]
  /\ conv' = [conv EXCEPT ![c] = TRUE]
  /\ note' = [note EXCEPT ![c][n] = "pending"]
  /\ UNCHANGED <<dbVars, local, orig, web, job, deliveries, rec, delVars,
                 faulted>>

(* The input cannot be read or decoded. *)
zencoder_fails(c, n) ==
  /\ enc[c][n] = "processing"
  /\ enc' = [enc EXCEPT ![c][n] = "failed"]
  /\ note' = [note EXCEPT ![c][n] = "pending"]
  /\ Fault(c)
  /\ UNCHANGED <<dbVars, storeVars, web, job, deliveries, rec, delVars>>

(* indexAction: no queue_encoder row has the job id yet, so the loop body  *)
(* never runs and the notification is answered with success.               *)
indexAction_unknown(c, n) ==
  /\ note[c][n] = "pending" /\ rec[c][n] = "none"
  /\ note' = [note EXCEPT ![c][n] = "acked"]
  /\ UNCHANGED <<dbVars, storeVars, web, job, deliveries, enc, rec, delVars,
                 faulted>>

(* Mutant: the status of the content is written into the queue_encoder row.*)
indexAction_encoder_ready(c, n) ==
  /\ note[c][n] = "pending" /\ rec[c][n] # "none" /\ enc[c][n] = "finished"
  /\ rec' = [rec EXCEPT ![c][n] = "ready"]
  /\ note' = [note EXCEPT ![c][n] = "handling"]
  /\ UNCHANGED <<dbVars, storeVars, web, job, deliveries, enc, delVars, faulted>>

(* Mutant: the state of the Zencoder job is not looked at. *)
indexAction_encoder_any(c, n) ==
  /\ note[c][n] = "pending" /\ rec[c][n] # "none"
  /\ rec' = [rec EXCEPT ![c][n] = "finished"]
  /\ note' = [note EXCEPT ![c][n] = "handling"]
  /\ UNCHANGED <<dbVars, storeVars, web, job, deliveries, enc, delVars, faulted>>

(* Mutant: the notification is answered before the content is updated. *)
indexAction_encoder_only(c, n) ==
  /\ note[c][n] = "pending" /\ rec[c][n] # "none" /\ enc[c][n] = "finished"
  /\ rec' = [rec EXCEPT ![c][n] = "finished"]
  /\ note' = [note EXCEPT ![c][n] = "acked"]
  /\ UNCHANGED <<dbVars, storeVars, web, job, deliveries, enc, delVars, faulted>>

(* indexAction on a finished job: Encoder::update flushes the row.  (On a  *)
(* job that did not finish it ends in a fatal error and changes nothing.)  *)
indexAction_encoder(c, n) ==
  /\ note[c][n] = "pending" /\ rec[c][n] # "none" /\ enc[c][n] = "finished"
  /\ rec' = [rec EXCEPT ![c][n] = "finished"]
  /\ note' = [note EXCEPT ![c][n] = "handling"]
  /\ UNCHANGED <<dbVars, storeVars, web, job, deliveries, enc, delVars, faulted>>

(* Then the content: "no object found" is an exception, Zencoder retries.  *)
indexAction_content(c, n) ==
  /\ note[c][n] = "handling"
  /\ Update(c, "ready")
  /\ note' = [note EXCEPT ![c][n] = IF Present(c) THEN "acked" ELSE "pending"]
  /\ UNCHANGED <<kind, named, ext, storeVars, web, job, deliveries, enc, rec, delVars,
                 faulted>>

(* The notification request dies between its two flushes. *)
indexAction_dies(c, n) ==
  /\ note[c][n] = "handling"
  /\ note' = [note EXCEPT ![c][n] = "pending"]
  /\ UNCHANGED <<dbVars, storeVars, web, job, deliveries, enc, rec, delVars,
                 faulted>>

(* The success answer was lost: Zencoder notifies again. *)
zencoder_repeats(c, n) ==
  /\ note[c][n] = "acked"
  /\ note' = [note EXCEPT ![c][n] = "pending"]
  /\ UNCHANGED <<dbVars, storeVars, web, job, deliveries, enc, rec, delVars,
                 faulted>>

(* Zencoder stops retrying a notification that ends in an error each time. *)
zencoder_gives_up(c, n) ==
  /\ note[c][n] = "pending" /\ rec[c][n] # "none"
  /\ enc[c][n] = "failed" \/ status[c] = "deleted"
  /\ note' = [note EXCEPT ![c][n] = "dropped"]
  /\ UNCHANGED <<dbVars, storeVars, web, job, deliveries, enc, rec, delVars,
                 faulted>>

-----------------------------------------------------------------------------
(* The web request: acl_delete.                                            *)

(* Nothing else of the pipeline is under way for this content. *)
Quiet(c) ==
  /\ web[c] \in {"done", "aborted"} /\ job[c] \in {"none", "done"}
  /\ \A n \in Runs : enc[c][n] # "processing"

(* find and system_deleteLocalData, which looks for the file under the     *)
(* stored extension.  A failed delete may be tried again.                  *)
acl_delete(c) ==
  /\ Present(c) /\ del[c] \in {"idle", "failed"}
  /\ local' = [local EXCEPT ![c] = @ /\ ext[c] # named[c]]
  /\ del' = [del EXCEPT ![c] = "first"]
  /\ calm' = IF Quiet(c) THEN calm \cup {c} ELSE calm \ {c}
  /\ UNCHANGED <<dbVars, orig, conv, web, job, deliveries, encVars, faulted>>

(* system_deleteCloudData: a video loses its original first, an audio its  *)
(* converted object first, a file has the original only.                   *)
OrigAt(c) == IF kind[c] = "audio" THEN "second" ELSE "first"

deleteFile_ok(c) ==
  /\ del[c] \in {"first", "second"}
  /\ IF del[c] = OrigAt(c)
     THEN orig' = [orig EXCEPT ![c] = "none"] /\ UNCHANGED conv
     ELSE conv' = [conv EXCEPT ![c] = FALSE] /\ UNCHANGED orig
  /\ del' = [del EXCEPT ![c] = IF @ = "second" \/ kind[c] = "file"
                               THEN "row" ELSE "second"]
  /\ UNCHANGED <<dbVars, local, web, job, deliveries, encVars, calm, faulted>>

(* Mutant: every service ignores what S3 says, not only the audio service. *)
deleteFile_swallowed(c) ==
  /\ del[c] \in {"first", "second"}
  /\ del' = [del EXCEPT ![c] = "row"]
  /\ Fault(c)
  /\ UNCHANGED <<dbVars, storeVars, web, job, deliveries, encVars, calm>>

(* deleteFile throws: the audio service ignores it and skips what is left, *)
(* the two others abandon the request and keep the row.                    *)
deleteFile_throws(c) ==
  /\ del[c] \in {"first", "second"}
  /\ del' = [del EXCEPT ![c] = IF kind[c] = "audio" THEN "row" ELSE "failed"]
  /\ Fault(c)
  /\ UNCHANGED <<dbVars, storeVars, web, job, deliveries, encVars, calm>>

acl_delete_row(c) ==
  /\ del[c] = "row"
  /\ Update(c, "deleted")
  /\ del' = [del EXCEPT ![c] = "done"]
  /\ UNCHANGED <<kind, named, ext, storeVars, web, job, deliveries, encVars, calm,
                 faulted>>

(* The delete request dies between two of its effects. *)
acl_delete_dies(c) ==
  /\ del[c] \in {"first", "second", "row"}
  /\ del' = [del EXCEPT ![c] = "failed"]
  /\ UNCHANGED <<dbVars, storeVars, web, job, deliveries, encVars, calm,
                 faulted>>

(* Course::acl_delete removes the rows of its contents and nothing else.   *)
course_delete(c) ==
  /\ Present(c)
  /\ Update(c, "deleted")
  /\ del' = [del EXCEPT ![c] = IF @ \in {"idle", "failed"} THEN "course" ELSE @]
  /\ UNCHANGED <<kind, named, ext, storeVars, web, job, deliveries, encVars, calm,
                 faulted>>

-----------------------------------------------------------------------------
WebRequest(c) ==
  \/ acl_create(c) \/ acl_create_receive(c) \/ acl_create_flush(c)
  \/ acl_create_backgroundTask(c)

WorkerStep(c) ==
  \/ work(c) \/ sendDataToCloud_find(c) \/ sendDataToCloud_uploading(c)
  \/ uploadFile(c) \/ sendDataToCloud_uploaded(c) \/ setACL(c)
  \/ jobs_create(c) \/ processData_flush(c) \/ worker_deleteLocalData(c)
  \/ work_returns(c)

Encoding(c, n) == zencoder_finishes(c, n) \/ zencoder_fails(c, n)

Notification(c, n) ==
  \/ indexAction_unknown(c, n) \/ indexAction_encoder(c, n)
  \/ indexAction_content(c, n)

Crash(c) == acl_create_dies(c) \/ worker_dies(c) \/ gearmand_restarts(c)

NotificationTrouble(c, n) ==
  \/ indexAction_dies(c, n) \/ zencoder_repeats(c, n) \/ zencoder_gives_up(c, n)

Delete(c) ==
  \/ acl_delete(c) \/ deleteFile_ok(c) \/ deleteFile_throws(c)
  \/ acl_delete_row(c) \/ acl_delete_dies(c) \/ course_delete(c)

Next ==
  \E c \in Contents :
    \/ WebRequest(c) \/ WorkerStep(c) \/ Crash(c) \/ Delete(c)
    \/ \E n \in Runs :
         Encoding(c, n) \/ Notification(c, n) \/ NotificationTrouble(c, n)

Spec == Init /\ [][Next]_vars

(* supervisord keeps a worker running and gearmand keeps the queue; PHP    *)
(* runs a request to its end; Zencoder ends every job and repeats a        *)
(* notification until it is answered, and not every repetition dies.       *)
(* Nothing is fair about failures, deletions or the user.                  *)
Fairness ==
  \A c \in Contents :
    /\ WF_vars(acl_create_receive(c) \/ acl_create_flush(c)
               \/ acl_create_backgroundTask(c))
    /\ WF_vars(WorkerStep(c))
    /\ \A n \in Runs :
         /\ WF_vars(Encoding(c, n))
         /\ WF_vars(indexAction_unknown(c, n) \/ indexAction_encoder(c, n))
         /\ SF_vars(indexAction_content(c, n))

FairSpec == Spec /\ Fairness

-----------------------------------------------------------------------------
(* Properties.                                                             *)

(* The upload reached SHARE_PATH. *)
Received(c) == web[c] \in {"store", "enqueue", "done"}

(* Some Zencoder job of the content has its queue_encoder row. *)
Tracked(c) == \E n \in Runs : rec[c][n] # "none"

(* The original of a received upload is in SHARE_PATH or in S3 until        *)
(* somebody asks for its deletion: a crash or a failure at any step of the *)
(* job, and any number of redeliveries, never lose the only copy.          *)
OriginalNeverLost ==
  \A c \in Contents :
    Received(c) /\ del[c] = "idle" => local[c] \/ orig[c] # "none"

(* Content shown as ready can be delivered: a file has its object in S3, a *)
(* video or audio the converted one (acl_getDownloadUrl signs its name     *)
(* without looking).  Notifications of failed, early, repeated and retried *)
(* jobs do not break it.                                                   *)
ReadyIsStored ==
  \A c \in Contents :
    status[c] = "ready" /\ del[c] = "idle" =>
      IF IsMedia(c) THEN conv[c] ELSE orig[c] # "none"

(* A content in status "transcoding" has a queue_encoder row through which *)
(* a notification can find it, whatever happened to the worker.            *)
TranscodingIsTracked ==
  \A c \in Contents : status[c] = "transcoding" => Tracked(c)

(* The local copy of a video or audio is given up only when a transcoding  *)
(* job for it has been recorded: after a crash anywhere before that, the   *)
(* redelivered job finds the file it needs.                                *)
LocalKeptUntilTracked ==
  \A c \in Contents :
    /\ Received(c) /\ del[c] = "idle" /\ IsMedia(c) /\ ~local[c]
    => Tracked(c)

(* A deletion that began with nothing under way and ran to its end leaves  *)
(* no copy behind, also when earlier attempts failed half-way.  Two        *)
(* exceptions: the audio service, which swallows S3 failures, and a local  *)
(* file whose extension was not stored because its upload request died.    *)
CalmDeleteLeavesNothing ==
  \A c \in calm :
    del[c] = "done" /\ (kind[c] # "audio" \/ c \notin faulted) =>
      orig[c] = "none" /\ ~conv[c] /\ (local[c] => ext[c] # named[c])

(* Without a redelivery, ready is final: only deletion takes it back, and  *)
(* no late, repeated or failed notification does.                          *)
ReadyIsFinal ==
  [][\A c \in Contents :
       status[c] = "ready" /\ deliveries'[c] = 1 =>
         status'[c] \in {"ready", "deleted"}]_vars

(* What the entity says of cleaned_at (Entity/Content.php:89): a file is    *)
(* cleaned off the cloud only after the content was deleted.  acl_delete   *)
(* does it the other way round and can stop in between.                    *)
CleanedAfterDeletion ==
  [][\A c \in Contents :
       orig[c] # "none" /\ orig'[c] = "none" => status[c] = "deleted"]_vars

(* The queue drains: every queued job is eventually finished or forgotten, *)
(* although workers die and share few processes.                           *)
QueueDrains ==
  \A c \in Contents : job[c] = "queued" ~> job[c] \in {"done", "none"}

(* The notification arrived before the flush of the queue_encoder row and  *)
(* was answered with success: nobody will ever update that row.            *)
NotifiedTooEarly(c) ==
  \E n \in Runs : note[c][n] = "acked" /\ rec[c][n] # "finished"

(* An upload whose file name has an extension becomes ready, unless an     *)
(* external service failed, it was deleted, its worker died, or the one    *)
(* race of the code was lost (NotifiedTooEarly).                           *)
UploadBecomesReady ==
  \A c \in Contents :
    job[c] = "queued" ~>
      \/ status[c] = "ready" \/ ~named[c]
      \/ c \in faulted \/ del[c] # "idle" \/ deliveries[c] > 1
      \/ NotifiedTooEarly(c)

-----------------------------------------------------------------------------
(* The promise to the provider (ContentCustody) is kept: the upload is held *)
(* from the moment it is received until a deletion begins, and it is seen   *)
(* only after it was received.  "lost" is no value of the abstract variable.*)
custody ==
  [c \in Contents |->
    IF del[c] # "idle" THEN "released"
    ELSE IF ~Received(c) THEN "none"
    ELSE IF local[c] \/ orig[c] # "none" THEN "held" ELSE "lost"]

viewable == [c \in Contents |-> status[c] = "ready"]

Custody == INSTANCE ContentCustody WITH custody <- custody, viewable <- viewable

(* Every step of the pipeline is a step of ContentCustody or leaves it alone. *)
ImplementsCustody == Custody!Spec

=============================================================================
