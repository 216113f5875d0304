------------------------- MODULE MCContentPipeline -------------------------
(* Instances of ContentPipeline for TLC. *)
EXTENDS ContentPipeline

CONSTANTS c1, c2

OneContent  == {c1}
TwoContents == {c1, c2}

(* Two contents that share one worker, undisturbed by deletions and by     *)
(* failures of the external services.  Only the workers have to be fair.   *)
SharedQueueNext ==
  /\ \E c \in Contents :
       \/ WebRequest(c) \/ WorkerStep(c) \/ worker_dies(c)
       \/ \E n \in Runs : Encoding(c, n) \/ Notification(c, n)
  /\ UNCHANGED <<del, faulted>>

SharedQueueSpec ==
  /\ Init /\ [][SharedQueueNext]_vars
  /\ \A c \in Contents : WF_vars(WorkerStep(c))
=============================================================================
