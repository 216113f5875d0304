--------------------------- MODULE ContentCustody ---------------------------
(***************************************************************************)
(* What the platform promises the provider of a course content, with no    *)
(* word about how: once the upload is accepted the platform holds it until *)
(* the provider lets go of it, and students see it only after that.        *)
(* ContentPipeline implements it.                                          *)
(***************************************************************************)
CONSTANT Contents

VARIABLES
  custody,   \* "none": not uploaded, "held": stored, "released": deletion asked
  viewable   \* students can open it

vars == <<custody, viewable>>

TypeOK ==
  /\ custody \in [Contents -> {"none", "held", "released"}]
  /\ viewable \in [Contents -> BOOLEAN]

Init ==
  /\ custody = [c \in Contents |-> "none"]
  /\ viewable = [c \in Contents |-> FALSE]

Accept(c) ==
  /\ custody[c] = "none"
  /\ custody' = [custody EXCEPT ![c] = "held"]
  /\ UNCHANGED viewable

(* The content is processed. *)
Offer(c) ==
  /\ custody[c] # "none" /\ ~viewable[c]
  /\ viewable' = [viewable EXCEPT ![c] = TRUE]
  /\ UNCHANGED custody

(* It is processed anew, its processing failed, or its row is gone. *)
Withdraw(c) ==
  /\ viewable[c]
  /\ viewable' = [viewable EXCEPT ![c] = FALSE]
  /\ UNCHANGED custody

(* The provider, or the administrator who removes the course, deletes it.  *)
Release(c) ==
  /\ custody[c] # "released"
  /\ custody' = [custody EXCEPT ![c] = "released"]
  /\ \/ UNCHANGED viewable
     \/ viewable' = [viewable EXCEPT ![c] = FALSE]

Next == \E c \in Contents : Accept(c) \/ Offer(c) \/ Withdraw(c) \/ Release(c)

Spec == Init /\ [][Next]_vars
=============================================================================
