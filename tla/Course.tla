------------------------------- MODULE Course -------------------------------
(***************************************************************************)
(* One course: its creation and deletion, the subscriptions to it and what *)
(* subscribers have completed.                                             *)
(*                                                                         *)
(* Code: App\Service\Course, App\Entity\Subscription, App\Service\aContent.*)
(*                                                                         *)
(* Every call is a web request of its own: it loads what it needs, checks  *)
(* the caller's role, and flushes one or more times, without a lock.  The  *)
(* steps of a request are its load and each of its flushes.                *)
(*                                                                         *)
(* Subscription ids are handed out in order (AUTO_INCREMENT).  The foreign *)
(* keys of subscription and content refuse rows without a course, and the  *)
(* removal of a course with such rows.  A course that requires approval    *)
(* takes no subscriptions.                                                 *)
(***************************************************************************)
EXTENDS Naturals, FiniteSets

CONSTANTS
  Users,       \* users who are logged in and activated
  Admins,      \* those of them whose own role is admin
  Contents,    \* contents that may be added to the course
  Requests,    \* web requests that may run at the same time
  MaxSubs      \* bound: subscriptions ever inserted

ASSUME CourseAssumption ==
  /\ Admins \subseteq Users
  /\ IsFiniteSet(Contents)
  /\ MaxSubs \in Nat
  /\ Users \cap {"none", "removed"} = {}

Ids == 1 .. MaxSubs

(* The roles the provider may give.  "visitor" is left out: a user with it *)
(* may do what one with "user" may, since the user's own role counts too.  *)
Roles == {"user", "subscriber", "provider"}

(* The roles that inherit the permissions of a role. *)
AtLeast(role) ==
  CASE role = "provider" -> {"provider"}
    [] role = "subscriber" -> {"subscriber", "provider"}
    [] OTHER -> Roles

VARIABLES
  course,      \* "no", "yes", "gone"
  content,     \* [Contents -> {"none", "hidden", "published", "removed"}]
  sub,         \* [Ids -> ..]: rows of the table subscription
  req,         \* [Requests -> ..]: what a request loaded and has yet to do
  overlapped,  \* history: users two of whose own requests ran at once
  done,        \* history, for the others: what they completed
  disturbed    \* history: deletions during which a row was added

vars == <<course, content, sub, req, overlapped, done, disturbed>>

Idle   == [op |-> "idle"]
NoRow  == [user |-> "none"]
GoneRow == [user |-> "removed"]

Rows == [user : Users, role : Roles, completed : SUBSET Contents]

Loaded ==
  {Idle}
  \cup [op : {"create", "subscribe"}, user : Users]
  \cup [op : {"complete"}, user : Users, id : Ids,
        before : SUBSET Contents, after : SUBSET Contents]
  \cup [op : {"unsubscribe"}, user : Users, id : Ids]
  \cup [op : {"expel"}, id : Ids]
  \cup [op : {"role"}, id : Ids, role : Roles]
  \cup [op : {"delete subscriptions"}, left : SUBSET Ids]
  \cup [op : {"delete contents"}, left : SUBSET Contents]

IsRow(id) == sub[id] \notin {NoRow, GoneRow}
RowsOf(u) == {id \in Ids : sub[id].user = u}
InCourse  == {c \in Contents : content[c] \in {"hidden", "published"}}
Published == {c \in Contents : content[c] = "published"}

TypeOK ==
  /\ course \in {"no", "yes", "gone"}
  /\ content \in [Contents -> {"none", "hidden", "published", "removed"}]
  /\ sub \in [Ids -> Rows \cup {NoRow, GoneRow}]
  /\ req \in [Requests -> Loaded]
  /\ overlapped \subseteq Users
  /\ done \in [Users -> SUBSET Contents]
  /\ disturbed \subseteq Requests
  /\ \A id \in Ids : IsRow(id) =>
       \A c \in sub[id].completed : content[c] # "none"

Init ==
  /\ course = "no"
  /\ content = [c \in Contents |-> "none"]
  /\ sub = [id \in Ids |-> NoRow]
  /\ req = [r \in Requests |-> Idle]
  /\ overlapped = {}
  /\ done = [u \in Users |-> {}]
  /\ disturbed = {}

(* isAllowed: a subscription of the user has the role, or the user is an   *)
(* administrator.                                                          *)
isAllowed(u, role) ==
  u \in Admins \/ \E id \in RowsOf(u) : sub[id].role \in AtLeast(role)

(* History: a request of the user's own starts. *)
Own(r, u) ==
  req[r].op \in {"create", "subscribe", "complete", "unsubscribe"} /\ req[r].user = u

Busy(u) == \E r \in Requests : Own(r, u)

Starts(u) ==
  IF Busy(u)
  THEN overlapped' = overlapped \cup {u} /\ done' = [done EXCEPT ![u] = {}]
  ELSE UNCHANGED <<overlapped, done>>

(* History: a row is added to the course. *)
RowAdded == disturbed' = disturbed \cup
  {r \in Requests : req[r].op \in {"delete subscriptions", "delete contents"}}

Begin(r, what) == req[r] = Idle /\ req' = [req EXCEPT ![r] = what]
End(r)         == req' = [req EXCEPT ![r] = Idle]

(* INSERT of a subscription with the next id. *)
Insert(u, role) ==
  \E id \in Ids :
    /\ sub[id] = NoRow /\ \A i \in 1 .. id - 1 : sub[i] # NoRow
    /\ sub' = [sub EXCEPT ![id] = [user |-> u, role |-> role, completed |-> {}]]
    /\ done' = [done EXCEPT ![u] = {}]

-----------------------------------------------------------------------------
(* Creation: the course, then the subscription of its provider.            *)

acl_create(r, u) ==
  /\ course = "no"
  /\ course' = "yes"
  /\ Begin(r, [op |-> "create", user |-> u]) /\ Starts(u)
  /\ UNCHANGED <<content, sub, disturbed>>

(* If the course is gone the exception is caught and nothing happens. *)
acl_create_subscription(r) ==
  /\ req[r].op = "create" /\ End(r)
  /\ IF course = "yes"
     THEN Insert(req[r].user, "provider") /\ RowAdded
     ELSE UNCHANGED <<sub, done, disturbed>>
  /\ UNCHANGED <<course, content, overlapped>>

-----------------------------------------------------------------------------
(* Subscribing and unsubscribing.                                          *)

(* MUTANT of acl_subscribe: an earlier subscription is not looked for. *)
acl_subscribe_again(r, u) ==
  /\ course = "yes"
  /\ Begin(r, [op |-> "subscribe", user |-> u]) /\ Starts(u)
  /\ UNCHANGED <<course, content, sub, disturbed>>

(* A user without a subscription; one with a subscription is told the same *)
(* and nothing happens.                                                    *)
acl_subscribe(r, u) ==
  /\ course = "yes" /\ RowsOf(u) = {}
  /\ Begin(r, [op |-> "subscribe", user |-> u]) /\ Starts(u)
  /\ UNCHANGED <<course, content, sub, disturbed>>

acl_subscribe_flush(r) ==
  /\ req[r].op = "subscribe" /\ End(r)
  /\ IF course = "yes"
     THEN Insert(req[r].user, "subscriber") /\ RowAdded
     ELSE UNCHANGED <<sub, done, disturbed>>
  /\ UNCHANGED <<course, content, overlapped>>

(* MUTANT of acl_unsubscribe: the subscription is looked for by course. *)
acl_unsubscribe_by_course(r, u) ==
  /\ course = "yes" /\ isAllowed(u, "subscriber")
  /\ \E id \in Ids : IsRow(id) /\
       Begin(r, [op |-> "unsubscribe", user |-> u, id |-> id])
  /\ Starts(u)
  /\ UNCHANGED <<course, content, sub, disturbed>>

(* findOneBy user and course returns one of the user's subscriptions. *)
acl_unsubscribe(r, u) ==
  /\ course = "yes" /\ isAllowed(u, "subscriber")
  /\ \E id \in RowsOf(u) :
       Begin(r, [op |-> "unsubscribe", user |-> u, id |-> id])
  /\ Starts(u)
  /\ UNCHANGED <<course, content, sub, disturbed>>

acl_providerDeleteSubscription(r, id) ==
  /\ IsRow(id) /\ \E u \in Users : isAllowed(u, "provider")
  /\ Begin(r, [op |-> "expel", id |-> id])
  /\ UNCHANGED <<course, content, sub, overlapped, done, disturbed>>

(* DELETE by id, also of a row that is gone. *)
remove_flush(r) ==
  /\ req[r].op \in {"unsubscribe", "expel"} /\ End(r)
  /\ sub' = [sub EXCEPT ![req[r].id] = GoneRow]
  /\ UNCHANGED <<course, content, overlapped, done, disturbed>>

acl_providerUpdateSubscriptionRole(r, id) ==
  /\ IsRow(id) /\ \E u \in Users : isAllowed(u, "provider")
  /\ \E role \in Roles \ {sub[id].role} :
       Begin(r, [op |-> "role", id |-> id, role |-> role])
  /\ UNCHANGED <<course, content, sub, overlapped, done, disturbed>>

(* MUTANT of acl_providerUpdateSubscriptionRole_flush: the whole row is     *)
(* written, as that of a new subscriber.                                   *)
acl_providerUpdateSubscriptionRole_flush_anew(r) ==
  /\ req[r].op = "role" /\ End(r)
  /\ sub' = IF IsRow(req[r].id)
            THEN [sub EXCEPT ![req[r].id].role = req[r].role,
                             ![req[r].id].completed = {}] ELSE sub
  /\ UNCHANGED <<course, content, overlapped, done, disturbed>>

(* UPDATE of the column role, if the row is still there. *)
acl_providerUpdateSubscriptionRole_flush(r) ==
  /\ req[r].op = "role" /\ End(r)
  /\ sub' = IF IsRow(req[r].id)
            THEN [sub EXCEPT ![req[r].id].role = req[r].role] ELSE sub
  /\ UNCHANGED <<course, content, overlapped, done, disturbed>>

-----------------------------------------------------------------------------
(* Completing contents.                                                    *)

(* One of the user's subscriptions is loaded with the completed contents.  *)
(* A request that changes nothing has nothing to flush and is left out.    *)
Change(r, u, id, after) ==
  /\ course = "yes" /\ isAllowed(u, "subscriber")
  /\ after # sub[id].completed
  /\ Begin(r, [op |-> "complete", user |-> u, id |-> id,
               before |-> sub[id].completed, after |-> after])
  /\ Starts(u)
  /\ UNCHANGED <<course, content, sub, disturbed>>

(* MUTANT of acl_completeContent: CONTENT_DOES_NOT_BELONG is not thrown. *)
acl_completeContent_of_any(r, u, c) ==
  \E id \in RowsOf(u) : Change(r, u, id, sub[id].completed \cup {c})

acl_completeContent(r, u, c) ==
  /\ c \in InCourse
  /\ \E id \in RowsOf(u) : Change(r, u, id, sub[id].completed \cup {c})

acl_uncompleteContent(r, u, c) ==
  /\ c \in InCourse
  /\ \E id \in RowsOf(u) : Change(r, u, id, sub[id].completed \ {c})

(* UPDATE of the whole column completed_content, if the row is still       *)
(* there.  The history takes over the difference alone.                    *)
completeContent_flush(r) ==
  /\ req[r].op = "complete" /\ End(r)
  /\ LET u  == req[r].user
         id == req[r].id
         added   == req[r].after \ req[r].before
         dropped == req[r].before \ req[r].after
     IN IF IsRow(id)
        THEN /\ sub' = [sub EXCEPT ![id].completed = req[r].after]
             /\ done' = IF u \in overlapped THEN done
                        ELSE [done EXCEPT ![u] = (@ \cup added) \ dropped]
        ELSE UNCHANGED <<sub, done>>
  /\ UNCHANGED <<course, content, overlapped, disturbed>>

(* acl_getPercentComplete of a subscription: a fraction that is capped at  *)
(* 100.  Assessments count on both sides and are left out.                 *)
PercentComplete(id) ==
  LET completedCount == Cardinality(sub[id].completed)
      total          == Cardinality(Published)
  IN [of |-> total,
      count |-> IF total = 0 THEN 0
                ELSE IF completedCount > 100 * total THEN 100 * total
                ELSE completedCount]

-----------------------------------------------------------------------------
(* The contents, as far as the course sees them.                           *)

content_create(c) ==
  /\ course = "yes" /\ content[c] = "none"
  /\ content' = [content EXCEPT ![c] = "hidden"]
  /\ RowAdded
  /\ UNCHANGED <<course, sub, req, overlapped, done>>

acl_publish(c) ==
  /\ content[c] = "hidden"
  /\ content' = [content EXCEPT ![c] = "published"]
  /\ UNCHANGED <<course, sub, req, overlapped, done, disturbed>>

acl_unpublish(c) ==
  /\ content[c] = "published"
  /\ content' = [content EXCEPT ![c] = "hidden"]
  /\ UNCHANGED <<course, sub, req, overlapped, done, disturbed>>

content_delete(c) ==
  /\ c \in InCourse
  /\ content' = [content EXCEPT ![c] = "removed"]
  /\ UNCHANGED <<course, sub, req, overlapped, done, disturbed>>

-----------------------------------------------------------------------------
(* Deletion: subscriptions, contents, the course, one flush each.          *)

acl_delete(r, u) ==
  /\ course = "yes" /\ u \in Admins
  /\ Begin(r, [op |-> "delete subscriptions", left |-> {id \in Ids : IsRow(id)}])
  /\ disturbed' = disturbed \ {r}
  /\ UNCHANGED <<course, content, sub, overlapped, done>>

acl_delete_subscription(r) ==
  /\ req[r].op = "delete subscriptions"
  /\ \E id \in req[r].left :
       /\ \A other \in req[r].left : id <= other
       /\ sub' = [sub EXCEPT ![id] = GoneRow]
       /\ req' = [req EXCEPT ![r].left = @ \ {id}]
  /\ UNCHANGED <<course, content, overlapped, done, disturbed>>

(* MUTANT of acl_delete_contents: only published contents are removed. *)
acl_delete_published(r) ==
  /\ req[r].op = "delete subscriptions" /\ req[r].left = {}
  /\ req' = [req EXCEPT ![r] = [op |-> "delete contents", left |-> Published]]
  /\ UNCHANGED <<course, content, sub, overlapped, done, disturbed>>

acl_delete_contents(r) ==
  /\ req[r].op = "delete subscriptions" /\ req[r].left = {}
  /\ req' = [req EXCEPT ![r] = [op |-> "delete contents", left |-> InCourse]]
  /\ UNCHANGED <<course, content, sub, overlapped, done, disturbed>>

acl_delete_content(r) ==
  /\ req[r].op = "delete contents"
  /\ \E c \in req[r].left :
       /\ content' = [content EXCEPT ![c] = "removed"]
       /\ req' = [req EXCEPT ![r].left = @ \ {c}]
  /\ UNCHANGED <<course, sub, overlapped, done, disturbed>>

(* Refused by the foreign keys if a row refers to the course. *)
acl_delete_course(r) ==
  /\ req[r].op = "delete contents" /\ req[r].left = {} /\ End(r)
  /\ course' = IF InCourse = {} /\ ~\E id \in Ids : IsRow(id) THEN "gone" ELSE course
  /\ disturbed' = disturbed \ {r}
  /\ UNCHANGED <<content, sub, overlapped, done>>

(* The process of a request with several flushes dies between two of them,  *)
(* or one of them throws.                                                   *)
request_dies(r) ==
  /\ req[r].op \in {"create", "delete subscriptions", "delete contents"} /\ End(r)
  /\ disturbed' = disturbed \ {r}
  /\ UNCHANGED <<course, content, sub, overlapped, done>>

-----------------------------------------------------------------------------
Flush(r) ==
  \/ acl_create_subscription(r) \/ acl_subscribe_flush(r)
  \/ remove_flush(r) \/ acl_providerUpdateSubscriptionRole_flush(r)
  \/ completeContent_flush(r)
  \/ acl_delete_subscription(r) \/ acl_delete_contents(r)
  \/ acl_delete_content(r) \/ acl_delete_course(r)
  \/ request_dies(r)

Call(r, u) ==
  \/ acl_create(r, u) \/ acl_subscribe(r, u) \/ acl_unsubscribe(r, u) \/ acl_delete(r, u)
  \/ \E c \in Contents : acl_completeContent(r, u, c) \/ acl_uncompleteContent(r, u, c)

ContentStep ==
  \E c \in Contents :
    content_create(c) \/ acl_publish(c) \/ acl_unpublish(c) \/ content_delete(c)

ProviderCall(r) ==
  \E id \in Ids :
    acl_providerDeleteSubscription(r, id) \/ acl_providerUpdateSubscriptionRole(r, id)

Next ==
  \/ \E r \in Requests :
       Flush(r) \/ ProviderCall(r) \/ \E u \in Users : Call(r, u)
  \/ ContentStep

Spec == Init /\ [][Next]_vars

-----------------------------------------------------------------------------
(* Properties.                                                             *)

(* There is no unique key on user and course; still a user has at most one *)
(* subscription, unless two of the user's own requests overlapped.         *)
SubscribedOnce ==
  \A u \in Users \ overlapped : Cardinality(RowsOf(u)) <= 1

(* The column completed_content is written as a whole, while providers     *)
(* change roles and remove subscriptions and contents go; it holds what    *)
(* the user completed since subscribing, unless the user's own requests    *)
(* overlapped.                                                             *)
CompletedKept ==
  \A u \in Users \ overlapped : \A id \in RowsOf(u) : sub[id].completed = done[u]

(* Who unsubscribed has no subscription left, and so no access, unless the *)
(* user's own requests overlapped.                                         *)
UnsubscribedIsOut ==
  [][\A r \in Requests, u \in Users \ overlapped :
       req[r].op = "unsubscribe" /\ req[r].user = u /\ remove_flush(r)
         => RowsOf(u)' = {}]_vars

(* A deletion that arrives at the course's row, and during which nothing   *)
(* was added, is not refused by the foreign keys, whatever else was        *)
(* removed, changed or deleted meanwhile.                                  *)
DeletionSucceeds ==
  [][\A r \in Requests : acl_delete_course(r) /\ r \notin disturbed
       => course' = "gone"]_vars

(* acl_getPercentComplete ends with "if ($percentComplete > 100)           *)
(* $percentComplete = 100": nobody has completed more than everything.     *)
AtMostComplete ==
  \A id \in Ids : IsRow(id) => PercentComplete(id).count <= PercentComplete(id).of
=============================================================================
