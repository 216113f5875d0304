---------------------------- MODULE Course_proofs ----------------------------
(* What one course guarantees for any number of users, contents, concurrent *)
(* requests and subscriptions.                                              *)
EXTENDS Course, FiniteSetTheorems, TLAPS

-----------------------------------------------------------------------------
(* The inductive invariant.                                                *)

(* Requests complete contents that were in the course. *)
ChangesWithin ==
  \A r \in Requests : req[r].op = "complete" =>
    \A c \in req[r].before \cup req[r].after : content[c] # "none"

Types == TypeOK /\ ChangesWithin

(* No subscription is older than the course. *)
RowsInCourse == course = "no" => \A id \in Ids : sub[id] = NoRow

(* A request's id is that of a row that was inserted, and of the same user *)
(* if it still is there.                                                   *)
IdsTaken ==
  \A r \in Requests :
    /\ req[r].op \in {"complete", "unsubscribe", "expel", "role"} =>
         sub[req[r].id] # NoRow
    /\ req[r].op = "delete subscriptions" =>
         \A id \in req[r].left : sub[id] # NoRow

SameUser ==
  \A r \in Requests : req[r].op \in {"complete", "unsubscribe"} =>
    sub[req[r].id].user \in {req[r].user, "removed"}

Alone ==
  \A u \in Users \ overlapped : \A r, s \in Requests :
    Own(r, u) /\ Own(s, u) => r = s

Once ==
  \A u \in Users \ overlapped : \A i, j \in RowsOf(u) : i = j

(* A lone request to subscribe has found no row, and none came since. *)
NoneYet ==
  \A r \in Requests :
    req[r].op \in {"create", "subscribe"} /\ req[r].user \notin overlapped
      => RowsOf(req[r].user) = {}

(* A lone request to unsubscribe holds the only row. *)
OnlyRow ==
  \A r \in Requests :
    req[r].op = "unsubscribe" /\ req[r].user \notin overlapped
      => RowsOf(req[r].user) \subseteq {req[r].id}

(* A lone request to complete holds what the row still has. *)
Fresh ==
  \A r \in Requests :
    req[r].op = "complete" /\ req[r].user \notin overlapped /\ IsRow(req[r].id)
      => sub[req[r].id].completed = req[r].before

(* What an undisturbed deletion has yet to remove. *)
Undisturbed ==
  \A r \in Requests \ disturbed :
    /\ req[r].op = "delete subscriptions" => {id \in Ids : IsRow(id)} \subseteq req[r].left
    /\ req[r].op = "delete contents" =>
         /\ InCourse \subseteq req[r].left
         /\ {id \in Ids : IsRow(id)} = {}

Mine == /\ RowsInCourse /\ IdsTaken /\ SameUser
        /\ Alone /\ Once /\ NoneYet /\ OnlyRow /\ Fresh /\ CompletedKept

IInv == Types /\ Mine /\ Undisturbed
-----------------------------------------------------------------------------
(* Rows and requests.                                                      *)

(* What a place in the table may hold. *)
LEMMA PlaceIs ==
  ASSUME NEW x \in Rows \cup {NoRow, GoneRow}
  PROVE  /\ x \notin {NoRow, GoneRow} <=> x.user \in Users
         /\ x.user \in Users => x.role \in Roles /\ x.completed \subseteq Contents
         /\ x = NoRow => x.user = "none"
         /\ x = GoneRow => x.user = "removed"
<1>1. x = NoRow => x.user = "none"
  BY DEF NoRow
<1>2. x = GoneRow => x.user = "removed"
  BY DEF GoneRow
<1>3. x \in Rows => /\ x.user \in Users /\ x.role \in Roles
                    /\ x.completed \subseteq Contents
  BY DEF Rows
<1> QED BY <1>1, <1>2, <1>3, CourseAssumption

(* What a place in the table holds. *)
LEMMA RowIs ==
  ASSUME TypeOK, NEW id \in Ids
  PROVE  /\ IsRow(id) <=> sub[id].user \in Users
         /\ IsRow(id) => /\ sub[id] \in Rows /\ sub[id].role \in Roles
                         /\ sub[id].completed \subseteq Contents
<1>1. sub[id] \in Rows \cup {NoRow, GoneRow}
  BY DEF TypeOK
<1> QED BY <1>1, PlaceIs DEF IsRow

(* What a request may hold. *)
LEMMA RequestIs ==
  ASSUME NEW x \in Loaded
  PROVE  /\ x.op \in {"create", "subscribe", "complete", "unsubscribe"} => x.user \in Users
         /\ x.op \in {"complete", "unsubscribe", "expel", "role"} => x.id \in Ids
         /\ x.op = "complete" => x.before \subseteq Contents /\ x.after \subseteq Contents
         /\ x.op = "role" => x.role \in Roles
         /\ x.op = "delete subscriptions" => x.left \subseteq Ids
         /\ x.op = "delete contents" => x.left \subseteq Contents
         /\ x = Idle => x.op = "idle"
<1>2. x = Idle => x.op = "idle"
  BY DEF Idle
<1>3. x \in [op : {"create", "subscribe"}, user : Users] =>
        x.op \in {"create", "subscribe"} /\ x.user \in Users
  OBVIOUS
<1>4. x \in [op : {"complete"}, user : Users, id : Ids,
             before : SUBSET Contents, after : SUBSET Contents] =>
        /\ x.op = "complete" /\ x.user \in Users /\ x.id \in Ids
        /\ x.before \subseteq Contents /\ x.after \subseteq Contents
  OBVIOUS
<1>5. x \in [op : {"unsubscribe"}, user : Users, id : Ids] =>
        x.op = "unsubscribe" /\ x.user \in Users /\ x.id \in Ids
  OBVIOUS
<1>6. x \in [op : {"expel"}, id : Ids] => x.op = "expel" /\ x.id \in Ids
  OBVIOUS
<1>7. x \in [op : {"role"}, id : Ids, role : Roles] =>
        x.op = "role" /\ x.id \in Ids /\ x.role \in Roles
  OBVIOUS
<1>8. x \in [op : {"delete subscriptions"}, left : SUBSET Ids] =>
        x.op = "delete subscriptions" /\ x.left \subseteq Ids
  OBVIOUS
<1>9. x \in [op : {"delete contents"}, left : SUBSET Contents] =>
        x.op = "delete contents" /\ x.left \subseteq Contents
  OBVIOUS
<1>10. \/ x = Idle
       \/ x \in [op : {"create", "subscribe"}, user : Users]
       \/ x \in [op : {"complete"}, user : Users, id : Ids,
                 before : SUBSET Contents, after : SUBSET Contents]
       \/ x \in [op : {"unsubscribe"}, user : Users, id : Ids]
       \/ x \in [op : {"expel"}, id : Ids]
       \/ x \in [op : {"role"}, id : Ids, role : Roles]
       \/ x \in [op : {"delete subscriptions"}, left : SUBSET Ids]
       \/ x \in [op : {"delete contents"}, left : SUBSET Contents]
  BY DEF Loaded
<1>11. /\ x.op \in {"create", "subscribe", "complete", "unsubscribe"} => x.user \in Users
       /\ x.op \in {"complete", "unsubscribe", "expel", "role"} => x.id \in Ids
       /\ x.op = "complete" => x.before \subseteq Contents /\ x.after \subseteq Contents
       /\ x.op = "role" => x.role \in Roles
       /\ x.op = "delete subscriptions" => x.left \subseteq Ids
       /\ x.op = "delete contents" => x.left \subseteq Contents
       /\ x = Idle => x.op = "idle"
  <2>1. CASE x = Idle
    BY <1>2, <2>1
  <2>2. CASE x.op \in {"create", "subscribe"} /\ x.user \in Users
    BY <1>2, <2>2
  <2>3. CASE x.op \in {"complete", "unsubscribe", "expel", "role"}
    BY <1>2, <1>3, <1>4, <1>5, <1>6, <1>7, <1>8, <1>9, <1>10, <2>3
  <2>4. CASE x.op \in {"delete subscriptions", "delete contents"}
    BY <1>2, <1>3, <1>4, <1>5, <1>6, <1>7, <1>8, <1>9, <1>10, <2>4
  <2> QED BY <1>3, <1>4, <1>5, <1>6, <1>7, <1>8, <1>9, <1>10, <2>1, <2>2, <2>3, <2>4
<1> QED BY <1>11

(* What a request that is under way holds, in the state. *)
LEMMA LoadedIs ==
  ASSUME TypeOK, NEW r \in Requests
  PROVE  /\ req[r].op \in {"create", "subscribe", "complete", "unsubscribe"} =>
              req[r].user \in Users
         /\ req[r].op \in {"complete", "unsubscribe", "expel", "role"} =>
              req[r].id \in Ids
         /\ req[r].op = "complete" =>
              req[r].before \subseteq Contents /\ req[r].after \subseteq Contents
         /\ req[r].op = "role" => req[r].role \in Roles
         /\ req[r].op = "delete subscriptions" => req[r].left \subseteq Ids
         /\ req[r].op = "delete contents" => req[r].left \subseteq Contents
         /\ req[r] = Idle => req[r].op = "idle"
<1>1. req[r] \in Loaded
  BY DEF TypeOK
<1> QED BY <1>1, RequestIs

-----------------------------------------------------------------------------
(* Type correctness.                                                       *)

(* At the start. *)
LEMMA InitTypes == Init => Types
<1> SUFFICES ASSUME Init PROVE Types
  OBVIOUS
<1>1. req \in [Requests -> Loaded]
  BY DEF Init, Loaded
<1>2. \A id \in Ids : ~IsRow(id)
  BY DEF Init, IsRow
<1>3. TypeOK
  BY <1>1, <1>2 DEF Init, TypeOK
<1>4. ChangesWithin
  BY DEF Init, ChangesWithin, Idle
<1> QED BY <1>3, <1>4 DEF Types

(* The history when a user's request starts. *)
LEMMA StartsTypes ==
  ASSUME TypeOK, NEW u \in Users, Starts(u)
  PROVE  overlapped' \subseteq Users /\ done' \in [Users -> SUBSET Contents]
BY DEF TypeOK, Starts

(* A request that holds something else. *)
LEMMA BeginTypes ==
  ASSUME Types, NEW r \in Requests, NEW what \in Loaded, Begin(r, what),
         what.op = "complete" =>
           \A c \in what.before \cup what.after : content[c] # "none",
         UNCHANGED <<course, content, sub>>,
         overlapped' \subseteq Users, done' \in [Users -> SUBSET Contents],
         disturbed' \subseteq Requests
  PROVE  Types'
<1>1. req' = [req EXCEPT ![r] = what]
  BY DEF Begin
<1>2. req' \in [Requests -> Loaded]
  BY <1>1 DEF Types, TypeOK
<1>3. \A id \in Ids : IsRow(id)' <=> IsRow(id)
  BY DEF IsRow
<1>4. TypeOK'
  BY <1>2, <1>3 DEF Types, TypeOK
<1>5. ChangesWithin'
  BY <1>1 DEF Types, TypeOK, ChangesWithin
<1> QED BY <1>4, <1>5 DEF Types

(* A request that is over or goes on, and has changed rows in a typed way. *)
LEMMA StepTypes ==
  ASSUME Types, NEW r \in Requests, NEW what \in Loaded, what.op # "complete",
         req' = [req EXCEPT ![r] = what],
         course' \in {"no", "yes", "gone"},
         content' \in [Contents -> {"none", "hidden", "published", "removed"}],
         \A c \in Contents : content[c] # "none" => content'[c] # "none",
         sub' \in [Ids -> Rows \cup {NoRow, GoneRow}],
         \A id \in Ids : IsRow(id)' =>
           \A c \in sub'[id].completed : content[c] # "none",
         overlapped' \subseteq Users, done' \in [Users -> SUBSET Contents],
         disturbed' \subseteq Requests
  PROVE  Types'
<1>1. req' \in [Requests -> Loaded]
  BY DEF Types, TypeOK
<1>2. \A id \in Ids : IsRow(id)' => sub'[id].completed \subseteq Contents
  BY DEF IsRow, Rows
<1>3. TypeOK'
  BY <1>1, <1>2 DEF Types, TypeOK
<1>4. \A s \in Requests : req'[s].op = "complete" =>
        req'[s] = req[s] /\ req[s].before \cup req[s].after \subseteq Contents
  BY LoadedIs DEF Types, TypeOK
<1>5. ChangesWithin'
  BY <1>4 DEF Types, ChangesWithin
<1> QED BY <1>3, <1>5 DEF Types

(* A request that is over. *)
LEMMA EndTypes ==
  ASSUME Types, NEW r \in Requests, End(r),
         course' \in {"no", "yes", "gone"}, UNCHANGED content,
         sub' \in [Ids -> Rows \cup {NoRow, GoneRow}],
         \A id \in Ids : IsRow(id)' =>
           \A c \in sub'[id].completed : content[c] # "none",
         overlapped' \subseteq Users, done' \in [Users -> SUBSET Contents],
         disturbed' \subseteq Requests
  PROVE  Types'
<1>1. Idle \in Loaded /\ Idle.op # "complete"
  BY DEF Loaded, Idle
<1> QED BY <1>1, StepTypes DEF End, Types, TypeOK

(* The calls that load. *)
LEMMA CallTypes ==
  ASSUME Types, NEW r \in Requests, NEW u \in Users, Call(r, u)
  PROVE  Types'
<1> USE StartsTypes DEF Types
<1>1. CASE acl_create(r, u)
  <2> DEFINE what == [op |-> "create", user |-> u]
  <2>1. what \in Loaded /\ req' = [req EXCEPT ![r] = what]
    BY <1>1 DEF acl_create, Begin, Loaded
  <2>2. /\ course' = "yes" /\ UNCHANGED <<content, sub, disturbed>>
        /\ overlapped' \subseteq Users /\ done' \in [Users -> SUBSET Contents]
    BY <1>1 DEF acl_create
  <2>3. \A id \in Ids : IsRow(id)' <=> IsRow(id)
    BY <2>2 DEF IsRow
  <2>4. req' \in [Requests -> Loaded]
    BY <2>1 DEF TypeOK
  <2>5. TypeOK'
    BY <2>2, <2>3, <2>4 DEF TypeOK
  <2>6. ChangesWithin'
    BY <2>1, <2>2 DEF TypeOK, ChangesWithin
  <2> QED BY <2>5, <2>6
<1>2. CASE acl_subscribe(r, u)
  <2> DEFINE what == [op |-> "subscribe", user |-> u]
  <2>1. what \in Loaded /\ Begin(r, what) /\ what.op = "subscribe"
    BY <1>2 DEF acl_subscribe, Loaded
  <2> QED BY <1>2, <2>1, BeginTypes DEF acl_subscribe, TypeOK
<1>3. CASE acl_unsubscribe(r, u)
  <2>1. PICK id \in RowsOf(u) : Begin(r, [op |-> "unsubscribe", user |-> u, id |-> id])
    BY <1>3 DEF acl_unsubscribe
  <2> DEFINE what == [op |-> "unsubscribe", user |-> u, id |-> id]
  <2>2. what \in Loaded /\ what.op = "unsubscribe"
    BY DEF Loaded, RowsOf
  <2> QED BY <1>3, <2>1, <2>2, BeginTypes DEF acl_unsubscribe, TypeOK
<1>4. CASE acl_delete(r, u)
  <2> DEFINE what == [op |-> "delete subscriptions", left |-> {id \in Ids : IsRow(id)}]
  <2>1. what \in Loaded /\ what.op = "delete subscriptions" /\ Begin(r, what)
    BY <1>4 DEF acl_delete, Loaded
  <2>2. disturbed' \subseteq Requests
    BY <1>4 DEF acl_delete, TypeOK
  <2> QED BY <1>4, <2>1, <2>2, BeginTypes DEF acl_delete, TypeOK
<1>5. ASSUME NEW id \in RowsOf(u), NEW after \in SUBSET Contents, Change(r, u, id, after),
             \A c \in after : content[c] # "none"
      PROVE  Types'
  <2> DEFINE what == [op |-> "complete", user |-> u, id |-> id,
                      before |-> sub[id].completed, after |-> after]
  <2>1. id \in Ids /\ IsRow(id)
    BY RowIs DEF RowsOf
  <2>2. sub[id].completed \subseteq Contents /\ \A c \in sub[id].completed : content[c] # "none"
    BY <2>1, RowIs DEF TypeOK
  <2>3. what \in Loaded
    BY <2>1, <2>2 DEF Loaded
  <2>4. Begin(r, what)
    BY <1>5 DEF Change
  <2>5. \A c \in what.before \cup what.after : content[c] # "none"
    BY <1>5, <2>2
  <2> HIDE DEF what
  <2> QED BY <1>5, <2>3, <2>4, <2>5, BeginTypes DEF Change, TypeOK
<1>6. ASSUME NEW c \in Contents, acl_completeContent(r, u, c)
      PROVE  Types'
  <2>1. PICK id \in RowsOf(u) : Change(r, u, id, sub[id].completed \cup {c})
    BY <1>6 DEF acl_completeContent
  <2>2. content[c] # "none" /\ id \in Ids /\ IsRow(id)
    BY <1>6, RowIs DEF acl_completeContent, InCourse, RowsOf
  <2>3. /\ sub[id].completed \cup {c} \in SUBSET Contents
        /\ \A d \in sub[id].completed \cup {c} : content[d] # "none"
    BY <2>2, RowIs DEF TypeOK
  <2> QED BY <1>5, <2>1, <2>3
<1>7. ASSUME NEW c \in Contents, acl_uncompleteContent(r, u, c)
      PROVE  Types'
  <2>1. PICK id \in RowsOf(u) : Change(r, u, id, sub[id].completed \ {c})
    BY <1>7 DEF acl_uncompleteContent
  <2>2. id \in Ids /\ IsRow(id)
    BY RowIs DEF RowsOf
  <2>3. /\ sub[id].completed \ {c} \in SUBSET Contents
        /\ \A d \in sub[id].completed \ {c} : content[d] # "none"
    BY <2>2, RowIs DEF TypeOK
  <2> QED BY <1>5, <2>1, <2>3
<1> QED BY <1>1, <1>2, <1>3, <1>4, <1>6, <1>7 DEF Call

(* The calls of a provider that load. *)
LEMMA ProviderCallTypes ==
  ASSUME Types, NEW r \in Requests, ProviderCall(r)
  PROVE  Types'
<1> USE DEF Types
<1>1. PICK id \in Ids :
        acl_providerDeleteSubscription(r, id) \/ acl_providerUpdateSubscriptionRole(r, id)
  BY DEF ProviderCall
<1>2. CASE acl_providerDeleteSubscription(r, id)
  <2> DEFINE what == [op |-> "expel", id |-> id]
  <2>1. what \in Loaded /\ what.op = "expel"
    BY DEF Loaded
  <2> QED BY <1>2, <2>1, BeginTypes DEF acl_providerDeleteSubscription, TypeOK
<1>3. CASE acl_providerUpdateSubscriptionRole(r, id)
  <2>1. PICK role \in Roles : Begin(r, [op |-> "role", id |-> id, role |-> role])
    BY <1>3 DEF acl_providerUpdateSubscriptionRole
  <2> DEFINE what == [op |-> "role", id |-> id, role |-> role]
  <2>2. what \in Loaded /\ what.op = "role"
    BY DEF Loaded
  <2> QED BY <1>3, <2>1, <2>2, BeginTypes DEF acl_providerUpdateSubscriptionRole, TypeOK
<1> QED BY <1>1, <1>2, <1>3

(* A row that is inserted completed nothing. *)
LEMMA InsertTypes ==
  ASSUME Types, NEW u \in Users, NEW role \in Roles, Insert(u, role)
  PROVE  /\ sub' \in [Ids -> Rows \cup {NoRow, GoneRow}]
         /\ \A id \in Ids : IsRow(id)' =>
              \A c \in sub'[id].completed : content[c] # "none"
         /\ done' \in [Users -> SUBSET Contents]
<1>1. PICK id \in Ids :
        sub' = [sub EXCEPT ![id] = [user |-> u, role |-> role, completed |-> {}]]
  BY DEF Insert
<1>2. [user |-> u, role |-> role, completed |-> {}] \in Rows
  BY DEF Rows
<1>3. sub' \in [Ids -> Rows \cup {NoRow, GoneRow}]
  BY <1>1, <1>2 DEF Types, TypeOK
<1>4. \A i \in Ids \ {id} : sub'[i] = sub[i]
  BY <1>1 DEF Types, TypeOK
<1>5. sub'[id].completed = {}
  BY <1>1 DEF Types, TypeOK
<1>6. \A i \in Ids : IsRow(i)' => \A c \in sub'[i].completed : content[c] # "none"
  BY <1>4, <1>5 DEF Types, TypeOK, IsRow
<1>7. done' \in [Users -> SUBSET Contents]
  BY DEF Insert, Types, TypeOK
<1> QED BY <1>3, <1>6, <1>7

(* A row that goes. *)
LEMMA GoneTypes ==
  ASSUME Types, NEW id \in Ids, sub' = [sub EXCEPT ![id] = GoneRow]
  PROVE  /\ sub' \in [Ids -> Rows \cup {NoRow, GoneRow}]
         /\ \A i \in Ids : IsRow(i)' =>
              i # id /\ IsRow(i) /\ sub'[i] = sub[i]
         /\ \A i \in Ids : IsRow(i)' =>
              \A c \in sub'[i].completed : content[c] # "none"
<1>1. sub' \in [Ids -> Rows \cup {NoRow, GoneRow}]
  BY DEF Types, TypeOK
<1>2. \A i \in Ids : IsRow(i)' => i # id /\ IsRow(i) /\ sub'[i] = sub[i]
  BY DEF Types, TypeOK, IsRow
<1> QED BY <1>1, <1>2 DEF Types, TypeOK

(* A row one of whose columns is written. *)
LEMMA ColumnTypes ==
  ASSUME Types, NEW id \in Ids, IsRow(id), NEW role \in Roles,
         NEW completed \in SUBSET Contents,
         \/ sub' = [sub EXCEPT ![id].role = role] /\ completed = sub[id].completed
         \/ sub' = [sub EXCEPT ![id].completed = completed] /\ role = sub[id].role
  PROVE  /\ sub' = [sub EXCEPT ![id] = [user |-> sub[id].user, role |-> role,
                                        completed |-> completed]]
         /\ sub' \in [Ids -> Rows \cup {NoRow, GoneRow}]
<1>1. sub[id] \in Rows /\ sub \in [Ids -> Rows \cup {NoRow, GoneRow}]
  BY RowIs DEF Types, TypeOK
<1>2. sub[id] = [user |-> sub[id].user, role |-> sub[id].role, completed |-> sub[id].completed]
  BY <1>1 DEF Rows
<1>3. sub' = [sub EXCEPT ![id] = [user |-> sub[id].user, role |-> role,
                                  completed |-> completed]]
  BY <1>1, <1>2
<1>4. [user |-> sub[id].user, role |-> role, completed |-> completed] \in Rows
  BY <1>1 DEF Rows
<1> QED BY <1>1, <1>3, <1>4

(* The column of completed contents. *)
LEMMA CompletedColumn ==
  ASSUME Types, NEW id \in Ids, IsRow(id), NEW completed \in SUBSET Contents,
         sub' = [sub EXCEPT ![id].completed = completed]
  PROVE  sub' = [sub EXCEPT ![id] = [user |-> sub[id].user, role |-> sub[id].role,
                                     completed |-> completed]]
<1>1. sub[id] \in Rows /\ sub \in [Ids -> Rows \cup {NoRow, GoneRow}]
  BY RowIs DEF Types, TypeOK
<1>2. sub[id] = [user |-> sub[id].user, role |-> sub[id].role, completed |-> sub[id].completed]
  BY <1>1 DEF Rows
<1>3. [sub[id] EXCEPT !.completed = completed]
        = [user |-> sub[id].user, role |-> sub[id].role, completed |-> completed]
  <2> DEFINE row == sub[id]
             u == row.user
             role == row.role
             before == row.completed
  <2>1. row = [user |-> u, role |-> role, completed |-> before]
    BY <1>2
  <2> HIDE DEF u, role, before, row
  <2>2. [row EXCEPT !.completed = completed]
          = [user |-> u, role |-> role, completed |-> completed]
    BY <2>1
  <2> QED BY <2>2 DEF u, role, row
<1> QED BY <1>1, <1>3

(* Rows that stay as they are. *)
LEMMA SameRows ==
  ASSUME Types, UNCHANGED sub
  PROVE  /\ sub' \in [Ids -> Rows \cup {NoRow, GoneRow}]
         /\ \A i \in Ids : IsRow(i)' <=> IsRow(i)
         /\ \A i \in Ids : IsRow(i)' =>
              \A c \in sub'[i].completed : content[c] # "none"
BY DEF Types, TypeOK, IsRow

(* The flushes of a user's or a provider's request. *)
LEMMA FlushTypes ==
  ASSUME Types, NEW r \in Requests,
         \/ acl_create_subscription(r) \/ acl_subscribe_flush(r)
         \/ remove_flush(r) \/ acl_providerUpdateSubscriptionRole_flush(r)
         \/ completeContent_flush(r)
  PROVE  Types'
<1> USE DEF Types
<1>0. /\ course \in {"no", "yes", "gone"} /\ overlapped \subseteq Users
      /\ done \in [Users -> SUBSET Contents] /\ disturbed \subseteq Requests
  BY DEF TypeOK
<1>1. ASSUME NEW role \in Roles, req[r].op \in {"create", "subscribe"}, End(r),
             IF course = "yes" THEN Insert(req[r].user, role) /\ RowAdded
                               ELSE UNCHANGED <<sub, done, disturbed>>,
             UNCHANGED <<course, content, overlapped>>
      PROVE  Types'
  <2>1. req[r].user \in Users
    BY <1>1, LoadedIs
  <2>2. CASE course = "yes"
    <3>1. disturbed' \subseteq Requests
      BY <1>0, <1>1, <2>2 DEF RowAdded
    <3> QED BY <1>0, <1>1, <2>1, <2>2, <3>1, InsertTypes, EndTypes
  <2>3. CASE course # "yes"
    BY <1>0, <1>1, <2>3, SameRows, EndTypes
  <2> QED BY <2>2, <2>3
<1>2. CASE acl_create_subscription(r)
  BY <1>1, <1>2 DEF acl_create_subscription, Roles
<1>3. CASE acl_subscribe_flush(r)
  BY <1>1, <1>3 DEF acl_subscribe_flush, Roles
<1>4. CASE remove_flush(r)
  <2>1. req[r].id \in Ids
    BY <1>4, LoadedIs DEF remove_flush
  <2>2. sub' = [sub EXCEPT ![req[r].id] = GoneRow]
    BY <1>4 DEF remove_flush
  <2> QED BY <1>0, <1>4, <2>1, <2>2, GoneTypes, EndTypes DEF remove_flush
<1>5. CASE acl_providerUpdateSubscriptionRole_flush(r)
  <2> DEFINE id == req[r].id
  <2>1. id \in Ids /\ req[r].role \in Roles
    BY <1>5, LoadedIs DEF acl_providerUpdateSubscriptionRole_flush
  <2>2. /\ End(r) /\ UNCHANGED <<course, content, overlapped, done, disturbed>>
        /\ sub' = IF IsRow(id) THEN [sub EXCEPT ![id].role = req[r].role] ELSE sub
    BY <1>5 DEF acl_providerUpdateSubscriptionRole_flush
  <2>3. CASE ~IsRow(id)
    BY <1>0, <2>2, <2>3, SameRows, EndTypes
  <2>4. CASE IsRow(id)
    <3>1. sub[id].completed \in SUBSET Contents
      BY <2>1, <2>4, RowIs
    <3>2. /\ sub' = [sub EXCEPT ![id] = [user |-> sub[id].user, role |-> req[r].role,
                                         completed |-> sub[id].completed]]
          /\ sub' \in [Ids -> Rows \cup {NoRow, GoneRow}]
      BY <2>1, <2>2, <2>4, <3>1, ColumnTypes
    <3>3. \A i \in Ids : IsRow(i)' => IsRow(i) /\ sub'[i].completed = sub[i].completed
      BY <2>1, <2>4, <3>2 DEF IsRow, TypeOK
    <3>4. \A i \in Ids : IsRow(i)' => \A c \in sub'[i].completed : content[c] # "none"
      BY <3>3 DEF TypeOK
    <3> QED BY <1>0, <2>2, <3>2, <3>4, EndTypes
  <2> QED BY <2>3, <2>4
<1>6. CASE completeContent_flush(r)
  <2> DEFINE id == req[r].id
  <2>1. /\ id \in Ids /\ req[r].before \subseteq Contents /\ req[r].after \subseteq Contents
        /\ req[r].op = "complete"
    BY <1>6, LoadedIs DEF completeContent_flush
  <2>2. /\ End(r) /\ UNCHANGED <<course, content, overlapped, disturbed>>
        /\ ~IsRow(id) => UNCHANGED <<sub, done>>
        /\ IsRow(id) => sub' = [sub EXCEPT ![id].completed = req[r].after]
    BY <1>6 DEF completeContent_flush
  <2>3. done' \in [Users -> SUBSET Contents]
    BY <1>0, <1>6, <2>1 DEF completeContent_flush
  <2>4. CASE ~IsRow(id)
    BY <1>0, <2>2, <2>4, SameRows, EndTypes
  <2>5. CASE IsRow(id)
    <3>1. sub[id].role \in Roles
      BY <2>1, <2>5, RowIs
    <3>2. /\ sub' = [sub EXCEPT ![id] = [user |-> sub[id].user, role |-> sub[id].role,
                                         completed |-> req[r].after]]
          /\ sub' \in [Ids -> Rows \cup {NoRow, GoneRow}]
      BY <2>1, <2>2, <2>5, <3>1, ColumnTypes
    <3>3. \A i \in Ids : IsRow(i)' =>
            \/ IsRow(i) /\ sub'[i].completed = sub[i].completed
            \/ sub'[i].completed = req[r].after
      BY <2>1, <3>2 DEF IsRow, TypeOK
    <3>4. \A c \in req[r].after : content[c] # "none"
      BY <2>1 DEF ChangesWithin
    <3>5. \A i \in Ids : IsRow(i)' => \A c \in sub'[i].completed : content[c] # "none"
      BY <3>3, <3>4 DEF TypeOK
    <3> QED BY <1>0, <2>2, <2>3, <3>2, <3>5, EndTypes
  <2> QED BY <2>4, <2>5
<1> QED BY <1>2, <1>3, <1>4, <1>5, <1>6

(* The request of a deletion is its op and what is left to remove. *)
LEMMA LeftIs ==
  ASSUME TypeOK, NEW r \in Requests,
         req[r].op \in {"delete subscriptions", "delete contents"}
  PROVE  req[r] = [op |-> req[r].op, left |-> req[r].left]
<1> DEFINE x == req[r]
<1>1. x \in Loaded
  BY DEF TypeOK
<1>2. x.op \in {"delete subscriptions", "delete contents"}
  OBVIOUS
<1>0. Idle.op = "idle"
  BY DEF Idle
<1> HIDE DEF x
<1>3. \/ x \in [op : {"delete subscriptions"}, left : SUBSET Ids]
      \/ x \in [op : {"delete contents"}, left : SUBSET Contents]
  <2>1. x # Idle
    BY <1>0, <1>2
  <2>2. x \notin [op : {"create", "subscribe"}, user : Users]
    BY <1>2
  <2>3. x \notin [op : {"complete"}, user : Users, id : Ids,
                  before : SUBSET Contents, after : SUBSET Contents]
    BY <1>2
  <2>4. x \notin [op : {"unsubscribe"}, user : Users, id : Ids]
    BY <1>2
  <2>5. x \notin [op : {"expel"}, id : Ids]
    BY <1>2
  <2>6. x \notin [op : {"role"}, id : Ids, role : Roles]
    BY <1>2
  <2> QED BY <1>1, <2>1, <2>2, <2>3, <2>4, <2>5, <2>6 DEF Loaded
<1>4. x = [op |-> x.op, left |-> x.left]
  <2>1. x \in [op : {"delete subscriptions"}, left : SUBSET Ids] =>
          x = [op |-> x.op, left |-> x.left]
    OBVIOUS
  <2>2. x \in [op : {"delete contents"}, left : SUBSET Contents] =>
          x = [op |-> x.op, left |-> x.left]
    OBVIOUS
  <2> QED BY <1>3, <2>1, <2>2
<1> QED BY <1>4 DEF x

(* An update of what is left. *)
LEMMA LeftWithout ==
  ASSUME NEW op, NEW y, NEW x, y = [op |-> op, left |-> y.left]
  PROVE  [y EXCEPT !.left = @ \ {x}] = [op |-> op, left |-> y.left \ {x}]
<1> DEFINE left == y.left
<1>1. y = [op |-> op, left |-> left]
  OBVIOUS
<1> HIDE DEF left
<1>2. [y EXCEPT !.left = left \ {x}] = [op |-> op, left |-> left \ {x}]
  BY <1>1
<1> QED BY <1>2 DEF left

(* The steps of a deletion. *)
LEMMA DeletionTypes ==
  ASSUME Types, NEW r \in Requests,
         \/ acl_delete_subscription(r) \/ acl_delete_contents(r)
         \/ acl_delete_content(r) \/ acl_delete_course(r) \/ request_dies(r)
  PROVE  Types'
<1> USE DEF Types
<1>0. /\ course \in {"no", "yes", "gone"} /\ overlapped \subseteq Users
      /\ done \in [Users -> SUBSET Contents] /\ disturbed \subseteq Requests
      /\ content \in [Contents -> {"none", "hidden", "published", "removed"}]
  BY DEF TypeOK
<1>1. CASE acl_delete_subscription(r)
  <2>1. req[r].left \subseteq Ids /\ req[r] \in Loaded
    BY <1>1, LoadedIs DEF acl_delete_subscription, TypeOK
  <2>2. PICK id \in req[r].left :
          sub' = [sub EXCEPT ![id] = GoneRow] /\ req' = [req EXCEPT ![r].left = @ \ {id}]
    BY <1>1 DEF acl_delete_subscription
  <2> DEFINE what == [op |-> "delete subscriptions", left |-> req[r].left \ {id}]
  <2>3. req[r].op = "delete subscriptions"
    BY <1>1 DEF acl_delete_subscription
  <2>4. [req[r] EXCEPT !.left = @ \ {id}] = what
    <3> DEFINE y == req[r]
    <3>1. y = [op |-> "delete subscriptions", left |-> y.left]
      BY <2>3, LeftIs
    <3> HIDE DEF y
    <3>2. [y EXCEPT !.left = y.left \ {id}] = [op |-> "delete subscriptions", left |-> y.left \ {id}]
      BY <3>1, LeftWithout
    <3> QED BY <3>2 DEF y
  <2>5. req' = [req EXCEPT ![r] = what]
    BY <2>2, <2>4
  <2>6. what \in Loaded /\ what.op # "complete"
    BY <2>1 DEF Loaded
  <2>7. id \in Ids /\ UNCHANGED <<course, content, overlapped, done, disturbed>>
    BY <1>1, <2>1, <2>2 DEF acl_delete_subscription
  <2> HIDE DEF what
  <2> QED BY <1>0, <2>2, <2>5, <2>6, <2>7, GoneTypes, StepTypes
<1>2. CASE acl_delete_contents(r)
  <2> DEFINE what == [op |-> "delete contents", left |-> InCourse]
  <2>1. what \in Loaded /\ what.op # "complete"
    BY DEF Loaded, InCourse
  <2>2. /\ req' = [req EXCEPT ![r] = what]
        /\ UNCHANGED <<course, content, sub, overlapped, done, disturbed>>
    BY <1>2 DEF acl_delete_contents
  <2> HIDE DEF what
  <2> QED BY <1>0, <2>1, <2>2, SameRows, StepTypes
<1>3. CASE acl_delete_content(r)
  <2>1. req[r].left \subseteq Contents /\ req[r] \in Loaded
    BY <1>3, LoadedIs DEF acl_delete_content, TypeOK
  <2>2. PICK c \in req[r].left :
          /\ content' = [content EXCEPT ![c] = "removed"]
          /\ req' = [req EXCEPT ![r].left = @ \ {c}]
    BY <1>3 DEF acl_delete_content
  <2> DEFINE what == [op |-> "delete contents", left |-> req[r].left \ {c}]
  <2>3. req[r].op = "delete contents"
    BY <1>3 DEF acl_delete_content
  <2>4. [req[r] EXCEPT !.left = @ \ {c}] = what
    <3> DEFINE y == req[r]
    <3>1. y = [op |-> "delete contents", left |-> y.left]
      BY <2>3, LeftIs
    <3> HIDE DEF y
    <3>2. [y EXCEPT !.left = y.left \ {c}] = [op |-> "delete contents", left |-> y.left \ {c}]
      BY <3>1, LeftWithout
    <3> QED BY <3>2 DEF y
  <2>5. req' = [req EXCEPT ![r] = what]
    BY <2>2, <2>4
  <2>6. what \in Loaded /\ what.op # "complete"
    BY <2>1 DEF Loaded
  <2>7. /\ content' \in [Contents -> {"none", "hidden", "published", "removed"}]
        /\ \A d \in Contents : content[d] # "none" => content'[d] # "none"
    BY <1>0, <2>1, <2>2
  <2> QED BY <1>0, <1>3, <2>5, <2>6, <2>7, SameRows, StepTypes DEF acl_delete_content
<1>4. CASE acl_delete_course(r)
  BY <1>0, <1>4, SameRows, EndTypes DEF acl_delete_course
<1>5. CASE request_dies(r)
  BY <1>0, <1>5, SameRows, EndTypes DEF request_dies
<1> QED BY <1>1, <1>2, <1>3, <1>4, <1>5

(* The contents come and go. *)
LEMMA ContentTypes ==
  ASSUME Types, ContentStep
  PROVE  Types'
<1> USE DEF Types
<1>1. PICK c \in Contents :
        content_create(c) \/ acl_publish(c) \/ acl_unpublish(c) \/ content_delete(c)
  BY DEF ContentStep
<1>2. /\ content' \in [Contents -> {"none", "hidden", "published", "removed"}]
      /\ \A d \in Contents : content[d] # "none" => content'[d] # "none"
      /\ disturbed' \subseteq Requests
      /\ UNCHANGED <<course, sub, req, overlapped, done>>
  BY <1>1 DEF content_create, acl_publish, acl_unpublish, content_delete, TypeOK,
              RowAdded, InCourse
<1>3. \A i \in Ids : IsRow(i)' => sub'[i].completed \subseteq Contents /\ IsRow(i)
  BY <1>2, SameRows, RowIs
<1>4. TypeOK'
  BY <1>2, <1>3 DEF TypeOK
<1>5. ChangesWithin'
  BY <1>2, LoadedIs DEF ChangesWithin
<1> QED BY <1>4, <1>5

(* Every step. *)
LEMMA NextTypes ==
  ASSUME Types, [Next]_vars
  PROVE  Types'
<1>1. CASE UNCHANGED vars
  BY <1>1 DEF Types, TypeOK, ChangesWithin, vars, IsRow
<1>2. ASSUME NEW r \in Requests, Flush(r)
      PROVE  Types'
  BY <1>2, FlushTypes, DeletionTypes DEF Flush
<1> QED BY <1>1, <1>2, CallTypes, ProviderCallTypes, ContentTypes DEF Next

(* Every reachable state of a course is well typed, and completed contents *)
(* are contents that were once in the course, however requests overlap.    *)
THEOREM TypeCorrect == Spec => []TypeOK
<1>1. Spec => []Types
  BY InitTypes, NextTypes, PTL DEF Spec
<1>2. Types => TypeOK
  BY DEF Types
<1> QED BY <1>1, <1>2, PTL

-----------------------------------------------------------------------------
(* What a user may rely on whose own requests do not overlap.              *)

(* At the start. *)
LEMMA InitMine == Init => Mine
<1> SUFFICES ASSUME Init PROVE Mine
  OBVIOUS
<1>1. \A r \in Requests : req[r].op = "idle"
  BY DEF Init, Idle
<1>2. \A u \in Users : RowsOf(u) = {}
  BY CourseAssumption DEF Init, RowsOf, NoRow
<1>3. RowsInCourse /\ IdsTaken /\ SameUser
  BY <1>1 DEF Init, RowsInCourse, IdsTaken, SameUser
<1>4. Alone /\ Once /\ NoneYet /\ OnlyRow /\ Fresh
  BY <1>1, <1>2 DEF Alone, Own, Once, NoneYet, OnlyRow, Fresh
<1>5. CompletedKept
  BY <1>2 DEF CompletedKept
<1> QED BY <1>3, <1>4, <1>5 DEF Mine

(* A request that goes on as it was, or holds nothing of a user's own. *)
Quiet(r) ==
  \/ req'[r] = req[r]
  \/ req'[r].op \in {"idle", "delete contents"}
  \/ req'[r].op \in {"expel", "role"} /\ sub[req'[r].id] # NoRow
  \/ /\ req'[r].op = "delete subscriptions"
     /\ \A id \in req'[r].left : sub[id] # NoRow

(* No row is added, and none changes its user. *)
NoNewRow ==
  \A id \in Ids : /\ sub'[id].user \in {sub[id].user, "removed"}
                  /\ sub'[id] = NoRow <=> sub[id] = NoRow

(* Quiet steps that keep what was completed. *)
LEMMA QuietMine ==
  ASSUME Types, Types', Mine, \A r \in Requests : Quiet(r), NoNewRow,
         course' = "no" => course = "no",
         \A id \in Ids : IsRow(id)' => sub'[id].completed = sub[id].completed,
         UNCHANGED <<overlapped, done>>
  PROVE  Mine'
<1> USE DEF Types
<1>0. /\ \A id \in Ids : IsRow(id)' <=> sub'[id].user \in Users
      /\ \A r \in Requests : req'[r].op \in {"expel", "role"} => req'[r].id \in Ids
      /\ \A r \in Requests : req'[r].op = "delete subscriptions" => req'[r].left \subseteq Ids
  <2>1. /\ \A id \in Ids : sub'[id] \in Rows \cup {NoRow, GoneRow}
        /\ \A r \in Requests : req'[r] \in Loaded
    BY DEF TypeOK
  <2> QED BY <2>1, PlaceIs, RequestIs DEF IsRow
<1>1. \A id \in Ids : IsRow(id)' => IsRow(id) /\ sub'[id].user = sub[id].user
  BY <1>0, RowIs, CourseAssumption DEF NoNewRow
<1>2. \A u \in Users : RowsOf(u)' \subseteq RowsOf(u)
  BY CourseAssumption DEF RowsOf, NoNewRow
<1>3. \A r \in Requests :
        req'[r].op \in {"create", "subscribe", "complete", "unsubscribe"} => req'[r] = req[r]
  BY DEF Quiet
<1>4. RowsInCourse'
  BY DEF RowsInCourse, Mine, NoNewRow
<1>5. IdsTaken'
  BY <1>0, LoadedIs DEF IdsTaken, Mine, NoNewRow, Quiet
<1>6. SameUser'
  BY <1>3, LoadedIs DEF SameUser, Mine, NoNewRow
<1>7. Alone'
  BY <1>3 DEF Alone, Own, Mine
<1>8. Once'
  BY <1>2 DEF Once, Mine
<1>9. NoneYet' /\ OnlyRow'
  BY <1>2, <1>3, LoadedIs DEF NoneYet, OnlyRow, Mine
<1>10. Fresh'
  BY <1>1, <1>3, LoadedIs DEF Fresh, Mine
<1>11. CompletedKept'
  <2>1. \A u \in Users : \A id \in RowsOf(u)' : id \in Ids /\ IsRow(id)'
    BY <1>0 DEF RowsOf
  <2> QED BY <1>2, <2>1 DEF CompletedKept, Mine
<1> QED BY <1>4, <1>5, <1>6, <1>7, <1>8, <1>9, <1>10, <1>11 DEF Mine

(* A request that is over is quiet, and so are all the others. *)
LEMMA EndQuiet ==
  ASSUME Types, NEW r \in Requests, End(r)
  PROVE  \A s \in Requests : Quiet(s)
BY DEF Types, TypeOK, End, Quiet, Idle

(* Steps that leave the rows. *)
LEMMA SameQuiet ==
  ASSUME UNCHANGED sub
  PROVE  /\ NoNewRow
         /\ \A id \in Ids : IsRow(id)' => sub'[id].completed = sub[id].completed
BY DEF NoNewRow

(* A row that goes, which has been inserted. *)
LEMMA GoneQuiet ==
  ASSUME Types, NEW id \in Ids, sub[id] # NoRow, sub' = [sub EXCEPT ![id] = GoneRow]
  PROVE  /\ NoNewRow
         /\ \A i \in Ids : IsRow(i)' => sub'[i].completed = sub[i].completed
<1>1. GoneRow.user = "removed" /\ GoneRow # NoRow
  BY DEF GoneRow, NoRow
<1>2. NoNewRow
  BY <1>1 DEF NoNewRow, Types, TypeOK
<1>3. \A i \in Ids : IsRow(i)' => sub'[i].completed = sub[i].completed
  BY GoneTypes
<1> QED BY <1>2, <1>3

(* Calls of providers and of administrators. *)
LEMMA ProviderMine ==
  ASSUME Types, Mine, NEW r \in Requests,
         ProviderCall(r) \/ \E u \in Users : acl_delete(r, u)
  PROVE  Mine'
<1>1. Types'
  BY ProviderCallTypes, CallTypes DEF Call
<1>2. UNCHANGED <<course, sub, overlapped, done>>
  BY DEF ProviderCall, acl_providerDeleteSubscription,
         acl_providerUpdateSubscriptionRole, acl_delete
<1>3. \A s \in Requests : Quiet(s)
  <2>1. CASE ProviderCall(r)
    <3>1. PICK id \in Ids : \/ acl_providerDeleteSubscription(r, id)
                            \/ acl_providerUpdateSubscriptionRole(r, id)
      BY <2>1 DEF ProviderCall
    <3>2. sub[id] # NoRow
      BY <3>1 DEF acl_providerDeleteSubscription, acl_providerUpdateSubscriptionRole, IsRow
    <3>3. CASE acl_providerDeleteSubscription(r, id)
      <4>1. req' = [req EXCEPT ![r] = [op |-> "expel", id |-> id]]
        BY <3>3 DEF acl_providerDeleteSubscription, Begin
      <4> QED BY <3>2, <4>1 DEF Quiet, Types, TypeOK
    <3>4. CASE acl_providerUpdateSubscriptionRole(r, id)
      <4>1. PICK role \in Roles :
              req' = [req EXCEPT ![r] = [op |-> "role", id |-> id, role |-> role]]
        BY <3>4 DEF acl_providerUpdateSubscriptionRole, Begin
      <4> QED BY <3>2, <4>1 DEF Quiet, Types, TypeOK
    <3> QED BY <3>1, <3>3, <3>4
  <2>2. CASE \E u \in Users : acl_delete(r, u)
    <3>1. req' = [req EXCEPT ![r] = [op |-> "delete subscriptions",
                                     left |-> {id \in Ids : IsRow(id)}]]
      BY <2>2 DEF acl_delete, Begin
    <3>2. \A id \in {i \in Ids : IsRow(i)} : sub[id] # NoRow
      BY DEF IsRow
    <3> QED BY <3>1, <3>2 DEF Quiet, Types, TypeOK
  <2> QED BY <2>1, <2>2
<1> QED BY <1>1, <1>2, <1>3, SameQuiet, QuietMine

(* The steps of a deletion. *)
LEMMA DeletionMine ==
  ASSUME Types, Mine, NEW r \in Requests,
         \/ acl_delete_subscription(r) \/ acl_delete_contents(r)
         \/ acl_delete_content(r) \/ acl_delete_course(r) \/ request_dies(r)
  PROVE  Mine'
<1>1. Types'
  BY DeletionTypes
<1>2. UNCHANGED <<overlapped, done>> /\ (course' = "no" => course = "no")
  BY DEF acl_delete_subscription, acl_delete_contents, acl_delete_content,
         acl_delete_course, request_dies
<1>3. CASE acl_delete_subscription(r)
  <2>1. PICK id \in req[r].left :
          sub' = [sub EXCEPT ![id] = GoneRow] /\ req' = [req EXCEPT ![r].left = @ \ {id}]
    BY <1>3 DEF acl_delete_subscription
  <2>2. /\ req[r].op = "delete subscriptions" /\ id \in Ids /\ sub[id] # NoRow
        /\ \A i \in req[r].left : sub[i] # NoRow
    BY <1>3, <2>1, LoadedIs DEF acl_delete_subscription, Mine, IdsTaken, Types
  <2>3. /\ req'[r].op = req[r].op /\ req'[r].left = req[r].left \ {id}
        /\ \A s \in Requests \ {r} : req'[s] = req[s]
    <3>1. req[r] = [op |-> req[r].op, left |-> req[r].left]
      BY <2>2, LeftIs DEF Types
    <3> QED BY <2>1, <3>1 DEF Types, TypeOK
  <2>4. \A s \in Requests : Quiet(s)
    BY <2>2, <2>3 DEF Quiet
  <2> QED BY <1>1, <1>2, <2>1, <2>2, <2>4, GoneQuiet, QuietMine
<1>4. CASE ~acl_delete_subscription(r)
  <2>1. UNCHANGED sub
    BY <1>4 DEF acl_delete_contents, acl_delete_content, acl_delete_course, request_dies
  <2>2. \A s \in Requests : Quiet(s)
    <3>1. CASE acl_delete_contents(r)
      BY <3>1 DEF acl_delete_contents, Quiet, Types, TypeOK
    <3>2. CASE acl_delete_content(r)
      <4>1. PICK c \in req[r].left : req' = [req EXCEPT ![r].left = @ \ {c}]
        BY <3>2 DEF acl_delete_content
      <4>2. req[r].op = "delete contents"
        BY <3>2 DEF acl_delete_content
      <4>3. req'[r].op = "delete contents" /\ \A s \in Requests \ {r} : req'[s] = req[s]
        <5>1. req[r] = [op |-> req[r].op, left |-> req[r].left]
          BY <4>2, LeftIs DEF Types
        <5> QED BY <4>1, <4>2, <5>1 DEF Types, TypeOK
      <4> QED BY <4>3 DEF Quiet
    <3>3. CASE acl_delete_course(r) \/ request_dies(r)
      BY <3>3, EndQuiet DEF acl_delete_course, request_dies
    <3> QED BY <1>4, <3>1, <3>2, <3>3
  <2> QED BY <1>1, <1>2, <2>1, <2>2, SameQuiet, QuietMine
<1> QED BY <1>3, <1>4

(* The flushes that remove a row or change its role. *)
LEMMA RemoveMine ==
  ASSUME Types, Mine, NEW r \in Requests,
         remove_flush(r) \/ acl_providerUpdateSubscriptionRole_flush(r)
  PROVE  Mine'
<1> DEFINE id == req[r].id
<1>1. Types'
  BY FlushTypes
<1>2. UNCHANGED <<course, overlapped, done>> /\ \A s \in Requests : Quiet(s)
  BY EndQuiet DEF remove_flush, acl_providerUpdateSubscriptionRole_flush
<1>3. id \in Ids /\ sub[id] # NoRow
  BY LoadedIs DEF remove_flush, acl_providerUpdateSubscriptionRole_flush, Types,
                  Mine, IdsTaken
<1>4. CASE remove_flush(r)
  <2>1. sub' = [sub EXCEPT ![id] = GoneRow]
    BY <1>4 DEF remove_flush
  <2> QED BY <1>1, <1>2, <1>3, <2>1, GoneQuiet, QuietMine
<1>5. CASE acl_providerUpdateSubscriptionRole_flush(r)
  <2>1. req[r].role \in Roles
    BY <1>5, LoadedIs DEF acl_providerUpdateSubscriptionRole_flush, Types
  <2>2. sub' = IF IsRow(id) THEN [sub EXCEPT ![id].role = req[r].role] ELSE sub
    BY <1>5 DEF acl_providerUpdateSubscriptionRole_flush
  <2>3. CASE ~IsRow(id)
    BY <1>1, <1>2, <2>2, <2>3, SameQuiet, QuietMine
  <2>4. CASE IsRow(id)
    <3>1. sub' = [sub EXCEPT ![id] = [user |-> sub[id].user, role |-> req[r].role,
                                      completed |-> sub[id].completed]]
      BY <1>3, <2>1, <2>2, <2>4, RowIs, ColumnTypes DEF Types
    <3>2. /\ sub'[id].user = sub[id].user /\ sub'[id].completed = sub[id].completed
          /\ \A i \in Ids \ {id} : sub'[i] = sub[i]
      BY <1>3, <3>1 DEF Types, TypeOK
    <3>3. sub'[id] # NoRow
      BY <1>3, <2>4, <3>2, RowIs, CourseAssumption DEF NoRow, Types
    <3>4. NoNewRow /\ \A i \in Ids : IsRow(i)' => sub'[i].completed = sub[i].completed
      BY <1>3, <3>2, <3>3 DEF NoNewRow
    <3> QED BY <1>1, <1>2, <3>4, QuietMine
  <2> QED BY <2>3, <2>4
<1> QED BY <1>4, <1>5

(* A user's own request that starts is alone, or the user is marked. *)
LEMMA StartsAlone ==
  ASSUME Types, Mine, NEW r \in Requests, NEW u \in Users, NEW what \in Loaded,
         Begin(r, what), what.user = u,
         Starts(u)
  PROVE  /\ overlapped \subseteq overlapped' /\ overlapped' \subseteq Users
         /\ \A v \in Users \ overlapped' : done'[v] = done[v]
         /\ Alone'
<1>1. req[r] = Idle /\ req' = [req EXCEPT ![r] = what]
  BY DEF Begin
<1>2. req'[r] = what /\ \A s \in Requests \ {r} : req'[s] = req[s]
  BY <1>1 DEF Types, TypeOK
<1>3. CASE Busy(u)
  <2>1. overlapped' = overlapped \cup {u} /\ done' = [done EXCEPT ![u] = {}]
    BY <1>3 DEF Starts
  <2>2. \A v \in Users \ overlapped' : \A s \in Requests : Own(s, v)' => s # r /\ Own(s, v)
    BY <1>2, <2>1 DEF Own
  <2>3. Alone'
    BY <2>1, <2>2 DEF Alone, Mine
  <2> QED BY <2>1, <2>3 DEF Types, TypeOK
<1>4. CASE ~Busy(u)
  <2>1. UNCHANGED <<overlapped, done>>
    BY <1>4 DEF Starts
  <2>2. \A v \in Users : \A s \in Requests :
          Own(s, v)' => \/ s = r /\ v = u
                        \/ s # r /\ v # u /\ Own(s, v)
    BY <1>2, <1>4 DEF Own, Busy
  <2>3. Alone'
    BY <2>1, <2>2 DEF Alone, Mine
  <2> QED BY <2>1, <2>3 DEF Types, TypeOK
<1> QED BY <1>3, <1>4

(* What a user's own request holds when it starts. *)
Sound(what) ==
  /\ what.op \in {"create", "subscribe", "complete", "unsubscribe"}
  /\ what.op \in {"create", "subscribe"} => RowsOf(what.user) = {}
  /\ what.op \in {"complete", "unsubscribe"} => what.id \in RowsOf(what.user)
  /\ what.op = "complete" => what.before = sub[what.id].completed

(* A user's own request that starts. *)
LEMMA OwnMine ==
  ASSUME Types, Types', Mine, NEW r \in Requests, NEW u \in Users, NEW what \in Loaded,
         Begin(r, what), what.user = u, Sound(what), Starts(u),
         UNCHANGED sub, course' = "no" => course = "no"
  PROVE  Mine'
<1>1. /\ req'[r] = what /\ \A s \in Requests \ {r} : req'[s] = req[s]
  BY DEF Begin, Types, TypeOK
<1>2. /\ overlapped \subseteq overlapped' /\ overlapped' \subseteq Users
      /\ \A v \in Users \ overlapped' : done'[v] = done[v]
      /\ Alone'
  BY StartsAlone
<1>3. \A v : RowsOf(v)' = RowsOf(v)
  BY DEF RowsOf
<1>4. \A id \in Ids : IsRow(id)' <=> IsRow(id)
  BY DEF IsRow
<1>5. what.op \in {"complete", "unsubscribe"} =>
        what.id \in Ids /\ sub[what.id].user = u /\ IsRow(what.id)
  BY RowIs DEF Sound, RowsOf, Types
<1>6. RowsInCourse'
  BY DEF RowsInCourse, Mine
<1>7. IdsTaken' /\ SameUser'
  BY <1>1, <1>5 DEF IdsTaken, SameUser, Mine, IsRow, Sound
<1>8. Once'
  BY <1>2, <1>3 DEF Once, Mine
<1>9. NoneYet'
  BY <1>1, <1>2, <1>3 DEF NoneYet, Mine, Sound
<1>10. OnlyRow'
  <2>1. what.op = "unsubscribe" /\ u \notin overlapped => RowsOf(u) \subseteq {what.id}
    BY DEF Sound, Once, Mine
  <2> QED BY <1>1, <1>2, <1>3, <2>1 DEF OnlyRow, Mine
<1>11. Fresh'
  BY <1>1, <1>2, <1>4, LoadedIs DEF Fresh, Mine, Sound, Types
<1>12. CompletedKept'
  BY <1>2, <1>3 DEF CompletedKept, Mine
<1> QED BY <1>2, <1>6, <1>7, <1>8, <1>9, <1>10, <1>11, <1>12 DEF Mine

(* The calls of a user. *)
LEMMA CallMine ==
  ASSUME Types, Mine, NEW r \in Requests, NEW u \in Users, Call(r, u)
  PROVE  Mine'
<1>0. Types'
  BY CallTypes
<1>1. CASE acl_create(r, u)
  <2> DEFINE what == [op |-> "create", user |-> u]
  <2>1. RowsOf(u) = {}
    BY <1>1, CourseAssumption DEF acl_create, Mine, RowsInCourse, RowsOf, NoRow
  <2>2. what \in Loaded /\ what.user = u /\ Sound(what)
    BY <2>1 DEF Loaded, Sound
  <2>3. /\ Begin(r, what) /\ Starts(u) /\ UNCHANGED sub /\ course' = "yes"
    BY <1>1 DEF acl_create
  <2> HIDE DEF what
  <2> QED BY <1>0, <2>2, <2>3, OwnMine
<1>2. CASE acl_subscribe(r, u)
  <2> DEFINE what == [op |-> "subscribe", user |-> u]
  <2>1. what \in Loaded /\ what.user = u /\ Sound(what)
    BY <1>2 DEF Loaded, Sound, acl_subscribe
  <2>2. Begin(r, what) /\ Starts(u) /\ UNCHANGED <<sub, course>>
    BY <1>2 DEF acl_subscribe
  <2> HIDE DEF what
  <2> QED BY <1>0, <2>1, <2>2, OwnMine
<1>3. CASE acl_unsubscribe(r, u)
  <2>1. PICK id \in RowsOf(u) : Begin(r, [op |-> "unsubscribe", user |-> u, id |-> id])
    BY <1>3 DEF acl_unsubscribe
  <2> DEFINE what == [op |-> "unsubscribe", user |-> u, id |-> id]
  <2>2. what \in Loaded /\ what.user = u /\ Sound(what)
    BY DEF Loaded, Sound, RowsOf
  <2>3. Begin(r, what) /\ Starts(u) /\ UNCHANGED <<sub, course>>
    BY <1>3, <2>1 DEF acl_unsubscribe
  <2> HIDE DEF what
  <2> QED BY <1>0, <2>2, <2>3, OwnMine
<1>4. ASSUME NEW id \in RowsOf(u), NEW after \in SUBSET Contents, Change(r, u, id, after)
      PROVE  Mine'
  <2> DEFINE what == [op |-> "complete", user |-> u, id |-> id,
                      before |-> sub[id].completed, after |-> after]
  <2>1. id \in Ids /\ sub[id].completed \subseteq Contents
    BY RowIs DEF RowsOf, Types
  <2>2. what \in Loaded
    BY <2>1 DEF Loaded
  <2>3. what.user = u /\ Sound(what)
    BY DEF Sound
  <2>4. Begin(r, what) /\ Starts(u) /\ UNCHANGED <<sub, course>>
    BY <1>4 DEF Change
  <2> HIDE DEF what
  <2> QED BY <1>0, <2>2, <2>3, <2>4, OwnMine
<1>5. ASSUME NEW c \in Contents,
             acl_completeContent(r, u, c) \/ acl_uncompleteContent(r, u, c)
      PROVE  Mine'
  <2>1. PICK id \in RowsOf(u) : \/ Change(r, u, id, sub[id].completed \cup {c})
                                \/ Change(r, u, id, sub[id].completed \ {c})
    BY <1>5 DEF acl_completeContent, acl_uncompleteContent
  <2>2. sub[id].completed \subseteq Contents
    BY RowIs DEF RowsOf, Types
  <2>3. /\ sub[id].completed \cup {c} \in SUBSET Contents
        /\ sub[id].completed \ {c} \in SUBSET Contents
    BY <2>2
  <2> QED BY <1>4, <2>1, <2>3
<1> QED BY <1>1, <1>2, <1>3, <1>5, ProviderMine DEF Call

(* Requests that go on keep their rows if the rows keep their users. *)
LEMMA IdsKept ==
  ASSUME Types, Mine, \A s \in Requests : req'[s] = req[s] \/ req'[s].op = "idle",
         \A i \in Ids : sub[i] # NoRow => sub'[i] # NoRow /\ sub'[i].user = sub[i].user
  PROVE  IdsTaken' /\ SameUser'
<1>1. ASSUME NEW s \in Requests, req'[s].op # "idle"
      PROVE  /\ req'[s] = req[s]
             /\ req[s].op \in {"complete", "unsubscribe", "expel", "role"} =>
                  req[s].id \in Ids /\ sub[req[s].id] # NoRow
             /\ req[s].op \in {"complete", "unsubscribe"} =>
                  sub[req[s].id].user \in {req[s].user, "removed"}
             /\ req[s].op = "delete subscriptions" =>
                  \A i \in req[s].left : i \in Ids /\ sub[i] # NoRow
  BY <1>1, LoadedIs DEF Types, Mine, IdsTaken, SameUser
<1>2. IdsTaken'
  <2>1. ASSUME NEW s \in Requests, req'[s].op # "idle"
        PROVE  /\ req'[s].op \in {"complete", "unsubscribe", "expel", "role"} =>
                    sub'[req'[s].id] # NoRow
               /\ req'[s].op = "delete subscriptions" =>
                    \A i \in req'[s].left : sub'[i] # NoRow
    <3>1. req'[s] = req[s]
      BY <2>1
    <3>2. req[s].op \in {"complete", "unsubscribe", "expel", "role"} =>
            sub'[req[s].id] # NoRow
      BY <1>1, <2>1
    <3>3. req[s].op = "delete subscriptions" => \A i \in req[s].left : sub'[i] # NoRow
      BY <1>1, <2>1
    <3> QED BY <3>1, <3>2, <3>3
  <2> QED BY <2>1 DEF IdsTaken
<1>3. SameUser'
  <2>1. ASSUME NEW s \in Requests, req'[s].op \in {"complete", "unsubscribe"}
        PROVE  sub'[req'[s].id].user \in {req'[s].user, "removed"}
    <3>1. req'[s] = req[s]
      BY <2>1
    <3>2. sub'[req[s].id].user \in {req[s].user, "removed"}
      BY <1>1, <2>1
    <3> QED BY <3>1, <3>2
  <2> QED BY <2>1 DEF SameUser
<1> QED BY <1>2, <1>3

(* The flush that inserts a subscription. *)
LEMMA InsertMine ==
  ASSUME Types, Mine, NEW r \in Requests,
         acl_create_subscription(r) \/ acl_subscribe_flush(r),
         NEW u, u = req[r].user
  PROVE  Mine'
<1>0. Types'
  BY FlushTypes
<1>1. /\ req[r].op \in {"create", "subscribe"} /\ End(r) /\ u \in Users
      /\ UNCHANGED <<course, overlapped>>
      /\ course # "yes" => UNCHANGED <<sub, done>>
      /\ course = "yes" => \E role \in Roles : Insert(u, role)
  BY LoadedIs DEF acl_create_subscription, acl_subscribe_flush, Types, Roles
<1>2. CASE course # "yes"
  BY <1>0, <1>1, <1>2, SameQuiet, EndQuiet, QuietMine
<1>3. CASE course = "yes"
  <2>1. PICK role \in Roles : Insert(u, role)
    BY <1>1, <1>3
  <2>2. PICK new \in Ids :
          /\ sub[new] = NoRow
          /\ sub' = [sub EXCEPT ![new] = [user |-> u, role |-> role, completed |-> {}]]
          /\ done' = [done EXCEPT ![u] = {}]
    BY <2>1 DEF Insert
  <2>3. /\ sub'[new] = [user |-> u, role |-> role, completed |-> {}]
        /\ sub'[new].user = u /\ sub'[new].completed = {}
        /\ \A i \in Ids \ {new} : sub'[i] = sub[i] /\ (IsRow(i)' <=> IsRow(i))
        /\ done'[u] = {} /\ \A v \in Users \ {u} : done'[v] = done[v]
    BY <1>1, <2>2 DEF Types, TypeOK, IsRow
  <2>4. sub[new].user = "none" /\ "none" \notin Users
    BY <2>2, CourseAssumption DEF NoRow
  <2>5. \A s \in Requests \ {r} : req'[s] = req[s]
    BY <1>1 DEF End, Types, TypeOK
  <2>6. req'[r].op = "idle"
    BY <1>1 DEF End, Types, TypeOK, Idle
  <2>7. \A v \in Users \ {u} : RowsOf(v)' = RowsOf(v)
    BY <1>1, <2>3, <2>4 DEF RowsOf
  <2>8. u \notin overlapped => RowsOf(u)' = {new}
    <3>1. u \notin overlapped => RowsOf(u) = {}
      BY <1>1 DEF Mine, NoneYet
    <3> QED BY <3>1, <2>3 DEF RowsOf
  <2>9. \A s \in Requests : u \notin overlapped => ~Own(s, u)'
    BY <1>1, <2>5, <2>6 DEF Mine, Alone, Own
  <2>10. RowsInCourse'
    BY <1>1, <1>3 DEF RowsInCourse
  <2>11. \A i \in Ids : sub[i] # NoRow => i # new /\ sub'[i] = sub[i]
    BY <2>2, <2>3
  <2>12. IdsTaken' /\ SameUser'
    BY <2>5, <2>6, <2>11, IdsKept
  <2>13. Alone'
    BY <1>1, <2>5, <2>6 DEF Alone, Own, Mine
  <2>14. Once'
    BY <1>1, <2>7, <2>8 DEF Once, Mine
  <2>15. NoneYet' /\ OnlyRow'
    <3>1. ASSUME NEW s \in Requests,
                 req'[s].op \in {"create", "subscribe", "complete", "unsubscribe"},
                 req'[s].user \notin overlapped
          PROVE  req'[s] = req[s] /\ req[s].user \in Users \ {u}
      <4>1. s # r /\ req'[s] = req[s] /\ req[s].user \in Users
        BY <2>5, <2>6, <3>1, LoadedIs DEF Types
      <4>2. req'[s].user # u
        BY <2>9, <3>1 DEF Own
      <4> QED BY <4>1, <4>2
    <3>2. NoneYet'
      BY <1>1, <2>7, <3>1 DEF NoneYet, Mine
    <3>3. OnlyRow'
      BY <1>1, <2>7, <3>1 DEF OnlyRow, Mine
    <3> QED BY <3>2, <3>3
  <2>16. Fresh'
    <3>1. ASSUME NEW s \in Requests, req'[s].op = "complete"
          PROVE  /\ req'[s] = req[s] /\ req[s].id \in Ids
                 /\ sub'[req[s].id] = sub[req[s].id]
                 /\ IsRow(req[s].id)' <=> IsRow(req[s].id)
      <4>1. req'[s] = req[s] /\ req[s].id \in Ids
        BY <2>5, <2>6, <3>1, LoadedIs DEF Types
      <4>2. sub[req[s].id] # NoRow
        BY <3>1, <4>1 DEF Mine, IdsTaken
      <4>3. sub'[req[s].id] = sub[req[s].id]
        BY <2>11, <4>1, <4>2
      <4> QED BY <4>1, <4>3 DEF IsRow
    <3> QED BY <1>1, <3>1 DEF Fresh, Mine, IsRow
  <2>17. CompletedKept'
    <3>1. ASSUME NEW v \in Users \ overlapped, NEW id \in RowsOf(v)'
          PROVE  sub'[id].completed = done'[v]
      <4>1. CASE v = u
        BY <2>3, <2>8, <3>1, <4>1
      <4>2. CASE v # u
        <5>1. id \in RowsOf(v) /\ id \in Ids /\ id # new
          BY <2>4, <2>7, <3>1, <4>2 DEF RowsOf
        <5> QED BY <2>3, <4>2, <5>1 DEF CompletedKept, Mine
      <4> QED BY <4>1, <4>2
    <3> QED BY <1>1, <3>1 DEF CompletedKept
  <2> QED BY <2>10, <2>12, <2>13, <2>14, <2>15, <2>16, <2>17 DEF Mine
<1> QED BY <1>2, <1>3

(* The flush of a completed content. *)
LEMMA CompleteMine ==
  ASSUME Types, Mine, NEW r \in Requests, completeContent_flush(r),
         NEW u, u = req[r].user, NEW id, id = req[r].id,
         NEW before, before = req[r].before, NEW after, after = req[r].after
  PROVE  Mine'
<1>0. Types'
  BY FlushTypes
<1>1. /\ req[r].op = "complete" /\ End(r) /\ u \in Users /\ id \in Ids
      /\ after \subseteq Contents
      /\ UNCHANGED <<course, overlapped>>
      /\ ~IsRow(id) => UNCHANGED <<sub, done>>
      /\ IsRow(id) => sub' = [sub EXCEPT ![id].completed = after]
      /\ IsRow(id) => done' = IF u \in overlapped THEN done
              ELSE [done EXCEPT ![u] = (@ \cup (after \ before)) \ (before \ after)]
  BY LoadedIs DEF completeContent_flush, Types
<1>2. CASE ~IsRow(id)
  BY <1>0, <1>1, <1>2, SameQuiet, EndQuiet, QuietMine
<1>3. CASE IsRow(id)
  <2>1. sub' = [sub EXCEPT ![id] = [user |-> sub[id].user, role |-> sub[id].role,
                                    completed |-> after]]
    <3>1. sub[id].role \in Roles /\ after \in SUBSET Contents
      BY <1>1, <1>3, RowIs DEF Types
    <3>2. id \in Ids /\ sub' = [sub EXCEPT ![id].completed = after]
      BY <1>1, <1>3
    <3> QED BY <1>3, <3>1, <3>2, CompletedColumn
  <2>2. /\ sub'[id].user = sub[id].user /\ sub'[id].completed = after
        /\ \A i \in Ids \ {id} : sub'[i] = sub[i] /\ (IsRow(i)' <=> IsRow(i))
    BY <1>1, <2>1 DEF Types, TypeOK, IsRow
  <2>3. sub'[id] # NoRow /\ sub[id].user = u
    <3>1. sub[id].user \in Users /\ sub[id].user \in {u, "removed"}
      BY <1>1, <1>3, RowIs DEF Types, Mine, SameUser
    <3> QED BY <2>2, <3>1, CourseAssumption DEF NoRow
  <2>4. \A v : RowsOf(v)' = RowsOf(v)
    BY <2>2 DEF RowsOf
  <2>5. \A s \in Requests \ {r} : req'[s] = req[s]
    BY <1>1 DEF End, Types, TypeOK
  <2>6. req'[r].op = "idle"
    BY <1>1 DEF End, Types, TypeOK, Idle
  <2>7. RowsInCourse'
    BY <1>1, <1>3 DEF RowsInCourse, Mine, IsRow
  <2>8. IdsTaken' /\ SameUser'
    BY <2>2, <2>3, <2>5, <2>6, IdsKept
  <2>9. Alone'
    BY <1>1, <2>5, <2>6 DEF Alone, Own, Mine
  <2>10. Once' /\ NoneYet' /\ OnlyRow'
    BY <1>1, <2>4, <2>5, <2>6 DEF Once, NoneYet, OnlyRow, Mine
  <2>11. Fresh'
    <3>1. ASSUME NEW s \in Requests, req'[s].op = "complete",
                 req'[s].user \notin overlapped, IsRow(req[s].id)'
          PROVE  sub'[req'[s].id].completed = req'[s].before
      <4>1. s # r /\ req'[s] = req[s] /\ req[s].user \in Users /\ req[s].id \in Ids
        BY <2>5, <2>6, <3>1, LoadedIs DEF Types
      <4>2. req[s].id # id
        <5>1. SUFFICES ASSUME req[s].id = id PROVE FALSE
          OBVIOUS
        <5>2. req[s].user = u
          <6>1. sub[id].user \in {req[s].user, "removed"}
            BY <3>1, <4>1, <5>1 DEF Mine, SameUser
          <6> QED BY <1>1, <2>3, <6>1, CourseAssumption
        <5>3. Own(s, u) /\ Own(r, u)
          BY <1>1, <3>1, <4>1, <5>2 DEF Own
        <5>4. u \in Users \ overlapped /\ Alone
          BY <1>1, <3>1, <4>1, <5>2 DEF Mine
        <5> QED BY <4>1, <5>3, <5>4 DEF Alone
      <4>3. sub'[req[s].id] = sub[req[s].id] /\ IsRow(req[s].id)
        BY <2>2, <3>1, <4>1, <4>2 DEF IsRow
      <4> QED BY <3>1, <4>1, <4>3 DEF Mine, Fresh
    <3> QED BY <1>1, <3>1 DEF Fresh
  <2>12. CompletedKept'
    <3>1. ASSUME NEW v \in Users \ overlapped, NEW i \in RowsOf(v)
          PROVE  sub'[i].completed = done'[v]
      <4>1. CASE v = u
        <5>1. i = id
          BY <1>1, <2>3, <3>1, <4>1 DEF Mine, Once, RowsOf
        <5>2. before = done[u]
          BY <1>1, <1>3, <3>1, <4>1, <5>1 DEF Mine, Fresh, CompletedKept
        <5>3. done'[u] = (before \cup (after \ before)) \ (before \ after)
          BY <1>1, <1>3, <3>1, <4>1, <5>2 DEF Types, TypeOK
        <5>4. (before \cup (after \ before)) \ (before \ after) = after
          OBVIOUS
        <5> QED BY <2>2, <4>1, <5>1, <5>3, <5>4
      <4>2. CASE v # u
        <5>1. i \in Ids \ {id}
          BY <2>3, <4>2 DEF RowsOf
        <5>2. done'[v] = done[v]
          BY <1>1, <1>3, <4>2 DEF Types, TypeOK
        <5> QED BY <2>2, <3>1, <5>1, <5>2 DEF Mine, CompletedKept
      <4> QED BY <4>1, <4>2
    <3> QED BY <1>1, <2>4, <3>1 DEF CompletedKept
  <2> QED BY <2>7, <2>8, <2>9, <2>10, <2>11, <2>12 DEF Mine
<1> QED BY <1>2, <1>3

(* The contents come and go without touching a subscription. *)
LEMMA ContentMine ==
  ASSUME Types, Mine, ContentStep
  PROVE  Mine'
<1>1. Types'
  BY ContentTypes
<1>2. UNCHANGED <<course, sub, req, overlapped, done>>
  BY DEF ContentStep, content_create, acl_publish, acl_unpublish, content_delete
<1>3. \A s \in Requests : Quiet(s)
  BY <1>2 DEF Quiet
<1> QED BY <1>1, <1>2, <1>3, SameQuiet, QuietMine

(* Every step. *)
LEMMA NextMine ==
  ASSUME Types, Mine, [Next]_vars
  PROVE  Mine'
<1>1. CASE UNCHANGED vars
  <2>1. \A s \in Requests : Quiet(s)
    BY <1>1 DEF Quiet, vars
  <2>2. Types'
    BY NextTypes
  <2> QED BY <1>1, <2>1, <2>2, SameQuiet, QuietMine DEF vars
<1>2. ASSUME NEW r \in Requests, Flush(r)
      PROVE  Mine'
  BY <1>2, InsertMine, RemoveMine, CompleteMine, DeletionMine DEF Flush
<1> QED BY <1>1, <1>2, CallMine, ProviderMine, ContentMine DEF Next

-----------------------------------------------------------------------------
(* Deletions.                                                              *)

Deletes == {"delete subscriptions", "delete contents"}

(* Steps that add nothing leave what an undisturbed deletion relies on. *)
LEMMA NothingAdded ==
  ASSUME Undisturbed,
         \A s \in Requests \ disturbed' :
           \/ req'[s].op \notin Deletes
           \/ s \notin disturbed /\ req'[s] = req[s],
         \A id \in Ids : IsRow(id)' => IsRow(id),
         InCourse' \subseteq InCourse
  PROVE  Undisturbed'
<1>1. ASSUME NEW s \in Requests \ disturbed', req'[s].op = "delete subscriptions"
      PROVE  \A id \in Ids : IsRow(id)' => id \in req'[s].left
  BY <1>1 DEF Undisturbed, Deletes
<1>2. ASSUME NEW s \in Requests \ disturbed', req'[s].op = "delete contents"
      PROVE  InCourse' \subseteq req'[s].left /\ \A id \in Ids : ~IsRow(id)'
  <2>1. s \in Requests \ disturbed /\ req'[s] = req[s]
    BY <1>2 DEF Deletes
  <2> QED BY <1>2, <2>1 DEF Undisturbed
<1> QED BY <1>1, <1>2 DEF Undisturbed

(* Requests that start, other than deletions. *)
LEMMA BeginUndisturbed ==
  ASSUME Types, Undisturbed, NEW r \in Requests, NEW what,
         Begin(r, what), what.op \notin Deletes, UNCHANGED <<content, sub, disturbed>>
  PROVE  Undisturbed'
<1>1. \A s \in Requests : req'[s].op \notin Deletes \/ req'[s] = req[s]
  BY DEF Begin, Types, TypeOK
<1>2. \A id \in Ids : IsRow(id)' => IsRow(id)
  BY DEF IsRow
<1>3. InCourse' = InCourse
  BY DEF InCourse
<1> QED BY <1>1, <1>2, <1>3, NothingAdded

(* The calls. *)
LEMMA CallUndisturbed ==
  ASSUME Types, Undisturbed, NEW r \in Requests,
         ProviderCall(r) \/ \E u \in Users : Call(r, u)
  PROVE  Undisturbed'
<1>1. ASSUME NEW u \in Users, acl_delete(r, u)
      PROVE  Undisturbed'
  <2>1. /\ req' = [req EXCEPT ![r] = [op |-> "delete subscriptions",
                                      left |-> {id \in Ids : IsRow(id)}]]
        /\ disturbed' = disturbed \ {r} /\ UNCHANGED <<content, sub>>
    BY <1>1 DEF acl_delete, Begin
  <2>2. /\ req'[r].op = "delete subscriptions"
        /\ req'[r].left = {id \in Ids : IsRow(id)}
        /\ \A s \in Requests \ {r} : req'[s] = req[s]
    BY <2>1 DEF Types, TypeOK
  <2>3. (\A id \in Ids : IsRow(id)' <=> IsRow(id)) /\ InCourse' = InCourse
    BY <2>1 DEF IsRow, InCourse
  <2> QED BY <2>1, <2>2, <2>3 DEF Undisturbed
<1>2. ASSUME NEW u \in Users, acl_create(r, u)
      PROVE  Undisturbed'
  <2> DEFINE what == [op |-> "create", user |-> u]
  <2>1. what.op \notin Deletes
    BY DEF Deletes
  <2>2. Begin(r, what) /\ UNCHANGED <<content, sub, disturbed>>
    BY <1>2 DEF acl_create
  <2> HIDE DEF what
  <2> QED BY <2>1, <2>2, BeginUndisturbed
<1>3. ASSUME NEW u \in Users, acl_subscribe(r, u)
      PROVE  Undisturbed'
  <2> DEFINE what == [op |-> "subscribe", user |-> u]
  <2>1. what.op \notin Deletes
    BY DEF Deletes
  <2>2. Begin(r, what) /\ UNCHANGED <<content, sub, disturbed>>
    BY <1>3 DEF acl_subscribe
  <2> HIDE DEF what
  <2> QED BY <2>1, <2>2, BeginUndisturbed
<1>4. ASSUME NEW u \in Users, acl_unsubscribe(r, u)
      PROVE  Undisturbed'
  <2>1. PICK id \in RowsOf(u) : Begin(r, [op |-> "unsubscribe", user |-> u, id |-> id])
    BY <1>4 DEF acl_unsubscribe
  <2> DEFINE what == [op |-> "unsubscribe", user |-> u, id |-> id]
  <2>2. what.op \notin Deletes
    BY DEF Deletes
  <2>3. Begin(r, what) /\ UNCHANGED <<content, sub, disturbed>>
    BY <1>4, <2>1 DEF acl_unsubscribe
  <2> HIDE DEF what
  <2> QED BY <2>2, <2>3, BeginUndisturbed
<1>5. ASSUME NEW u \in Users, NEW id, NEW after, Change(r, u, id, after)
      PROVE  Undisturbed'
  <2> DEFINE what == [op |-> "complete", user |-> u, id |-> id,
                      before |-> sub[id].completed, after |-> after]
  <2>1. what.op \notin Deletes
    BY DEF Deletes
  <2>2. Begin(r, what) /\ UNCHANGED <<content, sub, disturbed>>
    BY <1>5 DEF Change
  <2> HIDE DEF what
  <2> QED BY <2>1, <2>2, BeginUndisturbed
<1>6. ASSUME NEW u \in Users, NEW c \in Contents,
             acl_completeContent(r, u, c) \/ acl_uncompleteContent(r, u, c)
      PROVE  Undisturbed'
  <2>1. CASE acl_completeContent(r, u, c)
    <3>1. PICK id \in RowsOf(u) : Change(r, u, id, sub[id].completed \cup {c})
      BY <2>1 DEF acl_completeContent
    <3> QED BY <1>5, <3>1
  <2>2. CASE acl_uncompleteContent(r, u, c)
    <3>1. PICK id \in RowsOf(u) : Change(r, u, id, sub[id].completed \ {c})
      BY <2>2 DEF acl_uncompleteContent
    <3> QED BY <1>5, <3>1
  <2> QED BY <1>6, <2>1, <2>2
<1>7. ASSUME NEW id \in Ids, acl_providerDeleteSubscription(r, id)
      PROVE  Undisturbed'
  <2> DEFINE what == [op |-> "expel", id |-> id]
  <2>1. what.op \notin Deletes
    BY DEF Deletes
  <2>2. Begin(r, what) /\ UNCHANGED <<content, sub, disturbed>>
    BY <1>7 DEF acl_providerDeleteSubscription
  <2> HIDE DEF what
  <2> QED BY <2>1, <2>2, BeginUndisturbed
<1>8. ASSUME NEW id \in Ids, acl_providerUpdateSubscriptionRole(r, id)
      PROVE  Undisturbed'
  <2>1. PICK role \in Roles : Begin(r, [op |-> "role", id |-> id, role |-> role])
    BY <1>8 DEF acl_providerUpdateSubscriptionRole
  <2> DEFINE what == [op |-> "role", id |-> id, role |-> role]
  <2>2. what.op \notin Deletes
    BY DEF Deletes
  <2>3. Begin(r, what) /\ UNCHANGED <<content, sub, disturbed>>
    BY <1>8, <2>1 DEF acl_providerUpdateSubscriptionRole
  <2> HIDE DEF what
  <2> QED BY <2>2, <2>3, BeginUndisturbed
<1> QED BY <1>1, <1>2, <1>3, <1>4, <1>6, <1>7, <1>8 DEF Call, ProviderCall

(* A row that is added disturbs every deletion under way. *)
LEMMA AddedUndisturbed ==
  ASSUME \A s \in Requests : req'[s].op \in Deletes => req'[s] = req[s],
         RowAdded
  PROVE  Undisturbed'
<1>1. \A s \in Requests \ disturbed' : req'[s].op \notin Deletes
  BY DEF RowAdded, Deletes
<1> QED BY <1>1 DEF Undisturbed, Deletes

(* The flushes of the users' and the providers' requests. *)
LEMMA FlushUndisturbed ==
  ASSUME Types, Undisturbed, NEW r \in Requests,
         \/ acl_create_subscription(r) \/ acl_subscribe_flush(r)
         \/ remove_flush(r) \/ acl_providerUpdateSubscriptionRole_flush(r)
         \/ completeContent_flush(r)
  PROVE  Undisturbed'
<1>1. /\ UNCHANGED content
      /\ \A s \in Requests : req'[s].op \in Deletes => req'[s] = req[s]
  <2>1. UNCHANGED content /\ End(r)
    BY DEF acl_create_subscription, acl_subscribe_flush, remove_flush,
           acl_providerUpdateSubscriptionRole_flush, completeContent_flush
  <2>2. req'[r] = Idle /\ \A s \in Requests \ {r} : req'[s] = req[s]
    BY <2>1 DEF End, Types, TypeOK
  <2>3. Idle.op \notin Deletes
    BY DEF Idle, Deletes
  <2> QED BY <2>1, <2>2, <2>3
<1>2. CASE RowAdded
  BY <1>1, <1>2, AddedUndisturbed
<1>3. ASSUME UNCHANGED disturbed, \A id \in Ids : IsRow(id)' => IsRow(id)
      PROVE  Undisturbed'
  <2>1. InCourse' = InCourse
    BY <1>1 DEF InCourse
  <2> QED BY <1>1, <1>3, <2>1, NothingAdded
<1>4. CASE acl_create_subscription(r) \/ acl_subscribe_flush(r)
  <2>1. RowAdded \/ UNCHANGED <<sub, disturbed>>
    BY <1>4 DEF acl_create_subscription, acl_subscribe_flush
  <2> QED BY <1>2, <1>3, <2>1 DEF IsRow
<1>5. CASE \/ remove_flush(r) \/ acl_providerUpdateSubscriptionRole_flush(r)
           \/ completeContent_flush(r)
  <2>1. UNCHANGED disturbed
    BY <1>5 DEF remove_flush, acl_providerUpdateSubscriptionRole_flush, completeContent_flush
  <2>2. req[r].id \in Ids
    BY <1>5, LoadedIs DEF remove_flush, acl_providerUpdateSubscriptionRole_flush,
                          completeContent_flush, Types
  <2>3. \/ sub' = [sub EXCEPT ![req[r].id] = GoneRow]
        \/ IsRow(req[r].id) /\ \A i \in Ids \ {req[r].id} : sub'[i] = sub[i]
        \/ UNCHANGED sub
    BY <1>5 DEF remove_flush, acl_providerUpdateSubscriptionRole_flush,
                completeContent_flush, Types, TypeOK
  <2>4. \A id \in Ids : IsRow(id)' => IsRow(id)
    <3>1. CASE sub' = [sub EXCEPT ![req[r].id] = GoneRow]
      BY <2>2, <3>1 DEF IsRow, Types, TypeOK
    <3>2. CASE IsRow(req[r].id) /\ \A i \in Ids \ {req[r].id} : sub'[i] = sub[i]
      BY <2>2, <3>2 DEF IsRow
    <3>3. CASE UNCHANGED sub
      BY <3>3 DEF IsRow
    <3> QED BY <2>3, <3>1, <3>2, <3>3
  <2> QED BY <1>3, <2>1, <2>4
<1> QED BY <1>4, <1>5

(* One step of a deletion, for every other deletion. *)
LEMMA OthersUndisturbed ==
  ASSUME Undisturbed, NEW r \in Requests,
         \A s \in Requests \ {r} : req'[s] = req[s] /\ (s \in disturbed => s \in disturbed'),
         \A id \in Ids : IsRow(id)' => IsRow(id),
         InCourse' \subseteq InCourse,
         r \notin disturbed' /\ req'[r].op = "delete subscriptions"
           => \A id \in Ids : IsRow(id)' => id \in req'[r].left,
         r \notin disturbed' /\ req'[r].op = "delete contents"
           => InCourse' \subseteq req'[r].left /\ \A id \in Ids : ~IsRow(id)'
  PROVE  Undisturbed'
<1>1. ASSUME NEW s \in Requests \ disturbed', req'[s].op = "delete subscriptions"
      PROVE  \A id \in Ids : IsRow(id)' => id \in req'[s].left
  BY <1>1 DEF Undisturbed
<1>2. ASSUME NEW s \in Requests \ disturbed', req'[s].op = "delete contents"
      PROVE  InCourse' \subseteq req'[s].left /\ \A id \in Ids : ~IsRow(id)'
  <2>1. CASE s = r
    BY <1>2, <2>1
  <2>2. CASE s # r
    <3>1. s \in Requests \ disturbed /\ req'[s] = req[s]
      BY <1>2, <2>2
    <3> QED BY <1>2, <3>1 DEF Undisturbed
  <2> QED BY <2>1, <2>2
<1> QED BY <1>1, <1>2 DEF Undisturbed

(* The steps of a deletion. *)
LEMMA DeletionUndisturbed ==
  ASSUME Types, Undisturbed, NEW r \in Requests,
         \/ acl_delete_subscription(r) \/ acl_delete_contents(r)
         \/ acl_delete_content(r) \/ acl_delete_course(r) \/ request_dies(r)
  PROVE  Undisturbed'
<1>1. CASE acl_delete_subscription(r)
  <2>1. PICK id \in req[r].left :
          sub' = [sub EXCEPT ![id] = GoneRow] /\ req' = [req EXCEPT ![r].left = @ \ {id}]
    BY <1>1 DEF acl_delete_subscription
  <2>2. req[r].op = "delete subscriptions" /\ id \in Ids
    BY <1>1, <2>1, LoadedIs DEF acl_delete_subscription, Types
  <2>3. /\ req'[r].op = req[r].op /\ req'[r].left = req[r].left \ {id}
        /\ \A s \in Requests \ {r} : req'[s] = req[s]
    <3>1. req[r] = [op |-> req[r].op, left |-> req[r].left]
      BY <2>2, LeftIs DEF Types
    <3> QED BY <2>1, <3>1 DEF Types, TypeOK
  <2>4. \A i \in Ids : IsRow(i)' => i # id /\ IsRow(i)
    BY <2>1, <2>2, GoneTypes
  <2>5. UNCHANGED disturbed /\ InCourse' = InCourse
    BY <1>1 DEF acl_delete_subscription, InCourse
  <2>6. r \notin disturbed => \A i \in Ids : IsRow(i) => i \in req[r].left
    BY <2>2 DEF Undisturbed
  <2> QED BY <2>2, <2>3, <2>4, <2>5, <2>6, OthersUndisturbed
<1>2. CASE acl_delete_contents(r)
  <2>1. /\ req' = [req EXCEPT ![r] = [op |-> "delete contents", left |-> InCourse]]
        /\ UNCHANGED <<content, sub, disturbed>>
        /\ req[r].op = "delete subscriptions" /\ req[r].left = {}
    BY <1>2 DEF acl_delete_contents
  <2>2. /\ req'[r].op = "delete contents" /\ req'[r].left = InCourse
        /\ \A s \in Requests \ {r} : req'[s] = req[s]
    BY <2>1 DEF Types, TypeOK
  <2>3. InCourse' = InCourse /\ \A id \in Ids : IsRow(id)' <=> IsRow(id)
    BY <2>1 DEF InCourse, IsRow
  <2>4. r \notin disturbed => \A id \in Ids : ~IsRow(id)
    BY <2>1 DEF Undisturbed
  <2> QED BY <2>1, <2>2, <2>3, <2>4, OthersUndisturbed
<1>3. CASE acl_delete_content(r)
  <2>1. PICK c \in req[r].left :
          /\ content' = [content EXCEPT ![c] = "removed"]
          /\ req' = [req EXCEPT ![r].left = @ \ {c}]
    BY <1>3 DEF acl_delete_content
  <2>2. /\ req[r].op = "delete contents" /\ c \in Contents
        /\ UNCHANGED <<sub, disturbed>>
    BY <1>3, <2>1, LoadedIs DEF acl_delete_content, Types
  <2>3. /\ req'[r].op = req[r].op /\ req'[r].left = req[r].left \ {c}
        /\ \A s \in Requests \ {r} : req'[s] = req[s]
    <3>1. req[r] = [op |-> req[r].op, left |-> req[r].left]
      BY <2>2, LeftIs DEF Types
    <3> QED BY <2>1, <3>1 DEF Types, TypeOK
  <2>4. InCourse' = InCourse \ {c}
    BY <2>1, <2>2 DEF InCourse, Types, TypeOK
  <2>5. \A id \in Ids : IsRow(id)' <=> IsRow(id)
    BY <2>2 DEF IsRow
  <2>6. r \notin disturbed => InCourse \subseteq req[r].left /\ \A id \in Ids : ~IsRow(id)
    BY <2>2 DEF Undisturbed
  <2> QED BY <2>2, <2>3, <2>4, <2>5, <2>6, OthersUndisturbed
<1>4. CASE acl_delete_course(r) \/ request_dies(r)
  <2>1. End(r) /\ UNCHANGED <<content, sub>> /\ disturbed' = disturbed \ {r}
    BY <1>4 DEF acl_delete_course, request_dies
  <2>2. req'[r] = Idle /\ \A s \in Requests \ {r} : req'[s] = req[s]
    BY <2>1 DEF End, Types, TypeOK
  <2>3. Idle.op \notin Deletes
    BY DEF Idle, Deletes
  <2>4. InCourse' = InCourse /\ \A id \in Ids : IsRow(id)' <=> IsRow(id)
    BY <2>1 DEF InCourse, IsRow
  <2> QED BY <2>1, <2>2, <2>3, <2>4, OthersUndisturbed DEF Deletes
<1> QED BY <1>1, <1>2, <1>3, <1>4

(* The contents come, which disturbs, and go, which does not. *)
LEMMA ContentUndisturbed ==
  ASSUME Types, Undisturbed, ContentStep
  PROVE  Undisturbed'
<1>1. PICK c \in Contents :
        content_create(c) \/ acl_publish(c) \/ acl_unpublish(c) \/ content_delete(c)
  BY DEF ContentStep
<1>2. CASE content_create(c)
  BY <1>2, AddedUndisturbed DEF content_create
<1>3. CASE acl_publish(c) \/ acl_unpublish(c) \/ content_delete(c)
  <2>1. UNCHANGED <<sub, req, disturbed>>
    BY <1>3 DEF acl_publish, acl_unpublish, content_delete
  <2>2. InCourse' \subseteq InCourse
    BY <1>3 DEF acl_publish, acl_unpublish, content_delete, InCourse, Types, TypeOK
  <2>3. \A id \in Ids : IsRow(id)' => IsRow(id)
    BY <2>1 DEF IsRow
  <2> QED BY <2>1, <2>2, <2>3, NothingAdded
<1> QED BY <1>1, <1>2, <1>3

(* Every step. *)
LEMMA NextUndisturbed ==
  ASSUME Types, Undisturbed, [Next]_vars
  PROVE  Undisturbed'
<1>1. CASE UNCHANGED vars
  BY <1>1 DEF vars, Undisturbed, InCourse, IsRow
<1>2. ASSUME NEW r \in Requests, Flush(r)
      PROVE  Undisturbed'
  BY <1>2, FlushUndisturbed, DeletionUndisturbed DEF Flush
<1> QED BY <1>1, <1>2, CallUndisturbed, ContentUndisturbed DEF Next

(* Every reachable state of a course satisfies the invariant: a user's     *)
(* lone request still finds what it loaded, and an undisturbed deletion    *)
(* holds every row it has yet to remove.                                   *)
THEOREM Invariance == Spec => []IInv
<1>1. Init => IInv
  <2>1. ASSUME Init
        PROVE  Undisturbed
    <3>1. Idle.op = "idle"
      BY DEF Idle
    <3>2. \A r \in Requests : req[r].op = "idle"
      BY <2>1, <3>1 DEF Init
    <3> QED BY <3>2 DEF Undisturbed
  <2> QED BY <2>1, InitTypes, InitMine DEF IInv
<1>2. IInv /\ [Next]_vars => IInv'
  BY NextTypes, NextMine, NextUndisturbed DEF IInv
<1> QED BY <1>1, <1>2, PTL DEF Spec

-----------------------------------------------------------------------------
(* The properties.                                                         *)

(* Nobody has two subscriptions, though no unique key forbids it, unless   *)
(* two of the user's own requests overlapped (acl_subscribe, acl_create).  *)
THEOREM SubscribedOnceCorrect == Spec => []SubscribedOnce
<1>1. IInv => SubscribedOnce
  <2>1. SUFFICES ASSUME IInv, NEW u \in Users \ overlapped
                 PROVE  Cardinality(RowsOf(u)) <= 1
    BY DEF SubscribedOnce
  <2>2. \A i, j \in RowsOf(u) : i = j
    BY <2>1 DEF IInv, Mine, Once
  <2>3. CASE RowsOf(u) = {}
    BY <2>3, FS_EmptySet
  <2>4. CASE RowsOf(u) # {}
    <3>1. PICK i \in RowsOf(u) : TRUE
      BY <2>4
    <3>2. RowsOf(u) = {i}
      BY <2>2, <3>1
    <3>3. Cardinality({i}) = 1
      BY FS_Singleton
    <3> QED BY <3>2, <3>3
  <2> QED BY <2>3, <2>4
<1> QED BY <1>1, Invariance, PTL

(* A subscription's completed contents are those its user completed since  *)
(* subscribing, whatever providers, administrators and other subscribers   *)
(* do between a request's load and its flush (acl_completeContent).        *)
THEOREM CompletedKeptCorrect == Spec => []CompletedKept
<1>1. IInv => CompletedKept
  BY DEF IInv, Mine
<1> QED BY <1>1, Invariance, PTL

(* After the flush of acl_unsubscribe the user has no subscription.        *)
THEOREM UnsubscribedIsOutCorrect == Spec => UnsubscribedIsOut
<1>1. ASSUME IInv, NEW r \in Requests, NEW u \in Users \ overlapped,
             req[r].op = "unsubscribe", req[r].user = u, remove_flush(r)
      PROVE  RowsOf(u)' = {}
  <2>1. RowsOf(u) \subseteq {req[r].id}
    BY <1>1 DEF IInv, Mine, OnlyRow
  <2>2. req[r].id \in Ids /\ sub' = [sub EXCEPT ![req[r].id] = GoneRow]
    BY <1>1, LoadedIs DEF remove_flush, IInv, Types
  <2>3. \A i \in Ids : sub'[i].user # u
    <3>1. GoneRow.user # u
      BY CourseAssumption DEF GoneRow
    <3>2. \A i \in Ids \ {req[r].id} : sub'[i] = sub[i] /\ sub[i].user # u
      BY <1>1, <2>1, <2>2 DEF RowsOf, IInv, Types, TypeOK
    <3>3. sub'[req[r].id] = GoneRow
      BY <1>1, <2>2 DEF IInv, Types, TypeOK
    <3> QED BY <3>1, <3>2, <3>3
  <2> QED BY <2>3 DEF RowsOf
<1>2. IInv /\ [Next]_vars =>
        [\A r \in Requests, u \in Users \ overlapped :
           req[r].op = "unsubscribe" /\ req[r].user = u /\ remove_flush(r)
             => RowsOf(u)' = {}]_vars
  BY <1>1
<1> QED BY <1>2, Invariance, PTL DEF Spec, UnsubscribedIsOut

(* A deletion during which nothing is added removes the course, whatever   *)
(* else is removed or deleted between its flushes (acl_delete).            *)
THEOREM DeletionSucceedsCorrect == Spec => DeletionSucceeds
<1>1. ASSUME IInv, NEW r \in Requests, acl_delete_course(r), r \notin disturbed
      PROVE  course' = "gone"
  <2>1. req[r].op = "delete contents" /\ req[r].left = {}
    BY <1>1 DEF acl_delete_course
  <2>2. InCourse = {} /\ ~\E id \in Ids : IsRow(id)
    BY <1>1, <2>1 DEF IInv, Undisturbed
  <2> QED BY <1>1, <2>2 DEF acl_delete_course
<1>2. IInv /\ [Next]_vars =>
        [\A r \in Requests : acl_delete_course(r) /\ r \notin disturbed
           => course' = "gone"]_vars
  BY <1>1
<1> QED BY <1>2, Invariance, PTL DEF Spec, DeletionSucceeds
=============================================================================
