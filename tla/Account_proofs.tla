--------------------------- MODULE Account_proofs ---------------------------
(* What the account service guarantees for any number of accounts,         *)
(* addresses, passwords and requests.                                      *)
EXTENDS Account, TLAPS

-----------------------------------------------------------------------------
(* The inductive invariant.                                                *)

(* Ids that requests and links name were handed out.                       *)
IdsTaken ==
  /\ \A r \in Requests : req[r].op = "update" => row[req[r].user] # NoRow
  /\ \A l \in resetLinks : row[l.user] # NoRow

(* A request changes the password if and only if it has one to set, and    *)
(* activates the account only with a link that arrived.                    *)
Carries ==
  \A r \in Requests :
    /\ req[r].op = "register" => req[r].new.password = Filtered(req[r].typed)
    /\ req[r].op = "update" =>
         /\ req[r].new.password = IF req[r].typed = Unset
                                  THEN req[r].loaded.password
                                  ELSE Filtered(req[r].typed)
         /\ req[r].link \in ResetLinks => req[r].typed # Unset
         /\ req[r].new.activated # req[r].loaded.activated =>
              req[r].link \in activationLinks

Alone ==
  \A u \in Users \ overlapped : \A r, s \in Requests :
    Sets(r, u) /\ Sets(s, u) => r = s

(* A lone request to set a password knows the one that is stored.          *)
Fresh ==
  \A u \in There \ overlapped : \A r \in Requests :
    Sets(r, u) => req[r].loaded.password = row[u].password

(* The stored password is the one set last.                                *)
Current ==
  \A u \in There \ overlapped :
    lastSet[u] \in Entries /\ row[u].password = Filtered(lastSet[u])

(* No token computed from the row matches a spent link.                    *)
Invalid ==
  \A l \in spent : l.user \in There => row[l.user].password # l.password

IInv == /\ TypeOK /\ IdsTaken /\ Carries /\ Alone /\ Fresh /\ Current
        /\ Invalid /\ OwnLinksOnly /\ SpentLinkIsDead

-----------------------------------------------------------------------------
(* Requests, rows and links.                                               *)

(* What a request holds, by its operation.                                 *)
LEMMA RequestIs ==
  ASSUME NEW x \in Registering \cup Mailing \cup Updating \cup {Idle}
  PROVE  /\ x.op = "register" => x \in Registering
         /\ x.op = "mail" => x \in Mailing
         /\ x.op = "update" => x \in Updating
         /\ x.op \notin {"register", "mail", "update"} => x = Idle
<1>1. x \in Registering => x.op = "register"
  BY DEF Registering
<1>2. x \in Mailing => x.op = "mail"
  BY DEF Mailing
<1>3. x \in Updating => x.op = "update"
  BY DEF Updating
<1>4. x = Idle => x.op = "idle"
  BY DEF Idle
<1> QED BY <1>1, <1>2, <1>3, <1>4

(* What a place in the table holds.                                        *)
LEMMA RowIs ==
  ASSUME TypeOK, NEW u \in Users
  PROVE  /\ u \in There <=> row[u] \in Rows
         /\ row[u] \in Rows => row[u] # NoRow /\ row[u] # GoneRow
         /\ row[u] \notin Rows => row[u] \in {NoRow, GoneRow}
<1>1. row[u] \in Rows => row[u].is = "there"
  BY DEF Rows
<1>2. NoRow.is # "there" /\ GoneRow.is # "there"
  BY DEF NoRow, GoneRow
<1>3. row[u] \in Rows \cup {NoRow, GoneRow}
  BY DEF TypeOK
<1> QED BY <1>1, <1>2, <1>3 DEF There

(* A link belongs to a registration, to a password, or is none.            *)
LEMMA LinkIs ==
  ASSUME NEW l
  PROVE  /\ l \in ActivationLinks => l \notin ResetLinks /\ l # NoLink /\ l.user \in Users
         /\ l \in ResetLinks => /\ l # NoLink /\ l.user \in Users
                                /\ l.email \in Emails /\ l.password \in Texts
<1>1. l \in ActivationLinks => DOMAIN l = {"user", "email"}
  BY DEF ActivationLinks
<1>2. l \in ResetLinks => DOMAIN l = {"user", "email", "password"}
  BY DEF ResetLinks
<1>3. DOMAIN NoLink = {"user"}
  BY DEF NoLink
<1>4. /\ l \in ActivationLinks => l.user \in Users
      /\ l \in ResetLinks => l.user \in Users /\ l.email \in Emails /\ l.password \in Texts
  BY DEF ActivationLinks, ResetLinks
<1> QED BY <1>1, <1>2, <1>3, <1>4

(* What a form makes of a password can be stored.                          *)
LEMMA EntryIs ==
  ASSUME AccountAssumption, NEW typed \in Entries
  PROVE  Filtered(typed) \in Texts /\ typed # Unset
<1>1. /\ typed.of \in Texts /\ typed.form \in {"reset", "user", "add"}
  BY DEF Entries, AccountAssumption
<1>2. \A text \in Texts : StringTrim[text] \in Texts /\ Escaped(text) \in Texts
  BY DEF AccountAssumption, Escaped
<1>3. Filtered(typed) \in Texts
  BY <1>1, <1>2 DEF Filtered
<1>4. typed.form # "none" /\ Unset.form = "none"
  BY <1>1 DEF Unset
<1> QED BY <1>3, <1>4

(* What is typed is an entry.                                              *)
LEMMA TypedIs ==
  ASSUME NEW form \in {"reset", "user", "add"}, NEW p \in Passwords
  PROVE  Typed(form, p) \in Entries
BY DEF Typed, Entries

-----------------------------------------------------------------------------
(* The first state.                                                        *)
LEMMA Starts == AccountAssumption /\ Init => IInv
<1> SUFFICES ASSUME AccountAssumption, Init PROVE IInv
  OBVIOUS
<1>1. TypeOK
  BY DEF Init, TypeOK, AccountAssumption
<1>2. /\ There = {} /\ resetLinks = {} /\ spent = {}
      /\ \A r \in Requests : req[r].op = "idle"
  BY DEF Init, There, NoRow, Idle
<1>3. IdsTaken /\ Carries /\ OwnLinksOnly /\ SpentLinkIsDead
  BY <1>2 DEF IdsTaken, Carries, OwnLinksOnly, SpentLinkIsDead
<1>4. Alone /\ Fresh
  BY <1>2 DEF Alone, Fresh, Sets
<1>5. Current /\ Invalid
  BY <1>2 DEF Current, Invalid
<1> QED BY <1>1, <1>3, <1>4, <1>5 DEF IInv

-----------------------------------------------------------------------------
(* Loading an account: what the callers of Load have in common.            *)
LEMMA LoadKeeps ==
  ASSUME AccountAssumption, IInv, NEW r \in Requests, NEW u \in There, NEW new \in Rows,
         NEW typed \in Entries \cup {Unset},
         NEW link \in ActivationLinks \cup ResetLinks \cup {NoLink},
         new.password = IF typed = Unset THEN row[u].password ELSE Filtered(typed),
         link \in ResetLinks => typed # Unset /\ link = ResetToken(u, row[u]),
         new.activated # row[u].activated => link \in activationLinks,
         link # NoLink => link.user = u,
         Load(r, u, new, typed, link)
  PROVE  IInv'
<1> DEFINE q == [op |-> "update", user |-> u, loaded |-> row[u], new |-> new,
                 typed |-> typed, link |-> link]
<1>1. /\ req' = [req EXCEPT ![r] = q] /\ req[r] = Idle
      /\ UNCHANGED <<row, activationLinks, resetLinks, lastSet, spent>>
      /\ overlapped \subseteq overlapped' /\ overlapped' \subseteq Users
      /\ typed # Unset /\ (\E s \in Requests : Sets(s, u)) => u \in overlapped'
  BY DEF Load, There, IInv, TypeOK
<1>2. /\ req'[r] = q
      /\ \A s \in Requests : s # r => req'[s] = req[s]
  BY <1>1 DEF IInv, TypeOK
<1>3. There' = There /\ There \subseteq Users /\ u \in Users /\ row[u] \in Rows
  BY <1>1, RowIs DEF There, IInv
<1>4. TypeOK'
  <2>1. q \in Updating
    BY <1>3 DEF Updating
  <2>2. calls' \in 0 .. MaxCalls
    BY DEF Load, IInv, TypeOK, AccountAssumption
  <2> QED BY <1>1, <2>1, <2>2 DEF IInv, TypeOK
<1>5. IdsTaken'
  BY <1>1, <1>2, <1>3, RowIs DEF IInv, IdsTaken
<1>6. Carries'
  BY <1>1, <1>2 DEF IInv, Carries
<1>7. \A s \in Requests, v \in Users :
        Sets(s, v)' => Sets(s, v) \/ (s = r /\ v = u /\ typed # Unset)
  BY <1>2 DEF Sets
<1>8. Alone'
  BY <1>1, <1>7 DEF IInv, Alone
<1>9. Fresh'
  <2> SUFFICES ASSUME NEW v \in There \ overlapped, NEW s \in Requests, Sets(s, v)'
               PROVE  req'[s].loaded.password = row[v].password
    BY <1>1, <1>3 DEF Fresh
  <2>1. CASE s = r
    BY <1>2, <1>3, <1>7, <2>1 DEF Sets
  <2>2. CASE s # r
    BY <1>2, <1>3, <1>7, <2>2 DEF IInv, Fresh
  <2> QED BY <2>1, <2>2
<1>10. Current' /\ Invalid'
  BY <1>1, <1>3 DEF IInv, Current, Invalid
<1>11. OwnLinksOnly'
  BY <1>1, <1>2 DEF IInv, OwnLinksOnly
<1>12. SpentLinkIsDead'
  <2>1. link \notin spent
    <3>1. CASE link \in ResetLinks
      <4>1. link.user = u /\ link.password = row[u].password
        BY <3>1 DEF ResetToken
      <4> QED BY <4>1 DEF IInv, Invalid
    <3>2. spent \subseteq ResetLinks
      BY DEF IInv, TypeOK
    <3> QED BY <3>1, <3>2
  <2> QED BY <1>1, <1>2, <2>1 DEF IInv, SpentLinkIsDead
<1> QED BY <1>4, <1>5, <1>6, <1>8, <1>9, <1>10, <1>11, <1>12 DEF IInv

(* Following a link to activate an account.                                *)
LEMMA ActivateKeeps ==
  ASSUME AccountAssumption, IInv, NEW r \in Requests, NEW l \in activationLinks, activate(r, l)
  PROVE  IInv'
<1>1. PICK u \in findByEmail(l.email) :
        /\ ActivationToken(u, row[u]) = l
        /\ Load(r, u, [row[u] EXCEPT !.activated = TRUE], Unset, l)
  BY DEF activate
<1>2. u \in There /\ u \in Users /\ row[u] \in Rows
  BY RowIs DEF findByEmail, There, IInv
<1>3. l \in ActivationLinks /\ l \notin ResetLinks
  BY LinkIs DEF IInv, TypeOK
<1>4. l.user = u
  BY <1>1 DEF ActivationToken
<1> DEFINE new == [row[u] EXCEPT !.activated = TRUE]
<1>5. new \in Rows /\ new.password = row[u].password
  BY <1>2 DEF Rows
<1> QED BY <1>1, <1>2, <1>3, <1>4, <1>5, LoadKeeps

(* The row with a new password.                                            *)
LEMMA WithPasswordIs ==
  ASSUME AccountAssumption, NEW u, row[u] \in Rows, NEW typed \in Entries
  PROVE  /\ WithPassword(u, typed) \in Rows
         /\ WithPassword(u, typed).password = Filtered(typed)
         /\ WithPassword(u, typed).activated = row[u].activated
<1>1. Filtered(typed) \in Texts
  BY EntryIs
<1> QED BY <1>1 DEF WithPassword, Rows

(* Following a link to set a new password.                                 *)
LEMMA ResetKeeps ==
  ASSUME AccountAssumption, IInv, NEW r \in Requests, NEW l \in resetLinks,
         NEW typed \in Entries, resetPassword(r, l, typed)
  PROVE  IInv'
<1>1. PICK u \in findByEmail(l.email) :
        /\ ResetToken(u, row[u]) = l
        /\ Load(r, u, WithPassword(u, typed), typed, l)
  BY DEF resetPassword, validateResetPasswordToken
<1>2. u \in There /\ u \in Users /\ row[u] \in Rows
  BY RowIs DEF findByEmail, There, IInv
<1>3. l \in ResetLinks
  BY DEF IInv, TypeOK
<1>4. l.user = u
  BY <1>1 DEF ResetToken
<1>5. typed # Unset
  BY EntryIs
<1> QED BY <1>1, <1>2, <1>3, <1>4, <1>5, WithPasswordIs, LoadKeeps

(* What an administrator sets.                                             *)
LEMMA AdminResetKeeps ==
  ASSUME AccountAssumption, IInv, NEW r \in Requests, NEW u \in Users,
         NEW typed \in Entries, acl_adminResetPassword(r, u, typed)
  PROVE  IInv'
<1>1. u \in There /\ Load(r, u, WithPassword(u, typed), typed, NoLink)
  BY DEF acl_adminResetPassword
<1>2. row[u] \in Rows
  BY <1>1, RowIs DEF IInv
<1>3. typed # Unset
  BY EntryIs
<1> QED BY <1>1, <1>2, <1>3, LinkIs, WithPasswordIs, LoadKeeps

(* A new address.                                                          *)
LEMMA UpdateKeeps ==
  ASSUME AccountAssumption, IInv, NEW r \in Requests, NEW u \in Users,
         NEW e \in Emails, acl_update(r, u, e)
  PROVE  IInv'
<1> DEFINE new == [row[u] EXCEPT !.email = e]
<1>1. u \in There /\ Load(r, u, new, Unset, NoLink)
  BY DEF acl_update
<1>2. row[u] \in Rows
  BY <1>1, RowIs DEF IInv
<1>3. /\ new \in Rows /\ new.password = row[u].password
      /\ new.activated = row[u].activated
  BY <1>2 DEF Rows
<1> QED BY <1>1, <1>3, LinkIs, LoadKeeps

(* A new address and a new password.                                       *)
LEMMA AdminUpdateKeeps ==
  ASSUME AccountAssumption, IInv, NEW r \in Requests, NEW u \in Users,
         NEW e \in Emails, NEW typed \in Entries, acl_admin_update(r, u, e, typed)
  PROVE  IInv'
<1> DEFINE new == [WithPassword(u, typed) EXCEPT !.email = e]
<1>1. u \in There /\ Load(r, u, new, typed, NoLink)
  BY DEF acl_admin_update
<1>2. /\ WithPassword(u, typed) \in Rows
      /\ WithPassword(u, typed).password = Filtered(typed)
      /\ WithPassword(u, typed).activated = row[u].activated
  BY <1>1, RowIs, WithPasswordIs DEF IInv
<1>3. /\ new \in Rows /\ new.password = Filtered(typed)
      /\ new.activated = row[u].activated
  BY <1>2 DEF Rows
<1>4. typed # Unset
  BY EntryIs
<1> HIDE DEF new
<1> QED BY <1>1, <1>3, <1>4, LinkIs, LoadKeeps

-----------------------------------------------------------------------------
(* Requests that begin or end without touching a row.                      *)

(* A request turns into one that does not update, and its account is       *)
(* nobody's.                                                               *)
LEMMA OtherRequestKeeps ==
  ASSUME IInv, NEW r \in Requests, NEW q \in Registering \cup Mailing \cup {Idle},
         q.op # "update",
         q.op = "register" => q.new.password = Filtered(q.typed),
         req' = [req EXCEPT ![r] = q], calls' \in 0 .. MaxCalls,
         activationLinks \subseteq activationLinks',
         activationLinks' \subseteq ActivationLinks,
         UNCHANGED <<row, resetLinks, lastSet, spent, overlapped>>
  PROVE  IInv'
<1>1. /\ req'[r] = q
      /\ \A s \in Requests : s # r => req'[s] = req[s]
  BY DEF IInv, TypeOK
<1>2. There' = There /\ There \subseteq Users
  BY DEF There
<1>3. TypeOK'
  BY DEF IInv, TypeOK
<1>4. \A s \in Requests, v \in Users : Sets(s, v)' => s # r /\ Sets(s, v)
  BY <1>1 DEF Sets
<1>5. IdsTaken' /\ OwnLinksOnly' /\ SpentLinkIsDead'
  BY <1>1 DEF IInv, IdsTaken, OwnLinksOnly, SpentLinkIsDead
<1>6. Carries'
  BY <1>1 DEF IInv, Carries
<1>7. Alone' /\ Current' /\ Invalid'
  BY <1>2, <1>4 DEF IInv, Alone, Current, Invalid
<1>8. Fresh'
  BY <1>1, <1>2, <1>4 DEF IInv, Fresh
<1> QED BY <1>3, <1>5, <1>6, <1>7, <1>8 DEF IInv

LEMMA RegisterKeeps ==
  ASSUME AccountAssumption, IInv, NEW r \in Requests, NEW e \in Emails,
         NEW typed \in Entries, register(r, e, typed)
  PROVE  IInv'
<1> DEFINE q == [op |-> "register",
                 new |-> [is |-> "there", email |-> e, activated |-> FALSE,
                          password |-> Filtered(typed)],
                 typed |-> typed]
<1>1. Filtered(typed) \in Texts
  BY EntryIs
<1>2. q \in Registering /\ q.op = "register" /\ q.new.password = Filtered(q.typed)
  BY <1>1 DEF Registering, Rows
<1>3. calls' \in 0 .. MaxCalls
  BY DEF register, IInv, TypeOK, AccountAssumption
<1>4. /\ req' = [req EXCEPT ![r] = q]
      /\ UNCHANGED <<row, activationLinks, resetLinks, lastSet, spent, overlapped>>
  BY DEF register
<1>5. activationLinks \subseteq ActivationLinks
  BY DEF IInv, TypeOK
<1> HIDE DEF q
<1> QED BY <1>2, <1>3, <1>4, <1>5, OtherRequestKeeps

LEMMA EmailKeeps ==
  ASSUME AccountAssumption, IInv, NEW r \in Requests, sendRegistrationEmail(r)
  PROVE  IInv'
<1>1. req[r] \in Mailing
  BY RequestIs DEF sendRegistrationEmail, IInv, TypeOK
<1>2. /\ activationLinks \subseteq activationLinks'
      /\ activationLinks' \subseteq ActivationLinks
  BY <1>1 DEF sendRegistrationEmail, IInv, TypeOK, Mailing
<1>3. Idle.op = "idle"
  BY DEF Idle
<1> QED BY <1>2, <1>3, OtherRequestKeeps DEF sendRegistrationEmail, IInv, TypeOK

LEMMA DiesKeeps ==
  ASSUME AccountAssumption, IInv, NEW r \in Requests, request_dies(r)
  PROVE  IInv'
<1>1. Idle.op = "idle"
  BY DEF Idle
<1> QED BY <1>1, OtherRequestKeeps DEF request_dies, IInv, TypeOK

LEMMA ForgotKeeps ==
  ASSUME AccountAssumption, IInv, NEW e \in Emails, forgotPassword(e)
  PROVE  IInv'
<1>1. PICK u \in findByEmail(e) : resetLinks' = resetLinks \cup {ResetToken(u, row[u])}
  BY DEF forgotPassword
<1>2. u \in There /\ u \in Users /\ row[u] \in Rows /\ row[u] # NoRow
  BY RowIs DEF findByEmail, There, IInv
<1>3. ResetToken(u, row[u]) \in ResetLinks /\ ResetToken(u, row[u]).user = u
  BY <1>2 DEF ResetToken, ResetLinks, Rows
<1>4. UNCHANGED <<row, req, calls, activationLinks, lastSet, spent, overlapped>>
  BY DEF forgotPassword
<1>5. There' = There
  BY <1>4 DEF There
<1>6. TypeOK'
  BY <1>1, <1>3, <1>4 DEF IInv, TypeOK
<1>7. IdsTaken'
  BY <1>1, <1>2, <1>3, <1>4 DEF IInv, IdsTaken
<1>8. Carries' /\ OwnLinksOnly' /\ SpentLinkIsDead'
  BY <1>4 DEF IInv, Carries, OwnLinksOnly, SpentLinkIsDead
<1>9. Alone' /\ Fresh' /\ Current' /\ Invalid'
  BY <1>4, <1>5 DEF IInv, Alone, Fresh, Current, Invalid, Sets
<1> QED BY <1>6, <1>7, <1>8, <1>9 DEF IInv

-----------------------------------------------------------------------------
(* The flushes.                                                            *)

(* The INSERT of a new account, or its refusal.                            *)
LEMMA RegisterFlushKeeps ==
  ASSUME AccountAssumption, IInv, NEW r \in Requests, register_flush(r)
  PROVE  IInv'
<1>1. req[r] \in Registering /\ req[r].op = "register"
  BY RequestIs DEF register_flush, IInv, TypeOK
<1>2. req[r].new \in Rows /\ req[r].typed \in Entries
  BY <1>1 DEF Registering
<1> DEFINE new == req[r].new
<1>3. CASE findByEmail(new.email) # {}
  <2>1. /\ req' = [req EXCEPT ![r] = Idle]
        /\ UNCHANGED <<row, lastSet, calls, activationLinks, resetLinks, spent, overlapped>>
    BY <1>3 DEF register_flush
  <2>2. Idle.op = "idle"
    BY DEF Idle
  <2> QED BY <2>1, <2>2, OtherRequestKeeps DEF IInv, TypeOK
<1>4. CASE findByEmail(new.email) = {}
  <2>1. PICK u \in Users :
          /\ NextId(u)
          /\ row' = [row EXCEPT ![u] = new]
          /\ lastSet' = [lastSet EXCEPT ![u] = req[r].typed]
          /\ req' = [req EXCEPT ![r] = [op |-> "mail", link |-> ActivationToken(u, new)]]
    BY <1>4 DEF register_flush
  <2>2. UNCHANGED <<calls, activationLinks, resetLinks, spent, overlapped>>
    BY DEF register_flush
  <2>3. row[u] = NoRow /\ row'[u] = new /\ u \in There' /\ lastSet'[u] = req[r].typed
    BY <2>1, <1>2 DEF NextId, IInv, TypeOK, There, Users, AccountAssumption, Rows
  <2>4. \A v \in Users : v # u => /\ row'[v] = row[v] /\ lastSet'[v] = lastSet[v]
                                  /\ v \in There' <=> v \in There
    BY <2>1 DEF IInv, TypeOK, There
  <2>5. u \notin There /\ new # NoRow
    BY <1>2, <2>3, RowIs DEF There, IInv, NoRow, Rows
  <2>6. /\ req'[r].op = "mail"
        /\ \A s \in Requests : s # r => req'[s] = req[s]
    BY <2>1 DEF IInv, TypeOK
  <2>7. \A s \in Requests, v \in Users : Sets(s, v)' => s # r /\ Sets(s, v)
    BY <2>6 DEF Sets
  <2>8. \A s \in Requests : req[s].op = "update" => req[s].user # u
    BY <2>3 DEF IInv, IdsTaken
  <2>9. \A l \in resetLinks : l.user # u /\ l.user \in Users
    BY <2>3, LinkIs DEF IInv, IdsTaken, TypeOK
  <2>10. TypeOK'
    <3>1. [op |-> "mail", link |-> ActivationToken(u, new)] \in Mailing
      BY <1>2 DEF Mailing, ActivationToken, ActivationLinks, Rows
    <3> QED BY <1>2, <2>1, <2>2, <3>1 DEF IInv, TypeOK
  <2>11. IdsTaken'
    <3>1. \A s \in Requests : req[s].op = "update" => req[s].user \in Users
      BY RequestIs DEF IInv, TypeOK, Updating
    <3> QED BY <2>2, <2>4, <2>6, <2>8, <2>9, <3>1 DEF IInv, IdsTaken
  <2>12. Carries' /\ OwnLinksOnly' /\ SpentLinkIsDead'
    BY <2>2, <2>6 DEF IInv, Carries, OwnLinksOnly, SpentLinkIsDead
  <2>13. Alone'
    BY <2>2, <2>7 DEF IInv, Alone
  <2>14. Fresh'
    BY <2>2, <2>3, <2>4, <2>6, <2>7, <2>8 DEF IInv, Fresh, Sets, There
  <2>15. Current'
    BY <1>1, <1>2, <2>2, <2>3, <2>4 DEF IInv, Current, Carries, There
  <2>16. Invalid'
    BY <2>2, <2>4, <2>9 DEF IInv, Invalid, TypeOK
  <2> QED BY <2>10, <2>11, <2>12, <2>13, <2>14, <2>15, <2>16 DEF IInv
<1> QED BY <1>3, <1>4

(* What the UPDATE of a request makes of a row.                            *)
LEMMA WrittenIs ==
  ASSUME NEW a \in Rows, NEW b \in Rows, NEW c \in Rows
  PROVE  /\ Written(a, b, c) \in Rows
         /\ Written(a, b, c).password = IF b.password # a.password THEN b.password
                                                                   ELSE c.password
         /\ Written(a, b, c).activated = IF b.activated # a.activated THEN b.activated
                                                                      ELSE c.activated
<1>1. DOMAIN c = {"is", "email", "password", "activated"}
  BY DEF Rows
<1> DEFINE w == Written(a, b, c)
<1>2. w = [x \in {"is", "email", "password", "activated"} |->
             IF b[x] # a[x] THEN b[x] ELSE c[x]]
  BY <1>1 DEF Written
<1>3. /\ w.is = IF b.is # a.is THEN b.is ELSE c.is
      /\ w.email = IF b.email # a.email THEN b.email ELSE c.email
      /\ w.password = IF b.password # a.password THEN b.password ELSE c.password
      /\ w.activated = IF b.activated # a.activated THEN b.activated ELSE c.activated
  BY <1>2
<1>4. w = [is |-> w.is, email |-> w.email, password |-> w.password,
           activated |-> w.activated]
  BY <1>2
<1>5. w.is \in {"there"} /\ w.email \in Emails /\ w.password \in Texts
      /\ w.activated \in BOOLEAN
  BY <1>3 DEF Rows
<1>6. w \in Rows
  BY <1>4, <1>5 DEF Rows
<1> QED BY <1>3, <1>6

(* What a request that updates holds.                                      *)
LEMMA UpdateIs ==
  ASSUME IInv, NEW r \in Requests, req[r].op = "update"
  PROVE  /\ req[r] \in Updating
         /\ req[r].user \in Users /\ req[r].loaded \in Rows /\ req[r].new \in Rows
         /\ req[r].typed \in Entries \cup {Unset}
         /\ req[r].link \in ActivationLinks \cup ResetLinks \cup {NoLink}
<1>1. req[r] \in Updating
  BY RequestIs DEF IInv, TypeOK
<1> QED BY <1>1 DEF Updating

(* The UPDATE of an account, or its refusal.                               *)
LEMMA FlushKeeps ==
  ASSUME AccountAssumption, IInv, NEW r \in Requests, flush(r)
  PROVE  IInv'
<1> DEFINE u == req[r].user
           written == Written(req[r].loaded, req[r].new, row[u])
<1>1. /\ req[r].op = "update" /\ u \in Users
      /\ req[r].loaded \in Rows /\ req[r].new \in Rows
      /\ req[r].typed \in Entries \cup {Unset}
      /\ req[r].link \in ActivationLinks \cup ResetLinks \cup {NoLink}
  BY UpdateIs DEF flush
<1>2. req' = [req EXCEPT ![r] = Idle] /\ Idle.op = "idle"
  BY DEF flush, Idle
<1>3. CASE UNCHANGED <<row, lastSet, spent>>
  BY <1>2, <1>3, OtherRequestKeeps DEF flush, IInv, TypeOK
<1>4. CASE /\ u \in There
           /\ row' = [row EXCEPT ![u] = written]
           /\ lastSet' = IF req[r].typed = Unset THEN lastSet
                         ELSE [lastSet EXCEPT ![u] = req[r].typed]
           /\ spent' = Spent(u, req[r].link, written.password)
  <2>1. UNCHANGED <<calls, activationLinks, resetLinks, overlapped>>
    BY DEF flush
  <2>2. row[u] \in Rows
    BY <1>1, <1>4, RowIs DEF IInv
  <2>3. /\ written \in Rows
        /\ written.password = IF req[r].typed = Unset THEN row[u].password
                              ELSE IF req[r].new.password # req[r].loaded.password
                                   THEN req[r].new.password ELSE row[u].password
        /\ written # NoRow /\ written.is = "there"
    <3>1. written \in Rows
      BY <1>1, <2>2, WrittenIs
    <3>2. req[r].typed = Unset => req[r].new.password = req[r].loaded.password
      BY <1>1 DEF IInv, Carries
    <3>3. written.password = IF req[r].new.password # req[r].loaded.password
                             THEN req[r].new.password ELSE row[u].password
      BY <1>1, <2>2, WrittenIs
    <3>4. \A x \in Rows : x # NoRow /\ x.is = "there"
      BY DEF Rows, NoRow
    <3> QED BY <3>1, <3>2, <3>3, <3>4
  <2> HIDE DEF written, u
  <2>4. /\ row'[u] = written
        /\ \A v \in Users : v # u => row'[v] = row[v]
    BY <1>1, <1>4 DEF IInv, TypeOK
  <2>5. There' = There /\ There \subseteq Users
    BY <1>4, <2>3, <2>4 DEF There
  <2>6. \A s \in Requests : s # r => req'[s] = req[s]
    BY <1>2 DEF IInv, TypeOK
  <2>7. req'[r].op = "idle"
    BY <1>2 DEF IInv, TypeOK
  <2>8. \A s \in Requests, v \in Users : Sets(s, v)' => s # r /\ Sets(s, v)
    BY <2>6, <2>7 DEF Sets
  <2>9. TypeOK'
    <3>1. lastSet' \in [Users -> Entries \cup {Unset}]
      BY <1>1, <1>4 DEF IInv, TypeOK
    <3>2. spent' \subseteq resetLinks'
      BY <1>4, <2>1 DEF IInv, TypeOK, Spent
    <3> QED BY <1>2, <1>4, <2>1, <2>3, <3>1, <3>2 DEF IInv, TypeOK
  <2>10. IdsTaken'
    <3>1. \A v \in Users : row[v] # NoRow => row'[v] # NoRow
      BY <2>3, <2>4
    <3>2. \A s \in Requests : req[s].op = "update" => req[s].user \in Users
      BY UpdateIs
    <3>3. \A l \in resetLinks : l.user \in Users
      BY LinkIs DEF IInv, TypeOK
    <3> QED BY <2>1, <2>6, <2>7, <3>1, <3>2, <3>3 DEF IInv, IdsTaken
  <2>11. Carries' /\ OwnLinksOnly'
    BY <2>1, <2>6, <2>7 DEF IInv, Carries, OwnLinksOnly
  <2>12. Alone'
    BY <2>1, <2>8 DEF IInv, Alone
  (* A lone request that sets a password found the one that is stored.     *)
  <2>13. ASSUME u \notin overlapped, req[r].typed # Unset
         PROVE  written.password = Filtered(req[r].typed)
    <3>1. Sets(r, u)
      BY <1>1, <2>13 DEF Sets, u
    <3>2. req[r].loaded.password = row[u].password
      BY <1>4, <2>13, <3>1 DEF IInv, Fresh
    <3>3. req[r].new.password = Filtered(req[r].typed)
      BY <1>1, <2>13 DEF IInv, Carries
    <3> QED BY <2>3, <2>13, <3>2, <3>3
  <2>14. Fresh'
    <3> SUFFICES ASSUME NEW v \in There \ overlapped, NEW s \in Requests, Sets(s, v)'
                 PROVE  req'[s].loaded.password = row'[v].password
      BY <2>1, <2>5 DEF Fresh
    <3>1. v \in Users /\ s # r /\ Sets(s, v) /\ req'[s] = req[s]
      BY <2>5, <2>6, <2>8
    <3>2. req[s].loaded.password = row[v].password
      BY <3>1 DEF IInv, Fresh
    <3>3. CASE v = u
      <4>1. ~Sets(r, u)
        BY <3>1, <3>3 DEF IInv, Alone
      <4>2. req[r].typed = Unset
        BY <1>1, <4>1 DEF Sets, u
      <4> QED BY <2>3, <2>4, <3>1, <3>2, <3>3, <4>2
    <3>4. CASE v # u
      BY <2>4, <3>1, <3>2, <3>4
    <3> QED BY <3>3, <3>4
  <2>15. Current'
    <3> SUFFICES ASSUME NEW v \in There \ overlapped
                 PROVE  lastSet'[v] \in Entries /\ row'[v].password = Filtered(lastSet'[v])
      BY <2>1, <2>5 DEF Current
    <3>1. /\ lastSet[v] \in Entries /\ row[v].password = Filtered(lastSet[v])
          /\ v \in Users
      BY <2>5 DEF IInv, Current
    <3>2. CASE v = u /\ req[r].typed # Unset
      BY <1>1, <1>4, <2>4, <2>13, <3>1, <3>2 DEF IInv, TypeOK
    <3>3. CASE v = u /\ req[r].typed = Unset
      BY <1>4, <2>3, <2>4, <3>1, <3>3
    <3>4. CASE v # u
      BY <1>4, <2>4, <3>1, <3>4 DEF IInv, TypeOK
    <3> QED BY <3>2, <3>3, <3>4
  <2>16. \A l \in spent' : l \in spent \/ l = req[r].link
    BY <1>4 DEF Spent
  <2>17. \A l \in spent' : l.user # u \/ l.password # written.password
    BY <1>4 DEF Spent
  <2>18. spent' \subseteq resetLinks /\ resetLinks \subseteq ResetLinks
    BY <2>1, <2>9 DEF IInv, TypeOK
  <2>19. req[r].link # NoLink => req[r].link.user = u
    BY <1>1 DEF IInv, OwnLinksOnly, u
  <2>20. Invalid'
    <3> SUFFICES ASSUME NEW l \in spent', l.user \in There
                 PROVE  row'[l.user].password # l.password
      BY <2>5 DEF Invalid
    <3>1. CASE l.user = u
      BY <2>4, <2>17, <3>1
    <3>2. CASE l.user # u
      <4>1. l \in spent
        BY <2>16, <2>18, <2>19, <3>2, LinkIs
      <4> QED BY <2>4, <2>5, <3>2, <4>1 DEF IInv, Invalid
    <3> QED BY <3>1, <3>2
  (* Whoever holds the link that is now spent sets a password at once with *)
  (* the request that spent it.                                            *)
  <2>21. SpentLinkIsDead'
    <3> SUFFICES ASSUME NEW s \in Requests, req'[s].op = "update",
                        req'[s].link \in spent'
                 PROVE  req'[s].user \in overlapped
      BY <2>1 DEF SpentLinkIsDead
    <3>1. s # r /\ req'[s] = req[s]
      BY <2>6, <2>7
    <3>2. CASE req[s].link \in spent
      BY <3>1, <3>2 DEF IInv, SpentLinkIsDead
    <3>3. CASE req[s].link = req[r].link
      <4>1. req[s].link \in ResetLinks /\ req[s].link # NoLink
        BY <2>18, <3>1, LinkIs
      <4>2. req[s].typed # Unset /\ req[r].typed # Unset
        BY <1>1, <3>1, <3>3, <4>1 DEF IInv, Carries
      <4>3. req[s].user = u
        BY <2>19, <3>1, <3>3, <4>1 DEF IInv, OwnLinksOnly
      <4>4. Sets(s, u) /\ Sets(r, u)
        BY <1>1, <3>1, <4>2, <4>3 DEF Sets, u
      <4> QED BY <1>1, <3>1, <4>3, <4>4 DEF IInv, Alone
    <3> QED BY <2>16, <3>1, <3>2, <3>3
  <2> QED BY <2>9, <2>10, <2>11, <2>12, <2>14, <2>15, <2>20, <2>21 DEF IInv
<1> QED BY <1>3, <1>4 DEF flush

(* The DELETE of an account.                                               *)
LEMMA DeleteKeeps ==
  ASSUME AccountAssumption, IInv, NEW u \in Users, acl_delete(u)
  PROVE  IInv'
<1>1. /\ row' = [row EXCEPT ![u] = GoneRow]
      /\ lastSet' = [lastSet EXCEPT ![u] = Unset]
      /\ UNCHANGED <<req, calls, activationLinks, resetLinks, spent, overlapped>>
  BY DEF acl_delete
<1>2. /\ row'[u] = GoneRow
      /\ \A v \in Users : v # u => row'[v] = row[v] /\ lastSet'[v] = lastSet[v]
  BY <1>1 DEF IInv, TypeOK
<1>3. There' = There \ {u} /\ There \subseteq Users
  BY <1>2 DEF There, GoneRow
<1>4. TypeOK'
  BY <1>1 DEF IInv, TypeOK
<1>5. IdsTaken'
  <2>1. GoneRow # NoRow
    BY DEF GoneRow, NoRow
  <2>2. \A s \in Requests : req[s].op = "update" => req[s].user \in Users
    BY UpdateIs
  <2>3. \A l \in resetLinks : l.user \in Users
    BY LinkIs DEF IInv, TypeOK
  <2> QED BY <1>1, <1>2, <2>1, <2>2, <2>3 DEF IInv, IdsTaken
<1>6. Carries' /\ OwnLinksOnly' /\ SpentLinkIsDead'
  BY <1>1 DEF IInv, Carries, OwnLinksOnly, SpentLinkIsDead
<1>7. \A s \in Requests, v \in Users : Sets(s, v)' <=> Sets(s, v)
  BY <1>1 DEF Sets
<1>8. Alone'
  BY <1>1, <1>7 DEF IInv, Alone
<1>9. Fresh' /\ Current'
  BY <1>1, <1>2, <1>3, <1>7 DEF IInv, Fresh, Current
<1>10. Invalid'
  BY <1>1, <1>2, <1>3 DEF IInv, Invalid
<1> QED BY <1>4, <1>5, <1>6, <1>8, <1>9, <1>10 DEF IInv

-----------------------------------------------------------------------------
(* Every step keeps the inductive invariant.                               *)
LEMMA StepKeeps == AccountAssumption /\ IInv /\ [Next]_vars => IInv'
<1> SUFFICES ASSUME AccountAssumption, IInv, [Next]_vars PROVE IInv'
  OBVIOUS
<1>1. ASSUME NEW r \in Requests, Visitor(r) PROVE IInv'
  BY <1>1, TypedIs, RegisterKeeps, ActivateKeeps, ResetKeeps DEF Visitor
<1>2. ASSUME NEW r \in Requests, Admin(r) PROVE IInv'
  BY <1>2, TypedIs, RegisterKeeps, AdminResetKeeps, UpdateKeeps, AdminUpdateKeeps DEF Admin
<1>3. ASSUME NEW r \in Requests, Continue(r) PROVE IInv'
  BY <1>3, RegisterFlushKeeps, EmailKeeps, FlushKeeps, DiesKeeps DEF Continue
<1>4. ASSUME NEW e \in Emails, forgotPassword(e) PROVE IInv'
  BY <1>4, ForgotKeeps
<1>5. ASSUME NEW u \in Users, acl_delete(u) PROVE IInv'
  BY <1>5, DeleteKeeps
<1>6. CASE UNCHANGED vars
  BY <1>6 DEF vars, IInv, TypeOK, IdsTaken, Carries, Alone, Sets, Fresh, Current,
              Invalid, OwnLinksOnly, SpentLinkIsDead, There
<1> QED BY <1>1, <1>2, <1>3, <1>4, <1>5, <1>6 DEF Next

THEOREM Invariance ==
  ASSUME AccountAssumption PROVE Spec => []IInv
<1>1. Init => IInv
  BY Starts
<1>2. IInv /\ [Next]_vars => IInv'
  BY StepKeeps
<1> QED BY <1>1, <1>2, PTL DEF Spec

-----------------------------------------------------------------------------
(* The properties.                                                         *)

(* Every state of the accounts is well typed.                              *)
THEOREM TypeCorrect ==
  ASSUME AccountAssumption PROVE Spec => []TypeOK
<1>1. IInv => TypeOK
  BY DEF IInv
<1> QED BY <1>1, Invariance, PTL

(* What an unfiltered password is, and the filters can make of no other.   *)
LEMMA UnfilteredIs ==
  ASSUME AccountAssumption, NEW typed \in Entries
  PROVE  Filtered(typed) = typed.of <=> Unfiltered(typed)
<1> DEFINE p == typed.of
<1>1. p \in Texts /\ typed.form \in {"reset", "user", "add"}
  BY DEF Entries, AccountAssumption
<1>2. \A text \in Texts : StringTrim[text] \in Texts /\ HtmlEntities[text] \in Texts
  BY DEF AccountAssumption
<1>3. \A text \in Texts : /\ Escaped(text) = HtmlEntities[StringTrim[text]]
                         /\ StringTrim[Escaped(text)] = Escaped(text)
  BY DEF Escaped, AccountAssumption
<1>4. \A text \in Texts : Escaped(text) = text =>
                           StringTrim[text] = text /\ HtmlEntities[text] = text
  BY <1>3
<1>5. ASSUME Escaped(Escaped(p)) = p
      PROVE  StringTrim[p] = p /\ HtmlEntities[p] = p
  <2>1. Escaped(p) \in Texts
    BY <1>1, <1>2, <1>3
  <2>2. StringTrim[p] = p
    BY <1>3, <1>5, <2>1
  <2>3. HtmlEntities[HtmlEntities[p]] = p
    BY <1>1, <1>3, <1>5, <2>1, <2>2
  <2> QED BY <1>1, <2>2, <2>3 DEF AccountAssumption
<1>6. CASE typed.form = "reset"
  BY <1>6 DEF Filtered, Unfiltered
<1>7. CASE typed.form = "user"
  <2>1. Filtered(typed) = Escaped(p)
    BY <1>7 DEF Filtered
  <2>2. Unfiltered(typed) <=> StringTrim[p] = p /\ HtmlEntities[p] = p
    BY <1>7 DEF Unfiltered
  <2> QED BY <1>1, <1>3, <1>4, <2>1, <2>2
<1>8. CASE typed.form = "add"
  <2>1. Filtered(typed) = Escaped(Escaped(p))
    BY <1>8 DEF Filtered
  <2>2. Unfiltered(typed) <=> StringTrim[p] = p /\ HtmlEntities[p] = p
    BY <1>8 DEF Unfiltered
  <2>3. Unfiltered(typed) => Escaped(p) = p
    BY <1>1, <1>3, <2>2
  <2> QED BY <1>5, <2>1, <2>2, <2>3
<1> QED BY <1>1, <1>6, <1>7, <1>8

LEMMA LastPassword == AccountAssumption /\ IInv => LastPasswordSignsIn
<1> SUFFICES ASSUME AccountAssumption, IInv, NEW u \in There \ overlapped
             PROVE  /\ authenticate(u, lastSet[u].of) <=> Unfiltered(lastSet[u])
                    /\ \A p \in Passwords : authenticate(u, p) => p = Filtered(lastSet[u])
  BY DEF LastPasswordSignsIn
<1>1. lastSet[u] \in Entries /\ row[u].password = Filtered(lastSet[u])
  BY DEF IInv, Current
<1>2. \A p : authenticate(u, p) <=> Filtered(lastSet[u]) = p
  BY <1>1 DEF authenticate
<1> QED BY <1>1, <1>2, UnfilteredIs

(* The password typed last opens the account, unless a filter of its form  *)
(* changes it or two were set at once, and no other does but what the form *)
(* made of it -- whatever other requests do between the load of a request  *)
(* and its flush (flush).                                                  *)
THEOREM LastPasswordCorrect ==
  ASSUME AccountAssumption PROVE Spec => []LastPasswordSignsIn
<1> QED BY LastPassword, Invariance, PTL

(* A link with which a password was set is refused from then on, except    *)
(* for a second use that overlaps with the first                           *)
(* (validateResetPasswordToken).                                           *)
THEOREM SpentLinkCorrect ==
  ASSUME AccountAssumption PROVE Spec => []SpentLinkIsDead
<1>1. IInv => SpentLinkIsDead
  BY DEF IInv
<1> QED BY <1>1, Invariance, PTL

(* A link acts on the account it was sent for, though addresses change     *)
(* hands (activate, resetPassword).                                        *)
THEOREM OwnLinksCorrect ==
  ASSUME AccountAssumption PROVE Spec => []OwnLinksOnly
<1>1. IInv => OwnLinksOnly
  BY DEF IInv
<1> QED BY <1>1, Invariance, PTL

(* A request that finds u shut does not leave it open.                     *)
LEMMA StillShut ==
  ASSUME AccountAssumption, IInv, NEW u \in Users, Shut(u), [Next]_vars
  PROVE  Shut(u)' \/ u \notin There'
<1>1. /\ u \in There /\ row[u] \in Rows /\ ~row[u].activated
      /\ \A l \in activationLinks : l.user # u
      /\ \A r \in Requests : req[r].op = "mail" => req[r].link.user # u
  BY RowIs DEF Shut, IInv
(* What it takes to stay shut.                                             *)
<1>2. ASSUME row'[u] = row[u],
             \A l \in activationLinks' : l.user # u,
             \A r \in Requests : req'[r].op = "mail" => req'[r].link.user # u
      PROVE  Shut(u)'
  BY <1>1, <1>2 DEF Shut, There
<1>3. ASSUME UNCHANGED <<row, activationLinks>>,
             \A r \in Requests : req'[r].op = "mail" => req'[r] = req[r]
      PROVE  Shut(u)'
  BY <1>1, <1>2, <1>3
<1>4. ASSUME NEW r \in Requests, NEW v, NEW new, NEW typed, NEW link,
             Load(r, v, new, typed, link)
      PROVE  Shut(u)'
  <2>1. \A s \in Requests : req'[s].op = "mail" => req'[s] = req[s]
    BY <1>4 DEF Load, IInv, TypeOK
  <2> QED BY <1>3, <1>4, <2>1 DEF Load
<1>14. ASSUME NEW r \in Requests, NEW e, NEW typed, register(r, e, typed)
       PROVE  Shut(u)'
  <2>1. \A s \in Requests : req'[s].op = "mail" => req'[s] = req[s]
    BY <1>14 DEF register, IInv, TypeOK
  <2> QED BY <1>3, <1>14, <2>1 DEF register
<1>5. ASSUME NEW r \in Requests, Visitor(r) PROVE Shut(u)'
  <2>2. ASSUME NEW l \in activationLinks, activate(r, l) PROVE Shut(u)'
    BY <1>4, <2>2 DEF activate
  <2>3. ASSUME NEW l \in resetLinks, NEW typed, resetPassword(r, l, typed)
        PROVE  Shut(u)'
    BY <1>4, <2>3 DEF resetPassword
  <2> QED BY <1>5, <1>14, <2>2, <2>3 DEF Visitor
<1>6. ASSUME NEW r \in Requests, Admin(r) PROVE Shut(u)'
  BY <1>4, <1>6, <1>14 DEF Admin, acl_adminResetPassword, acl_update, acl_admin_update
<1>7. ASSUME NEW r \in Requests, register_flush(r) PROVE Shut(u)'
  <2>1. CASE findByEmail(req[r].new.email) # {}
    <3>1. \A s \in Requests : req'[s].op = "mail" => req'[s] = req[s]
      BY <1>7, <2>1 DEF register_flush, Idle, IInv, TypeOK
    <3> QED BY <1>3, <1>7, <2>1, <3>1 DEF register_flush
  <2>2. CASE findByEmail(req[r].new.email) = {}
    <3>1. PICK v \in Users :
            /\ NextId(v)
            /\ row' = [row EXCEPT ![v] = req[r].new]
            /\ req' = [req EXCEPT ![r] =
                         [op |-> "mail", link |-> ActivationToken(v, req[r].new)]]
      BY <1>7, <2>2 DEF register_flush
    <3>2. row[v] = NoRow
      BY <3>1 DEF NextId, Users, AccountAssumption
    <3>3. v # u
      BY <1>1, <3>2, RowIs DEF IInv
    <3>4. ActivationToken(v, req[r].new).user = v
      BY DEF ActivationToken
    <3>5. row'[u] = row[u]
      BY <3>1, <3>3 DEF IInv, TypeOK
    <3>6. \A s \in Requests : req'[s].op = "mail" => req'[s].link.user # u
      BY <1>1, <3>1, <3>3, <3>4 DEF IInv, TypeOK
    <3> QED BY <1>1, <1>2, <1>7, <3>5, <3>6 DEF register_flush
  <2> QED BY <2>1, <2>2
<1>8. ASSUME NEW r \in Requests, sendRegistrationEmail(r) PROVE Shut(u)'
  <2>1. \A l \in activationLinks' : l.user # u
    BY <1>1, <1>8 DEF sendRegistrationEmail
  <2>2. Idle.op # "mail"
    BY DEF Idle
  <2>3. \A s \in Requests : req'[s].op = "mail" => req'[s].link.user # u
    BY <1>1, <1>8, <2>2 DEF sendRegistrationEmail, IInv, TypeOK
  <2> QED BY <1>2, <1>8, <2>1, <2>3 DEF sendRegistrationEmail
<1>9. ASSUME NEW r \in Requests, request_dies(r) PROVE Shut(u)'
  <2>1. \A s \in Requests : req'[s].op = "mail" => req'[s] = req[s]
    BY <1>9 DEF request_dies, Idle, IInv, TypeOK
  <2> QED BY <1>3, <1>9, <2>1 DEF request_dies
(* No request that is under way has what it takes to open the account.     *)
<1>10. ASSUME NEW r \in Requests, flush(r) PROVE Shut(u)'
  <2>1. /\ req[r].user \in Users /\ req[r].loaded \in Rows /\ req[r].new \in Rows
        /\ req[r].op = "update"
    BY <1>10, UpdateIs DEF flush
  <2>2. \A s \in Requests : req'[s].op = "mail" => req'[s].link.user # u
    BY <1>1, <1>10 DEF flush, Idle, IInv, TypeOK
  <2>3. CASE req[r].user = u /\ row' = [row EXCEPT ![u] =
                Written(req[r].loaded, req[r].new, row[u])]
    <3>1. req[r].new.activated = req[r].loaded.activated
      <4>1. SUFFICES ASSUME req[r].new.activated # req[r].loaded.activated PROVE FALSE
        OBVIOUS
      <4>2. req[r].link \in activationLinks
        BY <2>1, <4>1 DEF IInv, Carries
      <4>3. req[r].link # NoLink
        BY <4>2, LinkIs DEF IInv, TypeOK
      <4>4. req[r].link.user = u
        BY <2>1, <2>3, <4>3 DEF IInv, OwnLinksOnly
      <4> QED BY <1>1, <4>2, <4>4
    <3>2. /\ row'[u] \in Rows
          /\ row'[u].activated = row[u].activated
      BY <1>1, <2>1, <2>3, <3>1, WrittenIs DEF IInv, TypeOK
    <3>3. \A x \in Rows : x.is = "there"
      BY DEF Rows
    <3>4. u \in There'
      BY <3>2, <3>3 DEF There
    <3> QED BY <1>1, <1>10, <2>2, <3>2, <3>4 DEF Shut, flush
  <2>4. CASE row'[u] = row[u]
    BY <1>1, <1>2, <1>10, <2>2, <2>4 DEF flush
  <2> QED BY <1>10, <2>1, <2>3, <2>4 DEF flush, IInv, TypeOK
<1>11. ASSUME NEW e \in Emails, forgotPassword(e) PROVE Shut(u)'
  BY <1>1, <1>2, <1>11 DEF forgotPassword
<1>12. ASSUME NEW v \in Users, acl_delete(v) PROVE Shut(u)' \/ u \notin There'
  <2>1. CASE v = u
    BY <1>12, <2>1 DEF acl_delete, There, GoneRow, IInv, TypeOK
  <2>2. CASE v # u
    <3>1. row'[u] = row[u]
      BY <1>12, <2>2 DEF acl_delete, IInv, TypeOK
    <3> QED BY <1>1, <1>2, <1>12, <3>1 DEF acl_delete
  <2> QED BY <2>1, <2>2
<1>13. CASE UNCHANGED vars
  BY <1>1, <1>2, <1>13 DEF vars
<1> QED
  BY <1>5, <1>6, <1>7, <1>8, <1>9, <1>10, <1>11, <1>12, <1>13 DEF Next, Continue

(* An account whose registration mail was lost stays shut until it is      *)
(* deleted: neither a new password nor an administrator's update opens it  *)
(* (flush, register_flush).                                                *)
THEOREM ShutCorrect ==
  ASSUME AccountAssumption PROVE Spec => ShutUntilDeleted
<1>1. IInv /\ [Next]_vars => [StaysShut]_vars
  BY StillShut DEF StaysShut
<1> QED BY <1>1, Invariance, PTL DEF Spec, ShutUntilDeleted

=============================================================================
