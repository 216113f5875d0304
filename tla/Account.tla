------------------------------ MODULE Account ------------------------------
(***************************************************************************)
(* Accounts: registration, activation by e-mail, forgotten and changed     *)
(* passwords, and what an administrator does with accounts.                *)
(*                                                                         *)
(* Code: App\Service\User, App\Entity\User, the controllers Register,      *)
(* Activate, Auth and Password.                                            *)
(*                                                                         *)
(* A call that changes an account loads its row in one step and flushes in *)
(* another.  Doctrine's flush writes the columns that differ from those    *)
(* loaded, and no others.  The unique index on the e-mail refuses a row    *)
(* with the address of another; the service catches that and reports false.*)
(*                                                                         *)
(* A user stands for an id together with the username, which is unique as  *)
(* well.  Passwords and tokens are stored and compared as hashes, and are  *)
(* modelled by what is hashed.  A token is only known from the link it was *)
(* sent in.                                                                *)
(***************************************************************************)
EXTENDS Naturals, FiniteSets

CONSTANTS
  MaxUsers,      \* bound: accounts ever stored
  Emails,        \* as they are stored
  Passwords,     \* as they are typed, each of more than blanks
  Texts,         \* what may be hashed: passwords, and what filters make of them
  StringTrim,    \* the filters, as functions: outer blanks removed, ..
  HtmlEntities,  \* .. and characters escaped as in HTML
  Requests,      \* web requests that may run at the same time
  MaxCalls       \* bound: calls that load an account or register one

(* Both filters, in the order in which a form applies them. *)
Escaped(text) == HtmlEntities[StringTrim[text]]

(* What the constants of an instance satisfy.  Escaping puts no blank at   *)
(* an end, and never leads back to the text one had.                       *)
AccountAssumption ==
  /\ Passwords \subseteq Texts
  /\ StringTrim \in [Texts -> Texts] /\ HtmlEntities \in [Texts -> Texts]
  /\ \A text \in Texts : StringTrim[Escaped(text)] = Escaped(text)
  /\ \A text \in Texts :
       HtmlEntities[HtmlEntities[text]] = text => HtmlEntities[text] = text
  /\ MaxUsers \in Nat
  /\ MaxCalls \in Nat

(* Ids are handed out in order (AUTO_INCREMENT).                          *)
Users == 1 .. MaxUsers

VARIABLES
  row,              \* [Users -> ..]: the table user
  req,              \* [Requests -> ..]: what a request loaded and has to do
  calls,            \* number of calls so far
  activationLinks,  \* links of registration mails that arrived
  resetLinks,       \* links that allow to set a new password
  lastSet,          \* history: the password last set, as typed
  spent,            \* history: links whose password was replaced with them
  overlapped        \* history: users two of whose passwords were set at once

vars == <<row, req, calls, activationLinks, resetLinks, lastSet, spent, overlapped>>

(* A password typed into the form for a new password, the form for a user, *)
(* or the page on which an administrator adds one.                         *)
Typed(form, password) == [form |-> form, of |-> password]

Entries == [form : {"reset", "user", "add"}, of : Passwords]

(* What is hashed and stored of it.  The page for a new user hands on what *)
(* the filters of its form have made of it, and register filters again.    *)
Filtered(typed) ==
  CASE typed.form = "reset" -> StringTrim[typed.of]
    [] typed.form = "user"  -> Escaped(typed.of)
    [] typed.form = "add"   -> Escaped(Escaped(typed.of))

Rows    == [is : {"there"}, email : Emails, password : Texts, activated : BOOLEAN]
NoRow   == [is |-> "none"]
GoneRow == [is |-> "gone"]

Idle    == [op |-> "idle"]
Unset   == [form |-> "none"]
NoLink  == [user |-> 0]

There == {u \in Users : row[u].is = "there"}

findByEmail(email) == {u \in There : row[u].email = email}

(* The two tokens of an account, with the address they are sent to. *)
ActivationToken(u, account) == [user |-> u, email |-> account.email]

ResetToken(u, account) ==
  [user |-> u, email |-> account.email, password |-> account.password]

(* The comparison that a sign-in makes once the account is activated.  The *)
(* login form has both filters, but what is handed over is the parameter   *)
(* of the request, as it was typed (AuthController.php:38).                *)
authenticate(u, password) == row[u].password = password

ActivationLinks == [user : Users, email : Emails]
ResetLinks      == [user : Users, email : Emails, password : Texts]

(* "typed" is the password a request sets, Unset if it sets none; "link"   *)
(* what it was authorized by, NoLink for an administrator.                 *)
Registering == [op : {"register"}, new : Rows, typed : Entries]
Mailing     == [op : {"mail"}, link : ActivationLinks]
Updating    == [op : {"update"}, user : Users, loaded : Rows, new : Rows,
                typed : Entries \cup {Unset},
                link : ActivationLinks \cup ResetLinks \cup {NoLink}]

TypeOK ==
  /\ row \in [Users -> Rows \cup {NoRow, GoneRow}]
  /\ req \in [Requests -> Registering \cup Mailing \cup Updating \cup {Idle}]
  /\ calls \in 0 .. MaxCalls
  /\ activationLinks \subseteq ActivationLinks
  /\ resetLinks \subseteq ResetLinks
  /\ lastSet \in [Users -> Entries \cup {Unset}]
  /\ spent \subseteq resetLinks
  /\ overlapped \subseteq Users

Init ==
  /\ row = [u \in Users |-> NoRow]
  /\ req = [r \in Requests |-> Idle]
  /\ calls = 0
  /\ activationLinks = {}
  /\ resetLinks = {}
  /\ lastSet = [u \in Users |-> Unset]
  /\ spent = {}
  /\ overlapped = {}

-----------------------------------------------------------------------------
(* Registration, by oneself or by an administrator. *)
register(r, email, typed) ==
  /\ req[r] = Idle
  /\ calls < MaxCalls /\ calls' = calls + 1
  /\ findByEmail(email) = {}
  /\ req' = [req EXCEPT ![r] =
       [op |-> "register",
        new |-> [is |-> "there", email |-> email, activated |-> FALSE,
                 password |-> Filtered(typed)],
        typed |-> typed]]
  /\ UNCHANGED <<row, activationLinks, resetLinks, lastSet, spent, overlapped>>

NextId(u) == \A v \in Users : v < u <=> row[v] # NoRow

register_flush(r) ==
  /\ req[r].op = "register"
  /\ LET new == req[r].new IN
     IF findByEmail(new.email) = {}
     THEN \E u \in Users :
            /\ NextId(u)
            /\ row' = [row EXCEPT ![u] = new]
            /\ lastSet' = [lastSet EXCEPT ![u] = req[r].typed]
            /\ req' = [req EXCEPT ![r] =
                         [op |-> "mail", link |-> ActivationToken(u, new)]]
     ELSE /\ req' = [req EXCEPT ![r] = Idle]
          /\ UNCHANGED <<row, lastSet>>
  /\ UNCHANGED <<calls, activationLinks, resetLinks, spent, overlapped>>

(* A mail that cannot be sent is logged and forgotten. *)
sendRegistrationEmail(r) ==
  /\ req[r].op = "mail"
  /\ \/ activationLinks' = activationLinks \cup {req[r].link}
     \/ UNCHANGED activationLinks
  /\ req' = [req EXCEPT ![r] = Idle]
  /\ UNCHANGED <<row, calls, resetLinks, lastSet, spent, overlapped>>

-----------------------------------------------------------------------------
Sets(s, u) == req[s].op = "update" /\ req[s].user = u /\ req[s].typed # Unset

(* A request loads an account and changes the object in memory. *)
Load(r, u, new, typed, link) ==
  /\ req[r] = Idle
  /\ calls < MaxCalls /\ calls' = calls + 1
  /\ req' = [req EXCEPT ![r] =
       [op |-> "update", user |-> u, loaded |-> row[u], new |-> new,
        typed |-> typed, link |-> link]]
  /\ overlapped' = IF typed # Unset /\ \E s \in Requests : Sets(s, u)
                   THEN overlapped \cup {u} ELSE overlapped
  /\ UNCHANGED <<row, activationLinks, resetLinks, lastSet, spent>>

(* MUTANT of activate: the token leaves out the id. *)
activate_by_address(r, link) ==
  \E u \in findByEmail(link.email) :
    Load(r, u, [row[u] EXCEPT !.activated = TRUE], Unset, link)

activate(r, link) ==
  \E u \in findByEmail(link.email) :
    /\ ActivationToken(u, row[u]) = link
    /\ Load(r, u, [row[u] EXCEPT !.activated = TRUE], Unset, link)

(* The link goes to the address of the account, or into the form on the    *)
(* user's own password page.                                               *)
forgotPassword(email) ==
  /\ \E u \in findByEmail(email) :
       resetLinks' = resetLinks \cup {ResetToken(u, row[u])}
  /\ UNCHANGED <<row, req, calls, activationLinks, lastSet, spent, overlapped>>

(* MUTANT of validateResetPasswordToken: the token leaves out the password. *)
validateResetPasswordToken_of_address(u, link) ==
  ActivationToken(u, row[u]) = [user |-> link.user, email |-> link.email]

validateResetPasswordToken(u, link) == ResetToken(u, row[u]) = link

(* The form for a new password trims it.  (It may refuse outer blanks, as  *)
(* the repetition is trimmed before the two are compared: then nothing     *)
(* happens.  The user's own page trims both before.)                       *)
WithPassword(u, typed) == [row[u] EXCEPT !.password = Filtered(typed)]

(* MUTANT of resetPassword: who can read the mail is activated, too. *)
resetPassword_activates(r, link, typed) ==
  \E u \in findByEmail(link.email) :
    /\ validateResetPasswordToken(u, link)
    /\ Load(r, u, [WithPassword(u, typed) EXCEPT !.activated = TRUE], typed, link)

resetPassword(r, link, typed) ==
  \E u \in findByEmail(link.email) :
    /\ validateResetPasswordToken(u, link)
    /\ Load(r, u, WithPassword(u, typed), typed, link)

acl_adminResetPassword(r, u, typed) ==
  /\ u \in There
  /\ Load(r, u, WithPassword(u, typed), typed, NoLink)

(* An address is only looked up when it is a new one. *)
EmailValid(u, email) == email = row[u].email \/ findByEmail(email) = {}

acl_update(r, u, email) ==
  /\ u \in There
  /\ EmailValid(u, email)
  /\ Load(r, u, [row[u] EXCEPT !.email = email], Unset, NoLink)

(* The page that edits a user leaves the password out, so that the address *)
(* alone is set, as by acl_update.                                         *)
acl_admin_update(r, u, email, typed) ==
  /\ u \in There
  /\ EmailValid(u, email)
  /\ Load(r, u, [WithPassword(u, typed) EXCEPT !.email = email], typed, NoLink)

(* MUTANT of Written: the whole row is written. *)
Written_whole(loaded, new, current) == new

(* The columns that the request changed, over those of the row by now. *)
Written(loaded, new, current) ==
  [c \in DOMAIN current |-> IF new[c] # loaded[c] THEN new[c] ELSE current[c]]

(* Links that are spent once u has this password: the link that set it is, *)
(* and those for this very password are valid (again).                     *)
Spent(u, link, password) ==
  {l \in spent \cup ({link} \cap resetLinks) : l.user # u \/ l.password # password}

flush(r) ==
  /\ req[r].op = "update"
  /\ LET u == req[r].user
         written == IF u \in There THEN Written(req[r].loaded, req[r].new, row[u])
                                   ELSE row[u] IN
     IF u \in There /\ findByEmail(written.email) \subseteq {u}
     THEN /\ row' = [row EXCEPT ![u] = written]
          /\ lastSet' = IF req[r].typed = Unset THEN lastSet
                        ELSE [lastSet EXCEPT ![u] = req[r].typed]
          /\ spent' = Spent(u, req[r].link, written.password)
     ELSE UNCHANGED <<row, lastSet, spent>>
  /\ req' = [req EXCEPT ![r] = Idle]
  /\ UNCHANGED <<calls, activationLinks, resetLinks, overlapped>>

acl_delete(u) ==
  /\ u \in There
  /\ row' = [row EXCEPT ![u] = GoneRow]
  /\ lastSet' = [lastSet EXCEPT ![u] = Unset]
  /\ UNCHANGED <<req, calls, activationLinks, resetLinks, spent, overlapped>>

(* The process of a request ends before its work is done. *)
request_dies(r) ==
  /\ req[r] # Idle
  /\ req' = [req EXCEPT ![r] = Idle]
  /\ UNCHANGED <<row, calls, activationLinks, resetLinks, lastSet, spent, overlapped>>

-----------------------------------------------------------------------------
Visitor(r) ==
  \/ \E e \in Emails, p \in Passwords : register(r, e, Typed("user", p))
  \/ \E l \in activationLinks : activate(r, l)
  \/ \E l \in resetLinks, p \in Passwords : resetPassword(r, l, Typed("reset", p))

Admin(r) ==
  \/ \E e \in Emails, p \in Passwords : register(r, e, Typed("add", p))
  \/ \E u \in Users :
       \/ \E p \in Passwords : acl_adminResetPassword(r, u, Typed("reset", p))
       \/ \E e \in Emails : acl_update(r, u, e)
       \/ \E e \in Emails, p \in Passwords :
            acl_admin_update(r, u, e, Typed("user", p))

Continue(r) ==
  \/ register_flush(r)
  \/ sendRegistrationEmail(r)
  \/ flush(r)
  \/ request_dies(r)

Next ==
  \/ \E r \in Requests : Visitor(r) \/ Admin(r) \/ Continue(r)
  \/ \E e \in Emails : forgotPassword(e)
  \/ \E u \in Users : acl_delete(u)

Spec == Init /\ [][Next]_vars

-----------------------------------------------------------------------------
(* No filter of the form changes what was typed: it has no outer blanks,   *)
(* and nothing to escape if the form escapes.                              *)
Unfiltered(typed) ==
  /\ StringTrim[typed.of] = typed.of
  /\ typed.form # "reset" => HtmlEntities[typed.of] = typed.of

(* The password typed last opens the account, and of all others at most    *)
(* the one that the form made of it, as long as no two passwords were set  *)
(* for the account at once -- whatever else is changed meanwhile (flush,   *)
(* User.php:180, 218, 350).  The exceptions: a password with outer blanks  *)
(* never opens it, wherever it was set, since every form trims it          *)
(* (Form/User.php:61, ResetPassword.php:29) and a sign-in does not         *)
(* (AuthController.php:38); nor does one with a character that HTML        *)
(* escapes, set where the form escapes it (Form/User.php:62).              *)
LastPasswordSignsIn ==
  \A u \in There \ overlapped :
    /\ authenticate(u, lastSet[u].of) <=> Unfiltered(lastSet[u])
    /\ \A p \in Passwords : authenticate(u, p) => p = Filtered(lastSet[u])

(* A reset link that has replaced the account's password sets no other,    *)
(* however often it is followed, until the account has the password again  *)
(* that it had when the link was sent (User.php:497).  Only a second use   *)
(* that overlaps with the first is let through.                            *)
SpentLinkIsDead ==
  \A r \in Requests :
    req[r].op = "update" /\ req[r].link \in spent => req[r].user \in overlapped

(* A link acts on the account it was sent for and on no other, though      *)
(* links name an address and accounts are deleted and their addresses      *)
(* taken by others (User.php:247-251, 344-350).                            *)
OwnLinksOnly ==
  \A r \in Requests :
    req[r].op = "update" /\ req[r].link # NoLink => req[r].link.user = req[r].user

(* Shut: stored without being activated, and no registration mail arrived  *)
(* or is about to be sent.                                                 *)
Shut(u) ==
  /\ u \in There
  /\ ~row[u].activated
  /\ \A l \in activationLinks : l.user # u
  /\ \A r \in Requests : req[r].op = "mail" => req[r].link.user # u

StaysShut == \A u \in Users : Shut(u) => Shut(u)' \/ u \notin There'

(* An account whose registration mail was lost, or whose request died      *)
(* before the mail, stays shut until it is deleted: neither a new password *)
(* nor an administrator's update opens it, and no other mail is sent       *)
(* (RegisterController.php:42-43).                                         *)
ShutUntilDeleted == [][StaysShut]_vars

=============================================================================
