--------------------------- MODULE FillInTheBlank ---------------------------
(***************************************************************************)
(* A fill-in-the-blank question: the provider types a text with words      *)
(* between double underscores, the row keeps a title with placeholders and *)
(* the words, and the edit page and the student's page put them together.  *)
(*                                                                         *)
(* Code: App\Service\Course\Assessment, AssessmentController, the view     *)
(* helper AssessmentQuestion, Form\Course\Assessment\Question.             *)
(*                                                                         *)
(* What is done to a text is in module BlankText.  Numbers of blanks begin *)
(* with 1 here and with 0 in the code.  Texts that HtmlEntities changes    *)
(* are left out: the form escapes them again each time they are saved.     *)
(* The removal of a question, and what becomes of the attempts, is the     *)
(* matter of module Assessment.                                            *)
(***************************************************************************)
EXTENDS BlankText

CONSTANTS
  Texts,       \* what a provider types, trimmed: sequences of characters
  Answered,    \* what a student may write into a blank
  Requests,    \* web requests of providers that may run at the same time
  MaxSaves     \* bound: how often the question is updated

FillInTheBlankAssumption ==
  /\ Texts \subseteq Text /\ Answered \subseteq Text
  /\ \A text \in Texts : Len(text) > 0 /\ text[1] # " " /\ text[Len(text)] # " "
  /\ MaxSaves \in Nat

VARIABLES
  row,         \* the question's title and words, or NoRow
  req,         \* [Requests -> ..]: what an update loaded, and the text it got
  saves,       \* how often an update began, at most MaxSaves
  attempt,     \* the question as copied into an attempt, or NoRow
  typed,       \* history: the text of the last save
  mixed,       \* history: the last save met another row than it had loaded
  asked        \* history: the text of which the attempt has a copy, if any

vars == <<row, req, saves, attempt, typed, mixed, asked>>

Rows  == [title : Text, words : Seq(Text)]
NoRow == [title |-> << >>, words |-> << >>]
Idle  == [op |-> "idle"]
Nothing == << >>

-----------------------------------------------------------------------------
(* What is saved of a text.  A text without blanks is accepted. *)
Parsed(text) == [title |-> Refilled(text, << >>), words |-> Words(text)]

(* The edit form shows the title with the words put back. *)
Form(question) == Refilled(question.title, question.words)

(* MUTANT of Right: the words are compared without their keys. *)
Right_in_any_order(question, given) ==
  \A n \in DOMAIN question.words : \E m \in DOMAIN given : given[m] = question.words[n]

(* array_diff_uassoc is empty: every word is found under its key. *)
Right(question, given) ==
  \A n \in DOMAIN question.words : n \in DOMAIN given /\ given[n] = question.words[n]

(* The student's page has a text input for every blank of the title. *)
Sheets(question) ==
  [1 .. Len(Words(question.title)) -> Answered]

-----------------------------------------------------------------------------
Init ==
  /\ row = NoRow /\ attempt = NoRow
  /\ req = [r \in Requests |-> Idle]
  /\ saves = 0
  /\ typed = Nothing /\ mixed = FALSE /\ asked = Nothing

acl_addFillInTheBlankQuestion(text) ==
  /\ row = NoRow
  /\ row' = Parsed(text) /\ typed' = text
  /\ UNCHANGED <<req, saves, attempt, mixed, asked>>

(* The question is loaded; a request that dies after it changes nothing. *)
acl_updateFillInTheBlankQuestion(r, text) ==
  /\ row # NoRow /\ req[r] = Idle
  /\ saves < MaxSaves /\ saves' = saves + 1
  /\ req' = [req EXCEPT ![r] = [op |-> "update", loaded |-> row, text |-> text]]
  /\ UNCHANGED <<row, attempt, typed, mixed, asked>>

(* The columns that differ from the loaded ones are written. *)
Written(column, loaded, new) == IF new = loaded THEN column ELSE new

update_flush(r) ==
  /\ req[r] # Idle
  /\ LET new == Parsed(req[r].text) IN
       row' = [title |-> Written(row.title, req[r].loaded.title, new.title),
               words |-> Written(row.words, req[r].loaded.words, new.words)]
  /\ typed' = req[r].text
  /\ mixed' = (row # req[r].loaded)
  /\ req' = [req EXCEPT ![r] = Idle]
  /\ UNCHANGED <<saves, attempt, asked>>

(* The question is copied into a new attempt. *)
acl_takeAssessment ==
  /\ row # NoRow /\ attempt = NoRow
  /\ attempt' = row
  /\ asked' = IF mixed THEN Nothing ELSE typed
  /\ UNCHANGED <<row, req, saves, typed, mixed>>

Next ==
  \/ \E text \in Texts :
       \/ acl_addFillInTheBlankQuestion(text)
       \/ \E r \in Requests : acl_updateFillInTheBlankQuestion(r, text)
  \/ \E r \in Requests : update_flush(r)
  \/ acl_takeAssessment

Spec == Init /\ [][Next]_vars

-----------------------------------------------------------------------------
TypeOK ==
  /\ row \in Rows /\ attempt \in Rows
  /\ req \in [Requests -> {Idle} \cup [op : {"update"}, loaded : Rows, text : Texts]]
  /\ saves \in 0 .. MaxSaves
  /\ typed \in Texts \cup {Nothing} /\ asked \in Texts \cup {Nothing}
  /\ mixed \in BOOLEAN

(* The edit page shows the provider the text that was saved last, unless   *)
(* two saves met: AssessmentController::editQuestionAction.                *)
EditShowsTyped ==
  (row # NoRow /\ ~mixed) => Form(row) = typed

(* Answers are right exactly if the student's page, filled in with them,   *)
(* reads as the text the provider had saved when the attempt began:        *)
(* acl_finishAttempt, AssessmentQuestion::renderFillInTheBlank.            *)
RightIsAsTyped ==
  asked # Nothing =>
    \A given \in Sheets(attempt) :
      Right(attempt, given) <=> Refilled(attempt.title, given) = asked
=============================================================================
