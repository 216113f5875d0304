----------------------------- MODULE Assessment -----------------------------
(***************************************************************************)
(* One assessment of a course: the provider edits its questions, students  *)
(* take attempts, answer questions and finish.                             *)
(*                                                                         *)
(* Code: App\Service\Course\Assessment, App\Entity\Course\Assessment\*.    *)
(*                                                                         *)
(* Every call is a web request of its own: it loads the attempt, changes   *)
(* its copy and flushes the columns it changed, with no lock and no        *)
(* version.  acl_answerQuestion and acl_finishAttempt are therefore two    *)
(* steps each; the others read nothing that they write back.               *)
(*                                                                         *)
(* An answer is a PHP array (a function) for multiple-choice and           *)
(* fill-in-the-blank questions; that of a true/false question is modelled  *)
(* as an array with the one key 0, and null as the array without keys.     *)
(* The shuffled number of a question in an attempt is the question itself. *)
(* An identifier added again after its removal is another question; so is  *)
(* one whose update changes the number of its blanks.                      *)
(***************************************************************************)
EXTENDS Naturals, FiniteSets, Functions

CONSTANTS
  Questions,       \* identifiers of questions
  TrueFalse,       \* those of class TrueFalse; the others compare arrays
  Arrays,          \* [Questions -> ..]: the complete answers to a question
  Subscriptions,   \* students' subscriptions to the course
  Attempts,        \* identifiers of attempts
  Requests,        \* web requests that may run at the same time
  MaxEdits         \* bound: questions saved or removed by the provider

Null == << >>

ASSUME AnswersAssumption ==
  /\ TrueFalse \subseteq Questions
  /\ \A q \in TrueFalse : Arrays[q] = [{0} -> {"0", "1"}]
  /\ \A q \in Questions :
       /\ Arrays[q] # {} /\ Null \notin Arrays[q]
       /\ \A x \in Arrays[q] : x = [k \in DOMAIN x |-> x[k]]
       /\ \A x, y \in Arrays[q] : DOMAIN x = DOMAIN y
  /\ MaxEdits \in Nat

(* What acl_answerQuestion may be given: the page sends the whole array,   *)
(* and null for a true/false question with no radio button checked.        *)
Given(q) == IF q \in TrueFalse THEN Arrays[q] \cup {Null} ELSE Arrays[q]

(* Partial functions from questions to the arrays of S(q). *)
Sheets == UNION {{f \in [Q -> UNION {Given(q) : q \in Q}] :
                    \A q \in Q : f[q] \in Given(q)} : Q \in SUBSET Questions}
Keys   == {f \in Sheets : \A q \in DOMAIN f : f[q] \in Arrays[q]}

VARIABLES
  exists,      \* the assessment: "no", "yes", "deleted"
  retake,      \* is_retake_allowed
  bank,        \* its questions, each with its correct answer
  edits,       \* how often bank was changed, at most MaxEdits
  owner,       \* [Attempts -> Subscriptions]: whose attempt it is
  phase,       \* [Attempts -> ..]: "none", "open", "finished", "deleted"
  snapshot,    \* [Attempts -> Keys]: the questions column
  answers,     \* [Attempts -> Sheets]: the answers column
  corrected,   \* [Attempts -> SUBSET Questions]: counted as correct
  req,         \* [Requests -> ..]: what a request loaded and will flush
  overlapped,  \* history: attempts on which two requests ran at once
  submitted,   \* history, for the others: the last answer to each question
  handed       \* history, for the others: what was submitted when finished

vars == <<exists, retake, bank, edits, owner, phase, snapshot, answers, corrected,
          req, overlapped, submitted, handed>>

editVars    == <<exists, retake, bank, edits>>
attemptVars == <<owner, phase, snapshot, answers, corrected>>
history     == <<overlapped, submitted, handed>>

Idle == [op |-> "idle"]

Loaded ==
  {Idle}
  \cup [op : {"answer"}, attempt : Attempts, question : Questions,
        before : Sheets, after : Sheets]
  \cup [op : {"finish"}, attempt : Attempts, corrected : SUBSET Questions]

TypeOK ==
  /\ exists \in {"no", "yes", "deleted"}
  /\ retake \in BOOLEAN
  /\ bank \in Keys
  /\ edits \in 0 .. MaxEdits
  /\ owner \in [Attempts -> Subscriptions]
  /\ phase \in [Attempts -> {"none", "open", "finished", "deleted"}]
  /\ snapshot \in [Attempts -> Keys]
  /\ answers \in [Attempts -> Sheets]
  /\ corrected \in [Attempts -> SUBSET Questions]
  /\ \A a \in Attempts : DOMAIN answers[a] \cup corrected[a] \subseteq DOMAIN snapshot[a]
  /\ req \in [Requests -> Loaded]
  /\ overlapped \subseteq Attempts
  /\ submitted \in [Attempts -> Sheets]
  /\ handed \in [Attempts -> Sheets]

(* Each attempt has the subscription it will be created for. *)
Init ==
  /\ exists = "no" /\ retake = FALSE /\ bank = << >> /\ edits = 0
  /\ owner \in [Attempts -> Subscriptions]
  /\ phase = [a \in Attempts |-> "none"]
  /\ snapshot = [a \in Attempts |-> << >>]
  /\ answers = [a \in Attempts |-> << >>]
  /\ corrected = [a \in Attempts |-> {}]
  /\ req = [r \in Requests |-> Idle]
  /\ overlapped = {}
  /\ submitted = [a \in Attempts |-> << >>]
  /\ handed = [a \in Attempts |-> << >>]

(* $sheet[$q] = $value on an array. *)
Put(sheet, q, value) ==
  [x \in DOMAIN sheet \cup {q} |-> IF x = q THEN value ELSE sheet[x]]

Without(sheet, q) == [x \in DOMAIN sheet \ {q} |-> sheet[x]]

-----------------------------------------------------------------------------
(* The provider.                                                           *)

acl_create ==
  /\ exists = "no"
  /\ exists' = "yes" /\ retake' = FALSE
  /\ UNCHANGED <<bank, edits, attemptVars, req, history>>

acl_setIsRetakeAllowed ==
  /\ exists = "yes"
  /\ retake' \in BOOLEAN
  /\ UNCHANGED <<exists, bank, edits, attemptVars, req, history>>

(* acl_add..Question and acl_update..Question of the three classes. *)
acl_saveQuestion(q) ==
  /\ exists = "yes"
  /\ edits < MaxEdits /\ edits' = edits + 1
  /\ \E correct \in Arrays[q] : bank' = Put(bank, q, correct)
  /\ UNCHANGED <<exists, retake, attemptVars, req, history>>

acl_removeQuestion(q) ==
  /\ q \in DOMAIN bank
  /\ edits < MaxEdits /\ edits' = edits + 1
  /\ bank' = Without(bank, q)
  /\ UNCHANGED <<exists, retake, attemptVars, req, history>>

(* Questions and attempts are removed with the assessment. *)
acl_delete ==
  /\ exists = "yes"
  /\ exists' = "deleted" /\ bank' = << >>
  /\ phase' = [a \in Attempts |-> IF phase[a] = "none" THEN "none" ELSE "deleted"]
  /\ UNCHANGED <<retake, edits, owner, snapshot, answers, corrected, req, history>>

-----------------------------------------------------------------------------
(* The student.                                                            *)

There(a) == phase[a] \in {"open", "finished"}
Busy(a)  == \E r \in Requests : req[r] # Idle /\ req[r].attempt = a

(* History: a request on the attempt starts, and overlaps another. *)
Starts(a) ==
  IF Busy(a)
  THEN /\ overlapped' = overlapped \cup {a}
       /\ submitted' = [submitted EXCEPT ![a] = << >>]
       /\ handed' = [handed EXCEPT ![a] = << >>]
  ELSE UNCHANGED history

(* The questions are copied into the attempt; is_retake_allowed is not     *)
(* looked at.                                                              *)
acl_takeAssessment(a) ==
  /\ exists = "yes" /\ phase[a] = "none" /\ bank # << >>
  /\ phase' = [phase EXCEPT ![a] = "open"]
  /\ snapshot' = [snapshot EXCEPT ![a] = bank]
  /\ UNCHANGED <<editVars, owner, answers, corrected, req, history>>

(* MUTANT of acl_answerQuestion: the answers given before are forgotten. *)
acl_answerQuestion_alone(r, a, q) ==
  /\ req[r] = Idle /\ There(a) /\ q \in DOMAIN snapshot[a]
  /\ \E value \in Given(q) :
       req' = [req EXCEPT ![r] = [op |-> "answer", attempt |-> a, question |-> q,
                 before |-> answers[a], after |-> Put(<< >>, q, value)]]
  /\ Starts(a)
  /\ UNCHANGED <<editVars, attemptVars>>

(* MUTANT of acl_answerQuestion: ATTEMPT_QUESTION_NOT_FOUND is not thrown. *)
acl_answerQuestion_to_any(r, a, q) ==
  /\ req[r] = Idle /\ There(a)
  /\ \E value \in Given(q) :
       req' = [req EXCEPT ![r] = [op |-> "answer", attempt |-> a, question |-> q,
                 before |-> answers[a], after |-> Put(answers[a], q, value)]]
  /\ Starts(a)
  /\ UNCHANGED <<editVars, attemptVars>>

(* The attempt is loaded, finished or not, and the answer put into it .. *)
acl_answerQuestion(r, a, q) ==
  /\ req[r] = Idle /\ There(a) /\ q \in DOMAIN snapshot[a]
  /\ \E value \in Given(q) :
       req' = [req EXCEPT ![r] = [op |-> "answer", attempt |-> a, question |-> q,
                 before |-> answers[a], after |-> Put(answers[a], q, value)]]
  /\ Starts(a)
  /\ UNCHANGED <<editVars, attemptVars>>

(* .. and the whole column is written, if it changed and the row is there. *)
answerQuestion_flush(r) ==
  /\ req[r].op = "answer"
  /\ LET a == req[r].attempt
         q == req[r].question
     IN /\ answers' = IF There(a) /\ req[r].after # req[r].before
                      THEN [answers EXCEPT ![a] = req[r].after] ELSE answers
        /\ submitted' = IF a \in overlapped THEN submitted
                         ELSE [submitted EXCEPT ![a] = Put(@, q, req[r].after[q])]
  /\ req' = [req EXCEPT ![r] = Idle]
  /\ UNCHANGED <<editVars, owner, phase, snapshot, corrected, handed, overlapped>>

(* How one question of the snapshot is marked.  $sheet[$q] of a missing    *)
(* answer is null: false == null holds, and array_diff_uassoc with null    *)
(* has no differences to count.                                            *)
IsTrue(array) == array # Null /\ array[0] = "1"

(* MUTANT of Differences: array_diff, which compares the values only. *)
Differences_of_values(correct, given) ==
  {k \in DOMAIN correct : correct[k] \notin Range(given)}

Differences(correct, given) ==
  {k \in DOMAIN correct : k \notin DOMAIN given \/ given[k] # correct[k]}

Marked(questions, sheet, q) ==
  IF q \in TrueFalse
  THEN IsTrue(questions[q]) <=> q \in DOMAIN sheet /\ IsTrue(sheet[q])
  ELSE q \in DOMAIN sheet => Differences(questions[q], sheet[q]) = {}

Marks(questions, sheet) ==
  {q \in DOMAIN questions : Marked(questions, sheet, q)}

(* MUTANT of acl_finishAttempt: ATTEMPT_ALREADY_FINISHED is not thrown. *)
acl_finishAttempt_again(r, a) ==
  /\ req[r] = Idle /\ There(a)
  /\ req' = [req EXCEPT ![r] = [op |-> "finish", attempt |-> a,
                                corrected |-> Marks(snapshot[a], answers[a])]]
  /\ Starts(a)
  /\ UNCHANGED <<editVars, attemptVars>>

(* An open attempt is loaded and scored .. *)
acl_finishAttempt(r, a) ==
  /\ req[r] = Idle /\ phase[a] = "open"
  /\ req' = [req EXCEPT ![r] = [op |-> "finish", attempt |-> a,
                                corrected |-> Marks(snapshot[a], answers[a])]]
  /\ Starts(a)
  /\ UNCHANGED <<editVars, attemptVars>>

(* MUTANT of finishAttempt_flush: a row that is gone is inserted again. *)
finishAttempt_flush_inserts(r) ==
  /\ req[r].op = "finish"
  /\ LET a == req[r].attempt
     IN /\ phase' = [phase EXCEPT ![a] = "finished"]
        /\ corrected' = [corrected EXCEPT ![a] = req[r].corrected]
        /\ handed' = IF a \in overlapped THEN handed
                     ELSE [handed EXCEPT ![a] = submitted[a]]
  /\ req' = [req EXCEPT ![r] = Idle]
  /\ UNCHANGED <<editVars, owner, snapshot, answers, submitted, overlapped>>

(* .. and finished_at, corrected and score are written. *)
finishAttempt_flush(r) ==
  /\ req[r].op = "finish"
  /\ LET a == req[r].attempt
     IN IF There(a)
        THEN /\ phase' = [phase EXCEPT ![a] = "finished"]
             /\ corrected' = [corrected EXCEPT ![a] = req[r].corrected]
             /\ handed' = IF a \in overlapped THEN handed
                          ELSE [handed EXCEPT ![a] = submitted[a]]
        ELSE UNCHANGED <<phase, corrected, handed>>
  /\ req' = [req EXCEPT ![r] = Idle]
  /\ UNCHANGED <<editVars, owner, snapshot, answers, submitted, overlapped>>

(* The request ends in an exception or its process dies before the flush.  *)
request_dies(r) ==
  /\ req[r] # Idle
  /\ req' = [req EXCEPT ![r] = Idle]
  /\ UNCHANGED <<editVars, attemptVars, history>>

-----------------------------------------------------------------------------
Provider ==
  \/ acl_create \/ acl_setIsRetakeAllowed \/ acl_delete
  \/ \E q \in Questions : acl_saveQuestion(q) \/ acl_removeQuestion(q)

Student(r) ==
  \/ answerQuestion_flush(r) \/ finishAttempt_flush(r) \/ request_dies(r)
  \/ \E a \in Attempts :
       acl_finishAttempt(r, a) \/ \E q \in Questions : acl_answerQuestion(r, a, q)

Next ==
  \/ Provider
  \/ \E a \in Attempts : acl_takeAssessment(a)
  \/ \E r \in Requests : Student(r)

Spec == Init /\ [][Next]_vars

-----------------------------------------------------------------------------
(* Properties.                                                             *)

(* Whatever the order of the answers, and whatever the provider edits      *)
(* meanwhile: the attempt holds the last answer to every question and no   *)
(* other, unless two of its requests overlapped (acl_answerQuestion writes *)
(* the whole column back).                                                 *)
UndisturbedKept ==
  \A a \in Attempts \ overlapped : There(a) => answers[a] = submitted[a]

(* Of the questions that were answered when the attempt was finished, the  *)
(* ones counted as correct are exactly those whose answer is the correct   *)
(* answer of the question as the student was shown it, whatever became of  *)
(* the question, or of the answer, since.                                  *)
AnsweredScoredRight ==
  \A a \in Attempts \ overlapped : phase[a] = "finished" =>
    \A q \in DOMAIN handed[a] : handed[a][q] # Null =>
      (q \in corrected[a] <=> handed[a][q] = snapshot[a][q])

(* An attempt is scored once: answering after the score is known and       *)
(* submitting again does not improve it.                                   *)
ScoredOnce ==
  [][\A a \in Attempts : phase[a] = "finished" /\ a \notin overlapped'
       => corrected'[a] = corrected[a]]_vars

(* No request that loaded the attempt earlier reopens it after it was      *)
(* finished or brings it back after it was deleted, overlapping or not.    *)
PhaseForward ==
  [][\A a \in Attempts :
       /\ phase[a] = "finished" => phase'[a] \in {"finished", "deleted"}
       /\ phase[a] = "deleted" => phase'[a] = "deleted"]_vars

(* iAssessment says of acl_takeAssessment "Take or Retake an assessment if *)
(* allowed": a student with an attempt starts another only while           *)
(* is_retake_allowed.                                                      *)
RetakeOnlyIfAllowed ==
  [][\A a \in Attempts : phase[a] = "none" /\ phase'[a] = "open" =>
       \/ retake
       \/ \A b \in Attempts \ {a} : owner[b] = owner[a] => phase[b] = "none"]_vars

(* acl_finishAttempt says of its last part "3. lock it.": the answers of a *)
(* finished attempt do not change.                                         *)
LockedWhenFinished ==
  [][\A a \in Attempts : phase[a] = "finished" /\ phase'[a] = "finished" =>
       answers'[a] = answers[a]]_vars

(* acl_finishAttempt starts with $correct[$questionNumber] = false for a   *)
(* question without an answer: such a question does not count as correct.  *)
UnansweredIsWrong ==
  \A a \in Attempts \ overlapped : phase[a] = "finished" =>
    corrected[a] \subseteq DOMAIN handed[a]
=============================================================================
