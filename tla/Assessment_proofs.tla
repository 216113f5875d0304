-------------------------- MODULE Assessment_proofs --------------------------
(* What one assessment guarantees for any number of questions, attempts and *)
(* concurrent requests.                                                     *)
EXTENDS Assessment, TLAPS

(* Request r is under way on attempt a. *)
On(r, a) == req[r] # Idle /\ req[r].attempt = a

-----------------------------------------------------------------------------
(* The inductive invariant.                                                *)

(* Requests run on attempts that were taken, and hold marks and answers of *)
(* questions the attempt has.                                              *)
RequestsWithin ==
  \A r \in Requests : req[r] # Idle =>
    /\ phase[req[r].attempt] # "none"
    /\ req[r].op = "answer" => DOMAIN req[r].after \subseteq DOMAIN snapshot[req[r].attempt]
    /\ req[r].op = "answer" => req[r].question \in DOMAIN req[r].after
    /\ req[r].op = "finish" => req[r].corrected \subseteq DOMAIN snapshot[req[r].attempt]

HistoryWithin ==
  \A a \in Attempts :
    /\ DOMAIN submitted[a] \cup DOMAIN handed[a] \subseteq DOMAIN snapshot[a]
    /\ phase[a] = "none" => snapshot[a] = << >>

Alone ==
  \A a \in Attempts \ overlapped : \A r, s \in Requests :
    On(r, a) /\ On(s, a) => r = s

(* A lone answer was put into the answers the attempt still has. *)
AnswerFresh ==
  \A r \in Requests :
    req[r].op = "answer" /\ req[r].attempt \notin overlapped
      /\ There(req[r].attempt) =>
    /\ req[r].before = answers[req[r].attempt]
    /\ req[r].after = Put(req[r].before, req[r].question, req[r].after[req[r].question])

(* A lone request to finish has marked the answers the attempt still has. *)
MarksFresh ==
  \A r \in Requests :
    req[r].op = "finish" /\ req[r].attempt \notin overlapped
      /\ There(req[r].attempt) =>
    /\ phase[req[r].attempt] = "open"
    /\ req[r].corrected = Marks(snapshot[req[r].attempt], answers[req[r].attempt])

Kept ==
  \A a \in Attempts \ overlapped : phase[a] # "deleted" => answers[a] = submitted[a]

Scored ==
  \A a \in Attempts \ overlapped :
    phase[a] = "finished" => corrected[a] = Marks(snapshot[a], handed[a])

IInv ==
  /\ TypeOK /\ RequestsWithin /\ HistoryWithin /\ Alone
  /\ AnswerFresh /\ MarksFresh /\ Kept /\ Scored


-----------------------------------------------------------------------------
(* Sheets.                                                                 *)

(* What it is to be a sheet of answers. *)
LEMMA SheetsAre ==
  ASSUME NEW f
  PROVE  f \in Sheets <=>
           /\ f = [q \in DOMAIN f |-> f[q]]
           /\ DOMAIN f \subseteq Questions
           /\ \A q \in DOMAIN f : f[q] \in Given(q)
<1>1. ASSUME f \in Sheets
      PROVE  /\ f = [q \in DOMAIN f |-> f[q]]
             /\ DOMAIN f \subseteq Questions
             /\ \A q \in DOMAIN f : f[q] \in Given(q)
  BY <1>1 DEF Sheets
<1>2. ASSUME f = [q \in DOMAIN f |-> f[q]], DOMAIN f \subseteq Questions,
             \A q \in DOMAIN f : f[q] \in Given(q)
      PROVE  f \in Sheets
  <2>1. f \in [DOMAIN f -> UNION {Given(q) : q \in DOMAIN f}]
    BY <1>2
  <2> QED BY <1>2, <2>1 DEF Sheets
<1> QED BY <1>1, <1>2

(* Put is an update, of sheets and of keys. *)
LEMMA PutIs ==
  ASSUME NEW f \in Sheets, NEW q \in Questions, NEW value \in Given(q)
  PROVE  /\ Put(f, q, value) \in Sheets
         /\ DOMAIN Put(f, q, value) = DOMAIN f \cup {q}
         /\ Put(f, q, value)[q] = value
         /\ f \in Keys /\ value \in Arrays[q] => Put(f, q, value) \in Keys
<1> DEFINE g == Put(f, q, value)
<1>1. /\ DOMAIN g = DOMAIN f \cup {q} /\ g[q] = value
      /\ g = [x \in DOMAIN g |-> g[x]]
      /\ \A x \in DOMAIN f \ {q} : g[x] = f[x]
  BY DEF Put
<1>2. g \in Sheets
  BY <1>1, SheetsAre
<1>3. f \in Keys /\ value \in Arrays[q] => g \in Keys
  BY <1>1, <1>2 DEF Keys
<1> QED BY <1>1, <1>2, <1>3

(* Removing a question leaves keys. *)
LEMMA WithoutIs ==
  ASSUME NEW f \in Keys, NEW q
  PROVE  Without(f, q) \in Keys
<1> DEFINE g == Without(f, q)
<1>1. g = [x \in DOMAIN g |-> g[x]] /\ DOMAIN g = DOMAIN f \ {q}
  BY DEF Without
<1>2. \A x \in DOMAIN g : g[x] = f[x]
  BY DEF Without
<1>3. f \in Sheets
  BY DEF Keys
<1>4. g \in Sheets
  BY <1>1, <1>2, <1>3, SheetsAre
<1> QED BY <1>1, <1>2, <1>4 DEF Keys

(* The empty sheet. *)
LEMMA EmptyIs == << >> \in Keys /\ DOMAIN << >> = {} /\ << >> \in Sheets
<1>1. << >> = [q \in {} |-> << >>[q]] /\ DOMAIN << >> = {}
  OBVIOUS
<1>2. << >> \in Sheets
  BY <1>1, SheetsAre
<1> QED BY <1>1, <1>2 DEF Keys

-----------------------------------------------------------------------------
(* Type correctness.                                                       *)

(* What a request that is under way holds. *)
LEMMA LoadedIs ==
  ASSUME TypeOK, NEW r \in Requests
  PROVE  /\ req[r] # Idle => req[r].attempt \in Attempts
         /\ req[r].op = "answer" =>
              /\ req[r] # Idle /\ req[r].question \in Questions
              /\ req[r].before \in Sheets /\ req[r].after \in Sheets
         /\ req[r].op = "finish" =>
              req[r] # Idle /\ req[r].corrected \in SUBSET Questions
         /\ req[r] = Idle => req[r].op = "idle"
         /\ req[r] # Idle => req[r].op \in {"answer", "finish"}
<1>1. req[r] \in Loaded
  BY DEF TypeOK
<1> QED BY <1>1 DEF Loaded, Idle

(* The correct answer of a question is an answer that can be given to it. *)
LEMMA CorrectIsGiven ==
  ASSUME NEW q, NEW x \in Arrays[q]
  PROVE  x \in Given(q)
BY DEF Given

(* The part of the invariant that says where answers and marks belong. *)
Types == TypeOK /\ RequestsWithin /\ HistoryWithin

(* At the start. *)
LEMMA InitTypes == Init => Types
<1> SUFFICES ASSUME Init PROVE Types
  OBVIOUS
<1> USE AnswersAssumption, EmptyIs DEF Init
<1>1. req \in [Requests -> Loaded]
  BY DEF Loaded
<1>2. TypeOK
  <2>1. [a \in Attempts |-> << >>] \in [Attempts -> Keys] \cap [Attempts -> Sheets]
    OBVIOUS
  <2>2. [a \in Attempts |-> {}] \in [Attempts -> SUBSET Questions]
    OBVIOUS
  <2>3. edits \in 0 .. MaxEdits /\ bank \in Keys
    OBVIOUS
  <2>4. phase \in [Attempts -> {"none", "open", "finished", "deleted"}]
    OBVIOUS
  <2>5. \A a \in Attempts : answers[a] = << >> /\ corrected[a] = {}
    OBVIOUS
  <2> QED BY <1>1, <2>1, <2>2, <2>3, <2>4, <2>5 DEF TypeOK
<1>3. RequestsWithin /\ HistoryWithin
  BY DEF RequestsWithin, HistoryWithin
<1> QED BY <1>2, <1>3 DEF Types

(* The provider's actions. *)
LEMMA ProviderTypes ==
  ASSUME Types, Provider
  PROVE  Types'
<1> USE AnswersAssumption DEF Types, attemptVars, history
<1>1. CASE acl_create
  BY <1>1 DEF acl_create, TypeOK, RequestsWithin, HistoryWithin, Loaded
<1>2. CASE acl_setIsRetakeAllowed
  BY <1>2 DEF acl_setIsRetakeAllowed, TypeOK, RequestsWithin, HistoryWithin, Loaded
<1>3. CASE acl_delete
  BY <1>3, EmptyIs DEF acl_delete, TypeOK, RequestsWithin, HistoryWithin, Loaded
<1>4. ASSUME NEW q \in Questions, acl_saveQuestion(q)
      PROVE  Types'
  <2>1. PICK x \in Arrays[q] : bank' = Put(bank, q, x)
    BY <1>4 DEF acl_saveQuestion
  <2>2. bank \in Keys /\ bank \in Sheets
    BY DEF TypeOK, Keys
  <2>3. bank' \in Keys
    BY <2>1, <2>2, CorrectIsGiven, PutIs
  <2>4. edits' \in 0 .. MaxEdits
    BY <1>4 DEF acl_saveQuestion, TypeOK
  <2> QED
    BY <1>4, <2>3, <2>4
       DEF acl_saveQuestion, TypeOK, RequestsWithin, HistoryWithin, Loaded
<1>5. ASSUME NEW q \in Questions, acl_removeQuestion(q)
      PROVE  Types'
  <2>1. bank' \in Keys
    BY <1>5, WithoutIs DEF acl_removeQuestion, TypeOK
  <2>2. edits' \in 0 .. MaxEdits
    BY <1>5 DEF acl_removeQuestion, TypeOK
  <2> QED
    BY <1>5, <2>1, <2>2
       DEF acl_removeQuestion, TypeOK, RequestsWithin, HistoryWithin, Loaded
<1> QED BY <1>1, <1>2, <1>3, <1>4, <1>5 DEF Provider

(* Starting an attempt. *)
LEMMA TakeTypes ==
  ASSUME Types, NEW a \in Attempts, acl_takeAssessment(a)
  PROVE  Types'
<1> USE AnswersAssumption DEF Types, acl_takeAssessment, editVars, history
<1>1. TypeOK'
  <2>1. DOMAIN answers[a] \cup corrected[a] = {}
    BY EmptyIs DEF TypeOK, HistoryWithin
  <2> QED BY <2>1 DEF TypeOK, Loaded
<1>2. RequestsWithin'
  BY LoadedIs DEF TypeOK, RequestsWithin
<1>3. HistoryWithin'
  BY EmptyIs DEF TypeOK, HistoryWithin
<1> QED BY <1>1, <1>2, <1>3

(* The history of an attempt on which a request starts. *)
LEMMA StartsTypes ==
  ASSUME Types, NEW a \in Attempts, Starts(a), UNCHANGED <<phase, snapshot>>
  PROVE  /\ overlapped' \subseteq Attempts
         /\ submitted' \in [Attempts -> Sheets]
         /\ handed' \in [Attempts -> Sheets]
         /\ HistoryWithin'
BY EmptyIs DEF Types, TypeOK, HistoryWithin, Starts, history

(* A request that answers a question. *)
LEMMA AnswerTypes ==
  ASSUME Types, NEW r \in Requests, NEW a \in Attempts, NEW q \in Questions,
         acl_answerQuestion(r, a, q)
  PROVE  Types'
<1> USE AnswersAssumption DEF Types
<1>0. UNCHANGED <<editVars, attemptVars>> /\ Starts(a) /\ There(a)
      /\ req[r] = Idle /\ q \in DOMAIN snapshot[a]
  BY DEF acl_answerQuestion
<1>1. PICK value \in Given(q) :
        req' = [req EXCEPT ![r] = [op |-> "answer", attempt |-> a, question |-> q,
                 before |-> answers[a], after |-> Put(answers[a], q, value)]]
  BY DEF acl_answerQuestion
<1>2. answers[a] \in Sheets
  BY DEF TypeOK
<1>3. /\ Put(answers[a], q, value) \in Sheets
      /\ DOMAIN Put(answers[a], q, value) = DOMAIN answers[a] \cup {q}
  BY <1>2, PutIs
<1>4. req' \in [Requests -> Loaded]
  BY <1>1, <1>2, <1>3 DEF TypeOK, Loaded
<1>5. /\ overlapped' \subseteq Attempts
      /\ submitted' \in [Attempts -> Sheets]
      /\ handed' \in [Attempts -> Sheets]
      /\ HistoryWithin'
  BY <1>0, StartsTypes DEF attemptVars
<1>6. TypeOK'
  BY <1>0, <1>4, <1>5 DEF TypeOK, editVars, attemptVars
<1>7. RequestsWithin'
  BY <1>0, <1>1, <1>3 DEF TypeOK, RequestsWithin, attemptVars, There
<1> QED BY <1>5, <1>6, <1>7

(* Marks are marks of the questions. *)
LEMMA MarksWithin ==
  ASSUME NEW questions, NEW sheet
  PROVE  Marks(questions, sheet) \subseteq DOMAIN questions
BY DEF Marks

(* A request that finishes an attempt. *)
LEMMA FinishTypes ==
  ASSUME Types, NEW r \in Requests, NEW a \in Attempts, acl_finishAttempt(r, a)
  PROVE  Types'
<1> USE AnswersAssumption DEF Types
<1>0. UNCHANGED <<editVars, attemptVars>> /\ Starts(a) /\ phase[a] = "open"
      /\ req[r] = Idle
  BY DEF acl_finishAttempt
<1>1. req' = [req EXCEPT ![r] = [op |-> "finish", attempt |-> a,
                                 corrected |-> Marks(snapshot[a], answers[a])]]
  BY DEF acl_finishAttempt
<1>2. snapshot[a] \in Sheets
  BY DEF TypeOK, Keys
<1>3. /\ Marks(snapshot[a], answers[a]) \subseteq DOMAIN snapshot[a]
      /\ DOMAIN snapshot[a] \subseteq Questions
  BY <1>2, MarksWithin, SheetsAre
<1>4. req' \in [Requests -> Loaded]
  BY <1>1, <1>3 DEF TypeOK, Loaded
<1>5. /\ overlapped' \subseteq Attempts
      /\ submitted' \in [Attempts -> Sheets]
      /\ handed' \in [Attempts -> Sheets]
      /\ HistoryWithin'
  BY <1>0, StartsTypes DEF attemptVars
<1>6. TypeOK'
  BY <1>0, <1>4, <1>5 DEF TypeOK, editVars, attemptVars
<1>7. RequestsWithin'
  BY <1>0, <1>1, <1>3 DEF TypeOK, RequestsWithin, attemptVars
<1> QED BY <1>5, <1>6, <1>7

(* The flush of an answer. *)
LEMMA AnswerFlushTypes ==
  ASSUME Types, NEW r \in Requests, answerQuestion_flush(r)
  PROVE  Types'
<1> USE AnswersAssumption DEF Types
<1> DEFINE a == req[r].attempt
           q == req[r].question
<1>1. /\ req[r].op = "answer" /\ req[r] # Idle
      /\ a \in Attempts /\ q \in Questions /\ req[r].after \in Sheets
      /\ DOMAIN req[r].after \subseteq DOMAIN snapshot[a]
      /\ q \in DOMAIN req[r].after /\ phase[a] # "none"
  BY LoadedIs DEF answerQuestion_flush, RequestsWithin
<1>2. req[r].after[q] \in Given(q)
  BY <1>1, SheetsAre
<1>3. submitted[a] \in Sheets
  BY <1>1 DEF TypeOK
<1>4. /\ Put(submitted[a], q, req[r].after[q]) \in Sheets
      /\ DOMAIN Put(submitted[a], q, req[r].after[q]) = DOMAIN submitted[a] \cup {q}
  <2> DEFINE f == submitted[a]
             value == req[r].after[q]
  <2>1. f \in Sheets /\ q \in Questions /\ value \in Given(q)
    BY <1>1, <1>2, <1>3
  <2> HIDE DEF a, q, f, value
  <2>2. Put(f, q, value) \in Sheets /\ DOMAIN Put(f, q, value) = DOMAIN f \cup {q}
    BY <2>1, PutIs
  <2> QED BY <2>2 DEF a, q, f, value
<1>5. /\ answers' = answers \/ answers' = [answers EXCEPT ![a] = req[r].after]
      /\ \/ submitted' = submitted
         \/ submitted' = [submitted EXCEPT ![a] = Put(@, q, req[r].after[q])]
      /\ req' = [req EXCEPT ![r] = Idle]
      /\ UNCHANGED <<editVars, owner, phase, snapshot, corrected, handed, overlapped>>
  BY DEF answerQuestion_flush
<1>6. TypeOK'
  BY <1>1, <1>4, <1>5 DEF TypeOK, editVars, Loaded
<1>7. RequestsWithin'
  BY <1>5 DEF TypeOK, RequestsWithin
<1>8. HistoryWithin'
  BY <1>1, <1>4, <1>5 DEF TypeOK, HistoryWithin
<1> QED BY <1>6, <1>7, <1>8

(* The flush of a finished attempt. *)
LEMMA FinishFlushTypes ==
  ASSUME Types, NEW r \in Requests, finishAttempt_flush(r)
  PROVE  Types'
<1> USE AnswersAssumption DEF Types
<1> DEFINE a == req[r].attempt
<1>1. /\ req[r].op = "finish" /\ req[r] # Idle /\ a \in Attempts
      /\ req[r].corrected \in SUBSET Questions
      /\ req[r].corrected \subseteq DOMAIN snapshot[a]
      /\ phase[a] # "none"
  BY LoadedIs DEF finishAttempt_flush, RequestsWithin
<1>2. /\ \/ UNCHANGED <<phase, corrected>>
         \/ /\ phase' = [phase EXCEPT ![a] = "finished"]
            /\ corrected' = [corrected EXCEPT ![a] = req[r].corrected]
      /\ handed' = handed \/ handed' = [handed EXCEPT ![a] = submitted[a]]
      /\ req' = [req EXCEPT ![r] = Idle]
      /\ UNCHANGED <<editVars, owner, snapshot, answers, submitted, overlapped>>
  BY DEF finishAttempt_flush
<1>3. TypeOK'
  BY <1>1, <1>2 DEF TypeOK, editVars, Loaded
<1>4. RequestsWithin'
  BY <1>1, <1>2, LoadedIs DEF TypeOK, RequestsWithin
<1>5. HistoryWithin'
  BY <1>1, <1>2 DEF TypeOK, HistoryWithin
<1> QED BY <1>3, <1>4, <1>5

(* A request that dies leaves everything but itself. *)
LEMMA DiesTypes ==
  ASSUME Types, NEW r \in Requests, request_dies(r)
  PROVE  Types'
BY DEF Types, TypeOK, RequestsWithin, HistoryWithin, request_dies, Loaded,
       editVars, attemptVars, history

(* A step that changes nothing. *)
LEMMA StutterTypes ==
  ASSUME Types, UNCHANGED vars
  PROVE  Types'
BY DEF Types, TypeOK, RequestsWithin, HistoryWithin, vars, Loaded

(* Every step. *)
LEMMA NextTypes ==
  ASSUME Types, [Next]_vars
  PROVE  Types'
<1>1. ASSUME NEW r \in Requests, Student(r)
      PROVE  Types'
  BY <1>1, AnswerTypes, FinishTypes, AnswerFlushTypes, FinishFlushTypes, DiesTypes
     DEF Student
<1> QED BY <1>1, ProviderTypes, TakeTypes, StutterTypes DEF Next

(* Answers, marks and the requests that carry them belong to questions of  *)
(* the attempt, however requests overlap.                                  *)
THEOREM TypeCorrect == Spec => []TypeOK
<1>1. Spec => []Types
  BY InitTypes, NextTypes, PTL DEF Spec
<1>2. Types => TypeOK
  BY DEF Types
<1> QED BY <1>1, <1>2, PTL

-----------------------------------------------------------------------------
(* What a lone request relies on.                                          *)

Calm == Alone /\ AnswerFresh /\ MarksFresh /\ Kept /\ Scored

(* At the start. *)
LEMMA InitCalm == Init => Calm
BY DEF Init, Calm, Alone, AnswerFresh, MarksFresh, Kept, Scored, On, Idle

(* The provider touches no attempt, except that acl_delete removes them all. *)
LEMMA ProviderCalm ==
  ASSUME Types, Calm, Provider
  PROVE  Calm'
<1>1. /\ UNCHANGED <<owner, snapshot, answers, corrected, req, history>>
      /\ \A a \in Attempts : phase'[a] = phase[a] \/ phase'[a] = "deleted"
  <2>1. CASE acl_delete
    BY <2>1 DEF acl_delete
  <2>2. CASE ~acl_delete
    <3>1. UNCHANGED <<attemptVars, req, history>>
      BY <2>2 DEF Provider, acl_create, acl_setIsRetakeAllowed, acl_saveQuestion,
                  acl_removeQuestion
    <3> QED BY <3>1 DEF attemptVars
  <2> QED BY <2>1, <2>2
<1>2. \A a \in Attempts : There(a)' => phase'[a] = phase[a] /\ There(a)
  BY <1>1 DEF There
<1>3. Alone'
  BY <1>1 DEF Alone, On, Calm, history
<1>4. AnswerFresh' /\ MarksFresh'
  BY <1>1, <1>2, LoadedIs DEF AnswerFresh, MarksFresh, Calm, Types, history
<1>5. Kept' /\ Scored'
  BY <1>1 DEF Kept, Scored, Calm, history
<1> QED BY <1>3, <1>4, <1>5 DEF Calm

(* No request runs on an attempt that is just being taken. *)
LEMMA TakeCalm ==
  ASSUME Types, Calm, NEW a \in Attempts, acl_takeAssessment(a)
  PROVE  Calm'
<1>1. /\ phase[a] = "none"
      /\ phase' = [phase EXCEPT ![a] = "open"]
      /\ snapshot' = [snapshot EXCEPT ![a] = bank]
      /\ UNCHANGED <<answers, corrected, req, overlapped, submitted, handed>>
  BY DEF acl_takeAssessment, history
<1>2. \A b \in Attempts \ {a} : phase'[b] = phase[b] /\ snapshot'[b] = snapshot[b]
  BY <1>1 DEF Types, TypeOK
<1>3. \A r \in Requests : req[r] # Idle => req[r].attempt \in Attempts \ {a}
  BY <1>1, LoadedIs DEF Types, RequestsWithin
<1>4. phase'[a] = "open"
  BY <1>1 DEF Types, TypeOK
<1>5. Alone'
  BY <1>1 DEF Alone, On, Calm
<1>6. AnswerFresh' /\ MarksFresh'
  BY <1>1, <1>2, <1>3, LoadedIs DEF AnswerFresh, MarksFresh, Calm, Types, There
<1>7. Kept' /\ Scored'
  BY <1>1, <1>2, <1>4 DEF Kept, Scored, Calm
<1> QED BY <1>5, <1>6, <1>7 DEF Calm

(* A request that starts on an attempt is alone there, or marks it.        *)
LEMMA StartsAlone ==
  ASSUME Types, Calm, NEW a \in Attempts, NEW r \in Requests, req[r] = Idle,
         Starts(a), \A s \in Requests \ {r} : req'[s] = req[s],
         req'[r].attempt = a
  PROVE  /\ Alone'
         /\ overlapped \subseteq overlapped'
         /\ \A b \in Attempts \ overlapped' :
              submitted'[b] = submitted[b] /\ handed'[b] = handed[b]
<1>1. CASE Busy(a)
  <2>1. /\ overlapped' = overlapped \cup {a}
        /\ submitted' = [submitted EXCEPT ![a] = << >>]
        /\ handed' = [handed EXCEPT ![a] = << >>]
    BY <1>1 DEF Starts
  <2>2. Alone'
    BY <2>1 DEF Alone, On, Calm
  <2> QED BY <2>1, <2>2 DEF Types, TypeOK
<1>2. CASE ~Busy(a)
  <2>1. UNCHANGED <<overlapped, submitted, handed>>
    BY <1>2 DEF Starts, history
  <2>2. \A s \in Requests : ~On(s, a)
    BY <1>2 DEF Busy, On
  <2>3. Alone'
    BY <2>1, <2>2 DEF Alone, On, Calm
  <2> QED BY <2>1, <2>3
<1> QED BY <1>1, <1>2

(* A request that answers a question. *)
LEMMA AnswerCalm ==
  ASSUME Types, Calm, NEW r \in Requests, NEW a \in Attempts, NEW q \in Questions,
         acl_answerQuestion(r, a, q)
  PROVE  Calm'
<1>1. UNCHANGED <<phase, snapshot, answers, corrected>> /\ Starts(a) /\ req[r] = Idle
  BY DEF acl_answerQuestion, attemptVars
<1>2. PICK value \in Given(q) :
        req' = [req EXCEPT ![r] = [op |-> "answer", attempt |-> a, question |-> q,
                 before |-> answers[a], after |-> Put(answers[a], q, value)]]
  BY DEF acl_answerQuestion
<1>3. /\ req'[r] = [op |-> "answer", attempt |-> a, question |-> q,
                    before |-> answers[a], after |-> Put(answers[a], q, value)]
      /\ \A s \in Requests \ {r} : req'[s] = req[s]
  BY <1>2 DEF Types, TypeOK
<1>4. /\ Alone'
      /\ overlapped \subseteq overlapped'
      /\ \A b \in Attempts \ overlapped' :
           submitted'[b] = submitted[b] /\ handed'[b] = handed[b]
  BY <1>1, <1>3, StartsAlone
<1>5. Put(answers[a], q, value)[q] = value
  BY PutIs DEF Types, TypeOK
<1>6. AnswerFresh'
  <2> SUFFICES ASSUME NEW s \in Requests, (req[s].op = "answer")',
                      (req[s].attempt)' \notin overlapped', There(req[s].attempt)'
               PROVE  /\ (req[s].before = answers[req[s].attempt])'
                      /\ (req[s].after = Put(req[s].before, req[s].question,
                                             req[s].after[req[s].question]))'
    BY DEF AnswerFresh
  <2>1. CASE s = r
    BY <2>1, <1>1, <1>3, <1>5
  <2>2. CASE s # r
    BY <2>2, <1>1, <1>3, <1>4 DEF AnswerFresh, Calm, There
  <2> QED BY <2>1, <2>2
<1>7. MarksFresh'
  BY <1>1, <1>3, <1>4 DEF MarksFresh, Calm, There
<1>8. Kept' /\ Scored'
  BY <1>1, <1>4 DEF Kept, Scored, Calm
<1> QED BY <1>4, <1>6, <1>7, <1>8 DEF Calm

(* A request that finishes an attempt. *)
LEMMA FinishCalm ==
  ASSUME Types, Calm, NEW r \in Requests, NEW a \in Attempts, acl_finishAttempt(r, a)
  PROVE  Calm'
<1>1. UNCHANGED <<phase, snapshot, answers, corrected>> /\ Starts(a) /\ req[r] = Idle
      /\ phase[a] = "open"
  BY DEF acl_finishAttempt, attemptVars
<1>2. /\ req'[r] = [op |-> "finish", attempt |-> a,
                    corrected |-> Marks(snapshot[a], answers[a])]
      /\ \A s \in Requests \ {r} : req'[s] = req[s]
  BY DEF acl_finishAttempt, Types, TypeOK
<1>3. /\ Alone'
      /\ overlapped \subseteq overlapped'
      /\ \A b \in Attempts \ overlapped' :
           submitted'[b] = submitted[b] /\ handed'[b] = handed[b]
  BY <1>1, <1>2, StartsAlone
<1>4. AnswerFresh'
  BY <1>1, <1>2, <1>3 DEF AnswerFresh, Calm, There
<1>5. MarksFresh'
  BY <1>1, <1>2, <1>3 DEF MarksFresh, Calm, There
<1>6. Kept' /\ Scored'
  BY <1>1, <1>3 DEF Kept, Scored, Calm
<1> QED BY <1>3, <1>4, <1>5, <1>6 DEF Calm

(* The flush of an answer: a lone one adds exactly its answer. *)
LEMMA AnswerFlushCalm ==
  ASSUME Types, Calm, NEW r \in Requests, answerQuestion_flush(r)
  PROVE  Calm'
<1> DEFINE a == req[r].attempt
           q == req[r].question
           after == req[r].after
<1>1. /\ req[r].op = "answer" /\ req[r] # Idle /\ a \in Attempts
      /\ phase[a] # "none"
  BY LoadedIs DEF answerQuestion_flush, Types, RequestsWithin
<1>2. /\ UNCHANGED <<phase, snapshot, corrected, handed, overlapped>>
      /\ answers' = IF There(a) /\ after # req[r].before
                    THEN [answers EXCEPT ![a] = after] ELSE answers
      /\ submitted' = IF a \in overlapped THEN submitted
                      ELSE [submitted EXCEPT ![a] = Put(@, q, after[q])]
      /\ req'[r] = Idle
      /\ \A s \in Requests \ {r} : req'[s] = req[s]
  BY DEF answerQuestion_flush, Types, TypeOK
<1>3. \A b \in Attempts \ {a} : answers'[b] = answers[b] /\ submitted'[b] = submitted[b]
  BY <1>1, <1>2 DEF Types, TypeOK
<1>4. Alone'
  BY <1>2 DEF Alone, On, Calm
<1>5. a \notin overlapped => \A s \in Requests : (req[s] # Idle)' => req'[s].attempt # a
  BY <1>1, <1>2 DEF Alone, On, Calm
<1>6. \A s \in Requests : req'[s].op \in {"answer", "finish"} =>
        /\ req'[s] = req[s] /\ req'[s] # Idle /\ req[s].attempt \in Attempts
        /\ req[s].attempt \notin overlapped => req[s].attempt # a
  BY <1>2, <1>5, LoadedIs DEF Types, Idle
<1>7. AnswerFresh' /\ MarksFresh'
  BY <1>2, <1>3, <1>6 DEF AnswerFresh, MarksFresh, Calm, There
<1>8. Kept'
  <2>1. CASE a \in overlapped
    BY <2>1, <1>2, <1>3 DEF Kept, Calm
  <2>2. CASE a \notin overlapped /\ phase[a] # "deleted"
    <3>1. There(a)
      BY <2>2, <1>1 DEF There, Types, TypeOK
    <3>2. after = Put(answers[a], q, after[q]) /\ req[r].before = answers[a]
      BY <2>2, <3>1, <1>1 DEF AnswerFresh, Calm
    <3>3. answers'[a] = after
      BY <3>1, <3>2, <1>1, <1>2 DEF Types, TypeOK
    <3>4. submitted'[a] = Put(submitted[a], q, after[q])
      BY <2>2, <1>1, <1>2 DEF Types, TypeOK
    <3>5. submitted[a] = answers[a]
      BY <2>2, <1>1 DEF Kept, Calm
    <3> QED BY <3>2, <3>3, <3>4, <3>5, <1>2, <1>3 DEF Kept, Calm
  <2>3. CASE phase[a] = "deleted"
    BY <2>3, <1>2, <1>3 DEF Kept, Calm
  <2> QED BY <2>1, <2>2, <2>3
<1>9. Scored'
  BY <1>2 DEF Scored, Calm
<1> QED BY <1>4, <1>7, <1>8, <1>9 DEF Calm

(* The flush of a finished attempt: a lone one stores the marks of what    *)
(* was submitted.                                                          *)
LEMMA FinishFlushCalm ==
  ASSUME Types, Calm, NEW r \in Requests, finishAttempt_flush(r)
  PROVE  Calm'
<1> DEFINE a == req[r].attempt
<1>1. req[r].op = "finish" /\ req[r] # Idle /\ a \in Attempts
  BY LoadedIs DEF finishAttempt_flush, Types
<1>2. /\ UNCHANGED <<snapshot, answers, submitted, overlapped>>
      /\ req'[r] = Idle
      /\ \A s \in Requests \ {r} : req'[s] = req[s]
      /\ \A b \in Attempts \ {a} : /\ phase'[b] = phase[b]
                                   /\ corrected'[b] = corrected[b]
                                   /\ handed'[b] = handed[b]
      /\ ~There(a) => UNCHANGED <<phase, corrected, handed>>
      /\ There(a) => /\ phase'[a] = "finished"
                     /\ corrected'[a] = req[r].corrected
                     /\ a \notin overlapped => handed'[a] = submitted[a]
  BY <1>1 DEF finishAttempt_flush, Types, TypeOK
<1>3. Alone'
  BY <1>2 DEF Alone, On, Calm
<1>4. a \notin overlapped => \A s \in Requests : (req[s] # Idle)' => req'[s].attempt # a
  BY <1>1, <1>2 DEF Alone, On, Calm
<1>5. \A s \in Requests : req'[s].op \in {"answer", "finish"} =>
        /\ req'[s] = req[s] /\ req'[s] # Idle /\ req[s].attempt \in Attempts
        /\ req[s].attempt \notin overlapped => req[s].attempt # a
  BY <1>2, <1>4, LoadedIs DEF Types, Idle
<1>6. AnswerFresh' /\ MarksFresh'
  BY <1>2, <1>5 DEF AnswerFresh, MarksFresh, Calm, There
<1>7. Kept'
  <2>1. \A b \in Attempts : phase'[b] # "deleted" => phase[b] # "deleted"
    BY <1>2 DEF There
  <2> QED BY <2>1, <1>2 DEF Kept, Calm
<1>8. Scored'
  <2>1. CASE There(a) /\ a \notin overlapped
    <3>1. req[r].corrected = Marks(snapshot[a], answers[a])
      BY <2>1, <1>1 DEF MarksFresh, Calm
    <3>2. answers[a] = submitted[a]
      BY <2>1, <1>1 DEF Kept, Calm, There
    <3> QED BY <2>1, <3>1, <3>2, <1>2 DEF Scored, Calm
  <2>2. CASE ~There(a) \/ a \in overlapped
    BY <2>2, <1>2 DEF Scored, Calm
  <2> QED BY <2>1, <2>2
<1> QED BY <1>3, <1>6, <1>7, <1>8 DEF Calm

(* A request that dies. *)
LEMMA DiesCalm ==
  ASSUME Types, Calm, NEW r \in Requests, request_dies(r)
  PROVE  Calm'
<1>1. /\ UNCHANGED <<phase, snapshot, answers, corrected, overlapped, submitted, handed>>
      /\ req'[r] = Idle
      /\ \A s \in Requests \ {r} : req'[s] = req[s]
  BY DEF request_dies, attemptVars, history, Types, TypeOK
<1>2. Alone'
  BY <1>1 DEF Alone, On, Calm
<1>3. AnswerFresh' /\ MarksFresh'
  BY <1>1 DEF AnswerFresh, MarksFresh, Calm, There, Idle
<1>4. Kept' /\ Scored'
  BY <1>1 DEF Kept, Scored, Calm
<1> QED BY <1>2, <1>3, <1>4 DEF Calm

(* A step that changes nothing. *)
LEMMA StutterCalm ==
  ASSUME Calm, UNCHANGED vars
  PROVE  Calm'
BY DEF Calm, Alone, AnswerFresh, MarksFresh, Kept, Scored, vars, There, On

(* Every step keeps the inductive invariant. *)
LEMMA NextIInv ==
  ASSUME IInv, [Next]_vars
  PROVE  IInv'
<1>1. Types /\ Calm
  BY DEF IInv, Types, Calm
<1>2. Types'
  BY <1>1, NextTypes
<1>3. ASSUME NEW r \in Requests, Student(r)
      PROVE  Calm'
  BY <1>1, <1>3, AnswerCalm, FinishCalm, AnswerFlushCalm, FinishFlushCalm, DiesCalm
     DEF Student
<1>4. Calm'
  BY <1>1, <1>3, ProviderCalm, TakeCalm, StutterCalm DEF Next
<1> QED BY <1>2, <1>4 DEF IInv, Types, Calm

(* The inductive invariant. *)
THEOREM Invariance == Spec => []IInv
<1>1. Init => IInv
  BY InitTypes, InitCalm DEF IInv, Types, Calm
<1> QED BY <1>1, NextIInv, PTL DEF Spec

-----------------------------------------------------------------------------
(* The properties.                                                         *)

(* As long as no two requests overlap on an attempt, it holds the last     *)
(* answer to every question, whatever else happens to the assessment.      *)
THEOREM UndisturbedKeptCorrect == Spec => []UndisturbedKept
<1>1. IInv => UndisturbedKept
  BY DEF IInv, Kept, UndisturbedKept, There
<1> QED BY <1>1, Invariance, PTL

(* A complete answer is marked right exactly if it is the correct answer.  *)
LEMMA MarkedIsRight ==
  ASSUME NEW questions \in Keys, NEW sheet \in Sheets,
         NEW q \in DOMAIN sheet, q \in DOMAIN questions, sheet[q] # Null
  PROVE  Marked(questions, sheet, q) <=> sheet[q] = questions[q]
<1> DEFINE given == sheet[q]
           correct == questions[q]
<1>1. q \in Questions /\ given \in Arrays[q] /\ correct \in Arrays[q]
  BY SheetsAre DEF Keys, Given
<1>2. CASE q \in TrueFalse
  <2>1. given \in [{0} -> {"0", "1"}] /\ correct \in [{0} -> {"0", "1"}]
    BY <1>1, <1>2, AnswersAssumption
  <2>2. given # Null /\ correct # Null
    BY <1>1, AnswersAssumption
  <2>3. Marked(questions, sheet, q) <=> (correct[0] = "1" <=> given[0] = "1")
    BY <1>2, <2>2 DEF Marked, IsTrue
  <2>4. given = correct <=> given[0] = correct[0]
    BY <2>1
  <2>5. given[0] \in {"0", "1"} /\ correct[0] \in {"0", "1"}
    BY <2>1
  <2> QED BY <2>3, <2>4, <2>5
<1>3. CASE q \notin TrueFalse
  <2>1. /\ DOMAIN given = DOMAIN correct
        /\ given = [k \in DOMAIN given |-> given[k]]
        /\ correct = [k \in DOMAIN correct |-> correct[k]]
    BY <1>1, AnswersAssumption
  <2>2. Marked(questions, sheet, q) <=> \A k \in DOMAIN correct : given[k] = correct[k]
    BY <1>3, <2>1 DEF Marked, Differences
  <2> QED BY <2>1, <2>2
<1> QED BY <1>2, <1>3

(* The score of an undisturbed attempt counts exactly the answers that     *)
(* were handed in and are right for the questions the student was shown.   *)
THEOREM AnsweredScoredRightCorrect == Spec => []AnsweredScoredRight
<1>1. IInv => AnsweredScoredRight
  <2> SUFFICES ASSUME IInv, NEW a \in Attempts \ overlapped, phase[a] = "finished",
                      NEW q \in DOMAIN handed[a], handed[a][q] # Null
               PROVE  q \in corrected[a] <=> handed[a][q] = snapshot[a][q]
    BY DEF AnsweredScoredRight
  <2>1. /\ handed[a] \in Sheets /\ snapshot[a] \in Keys
        /\ q \in DOMAIN snapshot[a]
    BY DEF IInv, TypeOK, HistoryWithin
  <2>2. corrected[a] = Marks(snapshot[a], handed[a])
    BY DEF IInv, Scored
  <2>3. q \in corrected[a] <=> Marked(snapshot[a], handed[a], q)
    BY <2>1, <2>2 DEF Marks
  <2> QED BY <2>1, <2>3, MarkedIsRight
<1> QED BY <1>1, Invariance, PTL

(* Only the flush of a request to finish changes marks, and a lone one     *)
(* finds its attempt open.                                                 *)
LEMMA ScoredOnceStep ==
  ASSUME IInv, [Next]_vars, NEW a \in Attempts, phase[a] = "finished",
         a \notin overlapped'
  PROVE  corrected'[a] = corrected[a]
<1>1. CASE \E r \in Requests : finishAttempt_flush(r)
  <2>1. PICK r \in Requests : finishAttempt_flush(r)
    BY <1>1
  <2>2. req[r].op = "finish" /\ overlapped' = overlapped
    BY <2>1 DEF finishAttempt_flush
  <2>3. CASE req[r].attempt = a
    <3>1. phase[a] = "open"
      BY <2>2, <2>3 DEF IInv, MarksFresh, There
    <3> QED BY <3>1
  <2>4. CASE req[r].attempt # a
    BY <2>1, <2>4 DEF finishAttempt_flush, IInv, TypeOK
  <2> QED BY <2>3, <2>4
<1>2. CASE ~\E r \in Requests : finishAttempt_flush(r)
  <2>1. UNCHANGED corrected
    BY <1>2 DEF Next, Provider, Student, acl_create, acl_setIsRetakeAllowed, acl_delete,
                acl_saveQuestion, acl_removeQuestion, acl_takeAssessment,
                acl_answerQuestion, acl_finishAttempt, answerQuestion_flush,
                request_dies, attemptVars, vars
  <2> QED BY <2>1
<1> QED BY <1>1, <1>2

(* An attempt on which no two requests overlap is scored once. *)
THEOREM ScoredOnceCorrect == Spec => ScoredOnce
<1>1. IInv /\ [Next]_vars
        => [\A a \in Attempts : phase[a] = "finished" /\ a \notin overlapped'
              => corrected'[a] = corrected[a]]_vars
  BY ScoredOnceStep
<1> QED BY <1>1, Invariance, PTL DEF Spec, ScoredOnce

(* Attempts only go forward, even if requests overlap.                     *)
LEMMA PhaseForwardStep ==
  ASSUME IInv, [Next]_vars, NEW a \in Attempts
  PROVE  /\ phase[a] = "finished" => phase'[a] \in {"finished", "deleted"}
         /\ phase[a] = "deleted" => phase'[a] = "deleted"
<1>0. TypeOK /\ phase \in [Attempts -> {"none", "open", "finished", "deleted"}]
  BY DEF IInv, TypeOK
<1>1. CASE acl_delete
  BY <1>1 DEF acl_delete
<1>2. ASSUME NEW b \in Attempts, acl_takeAssessment(b)
      PROVE  phase[a] = phase'[a] \/ phase[a] = "none"
  BY <1>0, <1>2 DEF acl_takeAssessment
<1>3. ASSUME NEW r \in Requests, finishAttempt_flush(r)
      PROVE  phase[a] = phase'[a] \/ (There(a) /\ phase'[a] = "finished")
  <2>1. req[r].attempt \in Attempts
    BY <1>0, <1>3, LoadedIs DEF finishAttempt_flush
  <2>2. \/ phase' = phase
        \/ /\ There(req[r].attempt)
           /\ phase' = [phase EXCEPT ![req[r].attempt] = "finished"]
    BY <1>3, Zenon DEF finishAttempt_flush
  <2>3. CASE phase' = phase
    BY <2>3
  <2>4. CASE /\ There(req[r].attempt)
             /\ phase' = [phase EXCEPT ![req[r].attempt] = "finished"]
    BY <1>0, <2>1, <2>4
  <2> QED BY <2>2, <2>3, <2>4
<1>4. CASE UNCHANGED phase
  BY <1>4
<1>5. \/ acl_delete \/ UNCHANGED phase
      \/ \E b \in Attempts : acl_takeAssessment(b)
      \/ \E r \in Requests : finishAttempt_flush(r)
  BY DEF Next, Provider, Student, acl_create, acl_setIsRetakeAllowed,
         acl_saveQuestion, acl_removeQuestion, acl_answerQuestion, acl_finishAttempt,
         answerQuestion_flush, request_dies, attemptVars, vars
<1> QED BY <1>1, <1>2, <1>3, <1>4, <1>5 DEF There

(* A request that loaded an attempt earlier never reopens or revives it.   *)
THEOREM PhaseForwardCorrect == Spec => PhaseForward
<1>1. IInv /\ [Next]_vars
        => [\A a \in Attempts :
              /\ phase[a] = "finished" => phase'[a] \in {"finished", "deleted"}
              /\ phase[a] = "deleted" => phase'[a] = "deleted"]_vars
  BY PhaseForwardStep
<1> QED BY <1>1, Invariance, PTL DEF Spec, PhaseForward
=============================================================================
