-------------------------- MODULE Discussion_proofs --------------------------
(* What the discussion of a course and its mail guarantee for any number of *)
(* users, posts and deaths of the worker.                                   *)
EXTENDS Discussion, TLAPS

-----------------------------------------------------------------------------
(* The inductive invariant.                                                *)

(* A post is stored by its flush and has a job only after its call ended.  *)
Staged ==
  \A p \in Posts :
    /\ call[p] \in {"none", "loaded"} => post[p] = "none"
    /\ call[p] = "flushed" => post[p] # "none"
    /\ call[p] # "ended" => job[p] = "none"
    /\ job[p] # "none" => post[p] # "none"

(* What is loaded before it is posted is an answer, and has its question.  *)
Found ==
  /\ \A p \in Posts : call[p] = "loaded" => p \in Answers
  /\ \A a \in Answers : call[a] # "none" => about[a] \in Questions

(* Whom a worker that knows the course does not know, subscribed later.    *)
Listed == worker.knows => subs \subseteq worker.list \cup late

(* A mail is owed to subscribers, and while the job runs, to those whom    *)
(* the worker has still to mail.                                           *)
OwedSubscribed == \A p \in Posts : owed[p] \subseteq subs
OwedLeft == \A p \in Posts : job[p] = "running" => owed[p] \subseteq worker.left

NobodyLeft == worker.job = "none" => worker.left = {}

IInv == /\ TypeOK /\ Staged /\ Found /\ Listed /\ OwedSubscribed /\ OwedLeft
        /\ NobodyLeft /\ OwedIsMailed /\ AnswersHaveTheirQuestion

(* The parts of it that are about the posts, and about the mail.           *)
Forum == Staged /\ Found /\ AnswersHaveTheirQuestion
Mail  == Listed /\ OwedSubscribed /\ OwedLeft /\ NobodyLeft /\ OwedIsMailed

-----------------------------------------------------------------------------
LEMMA Starts == DiscussionAssumption /\ Init => IInv
<1> SUFFICES ASSUME DiscussionAssumption, Init PROVE IInv
  OBVIOUS
<1>1. TypeOK
  BY DEF Init, TypeOK, NewWorker, Workers, Stages, NoRemoval, DiscussionAssumption, Posts
<1>2. Forum
  BY DEF Init, Forum, Staged, Found, AnswersHaveTheirQuestion, Posts
<1>3. Mail
  BY DEF Init, Mail, Listed, OwedSubscribed, OwedLeft, NobodyLeft, OwedIsMailed, Done,
         NewWorker
<1> QED BY <1>1, <1>2, <1>3 DEF IInv, Forum, Mail

(* What does not concern the posts, and the mail.                          *)
LEMMA ForumKept ==
  ASSUME IInv, UNCHANGED <<post, about, call, job>>
  PROVE  Forum'
BY DEF IInv, Forum, Staged, Found, AnswersHaveTheirQuestion

LEMMA MailKept ==
  ASSUME IInv, UNCHANGED <<subs, job, worker, late, owed>>
  PROVE  Mail'
BY DEF IInv, Mail, Listed, OwedSubscribed, OwedLeft, NobodyLeft, OwedIsMailed, Done

LEMMA PostIs ==
  ASSUME DiscussionAssumption
  PROVE  /\ Announcements \subseteq Posts /\ Questions \subseteq Posts
         /\ Answers \subseteq Posts /\ Questions \cap Answers = {}
         /\ Announcements \cap Questions = {} /\ Announcements \cap Answers = {}
         /\ "none" \notin Posts /\ "none" \notin Questions
BY DEF DiscussionAssumption, Posts

-----------------------------------------------------------------------------
(* The subscribers and the course.                                         *)
LEMMA SubscribeKeeps ==
  ASSUME DiscussionAssumption, IInv, NEW u \in Users, subscribe(u)
  PROVE  IInv'
<1>1. TypeOK'
  BY DEF subscribe, forum, mail, IInv, TypeOK
<1>2. Forum'
  BY ForumKept DEF subscribe, forum, mail
<1>3. Listed'
  BY DEF subscribe, mail, IInv, Listed
<1>4. OwedSubscribed' /\ OwedLeft' /\ NobodyLeft' /\ OwedIsMailed'
  BY DEF subscribe, mail, IInv, OwedSubscribed, OwedLeft, NobodyLeft, OwedIsMailed, Done
<1> QED BY <1>1, <1>2, <1>3, <1>4 DEF IInv, Forum

LEMMA UnsubscribeKeeps ==
  ASSUME DiscussionAssumption, IInv, NEW u \in Users, unsubscribe(u)
  PROVE  IInv'
<1>1. TypeOK'
  BY DEF unsubscribe, forum, mail, IInv, TypeOK
<1>2. Forum'
  BY ForumKept DEF unsubscribe, forum, mail
<1>3. Listed'
  BY DEF unsubscribe, mail, IInv, Listed
<1>4. OwedSubscribed' /\ OwedLeft' /\ NobodyLeft' /\ OwedIsMailed'
  BY DEF unsubscribe, mail, IInv, OwedSubscribed, OwedLeft, NobodyLeft, OwedIsMailed, Done
<1> QED BY <1>1, <1>2, <1>3, <1>4 DEF IInv, Forum

LEMMA CourseDeleteKeeps ==
  ASSUME DiscussionAssumption, IInv, course_delete
  PROVE  IInv'
<1>1. TypeOK'
  BY DEF course_delete, mail, IInv, TypeOK
<1>2. Staged' /\ Found'
  BY DEF course_delete, mail, IInv, TypeOK, Staged, Found
<1>3. \A p \in Posts : post'[p] # "stored"
  BY DEF course_delete, IInv, TypeOK
<1>4. AnswersHaveTheirQuestion'
  BY <1>3, PostIs DEF AnswersHaveTheirQuestion
<1>5. Listed' /\ OwedSubscribed' /\ OwedLeft' /\ NobodyLeft' /\ OwedIsMailed'
  BY DEF course_delete, mail, IInv, Listed, OwedSubscribed, OwedLeft, NobodyLeft,
         OwedIsMailed, Done
<1> QED BY <1>1, <1>2, <1>4, <1>5 DEF IInv

-----------------------------------------------------------------------------
(* Posting.                                                                *)

(* The flush of a post, which is an answer to a stored question or none.   *)
LEMMA StoredKeeps ==
  ASSUME DiscussionAssumption, IInv, NEW p \in Posts, NEW from \in {"none", "loaded"},
         NEW to \in {"flushed", "ended"}, At(p, from, to), Stored(p), UNCHANGED about,
         p \in Answers => about[p] \in Questions /\ post[about[p]] = "stored"
  PROVE  IInv'
<1>1. /\ call[p] = from /\ call' = [call EXCEPT ![p] = to]
      /\ post' = [post EXCEPT ![p] = "stored"]
      /\ UNCHANGED <<about, course, subs, removal, job, worker, deaths, late, owed>>
  BY DEF At, Stored, mail
<1>2. TypeOK'
  BY <1>1 DEF IInv, TypeOK, Stages
<1>3. post[p] = "none" /\ job[p] = "none"
  BY <1>1 DEF IInv, Staged
<1>4. Staged'
  BY <1>1, <1>3 DEF IInv, TypeOK, Staged
<1>5. Found'
  BY <1>1, PostIs DEF IInv, TypeOK, Found
<1>6. AnswersHaveTheirQuestion'
  <2> SUFFICES ASSUME NEW a \in Answers, post'[a] = "stored"
               PROVE  post'[about[a]] = "stored"
    BY <1>1 DEF AnswersHaveTheirQuestion
  <2>1. about[a] \in Questions /\ post[about[a]] = "stored"
    <3>1. CASE a = p
      BY <3>1
    <3>2. CASE a # p
      <4>1. post[a] = "stored"
        BY <1>1, <3>2, PostIs DEF IInv, TypeOK
      <4>2. call[a] # "none"
        BY <4>1, PostIs DEF IInv, Staged
      <4> QED BY <4>1, <4>2 DEF IInv, Found, AnswersHaveTheirQuestion
    <3> QED BY <3>1, <3>2
  <2> QED BY <1>1, <2>1, PostIs DEF IInv, TypeOK
<1>7. Mail'
  BY <1>1, MailKept
<1> QED BY <1>2, <1>4, <1>5, <1>6, <1>7 DEF IInv, Mail

LEMMA CreateKeeps ==
  ASSUME DiscussionAssumption, IInv, NEW p \in Posts, providerCreateAnnouncement(p)
  PROVE  IInv'
BY StoredKeeps, PostIs DEF providerCreateAnnouncement

LEMMA AskKeeps ==
  ASSUME DiscussionAssumption, IInv, NEW p \in Posts, askQuestion(p)
  PROVE  IInv'
BY StoredKeeps, PostIs DEF askQuestion

LEMMA AnswerKeeps ==
  ASSUME DiscussionAssumption, IInv, NEW p \in Posts, NEW q \in Questions,
         answerQuestion(p, q)
  PROVE  IInv'
<1>1. /\ p \in Answers /\ call[p] = "none"
      /\ call' = [call EXCEPT ![p] = "loaded"]
      /\ about' = [about EXCEPT ![p] = q]
      /\ UNCHANGED <<course, subs, post, removal, job, worker, deaths, late, owed>>
  BY DEF answerQuestion, At, mail
<1>2. TypeOK'
  BY <1>1 DEF IInv, TypeOK, Stages
<1>3. post[p] = "none" /\ job[p] = "none"
  BY <1>1 DEF IInv, Staged
<1>4. Staged' /\ Found'
  BY <1>1, <1>3, PostIs DEF IInv, TypeOK, Staged, Found
<1>5. AnswersHaveTheirQuestion'
  BY <1>1, <1>3 DEF IInv, TypeOK, AnswersHaveTheirQuestion
<1>6. Mail'
  BY <1>1, MailKept
<1> QED BY <1>2, <1>4, <1>5, <1>6 DEF IInv, Mail

LEMMA AnswerFlushKeeps ==
  ASSUME DiscussionAssumption, IInv, NEW p \in Posts, answerQuestion_flush(p)
  PROVE  IInv'
<1>1. p \in Answers /\ about[p] \in Questions
  BY DEF answerQuestion_flush, IInv, Found
<1> QED BY <1>1, StoredKeeps DEF answerQuestion_flush

LEMMA FailsKeeps ==
  ASSUME DiscussionAssumption, IInv, NEW p \in Posts, call_fails(p)
  PROVE  IInv'
<1>1. /\ call[p] \in {"loaded", "flushed"} /\ call' = [call EXCEPT ![p] = "ended"]
      /\ UNCHANGED <<course, subs, post, about, removal, job, worker, deaths, late, owed>>
  BY DEF call_fails, mail
<1>2. TypeOK'
  BY <1>1 DEF IInv, TypeOK, Stages
<1>3. Forum'
  BY <1>1, PostIs DEF IInv, TypeOK, Forum, Staged, Found, AnswersHaveTheirQuestion
<1>4. Mail'
  BY <1>1, MailKept
<1> QED BY <1>2, <1>3, <1>4 DEF IInv, Forum, Mail

LEMMA EnqueueKeeps ==
  ASSUME DiscussionAssumption, IInv, NEW p \in Posts, backgroundTask(p)
  PROVE  IInv'
<1>1. /\ call[p] = "flushed" /\ call' = [call EXCEPT ![p] = "ended"]
      /\ job' = [job EXCEPT ![p] = "queued"] /\ owed' = [owed EXCEPT ![p] = subs]
      /\ UNCHANGED <<course, subs, post, about, removal, worker, deaths, late>>
  BY DEF backgroundTask, At, Enqueue
<1>2. job[p] = "none" /\ post[p] # "none"
  BY <1>1 DEF IInv, Staged
<1>3. TypeOK'
  BY <1>1, <1>2 DEF IInv, TypeOK, Stages
<1>4. Staged' /\ Found' /\ AnswersHaveTheirQuestion'
  BY <1>1, <1>2, PostIs DEF IInv, TypeOK, Staged, Found, AnswersHaveTheirQuestion
<1>5. Listed' /\ OwedSubscribed' /\ OwedLeft' /\ NobodyLeft' /\ OwedIsMailed'
  BY <1>1, <1>2 DEF IInv, TypeOK, Listed, OwedSubscribed, OwedLeft, NobodyLeft,
                    OwedIsMailed, Done
<1> QED BY <1>3, <1>4, <1>5 DEF IInv

-----------------------------------------------------------------------------
(* Removing.                                                               *)
LEMMA RemovePostKeeps ==
  ASSUME DiscussionAssumption, IInv, NEW p \in Posts, removePost(p)
  PROVE  IInv'
<1>1. /\ p \notin Questions /\ post[p] = "stored"
      /\ post' = [post EXCEPT ![p] = "removed"]
      /\ UNCHANGED <<course, subs, about, call, removal, job, worker, deaths, late, owed>>
  BY DEF removePost, mail
<1>2. TypeOK'
  BY <1>1 DEF IInv, TypeOK
<1>3. Staged' /\ Found'
  BY <1>1 DEF IInv, TypeOK, Staged, Found
<1>4. AnswersHaveTheirQuestion'
  <2> SUFFICES ASSUME NEW a \in Answers, post'[a] = "stored"
               PROVE  post'[about[a]] = "stored"
    BY <1>1 DEF AnswersHaveTheirQuestion
  <2>1. post[a] = "stored"
    BY <1>1, PostIs DEF IInv, TypeOK
  <2>2. about[a] \in Questions /\ post[about[a]] = "stored"
    BY <2>1, PostIs DEF IInv, Staged, Found, AnswersHaveTheirQuestion
  <2> QED BY <1>1, <2>2, PostIs DEF IInv, TypeOK
<1>5. Mail'
  BY <1>1, MailKept
<1> QED BY <1>2, <1>3, <1>4, <1>5 DEF IInv, Mail

LEMMA RemoveQuestionKeeps ==
  ASSUME DiscussionAssumption, IInv, NEW q \in Questions, removeQuestion(q)
  PROVE  IInv'
<1>1. /\ removal' = [removal EXCEPT ![q] = [is |-> "loaded", answers |-> AnswersTo(q)]]
      /\ UNCHANGED <<course, subs, post, about, call, job, worker, deaths, late, owed>>
  BY DEF removeQuestion, mail
<1>2. [is |-> "loaded", answers |-> AnswersTo(q)] \in Removals
  BY DEF Removals, AnswersTo
<1>3. TypeOK'
  BY <1>1, <1>2 DEF IInv, TypeOK
<1> QED BY <1>1, <1>3, ForumKept, MailKept DEF IInv, Forum, Mail

(* Whatever the removal loaded, it takes all answers with it or nothing.   *)
LEMMA RemoveQuestionFlushKeeps ==
  ASSUME DiscussionAssumption, IInv, NEW q \in Questions, removeQuestion_flush(q)
  PROVE  IInv'
<1>1. /\ removal' = [removal EXCEPT ![q] = NoRemoval]
      /\ UNCHANGED <<course, subs, about, call, job, worker, deaths, late, owed>>
  BY DEF removeQuestion_flush, mail
<1>2. CASE post' = post
  <2>1. TypeOK'
    BY <1>1, <1>2 DEF IInv, TypeOK
  <2> QED BY <1>1, <1>2, <2>1, ForumKept, MailKept DEF IInv, Forum, Mail
<1>3. CASE /\ post[q] = "stored"
           /\ post' = [p \in Posts |->
                         IF p \in {q} \cup AnswersTo(q) THEN "removed" ELSE post[p]]
  <2>1. TypeOK'
    BY <1>1, <1>3 DEF IInv, TypeOK
  <2>2. \A p \in Posts : p \in {q} \cup AnswersTo(q) => post[p] = "stored"
    BY <1>3 DEF AnswersTo
  <2>3. Staged' /\ Found'
    BY <1>1, <1>3, <2>2 DEF IInv, TypeOK, Staged, Found
  <2>4. AnswersHaveTheirQuestion'
    <3> SUFFICES ASSUME NEW a \in Answers, post'[a] = "stored"
                 PROVE  post'[about[a]] = "stored"
      BY <1>1 DEF AnswersHaveTheirQuestion
    <3>1. post[a] = "stored" /\ a \notin AnswersTo(q)
      BY <1>3, PostIs
    <3>2. about[a] \in Questions /\ post[about[a]] = "stored"
      BY <3>1, PostIs DEF IInv, Staged, Found, AnswersHaveTheirQuestion
    <3>3. about[a] # q
      BY <3>1 DEF AnswersTo
    <3>4. about[a] \notin AnswersTo(q)
      BY <3>2, PostIs DEF AnswersTo
    <3> QED BY <1>3, <3>2, <3>3, <3>4, PostIs
  <2>5. Mail'
    BY <1>1, MailKept
  <2> QED BY <2>1, <2>3, <2>4, <2>5 DEF IInv, Mail
<1> QED BY <1>2, <1>3 DEF removeQuestion_flush

-----------------------------------------------------------------------------
(* The worker.                                                             *)

(* The mailing list of a new job: nobody is owed a mail who is not on it.  *)
LEMMA JobKeeps ==
  ASSUME DiscussionAssumption, IInv, NEW p \in Posts, SendCourseWideNotification(p)
  PROVE  IInv'
<1> DEFINE list == IF worker.knows THEN worker.list ELSE subs
           w == [job |-> p, knows |-> worker.knows \/ course, list |-> list, left |-> list]
<1>1. /\ worker.job = "none" /\ job[p] = "queued"
      /\ job' = [job EXCEPT ![p] = "running"]
      /\ worker' = w
      /\ owed' = [owed EXCEPT ![p] = owed[p] \ late]
      /\ UNCHANGED <<course, subs, post, about, call, removal, deaths, late>>
  BY DEF SendCourseWideNotification, forum
<1>2. list \subseteq Users
  BY DEF IInv, TypeOK, Workers
<1>3. w \in Workers
  <2>1. (worker.knows \/ course) \in BOOLEAN
    OBVIOUS
  <2> QED BY <1>2, <2>1 DEF Workers
<1>4. w.job = p /\ w.list = list /\ w.left = list /\ (w.knows <=> worker.knows \/ course)
  OBVIOUS
<1> HIDE DEF w, list
<1>5. p # "none"
  BY PostIs
<1>6. TypeOK'
  <2>1. \A r \in Posts : job[r] # "running"
    BY <1>1, PostIs DEF IInv, TypeOK
  <2>2. worker'.job = p /\ worker'.left = list /\ worker'.list = list
    BY <1>1, <1>4
  <2>3. \A r \in Posts : job'[r] = "running" <=> worker'.job = r
    BY <1>1, <2>1, <2>2 DEF IInv, TypeOK
  <2>4. job' \in [Posts -> {"none", "queued", "running", "done"}]
    BY <1>1 DEF IInv, TypeOK
  <2>5. owed' \in [Posts -> SUBSET Users]
    BY <1>1 DEF IInv, TypeOK
  <2> QED BY <1>1, <1>3, <2>2, <2>3, <2>4, <2>5 DEF IInv, TypeOK
<1>7. Staged' /\ Found' /\ AnswersHaveTheirQuestion'
  BY <1>1 DEF IInv, TypeOK, Staged, Found, AnswersHaveTheirQuestion
<1>8. owed[p] \ late \subseteq list
  BY DEF IInv, Listed, OwedSubscribed, list
<1>9. Listed'
  BY <1>1, <1>4 DEF IInv, Listed, list
<1>10. OwedSubscribed' /\ NobodyLeft' /\ OwedIsMailed'
  BY <1>1, <1>4, <1>5 DEF IInv, TypeOK, OwedSubscribed, NobodyLeft, OwedIsMailed, Done
<1>11. OwedLeft'
  <2>1. \A r \in Posts : r # p => job[r] # "running"
    BY <1>1, PostIs DEF IInv, TypeOK
  <2> QED BY <1>1, <1>4, <1>8, <2>1 DEF IInv, TypeOK, OwedLeft
<1> QED BY <1>6, <1>7, <1>9, <1>10, <1>11 DEF IInv

LEMMA MailKeeps ==
  ASSUME DiscussionAssumption, IInv, NEW u \in Users, sendIndividualEmail(u)
  PROVE  IInv'
<1>1. /\ u \in worker.left
      /\ worker' = [worker EXCEPT !.left = worker.left \ {u}]
      /\ owed' = [owed EXCEPT ![worker.job] = owed[worker.job] \ {u}]
      /\ UNCHANGED <<course, subs, post, about, call, removal, job, deaths, late>>
  BY DEF sendIndividualEmail, forum
<1>2. worker.job \in Posts /\ job[worker.job] = "running"
  BY <1>1 DEF IInv, TypeOK, Workers, NobodyLeft
<1>3. /\ worker'.job = worker.job /\ worker'.left = worker.left \ {u}
      /\ worker'.list = worker.list /\ worker'.knows = worker.knows
      /\ worker' \in Workers
  BY <1>1 DEF IInv, TypeOK, Workers
<1>4. TypeOK'
  BY <1>1, <1>2, <1>3 DEF IInv, TypeOK
<1>5. Forum'
  BY <1>1, ForumKept
<1>6. Listed' /\ OwedSubscribed' /\ NobodyLeft' /\ OwedIsMailed'
  BY <1>1, <1>2, <1>3 DEF IInv, TypeOK, Listed, OwedSubscribed, NobodyLeft, OwedIsMailed, Done
<1>7. OwedLeft'
  BY <1>1, <1>2, <1>3 DEF IInv, TypeOK, OwedLeft
<1> QED BY <1>4, <1>5, <1>6, <1>7 DEF IInv, Forum

LEMMA ReturnKeeps ==
  ASSUME DiscussionAssumption, IInv, job_returns
  PROVE  IInv'
<1>1. /\ worker.job # "none" /\ worker.left = {}
      /\ job' = [job EXCEPT ![worker.job] = "done"]
      /\ worker' = [worker EXCEPT !.job = "none"]
      /\ UNCHANGED <<course, subs, post, about, call, removal, deaths, late, owed>>
  BY DEF job_returns, forum
<1>2. worker.job \in Posts /\ job[worker.job] = "running"
  BY <1>1 DEF IInv, TypeOK, Workers
<1>3. /\ worker'.job = "none" /\ worker'.left = worker.left
      /\ worker'.list = worker.list /\ worker'.knows = worker.knows
      /\ worker' \in Workers
  BY <1>1 DEF IInv, TypeOK, Workers
<1>4. TypeOK'
  BY <1>1, <1>2, <1>3, PostIs DEF IInv, TypeOK
<1>5. Staged' /\ Found' /\ AnswersHaveTheirQuestion'
  BY <1>1, <1>2 DEF IInv, TypeOK, Staged, Found, AnswersHaveTheirQuestion
<1>6. Listed' /\ OwedSubscribed' /\ NobodyLeft'
  BY <1>1, <1>3 DEF IInv, Listed, OwedSubscribed, NobodyLeft
<1>7. OwedLeft' /\ OwedIsMailed'
  BY <1>1, <1>2, <1>3 DEF IInv, TypeOK, OwedLeft, OwedIsMailed, Done
<1> QED BY <1>4, <1>5, <1>6, <1>7 DEF IInv

LEMMA WorkerDiesKeeps ==
  ASSUME DiscussionAssumption, IInv, worker_dies
  PROVE  IInv'
<1>1. /\ worker' = NewWorker /\ late' = {}
      /\ job' = [p \in Posts |-> IF job[p] = "running" THEN "queued" ELSE job[p]]
      /\ UNCHANGED <<course, subs, post, about, call, removal, owed>>
  BY DEF worker_dies, forum
<1>2. deaths' \in 0 .. MaxDeaths
  BY DEF worker_dies, IInv, TypeOK, DiscussionAssumption
<1>3. /\ NewWorker \in Workers /\ NewWorker.job = "none" /\ NewWorker.left = {}
      /\ NewWorker.list = {} /\ NewWorker.knows = FALSE
  BY DEF NewWorker, Workers
<1>4. TypeOK'
  BY <1>1, <1>2, <1>3, PostIs DEF IInv, TypeOK
<1>5. Staged' /\ Found' /\ AnswersHaveTheirQuestion'
  BY <1>1 DEF IInv, TypeOK, Staged, Found, AnswersHaveTheirQuestion
<1>6. Listed' /\ OwedSubscribed' /\ OwedLeft' /\ NobodyLeft' /\ OwedIsMailed'
  BY <1>1, <1>3 DEF IInv, TypeOK, Listed, OwedSubscribed, OwedLeft, NobodyLeft,
                    OwedIsMailed, Done
<1> QED BY <1>4, <1>5, <1>6 DEF IInv

-----------------------------------------------------------------------------
(* Every step keeps the inductive invariant.                               *)
LEMMA StepKeeps == DiscussionAssumption /\ IInv /\ [Next]_vars => IInv'
<1> SUFFICES ASSUME DiscussionAssumption, IInv, [Next]_vars PROVE IInv'
  OBVIOUS
<1>1. ASSUME NEW u \in Users, subscribe(u) \/ unsubscribe(u) PROVE IInv'
  BY <1>1, SubscribeKeeps, UnsubscribeKeeps
<1>2. CASE course_delete
  BY <1>2, CourseDeleteKeeps
<1>3. ASSUME NEW p \in Posts, Poster(p) PROVE IInv'
  BY <1>3, CreateKeeps, AskKeeps, AnswerKeeps, AnswerFlushKeeps, EnqueueKeeps, FailsKeeps,
     RemovePostKeeps DEF Poster
<1>4. ASSUME NEW q \in Questions, removeQuestion(q) \/ removeQuestion_flush(q) PROVE IInv'
  BY <1>4, RemoveQuestionKeeps, RemoveQuestionFlushKeeps
<1>5. CASE Work
  BY <1>5, JobKeeps, MailKeeps, ReturnKeeps DEF Work
<1>6. CASE worker_dies
  BY <1>6, WorkerDiesKeeps
<1>7. CASE UNCHANGED vars
  <2>1. UNCHANGED <<course, subs, post, about, call, removal, job, worker, deaths, late, owed>>
    BY <1>7 DEF vars
  <2>2. TypeOK'
    BY <2>1 DEF IInv, TypeOK
  <2> QED BY <2>1, <2>2, ForumKept, MailKept DEF IInv, Forum, Mail
<1> QED BY <1>1, <1>2, <1>3, <1>4, <1>5, <1>6, <1>7 DEF Next

THEOREM Invariance ==
  ASSUME DiscussionAssumption PROVE Spec => []IInv
<1>1. Init => IInv
  BY Starts
<1>2. IInv /\ [Next]_vars => IInv'
  BY StepKeeps
<1> QED BY <1>1, <1>2, PTL DEF Spec

-----------------------------------------------------------------------------
(* The properties.                                                         *)

(* Every state of the discussion is well typed, and the worker has a job   *)
(* if and only if one is running.                                          *)
THEOREM TypeCorrect ==
  ASSUME DiscussionAssumption PROVE Spec => []TypeOK
<1>1. IInv => TypeOK
  BY DEF IInv
<1> QED BY <1>1, Invariance, PTL

(* When the job of a post is done, everybody was mailed who subscribed     *)
(* before the job was accepted and before the worker loaded the course,    *)
(* and still is: deaths of the worker and repeated deliveries leave nobody *)
(* out (SendCourseWideNotification, sendIndividualEmail).                  *)
THEOREM OwedCorrect ==
  ASSUME DiscussionAssumption PROVE Spec => []OwedIsMailed
<1>1. IInv => OwedIsMailed
  BY DEF IInv
<1> QED BY <1>1, Invariance, PTL

LEMMA MailedStored == IInv => MailedWasStored
<1> SUFFICES ASSUME IInv, worker.left # {} PROVE post[worker.job] # "none"
  BY DEF MailedWasStored
<1>1. worker.job \in Posts
  BY DEF IInv, TypeOK, Workers, NobodyLeft
<1>2. job[worker.job] = "running"
  BY <1>1 DEF IInv, TypeOK
<1> QED BY <1>1, <1>2 DEF IInv, Staged

(* Nobody is mailed about a post that was never stored (backgroundTask).   *)
THEOREM MailedCorrect ==
  ASSUME DiscussionAssumption PROVE Spec => []MailedWasStored
<1> QED BY MailedStored, Invariance, PTL

(* An answer never outlives its question: the removal takes all answers    *)
(* with it, or is refused because of one it did not load, and an answer to *)
(* a removed question is refused (removeQuestion_flush).                   *)
THEOREM AnswersCorrect ==
  ASSUME DiscussionAssumption PROVE Spec => []AnswersHaveTheirQuestion
<1>1. IInv => AnswersHaveTheirQuestion
  BY DEF IInv
<1> QED BY <1>1, Invariance, PTL

=============================================================================
