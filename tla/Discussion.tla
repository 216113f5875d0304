---------------------------- MODULE Discussion ----------------------------
(***************************************************************************)
(* What is said in one course -- announcements, questions and answers --   *)
(* and the mail that tells the subscribers.                                *)
(*                                                                         *)
(* Code: App\Service\Course (announcements), App\Service\Question,         *)
(* App\Service\Notification, Gearman\DEP\Notification, Gearman/Worker.php. *)
(*                                                                         *)
(* A call that posts loads what the post belongs to, flushes the post, and *)
(* then hands a job to Gearman.  The worker is one process that lives      *)
(* through many jobs with one entity manager: a course it has loaded once, *)
(* and the subscriptions read with it, stay in its identity map.  A job    *)
(* whose worker dies is delivered again, to a new process.                 *)
(*                                                                         *)
(* The caller is allowed to do what he does; a refusal changes nothing.    *)
(* Of questions about a content only those about audio and video exist:    *)
(* the case "file" falls through to the videos and finds none.             *)
(***************************************************************************)
EXTENDS Naturals

CONSTANTS
  Users,             \* users who may subscribe to the course
  Announcements,
  Questions,
  ContentQuestions,  \* those about a content: nobody is mailed
  Answers,
  MaxDeaths          \* bound: deaths of the worker process

Posts == Announcements \cup Questions \cup Answers

(* What the constants of an instance satisfy. *)
DiscussionAssumption ==
  /\ Announcements \cap Questions = {}
  /\ Announcements \cap Answers = {}
  /\ Questions \cap Answers = {}
  /\ ContentQuestions \subseteq Questions
  /\ "none" \notin Posts
  /\ MaxDeaths \in Nat

VARIABLES
  course,    \* TRUE until the course is deleted
  subs,      \* users with a subscription
  post,      \* [Posts -> {"none", "stored", "removed"}]
  about,     \* [Answers -> Questions \cup {"none"}]
  call,      \* [Posts -> ..]: the call that makes the post
  removal,   \* [Questions -> ..]: the call that removes it, with the answers it loaded
  job,       \* [Posts -> {"none", "queued", "running", "done"}]
  worker,    \* its job, the subscribers it knows, those it still has to mail
  deaths,    \* deaths of the worker so far
  late,      \* history: subscribers who came after the worker loaded the course
  owed       \* history: users to be mailed about a post and not tried yet

vars == <<course, subs, post, about, call, removal, job, worker, deaths,
          late, owed>>

(* "ended": it has returned, or thrown, or died. *)
Stages == {"none", "loaded", "flushed", "ended"}

NoRemoval == [is |-> "none"]
Removals  == [is : {"loaded"}, answers : SUBSET Answers]

NewWorker == [job |-> "none", knows |-> FALSE, list |-> {}, left |-> {}]
Workers   == [job : Posts \cup {"none"}, knows : BOOLEAN,
              list : SUBSET Users, left : SUBSET Users]

TypeOK ==
  /\ course \in BOOLEAN
  /\ subs \subseteq Users
  /\ post \in [Posts -> {"none", "stored", "removed"}]
  /\ about \in [Answers -> Questions \cup {"none"}]
  /\ call \in [Posts -> Stages]
  /\ removal \in [Questions -> Removals \cup {NoRemoval}]
  /\ job \in [Posts -> {"none", "queued", "running", "done"}]
  /\ worker \in Workers
  /\ \A p \in Posts : job[p] = "running" <=> worker.job = p
  /\ worker.left \subseteq worker.list
  /\ deaths \in 0 .. MaxDeaths
  /\ late \subseteq Users
  /\ owed \in [Posts -> SUBSET Users]

Init ==
  /\ course = TRUE
  /\ subs = {}
  /\ post = [p \in Posts |-> "none"]
  /\ about = [a \in Answers |-> "none"]
  /\ call = [p \in Posts |-> "none"]
  /\ removal = [q \in Questions |-> NoRemoval]
  /\ job = [p \in Posts |-> "none"]
  /\ worker = NewWorker
  /\ deaths = 0
  /\ late = {}
  /\ owed = [p \in Posts |-> {}]

forum == <<post, about, call, removal>>
mail  == <<job, worker, deaths>>

-----------------------------------------------------------------------------
(* The course and its subscriptions, as far as mail is concerned. *)
subscribe(u) ==
  /\ course /\ u \notin subs
  /\ subs' = subs \cup {u}
  /\ late' = IF worker.knows /\ u \notin worker.list THEN late \cup {u} ELSE late
  /\ UNCHANGED <<course, forum, mail, owed>>

unsubscribe(u) ==
  /\ u \in subs
  /\ subs' = subs \ {u}
  /\ late' = late \ {u}
  /\ owed' = [p \in Posts |-> owed[p] \ {u}]
  /\ UNCHANGED <<course, forum, mail>>

(* Doctrine removes what belongs to the course with it. *)
course_delete ==
  /\ course
  /\ course' = FALSE
  /\ subs' = {}
  /\ post' = [p \in Posts |-> IF post[p] = "stored" THEN "removed" ELSE post[p]]
  /\ late' = {}
  /\ owed' = [p \in Posts |-> {}]
  /\ UNCHANGED <<about, call, removal, mail>>

-----------------------------------------------------------------------------
(* Posting.  An announcement or a question is loaded with the course and   *)
(* flushed in one step: if the course is deleted in between, its foreign   *)
(* key refuses the post, as if the call had come too late.                 *)
At(p, from, to) == call[p] = from /\ call' = [call EXCEPT ![p] = to]

Stored(p) ==
  /\ post' = [post EXCEPT ![p] = "stored"]
  /\ UNCHANGED <<course, subs, removal, mail, late, owed>>

providerCreateAnnouncement(p) ==
  /\ p \in Announcements
  /\ course
  /\ At(p, "none", "flushed")
  /\ Stored(p) /\ UNCHANGED about

(* What is asked about a content ends here: nobody is mailed. *)
askQuestion(p) ==
  /\ p \in Questions
  /\ course
  /\ At(p, "none", IF p \in ContentQuestions THEN "ended" ELSE "flushed")
  /\ Stored(p) /\ UNCHANGED about

answerQuestion(p, q) ==
  /\ p \in Answers
  /\ post[q] = "stored"
  /\ At(p, "none", "loaded")
  /\ about' = [about EXCEPT ![p] = q]
  /\ UNCHANGED <<course, subs, post, removal, mail, late, owed>>

(* MUTANT of answerQuestion_flush: nothing ties the row to its question. *)
answerQuestion_flush_unchecked(p) ==
  /\ At(p, "loaded", IF about[p] \in ContentQuestions THEN "ended" ELSE "flushed")
  /\ Stored(p) /\ UNCHANGED about

(* INSERT of the answer: refused if the question is gone (call_fails). *)
answerQuestion_flush(p) ==
  /\ call[p] = "loaded" /\ post[about[p]] = "stored"
  /\ At(p, "loaded", IF about[p] \in ContentQuestions THEN "ended" ELSE "flushed")
  /\ Stored(p) /\ UNCHANGED about

Enqueue(p) ==
  /\ job' = [job EXCEPT ![p] = "queued"]
  /\ owed' = [owed EXCEPT ![p] = subs]
  /\ UNCHANGED <<course, subs, post, about, removal, worker, deaths, late>>

(* MUTANT of backgroundTask: the job is handed over before the flush. *)
backgroundTask_early(p) ==
  /\ course /\ p \notin Answers
  /\ At(p, "none", "ended") /\ Enqueue(p)

backgroundTask(p) == At(p, "flushed", "ended") /\ Enqueue(p)

(* The flush or the job is refused, and the caller told of a failure; or   *)
(* his process dies.  What is stored stays.                                *)
call_fails(p) ==
  /\ call[p] \in {"loaded", "flushed"}
  /\ call' = [call EXCEPT ![p] = "ended"]
  /\ UNCHANGED <<course, subs, post, about, removal, mail, late, owed>>

-----------------------------------------------------------------------------
(* Removing.  An announcement or an answer is a row by itself. *)
removePost(p) ==
  /\ p \notin Questions
  /\ post[p] = "stored"
  /\ post' = [post EXCEPT ![p] = "removed"]
  /\ UNCHANGED <<course, subs, about, call, removal, mail, late, owed>>

AnswersTo(q) == {a \in Answers : about[a] = q /\ post[a] = "stored"}

(* The removal of a question cascades to the answers that are loaded now.  *)
removeQuestion(q) ==
  /\ post[q] = "stored" /\ removal[q] = NoRemoval
  /\ removal' = [removal EXCEPT ![q] = [is |-> "loaded", answers |-> AnswersTo(q)]]
  /\ UNCHANGED <<course, subs, post, about, call, mail, late, owed>>

(* The flush is a transaction: an answer stored since then makes the       *)
(* database refuse it as a whole.                                          *)
removeQuestion_flush(q) ==
  /\ removal[q] # NoRemoval
  /\ removal' = [removal EXCEPT ![q] = NoRemoval]
  /\ post' = IF post[q] = "stored" /\ AnswersTo(q) \subseteq removal[q].answers
             THEN [p \in Posts |->
                     IF p \in {q} \cup AnswersTo(q) THEN "removed" ELSE post[p]]
             ELSE post
  /\ UNCHANGED <<course, subs, about, call, mail, late, owed>>

-----------------------------------------------------------------------------
(* The worker.  It takes a job and finds the course: in its identity map,  *)
(* with the subscriptions it read the first time, or in the database.      *)
SendCourseWideNotification(p) ==
  /\ worker.job = "none" /\ job[p] = "queued"
  /\ job' = [job EXCEPT ![p] = "running"]
  /\ LET list == IF worker.knows THEN worker.list ELSE subs IN
     worker' = [job |-> p, knows |-> worker.knows \/ course, list |-> list, left |-> list]
  /\ owed' = [owed EXCEPT ![p] = @ \ late]
  /\ UNCHANGED <<course, subs, forum, deaths, late>>

(* MUTANT of sendIndividualEmail: the failure of one mail ends the loop. *)
sendIndividualEmail_or_stop(u) ==
  /\ u \in worker.left
  /\ worker' \in {[worker EXCEPT !.left = @ \ {u}], [worker EXCEPT !.left = {}]}
  /\ owed' = [owed EXCEPT ![worker.job] = @ \ {u}]
  /\ UNCHANGED <<course, subs, forum, job, deaths, late>>

(* A mail that cannot be sent is logged, and the next one is tried. *)
sendIndividualEmail(u) ==
  /\ u \in worker.left
  /\ worker' = [worker EXCEPT !.left = @ \ {u}]
  /\ owed' = [owed EXCEPT ![worker.job] = @ \ {u}]
  /\ UNCHANGED <<course, subs, forum, job, deaths, late>>

(* All are mailed; or there is no course, which is logged. *)
job_returns ==
  /\ worker.job # "none" /\ worker.left = {}
  /\ job' = [job EXCEPT ![worker.job] = "done"]
  /\ worker' = [worker EXCEPT !.job = "none"]
  /\ UNCHANGED <<course, subs, forum, deaths, late, owed>>

(* MUTANT of worker_dies: the job it had is not delivered again. *)
worker_dies_with_job ==
  /\ deaths < MaxDeaths /\ deaths' = deaths + 1
  /\ worker' = NewWorker /\ late' = {}
  /\ job' = [p \in Posts |-> IF job[p] = "running" THEN "none" ELSE job[p]]
  /\ UNCHANGED <<course, subs, forum, owed>>

(* The process ends and a new one is started. *)
worker_dies ==
  /\ deaths < MaxDeaths /\ deaths' = deaths + 1
  /\ worker' = NewWorker /\ late' = {}
  /\ job' = [p \in Posts |-> IF job[p] = "running" THEN "queued" ELSE job[p]]
  /\ UNCHANGED <<course, subs, forum, owed>>

-----------------------------------------------------------------------------
Work ==
  \/ \E p \in Posts : SendCourseWideNotification(p)
  \/ \E u \in Users : sendIndividualEmail(u)
  \/ job_returns

Poster(p) ==
  \/ providerCreateAnnouncement(p)
  \/ askQuestion(p)
  \/ \E q \in Questions : answerQuestion(p, q)
  \/ answerQuestion_flush(p)
  \/ backgroundTask(p)
  \/ call_fails(p)
  \/ removePost(p)

Next ==
  \/ \E u \in Users : subscribe(u) \/ unsubscribe(u)
  \/ course_delete
  \/ \E p \in Posts : Poster(p)
  \/ \E q \in Questions : removeQuestion(q) \/ removeQuestion_flush(q)
  \/ Work
  \/ worker_dies

(* The worker runs as long as there is work. *)
Fairness == WF_vars(Work)

Spec == Init /\ [][Next]_vars /\ Fairness

-----------------------------------------------------------------------------
Queued(p) == job[p] = "queued"
Done(p)   == job[p] = "done"

(* Once the job of a post is done, a mail has been tried to everybody who  *)
(* was subscribed when it was accepted and still is, except those who      *)
(* subscribed after the worker process had loaded the course               *)
(* (Notification.php:38-44).  Mails that fail, deaths of the worker,       *)
(* deliveries of the job again, and the removal of the post leave nobody   *)
(* out.                                                                    *)
OwedIsMailed == \A p \in Posts : Done(p) => owed[p] = {}

(* Nobody is mailed about a post that was never stored, whatever becomes   *)
(* of the call that made it (Course.php:1124-1134).                        *)
MailedWasStored == worker.left # {} => post[worker.job] # "none"

(* An answer is never without its question, though questions are removed   *)
(* while answers to them are posted (Question.php:146-175, 220-236).       *)
AnswersHaveTheirQuestion ==
  \A a \in Answers : post[a] = "stored" => post[about[a]] = "stored"

(* A job that was accepted is done in the end, whatever happens to the     *)
(* course and to the worker (Worker.php:114).                              *)
JobsFinish == \A p \in Posts : Queued(p) ~> Done(p)

=============================================================================
