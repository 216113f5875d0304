------------------------------ MODULE Services ------------------------------
(***************************************************************************)
(* Account, Discussion, Curriculum, CoursePage and FillInTheBlank in one   *)
(* state space: their sum, not their product.  A behaviour is about one of *)
(* them from the beginning to the end -- these services share no state     *)
(* that the modules tell apart -- and the variables below are then the     *)
(* variables of that module, in the order in which it declares them.       *)
(*                                                                         *)
(* Some of them are there more than once, for instances of their constants *)
(* that differ.  Instantiated are the modules with the proofs, where there *)
(* is one: it is the module of the service and theorems about it, and      *)
(* Services_proofs cites them.  Both instances of FillInTheBlank write     *)
(* with the same characters, those of BlankText.                           *)
(***************************************************************************)
EXTENDS BlankText

CONSTANTS  \* records of the constants of the modules
  OfAccounts, OfAccount,          \* Account
  OfCourse, OfAnswers,            \* Discussion
  OfOneTab, OfTwoTabs, OfQuiz,    \* Curriculum
  OfPage,
  OfTyping, OfQuestion            \* FillInTheBlank

VARIABLES
  about,                      \* what the behaviour is about
  va, vb, vc, vd, ve, vf, vg, vh, vi, vj, vk

vars == <<about, va, vb, vc, vd, ve, vf, vg, vh, vi, vj, vk>>

(* Accounts whose addresses change hands, or one with more passwords. *)
Accounts == INSTANCE Account_proofs WITH
  row <- va, req <- vb, calls <- vc, activationLinks <- vd, resetLinks <- ve,
  lastSet <- vf, spent <- vg, overlapped <- vh,
  MaxUsers <- OfAccounts.MaxUsers, Emails <- OfAccounts.Emails,
  Passwords <- OfAccounts.Passwords, Texts <- OfAccounts.Texts,
  StringTrim <- OfAccounts.StringTrim, HtmlEntities <- OfAccounts.HtmlEntities,
  Requests <- OfAccounts.Requests, MaxCalls <- OfAccounts.MaxCalls

OneAccount == INSTANCE Account_proofs WITH
  row <- va, req <- vb, calls <- vc, activationLinks <- vd, resetLinks <- ve,
  lastSet <- vf, spent <- vg, overlapped <- vh,
  MaxUsers <- OfAccount.MaxUsers, Emails <- OfAccount.Emails,
  Passwords <- OfAccount.Passwords, Texts <- OfAccount.Texts,
  StringTrim <- OfAccount.StringTrim, HtmlEntities <- OfAccount.HtmlEntities,
  Requests <- OfAccount.Requests, MaxCalls <- OfAccount.MaxCalls

(* Announcements and questions that are mailed ... *)
Course == INSTANCE Discussion_proofs WITH
  course <- va, subs <- vb, post <- vc, about <- vd, call <- ve, removal <- vf,
  job <- vg, worker <- vh, deaths <- vi, late <- vj, owed <- vk,
  Users <- OfCourse.Users, Announcements <- OfCourse.Announcements,
  Questions <- OfCourse.Questions,
  ContentQuestions <- OfCourse.ContentQuestions,
  Answers <- OfCourse.Answers, MaxDeaths <- OfCourse.MaxDeaths

(* ... or answers to questions about the course or about a content. *)
Answers == INSTANCE Discussion_proofs WITH
  course <- va, subs <- vb, post <- vc, about <- vd, call <- ve, removal <- vf,
  job <- vg, worker <- vh, deaths <- vi, late <- vj, owed <- vk,
  Users <- OfAnswers.Users, Announcements <- OfAnswers.Announcements,
  Questions <- OfAnswers.Questions,
  ContentQuestions <- OfAnswers.ContentQuestions,
  Answers <- OfAnswers.Answers, MaxDeaths <- OfAnswers.MaxDeaths

OneTab == INSTANCE Curriculum_proofs WITH
  chapter <- va, item <- vb, browser <- vc, page <- vd, req <- ve, calls <- vf,
  asked <- vg, disturbed <- vh,
  MaxChapters <- OfOneTab.MaxChapters,
  OldChapters <- OfOneTab.OldChapters, ContentIds <- OfOneTab.ContentIds,
  AssessmentIds <- OfOneTab.AssessmentIds, OldItems <- OfOneTab.OldItems,
  Tabs <- OfOneTab.Tabs, MaxCalls <- OfOneTab.MaxCalls

TwoTabs == INSTANCE Curriculum_proofs WITH
  chapter <- va, item <- vb, browser <- vc, page <- vd, req <- ve, calls <- vf,
  asked <- vg, disturbed <- vh,
  MaxChapters <- OfTwoTabs.MaxChapters,
  OldChapters <- OfTwoTabs.OldChapters,
  ContentIds <- OfTwoTabs.ContentIds,
  AssessmentIds <- OfTwoTabs.AssessmentIds,
  OldItems <- OfTwoTabs.OldItems, Tabs <- OfTwoTabs.Tabs,
  MaxCalls <- OfTwoTabs.MaxCalls

Quiz == INSTANCE Curriculum_proofs WITH
  chapter <- va, item <- vb, browser <- vc, page <- vd, req <- ve, calls <- vf,
  asked <- vg, disturbed <- vh,
  MaxChapters <- OfQuiz.MaxChapters, OldChapters <- OfQuiz.OldChapters,
  ContentIds <- OfQuiz.ContentIds, AssessmentIds <- OfQuiz.AssessmentIds,
  OldItems <- OfQuiz.OldItems, Tabs <- OfQuiz.Tabs,
  MaxCalls <- OfQuiz.MaxCalls

Page == INSTANCE CoursePage_proofs WITH
  posted <- va, questions <- vb, answers <- vc, dom <- vd, shown <- ve, queue <- vf,
  clicks <- vg, asked <- vh, overtaken <- vi,
  Questions <- OfPage.Questions, MaxClicks <- OfPage.MaxClicks

Typing == INSTANCE FillInTheBlank WITH
  row <- va, req <- vb, saves <- vc, attempt <- vd, typed <- ve, mixed <- vf, asked <- vg,
  Texts <- OfTyping.Texts, Answered <- OfTyping.Answered,
  Requests <- OfTyping.Requests, MaxSaves <- OfTyping.MaxSaves

Question == INSTANCE FillInTheBlank WITH
  row <- va, req <- vb, saves <- vc, attempt <- vd, typed <- ve, mixed <- vf, asked <- vg,
  Texts <- OfQuestion.Texts, Answered <- OfQuestion.Answered,
  Requests <- OfQuestion.Requests, MaxSaves <- OfQuestion.MaxSaves

ASSUME ServicesAssumption ==
  /\ Accounts!AccountAssumption /\ OneAccount!AccountAssumption
  /\ Course!DiscussionAssumption /\ Answers!DiscussionAssumption
  /\ OneTab!CurriculumAssumption /\ TwoTabs!CurriculumAssumption
  /\ Quiz!CurriculumAssumption
  /\ Page!CoursePageAssumption
  /\ Typing!FillInTheBlankAssumption /\ Question!FillInTheBlankAssumption

-----------------------------------------------------------------------------
TypeOK ==
  CASE about = "accounts" -> Accounts!TypeOK
    [] about = "account"  -> OneAccount!TypeOK
    [] about = "course"   -> Course!TypeOK
    [] about = "answers"  -> Answers!TypeOK
    [] about = "one tab"  -> OneTab!TypeOK
    [] about = "two tabs" -> TwoTabs!TypeOK
    [] about = "a quiz"   -> Quiz!TypeOK
    [] about = "page"     -> Page!TypeOK
    [] about = "a text"     -> Typing!TypeOK
    [] about = "a question" -> Question!TypeOK

Init ==
  \/ about = "accounts" /\ Accounts!Init /\ vi = 0 /\ vj = 0 /\ vk = 0
  \/ about = "account"  /\ OneAccount!Init /\ vi = 0 /\ vj = 0 /\ vk = 0
  \/ about = "course"   /\ Course!Init
  \/ about = "answers"  /\ Answers!Init
  \/ about = "one tab"  /\ OneTab!Init  /\ vi = 0 /\ vj = 0 /\ vk = 0
  \/ about = "two tabs" /\ TwoTabs!Init /\ vi = 0 /\ vj = 0 /\ vk = 0
  \/ about = "a quiz"   /\ Quiz!Init    /\ vi = 0 /\ vj = 0 /\ vk = 0
  \/ about = "page"     /\ Page!Init    /\ vj = 0 /\ vk = 0
  \/ about = "a text"     /\ Typing!Init     /\ vh = 0 /\ vi = 0 /\ vj = 0 /\ vk = 0
  \/ about = "a question" /\ Question!Init /\ vh = 0 /\ vi = 0 /\ vj = 0 /\ vk = 0

Next ==
  \/ about = "accounts" /\ Accounts!Next /\ UNCHANGED <<about, vi, vj, vk>>
  \/ about = "account"  /\ OneAccount!Next /\ UNCHANGED <<about, vi, vj, vk>>
  \/ about = "course"   /\ Course!Next   /\ UNCHANGED about
  \/ about = "answers"  /\ Answers!Next  /\ UNCHANGED about
  \/ about = "one tab"  /\ OneTab!Next   /\ UNCHANGED <<about, vi, vj, vk>>
  \/ about = "two tabs" /\ TwoTabs!Next  /\ UNCHANGED <<about, vi, vj, vk>>
  \/ about = "a quiz"   /\ Quiz!Next     /\ UNCHANGED <<about, vi, vj, vk>>
  \/ about = "page"     /\ Page!Next     /\ UNCHANGED <<about, vj, vk>>
  \/ about = "a text"     /\ Typing!Next     /\ UNCHANGED <<about, vh, vi, vj, vk>>
  \/ about = "a question" /\ Question!Next /\ UNCHANGED <<about, vh, vi, vj, vk>>

(* The fairness of Discussion and of CoursePage, where they move. *)
Fairness ==
  /\ WF_vars(about = "course"  /\ Course!Work  /\ UNCHANGED about)
  /\ WF_vars(about = "answers" /\ Answers!Work /\ UNCHANGED about)
  /\ \A w \in Page!Widgets :
       WF_vars(about = "page" /\ Page!fx(w) /\ UNCHANGED <<about, vj, vk>>)

Spec == Init /\ [][Next]_vars /\ Fairness

-----------------------------------------------------------------------------
(* The properties of the modules, as they are stated there. *)

(* User.php:180, 218, 350. *)
LastPasswordSignsIn ==
  /\ about = "accounts" => Accounts!LastPasswordSignsIn
  /\ about = "account"  => OneAccount!LastPasswordSignsIn

(* User.php:497. *)
SpentLinkIsDead ==
  /\ about = "accounts" => Accounts!SpentLinkIsDead
  /\ about = "account"  => OneAccount!SpentLinkIsDead

(* User.php:247-251, 344-350. *)
OwnLinksOnly ==
  /\ about = "accounts" => Accounts!OwnLinksOnly
  /\ about = "account"  => OneAccount!OwnLinksOnly

(* RegisterController.php:42-43. *)
ShutUntilDeleted ==
  [][/\ about = "accounts" => Accounts!StaysShut
     /\ about = "account"  => OneAccount!StaysShut]_vars

(* Notification.php:38-44. *)
OwedIsMailed ==
  /\ about = "course"  => Course!OwedIsMailed
  /\ about = "answers" => Answers!OwedIsMailed

(* Course.php:1124-1134. *)
MailedWasStored ==
  /\ about = "course"  => Course!MailedWasStored
  /\ about = "answers" => Answers!MailedWasStored

(* Question.php:146-175, 220-236. *)
AnswersHaveTheirQuestion ==
  /\ about = "course"  => Course!AnswersHaveTheirQuestion
  /\ about = "answers" => Answers!AnswersHaveTheirQuestion

(* Worker.php:114. *)
JobsFinish ==
  /\ \A p \in Course!Posts :
       (about = "course" /\ Course!Queued(p)) ~> (about = "course" => Course!Done(p))
  /\ \A p \in Answers!Posts :
       (about = "answers" /\ Answers!Queued(p)) ~> (about = "answers" => Answers!Done(p))

(* Course.php:312-384. *)
DroppedChapterShown ==
  /\ about = "one tab"  => OneTab!DroppedChapterShown
  /\ about = "two tabs" => TwoTabs!DroppedChapterShown
  /\ about = "a quiz"   => Quiz!DroppedChapterShown

(* Course.php:336, 353, 375, 1251-1301. *)
DroppedOrderKept ==
  /\ about = "one tab"  => OneTab!DroppedOrderKept
  /\ about = "two tabs" => TwoTabs!DroppedOrderKept
  /\ about = "a quiz"   => Quiz!DroppedOrderKept

(* curriculum-provider.phtml:4-6: what the page promises, and does not     *)
(* keep for lectures and quizzes mixed.                                    *)
DroppedOrderShown ==
  /\ about = "one tab"  => OneTab!DroppedOrderShown
  /\ about = "two tabs" => TwoTabs!DroppedOrderShown
  /\ about = "a quiz"   => Quiz!DroppedOrderShown

(* Course.php:217-223, course/curriculum.phtml:142. *)
EmptyIsDeletable ==
  /\ about = "one tab"  => OneTab!EmptyIsDeletable
  /\ about = "two tabs" => TwoTabs!EmptyIsDeletable
  /\ about = "a quiz"   => Quiz!EmptyIsDeletable

(* AssessmentController.php:244-266. *)
EditShowsTyped ==
  /\ about = "a text"     => Typing!EditShowsTyped
  /\ about = "a question" => Question!EditShowsTyped

(* Assessment.php:819-843, AssessmentQuestion.php:183-204. *)
RightIsAsTyped ==
  /\ about = "a text"     => Typing!RightIsAsTyped
  /\ about = "a question" => Question!RightIsAsTyped

(* dep.js:212-225, 352-358. *)
AnnouncementsSettle == about = "page" => Page!AnnouncementsSettle

(* dep.js:281, 329-334. *)
QuestionsSettle == about = "page" => Page!QuestionsSettle

(* dep.js:215-225. *)
WidgetsSettle ==
  \A w \in Page!Widgets :
    (about = "page" /\ ~Page!Settled(w)) ~> (about = "page" => Page!Settled(w))
=============================================================================
