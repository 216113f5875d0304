# Education Platform: specification and verification

TLA+ models, model-checking runs and machine-checked proofs for the Thesis Planet
Education Platform: a PHP application (Zend Framework 1, Doctrine ORM, MySQL) that
sells access to courses made of videos, audios, files and assessments. Uploads are
processed by Gearman workers, stored in Amazon S3 and transcoded by Zencoder.
Paths below are relative to the repository; `App/` is `src/library/App/`.

## The system

| Part | State it keeps | Operations | Interacts with |
|---|---|---|---|
| Content services `App/Service/Content/{Video,Audio,File}.php` | `content` rows (status, extension), files in `SHARE_PATH`, S3 objects | `acl_create`, `acl_update`, `acl_delete`, `system_sendDataToCloud`, `system_processData`, `system_updateStatus`, `system_delete*Data`, signed URLs | queue, cloud, Zencoder, course service (permission) |
| `App/Service/aContent.php` | published / enabled flags | `acl_publish`, `acl_unpublish`, `acl_enable`, `acl_disable` | ACLs |
| Queue and workers `App/Service/Core/Queue*`, `src/library/Gearman` | Gearman's queue, one job per worker process | `backgroundTask`, `work`, the `DEP_*` functions | content and notification services |
| Cloud `App/Service/Core/Cloud.php` | S3 objects and their grants | `uploadFile`, `setACL`, `deleteFile` | S3 |
| Encoder queue `App/Service/Queue/Encoder.php` | `queue_encoder` rows | `create`, `update`, `findByJobId` | Zencoder |
| Zencoder notifications `src/application/modules/Notification` | none | `indexAction` | encoder queue, content services |
| Course service `App/Service/Course.php` | courses, subscriptions with roles, completed contents, reviews, announcements, chapters, content order | some 40 `acl_*` methods | content rows, queue (announcements) |
| Assessment service `App/Service/Course/Assessment.php` | assessments, questions, attempts (answers, score, `finishedAt`) | create, add/update/remove question, `acl_takeAssessment`, `acl_answerQuestion`, `acl_finishAttempt` | subscriptions |
| Question service `App/Service/Question.php` | questions and answers of courses and contents | ask, answer, list, remove | queue (e-mails) |
| Notification service `App/Service/Notification.php` | none | one e-mail per subscription of a course | run by the worker |
| User service `App/Service/User.php` | accounts, activation and reset tokens | register, activate, update, reset password | e-mail |
| Access control `App/Service/ACL` | none | role inheritance visitor < user < subscriber < provider < owner < admin | every `acl_*` method |
| Configuration, monitoring, crypto | key/value rows; an event log; none | get/set; append/query; encrypt/decrypt | |
| Curriculum page `course/curriculum.phtml` | the arrangement dragged | drop, add and delete chapters | course service, by AJAX |
| Course page `public/js/ThesisPlanet/dep.js` | what the widgets show, jQuery's queues | create, back, ask, answer, delete | course and question services, by AJAX |
| Controllers, forms, views | session | render, validate, call services | |

What makes the system hard is that nothing spans its parts: a request, a worker and
a notification each take several effects, every effect is a transaction or a call of
its own, and a crash, an exception or another actor can come between any two. PHP
requests share no memory, but every one of them is load, check, change, flush, and no
row carries a version. The hazards this leads to are listed, each at its line,
in `PROJECT.json` ("hazards").

What correctness means, part by part:

* **Content pipeline**: the upload is not lost, not shown before it is stored, a
  running transcoding can be found again, deletion leaves nothing, every upload ends.
* **Course service**: one subscription per user and course, a course keeps a provider, the
  completed contents are those the user completed, percentages lie between 0 and 1,
  multi-step creation and deletion leave no half.
* **Assessment**: an answer given before the attempt is finished counts, none after; an
  attempt is scored once, from its own snapshot of questions; the score is right.
* **Fill-in-the-blank**: what the provider typed is what is edited again and what is asked.
* **Curriculum**: the page shows the order that was dropped; an empty chapter can go.
* **Announcements, questions**: whoever is owed an e-mail gets one, nobody about a post that
  was never stored; no answer without its question; every job ends.
* **Accounts**: the password set last opens the account; a link works once, and on the
  account it was sent for.
* **Course page**: however fast the user clicks, it ends up showing what was asked for last.

## Modules

| Module | Models |
|---|---|
| `ContentCustody` | abstract specification: what the platform promises the provider of a content |
| `ContentPipeline` | the life of a content from `acl_create` to `acl_delete`, in all processes |
| `MCContentPipeline` | its instances for TLC |
| `ContentPipeline_proofs` | its theorems and their proofs |
| `Assessment` | an assessment, its questions, the attempts at it and their scores |
| `MCAssessment` | its instances for TLC |
| `Assessment_proofs` | its theorems and their proofs |
| `Course` | a course from `acl_create` to `acl_delete`, its subscriptions, what subscribers complete |
| `MCCourse` | its instances for TLC |
| `Course_proofs` | its theorems and their proofs |
| `Curriculum` | chapters, the order of what is in them, the pages on which they are dragged |
| `Curriculum_proofs` | its theorems and their proofs |
| `Discussion` | announcements, questions, answers, and the worker that mails about them |
| `Discussion_proofs` | its theorems and their proofs |
| `Account` | accounts from registration to deletion, activation and reset links |
| `Account_proofs` | its theorems and their proofs |
| `CoursePage` | the two widgets of the course page and their effects |
| `CoursePage_proofs` | its theorems and their proofs |
| `BlankText` | what the regular expression finds in a text, and what is put there |
| `FillInTheBlank` | the text of a fill-in-the-blank question between form, row and page |
| `Services` | the sum of these five: any instances of them in one state space |
| `Services_proofs` | the theorems about them, carried over to the sum, and those about texts |
| `MCServices` | the instances for TLC |

### ContentPipeline

An **atomic step** is the code between two effects that another process can see: a
Doctrine flush (one transaction), a call to S3, Zencoder or Gearman, a change of the
shared directory. Names are the code's; `sendDataToCloud_find`, `.._uploading` and
`.._uploaded` are the parts of `system_sendDataToCloud` up to each flush.

* The **web request** (`acl_create`): row, then the renamed file, then the flush of the
  extension, then the job. It may die between any two (`acl_create_dies`), and the queue
  may refuse the job.
* The **worker** (`job`): finds the row and the file, uploads, sets the status, the ACL,
  creates the Zencoder job, records it, removes the local file. The three services share
  the steps: a file is "ready" once uploaded and has no transcoding. Exceptions end in the
  catch of the Gearman function, which returns normally, so the job counts as done
  (`work_returns`). When the process dies (`worker_dies`) gearmand hands the job out
  again, and the new worker starts from the beginning with whatever is there.
* **Zencoder** (external) finishes or fails a job and then notifies; it repeats a
  notification that was not answered with success, or whose answer was lost, and gives up
  in the end. `indexAction_*` are the controller's outcomes: no row yet (nothing happens,
  answered with success), the encoder row, the content row, an exception between the two.
  For a job that did not finish the code runs into a fatal error before it changes
  anything, so there is no action for it.
* **Deletion** (`acl_delete`): local file, the S3 objects in the order of the service, the
  row. `deleteFile` may throw; the audio service swallows that, the others stop.
  `course_delete` is `Course::acl_delete`, which removes only the rows.
* `Update` is what Doctrine does: it updates changed columns by id, writes nothing when the
  row is gone and does not notice.

Abstracted: sizes, durations, titles and messages; the thumbnails; the names of objects
(one original, one converted object per content); permissions. A deletion that begins
while the upload request is still running addresses the object names of that moment; the
model does not follow them, and no property speaks of such deletions beyond the row.

`enc`, `rec`, `note` are indexed by the delivery of the job, since one delivery creates
at most one Zencoder job. `calm` and `faulted` are history variables: `calm` holds the
contents whose last `acl_delete` began with nothing under way, `faulted` those that met
a failure of an external service or a dying web request. No guard reads them.

### ContentCustody

The promise: once the upload is accepted the platform holds it until the provider lets go
of it, and students see it only after it was accepted. Under the refinement mapping at
the end of `ContentPipeline`, `custody[c]` is "lost", which the abstract specification
does not know, when an accepted upload is neither in `SHARE_PATH` nor in S3.

### Assessment

Every operation is a web request of its own that loads, checks, changes and flushes; no
lock, no version. `acl_answerQuestion` and `acl_finishAttempt` write back what they
loaded, so each is two steps, the load and the flush (`answerQuestion_flush`,
`finishAttempt_flush`), between which any other request may run, the row may go, or the
request may die (`request_dies`). The provider's operations and `acl_takeAssessment`
write nothing that depends on what they read of an attempt; they are one step.

* `bank` is the questions with their correct answers, `snapshot` the copy that
  `acl_takeAssessment` puts into the attempt, `answers` the serialized column, which
  Doctrine writes as a whole if it changed. Questions are identified with their shuffled
  number in the attempt.
* `Marked` is the comparison of `acl_finishAttempt`: `==` with a boolean for true/false
  questions, `array_diff_uassoc` for the others, and what PHP makes of both when there is
  no answer. `Given` is what the page sends: whole arrays, and null for a true/false
  question with no button checked.
* `phase` stands for the row and `finished_at`; `corrected` for the columns `corrected`
  and `score`, which is the share of correct questions.

`overlapped` collects the attempts on which two requests ran at once; `submitted` and
`handed` record, for the others, the last answer to each question and what was submitted
when the attempt was finished. No guard reads these histories.

Abstracted: titles, the text of a fill-in-the-blank question (see `FillInTheBlank`), the permission checks, and
the subscription rows (an attempt has its owner from the start). Calls that only read are
left out.

### Course

The web requests on one course, with the same steps: what a request loads, then each of
its flushes. `acl_create` flushes the course and then the provider's subscription;
`acl_delete` flushes after every subscription and every content it removes, and then
removes the course; the process may die between two flushes (`request_dies`). Calls with
one flush that dies before it leave no trace and have no action for that.

* `sub` is the table of subscriptions: no unique key on user and course, `completed` the
  serialized column, written as a whole, `role` a column of its own, updated alone.
* `content` is what the course sees of a content: hidden, published or removed. Its life in
  the content services is the matter of `ContentPipeline`; here it comes and goes in one step.
* `isAllowed` is the code's: a subscription with a role that inherits the privilege, or an
  administrator. It is evaluated when the request loads, not when it flushes.
* An exception in the second part of `acl_create` is caught and the course stays.
* A request that would change nothing writes nothing in Doctrine and is left out.

Doctrine is not part of the repository. It is taken by what the services rely on: `remove`
and `flush` delete the row by id and do not notice that it is gone; an `UPDATE` touches the
changed columns alone; rows that other rows refer to cannot be deleted.

`overlapped` collects the users two of whose own requests ran at once, `done` records for
the others what they completed, `disturbed` the deletions during which a row was added. No
guard reads these histories.

Abstracted: titles, topics and flags of the course; courses that require approval, which
take no subscriptions; assessments, which count on both sides of the percentage; chapters,
reviews, announcements and questions, which go with the course in its last flush.

### Curriculum

A tab shows the course as it was listed last (`page`). A drop (`getContentArr`) sends the
whole arrangement as an object of objects; the service works through it with one flush per
chapter (`sort_chapter`) and per item (`sort_item`), then the tab lists the course again.
Between two flushes another tab may send its own arrangement, items and chapters may come
and go, and the request may die or run into a row that is gone (`call_fails`).

* The keys of the sent object are ids: of a content and an assessment of the same id in one
  chapter only the one inserted later stays. The browser enumerates keys as they were
  inserted or, for integers since ECMAScript 2015, ascending; `browser` is either.
* `acl_listContentOrder` sorts with a comparison that never says "equal", so rows with the
  same number come in any order (`Ordered`). Assessments come after all contents.
* `acl_deleteChapter` detaches the contents, not the assessments, and then removes the
  chapter, which the database refuses while a row refers to it.

`asked` is the arrangement dropped last, forgotten when another tab disturbs it;
`disturbed` the tabs whose listing is older than a change made elsewhere. No guard reads
these histories. Ids are those of one course.

### Discussion

The post, the job, and the mail of announcements, questions and answers. A call loads what
the post belongs to, flushes (`providerCreateAnnouncement`, `askQuestion`,
`answerQuestion_flush`), and hands a job to Gearman (`backgroundTask`), which may refuse it;
the call may die between any two. `removeQuestion` loads the answers in one step and removes
question and answers in another.

The worker lives through many jobs with one entity manager, so a course it has loaded stays
as it was (`worker.knows`, `worker.list`) until the process dies. It mails one subscriber
after the other (`sendIndividualEmail`); a mail that fails is logged and the next one is
tried. A job whose worker dies is delivered again, to a new process. Questions about a
content mail nobody, as in the code. `owed` and `late` are histories.

### Account

Calls that change an account load it in one step and flush in another (`flush`), with the
columns that the request changed; the unique index refuses an address that is taken.
Registration is two effects, the row (`register_flush`) and the mail
(`sendRegistrationEmail`), either of which may not happen. Tokens are hashes and are
modelled by what is hashed: the activation token by id and address, the reset token by the
password's hash as well, which is why a new password invalidates it.

What is stored of a password is what the filters of its form make of it (`Filtered`): the
form for a new password trims it, the form for a user trims and then escapes it, and the page
on which an administrator adds a user does both twice, since it hands the filtered values to
`register`. A sign-in compares the parameter of the request as it was typed
(`AuthController.php:38`), although the login form has both filters. Texts are not spelled out:
the filters are functions on them of which only this is assumed, that escaping puts no blank
at an end and never leads back to an earlier text. Addresses are taken as they are stored.
`Zend_Validate_Identical` may refuse a new password with outer blanks, since it compares the
trimmed repetition with what was sent; the user's own page trims both before. The model
lets all of them through: a refused request changes nothing. `lastSet`, `spent` and
`overlapped` are histories.

### FillInTheBlank

A text is parsed three times, each with a count of its own: into a title with placeholders
and a list of words when it is saved (`Parsed`), back into a text by the edit page (`Form`)
and into inputs by the student's page (`Sheets`). `BlankText` is what the code does with its
regular expression: where it matches (`Match`, `Blank`), the words it finds (`Words`) and the
text with other words in their places (`Refilled`), as recursive functions on what is left of
a sequence of characters. An update loads, and flushes the columns that differ from those it loaded (`update_flush`). `mixed` says that
another save came between: then the title may be of one text and the words of the other.
Characters that `HtmlEntities` escapes are left out.

### CoursePage

Clicks and the effects of jQuery. The calls to the service are synchronous, so a handler
runs as one step; what takes time is the queue of effects of each widget (`queue`): slide
up, render, slide down. `fx` is the end of the effect in progress. While a widget moves, the
user may click on whatever is still there. `asked` is the view asked for last.

### Services

The five modules above share no state that they tell apart, so their instances are put into
one state space as a sum: `about` says which instance a behaviour belongs to, and the
variables `va` to `vk` are the variables of that module, in its order. Each property of the
run is the module's property for the behaviours that are about it, and each fairness
condition is the module's, where it moves. The values of the constants of an instance are a
record, a constant of `Services`; `MCServices` gives these records for TLC. What they must
satisfy is a definition of the module (`AccountAssumption` and so on), and
`ServicesAssumption` assumes it of all of them, which TLC evaluates.

`Services` instantiates `Account_proofs`, `Discussion_proofs`, `Curriculum_proofs` and
`CoursePage_proofs` in place of the modules these extend: that brings the same definitions,
and with them the theorems, for `Services_proofs` to cite. `FillInTheBlank` has no such
module: `Services_proofs` proves its theorems too. Both of its instances (`Typing`,
`Question`) have texts of the same characters, a constant of `Services`.

## Runs

| Run | Checks | Instance |
|---|---|---|
| `pipeline_safety` | `TypeOK`, `OriginalNeverLost`, `ReadyIsStored`, `TranscodingIsTracked`, `LocalKeptUntilTracked`, `CalmDeleteLeavesNothing`, `ReadyIsFinal`, `ImplementsCustody` | 1 content of each kind, 1 worker, 2 deliveries, everything may fail |
| `pipeline_liveness` | `UploadBecomesReady` | the same, with `Fairness` |
| `pipeline_shared` | `QueueDrains` | 2 contents of any kinds, 1 worker, 2 deliveries, no deletions and service failures |
| `pipeline_cleaned` | `CleanedAfterDeletion` is violated | 1 content |
| `assessment_safety` | `TypeOK`, `UndisturbedKept`, `AnsweredScoredRight`, `ScoredOnce`, `PhaseForward` | 1 attempt, 2 concurrent requests, a true/false and a multiple-choice question, 3 edits of the questions |
| `assessment_unanswered` | `UnansweredIsWrong` is violated | the same, 1 request |
| `assessment_locked` | `LockedWhenFinished` is violated | the same, 1 request |
| `assessment_retake` | `RetakeOnlyIfAllowed` is violated | 2 attempts of one student, 1 request |
| `course_safety` | `TypeOK`, `SubscribedOnce`, `CompletedKept`, `UnsubscribedIsOut`, `DeletionSucceeds` | 2 users, one an administrator, 2 concurrent requests, 1 content, 2 subscriptions |
| `course_percent` | `AtMostComplete` is violated | the same, 2 contents, 1 request, 1 subscription |
| `services` | `TypeOK` of the five modules; `LastPasswordSignsIn`, `SpentLinkIsDead`, `OwnLinksOnly`, `ShutUntilDeleted`; `OwedIsMailed`, `MailedWasStored`, `AnswersHaveTheirQuestion`, `JobsFinish`; `DroppedChapterShown`, `DroppedOrderKept`, `EmptyIsDeletable`; `EditShowsTyped`, `RightIsAsTyped`; `AnnouncementsSettle`, `QuestionsSettle`, `WidgetsSettle` | see the table below |
| `curriculum_order` | `DroppedOrderShown` is violated | the same |

The instances of `MCServices`, for the ten values of `about`:

| `about` | Instance |
|---|---|
| "accounts" | 2 accounts ever, 2 addresses, 2 passwords that no filter changes, 2 concurrent requests, 3 calls |
| "account" | 1 account, 4 passwords: a plain one, the same with a blank before it, an `&`, and what escaping makes of that; 1 request at a time, 3 calls |
| "course" | 2 users, an announcement, a question, 1 death of the worker |
| "answers" | 1 user, a question about the course and one about a content, 1 answer, 1 death |
| "one tab" | 3 chapters, 2 of them old, 2 contents, a quiz with the id of one of them, 2 calls |
| "two tabs" | 2 chapters, one of them old, 1 content, 2 calls |
| "a quiz" | 2 chapters, one of them old, a quiz and nothing else, 3 calls |
| "a text" | every text of up to four pieces out of two blanks, an underscore, a letter and a space; saved once |
| "a question" | 5 texts, some of the same title or the same words, 2 concurrent requests, 3 updates |
| "page" | 2 questions, 5 clicks |

What they show:

* Whatever crashes or fails, the original stays in `SHARE_PATH` or in S3 until its
  deletion begins; a media file leaves `SHARE_PATH` only when its transcoding is recorded.
* A ready content is stored in S3, though its grants may still be missing (`setACL` comes
  last, and when it fails they stay so). A job delivered once never takes "ready" back. A job
  delivered again does: its new worker does not find the local file any more and writes
  "error" (`Video.php:398-405`), or transcodes a second time. That is why `ReadyIsFinal`
  is restricted to `deliveries = 1`.
* A calm deletion that reaches its end leaves nothing, with two exceptions the code makes:
  the audio service after a swallowed failure, and a file whose extension was never stored.
* `UploadBecomesReady` has one exception that is no failure: a notification that arrives
  before the flush of the `queue_encoder` row is answered with success and lost
  (`NotifiedTooEarly`); the content stays in "transcoding".
* `CleanedAfterDeletion` is what `App/Entity/Content.php:89` says of `cleaned_at`. The
  code does it the other way round (see "findings").

* An attempt on which no two requests overlap holds the last answer to every question, and
  of the answered questions exactly those are counted as correct whose handed-in answer is
  the correct one of the question the student was shown, whatever the provider edited since.
  Its score does not change any more. If requests overlap, answers are lost and a second
  submission may score again; still no late flush reopens or revives an attempt.
* Three things the code or its documentation says do not hold (see "findings"): a question
  without an answer can count as correct, a finished attempt still takes answers, and
  retakes are never refused.

* A user whose own requests do not overlap has one subscription at most, which holds what
  the user completed since subscribing, whatever providers do meanwhile, and is without
  any after unsubscribing. If they overlap (a double click), there are two rows, the first
  unsubscription leaves one of them, and completions get lost: that is why the three
  properties have the exception.
* A deletion that arrives at the row of the course succeeds, unless a row was added during
  it; then it is refused and leaves a course without its former subscriptions and contents.
* The percentage can exceed the whole: a hidden content can be completed, and a completed
  one can be unpublished or deleted (see "findings").

* The password set last is the account's, whatever updates it overlaps with, because a flush
  writes only what its request changed. Exceptions: two passwords set at once; a password
  with a blank at an end, which never signs in, wherever it was set, since the forms trim it
  and the sign-in does not; and one with a character that HTML escapes, set in the form for a
  user, which never signs in either. No other password opens the account, except, in these
  two cases, the one that the form has made of it. A reset link dies with the password it was
  hashed from, and links for an address that meanwhile has another owner do nothing. An
  account whose registration mail got lost stays shut: there is no way to send another.
* Everybody subscribed when a job was accepted, and still at its turn, is mailed, though
  mails fail and the worker dies, except those who subscribed after the worker had loaded the
  course. Every accepted job ends, also when its course is gone. An answer that comes
  between the load and the flush of the removal of its question makes the database refuse
  the removal; one that comes after it is refused itself.
* After a drop the page shows every item in its chapter, and the dropped order among the
  contents and among the assessments, also after sorts that died half-way, with the
  exceptions the code makes: another tab's changes, items of the same id in one chapter, and
  for the order a browser that enumerates ascending. It does not among contents and
  assessments together: a quiz dropped before a lecture is listed after it, "Lecture 2" above
  "Lecture 1" (see "findings"). A page that nobody disturbed deletes only chapters that the
  database lets go.
* In every text blanks and words correspond: the edit page shows what was typed, and the
  answers counted as right are those with which the student's page reads as it was typed.
  The exception is a row mixed from two saves. A text without blanks is accepted, though the
  service means to refuse it (`Assessment.php:360`); it has one sheet, which is right.
* The widgets come to rest visible, showing what was asked for last, with one exception: a
  list of questions is rendered at once, and answers that still wait in the queue replace it.

**Bounds.** `MaxDeliveries` bounds how often gearmand hands out one job. Two deliveries
are the first and a redelivery, with a Zencoder job of each at any stage at the same
time; a further one meets no new situation (the safety run also passes with three), and
the proofs hold for any number. Contents touch each other only through the number of
workers, so one content suffices for safety and two for the queue. There is no symmetry
set: the contents of the shared run would be symmetric, but a symmetry set is not sound
for liveness. Deadlock is not checked, since the system stops when everything is done.

`MaxEdits` bounds how often the questions of an assessment are saved or removed: three
edits fill the bank with two questions and change one of them while an attempt is open, or
remove and change others. A multiple-choice question has two answers with the same values
under exchanged keys, so that comparing values instead of keys shows. Requests on
different attempts share no column, so one attempt suffices; two requests are enough for
every overlap the properties exclude. The two requests are symmetric, and the run has no
liveness property. The proofs hold for any number of each, so also beyond these bounds.

`MaxSubs` bounds how many subscriptions are ever inserted. Two are one for each user, two
of the same user, or a second one after the first was removed. What a user may rely on
relates one request of theirs to one of somebody else, so two requests suffice. A second
content makes no new case in the safety run, since the column is written as a whole. The
two requests are symmetric.

Of the services: three calls on accounts are a registration and two that overlap, or two
registrations and one that takes an address over. The death of the worker hands a job out
again with whatever it did before, and a second death meets the same states. Two calls on a
curriculum are two drops, one of which dies or is disturbed; a third is needed where a
deletion follows. Two chapters, and two contents and a quiz, are every pair that an order is
about. Four pieces of text have two blanks next to each other, apart, and with underscores
before, between and after. Five clicks on the page ask for three views while the first one
is still moving. Nothing is declared symmetric there, since the run has liveness properties.

**Fairness.** supervisord restarts the worker and gearmand keeps the queue (`README.md`,
section on supervisord), so a worker step that can be taken is taken; PHP finishes a
request that does not die; Zencoder ends its jobs and repeats notifications (weak
fairness), and a notification that keeps being retried is handled in the end although
the request may die (strong fairness of `indexAction_content`). Crashes, failures, the
user and deletions are not fair. `pipeline_shared` needs only the fairness of workers. `Discussion` assumes the same of its
worker (weak fairness of `Work`); its deaths are bounded, so that a job is not handed out for
ever. `CoursePage` assumes that effects end (weak fairness of `fx`), which a timer drives;
clicks are not fair.

## Proofs

`ContentPipeline_proofs` proves, for any set of contents, any number of workers and any
number of deliveries (from `ConstantsAssumption` alone): `TypeCorrect`, the invariants
`NeverLostCorrect`, `ReadyCorrect`, `TrackedCorrect`, `LocalKeptCorrect` and
`CalmDeleteCorrect`, the action property `ReadyFinalCorrect` and the refinement
`CustodyCorrect`.

The properties are not inductive. That the worker's clean-up does not remove the last
copy, for instance, needs that a job at "cleanup" has its object in S3 whatever happened
before; that a late notification finds a converted object needs that a notification under
handling belongs to a finished job. `IInv` adds these facts: what each step of a job has
achieved (`UploadedInS3`, `CleanupTracked`, `RunInRange`, `JobAfterRequest`), what the
Zencoder jobs have (`EncodedIsMedia`, `FinishedIsStored`, `HandlingIsFinished`), what the
first delivery has not reached (`FirstRunNotReady`, `FreshRun`) and what a calm deletion
has removed (`CalmDeletion`).

`IInv` speaks of one content at a time (`CInv`), so the proof that steps preserve it has
three parts: an action of a content changes nothing of another (`Locality`), `CInv` depends
on nothing else (`Frame`), and each action keeps `CInv` of its own content (`WebKeeps`,
`WorkerKeeps`, `RunKeeps`, `DeleteKeeps`). The refinement goes the same way: what a step
does to the custody and visibility of its content (`ActorStep`), and that this is a step of
`ContentCustody` (`MapsToCustody`).

`Assessment_proofs` proves, for any questions, attempts and concurrent requests (from
`AnswersAssumption`): `TypeCorrect`, `UndisturbedKeptCorrect`, `AnsweredScoredRightCorrect`,
`ScoredOnceCorrect` and `PhaseForwardCorrect`. The argument: on an attempt outside
`overlapped` at most one request is under way (`Alone`), so what it loaded is still there
when it flushes (`AnswerFresh`, `MarksFresh`); hence the stored answers are the submitted
ones (`Kept`) and the stored marks those of the answers handed in (`Scored`).
`MarkedIsRight` shows that the code's two comparisons amount to equality for complete
answers. The invariant has two halves, `Types` and `Calm`, each proved action by action.

`Course_proofs` proves, for any users, contents, concurrent requests and number of
subscriptions (from `CourseAssumption`): `TypeCorrect`, `SubscribedOnceCorrect`,
`CompletedKeptCorrect`, `UnsubscribedIsOutCorrect` and `DeletionSucceedsCorrect`. The
invariant `IInv` has three parts.

* `Types`: the states are well formed, and requests complete contents of the course.
* `Mine`: what a user may rely on outside `overlapped`. At most one of the user's own
  requests is under way (`Alone`); if it subscribes there is no row yet (`NoneYet`), if it
  unsubscribes it holds the only one (`OnlyRow`), if it completes a content the row still
  has what it loaded (`Fresh`). None of these survives without the others: the next row is
  the only one because the request that inserts it is the only one. Requests of providers
  and administrators remove rows by id, so `IdsTaken` and `SameUser` say that an id once
  taken is not given to another user. Steps of others keep all this for one common reason
  (`QuietMine`: no row is added, and no completed contents change).
* `Undisturbed`: a deletion under way, to which nothing was added, still holds in its list
  every row and content there is. Several deletions may run at once and remove each
  other's rows; lists only need to be large enough.

The four modules about the smaller services prove their theorems for any values of the
constants that satisfy the module's assumption, which is a hypothesis of each theorem. An
assumption says that the bounds are numbers and that values which must differ do: the kinds
of posts in `DiscussionAssumption`, and the value "undefined" of JavaScript in
`CoursePageAssumption`; ids in a curriculum are numbers, and finitely many.
`AccountAssumption` says of the filters what is said above.

`Account_proofs`: that the password set last is the one stored (`Current`) needs that a
request outside `overlapped` that sets one is the only such request (`Alone`) and has loaded
the password that is stored (`Fresh`): Doctrine writes the column only if it differs from
what was loaded. What a request writes is what the filters make of what was typed into its
form (`Carries`); that this is the text typed if and only if no filter changes it is
`UnfilteredIs`, where the assumption about escaping is needed. A spent
link stays refused because no row has the password it was hashed from (`Invalid`), and links
act on their own account because ids once handed out stay taken (`IdsTaken`).

`Discussion_proofs`: a mail is owed, while the job runs, only to those the worker has still
to mail (`OwedLeft`). That survives a redelivery because a worker that knows the course
knows every subscriber who did not come later (`Listed`). A post is stored before its job
exists (`Staged`), and an answer that is about to be stored has a question (`Found`).

`CoursePage_proofs`: the queue of a widget does not end with sliding up (`EndsShown`), and
the last view to be rendered in it, or the one rendered already, is the one asked for last
(`EndsAsked`). The lemmas about appending to a queue and taking from it (`Slid`, `Taken`)
carry this through clicks and effects.

`Curriculum_proofs`, the longest, follows a drop from the page through the request and the
rows to the next listing. While a tab is undisturbed (`Calm`), every item it dropped is in
the request still or in its chapter (`Delivered`), and everything in the request comes from
what was dropped (`Sent`), so that nothing is moved twice. In a browser that keeps the order
of keys the request is the rest of the arrangement (`Sorting`): the chapters behind it have
their numbers (`RanksTo`), the items of the groups behind it rise (`Ranked`), and of the
group it is at those that were done rise up to the number it has counted to (`Half`). When
the request is done this is `Arrived`, `RanksTo` and `Ranked` for the whole arrangement, and
the listing shows it (`ListedAsDropped`). Steps of others are either `Gentle`, adding or
removing rows but not moving or renumbering any, or disturb the tab. Below this lie lemmas
about the operators: what a drop is (`DropIs`), what the browser makes of the keys
(`EnumeratedIs`, `EntriesIs`, `ContentArrIs`) and what the service lists (`OfKindIs`,
`ListsIs`, `ListingIs`), for which the `CHOOSE` of an order needs that a finite set can be
put in the order of a key; this is proved from the well-foundedness of the numbers
(`Least`), without induction over an operator.

`Services_proofs` carries these invariants over to the sum, where the run checks the
properties (`LastPasswordCorrect`, `SpentLinkCorrect`, `OwnLinksCorrect`, `ShutCorrect`,
`OwedCorrect`, `MailedCorrect`, `AnswersCorrect`, `DroppedChapterCorrect`,
`DroppedOrderCorrect`, `EmptyCorrect`, `AnnouncementsCorrect`, `QuestionsCorrect`): a step of
the sum is a step of the module that the behaviour is about, or leaves its variables alone.
`TypeCorrect` puts them together, with the fact that the behaviour stays about what it was.

The fill-in-the-blank question (`EditCorrect`, `RightCorrect`, from
`FillInTheBlankAssumption` and `BlankTextAssumption`) is proved for texts of any length over
any characters, where the run has texts of up to four pieces. The invariant is short: unless
two saves met, the row is what is made of the text saved last, and an attempt is a copy of
such a row (`TypingInv`, `QuestionInv`: the same for either instance). What the pages show
then follows from two theorems about texts, `FormIsText` and `PageIsText`. They are reached
in four stages.

* Recursion. That there is a function as `Words` and `Refilled` are defined by is proved, not
  assumed. The induction theorems of the library take an operator, so induction over texts is
  stated with a set (`TextInduction`), by a counterexample of least length, and the functions
  are put together from approximations, one for each length (`TextRecursion`,
  `WordsExist`, `RefilledExist`). Then the recursions can be used as equations.
* Matching. The expression ends a blank in one place only (`OneEnd`); a word between
  underscores, whatever comes after it, is found as this word and this rest (`BlankOf`); and
  a text is what it begins with and its rest (`Whole`).
* No new blanks (`NoNewBlank`). To fill a text in could make a blank where there was none,
  when the underscores of one that was filled come to close others before them. It does not:
  the first two characters of a text stay as they are, and an end of a blank that is there
  after filling in was there before (`NoNewEnd`). So title and text have their blanks in the
  same order and number (`CountTitle`), and to fill in the title is to fill in the text
  (`RefilledTitle`).
* The own words. A text filled in with its own words is the same text (`RoundTrip`). That no
  others do it (`OnlyItsWords`) is the harder half, since answers may contain underscores
  and blanks themselves: a longer answer would move the rest of the text, so that this rest,
  filled in, would have to be the end of itself (`NoSuffix` excludes it), and a shorter one
  would put an underscore where the word has none.

Only model-checked: `UploadBecomesReady`, `QueueDrains`, `JobsFinish` and `WidgetsSettle`,
since liveness under fairness is out of the prover's reach. Every invariant and action
property of a passing run is proved.

## Plan

In this order; each module gets runs, mutants and, where given, proofs.

1. `ContentPipeline`, `ContentCustody`: done.
2. `Assessment`: done, with its proofs.
3. `Course`: done, with its proofs.
4. `Curriculum`, `Discussion`, `Account`, `CoursePage`: done, with their proofs;
   `BlankText`, `FillInTheBlank`: done, with their proofs in `Services_proofs`.
5. A composition of the deletion in `Course` with that of `ContentPipeline`, and of
   unsubscribing with the attempts of `Assessment`.

## Not modelled

* Configuration, monitoring, crypto: rows read and written one at a time, an append-only log,
  pure computation over bytes.
* `acl_updateProfile` and the role column of an account: no other column depends on them.
  `acl_adminEnableUserAccount` and `acl_adminDisableUserAccount` are empty in the code.
* Reviews: `addReview` stores another one whatever there is, which needs no model.
* Chapters of another course, which `acl_updateChapterOrder` would number as well
  (`Course.php:278`): the pages never send any.
* Lists and results that only read, except `acl_listContentOrder`, which the page depends on.
* In `dep.js`: menus, search, the list of contents and the completion links, which replace
  one piece of the page at once.
* Controllers, forms and views beyond what they add to a call: they keep no state.
* Vendored code. Nearly all JavaScript in the repository is vendored (dojo, dijit, jQuery,
  TinyMCE, video.js); what the project itself wrote is PHP, the scripts in its views and
  `dep.js`. Of the vendored code the models have what the program relies on.
