---------------------------- MODULE CoursePage ----------------------------
(***************************************************************************)
(* The two widgets of a course's page: announcements, and questions with   *)
(* their answers.                                                          *)
(*                                                                         *)
(* Code: public/js/ThesisPlanet/dep.js and the templates Site/Course; the  *)
(* calls are those of Discussion.  They are synchronous: what a handler    *)
(* asks, it gets before the next click.  What takes time is jQuery's queue *)
(* of effects, one for each widget: a widget slides up, is rendered, and   *)
(* slides down.  Meanwhile the user may click on what is still, or again,  *)
(* to be seen.                                                             *)
(*                                                                         *)
(* A call that is refused returns the exception as an object, which the    *)
(* handlers take for success.  Only this page changes the course: what is  *)
(* listed is what this user did.                                           *)
(***************************************************************************)
EXTENDS Naturals, Sequences

CONSTANTS
  Questions,   \* questions that may be asked
  MaxClicks    \* bound: clicks and answers on the page

(* What the constants of an instance satisfy. *)
CoursePageAssumption == MaxClicks \in Nat /\ "undefined" \notin Questions

Widgets == {"announcements", "questions"}

VARIABLES
  posted,      \* number of announcements
  questions,   \* [Questions -> {"none", "there", "gone"}]
  answers,     \* [Questions -> Nat]: how many answers they have
  dom,         \* [Widgets -> Views]: what is rendered
  shown,       \* [Widgets -> BOOLEAN]: not slid up
  queue,       \* [Widgets -> Seq(Effects)]: the first one is in progress
  clicks,      \* clicks so far
  asked,       \* history: [Widgets -> Views]: the view asked for last
  overtaken    \* history: it was rendered while another waited in the queue

vars == <<posted, questions, answers, dom, shown, queue, clicks, asked, overtaken>>

held == <<posted, questions, answers>>

Announcements(n) == [view |-> "announcements", posted |-> n]
Empty  == [view |-> "empty"]
Create == [view |-> "create"]
QuestionList(S) == [view |-> "list", questions |-> S]
AnswersTo(q, is, n) == [view |-> "answers", question |-> q, there |-> is, answers |-> n]

Views ==
  {Empty, Create} \cup {Announcements(n) : n \in 0 .. MaxClicks}
  \cup {QuestionList(S) : S \in SUBSET Questions}
  \cup [view : {"answers"}, question : Questions \cup {"undefined"}, there : BOOLEAN,
        answers : 0 .. MaxClicks]

Up   == [do |-> "up"]
Down == [do |-> "down"]
Effects == {Up, Down} \cup [do : {"render"}, view : Views]

TypeOK ==
  /\ posted \in 0 .. MaxClicks
  /\ questions \in [Questions -> {"none", "there", "gone"}]
  /\ answers \in [Questions -> 0 .. MaxClicks]
  /\ dom \in [Widgets -> Views] /\ asked \in [Widgets -> Views]
  /\ shown \in [Widgets -> BOOLEAN] /\ overtaken \in [Widgets -> BOOLEAN]
  /\ queue \in [Widgets -> Seq(Effects)]
  /\ clicks \in 0 .. MaxClicks

(* coursePageLoad has just run. *)
Init ==
  /\ posted = 0 /\ questions = [q \in Questions |-> "none"] /\ answers = [q \in Questions |-> 0]
  /\ asked = [w \in Widgets |-> IF w = "questions" THEN QuestionList({}) ELSE Announcements(0)]
  /\ dom = [asked EXCEPT !["announcements"] = Empty]
  /\ shown = [w \in Widgets |-> TRUE]
  /\ queue = [w \in Widgets |-> IF w = "questions" THEN <<>>
                ELSE <<Up, [do |-> "render", view |-> Announcements(0)]>>]
  /\ clicks = 0
  /\ overtaken = [w \in Widgets |-> FALSE]

-----------------------------------------------------------------------------
(* Effects. *)

Waiting(w) == \E k \in DOMAIN queue[w] : queue[w][k].do = "render"

(* MUTANT of Slide: a widget that is sliding is left alone. *)
Slide_unless_busy(w, view) ==
  /\ queue' = IF queue[w] # <<>> THEN queue ELSE
       [queue EXCEPT ![w] = @ \o <<Up, [do |-> "render", view |-> view]>>]
  /\ asked' = [asked EXCEPT ![w] = view]
  /\ overtaken' = [overtaken EXCEPT ![w] = FALSE]
  /\ UNCHANGED <<dom, shown>>

(* $(..).slideUp("slow"), and .queue(..) for the rest. *)
Slide(w, view) ==
  /\ queue' = [queue EXCEPT ![w] = @ \o <<Up, [do |-> "render", view |-> view]>>]
  /\ asked' = [asked EXCEPT ![w] = view]
  /\ overtaken' = [overtaken EXCEPT ![w] = FALSE]
  /\ UNCHANGED <<dom, shown>>

(* $(..).html(..) *)
AtOnce(w, view) ==
  /\ dom' = [dom EXCEPT ![w] = view]
  /\ asked' = [asked EXCEPT ![w] = view]
  /\ overtaken' = [overtaken EXCEPT ![w] = Waiting(w)]
  /\ UNCHANGED <<shown, queue>>

(* MUTANT of fx: the widget is not slid down again. *)
fx_without_slideDown(w) ==
  /\ queue[w] # <<>>
  /\ LET effect == Head(queue[w]) IN
     /\ queue' = [queue EXCEPT ![w] = Tail(@)]
     /\ shown' = [shown EXCEPT ![w] = IF effect = Up THEN FALSE ELSE @]
     /\ dom' = IF effect.do = "render" THEN [dom EXCEPT ![w] = effect.view] ELSE dom
  /\ UNCHANGED <<held, clicks, asked, overtaken>>

(* MUTANT of fx: the callback does not call dequeue. *)
fx_without_dequeue(w) ==
  /\ queue[w] # <<>> /\ Head(queue[w]).do # "render"
  /\ shown' = [shown EXCEPT ![w] = Head(queue[w]) = Down]
  /\ queue' = [queue EXCEPT ![w] = Tail(@)]
  /\ UNCHANGED <<held, dom, clicks, asked, overtaken>>

(* The effect in progress ends.  Sliding down is appended to the queue,    *)
(* behind what the user has asked for meanwhile.                           *)
fx(w) ==
  /\ queue[w] # <<>>
  /\ LET effect == Head(queue[w]) IN
     \/ /\ effect.do = "render"
        /\ dom' = [dom EXCEPT ![w] = effect.view]
        /\ queue' = [queue EXCEPT ![w] = Append(Tail(@), Down)]
        /\ UNCHANGED shown
     \/ /\ effect.do # "render"
        /\ shown' = [shown EXCEPT ![w] = effect = Down]
        /\ queue' = [queue EXCEPT ![w] = Tail(@)]
        /\ UNCHANGED dom
  /\ UNCHANGED <<held, clicks, asked, overtaken>>

-----------------------------------------------------------------------------
(* Handlers. *)

(* The user can click on w, which shows a view of this kind. *)
On(w, view) ==
  /\ clicks < MaxClicks /\ clicks' = clicks + 1
  /\ shown[w] \/ (queue[w] # <<>> /\ Head(queue[w]) = Down)
  /\ dom[w].view = view

course_announcements_list(n) == Slide("announcements", Announcements(n))

There(q) == q # "undefined" /\ questions[q] = "there"

(* After calls that left the questions, or the answers, as they are named. *)
course_question_list(qs) ==
  AtOnce("questions", QuestionList({q \in Questions : qs[q] = "there"}))

course_question_listAnswers(q, ans) ==
  Slide("questions", AnswersTo(q, There(q), IF There(q) THEN ans[q] ELSE 0))

create ==
  /\ On("announcements", "announcements")
  /\ Slide("announcements", Create)
  /\ UNCHANGED held

back ==
  /\ On("announcements", "create")
  /\ course_announcements_list(posted)
  /\ UNCHANGED held

(* The text stays in the widget until it is rendered: a second click posts *)
(* it again.                                                               *)
post ==
  /\ On("announcements", "create")
  /\ posted' \in {posted, posted + 1}
  /\ course_announcements_list(posted')
  /\ UNCHANGED <<questions, answers>>

questionLink(q) ==
  /\ On("questions", "list") /\ q \in dom["questions"].questions
  /\ course_question_listAnswers(q, answers)
  /\ UNCHANGED held

(* The button with the number of answers is a link, too, but has no id     *)
(* (Questions.handlebars:8).                                               *)
answerCount ==
  /\ On("questions", "list") /\ dom["questions"].questions # {}
  /\ course_question_listAnswers("undefined", answers)
  /\ UNCHANGED held

askAQuestion(q) ==
  /\ On("questions", "list") /\ questions[q] = "none"
  /\ questions' \in {questions, [questions EXCEPT ![q] = "there"]}
  /\ course_question_list(questions')
  /\ UNCHANGED <<posted, answers>>

backToQuestionsLink ==
  /\ On("questions", "answers")
  /\ course_question_list(questions)
  /\ UNCHANGED held

deleteQuestion ==
  /\ On("questions", "answers")
  /\ LET q == dom["questions"].question IN
     questions' \in {questions} \cup
       (IF There(q) THEN {[questions EXCEPT ![q] = "gone"]} ELSE {})
  /\ course_question_list(questions')
  /\ UNCHANGED <<posted, answers>>

answerAQuestion ==
  /\ On("questions", "answers")
  /\ LET q == dom["questions"].question IN
     /\ answers' \in {answers} \cup
          (IF There(q) THEN {[answers EXCEPT ![q] = @ + 1]} ELSE {})
     /\ course_question_listAnswers(q, answers')
  /\ UNCHANGED <<posted, questions>>

(* The list of questions follows, not that of the answers. *)
deleteAnswer ==
  /\ On("questions", "answers") /\ dom["questions"].answers > 0
  /\ LET q == dom["questions"].question IN
     answers' \in {answers} \cup
       (IF There(q) /\ answers[q] > 0 THEN {[answers EXCEPT ![q] = @ - 1]} ELSE {})
  /\ course_question_list(questions)
  /\ UNCHANGED <<posted, questions>>

-----------------------------------------------------------------------------
Click ==
  \/ create
  \/ back
  \/ post
  \/ \E q \in Questions : questionLink(q) \/ askAQuestion(q)
  \/ answerCount
  \/ backToQuestionsLink
  \/ deleteQuestion
  \/ answerAQuestion
  \/ deleteAnswer

Next == Click \/ \E w \in Widgets : fx(w)

(* Effects end: they are driven by a timer. *)
Fairness == \A w \in Widgets : WF_vars(fx(w))

Spec == Init /\ [][Next]_vars /\ Fairness

-----------------------------------------------------------------------------
Settled(w) == queue[w] = <<>>

(* When the effects are over, the announcements are visible, and are what  *)
(* the user asked for last, however fast he clicked (dep.js:212-225,       *)
(* 352-358).                                                               *)
AnnouncementsSettle ==
  Settled("announcements") =>
    shown["announcements"] /\ dom["announcements"] = asked["announcements"]

(* So do the questions, except when a list was rendered at once while      *)
(* answers waited in the queue, which then replace it (dep.js:281,         *)
(* 329-334).                                                               *)
QuestionsSettle ==
  Settled("questions") =>
    /\ shown["questions"]
    /\ overtaken["questions"] \/ dom["questions"] = asked["questions"]

(* The effects of a widget come to an end, though sliding down is queued   *)
(* by a callback that is in the queue itself (dep.js:215-225).             *)
WidgetsSettle == \A w \in Widgets : ~Settled(w) ~> Settled(w)

=============================================================================
