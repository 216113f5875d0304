-------------------------- MODULE CoursePage_proofs --------------------------
(* What the widgets of a course's page guarantee for any number of          *)
(* questions and clicks.                                                    *)
EXTENDS CoursePage, SequenceTheorems, TLAPS

-----------------------------------------------------------------------------
(* The inductive invariant.                                                *)

(* Each announcement and each answer took a click.                         *)
Counted == posted <= clicks /\ \A q \in Questions : answers[q] <= clicks

(* The queue s will render something, and view at last.                    *)
Renders(s) == \E k \in 1 .. Len(s) : s[k].do = "render"

RendersLast(s, view) ==
  \A k \in 1 .. Len(s) :
    s[k].do = "render" /\ (\A j \in k + 1 .. Len(s) : s[j].do # "render")
      => s[k].view = view

(* A queue does not end with sliding up; and unless a view was rendered at *)
(* once in between, it ends with the view that was asked for last.         *)
EndsShown(w) == IF queue[w] = <<>> THEN shown[w] ELSE queue[w][Len(queue[w])] # Up

EndsAsked(w) ==
  /\ Renders(queue[w]) \/ dom[w] = asked[w]
  /\ RendersLast(queue[w], asked[w])

IInv == /\ TypeOK /\ Counted
        /\ \A w \in Widgets : EndsShown(w) /\ (overtaken[w] \/ EndsAsked(w))
        /\ ~overtaken["announcements"]

-----------------------------------------------------------------------------
(* Queues of effects.                                                      *)
Render(view) == [do |-> "render", view |-> view]

LEMMA EffectIs ==
  /\ Up \in Effects /\ Down \in Effects
  /\ Up.do = "up" /\ Down.do = "down" /\ Up # Down
  /\ \A view \in Views : Render(view) \in Effects /\ Render(view) # Up
                         /\ Render(view).do = "render" /\ Render(view).view = view
  /\ \A e \in Effects : /\ e.do = "render" => e.view \in Views
                        /\ e.do # "render" => e = Up \/ e = Down
<1>1. Up.do = "up" /\ Down.do = "down"
  BY DEF Up, Down
<1>2. \A e \in [do : {"render"}, view : Views] : e.do = "render" /\ e.view \in Views
  OBVIOUS
<1> QED BY <1>1, <1>2 DEF Effects, Render

(* A slide is appended: sliding up, and the view.                          *)
LEMMA Slid ==
  ASSUME NEW s \in Seq(Effects), NEW view \in Views
  PROVE  LET t == s \o <<Up, Render(view)>> IN
         /\ t \in Seq(Effects) /\ t # <<>> /\ t[Len(t)] # Up
         /\ Renders(t) /\ RendersLast(t, view)
<1> DEFINE t == s \o <<Up, Render(view)>>
<1>1. <<Up, Render(view)>> \in Seq(Effects)
  BY EffectIs
<1>2. /\ t \in Seq(Effects) /\ Len(t) = Len(s) + 2 /\ Len(s) \in Nat
      /\ \A i \in 1 .. Len(s) + 2 :
           t[i] = IF i <= Len(s) THEN s[i] ELSE <<Up, Render(view)>>[i - Len(s)]
  BY <1>1, ConcatProperties, LenProperties
<1> HIDE DEF t
<1>3. t[Len(t)] = Render(view)
  <2>1. Len(s) + 2 \in 1 .. Len(s) + 2 /\ ~(Len(s) + 2 <= Len(s)) /\ (Len(s) + 2) - Len(s) = 2
    BY <1>2
  <2> QED BY <1>2, <2>1
<1>4. t # <<>> /\ Len(t) \in 1 .. Len(t)
  BY <1>2
<1>5. Renders(t)
  BY <1>3, <1>4, EffectIs DEF Renders
<1>6. RendersLast(t, view)
  <2> SUFFICES ASSUME NEW k \in 1 .. Len(t),
                      \A j \in k + 1 .. Len(t) : t[j].do # "render"
               PROVE  t[k].view = view
    BY DEF RendersLast
  <2>1. k = Len(t)
    <3>1. SUFFICES ASSUME k < Len(t) PROVE FALSE
      BY <1>2
    <3>2. Len(t) \in k + 1 .. Len(t)
      BY <1>2, <3>1
    <3> QED BY <1>3, <3>2, EffectIs
  <2> QED BY <1>3, <2>1, EffectIs
<1> QED BY <1>2, <1>3, <1>4, <1>5, <1>6, EffectIs DEF t

(* The first effect is over: another one remains, or nothing.              *)
LEMMA Taken ==
  ASSUME NEW s \in Seq(Effects), s # <<>>, Head(s).do # "render"
  PROVE  /\ Tail(s) \in Seq(Effects)
         /\ Tail(s) = <<>> => Head(s) = s[Len(s)]
         /\ Tail(s) # <<>> => Tail(s)[Len(Tail(s))] = s[Len(s)]
         /\ Renders(Tail(s)) <=> Renders(s)
         /\ \A view : RendersLast(s, view) => RendersLast(Tail(s), view)
<1> DEFINE t == Tail(s)
<1>1. /\ t \in Seq(Effects) /\ Len(t) = Len(s) - 1 /\ Head(s) = s[1]
      /\ \A i \in 1 .. Len(t) : t[i] = s[i + 1]
      /\ Len(s) \in Nat /\ Len(s) >= 1
  BY HeadTailProperties, EmptySeq, LenProperties
<1> HIDE DEF t
<1>2. t = <<>> => Len(s) = 1
  BY <1>1, EmptySeq
<1>3. t # <<>> => Len(t) \in 1 .. Len(t)
  BY <1>1, EmptySeq
<1>4. t # <<>> => t[Len(t)] = s[Len(s)]
  BY <1>1, <1>3
<1>5. Renders(t) => Renders(s)
  <2> SUFFICES ASSUME NEW k \in 1 .. Len(t), t[k].do = "render" PROVE Renders(s)
    BY DEF Renders
  <2>1. k + 1 \in 1 .. Len(s) /\ s[k + 1].do = "render"
    BY <1>1
  <2> QED BY <2>1 DEF Renders
<1>6. Renders(s) => Renders(t)
  <2> SUFFICES ASSUME NEW k \in 1 .. Len(s), s[k].do = "render" PROVE Renders(t)
    BY DEF Renders
  <2>1. k # 1
    BY <1>1
  <2>2. k - 1 \in 1 .. Len(t) /\ (k - 1) + 1 = k
    BY <1>1, <2>1
  <2> QED BY <1>1, <2>2 DEF Renders
<1>7. ASSUME NEW view, RendersLast(s, view) PROVE RendersLast(t, view)
  <2> SUFFICES ASSUME NEW k \in 1 .. Len(t), t[k].do = "render",
                      \A j \in k + 1 .. Len(t) : t[j].do # "render"
               PROVE  t[k].view = view
    BY DEF RendersLast
  <2>1. k + 1 \in 1 .. Len(s) /\ s[k + 1] = t[k]
    BY <1>1
  <2>2. ASSUME NEW j \in (k + 1) + 1 .. Len(s) PROVE s[j].do # "render"
    <3>1. j - 1 \in k + 1 .. Len(t) /\ j - 1 \in 1 .. Len(t) /\ (j - 1) + 1 = j
      BY <1>1, <2>2
    <3> QED BY <1>1, <3>1
  <2> QED BY <1>7, <2>1, <2>2 DEF RendersLast
<1> QED BY <1>1, <1>2, <1>4, <1>5, <1>6, <1>7 DEF t

(* A view has been rendered: sliding down is queued behind what waits, and *)
(* if nothing waits to be rendered, this was the last one.                 *)
LEMMA Rendered ==
  ASSUME NEW s \in Seq(Effects), s # <<>>, Head(s).do = "render"
  PROVE  LET t == Append(Tail(s), Down) IN
         /\ t \in Seq(Effects) /\ t # <<>> /\ t[Len(t)] # Up
         /\ \A view : RendersLast(s, view) =>
              /\ RendersLast(t, view)
              /\ Renders(t) \/ Head(s).view = view
<1> DEFINE r == Tail(s)
           t == Append(r, Down)
<1>1. /\ r \in Seq(Effects) /\ Len(r) = Len(s) - 1 /\ Head(s) = s[1]
      /\ \A i \in 1 .. Len(r) : r[i] = s[i + 1]
      /\ Len(s) \in Nat /\ Len(s) >= 1
  BY HeadTailProperties, EmptySeq, LenProperties
<1> HIDE DEF r
<1>2. /\ t \in Seq(Effects) /\ t # <<>> /\ Len(t) = Len(s)
      /\ \A i \in 1 .. Len(r) : t[i] = r[i]
      /\ t[Len(s)] = Down
  BY <1>1, AppendProperties, EffectIs
<1> HIDE DEF t
<1>3. \A i \in 1 .. Len(s) - 1 : t[i] = s[i + 1]
  BY <1>1, <1>2
<1>4. ASSUME NEW view, RendersLast(s, view) PROVE RendersLast(t, view)
  <2> SUFFICES ASSUME NEW k \in 1 .. Len(t), t[k].do = "render",
                      \A j \in k + 1 .. Len(t) : t[j].do # "render"
               PROVE  t[k].view = view
    BY DEF RendersLast
  <2>1. k # Len(s)
    BY <1>2, EffectIs
  <2>2. k + 1 \in 1 .. Len(s) /\ s[k + 1] = t[k]
    BY <1>1, <1>2, <1>3, <2>1
  <2>3. ASSUME NEW j \in (k + 1) + 1 .. Len(s) PROVE s[j].do # "render"
    <3>1. j - 1 \in k + 1 .. Len(t) /\ j - 1 \in 1 .. Len(s) - 1 /\ (j - 1) + 1 = j
      BY <1>1, <1>2, <2>3
    <3> QED BY <1>3, <3>1
  <2> QED BY <1>4, <2>2, <2>3 DEF RendersLast
<1>5. ASSUME NEW view, RendersLast(s, view), ~Renders(t) PROVE Head(s).view = view
  <2>1. ASSUME NEW j \in 1 + 1 .. Len(s) PROVE s[j].do # "render"
    <3>1. j - 1 \in 1 .. Len(s) - 1 /\ j - 1 \in 1 .. Len(t) /\ (j - 1) + 1 = j
      BY <1>1, <1>2, <2>1
    <3> QED BY <1>3, <1>5, <3>1 DEF Renders
  <2>2. 1 \in 1 .. Len(s)
    BY <1>1
  <2> QED BY <1>1, <1>5, <2>1, <2>2 DEF RendersLast
<1> QED BY <1>2, <1>4, <1>5, EffectIs DEF r, t

-----------------------------------------------------------------------------
(* Widgets.                                                                *)

(* What the clicks change besides the widgets.                             *)
HeldOK ==
  /\ posted \in 0 .. MaxClicks /\ clicks \in 0 .. MaxClicks
  /\ questions \in [Questions -> {"none", "there", "gone"}]
  /\ answers \in [Questions -> 0 .. MaxClicks]
  /\ Counted

LEMMA Starts == CoursePageAssumption /\ Init => IInv
<1> SUFFICES ASSUME CoursePageAssumption, Init PROVE IInv
  OBVIOUS
<1>1. /\ Announcements(0) \in Views /\ Empty \in Views /\ QuestionList({}) \in Views
      /\ 0 \in 0 .. MaxClicks
  BY DEF CoursePageAssumption, Views
<1>2. /\ asked["announcements"] = Announcements(0) /\ dom["announcements"] = Empty
      /\ asked["questions"] = QuestionList({}) /\ dom["questions"] = QuestionList({})
      /\ queue["announcements"] = <<Up, Render(Announcements(0))>>
      /\ queue["questions"] = <<>>
  BY DEF Init, Widgets, Render
<1>3. <<Up, Render(Announcements(0))>> = <<>> \o <<Up, Render(Announcements(0))>>
  BY <1>1, EffectIs, ConcatEmptySeq
<1>4. <<>> \in Seq(Effects)
  BY EmptySeq
<1>5. /\ <<Up, Render(Announcements(0))>> \in Seq(Effects)
      /\ LET t == <<Up, Render(Announcements(0))>> IN
         t # <<>> /\ t[Len(t)] # Up /\ Renders(t) /\ RendersLast(t, Announcements(0))
  BY <1>1, <1>3, <1>4, Slid
<1>6. EndsShown("announcements") /\ EndsAsked("announcements")
  BY <1>2, <1>5 DEF EndsShown, EndsAsked
<1>7. EndsShown("questions") /\ EndsAsked("questions")
  BY <1>2 DEF EndsShown, EndsAsked, Init, Widgets, RendersLast
<1>8. TypeOK
  <2>1. dom \in [Widgets -> Views] /\ asked \in [Widgets -> Views]
    BY <1>1 DEF Init, Widgets
  <2>2. queue \in [Widgets -> Seq(Effects)]
    BY <1>4, <1>5 DEF Init, Render
  <2> QED BY <1>1, <2>1, <2>2 DEF Init, TypeOK
<1>9. Counted
  BY DEF Init, Counted
<1> QED BY <1>6, <1>7, <1>8, <1>9 DEF IInv, Init, Widgets

LEMMA SlideKeeps ==
  ASSUME IInv, NEW w \in Widgets, NEW view \in Views, Slide(w, view), HeldOK'
  PROVE  IInv'
<1> DEFINE t == queue[w] \o <<Up, Render(view)>>
<1>1. queue[w] \in Seq(Effects)
  BY DEF IInv, TypeOK
<1>2. t \in Seq(Effects) /\ t # <<>> /\ t[Len(t)] # Up /\ Renders(t) /\ RendersLast(t, view)
  BY <1>1, Slid
<1>3. /\ queue' = [queue EXCEPT ![w] = t] /\ asked' = [asked EXCEPT ![w] = view]
      /\ overtaken' = [overtaken EXCEPT ![w] = FALSE]
      /\ UNCHANGED <<dom, shown>>
  BY DEF Slide, Render
<1> HIDE DEF t
<1>4. TypeOK'
  BY <1>2, <1>3 DEF HeldOK, IInv, TypeOK
<1>5. EndsShown(w)' /\ EndsAsked(w)'
  BY <1>2, <1>3 DEF IInv, TypeOK, EndsShown, EndsAsked
<1>6. ASSUME NEW v \in Widgets, v # w
      PROVE  EndsShown(v)' /\ (overtaken'[v] \/ EndsAsked(v)')
  <2>1. /\ queue'[v] = queue[v] /\ asked'[v] = asked[v] /\ dom'[v] = dom[v]
        /\ overtaken'[v] = overtaken[v] /\ shown'[v] = shown[v]
    BY <1>3, <1>6 DEF IInv, TypeOK
  <2> QED BY <2>1 DEF IInv, EndsShown, EndsAsked
<1>7. ~overtaken'["announcements"]
  BY <1>3 DEF IInv, TypeOK, Widgets
<1> QED BY <1>4, <1>5, <1>6, <1>7 DEF IInv, HeldOK

(* Only questions are rendered at once.                                    *)
LEMMA AtOnceKeeps ==
  ASSUME IInv, NEW view \in Views, AtOnce("questions", view), HeldOK'
  PROVE  IInv'
<1> DEFINE w == "questions"
<1>1. /\ dom' = [dom EXCEPT ![w] = view] /\ asked' = [asked EXCEPT ![w] = view]
      /\ overtaken' = [overtaken EXCEPT ![w] = Waiting(w)]
      /\ UNCHANGED <<shown, queue>> /\ w \in Widgets
  BY DEF AtOnce, Widgets
<1>2. Waiting(w) \in BOOLEAN /\ (Waiting(w) <=> Renders(queue[w]))
  <2>1. queue[w] \in Seq(Effects)
    BY DEF IInv, TypeOK, Widgets
  <2>2. DOMAIN queue[w] = 1 .. Len(queue[w])
    BY <2>1, LenProperties
  <2> QED BY <2>2 DEF Waiting, Renders
<1>3. TypeOK'
  BY <1>1, <1>2 DEF HeldOK, IInv, TypeOK
<1>4. overtaken'[w] = Waiting(w) /\ dom'[w] = view /\ asked'[w] = view
  BY <1>1 DEF IInv, TypeOK
<1>5. EndsShown(w)' /\ (overtaken'[w] \/ EndsAsked(w)')
  <2>1. ~Renders(queue[w]) => RendersLast(queue[w], view)
    BY DEF Renders, RendersLast
  <2> QED BY <1>1, <1>2, <1>4, <2>1 DEF IInv, EndsShown, EndsAsked
<1>6. ASSUME NEW v \in Widgets, v # w
      PROVE  EndsShown(v)' /\ (overtaken'[v] \/ EndsAsked(v)')
  <2>1. /\ queue'[v] = queue[v] /\ asked'[v] = asked[v] /\ dom'[v] = dom[v]
        /\ overtaken'[v] = overtaken[v] /\ shown'[v] = shown[v]
    BY <1>1, <1>6 DEF IInv, TypeOK
  <2> QED BY <2>1 DEF IInv, EndsShown, EndsAsked
<1>7. ~overtaken'["announcements"]
  BY <1>1 DEF IInv, TypeOK, Widgets
<1> QED BY <1>3, <1>5, <1>6, <1>7 DEF IInv, HeldOK

LEMMA FxKeeps ==
  ASSUME IInv, NEW w \in Widgets, fx(w)
  PROVE  IInv'
<1> DEFINE s == queue[w]
           e == Head(queue[w])
<1>1. s \in Seq(Effects) /\ s # <<>>
  BY DEF IInv, TypeOK, fx
<1>2. e \in Effects
  BY <1>1, HeadTailProperties
<1>3. UNCHANGED <<posted, questions, answers, clicks, asked, overtaken>>
  BY DEF fx, held
<1>4. ASSUME NEW v \in Widgets, v # w, queue'[v] = queue[v], dom'[v] = dom[v],
             shown'[v] = shown[v]
      PROVE  EndsShown(v)' /\ (overtaken'[v] \/ EndsAsked(v)')
  BY <1>3, <1>4 DEF IInv, EndsShown, EndsAsked
<1>5. CASE e.do = "render"
  <2> DEFINE t == Append(Tail(s), Down)
  <2>1. /\ dom' = [dom EXCEPT ![w] = e.view] /\ queue' = [queue EXCEPT ![w] = t]
        /\ UNCHANGED shown
    BY <1>5 DEF fx
  <2>2. t \in Seq(Effects) /\ t # <<>> /\ t[Len(t)] # Up
    BY <1>1, <1>5, Rendered
  <2>3. RendersLast(s, asked[w]) =>
          RendersLast(t, asked[w]) /\ (Renders(t) \/ e.view = asked[w])
    BY <1>1, <1>5, Rendered
  <2>4. e.view \in Views
    BY <1>2, <1>5, EffectIs
  <2> HIDE DEF t, e
  <2>5. TypeOK'
    BY <1>3, <2>1, <2>2, <2>4 DEF IInv, TypeOK
  <2>6. queue'[w] = t /\ dom'[w] = e.view
    BY <2>1 DEF IInv, TypeOK
  <2>7. EndsShown(w)' /\ (overtaken'[w] \/ EndsAsked(w)')
    BY <1>3, <2>2, <2>3, <2>6 DEF IInv, EndsShown, EndsAsked, s
  <2>8. \A v \in Widgets : v # w =>
          queue'[v] = queue[v] /\ dom'[v] = dom[v] /\ shown'[v] = shown[v]
    BY <2>1 DEF IInv, TypeOK
  <2> QED BY <1>3, <1>4, <2>5, <2>7, <2>8 DEF IInv, Counted
<1>6. CASE e.do # "render"
  <2> DEFINE t == Tail(s)
  <2>1. /\ shown' = [shown EXCEPT ![w] = (e = Down)] /\ queue' = [queue EXCEPT ![w] = t]
        /\ UNCHANGED dom
    BY <1>6 DEF fx
  <2>2. /\ t \in Seq(Effects)
        /\ t = <<>> => e = s[Len(s)]
        /\ t # <<>> => t[Len(t)] = s[Len(s)]
        /\ Renders(t) <=> Renders(s)
        /\ RendersLast(s, asked[w]) => RendersLast(t, asked[w])
    BY <1>1, <1>6, Taken
  <2>3. s[Len(s)] # Up
    BY <1>1 DEF IInv, EndsShown
  <2>4. e = Up \/ e = Down
    BY <1>2, <1>6, EffectIs
  <2>5. (e = Down) \in BOOLEAN
    OBVIOUS
  <2> HIDE DEF t, e
  <2>6. TypeOK'
    BY <1>3, <2>1, <2>2, <2>5 DEF IInv, TypeOK
  <2>7. queue'[w] = t /\ shown'[w] = (e = Down)
    BY <2>1 DEF IInv, TypeOK
  <2>8. EndsShown(w)'
    BY <2>2, <2>3, <2>4, <2>7 DEF EndsShown
  <2>9. overtaken'[w] \/ EndsAsked(w)'
    BY <1>3, <2>1, <2>2, <2>7 DEF IInv, EndsAsked, s
  <2>10. \A v \in Widgets : v # w =>
           queue'[v] = queue[v] /\ dom'[v] = dom[v] /\ shown'[v] = shown[v]
    BY <2>1 DEF IInv, TypeOK
  <2> QED BY <1>3, <1>4, <2>6, <2>8, <2>9, <2>10 DEF IInv, Counted
<1> QED BY <1>5, <1>6

-----------------------------------------------------------------------------
(* Handlers.                                                               *)

(* A click that counts, and what it may post.                              *)
LEMMA ClickIs ==
  ASSUME CoursePageAssumption, IInv, NEW w, NEW view, On(w, view),
         posted' \in Nat, posted' <= posted + 1,
         questions' \in [Questions -> {"none", "there", "gone"}],
         answers' \in [Questions -> Nat],
         \A q \in Questions : answers'[q] <= answers[q] + 1
  PROVE  HeldOK'
<1>1. clicks \in 0 .. MaxClicks /\ clicks < MaxClicks /\ clicks' = clicks + 1 /\ MaxClicks \in Nat
  BY DEF On, IInv, TypeOK, CoursePageAssumption
<1>2. posted' <= clicks' /\ posted \in Nat
  BY <1>1 DEF IInv, TypeOK, Counted
<1>3. ASSUME NEW q \in Questions
      PROVE  answers'[q] <= clicks' /\ answers'[q] \in 0 .. MaxClicks
  <2>1. answers[q] \in Nat /\ answers[q] <= clicks /\ answers'[q] \in Nat
    BY DEF IInv, TypeOK, Counted
  <2> QED BY <1>1, <2>1
<1>4. answers' \in [Questions -> 0 .. MaxClicks]
  BY <1>3
<1> QED BY <1>1, <1>2, <1>3, <1>4 DEF HeldOK, Counted

LEMMA HeldIs ==
  ASSUME IInv
  PROVE  /\ posted \in Nat /\ posted <= posted + 1
         /\ questions \in [Questions -> {"none", "there", "gone"}]
         /\ answers \in [Questions -> Nat]
         /\ \A q \in Questions : answers[q] \in Nat /\ answers[q] <= answers[q] + 1
         /\ "announcements" \in Widgets /\ "questions" \in Widgets
BY DEF IInv, TypeOK, Widgets

LEMMA ViewIs ==
  /\ Create \in Views
  /\ \A n \in 0 .. MaxClicks : Announcements(n) \in Views
  /\ \A S \in SUBSET Questions : QuestionList(S) \in Views
  /\ \A q \in Questions \cup {"undefined"}, n \in 0 .. MaxClicks, is \in BOOLEAN :
       AnswersTo(q, is, n) \in Views
BY DEF Views, AnswersTo

LEMMA ListKeeps ==
  ASSUME IInv, HeldOK', course_question_list(questions')
  PROVE  IInv'
BY AtOnceKeeps, ViewIs DEF course_question_list

LEMMA ListAnswersKeeps ==
  ASSUME CoursePageAssumption, IInv, HeldOK', NEW q \in Questions \cup {"undefined"},
         course_question_listAnswers(q, answers')
  PROVE  IInv'
<1>1. There(q) \in BOOLEAN
  BY DEF There
<1>2. There(q) => answers'[q] \in 0 .. MaxClicks
  BY DEF There, HeldOK, CoursePageAssumption
<1>3. 0 \in 0 .. MaxClicks
  BY DEF CoursePageAssumption
<1>4. AnswersTo(q, There(q), IF There(q) THEN answers'[q] ELSE 0) \in Views
  BY <1>1, <1>2, <1>3, ViewIs
<1> QED BY <1>4, HeldIs, SlideKeeps DEF course_question_listAnswers

(* What is rendered under "answers" names a question, or none.             *)
LEMMA ShownAnswers ==
  ASSUME IInv, On("questions", "answers")
  PROVE  dom["questions"].question \in Questions \cup {"undefined"}
<1>1. dom["questions"] \in Views /\ dom["questions"].view = "answers"
  BY HeldIs DEF On, IInv, TypeOK
<1>2. /\ Empty.view = "empty" /\ Create.view = "create"
      /\ \A n : Announcements(n).view = "announcements"
      /\ \A S : QuestionList(S).view = "list"
  BY DEF Empty, Create, Announcements, QuestionList
<1>3. \A v \in [view : {"answers"}, question : Questions \cup {"undefined"},
                there : BOOLEAN, answers : 0 .. MaxClicks] :
        v.question \in Questions \cup {"undefined"}
  OBVIOUS
<1> QED BY <1>1, <1>2, <1>3 DEF Views

LEMMA ClickKeeps ==
  ASSUME CoursePageAssumption, IInv, Click
  PROVE  IInv'
<1>1. CASE create
  <2>1. HeldOK'
    BY <1>1, HeldIs, ClickIs DEF create, held
  <2> QED BY <1>1, <2>1, HeldIs, ViewIs, SlideKeeps DEF create
<1>2. CASE back
  <2>1. HeldOK'
    BY <1>2, HeldIs, ClickIs DEF back, held
  <2>2. Announcements(posted) \in Views
    BY ViewIs DEF IInv, TypeOK
  <2> QED BY <1>2, <2>1, <2>2, HeldIs, SlideKeeps DEF back, course_announcements_list
<1>3. CASE post
  <2>1. posted' \in Nat /\ posted' <= posted + 1
    BY <1>3, HeldIs DEF post
  <2>2. HeldOK'
    BY <1>3, <2>1, HeldIs, ClickIs DEF post
  <2>3. Announcements(posted') \in Views
    BY <2>2, ViewIs DEF HeldOK
  <2> QED BY <1>3, <2>2, <2>3, HeldIs, SlideKeeps DEF post, course_announcements_list
<1>4. ASSUME NEW q \in Questions, questionLink(q) PROVE IInv'
  <2>1. HeldOK' /\ answers' = answers
    BY <1>4, HeldIs, ClickIs DEF questionLink, held
  <2> QED BY <1>4, <2>1, ListAnswersKeeps DEF questionLink
<1>5. ASSUME NEW q \in Questions, askAQuestion(q) PROVE IInv'
  <2>1. questions' \in [Questions -> {"none", "there", "gone"}]
    BY <1>5, HeldIs DEF askAQuestion
  <2>2. HeldOK'
    BY <1>5, <2>1, HeldIs, ClickIs DEF askAQuestion
  <2> QED BY <1>5, <2>2, ListKeeps DEF askAQuestion
<1>6. CASE answerCount
  <2>1. HeldOK' /\ answers' = answers
    BY <1>6, HeldIs, ClickIs DEF answerCount, held
  <2> QED BY <1>6, <2>1, ListAnswersKeeps DEF answerCount
<1>7. CASE backToQuestionsLink
  <2>1. HeldOK' /\ questions' = questions
    BY <1>7, HeldIs, ClickIs DEF backToQuestionsLink, held
  <2> QED BY <1>7, <2>1, ListKeeps DEF backToQuestionsLink
<1>8. CASE deleteQuestion
  <2>1. questions' \in [Questions -> {"none", "there", "gone"}]
    BY <1>8, HeldIs DEF deleteQuestion
  <2>2. HeldOK'
    BY <1>8, <2>1, HeldIs, ClickIs DEF deleteQuestion
  <2> QED BY <1>8, <2>2, ListKeeps DEF deleteQuestion
<1>9. CASE answerAQuestion
  <2> DEFINE q == dom["questions"].question
  <2>1. q \in Questions \cup {"undefined"}
    BY <1>9, ShownAnswers DEF answerAQuestion
  <2>2. answers' = answers \/ (There(q) /\ answers' = [answers EXCEPT ![q] = answers[q] + 1])
    BY <1>9 DEF answerAQuestion
  <2>3. There(q) => q \in Questions
    BY <2>1 DEF There
  <2>4. /\ answers' \in [Questions -> Nat]
        /\ \A p \in Questions : answers'[p] <= answers[p] + 1
    BY <2>2, <2>3, HeldIs
  <2>5. HeldOK'
    BY <1>9, <2>4, HeldIs, ClickIs DEF answerAQuestion
  <2> QED BY <1>9, <2>1, <2>5, ListAnswersKeeps DEF answerAQuestion
<1>10. CASE deleteAnswer
  <2> DEFINE q == dom["questions"].question
  <2>1. q \in Questions \cup {"undefined"}
    BY <1>10, ShownAnswers DEF deleteAnswer
  <2>2. \/ answers' = answers
        \/ There(q) /\ answers[q] > 0 /\ answers' = [answers EXCEPT ![q] = answers[q] - 1]
    BY <1>10 DEF deleteAnswer
  <2>3. There(q) => q \in Questions
    BY <2>1 DEF There
  <2>4. /\ answers' \in [Questions -> Nat]
        /\ \A p \in Questions : answers'[p] <= answers[p] + 1
    BY <2>2, <2>3, HeldIs
  <2>5. HeldOK' /\ questions' = questions
    BY <1>10, <2>4, HeldIs, ClickIs DEF deleteAnswer
  <2> QED BY <1>10, <2>5, ListKeeps DEF deleteAnswer
<1> QED
  BY <1>1, <1>2, <1>3, <1>4, <1>5, <1>6, <1>7, <1>8, <1>9, <1>10 DEF Click

-----------------------------------------------------------------------------
(* Every step keeps the inductive invariant.                               *)
LEMMA StepKeeps == CoursePageAssumption /\ IInv /\ [Next]_vars => IInv'
<1> SUFFICES ASSUME CoursePageAssumption, IInv, [Next]_vars PROVE IInv'
  OBVIOUS
<1>1. CASE UNCHANGED vars
  BY <1>1 DEF vars, IInv, TypeOK, Counted, EndsShown, EndsAsked
<1> QED BY <1>1, ClickKeeps, FxKeeps DEF Next

THEOREM Invariance ==
  ASSUME CoursePageAssumption PROVE Spec => []IInv
<1>1. Init => IInv
  BY Starts
<1>2. IInv /\ [Next]_vars => IInv'
  BY StepKeeps
<1> QED BY <1>1, <1>2, PTL DEF Spec

-----------------------------------------------------------------------------
(* The properties.                                                         *)

(* Every state of the page is well typed: among other things, a widget     *)
(* never shows more than there were clicks.                                *)
THEOREM TypeCorrect ==
  ASSUME CoursePageAssumption PROVE Spec => []TypeOK
<1>1. IInv => TypeOK
  BY DEF IInv
<1> QED BY <1>1, Invariance, PTL

LEMMA Settles == IInv => AnnouncementsSettle /\ QuestionsSettle
<1> SUFFICES ASSUME IInv PROVE AnnouncementsSettle /\ QuestionsSettle
  OBVIOUS
<1>1. ASSUME NEW w \in Widgets, Settled(w)
      PROVE  shown[w] /\ (overtaken[w] \/ dom[w] = asked[w])
  <2>1. ~Renders(<<>>)
    BY DEF Renders
  <2> QED BY <1>1, <2>1 DEF IInv, EndsShown, EndsAsked, Settled
<1> QED BY <1>1 DEF AnnouncementsSettle, QuestionsSettle, Widgets, IInv

(* However fast the user clicks, when the effects are over the             *)
(* announcements are to be seen, and are what was asked for last (Slide,   *)
(* fx).                                                                    *)
THEOREM AnnouncementsCorrect ==
  ASSUME CoursePageAssumption PROVE Spec => []AnnouncementsSettle
<1>1. IInv => AnnouncementsSettle
  BY Settles
<1> QED BY <1>1, Invariance, PTL

(* So are the questions, unless a list was rendered at once while answers  *)
(* waited in the queue (AtOnce).                                           *)
THEOREM QuestionsCorrect ==
  ASSUME CoursePageAssumption PROVE Spec => []QuestionsSettle
<1>1. IInv => QuestionsSettle
  BY Settles
<1> QED BY <1>1, Invariance, PTL

=============================================================================
