-------------------------- MODULE Services_proofs --------------------------
(* The theorems about the services, carried over to their sum: what a      *)
(* service guarantees it guarantees in a behaviour that is about it, for   *)
(* any value of the constants.                                             *)
(*                                                                         *)
(* FillInTheBlank has no module of proofs, its theorems are proved here.   *)
(* First come those about the texts of BlankText, whose recursions are     *)
(* shown to have solutions, so that what Words and Refilled compute can be *)
(* said of every text by induction over the length of it.                  *)
EXTENDS Services, TLAPS, SequenceTheorems

-----------------------------------------------------------------------------
(* The accounts. *)

AccountsHold ==
  /\ about = "accounts" => Accounts!IInv
  /\ about = "account"  => OneAccount!IInv

(* The invariant of Account holds of the first state.                      *)
LEMMA AccountsStart == Init => AccountsHold
<1>1. Init => /\ about = "accounts" => Accounts!Init
              /\ about = "account"  => OneAccount!Init
  BY DEF Init
<1> QED
  BY <1>1, ServicesAssumption, Accounts!Starts, OneAccount!Starts
     DEF AccountsHold, ServicesAssumption

(* A step of the sum is one of Account or does not touch it.               *)
LEMMA AccountsStep == AccountsHold /\ [Next]_vars => AccountsHold'
<1>1. [Next]_vars => about' = about
  BY DEF Next, vars
<1>2. [Next]_vars => /\ about = "accounts" => [Accounts!Next]_(Accounts!vars)
                     /\ about = "account"  => [OneAccount!Next]_(OneAccount!vars)
  BY DEF Next, vars, Accounts!vars, OneAccount!vars
<1> QED
  BY <1>1, <1>2, ServicesAssumption, Accounts!StepKeeps, OneAccount!StepKeeps
     DEF AccountsHold, ServicesAssumption

(* The invariant of Account is one of the sum.                             *)
THEOREM AccountsInvariant == Spec => []AccountsHold
BY AccountsStart, AccountsStep, PTL DEF Spec

(* Who signs in does so with the password set last, unless the form it was *)
(* typed into changed it.                                                  *)
THEOREM LastPasswordCorrect == Spec => []LastPasswordSignsIn
<1>1. AccountsHold => LastPasswordSignsIn
  BY ServicesAssumption, Accounts!LastPassword, OneAccount!LastPassword
     DEF AccountsHold, LastPasswordSignsIn, ServicesAssumption
<1> QED BY <1>1, AccountsInvariant, PTL

(* A link with which a password was set is dead.                           *)
THEOREM SpentLinkCorrect == Spec => []SpentLinkIsDead
<1>1. AccountsHold => SpentLinkIsDead
  BY DEF AccountsHold, SpentLinkIsDead, Accounts!IInv, OneAccount!IInv
<1> QED BY <1>1, AccountsInvariant, PTL

(* A link acts on the account it was sent for.                             *)
THEOREM OwnLinksCorrect == Spec => []OwnLinksOnly
<1>1. AccountsHold => OwnLinksOnly
  BY DEF AccountsHold, OwnLinksOnly, Accounts!IInv, OneAccount!IInv
<1> QED BY <1>1, AccountsInvariant, PTL

(* An account whose registration mail was lost stays shut.                 *)
THEOREM ShutCorrect == Spec => ShutUntilDeleted
<1>1. AccountsHold /\ [Next]_vars =>
        [/\ about = "accounts" => Accounts!StaysShut
         /\ about = "account"  => OneAccount!StaysShut]_vars
  <2> SUFFICES ASSUME AccountsHold, [Next]_vars
               PROVE  /\ about = "accounts" => Accounts!StaysShut
                      /\ about = "account"  => OneAccount!StaysShut
    OBVIOUS
  <2>1. CASE about = "accounts"
    <3>1. Accounts!IInv /\ Accounts!AccountAssumption
      BY <2>1, ServicesAssumption DEF AccountsHold, ServicesAssumption
    <3>2. [Accounts!Next]_(Accounts!vars)
      BY <2>1 DEF Next, vars, Accounts!vars
    <3>3. Accounts!StaysShut
      BY <3>1, <3>2, Accounts!StillShut DEF Accounts!StaysShut
    <3> QED BY <2>1, <3>3
  <2>2. CASE about = "account"
    <3>1. OneAccount!IInv /\ OneAccount!AccountAssumption
      BY <2>2, ServicesAssumption DEF AccountsHold, ServicesAssumption
    <3>2. [OneAccount!Next]_(OneAccount!vars)
      BY <2>2 DEF Next, vars, OneAccount!vars
    <3>3. OneAccount!StaysShut
      BY <3>1, <3>2, OneAccount!StillShut DEF OneAccount!StaysShut
    <3> QED BY <2>2, <3>3
  <2> QED BY <2>1, <2>2
<1> QED BY <1>1, AccountsInvariant, PTL DEF Spec, ShutUntilDeleted

-----------------------------------------------------------------------------
(* The discussion and its mails.                                           *)

DiscussionsHold ==
  /\ about = "course"  => Course!IInv
  /\ about = "answers" => Answers!IInv

(* The invariant of Discussion holds of the first state.                   *)
LEMMA DiscussionsStart == Init => DiscussionsHold
<1>1. Init => /\ about = "course"  => Course!Init
              /\ about = "answers" => Answers!Init
  BY DEF Init
<1> QED
  BY <1>1, ServicesAssumption, Course!Starts, Answers!Starts
     DEF DiscussionsHold, ServicesAssumption

(* A step of the sum is one of Discussion or does not touch it.            *)
LEMMA DiscussionsStep == DiscussionsHold /\ [Next]_vars => DiscussionsHold'
<1>1. [Next]_vars => about' = about
  BY DEF Next, vars
<1>2. [Next]_vars => /\ about = "course"  => [Course!Next]_(Course!vars)
                     /\ about = "answers" => [Answers!Next]_(Answers!vars)
  BY DEF Next, vars, Course!vars, Answers!vars
<1> QED
  BY <1>1, <1>2, ServicesAssumption, Course!StepKeeps, Answers!StepKeeps
     DEF DiscussionsHold, ServicesAssumption

(* The invariant of Discussion is one of the sum.                          *)
THEOREM DiscussionsInvariant == Spec => []DiscussionsHold
BY DiscussionsStart, DiscussionsStep, PTL DEF Spec

(* When the job of a post is done, everybody was mailed who is owed a mail. *)
THEOREM OwedCorrect == Spec => []OwedIsMailed
<1>1. DiscussionsHold => OwedIsMailed
  BY DEF DiscussionsHold, OwedIsMailed, Course!IInv, Answers!IInv
<1> QED BY <1>1, DiscussionsInvariant, PTL

(* Nobody is mailed about a post that was never stored.                    *)
THEOREM MailedCorrect == Spec => []MailedWasStored
<1>1. DiscussionsHold => MailedWasStored
  BY Course!MailedStored, Answers!MailedStored DEF DiscussionsHold, MailedWasStored
<1> QED BY <1>1, DiscussionsInvariant, PTL

(* An answer never outlives its question.                                  *)
THEOREM AnswersCorrect == Spec => []AnswersHaveTheirQuestion
<1>1. DiscussionsHold => AnswersHaveTheirQuestion
  BY DEF DiscussionsHold, AnswersHaveTheirQuestion, Course!IInv, Answers!IInv
<1> QED BY <1>1, DiscussionsInvariant, PTL

-----------------------------------------------------------------------------
(* The curriculum.                                                         *)

CurriculumsHold ==
  /\ about = "one tab"  => OneTab!IInv
  /\ about = "two tabs" => TwoTabs!IInv
  /\ about = "a quiz"   => Quiz!IInv

(* The invariant of Curriculum holds of the first state.                   *)
LEMMA CurriculumsStart == Init => CurriculumsHold
<1>1. Init => /\ about = "one tab"  => OneTab!Init
              /\ about = "two tabs" => TwoTabs!Init
              /\ about = "a quiz"   => Quiz!Init
  BY DEF Init
<1> QED
  BY <1>1, ServicesAssumption, OneTab!Starts, TwoTabs!Starts, Quiz!Starts
     DEF CurriculumsHold, ServicesAssumption

(* A step of the sum is one of Curriculum or does not touch it.            *)
LEMMA CurriculumsStep == CurriculumsHold /\ [Next]_vars => CurriculumsHold'
<1>1. [Next]_vars => about' = about
  BY DEF Next, vars
<1>2. [Next]_vars => /\ about = "one tab"  => [OneTab!Next]_(OneTab!vars)
                     /\ about = "two tabs" => [TwoTabs!Next]_(TwoTabs!vars)
                     /\ about = "a quiz"   => [Quiz!Next]_(Quiz!vars)
  BY DEF Next, vars, OneTab!vars, TwoTabs!vars, Quiz!vars
<1> QED
  BY <1>1, <1>2, ServicesAssumption, OneTab!StepKeeps, TwoTabs!StepKeeps, Quiz!StepKeeps
     DEF CurriculumsHold, ServicesAssumption

(* The invariant of Curriculum is one of the sum.                          *)
THEOREM CurriculumsInvariant == Spec => []CurriculumsHold
BY CurriculumsStart, CurriculumsStep, PTL DEF Spec

(* An item is shown in the chapter into which it was dropped.              *)
THEOREM DroppedChapterCorrect == Spec => []DroppedChapterShown
<1>1. CurriculumsHold => DroppedChapterShown
  BY ServicesAssumption, OneTab!ChaptersAreShown, TwoTabs!ChaptersAreShown,
     Quiz!ChaptersAreShown
     DEF CurriculumsHold, DroppedChapterShown, ServicesAssumption
<1> QED BY <1>1, CurriculumsInvariant, PTL

(* Chapters, contents and assessments are shown in the order in which they *)
(* were dropped, if the browser keeps it.                                  *)
THEOREM DroppedOrderCorrect == Spec => []DroppedOrderKept
<1>1. CurriculumsHold => DroppedOrderKept
  BY ServicesAssumption, OneTab!OrderIsShown, TwoTabs!OrderIsShown, Quiz!OrderIsShown
     DEF CurriculumsHold, DroppedOrderKept, ServicesAssumption
<1> QED BY <1>1, CurriculumsInvariant, PTL

(* A chapter that is shown empty can be deleted.                           *)
THEOREM EmptyCorrect == Spec => []EmptyIsDeletable
<1>1. CurriculumsHold => EmptyIsDeletable
  BY OneTab!EmptyIsEmpty, TwoTabs!EmptyIsEmpty, Quiz!EmptyIsEmpty
     DEF CurriculumsHold, EmptyIsDeletable
<1> QED BY <1>1, CurriculumsInvariant, PTL

-----------------------------------------------------------------------------
(* The page of the course.                                                 *)

PageHolds == about = "page" => Page!IInv

(* The invariant of CoursePage holds of the first state.                   *)
LEMMA PageStart == Init => PageHolds
<1>1. Init /\ about = "page" => Page!Init
  BY DEF Init
<1> QED BY <1>1, ServicesAssumption, Page!Starts DEF PageHolds, ServicesAssumption

(* A step of the sum is one of CoursePage or does not touch it.            *)
LEMMA PageStep == PageHolds /\ [Next]_vars => PageHolds'
<1>1. [Next]_vars => about' = about
  BY DEF Next, vars
<1>2. [Next]_vars /\ about = "page" => [Page!Next]_(Page!vars)
  BY DEF Next, vars, Page!vars
<1> QED BY <1>1, <1>2, ServicesAssumption, Page!StepKeeps DEF PageHolds, ServicesAssumption

(* The invariant of CoursePage is one of the sum.                          *)
THEOREM PageInvariant == Spec => []PageHolds
BY PageStart, PageStep, PTL DEF Spec

(* When the effects are over the announcements are as asked for last.      *)
THEOREM AnnouncementsCorrect == Spec => []AnnouncementsSettle
<1>1. PageHolds => AnnouncementsSettle
  BY Page!Settles DEF PageHolds, AnnouncementsSettle
<1> QED BY <1>1, PageInvariant, PTL

(* So are the questions, but for the list that was rendered at once.       *)
THEOREM QuestionsCorrect == Spec => []QuestionsSettle
<1>1. PageHolds => QuestionsSettle
  BY Page!Settles DEF PageHolds, QuestionsSettle
<1> QED BY <1>1, PageInvariant, PTL

-----------------------------------------------------------------------------
(* Texts: induction and recursion over them.                               *)

(* A set of numbers has a least one, as was proved for the curriculum.     *)
LEMMA Least ==
  ASSUME NEW T, T \subseteq Nat, T # {}
  PROVE  \E n \in T : \A m \in T : n <= m
BY OneTab!Least

(* The length of a text is a number, and only the empty text has none.     *)
LEMMA Lengths ==
  ASSUME NEW s \in Text
  PROVE  Len(s) \in Nat /\ (Len(s) = 0 <=> s = << >>)
BY DEF Text

(* Induction over texts: what is so of every text of which it follows from *)
(* the shorter ones is so of all.                                          *)
LEMMA TextInduction ==
  ASSUME NEW P,
         \A s \in Text : (\A t \in Text : Len(t) < Len(s) => t \in P) => s \in P
  PROVE  \A s \in Text : s \in P
<1> SUFFICES ASSUME NEW s \in Text, s \notin P
             PROVE  FALSE
  OBVIOUS
<1> DEFINE Counter == {n \in Nat : \E t \in Text : t \notin P /\ Len(t) = n}
<1>1. Len(s) \in Counter
  BY Lengths
<1>2. PICK n \in Counter : \A m \in Counter : n <= m
  BY <1>1, Least
<1>3. PICK t \in Text : t \notin P /\ Len(t) = n
  BY <1>2
<1>4. ASSUME NEW u \in Text, Len(u) < Len(t)
      PROVE  u \in P
  <2>1. u \notin P => Len(u) \in Counter
    BY Lengths
  <2> QED BY <2>1, <1>2, <1>3, <1>4, Lengths
<1> QED BY <1>3, <1>4

(* A recursion over texts, and a function with values in V that it defines: *)
(* e is made of the empty text, and of another one what join does with the  *)
(* value for the rest.                                                      *)
Descends(V, e, rest, join) ==
  /\ e \in V /\ rest \in [Text -> Text] /\ join \in [Text -> [V -> V]]
  /\ \A s \in Text : s # << >> => Len(rest[s]) < Len(s)

Computes(f, V, e, rest, join) ==
  /\ f \in [Text -> V] /\ f[<< >>] = e
  /\ \A s \in Text : s # << >> => f[s] = join[s][f[rest[s]]]

(* Every recursion over texts defines a function.                          *)
LEMMA TextRecursion ==
  ASSUME NEW V, NEW e, NEW rest, NEW join, Descends(V, e, rest, join)
  PROVE  \E f : Computes(f, V, e, rest, join)
<1> USE DEF Descends
<1> DEFINE
  At(g, s) == IF s = << >> THEN e ELSE join[s][g[rest[s]]]
  Good(g, n) == g \in [Text -> V] /\ \A s \in Text : Len(s) <= n => g[s] = At(g, s)
<1>1. ASSUME NEW g, NEW s \in Text, g \in [Text -> V]
      PROVE  At(g, s) \in V
  BY <1>1
<1>2. ASSUME NEW g, NEW h, NEW m \in Nat, NEW n \in Nat, Good(g, m), Good(h, n)
      PROVE  \A s \in Text : (Len(s) <= m /\ Len(s) <= n) => g[s] = h[s]
  <2> DEFINE P == {s \in Text : (Len(s) <= m /\ Len(s) <= n) => g[s] = h[s]}
  <2>1. ASSUME NEW s \in Text, \A t \in Text : Len(t) < Len(s) => t \in P
        PROVE  s \in P
    <3> SUFFICES ASSUME Len(s) <= m, Len(s) <= n
                 PROVE  g[s] = h[s]
      OBVIOUS
    <3>1. g[s] = At(g, s) /\ h[s] = At(h, s)
      BY <1>2
    <3>2. s # << >> => rest[s] \in P /\ Len(rest[s]) <= m /\ Len(rest[s]) <= n
      <4>1. rest[s] \in Text
        OBVIOUS
      <4>2. s # << >> => Len(rest[s]) < Len(s)
        OBVIOUS
      <4>3. Len(rest[s]) \in Nat /\ Len(s) \in Nat
        BY <4>1, Lengths
      <4> QED BY <4>1, <4>2, <4>3, <2>1
    <3>3. s # << >> => g[rest[s]] = h[rest[s]]
      BY <3>2
    <3> QED BY <3>1, <3>3
  <2> HIDE DEF P
  <2>2. \A s \in Text : (\A t \in Text : Len(t) < Len(s) => t \in P) => s \in P
    BY <2>1
  <2>3. \A s \in Text : s \in P
    BY <2>2, TextInduction, Zenon
  <2> QED BY <2>3 DEF P
<1> DEFINE Missing == {n \in Nat : ~(\E g : Good(g, n))}
<1>3. \A n \in Nat : \E g : Good(g, n)
  <2> SUFFICES ASSUME Missing # {}
               PROVE  FALSE
    <3> HIDE DEF Good
    <3> QED OBVIOUS
  <2>1. PICK n \in Missing : \A m \in Missing : n <= m
    BY Least
  <2>2. n \in Nat /\ ~(\E g : Good(g, n))
    BY <2>1
  <2>3. CASE n = 0
    <3>1. [s \in Text |-> e] \in [Text -> V]
      OBVIOUS
    <3>2. \A s \in Text : Len(s) <= 0 => s = << >>
      BY Lengths
    <3>3. Good([s \in Text |-> e], 0)
      BY <3>1, <3>2
    <3> QED BY <2>2, <2>3, <3>3
  <2>4. CASE n # 0
    <3>1. n - 1 \in Nat /\ n - 1 \notin Missing
      <4>1. n - 1 \in Nat /\ ~(n <= n - 1)
        BY <2>2, <2>4
      <4> QED BY <4>1, <2>1
    <3>2. PICK g : Good(g, n - 1)
      BY <3>1
    <3> DEFINE h == [s \in Text |-> At(g, s)]
    <3>3. h \in [Text -> V]
      BY <1>1, <3>2
    <3>4. ASSUME NEW s \in Text, Len(s) <= n
          PROVE  h[s] = At(h, s)
      <4>1. h[s] = At(g, s)
        OBVIOUS
      <4>2. s # << >> => h[rest[s]] = g[rest[s]]
        <5>1. rest[s] \in Text
          OBVIOUS
        <5>2. s # << >> => Len(rest[s]) <= n - 1
          BY <5>1, <3>4, <2>2, Lengths
        <5>3. s # << >> => g[rest[s]] = At(g, rest[s])
          BY <5>1, <5>2, <3>2
        <5> QED BY <5>1, <5>3
      <4> QED BY <4>1, <4>2
    <3>5. Good(h, n)
      BY <3>3, <3>4
    <3> QED BY <3>5, <2>2
  <2> QED BY <2>3, <2>4
<1> DEFINE
  G == [n \in Nat |-> CHOOSE g : Good(g, n)]
  f == [s \in Text |-> G[Len(s)][s]]
<1>4. ASSUME NEW n \in Nat
      PROVE  Good(G[n], n)
  <2>1. \E g : Good(g, n)
    BY <1>3
  <2> HIDE DEF Good
  <2> QED BY <2>1, Zenon
<1>5. ASSUME NEW s \in Text
      PROVE  f[s] \in V /\ f[s] = At(f, s)
  <2>1. Len(s) \in Nat /\ rest[s] \in Text /\ Len(rest[s]) \in Nat
    BY Lengths
  <2>2. Good(G[Len(s)], Len(s)) /\ Good(G[Len(rest[s])], Len(rest[s]))
    BY <2>1, <1>4
  <2>3. f[s] = G[Len(s)][s] /\ f[rest[s]] = G[Len(rest[s])][rest[s]]
    BY <2>1
  <2> HIDE DEF G, f
  <2>4. f[s] \in V /\ f[s] = At(G[Len(s)], s)
    BY <2>1, <2>2, <2>3
  <2>5. s # << >> => G[Len(s)][rest[s]] = G[Len(rest[s])][rest[s]]
    <3>1. s # << >> => Len(rest[s]) <= Len(s)
      BY <2>1
    <3>2. \A t \in Text : (Len(t) <= Len(s) /\ Len(t) <= Len(rest[s])) =>
                             G[Len(s)][t] = G[Len(rest[s])][t]
      <4> HIDE DEF Good
      <4> QED BY <2>1, <2>2, <1>2
    <3> QED BY <3>1, <3>2, <2>1
  <2> QED BY <2>3, <2>4, <2>5
<1>6. f \in [Text -> V]
  BY <1>5
<1> HIDE DEF f
<1>7. << >> \in Text
  BY DEF Text
<1>8. Computes(f, V, e, rest, join)
  BY <1>5, <1>6, <1>7 DEF Computes
<1> QED BY <1>8

-----------------------------------------------------------------------------
(* Texts: what the expression finds in one.                                *)

(* The characters that the texts of a blank are made of.                   *)
LEMMA Underscore == "_" \in Characters /\ " " \in Characters /\ "blank" \in Characters
BY BlankTextAssumption

(* What a match of the expression says of a text.                          *)
LEMMA MatchParts ==
  ASSUME NEW s, NEW j, Match(s, j)
  PROVE  /\ 5 <= j /\ j <= Len(s)
         /\ s[1] = "_" /\ s[2] = "_" /\ s[j - 1] = "_" /\ s[j] = "_"
         /\ \A k \in 3 .. j - 2 : s[k] \notin {"_", " "}
BY Zenon DEF Match

(* The end of a blank is the first place where it can end.                 *)
LEMMA OneEnd ==
  ASSUME NEW s \in Text, NEW j \in Int, NEW k \in Int, Match(s, j), Match(s, k)
  PROVE  j = k
<1>1. ASSUME NEW m \in Int, NEW n \in Int, Match(s, m), Match(s, n), m < n
      PROVE  FALSE
  <2>1. s[m - 1] = "_" /\ 5 <= m
    BY <1>1, MatchParts
  <2>2. m - 1 \in 3 .. n - 2
    <3>1. 5 <= m /\ m < n
      BY <1>1, <2>1
    <3> QED BY <3>1
  <2>3. s[m - 1] \notin {"_", " "}
    BY <1>1, <2>2, MatchParts
  <2> QED BY <2>1, <2>3
<1>2. j < k \/ k < j \/ j = k
  OBVIOUS
<1> QED BY <1>1, <1>2

(* Where a blank begins, it ends: BlankEnd.                                *)
LEMMA EndOfBlank ==
  ASSUME NEW s \in Text, Blank(s)
  PROVE  BlankEnd(s) \in 5 .. Len(s) /\ Match(s, BlankEnd(s))
<1>1. BlankEnd(s) \in 1 .. Len(s) /\ Match(s, BlankEnd(s))
  BY Zenon DEF Blank, BlankEnd
<1>2. 5 <= BlankEnd(s) /\ BlankEnd(s) <= Len(s)
  BY <1>1, MatchParts
<1>3. Len(s) \in Nat
  BY Lengths
<1> QED BY <1>1, <1>2, <1>3

(* What follows a place of a text is a text, in which the characters come  *)
(* after one another as they did.                                          *)
LEMMA Suffix ==
  ASSUME NEW s \in Text, NEW j \in 0 .. Len(s)
  PROVE  /\ SubSeq(s, j + 1, Len(s)) \in Text
         /\ Len(SubSeq(s, j + 1, Len(s))) = Len(s) - j
         /\ \A i \in 1 .. Len(s) - j : SubSeq(s, j + 1, Len(s))[i] = s[j + i]
<1>1. Len(s) \in Nat
  BY Lengths
<1>2. \A i \in j + 1 .. Len(s) : s[i] \in Characters
  BY <1>1 DEF Text
<1>3. j + 1 \in Int /\ Len(s) \in Int
  BY <1>1
<1>4. /\ SubSeq(s, j + 1, Len(s)) \in Seq(Characters)
      /\ Len(SubSeq(s, j + 1, Len(s))) =
           IF j + 1 <= Len(s) THEN Len(s) - (j + 1) + 1 ELSE 0
      /\ \A i \in 1 .. Len(s) - (j + 1) + 1 :
           SubSeq(s, j + 1, Len(s))[i] = s[(j + 1) + i - 1]
  BY <1>2, <1>3, SubSeqProperties
<1>5. Len(s) - (j + 1) + 1 = Len(s) - j
  BY <1>1
<1>6. \A i \in 1 .. Len(s) - j : (j + 1) + i - 1 = j + i
  BY <1>1
<1>7. Len(SubSeq(s, j + 1, Len(s))) = Len(s) - j
  BY <1>1, <1>4
<1>8. \A i \in 1 .. Len(s) - j : SubSeq(s, j + 1, Len(s))[i] = s[j + i]
  BY <1>4, <1>5, <1>6, Zenon
<1> QED BY <1>4, <1>7, <1>8 DEF Text

(* A text that begins with a blank: the word in it and what follows it.    *)
LEMMA BlankParts ==
  ASSUME NEW s \in Text, Blank(s)
  PROVE  /\ Inside(s) \in Text /\ After(s) \in Text
         /\ Len(Inside(s)) > 0 /\ Len(s) = Len(Inside(s)) + 4 + Len(After(s))
         /\ s[1] = "_" /\ s[2] = "_"
         /\ \A i \in 1 .. Len(Inside(s)) :
              s[i + 2] = Inside(s)[i] /\ Inside(s)[i] \notin {"_", " "}
         /\ s[Len(Inside(s)) + 3] = "_" /\ s[Len(Inside(s)) + 4] = "_"
         /\ \A i \in 1 .. Len(After(s)) : s[Len(Inside(s)) + 4 + i] = After(s)[i]
<1> DEFINE j == BlankEnd(s)
<1>1. Len(s) \in Nat /\ j \in 5 .. Len(s) /\ Match(s, j)
  BY Lengths, EndOfBlank
<1> HIDE DEF j
<1>2. /\ After(s) \in Text /\ Len(After(s)) = Len(s) - j
      /\ \A i \in 1 .. Len(s) - j : After(s)[i] = s[j + i]
  <2>1. j \in 0 .. Len(s) /\ After(s) = SubSeq(s, j + 1, Len(s))
    BY <1>1 DEF After, j
  <2> QED BY <2>1, Suffix
<1>3. \A i \in 3 .. j - 2 : s[i] \in Characters
  BY <1>1 DEF Text
<1>4. /\ Inside(s) \in Seq(Characters)
      /\ Len(Inside(s)) = IF 3 <= j - 2 THEN (j - 2) - 3 + 1 ELSE 0
      /\ \A i \in 1 .. (j - 2) - 3 + 1 : Inside(s)[i] = s[3 + i - 1]
  <2>1. 3 \in Int /\ j - 2 \in Int
    BY <1>1
  <2> QED BY <1>3, <2>1, SubSeqProperties DEF Inside, j
<1>5. Len(Inside(s)) = j - 4 /\ \A i \in 1 .. j - 4 : Inside(s)[i] = s[i + 2]
  <2>1. (j - 2) - 3 + 1 = j - 4 /\ 3 <= j - 2
    BY <1>1
  <2>2. \A i \in 1 .. j - 4 : 3 + i - 1 = i + 2
    BY <1>1
  <2> QED BY <1>4, <2>1, <2>2
<1>6. /\ s[1] = "_" /\ s[2] = "_" /\ s[j - 1] = "_" /\ s[j] = "_"
      /\ \A i \in 3 .. j - 2 : s[i] \notin {"_", " "}
  BY <1>1, MatchParts
<1>7. \A i \in 1 .. j - 4 : i + 2 \in 3 .. j - 2
  BY <1>1
<1>8. /\ Len(s) = (j - 4) + 4 + (Len(s) - j) /\ j - 4 > 0
      /\ j - 4 + 3 = j - 1 /\ j - 4 + 4 = j
  BY <1>1
<1> QED BY <1>2, <1>4, <1>5, <1>6, <1>7, <1>8 DEF Text

(* A text that begins with a character.                                    *)
LEMMA HeadAndTail ==
  ASSUME NEW s \in Text, s # << >>
  PROVE  /\ Head(s) \in Characters /\ Tail(s) \in Text
         /\ Len(s) = Len(Tail(s)) + 1 /\ s[1] = Head(s)
         /\ \A i \in 1 .. Len(Tail(s)) : s[i + 1] = Tail(s)[i]
BY HeadTailProperties, Lengths DEF Text

(* Every text is made of shorter ones.                                     *)
LEMMA RestIsShorter ==
  ASSUME NEW s \in Text, s # << >>
  PROVE  /\ Tail(s) \in Text /\ Len(Tail(s)) < Len(s)
         /\ Blank(s) => After(s) \in Text /\ Len(After(s)) < Len(s)
<1>1. Tail(s) \in Text /\ Len(s) = Len(Tail(s)) + 1
  BY HeadAndTail
<1>2. ASSUME Blank(s)
      PROVE  After(s) \in Text /\ Len(After(s)) < Len(s)
  <2>1. /\ After(s) \in Text /\ Inside(s) \in Text
        /\ Len(s) = Len(Inside(s)) + 4 + Len(After(s))
    BY <1>2, BlankParts
  <2>2. Len(After(s)) \in Nat /\ Len(Inside(s)) \in Nat
    BY <2>1, Lengths
  <2> QED BY <2>1, <2>2
<1>3. Len(Tail(s)) < Len(s)
  BY <1>1, Lengths
<1> QED BY <1>1, <1>2, <1>3

(* What an expression leaves to look at, after a blank or a character.     *)
Rest(s) == IF Blank(s) THEN After(s) ELSE Tail(s)

(* The recursions of Words and of Refilled, as properties of a function.   *)
FindsWords(f) ==
  f = [t \in Text |->
         IF t = << >> THEN << >>
         ELSE IF Blank(t) THEN <<Inside(t)>> \o f[After(t)]
         ELSE f[Tail(t)]]

PutsWords(f) ==
  f = [t \in Text |->
        [left \in Seq(Text) |->
           IF t = << >> THEN << >>
           ELSE IF ~Blank(t) THEN <<Head(t)>> \o f[Tail(t)][left]
           ELSE IF left = << >> THEN InBlank(<<"blank">>) \o f[After(t)][left]
           ELSE InBlank(Head(left)) \o f[After(t)][Tail(left)]]]

(* One text after another.                                                 *)
LEMMA Concatenated ==
  ASSUME NEW a \in Text, NEW r \in Text
  PROVE  /\ a \o r \in Text /\ Len(a \o r) = Len(a) + Len(r)
         /\ \A i \in 1 .. Len(a) : (a \o r)[i] = a[i]
         /\ \A i \in 1 .. Len(r) : (a \o r)[Len(a) + i] = r[i]
<1>1. a \in Seq(Characters) /\ r \in Seq(Characters) /\ Len(a) \in Nat /\ Len(r) \in Nat
  BY Lengths DEF Text
<1>2. /\ a \o r \in Seq(Characters) /\ Len(a \o r) = Len(a) + Len(r)
      /\ \A i \in 1 .. Len(a) + Len(r) :
           (a \o r)[i] = IF i <= Len(a) THEN a[i] ELSE r[i - Len(a)]
  BY <1>1, ConcatProperties
<1>3. \A i \in 1 .. Len(a) : i \in 1 .. Len(a) + Len(r) /\ i <= Len(a)
  BY <1>1
<1>4. \A i \in 1 .. Len(r) :
        /\ Len(a) + i \in 1 .. Len(a) + Len(r) /\ ~(Len(a) + i <= Len(a))
        /\ Len(a) + i - Len(a) = i
  BY <1>1
<1>5. \A i \in 1 .. Len(a) : (a \o r)[i] = a[i]
  BY <1>2, <1>3, Zenon
<1>6. ASSUME NEW i \in 1 .. Len(r)
      PROVE  (a \o r)[Len(a) + i] = r[i]
  <2> DEFINE k == Len(a) + i
  <2>1. k \in 1 .. Len(a) + Len(r) /\ ~(k <= Len(a)) /\ k - Len(a) = i
    BY <1>1
  <2> HIDE DEF k
  <2>2. (a \o r)[k] = r[k - Len(a)]
    BY <1>2, <2>1
  <2> QED BY <2>1, <2>2 DEF k
<1> QED BY <1>2, <1>5, <1>6 DEF Text

(* Two characters are a text.                                              *)
LEMMA TwoCharacters ==
  ASSUME NEW c \in Characters, NEW d \in Characters
  PROVE  /\ <<c, d>> \in Text /\ Len(<<c, d>>) = 2
         /\ <<c, d>>[1] = c /\ <<c, d>>[2] = d
BY DEF Text

(* A word between underscores, and what follows it.                        *)
LEMMA InBlankParts ==
  ASSUME NEW w \in Text, NEW r \in Text
  PROVE  /\ InBlank(w) \o r \in Text
         /\ Len(InBlank(w) \o r) = Len(w) + 4 + Len(r)
         /\ (InBlank(w) \o r)[1] = "_" /\ (InBlank(w) \o r)[2] = "_"
         /\ \A i \in 1 .. Len(w) : (InBlank(w) \o r)[i + 2] = w[i]
         /\ (InBlank(w) \o r)[Len(w) + 3] = "_" /\ (InBlank(w) \o r)[Len(w) + 4] = "_"
         /\ \A i \in 1 .. Len(r) : (InBlank(w) \o r)[Len(w) + 4 + i] = r[i]
<1> DEFINE a == <<"_", "_">>
           b == a \o w
           c == b \o a
           d == c \o r
<1>1. a \in Text /\ Len(a) = 2
  BY Underscore, TwoCharacters, Zenon
<1>2. a[1] = "_" /\ a[2] = "_"
  BY Underscore, TwoCharacters, Zenon
<1>3. InBlank(w) \o r = d
  BY Zenon DEF InBlank
<1> HIDE DEF a
<1>4. b \in Text /\ Len(b) = Len(a) + Len(w)
  BY <1>1, Concatenated
<1>5. /\ \A i \in 1 .. Len(a) : b[i] = a[i]
      /\ \A i \in 1 .. Len(w) : b[Len(a) + i] = w[i]
  BY <1>1, Concatenated
<1> HIDE DEF b
<1>6. c \in Text /\ Len(c) = Len(b) + Len(a)
  BY <1>1, <1>4, Concatenated
<1>7. /\ \A i \in 1 .. Len(b) : c[i] = b[i]
      /\ \A i \in 1 .. Len(a) : c[Len(b) + i] = a[i]
  BY <1>1, <1>4, Concatenated
<1> HIDE DEF c
<1>8. d \in Text /\ Len(d) = Len(c) + Len(r)
  BY <1>6, Concatenated
<1>9. /\ \A i \in 1 .. Len(c) : d[i] = c[i]
      /\ \A i \in 1 .. Len(r) : d[Len(c) + i] = r[i]
  BY <1>6, Concatenated
<1> HIDE DEF d
<1>10. Len(w) \in Nat /\ Len(r) \in Nat
  BY Lengths
<1>11. Len(b) = Len(w) + 2 /\ Len(c) = Len(w) + 4 /\ Len(d) = Len(w) + 4 + Len(r)
  BY <1>1, <1>4, <1>6, <1>8, <1>10
<1>12. d[1] = "_" /\ d[2] = "_"
  <2>1. /\ 1 \in 1 .. Len(a) /\ 1 \in 1 .. Len(b) /\ 1 \in 1 .. Len(c)
        /\ 2 \in 1 .. Len(a) /\ 2 \in 1 .. Len(b) /\ 2 \in 1 .. Len(c)
    BY <1>1, <1>10, <1>11
  <2> QED BY <2>1, <1>2, <1>5, <1>7, <1>9, Zenon
<1>13. ASSUME NEW i \in 1 .. Len(w)
       PROVE  d[i + 2] = w[i]
  <2>1. Len(a) + i \in 1 .. Len(b) /\ Len(a) + i \in 1 .. Len(c)
    BY <1>1, <1>10, <1>11
  <2>2. i + 2 = Len(a) + i
    BY <1>1
  <2>3. d[Len(a) + i] = w[i]
    BY <2>1, <1>5, <1>7, <1>9, Zenon
  <2> QED BY <2>2, <2>3, Zenon
<1>14. d[Len(w) + 3] = "_" /\ d[Len(w) + 4] = "_"
  <2>1. /\ 1 \in 1 .. Len(a) /\ Len(b) + 1 \in 1 .. Len(c)
        /\ 2 \in 1 .. Len(a) /\ Len(b) + 2 \in 1 .. Len(c)
    BY <1>1, <1>10, <1>11
  <2>2. Len(w) + 3 = Len(b) + 1 /\ Len(w) + 4 = Len(b) + 2
    BY <1>10, <1>11
  <2>3. d[Len(b) + 1] = a[1] /\ d[Len(b) + 2] = a[2]
    BY <2>1, <1>7, <1>9, Zenon
  <2> QED BY <2>2, <2>3, <1>2, Zenon
<1>15. \A i \in 1 .. Len(r) : d[Len(w) + 4 + i] = r[i]
  BY <1>9, <1>11, Zenon
<1> QED BY <1>3, <1>8, <1>11, <1>12, <1>13, <1>14, <1>15, Zenon

(* A character, and what follows it.                                       *)
LEMMA Prefixed ==
  ASSUME NEW c \in Characters, NEW r \in Text
  PROVE  /\ <<c>> \o r \in Text /\ Len(<<c>> \o r) = Len(r) + 1
         /\ (<<c>> \o r)[1] = c
         /\ \A i \in 1 .. Len(r) : (<<c>> \o r)[i + 1] = r[i]
<1>1. <<c>> \in Seq(Characters) /\ Len(<<c>>) = 1 /\ <<c>>[1] = c
  OBVIOUS
<1>2. r \in Seq(Characters) /\ Len(r) \in Nat
  BY Lengths DEF Text
<1> QED BY <1>1, <1>2, ConcatProperties DEF Text

(* What is left of a text is a shorter text.                               *)
LEMMA RestType ==
  /\ [t \in Text |-> IF t = << >> THEN t ELSE Rest(t)] \in [Text -> Text]
  /\ \A s \in Text :
       s # << >> => Len([t \in Text |-> IF t = << >> THEN t ELSE Rest(t)][s]) < Len(s)
<1> DEFINE rest == [t \in Text |-> IF t = << >> THEN t ELSE Rest(t)]
<1>1. ASSUME NEW t \in Text
      PROVE  rest[t] \in Text /\ (t # << >> => Len(rest[t]) < Len(t))
  <2>1. CASE t = << >>
    BY <2>1
  <2>2. CASE t # << >>
    <3>1. rest[t] = Rest(t)
      BY <2>2
    <3>2. Tail(t) \in Text /\ Len(Tail(t)) < Len(t)
      BY <2>2, RestIsShorter
    <3>3. Blank(t) => After(t) \in Text /\ Len(After(t)) < Len(t)
      BY <2>2, RestIsShorter, Zenon
    <3>4. Rest(t) \in Text /\ Len(Rest(t)) < Len(t)
      BY <3>2, <3>3, Zenon DEF Rest
    <3> QED BY <3>1, <3>4
  <2> QED BY <2>1, <2>2
<1> QED BY <1>1

(* There is such a function as Words is defined by.                        *)
LEMMA WordsExist == \E f : FindsWords(f)
<1> DEFINE
  rest == [t \in Text |-> IF t = << >> THEN t ELSE Rest(t)]
  join == [t \in Text |->
             [v \in Seq(Text) |-> IF Blank(t) THEN <<Inside(t)>> \o v ELSE v]]
<1>1. /\ rest \in [Text -> Text]
      /\ \A t \in Text : t # << >> => Len(rest[t]) < Len(t)
  BY RestType, Zenon
<1>2. ASSUME NEW t \in Text, NEW v \in Seq(Text)
      PROVE  (IF Blank(t) THEN <<Inside(t)>> \o v ELSE v) \in Seq(Text)
  <2>1. CASE Blank(t)
    <3>1. Inside(t) \in Text
      BY <2>1, BlankParts
    <3>2. <<Inside(t)>> \in Seq(Text)
      BY <3>1
    <3>3. <<Inside(t)>> \o v \in Seq(Text)
      BY <3>2, ConcatProperties
    <3> QED BY <2>1, <3>3
  <2>2. CASE ~Blank(t)
    BY <2>2
  <2> QED BY <2>1, <2>2
<1>3. rest \in [Text -> Text] /\ join \in [Text -> [Seq(Text) -> Seq(Text)]]
  <2>1. rest \in [Text -> Text]
    BY <1>1, Zenon
  <2>2. \A t \in Text : [v \in Seq(Text) |-> IF Blank(t) THEN <<Inside(t)>> \o v ELSE v]
                          \in [Seq(Text) -> Seq(Text)]
    BY <1>2
  <2> QED BY <2>1, <2>2
<1>4. << >> \in Seq(Text)
  OBVIOUS
<1>5. \A t \in Text : t # << >> => Len(rest[t]) < Len(t)
  BY <1>1, Zenon
<1>6. PICK f : Computes(f, Seq(Text), << >>, rest, join)
  <2> HIDE DEF rest, join
  <2>1. Descends(Seq(Text), << >>, rest, join)
    BY <1>3, <1>4, <1>5 DEF Descends
  <2> QED BY <2>1, TextRecursion
<1>7. ASSUME NEW t \in Text
      PROVE  f[t] = IF t = << >> THEN << >>
                    ELSE IF Blank(t) THEN <<Inside(t)>> \o f[After(t)]
                    ELSE f[Tail(t)]
  <2>1. f[rest[t]] \in Seq(Text)
    BY <1>1, <1>6 DEF Computes
  <2>2. join[t][f[rest[t]]] =
          IF Blank(t) THEN <<Inside(t)>> \o f[rest[t]] ELSE f[rest[t]]
    <3> HIDE DEF rest
    <3> QED BY <2>1
  <2>3. t # << >> => rest[t] = IF Blank(t) THEN After(t) ELSE Tail(t)
    BY DEF Rest
  <2> HIDE DEF rest, join
  <2> QED BY <1>6, <2>2, <2>3 DEF Computes
<1>8. f = [t \in Text |-> f[t]]
  BY <1>6 DEF Computes
<1>9. FindsWords(f)
  BY <1>7, <1>8 DEF FindsWords
<1> QED BY <1>9

(* The words of a text are those of what it begins with and of its rest.   *)
LEMMA WordsEquation ==
  \A s \in Text :
    Words(s) = IF s = << >> THEN << >>
               ELSE IF Blank(s) THEN <<Inside(s)>> \o Words(After(s))
               ELSE Words(Tail(s))
<1> DEFINE F == CHOOSE f : FindsWords(f)
<1>1. FindsWords(F)
  BY WordsExist, Zenon
<1>2. \A s : F[s] = Words(s)
  BY Zenon DEF Words, FindsWords
<1> HIDE DEF F
<1>3. \A s \in Text : F[s] = IF s = << >> THEN << >>
                             ELSE IF Blank(s) THEN <<Inside(s)>> \o F[After(s)]
                             ELSE F[Tail(s)]
  BY <1>1 DEF FindsWords
<1> QED BY <1>2, <1>3, Zenon

(* They are texts.                                                         *)
LEMMA WordsType == \A s \in Text : Words(s) \in Seq(Text)
<1> DEFINE P == {s \in Text : Words(s) \in Seq(Text)}
<1>1. ASSUME NEW s \in Text, \A t \in Text : Len(t) < Len(s) => t \in P
      PROVE  Words(s) \in Seq(Text)
  <2>1. CASE s = << >>
    <3>1. Words(s) = << >>
      BY <2>1, WordsEquation
    <3> QED BY <3>1
  <2>2. CASE s # << >> /\ Blank(s)
    <3>1. Words(s) = <<Inside(s)>> \o Words(After(s))
      BY <2>2, WordsEquation, Zenon
    <3>2. Words(After(s)) \in Seq(Text)
      BY <1>1, <2>2, RestIsShorter
    <3>3. <<Inside(s)>> \in Seq(Text)
      <4>1. Inside(s) \in Text
        BY <2>2, BlankParts
      <4> QED BY <4>1
    <3> QED BY <3>1, <3>2, <3>3, ConcatProperties
  <2>3. CASE s # << >> /\ ~Blank(s)
    <3>1. Words(s) = Words(Tail(s))
      BY <2>3, WordsEquation, Zenon
    <3> QED BY <3>1, <1>1, <2>3, RestIsShorter
  <2> QED BY <2>1, <2>2, <2>3
<1>2. \A s \in Text : (\A t \in Text : Len(t) < Len(s) => t \in P) => s \in P
  BY <1>1
<1> HIDE DEF P
<1>3. \A s \in Text : s \in P
  BY <1>2, TextInduction, Zenon
<1> QED BY <1>3 DEF P

-----------------------------------------------------------------------------
(* Texts: what they are after other words were put in.                     *)

(* The word for the next blank, and those for the blanks after it.         *)
NextWord(left)   == IF left = << >> THEN <<"blank">> ELSE Head(left)
Others(left) == IF left = << >> THEN left ELSE Tail(left)

(* The word "blank" is a text.                                             *)
LEMMA Placeholder ==
  <<"blank">> \in Text /\ Len(<<"blank">>) = 1 /\ <<"blank">>[1] = "blank"
<1>1. \A c \in Characters : <<c>> \in Text /\ Len(<<c>>) = 1 /\ <<c>>[1] = c
  BY DEF Text
<1> QED BY <1>1, Underscore, Zenon

(* They are words again.                                                   *)
LEMMA WordsLeft ==
  ASSUME NEW left \in Seq(Text)
  PROVE  NextWord(left) \in Text /\ Others(left) \in Seq(Text)
<1>1. CASE left = << >>
  <2>1. NextWord(left) = <<"blank">> /\ Others(left) = left
    BY <1>1 DEF NextWord, Others
  <2> QED BY <2>1, Placeholder
<1>2. CASE left # << >>
  <2>1. NextWord(left) = Head(left) /\ Others(left) = Tail(left)
    BY <1>2 DEF NextWord, Others
  <2> QED BY <2>1, <1>2, HeadTailProperties
<1> QED BY <1>1, <1>2

(* There is such a function as Refilled is defined by.                     *)
LEMMA RefilledExist == \E f : f \in [Text -> [Seq(Text) -> Text]] /\ PutsWords(f)
<1> DEFINE
  V == [Seq(Text) -> Text]
  rest == [t \in Text |-> IF t = << >> THEN t ELSE Rest(t)]
  put(t, v, left) ==
    IF Blank(t) THEN InBlank(NextWord(left)) \o v[Others(left)] ELSE <<Head(t)>> \o v[left]
  join == [t \in Text |-> [v \in V |-> [left \in Seq(Text) |->
             IF t = << >> THEN << >> ELSE put(t, v, left)]]]
  none == [left \in Seq(Text) |-> << >>]
<1>1. << >> \in Text
  BY DEF Text
<1>2. ASSUME NEW t \in Text, NEW v \in V, NEW left \in Seq(Text), t # << >>
      PROVE  put(t, v, left) \in Text
  <2>1. NextWord(left) \in Text /\ Others(left) \in Seq(Text)
    BY WordsLeft
  <2>2. v[left] \in Text /\ v[Others(left)] \in Text
    BY <2>1
  <2>3. InBlank(NextWord(left)) \o v[Others(left)] \in Text
    BY <2>1, <2>2, InBlankParts
  <2>4. Head(t) \in Characters
    BY <1>2, HeadAndTail
  <2>5. <<Head(t)>> \o v[left] \in Text
    BY <2>2, <2>4, Prefixed
  <2> QED BY <2>3, <2>5
<1>3. rest \in [Text -> Text] /\ \A t \in Text : t # << >> => Len(rest[t]) < Len(t)
  BY RestType
<1>4. join \in [Text -> [V -> V]]
  <2> HIDE DEF put
  <2>1. \A t \in Text, v \in V, left \in Seq(Text) :
          (IF t = << >> THEN << >> ELSE put(t, v, left)) \in Text
    BY <1>1, <1>2
  <2>2. \A t \in Text : \A v \in V :
          [left \in Seq(Text) |-> IF t = << >> THEN << >> ELSE put(t, v, left)] \in V
    BY <2>1
  <2> HIDE DEF V
  <2>3. \A t \in Text :
          [v \in V |-> [left \in Seq(Text) |-> IF t = << >> THEN << >> ELSE put(t, v, left)]]
             \in [V -> V]
    BY <2>2
  <2> QED BY <2>3
<1>5. none \in V
  BY <1>1
<1>6. PICK f : Computes(f, V, none, rest, join)
  <2> HIDE DEF V, none, rest, join
  <2>1. Descends(V, none, rest, join)
    BY <1>3, <1>4, <1>5 DEF Descends
  <2> QED BY <2>1, TextRecursion
<1>7. f \in [Text -> V]
  BY <1>6 DEF Computes
<1>8. ASSUME NEW t \in Text, NEW left \in Seq(Text), t # << >>
      PROVE  f[t][left] = put(t, f[Rest(t)], left)
  <2>1. rest[t] = Rest(t) /\ rest[t] \in Text
    BY <1>3, <1>8
  <2> HIDE DEF put, rest
  <2>2. f[t] = join[t][f[Rest(t)]] /\ f[Rest(t)] \in V
    BY <1>6, <1>7, <1>8, <2>1 DEF Computes
  <2> HIDE DEF V
  <2>3. join[t][f[Rest(t)]] = [l \in Seq(Text) |->
                                 IF t = << >> THEN << >> ELSE put(t, f[Rest(t)], l)]
    BY <2>2
  <2>4. [l \in Seq(Text) |-> IF t = << >> THEN << >> ELSE put(t, f[Rest(t)], l)][left]
           = put(t, f[Rest(t)], left)
    BY <1>8
  <2> QED BY <2>2, <2>3, <2>4
<1>9. \A left \in Seq(Text) : f[<< >>][left] = << >>
  <2>1. f[<< >>] = none
    BY <1>6 DEF Computes
  <2> QED BY <2>1
<1>10. ASSUME NEW t \in Text, NEW left \in Seq(Text)
       PROVE  f[t][left] = IF t = << >> THEN << >>
                           ELSE IF ~Blank(t) THEN <<Head(t)>> \o f[Tail(t)][left]
                           ELSE IF left = << >> THEN InBlank(<<"blank">>) \o f[After(t)][left]
                           ELSE InBlank(Head(left)) \o f[After(t)][Tail(left)]
  <2>1. CASE t = << >>
    BY <2>1, <1>9
  <2>2. CASE t # << >> /\ ~Blank(t)
    BY <2>2, <1>8, Zenon DEF Rest
  <2>3. CASE t # << >> /\ Blank(t)
    BY <2>3, <1>8, Zenon DEF Rest, NextWord, Others
  <2> QED BY <2>1, <2>2, <2>3
<1>11. f = [t \in Text |-> [left \in Seq(Text) |-> f[t][left]]]
  <2>1. \A t \in Text : f[t] = [left \in Seq(Text) |-> f[t][left]]
    BY <1>7
  <2>2. f = [t \in Text |-> f[t]]
    BY <1>7
  <2> QED BY <2>1, <2>2
<1>12. PutsWords(f)
  <2>1. \A t \in Text : [left \in Seq(Text) |-> f[t][left]] =
          [left \in Seq(Text) |->
           IF t = << >> THEN << >>
           ELSE IF ~Blank(t) THEN <<Head(t)>> \o f[Tail(t)][left]
           ELSE IF left = << >> THEN InBlank(<<"blank">>) \o f[After(t)][left]
           ELSE InBlank(Head(left)) \o f[After(t)][Tail(left)]]
    BY <1>10
  <2> QED BY <1>11, <2>1, Zenon DEF PutsWords
<1> QED BY <1>7, <1>12

(* What Refilled makes of a text, of what it begins with and of its rest.  *)
LEMMA RefilledEquation ==
  ASSUME NEW s \in Text, NEW left \in Seq(Text)
  PROVE  Refilled(s, left) =
           IF s = << >> THEN << >>
           ELSE IF ~Blank(s) THEN <<Head(s)>> \o Refilled(Tail(s), left)
           ELSE IF left = << >> THEN InBlank(<<"blank">>) \o Refilled(After(s), left)
           ELSE InBlank(Head(left)) \o Refilled(After(s), Tail(left))
<1> DEFINE F == CHOOSE f : PutsWords(f)
<1>1. PutsWords(F)
  BY RefilledExist, Zenon
<1>2. \A t, l : F[t][l] = Refilled(t, l)
  BY Zenon DEF Refilled, PutsWords
<1> HIDE DEF F
<1>3. F[s] = [l \in Seq(Text) |->
           IF s = << >> THEN << >>
           ELSE IF ~Blank(s) THEN <<Head(s)>> \o F[Tail(s)][l]
           ELSE IF l = << >> THEN InBlank(<<"blank">>) \o F[After(s)][l]
           ELSE InBlank(Head(l)) \o F[After(s)][Tail(l)]]
  BY <1>1, Zenon DEF PutsWords
<1>4. F[s][left] =
           IF s = << >> THEN << >>
           ELSE IF ~Blank(s) THEN <<Head(s)>> \o F[Tail(s)][left]
           ELSE IF left = << >> THEN InBlank(<<"blank">>) \o F[After(s)][left]
           ELSE InBlank(Head(left)) \o F[After(s)][Tail(left)]
  BY <1>3
<1> QED BY <1>2, <1>4, Zenon

(* The same, one case at a time.                                           *)
LEMMA RefilledEmpty ==
  ASSUME NEW left \in Seq(Text)
  PROVE  Refilled(<< >>, left) = << >>
<1>1. << >> \in Text
  BY DEF Text
<1> QED BY <1>1, RefilledEquation, Zenon

(* A character stays where it is.                                          *)
LEMMA RefilledCharacter ==
  ASSUME NEW s \in Text, NEW left \in Seq(Text), s # << >>, ~Blank(s)
  PROVE  Refilled(s, left) = <<Head(s)>> \o Refilled(Tail(s), left)
BY RefilledEquation, Zenon

(* No blank begins where the text is over.                                 *)
LEMMA EmptyIsNoBlank == ~Blank(<< >>)
<1>1. << >> \in Text /\ Len(<< >>) = 0
  BY DEF Text
<1> QED BY <1>1, EndOfBlank

(* A blank gets the next word, and the blanks after it the others.         *)
LEMMA RefilledBlank ==
  ASSUME NEW s \in Text, NEW left \in Seq(Text), Blank(s)
  PROVE  Refilled(s, left) = InBlank(NextWord(left)) \o Refilled(After(s), Others(left))
<1>1. s # << >>
  BY EmptyIsNoBlank
<1> QED BY <1>1, RefilledEquation, Zenon DEF NextWord, Others

(* It makes a text.                                                        *)
LEMMA RefilledType == \A s \in Text : \A left \in Seq(Text) : Refilled(s, left) \in Text
<1> DEFINE P == {s \in Text : \A left \in Seq(Text) : Refilled(s, left) \in Text}
<1>1. ASSUME NEW s \in Text, \A t \in Text : Len(t) < Len(s) => t \in P, NEW left \in Seq(Text)
      PROVE  Refilled(s, left) \in Text
  <2>1. CASE s = << >>
    BY <2>1, RefilledEmpty
  <2>2. CASE s # << >> /\ ~Blank(s)
    <3>1. Refilled(s, left) = <<Head(s)>> \o Refilled(Tail(s), left)
      BY <2>2, RefilledCharacter
    <3>2. Tail(s) \in P /\ Head(s) \in Characters
      BY <1>1, <2>2, RestIsShorter, HeadAndTail
    <3> QED BY <3>1, <3>2, Prefixed
  <2>3. CASE Blank(s)
    <3>1. Refilled(s, left) = InBlank(NextWord(left)) \o Refilled(After(s), Others(left))
      BY <2>3, RefilledBlank
    <3>2. s # << >>
      BY <2>3, EmptyIsNoBlank
    <3>3. After(s) \in P
      BY <1>1, <2>3, <3>2, RestIsShorter
    <3>4. NextWord(left) \in Text /\ Others(left) \in Seq(Text)
      BY WordsLeft
    <3>5. Refilled(After(s), Others(left)) \in Text
      BY <3>3, <3>4
    <3> QED BY <3>1, <3>4, <3>5, InBlankParts
  <2> QED BY <2>1, <2>2, <2>3
<1>2. \A s \in Text : (\A t \in Text : Len(t) < Len(s) => t \in P) => s \in P
  BY <1>1
<1> HIDE DEF P
<1>3. \A s \in Text : s \in P
  BY <1>2, TextInduction, Zenon
<1> QED BY <1>3 DEF P

(* What a text is like after its blanks were filled with others.           *)
LEMMA RefilledHead ==
  ASSUME NEW s \in Text, NEW left \in Seq(Text), s # << >>, ~Blank(s)
  PROVE  /\ Refilled(Tail(s), left) \in Text
         /\ Len(Refilled(s, left)) = Len(Refilled(Tail(s), left)) + 1
         /\ Refilled(s, left)[1] = s[1]
         /\ \A i \in 1 .. Len(Refilled(Tail(s), left)) :
              Refilled(s, left)[i + 1] = Refilled(Tail(s), left)[i]
<1>1. Refilled(s, left) = <<Head(s)>> \o Refilled(Tail(s), left)
  BY RefilledCharacter
<1>2. Tail(s) \in Text /\ Head(s) \in Characters /\ s[1] = Head(s)
  BY HeadAndTail
<1>3. Refilled(Tail(s), left) \in Text
  BY <1>2, RefilledType
<1> DEFINE r == Refilled(Tail(s), left)
           c == Head(s)
<1>4. r \in Text /\ c \in Characters
  BY <1>2, <1>3
<1> HIDE DEF r, c
<1>5. /\ Len(<<c>> \o r) = Len(r) + 1 /\ (<<c>> \o r)[1] = c
      /\ \A i \in 1 .. Len(r) : (<<c>> \o r)[i + 1] = r[i]
  BY <1>4, Prefixed
<1> QED BY <1>1, <1>2, <1>3, <1>5, Zenon DEF r, c

(* What a text that begins with a blank is like after it was filled in.    *)
LEMMA RefilledParts ==
  ASSUME NEW s \in Text, NEW left \in Seq(Text), Blank(s)
  PROVE  LET w == NextWord(left)
             r == Refilled(After(s), Others(left))
             f == Refilled(s, left)
         IN  /\ w \in Text /\ Others(left) \in Seq(Text) /\ r \in Text
             /\ Len(f) = Len(w) + 4 + Len(r)
             /\ f[1] = "_" /\ f[2] = "_"
             /\ \A i \in 1 .. Len(w) : f[i + 2] = w[i]
             /\ f[Len(w) + 3] = "_" /\ f[Len(w) + 4] = "_"
             /\ \A i \in 1 .. Len(r) : f[Len(w) + 4 + i] = r[i]
<1>1. Refilled(s, left) = InBlank(NextWord(left)) \o Refilled(After(s), Others(left))
  BY RefilledBlank
<1>2. NextWord(left) \in Text /\ Others(left) \in Seq(Text) /\ After(s) \in Text
  BY WordsLeft, BlankParts
<1>3. Refilled(After(s), Others(left)) \in Text
  BY <1>2, RefilledType
<1> DEFINE w == NextWord(left)
           r == Refilled(After(s), Others(left))
           f == Refilled(s, left)
<1>4. w \in Text /\ r \in Text /\ f = InBlank(w) \o r
  BY <1>1, <1>2, <1>3
<1> HIDE DEF w, r, f
<1>5. /\ Len(f) = Len(w) + 4 + Len(r)
      /\ f[1] = "_" /\ f[2] = "_"
      /\ \A i \in 1 .. Len(w) : f[i + 2] = w[i]
      /\ f[Len(w) + 3] = "_" /\ f[Len(w) + 4] = "_"
      /\ \A i \in 1 .. Len(r) : f[Len(w) + 4 + i] = r[i]
  BY <1>4, InBlankParts
<1> QED BY <1>2, <1>3, <1>5, Zenon DEF w, r, f

(* Of a text that is filled in, the first character stays as it was.       *)
LEMMA FirstCharacter ==
  ASSUME NEW s \in Text, NEW left \in Seq(Text), s # << >>
  PROVE  Len(Refilled(s, left)) >= 1 /\ Refilled(s, left)[1] = s[1]
<1>1. CASE Blank(s)
  <2>1. s[1] = "_"
    BY <1>1, BlankParts
  <2>2. Refilled(s, left)[1] = "_"
    BY <1>1, RefilledParts
  <2>3. /\ NextWord(left) \in Text /\ Refilled(After(s), Others(left)) \in Text
        /\ Len(Refilled(s, left)) = Len(NextWord(left)) + 4 + Len(Refilled(After(s), Others(left)))
    BY <1>1, RefilledParts
  <2>4. Len(NextWord(left)) \in Nat /\ Len(Refilled(After(s), Others(left))) \in Nat
    BY <2>3, Lengths
  <2>5. Len(Refilled(s, left)) >= 1
    BY <2>3, <2>4
  <2> QED BY <2>1, <2>2, <2>5
<1>2. CASE ~Blank(s)
  <2>1. Refilled(s, left)[1] = s[1]
    BY <1>2, RefilledHead
  <2>2. /\ Refilled(Tail(s), left) \in Text
        /\ Len(Refilled(s, left)) = Len(Refilled(Tail(s), left)) + 1
    BY <1>2, RefilledHead
  <2>3. Len(Refilled(Tail(s), left)) \in Nat
    BY <2>2, Lengths
  <2> QED BY <2>1, <2>2, <2>3
<1> QED BY <1>1, <1>2

(* So does the second: of a blank both are underscores.                    *)
LEMMA SecondCharacter ==
  ASSUME NEW s \in Text, NEW left \in Seq(Text), Len(Refilled(s, left)) >= 2
  PROVE  Len(s) >= 2 /\ Refilled(s, left)[2] = s[2]
<1>1. s # << >>
  <2>1. Refilled(<< >>, left) = << >> /\ Len(<< >>) = 0
    BY RefilledEmpty
  <2> QED BY <2>1
<1>2. CASE Blank(s)
  <2>1. s[2] = "_" /\ Refilled(s, left)[2] = "_"
    BY <1>2, BlankParts, RefilledParts
  <2>2. BlankEnd(s) \in 5 .. Len(s)
    BY <1>2, EndOfBlank
  <2>3. Len(s) \in Nat
    BY Lengths
  <2>4. Len(s) >= 2
    BY <2>2, <2>3
  <2> QED BY <2>1, <2>4
<1>3. CASE ~Blank(s)
  <2> DEFINE t == Tail(s)
             r == Refilled(t, left)
  <2>1. /\ t \in Text /\ Len(s) = Len(t) + 1
        /\ \A i \in 1 .. Len(t) : s[i + 1] = t[i]
    BY <1>1, HeadAndTail
  <2>2. /\ r \in Text /\ Len(Refilled(s, left)) = Len(r) + 1
        /\ \A i \in 1 .. Len(r) : Refilled(s, left)[i + 1] = r[i]
    BY <1>1, <1>3, RefilledHead
  <2> HIDE DEF t
  <2>3. t # << >>
    <3>1. Refilled(<< >>, left) = << >> /\ Len(<< >>) = 0
      BY RefilledEmpty
    <3> QED BY <2>2, <3>1
  <2>4. Len(r) >= 1 /\ r[1] = t[1]
    BY <2>1, <2>3, FirstCharacter
  <2> HIDE DEF r
  <2>5. Len(r) \in Nat /\ Len(t) \in Nat /\ Len(t) # 0
    BY <2>1, <2>2, <2>3, Lengths
  <2>6. 1 \in 1 .. Len(r) /\ 1 \in 1 .. Len(t) /\ 1 + 1 = 2
    BY <2>4, <2>5
  <2>7. s[2] = t[1] /\ Refilled(s, left)[2] = r[1]
    BY <2>1, <2>2, <2>6
  <2>8. Len(s) >= 2
    BY <2>1, <2>5
  <2> QED BY <2>4, <2>7, <2>8
<1> QED BY <1>2, <1>3

(* A character of a word.                                                  *)
InWord(c) == c \notin {"_", " "}

(* A text that begins with what may end a blank.                           *)
Closes(s, q) ==
  /\ q \in 2 .. Len(s) /\ s[q - 1] = "_" /\ s[q] = "_"
  /\ \A k \in 1 .. q - 2 : InWord(s[k])
Closing(s) == \E q \in 2 .. Len(s) : Closes(s, q)

(* An end of a blank, behind one character more.                           *)
LEMMA EndMoves ==
  ASSUME NEW s \in Text, NEW t \in Text, Len(s) = Len(t) + 1,
         \A i \in 1 .. Len(t) : s[i + 1] = t[i],
         InWord(s[1])
  PROVE  Closing(s) <=> Closing(t)
<1>1. Len(t) \in Nat
  BY Lengths
<1>2. ASSUME NEW q, Closes(s, q)
      PROVE  q - 1 \in 2 .. Len(t) /\ Closes(t, q - 1)
  <2>1. q \in 2 .. Len(s)
    BY <1>2 DEF Closes
  <2>2. s[q - 1] = "_" /\ s[q] = "_"
    BY <1>2 DEF Closes
  <2>3. \A k \in 1 .. q - 2 : InWord(s[k])
    BY <1>2 DEF Closes
  <2>4. q # 2
    <3>1. q = 2 => q - 1 = 1
      OBVIOUS
    <3>2. s[1] # "_"
      BY DEF InWord
    <3> QED BY <2>2, <3>1, <3>2
  <2>5. /\ q - 1 \in 2 .. Len(t) /\ q - 1 \in 1 .. Len(t) /\ (q - 1) + 1 = q
        /\ q - 2 \in 1 .. Len(t) /\ (q - 2) + 1 = q - 1 /\ (q - 1) - 1 = q - 2
    BY <1>1, <2>1, <2>4
  <2>6. t[q - 1] = "_" /\ t[(q - 1) - 1] = "_"
    <3>1. s[(q - 1) + 1] = t[q - 1] /\ s[(q - 2) + 1] = t[q - 2]
      BY <2>5
    <3> QED BY <3>1, <2>5, <2>2
  <2>7. \A k \in 1 .. (q - 1) - 2 : InWord(t[k])
    <3>1. \A k \in 1 .. (q - 1) - 2 : k \in 1 .. Len(t) /\ k + 1 \in 1 .. q - 2
      BY <1>1, <2>1
    <3> QED BY <3>1, <2>3, Zenon
  <2> QED BY <2>5, <2>6, <2>7, Zenon DEF Closes
<1>3. ASSUME NEW p, Closes(t, p)
      PROVE  p + 1 \in 2 .. Len(s) /\ Closes(s, p + 1)
  <2>1. p \in 2 .. Len(t)
    BY <1>3 DEF Closes
  <2>2. t[p - 1] = "_" /\ t[p] = "_"
    BY <1>3 DEF Closes
  <2>3. \A k \in 1 .. p - 2 : InWord(t[k])
    BY <1>3 DEF Closes
  <2>4. /\ p + 1 \in 2 .. Len(s) /\ p \in 1 .. Len(t) /\ p - 1 \in 1 .. Len(t)
        /\ (p - 1) + 1 = (p + 1) - 1
    BY <1>1, <2>1
  <2>5. s[p + 1] = "_" /\ s[(p + 1) - 1] = "_"
    <3>1. s[p + 1] = t[p] /\ s[(p - 1) + 1] = t[p - 1]
      BY <2>4
    <3> QED BY <3>1, <2>4, <2>2
  <2>6. ASSUME NEW k \in 1 .. (p + 1) - 2
        PROVE  InWord(s[k])
    <3>1. CASE k = 1
      BY <3>1
    <3>2. CASE k # 1
      <4>1. k - 1 \in 1 .. Len(t) /\ k - 1 \in 1 .. p - 2 /\ (k - 1) + 1 = k
        BY <1>1, <2>1, <3>2
      <4>2. s[(k - 1) + 1] = t[k - 1]
        BY <4>1
      <4>3. InWord(t[k - 1])
        BY <4>1, <2>3
      <4> QED BY <4>1, <4>2, <4>3
    <3> QED BY <3>1, <3>2
  <2> QED BY <2>4, <2>5, <2>6, Zenon DEF Closes
<1> QED BY <1>2, <1>3, Zenon DEF Closing

(* To fill a text in makes no end of a blank where there was none.         *)
LEMMA NoNewEnd ==
  \A s \in Text : \A left \in Seq(Text) : Closing(Refilled(s, left)) => Closing(s)
<1> DEFINE P == {s \in Text : \A left \in Seq(Text) : Closing(Refilled(s, left)) => Closing(s)}
<1>1. ASSUME NEW s \in Text, \A t \in Text : Len(t) < Len(s) => t \in P,
             NEW left \in Seq(Text), Closing(Refilled(s, left))
      PROVE  Closing(s)
  <2> DEFINE f == Refilled(s, left)
  <2>1. f \in Text
    BY RefilledType
  <2>2. PICK q : Closes(f, q)
    BY <1>1 DEF Closing
  <2>3. q \in 2 .. Len(f)
    BY <2>2 DEF Closes
  <2>4. f[q - 1] = "_" /\ f[q] = "_" /\ \A k \in 1 .. q - 2 : InWord(f[k])
    BY <2>2 DEF Closes
  <2>5. Len(f) >= 2
    <3>1. Len(f) \in Nat
      BY <2>1, Lengths
    <3> QED BY <2>3, <3>1
  <2>6. Len(s) >= 2 /\ f[2] = s[2]
    BY <2>5, SecondCharacter
  <2>7. s # << >>
    BY <2>6, Lengths
  <2>8. f[1] = s[1]
    BY <2>7, FirstCharacter
  <2>9. CASE q = 2
    <3>1. q - 1 = 1
      BY <2>9
    <3>2. s[1] = "_" /\ s[2] = "_"
      BY <2>4, <2>6, <2>8, <2>9, <3>1
    <3>3. 2 \in 2 .. Len(s) /\ 2 - 1 = 1 /\ \A k \in 1 .. 2 - 2 : FALSE
      <4>1. Len(s) \in Nat
        BY Lengths
      <4> QED BY <4>1, <2>6
    <3>4. Closes(s, 2)
      BY <3>2, <3>3, Zenon DEF Closes
    <3> QED BY <3>3, <3>4, Zenon DEF Closing
  <2>10. CASE q # 2
    <3>1. 1 \in 1 .. q - 2
      BY <2>3, <2>10
    <3>2. InWord(s[1])
      BY <2>4, <2>8, <3>1
    <3>3. ~Blank(s)
      BY <3>2, BlankParts DEF InWord
    <3>4. /\ Tail(s) \in Text /\ Len(s) = Len(Tail(s)) + 1 /\ Len(Tail(s)) < Len(s)
          /\ \A i \in 1 .. Len(Tail(s)) : s[i + 1] = Tail(s)[i]
      BY <2>7, HeadAndTail, RestIsShorter
    <3>5. /\ Refilled(Tail(s), left) \in Text /\ Len(f) = Len(Refilled(Tail(s), left)) + 1
          /\ \A i \in 1 .. Len(Refilled(Tail(s), left)) : f[i + 1] = Refilled(Tail(s), left)[i]
      BY <2>7, <3>3, RefilledHead
    <3>6. Closing(Refilled(Tail(s), left)) => Closing(Tail(s))
      BY <1>1, <3>4
    <3>7. Closing(f) <=> Closing(Refilled(Tail(s), left))
      <4> DEFINE r == Refilled(Tail(s), left)
      <4>1. InWord(f[1])
        BY <2>8, <3>2
      <4> HIDE DEF f, r
      <4>2. Closing(f) <=> Closing(r)
        BY <2>1, <3>5, <4>1, EndMoves DEF r
      <4> QED BY <4>2 DEF r
    <3>8. Closing(s) <=> Closing(Tail(s))
      BY <3>2, <3>4, EndMoves
    <3> QED BY <1>1, <3>6, <3>7, <3>8
  <2> QED BY <2>9, <2>10
<1>2. \A s \in Text : (\A t \in Text : Len(t) < Len(s) => t \in P) => s \in P
  BY <1>1
<1> HIDE DEF P
<1>3. \A s \in Text : s \in P
  BY <1>2, TextInduction, Zenon
<1> QED BY <1>3 DEF P

(* A blank is two underscores and an end of one.                           *)
Opens(s) == s[1] = "_" /\ s[2] = "_"

(* Behind the first two characters of a blank there is an end of one.      *)
LEMMA BlankCloses ==
  ASSUME NEW s \in Text, NEW u \in Text, Len(s) = Len(u) + 2,
         \A i \in 1 .. Len(u) : s[i + 2] = u[i],
         NEW j, j \in 5 .. Len(s), Match(s, j)
  PROVE  Closes(u, j - 2) /\ InWord(u[1])
<1>1. Len(u) \in Nat
  BY Lengths
<1>2. s[j - 1] = "_" /\ s[j] = "_" /\ \A k \in 3 .. j - 2 : InWord(s[k])
  BY MatchParts DEF InWord
<1>3. /\ j - 2 \in 2 .. Len(u) /\ j - 2 \in 1 .. Len(u) /\ (j - 2) + 2 = j
      /\ (j - 2) - 1 \in 1 .. Len(u) /\ ((j - 2) - 1) + 2 = j - 1
      /\ 1 \in 1 .. Len(u) /\ 1 + 2 \in 3 .. j - 2
  BY <1>1
<1>4. u[j - 2] = "_" /\ u[(j - 2) - 1] = "_"
  <2>1. s[(j - 2) + 2] = u[j - 2] /\ s[((j - 2) - 1) + 2] = u[(j - 2) - 1]
    BY <1>3
  <2> QED BY <2>1, <1>2, <1>3
<1>5. ASSUME NEW k \in 1 .. (j - 2) - 2
      PROVE  InWord(u[k])
  <2>1. k \in 1 .. Len(u) /\ k + 2 \in 3 .. j - 2
    BY <1>1
  <2> QED BY <2>1, <1>2
<1>6. InWord(u[1])
  <2>1. s[1 + 2] = u[1] /\ InWord(s[1 + 2])
    BY <1>2, <1>3, Zenon
  <2> QED BY <2>1, Zenon
<1> QED BY <1>3, <1>4, <1>5, <1>6, Zenon DEF Closes

(* And two underscores with an end of a blank behind them are a blank.     *)
LEMMA ClosesBlank ==
  ASSUME NEW s \in Text, NEW u \in Text, Len(s) = Len(u) + 2,
         \A i \in 1 .. Len(u) : s[i + 2] = u[i],
         Opens(s), Closing(u), InWord(u[1])
  PROVE  Blank(s)
<1>1. Len(u) \in Nat
  BY Lengths
<1>2. PICK q : Closes(u, q)
  BY DEF Closing
<1>3. q \in 2 .. Len(u)
  BY <1>2 DEF Closes
<1>4. u[q - 1] = "_" /\ u[q] = "_" /\ \A k \in 1 .. q - 2 : InWord(u[k])
  BY <1>2 DEF Closes
<1>5. q # 2
  <2>1. q = 2 => q - 1 = 1
    OBVIOUS
  <2>2. u[1] # "_"
    BY DEF InWord
  <2> QED BY <1>4, <2>1, <2>2
<1>6. /\ q + 2 \in 1 .. Len(s) /\ 5 <= q + 2 /\ q + 2 <= Len(s)
      /\ q \in 1 .. Len(u) /\ q - 1 \in 1 .. Len(u) /\ (q - 1) + 2 = (q + 2) - 1
  BY <1>1, <1>3, <1>5
<1>7. s[q + 2] = "_" /\ s[(q + 2) - 1] = "_"
  <2>1. s[q + 2] = u[q] /\ s[(q - 1) + 2] = u[q - 1]
    BY <1>6
  <2> QED BY <2>1, <1>4, <1>6
<1>8. ASSUME NEW k \in 3 .. (q + 2) - 2
      PROVE  s[k] \notin {"_", " "}
  <2>1. k - 2 \in 1 .. Len(u) /\ k - 2 \in 1 .. q - 2 /\ (k - 2) + 2 = k
    BY <1>1, <1>3
  <2>2. s[(k - 2) + 2] = u[k - 2] /\ InWord(u[k - 2])
    BY <2>1, <1>4
  <2>3. InWord(s[k])
    BY <2>1, <2>2
  <2> QED BY <2>3 DEF InWord
<1>9. \A k \in {1, 2, (q + 2) - 1, q + 2} : s[k] = "_"
  BY <1>7, Zenon DEF Opens
<1>10. Match(s, q + 2)
  BY <1>6, <1>8, <1>9, Zenon DEF Match
<1> QED BY <1>6, <1>10, Zenon DEF Blank

(* To fill a text in makes no blank where there was none.                  *)
LEMMA NoNewBlank ==
  ASSUME NEW s \in Text, NEW left \in Seq(Text), s # << >>, ~Blank(s)
  PROVE  ~Blank(Refilled(s, left))
<1> SUFFICES ASSUME Blank(Refilled(s, left))
             PROVE  FALSE
  OBVIOUS
<1> DEFINE f == Refilled(s, left)
           j == BlankEnd(f)
           t == Tail(s)
           r == Refilled(t, left)
           u == Tail(t)
           v == Refilled(u, left)
<1>1. f \in Text /\ j \in 5 .. Len(f) /\ Match(f, j)
  BY RefilledType, EndOfBlank
<1>2. Len(f) \in Nat
  BY <1>1, Lengths
<1>3. Len(f) >= 2
  BY <1>1, <1>2
<1>4. Len(s) >= 2 /\ s[2] = f[2] /\ s[1] = f[1]
  BY <1>3, SecondCharacter, FirstCharacter
<1>5. f[1] = "_" /\ f[2] = "_" /\ \A k \in 3 .. j - 2 : InWord(f[k])
  BY <1>1, MatchParts DEF InWord
<1>6. Opens(s)
  BY <1>4, <1>5 DEF Opens
<1>7. /\ t \in Text /\ Len(s) = Len(t) + 1 /\ \A i \in 1 .. Len(t) : s[i + 1] = t[i]
  BY HeadAndTail
<1>8. t # << >>
  <2>1. t \in Text /\ Len(s) = Len(t) + 1 /\ Len(s) >= 2
    BY <1>4, <1>7, Zenon
  <2> HIDE DEF t
  <2>2. Len(t) # 0
    BY <2>1, Lengths
  <2> QED BY <2>1, <2>2, Lengths
<1>9. /\ r \in Text /\ Len(f) = Len(r) + 1 /\ \A i \in 1 .. Len(r) : f[i + 1] = r[i]
  BY RefilledHead
<1>10. Len(r) \in Nat
  BY <1>9, Lengths
<1>11. InWord(f[2 + 1])
  <2>1. 2 + 1 \in 3 .. j - 2
    BY <1>1, <1>2
  <2> QED BY <2>1, <1>5
<1>12. ~Blank(t)
  <2> SUFFICES ASSUME Blank(t)
               PROVE  FALSE
    OBVIOUS
  <2>1. r[2] = "_"
    BY <1>7, RefilledParts
  <2>2. 2 \in 1 .. Len(r)
    BY <1>1, <1>2, <1>9, <1>10
  <2>3. f[2 + 1] = "_"
    BY <2>1, <2>2, <1>9, Zenon
  <2> QED BY <2>3, <1>11 DEF InWord
<1>13. /\ u \in Text /\ Len(t) = Len(u) + 1 /\ \A i \in 1 .. Len(u) : t[i + 1] = u[i]
  BY <1>7, <1>8, HeadAndTail
<1>14. /\ v \in Text /\ Len(r) = Len(v) + 1 /\ \A i \in 1 .. Len(v) : r[i + 1] = v[i]
  BY <1>7, <1>8, <1>12, RefilledHead
<1>15. Len(v) \in Nat /\ Len(u) \in Nat /\ Len(t) \in Nat
  BY <1>7, <1>13, <1>14, Lengths
<1> HIDE DEF f, j, t, r, u, v
<1>16. Len(f) = Len(v) + 2 /\ \A i \in 1 .. Len(v) : f[i + 2] = v[i]
  <2>1. Len(f) = Len(v) + 2
    BY <1>9, <1>14, <1>15
  <2>2. ASSUME NEW i \in 1 .. Len(v)
        PROVE  f[i + 2] = v[i]
    <3>1. i + 1 \in 1 .. Len(r) /\ (i + 1) + 1 = i + 2
      BY <1>14, <1>15
    <3>2. f[(i + 1) + 1] = r[i + 1] /\ r[i + 1] = v[i]
      BY <3>1, <1>9, <1>14
    <3> QED BY <3>1, <3>2
  <2> QED BY <2>1, <2>2
<1>17. Len(s) = Len(u) + 2 /\ \A i \in 1 .. Len(u) : s[i + 2] = u[i]
  <2>1. Len(s) = Len(u) + 2
    BY <1>7, <1>13, <1>15
  <2>2. ASSUME NEW i \in 1 .. Len(u)
        PROVE  s[i + 2] = u[i]
    <3>1. i + 1 \in 1 .. Len(t) /\ (i + 1) + 1 = i + 2
      BY <1>13, <1>15
    <3>2. s[(i + 1) + 1] = t[i + 1] /\ t[i + 1] = u[i]
      BY <3>1, <1>7, <1>13
    <3> QED BY <3>1, <3>2
  <2> QED BY <2>1, <2>2
<1>18. Closes(v, j - 2) /\ InWord(v[1])
  BY <1>1, <1>14, <1>16, BlankCloses
<1>19. Closing(v)
  BY <1>18, Zenon DEF Closing, Closes
<1>20. Closing(u)
  BY <1>13, <1>19, NoNewEnd DEF v
<1>21. u # << >> /\ v[1] = u[1]
  <2>1. u # << >>
    <3>1. \A q : q \notin 2 .. 0
      OBVIOUS
    <3>2. Len(<< >>) = 0
      OBVIOUS
    <3> QED BY <1>20, <3>1, <3>2, Zenon DEF Closing
  <2> QED BY <2>1, <1>13, FirstCharacter DEF v
<1>22. InWord(u[1])
  BY <1>18, <1>21
<1> QED BY <1>6, <1>13, <1>17, <1>20, <1>22, ClosesBlank

(* Texts of the same characters are the same.                              *)
LEMMA SameText ==
  ASSUME NEW s \in Text, NEW t \in Text, Len(s) = Len(t),
         \A i \in 1 .. Len(s) : s[i] = t[i]
  PROVE  s = t
BY SeqEqual DEF Text

(* What can stand in a blank.                                              *)
IsWord(w) == w \in Text /\ Len(w) > 0 /\ \A i \in 1 .. Len(w) : InWord(w[i])

(* A word in a blank, and what follows it: the expression finds the word.  *)
LEMMA BlankOf ==
  ASSUME NEW w, IsWord(w), NEW r \in Text
  PROVE  /\ Blank(InBlank(w) \o r)
         /\ Inside(InBlank(w) \o r) = w /\ After(InBlank(w) \o r) = r
<1> DEFINE f == InBlank(w) \o r
           j == Len(w) + 4
<1>1. w \in Text /\ Len(w) > 0 /\ \A i \in 1 .. Len(w) : InWord(w[i])
  BY DEF IsWord
<1>2. /\ f \in Text /\ Len(f) = Len(w) + 4 + Len(r)
      /\ f[1] = "_" /\ f[2] = "_"
      /\ \A i \in 1 .. Len(w) : f[i + 2] = w[i]
      /\ f[Len(w) + 3] = "_" /\ f[Len(w) + 4] = "_"
      /\ \A i \in 1 .. Len(r) : f[Len(w) + 4 + i] = r[i]
  BY <1>1, InBlankParts
<1> HIDE DEF f
<1>3. Len(w) \in Nat /\ Len(r) \in Nat /\ Len(f) \in Nat
  BY <1>1, <1>2, Lengths
<1>4. 5 <= j /\ j <= Len(f) /\ j \in 1 .. Len(f) /\ j - 1 = Len(w) + 3
  <2>1. Len(w) > 0 /\ Len(f) = Len(w) + 4 + Len(r)
    BY <1>1, <1>2, Zenon
  <2> QED BY <1>3, <2>1
<1>5. \A k \in {1, 2, j - 1, j} : f[k] = "_"
  BY <1>2, <1>4, Zenon
<1>6. ASSUME NEW k \in 3 .. j - 2
      PROVE  f[k] \notin {"_", " "}
  <2>1. k - 2 \in 1 .. Len(w) /\ (k - 2) + 2 = k
    BY <1>3
  <2>2. f[(k - 2) + 2] = w[k - 2] /\ InWord(w[k - 2])
    BY <1>1, <1>2, <2>1, Zenon
  <2>3. InWord(f[k])
    BY <2>1, <2>2, Zenon
  <2> QED BY <2>3 DEF InWord
<1>7. Match(f, j)
  BY <1>4, <1>5, <1>6, Zenon DEF Match
<1>8. Blank(f)
  BY <1>4, <1>7, Zenon DEF Blank
<1>9. BlankEnd(f) = j
  <2>1. BlankEnd(f) \in 5 .. Len(f) /\ Match(f, BlankEnd(f))
    BY <1>2, <1>8, EndOfBlank
  <2>2. BlankEnd(f) \in Int /\ j \in Int
    BY <1>3, <2>1
  <2> HIDE DEF j
  <2> QED BY <1>2, <1>7, <2>1, <2>2, OneEnd
<1>10. /\ Inside(f) \in Text /\ After(f) \in Text
       /\ Len(f) = Len(Inside(f)) + 4 + Len(After(f))
       /\ \A i \in 1 .. Len(Inside(f)) : f[i + 2] = Inside(f)[i]
       /\ \A i \in 1 .. Len(After(f)) : f[Len(Inside(f)) + 4 + i] = After(f)[i]
  BY <1>2, <1>8, BlankParts
<1>11. Len(After(f)) = Len(f) - BlankEnd(f)
  <2>1. BlankEnd(f) \in 0 .. Len(f)
    BY <1>3, <1>4, <1>9
  <2> QED BY <1>2, <2>1, Suffix DEF After
<1>12. Len(After(f)) = Len(r) /\ Len(Inside(f)) = Len(w)
  <2>1. Len(Inside(f)) \in Nat
    BY <1>10, Lengths
  <2>2. Len(f) = Len(w) + 4 + Len(r) /\ Len(f) = Len(Inside(f)) + 4 + Len(After(f))
    BY <1>2, <1>10
  <2>3. Len(After(f)) = Len(r)
    BY <1>3, <1>9, <1>11, <2>2
  <2> QED BY <1>3, <2>1, <2>2, <2>3
<1>13. Inside(f) = w
  BY <1>1, <1>2, <1>10, <1>12, SameText
<1>14. After(f) = r
  BY <1>2, <1>10, <1>12, SameText
<1> QED BY <1>8, <1>13, <1>14 DEF f

(* A character and what follows it, taken apart.                           *)
LEMMA PrefixedApart ==
  ASSUME NEW c \in Characters, NEW r \in Text
  PROVE  /\ <<c>> \o r \in Text /\ <<c>> \o r # << >>
         /\ Head(<<c>> \o r) = c /\ Tail(<<c>> \o r) = r
<1> DEFINE f == <<c>> \o r
<1>1. /\ f \in Text /\ Len(f) = Len(r) + 1 /\ f[1] = c
      /\ \A i \in 1 .. Len(r) : f[i + 1] = r[i]
  BY Prefixed
<1> HIDE DEF f
<1>2. Len(r) \in Nat
  BY Lengths
<1>3. Len(f) # 0
  BY <1>1, <1>2
<1>4. f # << >>
  BY <1>1, <1>3, Lengths
<1>5. /\ Tail(f) \in Text /\ Len(f) = Len(Tail(f)) + 1 /\ f[1] = Head(f)
      /\ \A i \in 1 .. Len(Tail(f)) : f[i + 1] = Tail(f)[i]
  BY <1>1, <1>4, HeadAndTail
<1>6. Len(Tail(f)) \in Nat
  BY <1>5, Lengths
<1>7. Len(Tail(f)) = Len(r)
  BY <1>1, <1>2, <1>5, <1>6
<1>8. Tail(f) = r
  BY <1>1, <1>5, <1>7, SameText
<1> QED BY <1>1, <1>4, <1>5, <1>8 DEF f

(* What a text begins with and its rest make up the text again.            *)
LEMMA Whole ==
  ASSUME NEW s \in Text, s # << >>
  PROVE  /\ s = <<Head(s)>> \o Tail(s)
         /\ Blank(s) => s = InBlank(Inside(s)) \o After(s)
<1>1. s = <<Head(s)>> \o Tail(s)
  <2> DEFINE c == Head(s)
             r == Tail(s)
             f == <<c>> \o r
  <2>1. /\ c \in Characters /\ r \in Text /\ Len(s) = Len(r) + 1 /\ s[1] = c
        /\ \A i \in 1 .. Len(r) : s[i + 1] = r[i]
    BY HeadAndTail
  <2> HIDE DEF c, r
  <2>2. /\ f \in Text /\ Len(f) = Len(r) + 1 /\ f[1] = c
        /\ \A i \in 1 .. Len(r) : f[i + 1] = r[i]
    BY <2>1, Prefixed
  <2> HIDE DEF f
  <2>3. Len(r) \in Nat
    BY <2>1, Lengths
  <2>4. ASSUME NEW i \in 1 .. Len(s)
        PROVE  s[i] = f[i]
    <3>1. CASE i = 1
      BY <3>1, <2>1, <2>2
    <3>2. CASE i # 1
      <4>1. i - 1 \in 1 .. Len(r) /\ (i - 1) + 1 = i
        BY <2>1, <2>3, <3>2
      <4> QED BY <4>1, <2>1, <2>2
    <3> QED BY <3>1, <3>2
  <2>5. Len(s) = Len(f)
    BY <2>1, <2>2
  <2>6. s = f
    BY <2>2, <2>4, <2>5, SameText
  <2> QED BY <2>6 DEF f, c, r
<1>2. ASSUME Blank(s)
      PROVE  s = InBlank(Inside(s)) \o After(s)
  <2> DEFINE w == Inside(s)
             r == After(s)
             f == InBlank(w) \o r
  <2>1. /\ w \in Text /\ r \in Text /\ Len(s) = Len(w) + 4 + Len(r)
        /\ s[1] = "_" /\ s[2] = "_" /\ s[Len(w) + 3] = "_" /\ s[Len(w) + 4] = "_"
        /\ \A i \in 1 .. Len(w) : s[i + 2] = w[i]
        /\ \A i \in 1 .. Len(r) : s[Len(w) + 4 + i] = r[i]
    BY <1>2, BlankParts
  <2> HIDE DEF w, r
  <2>2. /\ f \in Text /\ Len(f) = Len(w) + 4 + Len(r)
        /\ f[1] = "_" /\ f[2] = "_" /\ f[Len(w) + 3] = "_" /\ f[Len(w) + 4] = "_"
        /\ \A i \in 1 .. Len(w) : f[i + 2] = w[i]
        /\ \A i \in 1 .. Len(r) : f[Len(w) + 4 + i] = r[i]
    BY <2>1, InBlankParts
  <2> HIDE DEF f
  <2>3. Len(w) \in Nat /\ Len(r) \in Nat
    BY <2>1, Lengths
  <2>4. ASSUME NEW i \in 1 .. Len(s)
        PROVE  s[i] = f[i]
    <3>1. \/ i \in {1, 2, Len(w) + 3, Len(w) + 4}
          \/ i - 2 \in 1 .. Len(w) /\ (i - 2) + 2 = i
          \/ i - Len(w) - 4 \in 1 .. Len(r) /\ Len(w) + 4 + (i - Len(w) - 4) = i
      <4>1. i \in 1 .. Len(w) + 4 + Len(r)
        BY <2>1
      <4> QED BY <2>3, <4>1
    <3>2. CASE i \in {1, 2, Len(w) + 3, Len(w) + 4}
      BY <3>2, <2>1, <2>2, Zenon
    <3>3. CASE i - 2 \in 1 .. Len(w) /\ (i - 2) + 2 = i
      <4>1. s[(i - 2) + 2] = w[i - 2] /\ f[(i - 2) + 2] = w[i - 2]
        BY <3>3, <2>1, <2>2, Zenon
      <4> QED BY <4>1, <3>3, Zenon
    <3>4. CASE i - Len(w) - 4 \in 1 .. Len(r) /\ Len(w) + 4 + (i - Len(w) - 4) = i
      <4> DEFINE k == i - Len(w) - 4
      <4>1. k \in 1 .. Len(r) /\ Len(w) + 4 + k = i
        BY <3>4
      <4> HIDE DEF k
      <4>2. s[Len(w) + 4 + k] = r[k] /\ f[Len(w) + 4 + k] = r[k]
        BY <4>1, <2>1, <2>2, Zenon
      <4> QED BY <4>1, <4>2, Zenon
    <3> QED BY <3>1, <3>2, <3>3, <3>4
  <2>5. Len(s) = Len(f)
    BY <2>1, <2>2
  <2>6. s = f
    BY <2>2, <2>4, <2>5, SameText
  <2> QED BY <2>6 DEF f, w, r
<1> QED BY <1>1, <1>2

(* The words of a text can stand in a blank.                               *)
LEMMA InsideIsWord ==
  ASSUME NEW s \in Text, Blank(s)
  PROVE  IsWord(Inside(s))
BY BlankParts DEF IsWord, InWord

(* So can the word that a title has in its blanks.                         *)
LEMMA PlaceholderIsWord == IsWord(<<"blank">>)
<1> DEFINE w == <<"blank">>
<1>1. w \in Text /\ Len(w) = 1 /\ w[1] = "blank"
  BY Placeholder
<1> HIDE DEF w
<1>2. \A i \in 1 .. Len(w) : i = 1
  BY <1>1
<1>3. InWord("blank")
  BY DEF InWord
<1>4. InWord(w[1])
  BY <1>1, <1>3
<1>5. \A i \in 1 .. Len(w) : InWord(w[i])
  BY <1>2, <1>4
<1>6. Len(w) > 0
  BY <1>1
<1>7. IsWord(w)
  BY <1>1, <1>5, <1>6 DEF IsWord
<1> QED BY <1>7 DEF w

(* A title filled in again is the text filled in: the page and the form do *)
(* to the title what they would do to the text.                            *)
LEMMA RefilledTitle ==
  \A s \in Text : \A left \in Seq(Text) :
    Refilled(Refilled(s, << >>), left) = Refilled(s, left)
<1> DEFINE P == {s \in Text : \A left \in Seq(Text) :
                   Refilled(Refilled(s, << >>), left) = Refilled(s, left)}
<1>1. ASSUME NEW s \in Text, \A t \in Text : Len(t) < Len(s) => t \in P,
             NEW left \in Seq(Text)
      PROVE  Refilled(Refilled(s, << >>), left) = Refilled(s, left)
  <2> DEFINE f == Refilled(s, << >>)
  <2>1. << >> \in Seq(Text) /\ f \in Text
    <3>1. << >> \in Seq(Text)
      OBVIOUS
    <3> QED BY <3>1, RefilledType, Zenon
  <2>2. CASE s = << >>
    BY <2>1, <2>2, RefilledEmpty
  <2>3. CASE s # << >> /\ ~Blank(s)
    <3> DEFINE c == Head(s)
               t == Tail(s)
               r == Refilled(t, << >>)
    <3>1. c \in Characters /\ t \in Text /\ t \in P
      BY <1>1, <2>3, HeadAndTail, RestIsShorter
    <3>2. r \in Text /\ Refilled(r, left) = Refilled(t, left)
      BY <2>1, <3>1, RefilledType
    <3>3. f = <<c>> \o r
      BY <2>1, <2>3, RefilledCharacter
    <3>4. Refilled(s, left) = <<c>> \o Refilled(t, left)
      BY <2>3, RefilledCharacter
    <3>5. ~Blank(f)
      BY <2>1, <2>3, NoNewBlank
    <3> HIDE DEF c, r, f
    <3>6. f # << >> /\ Head(f) = c /\ Tail(f) = r
      BY <3>1, <3>2, <3>3, PrefixedApart
    <3>7. Refilled(f, left) = <<Head(f)>> \o Refilled(Tail(f), left)
      BY <2>1, <3>5, <3>6, RefilledCharacter
    <3>8. Refilled(f, left) = Refilled(s, left)
      BY <3>2, <3>4, <3>6, <3>7, Zenon
    <3> QED BY <3>8 DEF f
  <2>4. CASE Blank(s)
    <3> DEFINE w == <<"blank">>
               t == After(s)
               r == Refilled(t, << >>)
    <3>1. t \in Text /\ t \in P
      BY <1>1, <2>4, EmptyIsNoBlank, RestIsShorter
    <3>2. NextWord(left) \in Text /\ Others(left) \in Seq(Text)
      BY WordsLeft
    <3>3. r \in Text /\ Refilled(r, Others(left)) = Refilled(t, Others(left))
      BY <2>1, <3>1, <3>2, RefilledType
    <3>4. f = InBlank(w) \o r
      <4>1. NextWord(<< >>) = w /\ Others(<< >>) = << >>
        BY Zenon DEF NextWord, Others
      <4>2. f = InBlank(NextWord(<< >>)) \o Refilled(t, Others(<< >>))
        BY <2>1, <2>4, RefilledBlank
      <4> QED BY <4>1, <4>2, Zenon
    <3>5. Refilled(s, left) = InBlank(NextWord(left)) \o Refilled(t, Others(left))
      BY <2>4, RefilledBlank
    <3>6. IsWord(w)
      BY PlaceholderIsWord
    <3> HIDE DEF w, r, f
    <3>7. Blank(f) /\ After(f) = r
      BY <3>3, <3>4, <3>6, BlankOf
    <3>8. Refilled(f, left) = InBlank(NextWord(left)) \o Refilled(After(f), Others(left))
      BY <2>1, <3>7, RefilledBlank
    <3>9. Refilled(f, left) = Refilled(s, left)
      BY <3>3, <3>5, <3>7, <3>8, Zenon
    <3> QED BY <3>9 DEF f
  <2> QED BY <2>2, <2>3, <2>4
<1>2. \A s \in Text : (\A t \in Text : Len(t) < Len(s) => t \in P) => s \in P
  BY <1>1
<1> HIDE DEF P
<1>3. \A s \in Text : s \in P
  BY <1>2, TextInduction, Zenon
<1> QED BY <1>3 DEF P

(* The words of a text that begins with a character are those of the rest. *)
LEMMA WordsCharacter ==
  ASSUME NEW s \in Text, s # << >>, ~Blank(s)
  PROVE  Words(s) = Words(Tail(s)) /\ Words(Tail(s)) \in Seq(Text)
<1>1. Words(s) = Words(Tail(s))
  BY WordsEquation, Zenon
<1> QED BY <1>1, WordsType

(* A blank has the first word.                                             *)
LEMMA WordsBlank ==
  ASSUME NEW s \in Text, Blank(s)
  PROVE  LET w == Words(s)
             v == Words(After(s))
         IN  /\ w \in Seq(Text) /\ v \in Seq(Text)
             /\ Len(v) \in Nat /\ Len(w) = Len(v) + 1 /\ w[1] = Inside(s)
             /\ \A n \in 1 .. Len(v) : w[n + 1] = v[n]
<1> DEFINE w == Words(s)
           v == Words(After(s))
           i == Inside(s)
<1>1. w = <<i>> \o v
  BY EmptyIsNoBlank, WordsEquation, Zenon
<1>2. w \in Seq(Text) /\ v \in Seq(Text) /\ i \in Text
  BY WordsType, BlankParts
<1> HIDE DEF w, v, i
<1>3. <<i>> \in Seq(Text) /\ Len(<<i>>) = 1 /\ <<i>>[1] = i
  BY <1>2
<1>4. Len(v) \in Nat /\ Len(w) = Len(v) + 1
  BY <1>1, <1>2, <1>3, ConcatProperties
<1>5. w[1] = i /\ \A n \in 1 .. Len(v) : w[n + 1] = v[n]
  BY <1>1, <1>2, <1>3, ConcatProperties
<1> QED BY <1>2, <1>4, <1>5 DEF w, v, i

(* A title has as many blanks as the text has words: the student's page    *)
(* has an input for every word.                                            *)
LEMMA CountTitle == \A s \in Text : Len(Words(Refilled(s, << >>))) = Len(Words(s))
<1> DEFINE P == {s \in Text : Len(Words(Refilled(s, << >>))) = Len(Words(s))}
<1>1. ASSUME NEW s \in Text, \A t \in Text : Len(t) < Len(s) => t \in P
      PROVE  Len(Words(Refilled(s, << >>))) = Len(Words(s))
  <2> DEFINE f == Refilled(s, << >>)
  <2>1. << >> \in Seq(Text) /\ f \in Text
    <3>1. << >> \in Seq(Text)
      OBVIOUS
    <3> QED BY <3>1, RefilledType, Zenon
  <2>2. CASE s = << >>
    BY <2>1, <2>2, RefilledEmpty
  <2>3. CASE s # << >> /\ ~Blank(s)
    <3> DEFINE c == Head(s)
               t == Tail(s)
               r == Refilled(t, << >>)
    <3>1. c \in Characters /\ t \in Text /\ t \in P
      BY <1>1, <2>3, HeadAndTail, RestIsShorter
    <3>2. r \in Text /\ Len(Words(r)) = Len(Words(t))
      BY <2>1, <3>1, RefilledType
    <3>3. f = <<c>> \o r
      BY <2>1, <2>3, RefilledCharacter
    <3>4. Words(s) = Words(t)
      BY <2>3, WordsCharacter
    <3>5. ~Blank(f)
      BY <2>1, <2>3, NoNewBlank
    <3> HIDE DEF c, r, f
    <3>6. f # << >> /\ Tail(f) = r
      BY <3>1, <3>2, <3>3, PrefixedApart
    <3>7. Words(f) = Words(r)
      BY <2>1, <3>5, <3>6, WordsCharacter
    <3>8. Len(Words(f)) = Len(Words(s))
      BY <3>2, <3>4, <3>7, Zenon
    <3> QED BY <3>8 DEF f
  <2>4. CASE Blank(s)
    <3> DEFINE w == <<"blank">>
               t == After(s)
               r == Refilled(t, << >>)
    <3>1. t \in Text /\ t \in P
      BY <1>1, <2>4, EmptyIsNoBlank, RestIsShorter
    <3>2. r \in Text /\ Len(Words(r)) = Len(Words(t))
      BY <2>1, <3>1, RefilledType
    <3>3. f = InBlank(w) \o r
      <4>1. NextWord(<< >>) = w /\ Others(<< >>) = << >>
        BY Zenon DEF NextWord, Others
      <4>2. f = InBlank(NextWord(<< >>)) \o Refilled(t, Others(<< >>))
        BY <2>1, <2>4, RefilledBlank
      <4> QED BY <4>1, <4>2, Zenon
    <3>4. Len(Words(s)) = Len(Words(t)) + 1
      BY <2>4, WordsBlank
    <3>5. IsWord(w)
      BY PlaceholderIsWord
    <3> HIDE DEF w, r, f
    <3>6. Blank(f) /\ After(f) = r
      BY <3>2, <3>3, <3>5, BlankOf
    <3>7. Len(Words(f)) = Len(Words(r)) + 1
      BY <2>1, <3>6, WordsBlank
    <3>8. Len(Words(f)) = Len(Words(s))
      BY <3>2, <3>4, <3>7
    <3> QED BY <3>8 DEF f
  <2> QED BY <2>2, <2>3, <2>4
<1>2. \A s \in Text : (\A t \in Text : Len(t) < Len(s) => t \in P) => s \in P
  BY <1>1
<1> HIDE DEF P
<1>3. \A s \in Text : s \in P
  BY <1>2, TextInduction, Zenon
<1> QED BY <1>3 DEF P

-----------------------------------------------------------------------------
(* Texts: a text is filled in with its own words, and with no others.      *)

(* The words that are put into a text are those it has.                    *)
Fits(s, left) ==
  \A n \in 1 .. Len(Words(s)) : n <= Len(left) /\ left[n] = Words(s)[n]

(* So it is for a text that begins with a character, if it is for the      *)
(* rest.                                                                   *)
LEMMA FitsCharacter ==
  ASSUME NEW s \in Text, NEW left \in Seq(Text), s # << >>, ~Blank(s)
  PROVE  Fits(s, left) <=> Fits(Tail(s), left)
BY WordsCharacter, Zenon DEF Fits

(* And for a text that begins with a blank, if the first word is that of   *)
(* the blank and the others are those of the rest.                         *)
LEMMA FitsBlank ==
  ASSUME NEW s \in Text, NEW left \in Seq(Text), left # << >>, Blank(s)
  PROVE  Fits(s, left) <=> NextWord(left) = Inside(s) /\ Fits(After(s), Others(left))
<1> DEFINE w == Words(s)
           v == Words(After(s))
           g == NextWord(left)
           l == Others(left)
           i == Inside(s)
<1>1. /\ w \in Seq(Text) /\ v \in Seq(Text)
      /\ Len(v) \in Nat /\ Len(w) = Len(v) + 1 /\ w[1] = i
      /\ \A n \in 1 .. Len(v) : w[n + 1] = v[n]
  BY WordsBlank
<1>2. Fits(s, left) <=> \A n \in 1 .. Len(w) : n <= Len(left) /\ left[n] = w[n]
  BY Zenon DEF Fits
<1>3. Fits(After(s), l) <=> \A n \in 1 .. Len(v) : n <= Len(l) /\ l[n] = v[n]
  BY Zenon DEF Fits
<1>4. /\ Len(left) \in Nat /\ Len(left) = Len(l) + 1 /\ Len(l) \in Nat /\ left[1] = g
      /\ \A n \in 1 .. Len(l) : left[n + 1] = l[n]
  <2>1. g = Head(left) /\ l = Tail(left)
    BY DEF NextWord, Others
  <2> HIDE DEF g, l
  <2> QED BY <2>1, HeadTailProperties
<1> HIDE DEF w, v, g, l, i
<1>5. ASSUME \A n \in 1 .. Len(w) : n <= Len(left) /\ left[n] = w[n]
      PROVE  g = i /\ \A n \in 1 .. Len(v) : n <= Len(l) /\ l[n] = v[n]
  <2>1. 1 \in 1 .. Len(w)
    BY <1>1
  <2>2. g = i
    BY <2>1, <1>1, <1>4, <1>5
  <2>3. ASSUME NEW n \in 1 .. Len(v)
        PROVE  n <= Len(l) /\ l[n] = v[n]
    <3>1. n + 1 \in 1 .. Len(w)
      BY <1>1
    <3>2. n + 1 <= Len(left) /\ left[n + 1] = w[n + 1]
      BY <3>1, <1>5
    <3>3. n <= Len(l) /\ n \in 1 .. Len(l)
      BY <3>2, <1>1, <1>4
    <3> QED BY <3>2, <3>3, <1>1, <1>4
  <2> QED BY <2>2, <2>3
<1>6. ASSUME g = i, \A n \in 1 .. Len(v) : n <= Len(l) /\ l[n] = v[n], NEW n \in 1 .. Len(w)
      PROVE  n <= Len(left) /\ left[n] = w[n]
  <2>1. CASE n = 1
    BY <2>1, <1>1, <1>4, <1>6
  <2>2. CASE n # 1
    <3>1. n - 1 \in 1 .. Len(v) /\ (n - 1) + 1 = n
      BY <2>2, <1>1
    <3>2. n - 1 <= Len(l) /\ l[n - 1] = v[n - 1]
      BY <3>1, <1>6
    <3>3. n <= Len(left) /\ n - 1 \in 1 .. Len(l)
      BY <3>1, <3>2, <1>1, <1>4
    <3>4. left[(n - 1) + 1] = l[n - 1] /\ w[(n - 1) + 1] = v[n - 1]
      BY <3>1, <3>3, <1>1, <1>4
    <3> QED BY <3>1, <3>2, <3>3, <3>4
  <2> QED BY <2>1, <2>2
<1>7. Fits(s, left) <=> g = i /\ Fits(After(s), l)
  BY <1>2, <1>3, <1>5, <1>6, Zenon
<1> QED BY <1>7 DEF g, i, l

(* Without a word left nothing fits a blank.                               *)
LEMMA FitsNothing ==
  ASSUME NEW s \in Text, NEW left \in Seq(Text), Blank(s), Len(left) >= Len(Words(s)) \/ Fits(s, left)
  PROVE  left # << >>
<1>1. Len(Words(After(s))) \in Nat /\ Len(Words(s)) = Len(Words(After(s))) + 1
  BY WordsBlank
<1>2. 1 \in 1 .. Len(Words(s)) /\ Len(Words(s)) >= 1
  BY <1>1
<1>3. Fits(s, left) => 1 <= Len(left)
  BY <1>2, Zenon DEF Fits
<1>4. Len(left) # 0
  BY <1>1, <1>2, <1>3
<1> QED BY <1>4

(* A text that is filled in with its own words is the same text.           *)
LEMMA RoundTrip ==
  \A s \in Text : \A left \in Seq(Text) : Fits(s, left) => Refilled(s, left) = s
<1> DEFINE P == {s \in Text : \A left \in Seq(Text) : Fits(s, left) => Refilled(s, left) = s}
<1>1. ASSUME NEW s \in Text, \A t \in Text : Len(t) < Len(s) => t \in P,
             NEW left \in Seq(Text), Fits(s, left)
      PROVE  Refilled(s, left) = s
  <2>1. CASE s = << >>
    BY <2>1, RefilledEmpty
  <2>2. CASE s # << >> /\ ~Blank(s)
    <3> DEFINE t == Tail(s)
    <3>1. t \in Text /\ t \in P
      BY <1>1, <2>2, RestIsShorter
    <3>2. Fits(t, left)
      BY <1>1, <2>2, FitsCharacter
    <3>3. Refilled(t, left) = t
      BY <3>1, <3>2
    <3>4. Refilled(s, left) = <<Head(s)>> \o Refilled(t, left)
      BY <2>2, RefilledCharacter
    <3>5. s = <<Head(s)>> \o t
      BY <2>2, Whole
    <3> QED BY <3>3, <3>4, <3>5, Zenon
  <2>3. CASE Blank(s)
    <3> DEFINE t == After(s)
               l == Others(left)
    <3>1. t \in Text /\ t \in P
      BY <1>1, <2>3, EmptyIsNoBlank, RestIsShorter
    <3>2. left # << >>
      BY <1>1, <2>3, FitsNothing
    <3>3. NextWord(left) = Inside(s) /\ Fits(t, l)
      BY <1>1, <2>3, <3>2, FitsBlank
    <3>4. l \in Seq(Text)
      BY WordsLeft
    <3>5. Refilled(t, l) = t
      BY <3>1, <3>3, <3>4
    <3>6. Refilled(s, left) = InBlank(NextWord(left)) \o Refilled(t, l)
      BY <2>3, RefilledBlank
    <3>7. s = InBlank(Inside(s)) \o t
      BY <2>3, EmptyIsNoBlank, Whole
    <3> QED BY <3>3, <3>5, <3>6, <3>7, Zenon
  <2> QED BY <2>1, <2>2, <2>3
<1>2. \A s \in Text : (\A t \in Text : Len(t) < Len(s) => t \in P) => s \in P
  BY <1>1
<1> HIDE DEF P
<1>3. \A s \in Text : s \in P
  BY <1>2, TextInduction, Zenon
<1> QED BY <1>3 DEF P

(* A text ends with another, from a place on.                              *)
EndsWith(s, m, r) == Len(s) = m + Len(r) /\ \A k \in 1 .. Len(r) : r[k] = s[m + k]

(* No end of a text, but all of it, is the text filled in: the underscores *)
(* of a blank would have to lie in the word of it.                         *)
LEMMA NoSuffix ==
  \A s \in Text : \A left \in Seq(Text) :
    \A m \in Nat : m > 0 => ~EndsWith(s, m, Refilled(s, left))
<1> DEFINE P == {s \in Text : \A left \in Seq(Text) :
                   \A m \in Nat : m > 0 => ~EndsWith(s, m, Refilled(s, left))}
<1>1. ASSUME NEW s \in Text, \A t \in Text : Len(t) < Len(s) => t \in P,
             NEW left \in Seq(Text), NEW m \in Nat, m > 0,
             EndsWith(s, m, Refilled(s, left))
      PROVE  FALSE
  <2> DEFINE f == Refilled(s, left)
  <2>1. Len(s) = m + Len(f)
    BY <1>1 DEF EndsWith
  <2>2. \A k \in 1 .. Len(f) : f[k] = s[m + k]
    BY <1>1 DEF EndsWith
  <2>3. f \in Text /\ Len(f) \in Nat /\ Len(s) \in Nat
    BY RefilledType, Lengths
  <2>4. s # << >>
    <3>1. Len(s) # 0
      BY <1>1, <2>1, <2>3
    <3> QED BY <3>1, Lengths
  <2>5. CASE ~Blank(s)
    <3> DEFINE t == Tail(s)
               r == Refilled(t, left)
    <3>1. t \in Text /\ t \in P
      BY <1>1, <2>4, RestIsShorter
    <3>2. Len(s) = Len(t) + 1 /\ \A i \in 1 .. Len(t) : s[i + 1] = t[i]
      BY <2>4, HeadAndTail
    <3>3. /\ r \in Text /\ Len(f) = Len(r) + 1
          /\ \A i \in 1 .. Len(r) : f[i + 1] = r[i]
      BY <2>4, <2>5, RefilledHead
    <3>4. ~EndsWith(t, m, r)
      BY <1>1, <3>1
    <3>5. Len(r) \in Nat /\ Len(t) \in Nat
      BY <3>1, <3>3, Lengths
    <3> HIDE DEF t, r, f
    <3>6. Len(t) = m + Len(r)
      BY <2>1, <3>2, <3>3, <3>5
    <3>7. ASSUME NEW k \in 1 .. Len(r)
          PROVE  r[k] = t[m + k]
      <4>1. /\ k + 1 \in 1 .. Len(f) /\ m + k \in 1 .. Len(t)
            /\ m + (k + 1) = (m + k) + 1
        <5>1. Len(f) = Len(r) + 1
          BY <3>3
        <5> QED BY <5>1, <3>5, <3>6
      <4>2. f[k + 1] = r[k] /\ s[(m + k) + 1] = t[m + k]
        BY <4>1, <3>2, <3>3
      <4>3. f[k + 1] = s[m + (k + 1)]
        BY <4>1, <2>2
      <4> QED BY <4>1, <4>2, <4>3
    <3> QED BY <3>4, <3>6, <3>7 DEF EndsWith
  <2>6. CASE Blank(s)
    <3> DEFINE w == Inside(s)
               t == After(s)
               g == NextWord(left)
               l == Others(left)
               r == Refilled(t, l)
               i == m + Len(g) - Len(w)
    <3>1. t \in Text /\ t \in P
      BY <1>1, <2>4, <2>6, RestIsShorter
    <3>2. /\ w \in Text /\ Len(s) = Len(w) + 4 + Len(t)
          /\ \A k \in 1 .. Len(w) : s[k + 2] = w[k] /\ w[k] \notin {"_", " "}
          /\ \A k \in 1 .. Len(t) : s[Len(w) + 4 + k] = t[k]
      BY <2>6, BlankParts
    <3>3. /\ g \in Text /\ l \in Seq(Text) /\ r \in Text
          /\ Len(f) = Len(g) + 4 + Len(r) /\ f[2] = "_"
          /\ \A k \in 1 .. Len(r) : f[Len(g) + 4 + k] = r[k]
      BY <2>6, RefilledParts
    <3>4. \A n \in Nat : n > 0 => ~EndsWith(t, n, r)
      BY <3>1, <3>3
    <3>5. Len(w) \in Nat /\ Len(t) \in Nat /\ Len(g) \in Nat /\ Len(r) \in Nat
      BY <3>1, <3>2, <3>3, Lengths
    <3>6. Len(s) = Len(w) + 4 + Len(t) /\ Len(f) = Len(g) + 4 + Len(r)
      BY <3>2, <3>3
    <3>7. f[2] = "_" /\ \A k \in 1 .. Len(w) : s[k + 2] # "_"
      BY <3>2, <3>3
    <3> HIDE DEF w, t, g, l, r, f
    <3>8. i \in Int /\ Len(t) = i + Len(r)
      BY <2>1, <3>5, <3>6
    <3>9. ~(i > 0)
      <4> SUFFICES ASSUME i > 0
                   PROVE  FALSE
        OBVIOUS
      <4>1. i \in Nat
        BY <3>8
      <4>2. ASSUME NEW k \in 1 .. Len(r)
            PROVE  r[k] = t[i + k]
        <5>1. /\ Len(g) + 4 + k \in 1 .. Len(f) /\ i + k \in 1 .. Len(t)
              /\ m + (Len(g) + 4 + k) = Len(w) + 4 + (i + k)
          BY <3>5, <3>6, <3>8, <4>1
        <5>2. f[Len(g) + 4 + k] = r[k]
          BY <3>3
        <5>3. s[Len(w) + 4 + (i + k)] = t[i + k]
          BY <5>1, <3>2, Zenon
        <5>4. f[Len(g) + 4 + k] = s[m + (Len(g) + 4 + k)]
          BY <5>1, <2>2, Zenon
        <5> QED BY <5>1, <5>2, <5>3, <5>4, Zenon
      <4> HIDE DEF i
      <4>3. EndsWith(t, i, r)
        BY <3>8, <4>2 DEF EndsWith
      <4> QED BY <3>4, <4>1, <4>3
    <3>10. m \in 1 .. Len(w) /\ 2 \in 1 .. Len(f)
      BY <1>1, <3>5, <3>6, <3>8, <3>9
    <3>11. s[m + 2] = "_"
      BY <2>2, <3>7, <3>10, Zenon
    <3> QED BY <3>7, <3>10, <3>11, Zenon
  <2> QED BY <2>5, <2>6
<1>2. \A s \in Text : (\A t \in Text : Len(t) < Len(s) => t \in P) => s \in P
  BY <1>1
<1> HIDE DEF P
<1>3. \A s \in Text : s \in P
  BY <1>2, TextInduction, Zenon
<1> QED BY <1>3 DEF P

(* And when a text filled in is the same text, it was with its own words:  *)
(* a longer word would move the rest of the text, and a shorter one would  *)
(* put an underscore where the word has none.                              *)
LEMMA OnlyItsWords ==
  \A s \in Text : \A left \in Seq(Text) :
    Len(left) >= Len(Words(s)) /\ Refilled(s, left) = s => Fits(s, left)
<1> DEFINE P == {s \in Text : \A left \in Seq(Text) :
                   Len(left) >= Len(Words(s)) /\ Refilled(s, left) = s => Fits(s, left)}
<1>1. ASSUME NEW s \in Text, \A t \in Text : Len(t) < Len(s) => t \in P,
             NEW left \in Seq(Text), Len(left) >= Len(Words(s)), Refilled(s, left) = s
      PROVE  Fits(s, left)
  <2>1. CASE s = << >>
    <3>1. Words(s) = << >>
      BY <2>1, WordsEquation
    <3>2. Len(Words(s)) = 0
      BY <3>1
    <3>3. \A n \in 1 .. Len(Words(s)) : FALSE
      BY <3>2
    <3> QED BY <3>3, Zenon DEF Fits
  <2>2. CASE s # << >> /\ ~Blank(s)
    <3> DEFINE t == Tail(s)
               r == Refilled(t, left)
               c == Head(s)
    <3>1. t \in Text /\ t \in P
      BY <1>1, <2>2, RestIsShorter
    <3>2. s = <<c>> \o t
      BY <2>2, Whole
    <3>3. s = <<c>> \o r
      BY <1>1, <2>2, RefilledCharacter
    <3>4. c \in Characters /\ r \in Text
      BY <2>2, <3>1, HeadAndTail, RefilledType
    <3>5. Len(Words(s)) = Len(Words(t))
      BY <2>2, WordsCharacter
    <3>6. r = t
      <4> HIDE DEF t, r, c
      <4>1. Tail(<<c>> \o t) = t /\ Tail(<<c>> \o r) = r
        BY <3>1, <3>4, PrefixedApart
      <4> QED BY <4>1, <3>2, <3>3, Zenon
    <3>7. Fits(t, left)
      BY <1>1, <3>1, <3>5, <3>6
    <3> QED BY <2>2, <3>7, FitsCharacter
  <2>3. CASE Blank(s)
    <3> DEFINE w == Inside(s)
               t == After(s)
               g == NextWord(left)
               l == Others(left)
               r == Refilled(t, l)
               m == Len(g) - Len(w)
    <3>1. t \in Text /\ t \in P
      BY <1>1, <2>3, EmptyIsNoBlank, RestIsShorter
    <3>2. /\ w \in Text /\ Len(s) = Len(w) + 4 + Len(t)
          /\ \A k \in 1 .. Len(w) : s[k + 2] = w[k] /\ w[k] \notin {"_", " "}
          /\ \A k \in 1 .. Len(t) : s[Len(w) + 4 + k] = t[k]
      BY <2>3, BlankParts
    <3>3. /\ g \in Text /\ l \in Seq(Text) /\ r \in Text
          /\ Len(s) = Len(g) + 4 + Len(r) /\ s[Len(g) + 3] = "_"
          /\ \A k \in 1 .. Len(g) : s[k + 2] = g[k]
          /\ \A k \in 1 .. Len(r) : s[Len(g) + 4 + k] = r[k]
      <4> DEFINE f == Refilled(s, left)
      <4>1. /\ g \in Text /\ l \in Seq(Text) /\ r \in Text
            /\ Len(f) = Len(g) + 4 + Len(r) /\ f[Len(g) + 3] = "_"
            /\ \A k \in 1 .. Len(g) : f[k + 2] = g[k]
            /\ \A k \in 1 .. Len(r) : f[Len(g) + 4 + k] = r[k]
        BY <2>3, RefilledParts
      <4>2. f = s
        BY <1>1
      <4> HIDE DEF f, g, l, r
      <4> QED BY <4>1, <4>2, Zenon
    <3>4. left # << >>
      BY <1>1, <2>3, FitsNothing
    <3>5. \A n \in Nat : n > 0 => ~EndsWith(t, n, r)
      BY <3>1, <3>3, NoSuffix
    <3>6. Len(w) \in Nat /\ Len(t) \in Nat /\ Len(g) \in Nat /\ Len(r) \in Nat
      BY <3>1, <3>2, <3>3, Lengths
    <3>7. Len(s) = Len(w) + 4 + Len(t) /\ Len(s) = Len(g) + 4 + Len(r)
      BY <3>2, <3>3
    <3>8. s[Len(g) + 3] = "_" /\ \A k \in 1 .. Len(w) : s[k + 2] # "_"
      BY <3>2, <3>3
    <3>9. /\ \A k \in 1 .. Len(g) : s[k + 2] = g[k]
          /\ \A k \in 1 .. Len(w) : s[k + 2] = w[k]
      BY <3>2, <3>3
    <3>10. /\ \A k \in 1 .. Len(r) : s[Len(g) + 4 + k] = r[k]
           /\ \A k \in 1 .. Len(t) : s[Len(w) + 4 + k] = t[k]
      BY <3>2, <3>3
    <3>11. Len(l) >= Len(Words(t))
      <4> DEFINE v == Words(t)
                 u == Words(s)
      <4>1. Len(v) \in Nat /\ Len(u) = Len(v) + 1
        BY <2>3, WordsBlank
      <4>2. l = Tail(left)
        BY <3>4 DEF Others
      <4>3. Len(left) >= Len(u)
        BY <1>1
      <4> HIDE DEF u, v, l
      <4>4. Len(left) \in Nat /\ Len(l) = Len(left) - 1
        BY <3>4, <4>2, HeadTailProperties
      <4>5. Len(l) >= Len(v)
        BY <4>1, <4>3, <4>4
      <4> QED BY <4>5 DEF v
    <3> HIDE DEF w, t, g, l, r
    <3>12. ~(m > 0)
      <4> SUFFICES ASSUME m > 0
                   PROVE  FALSE
        OBVIOUS
      <4>1. m \in Nat /\ Len(t) = m + Len(r)
        BY <3>6, <3>7
      <4>2. ASSUME NEW k \in 1 .. Len(r)
            PROVE  r[k] = t[m + k]
        <5>1. m + k \in 1 .. Len(t) /\ Len(g) + 4 + k = Len(w) + 4 + (m + k)
          BY <3>6, <4>1
        <5>2. s[Len(g) + 4 + k] = r[k]
          BY <3>10
        <5>3. s[Len(w) + 4 + (m + k)] = t[m + k]
          BY <5>1, <3>10, Zenon
        <5> QED BY <5>1, <5>2, <5>3, Zenon
      <4> HIDE DEF m
      <4>3. EndsWith(t, m, r)
        BY <4>1, <4>2 DEF EndsWith
      <4> QED BY <3>5, <4>1, <4>3
    <3>13. ~(Len(g) < Len(w))
      <4> SUFFICES ASSUME Len(g) < Len(w)
                   PROVE  FALSE
        OBVIOUS
      <4>1. Len(g) + 1 \in 1 .. Len(w) /\ (Len(g) + 1) + 2 = Len(g) + 3
        BY <3>6
      <4>2. s[(Len(g) + 1) + 2] # "_"
        BY <3>8, <4>1, Zenon
      <4> QED BY <3>8, <4>1, <4>2, Zenon
    <3>14. Len(g) = Len(w) /\ Len(r) = Len(t)
      BY <3>6, <3>7, <3>12, <3>13
    <3>15. g = w
      <4>1. g \in Text /\ w \in Text /\ Len(g) = Len(w)
        BY <3>2, <3>3, <3>14
      <4>2. \A k \in 1 .. Len(g) : g[k] = w[k]
        BY <3>9, <3>14, Zenon
      <4> QED BY <4>1, <4>2, SameText, Zenon
    <3>16. r = t
      <4>1. r \in Text /\ t \in Text /\ Len(r) = Len(t)
        BY <3>1, <3>3, <3>14
      <4>2. \A k \in 1 .. Len(r) : r[k] = t[k]
        BY <3>10, <3>14, Zenon
      <4> QED BY <4>1, <4>2, SameText, Zenon
    <3>17. Fits(t, l)
      BY <3>1, <3>3, <3>11, <3>16 DEF r
    <3> QED BY <2>3, <3>4, <3>15, <3>17, FitsBlank DEF g, w, t, l
  <2> QED BY <2>1, <2>2, <2>3
<1>2. \A s \in Text : (\A t \in Text : Len(t) < Len(s) => t \in P) => s \in P
  BY <1>1
<1> HIDE DEF P
<1>3. \A s \in Text : s \in P
  BY <1>2, TextInduction, Zenon
<1> QED BY <1>3 DEF P

(* The edit form shows the text of which the title and the words are.      *)
THEOREM FormIsText ==
  ASSUME NEW s \in Text
  PROVE  Refilled(Refilled(s, << >>), Words(s)) = s
<1>1. Words(s) \in Seq(Text)
  BY WordsType
<1>2. Fits(s, Words(s))
  <2>1. \A n \in 1 .. Len(Words(s)) : n <= Len(Words(s))
    BY <1>1
  <2> QED BY <2>1, Zenon DEF Fits
<1>3. Refilled(Refilled(s, << >>), Words(s)) = Refilled(s, Words(s))
  BY <1>1, RefilledTitle
<1>4. Refilled(s, Words(s)) = s
  BY <1>1, <1>2, RoundTrip
<1> QED BY <1>3, <1>4, Zenon

(* The page filled in reads as that text exactly if the answers are its    *)
(* words.                                                                  *)
THEOREM PageIsText ==
  ASSUME NEW s \in Text, NEW given \in Seq(Text),
         Len(given) = Len(Words(Refilled(s, << >>)))
  PROVE  Refilled(Refilled(s, << >>), given) = s
           <=> \A n \in DOMAIN Words(s) : n \in DOMAIN given /\ given[n] = Words(s)[n]
<1>1. Words(s) \in Seq(Text) /\ Len(Words(s)) \in Nat /\ Len(given) = Len(Words(s))
  <2>1. Len(given) = Len(Words(s))
    BY CountTitle, Zenon
  <2>2. Words(s) \in Seq(Text)
    BY WordsType
  <2> QED BY <2>1, <2>2
<1>2. DOMAIN Words(s) = 1 .. Len(Words(s)) /\ DOMAIN given = 1 .. Len(Words(s))
  BY <1>1
<1>3. \A n \in 1 .. Len(Words(s)) : n <= Len(given)
  BY <1>1
<1>4. Fits(s, given) <=>
        \A n \in DOMAIN Words(s) : n \in DOMAIN given /\ given[n] = Words(s)[n]
  BY <1>2, <1>3, Zenon DEF Fits
<1>5. Refilled(Refilled(s, << >>), given) = Refilled(s, given)
  BY RefilledTitle
<1>6. Len(given) >= Len(Words(s))
  BY <1>1
<1>7. Refilled(s, given) = s <=> Fits(s, given)
  BY <1>6, RoundTrip, OnlyItsWords, Zenon
<1> QED BY <1>4, <1>5, <1>7, Zenon

-----------------------------------------------------------------------------
(* The fill-in-the-blank question.                                         *)

(* What is saved of a text.                                                *)
Saved(text) == [title |-> Refilled(text, << >>), words |-> Words(text)]

(* It is a title and words.                                                *)
LEMMA SavedType ==
  \A text \in Text : Saved(text) \in [title : Text, words : Seq(Text)]
<1>1. << >> \in Seq(Text)
  OBVIOUS
<1>2. \A text \in Text : Refilled(text, << >>) \in Text
  BY <1>1, RefilledType, Zenon
<1> QED BY <1>2, WordsType DEF Saved

(* The operators of the instance are those of the text.                    *)
LEMMA TypingIsText ==
  /\ Typing!Text = Text
  /\ \A s, w : Typing!Refilled(s, w) = Refilled(s, w)
  /\ \A s : Typing!Words(s) = Words(s)
  /\ \A s : Typing!Parsed(s) = Saved(s)
<1>1. Typing!Text = Text
  BY DEF Typing!Text, Text
<1>2. \A s, w : Typing!Refilled(s, w) = Refilled(s, w)
  BY DEF Refilled, Typing!Refilled, Blank, Typing!Blank, After, Typing!After,
         InBlank, Typing!InBlank, BlankEnd, Typing!BlankEnd, Match, Typing!Match,
         Text, Typing!Text
<1>3. \A s : Typing!Words(s) = Words(s)
  BY DEF Words, Typing!Words, Blank, Typing!Blank, After, Typing!After,
         Inside, Typing!Inside, BlankEnd, Typing!BlankEnd, Match, Typing!Match,
         Text, Typing!Text
<1>4. \A s : Typing!Parsed(s) = Saved(s)
  BY <1>2, <1>3, Zenon DEF Typing!Parsed, Saved
<1> QED BY <1>1, <1>2, <1>3, <1>4

(* The row is made of the text saved last unless two saves met, and the    *)
(* attempt of the text it has a copy of.                                   *)
TypingInv ==
  /\ Typing!TypeOK
  /\ va # Typing!NoRow => ve \in OfTyping.Texts /\ (~vf => va = Saved(ve))
  /\ vg # Typing!Nothing => vd = Saved(vg)

(* The constants, as they are used below.                                  *)
LEMMA TypingConstants ==
  /\ OfTyping.Texts \subseteq Text /\ OfTyping.Answered \subseteq Text
  /\ OfTyping.MaxSaves \in Nat /\ << >> \notin OfTyping.Texts
<1>1. Typing!FillInTheBlankAssumption
  BY ServicesAssumption DEF ServicesAssumption
<1>2. /\ OfTyping.Texts \subseteq Text /\ OfTyping.Answered \subseteq Text
      /\ OfTyping.MaxSaves \in Nat /\ \A text \in OfTyping.Texts : Len(text) > 0
  BY <1>1, TypingIsText, Zenon DEF Typing!FillInTheBlankAssumption
<1>3. ~(Len(<< >>) > 0)
  OBVIOUS
<1> QED BY <1>2, <1>3, Zenon

(* What a save leaves of the row it loaded is the new row.                 *)
LEMMA TypingWritten ==
  ASSUME NEW row, NEW new, NEW loaded, loaded = row,
         new \in [title : Text, words : Seq(Text)]
  PROVE  [title |-> Typing!Written(row.title, loaded.title, new.title),
          words |-> Typing!Written(row.words, loaded.words, new.words)] = new
BY DEF Typing!Written

(* The invariant holds of the first state.                                 *)
LEMMA TypingStarts == Typing!Init => TypingInv
<1> SUFFICES ASSUME Typing!Init
             PROVE  TypingInv
  OBVIOUS
<1>1. << >> \in Text /\ << >> \in Seq(Text)
  BY DEF Text
<1>2. Typing!NoRow \in Typing!Rows
  BY <1>1, TypingIsText DEF Typing!NoRow, Typing!Rows
<1>3. Typing!TypeOK
  <2>1. 0 \in 0 .. OfTyping.MaxSaves
    BY TypingConstants
  <2>2. /\ va = Typing!NoRow /\ vd = Typing!NoRow /\ vc = 0 /\ vf = FALSE
        /\ ve = Typing!Nothing /\ vg = Typing!Nothing
        /\ vb = [r \in OfTyping.Requests |-> Typing!Idle]
    BY DEF Typing!Init
  <2> QED BY <1>2, <2>1, <2>2 DEF Typing!TypeOK
<1> QED BY <1>3 DEF Typing!Init, TypingInv

(* A save that met the row it had loaded leaves what is made of its text,  *)
(* another one is remembered as mixed, and an attempt copies the row.      *)
LEMMA TypingKeeps == TypingInv /\ [Typing!Next]_(Typing!vars) => TypingInv'
<1> SUFFICES ASSUME TypingInv, [Typing!Next]_(Typing!vars)
             PROVE  TypingInv'
  OBVIOUS
<1> USE DEF TypingInv
<1>0. /\ \A text \in OfTyping.Texts : /\ Typing!Parsed(text) = Saved(text)
                                      /\ Saved(text) \in Typing!Rows
      /\ Typing!Rows = [title : Text, words : Seq(Text)]
  <2>1. Typing!Rows = [title : Text, words : Seq(Text)]
    BY TypingIsText DEF Typing!Rows
  <2> QED BY <2>1, TypingIsText, TypingConstants, SavedType
<1>1. ASSUME NEW text \in OfTyping.Texts, Typing!acl_addFillInTheBlankQuestion(text)
      PROVE  TypingInv'
  <2>1. Typing!TypeOK'
    BY <1>0, <1>1 DEF Typing!acl_addFillInTheBlankQuestion, Typing!TypeOK
  <2> QED BY <2>1, <1>0, <1>1 DEF Typing!acl_addFillInTheBlankQuestion
<1>2. ASSUME NEW text \in OfTyping.Texts, NEW r \in OfTyping.Requests,
             Typing!acl_updateFillInTheBlankQuestion(r, text)
      PROVE  TypingInv'
  <2>1. vc' \in 0 .. OfTyping.MaxSaves
    BY <1>2, TypingConstants DEF Typing!acl_updateFillInTheBlankQuestion, Typing!TypeOK
  <2>2. [op |-> "update", loaded |-> va, text |-> text]
          \in [op : {"update"}, loaded : Typing!Rows, text : OfTyping.Texts]
    BY DEF Typing!TypeOK
  <2>3. Typing!TypeOK'
    BY <1>2, <2>1, <2>2 DEF Typing!acl_updateFillInTheBlankQuestion, Typing!TypeOK
  <2> QED BY <2>3, <1>2 DEF Typing!acl_updateFillInTheBlankQuestion
<1>3. ASSUME NEW r \in OfTyping.Requests, Typing!update_flush(r)
      PROVE  TypingInv'
  <2> DEFINE new == Typing!Parsed(vb[r].text)
  <2>1. /\ vb[r] \in [op : {"update"}, loaded : Typing!Rows, text : OfTyping.Texts]
        /\ vb[r].text \in OfTyping.Texts /\ vb[r].loaded \in Typing!Rows
    BY <1>3 DEF Typing!update_flush, Typing!TypeOK
  <2>2. new = Saved(vb[r].text) /\ new \in Typing!Rows
    BY <1>0, <2>1
  <2>3. /\ va' = [title |-> Typing!Written(va.title, vb[r].loaded.title, new.title),
                  words |-> Typing!Written(va.words, vb[r].loaded.words, new.words)]
        /\ ve' = vb[r].text /\ vf' = (va # vb[r].loaded)
        /\ vb' = [vb EXCEPT ![r] = Typing!Idle]
        /\ UNCHANGED <<vc, vd, vg>>
    BY <1>3 DEF Typing!update_flush
  <2> HIDE DEF new
  <2>4. va' \in Typing!Rows
    BY <1>0, <2>2, <2>3 DEF Typing!TypeOK, Typing!Written
  <2>5. vf' \in BOOLEAN
    BY <2>3
  <2>6. Typing!TypeOK'
    BY <2>1, <2>3, <2>4, <2>5 DEF Typing!TypeOK
  <2>7. ~vf' => va' = new
    BY <1>0, <2>2, <2>3, TypingWritten
  <2> QED BY <2>1, <2>2, <2>3, <2>6, <2>7
<1>4. ASSUME Typing!acl_takeAssessment
      PROVE  TypingInv'
  <2>1. /\ va # Typing!NoRow /\ vd' = va /\ vg' = IF vf THEN Typing!Nothing ELSE ve
        /\ UNCHANGED <<va, vb, vc, ve, vf>>
    BY <1>4 DEF Typing!acl_takeAssessment
  <2>2. Typing!TypeOK'
    BY <2>1 DEF Typing!TypeOK
  <2> QED BY <2>1, <2>2
<1>5. CASE UNCHANGED Typing!vars
  BY <1>5 DEF Typing!vars, Typing!TypeOK
<1> QED BY <1>1, <1>2, <1>3, <1>4, <1>5 DEF Typing!Next

(* From the invariant follows what the pages show, by what was proved of   *)
(* the texts.                                                              *)
LEMMA TypingShows == TypingInv => Typing!EditShowsTyped /\ Typing!RightIsAsTyped
<1> SUFFICES ASSUME TypingInv
             PROVE  Typing!EditShowsTyped /\ Typing!RightIsAsTyped
  OBVIOUS
<1>1. Typing!EditShowsTyped
  <2> SUFFICES ASSUME va # Typing!NoRow, ~vf
               PROVE  Typing!Form(va) = ve
    BY DEF Typing!EditShowsTyped
  <2>1. ve \in Text /\ va = Saved(ve)
    BY TypingConstants DEF TypingInv
  <2>2. va.title = Refilled(ve, << >>) /\ va.words = Words(ve)
    BY <2>1 DEF Saved
  <2>3. Typing!Form(va) = Refilled(va.title, va.words)
    BY TypingIsText, Zenon DEF Typing!Form
  <2> QED BY <2>1, <2>2, <2>3, FormIsText, Zenon
<1>2. Typing!RightIsAsTyped
  <2> SUFFICES ASSUME vg # Typing!Nothing, NEW given \in Typing!Sheets(vd)
               PROVE  Typing!Right(vd, given) <=> Typing!Refilled(vd.title, given) = vg
    BY DEF Typing!RightIsAsTyped
  <2>1. vg \in Text /\ vd = Saved(vg)
    BY TypingConstants DEF TypingInv, Typing!TypeOK
  <2>2. vd.title = Refilled(vg, << >>) /\ vd.words = Words(vg)
    BY <2>1 DEF Saved
  <2>3. given \in [1 .. Len(Words(vd.title)) -> OfTyping.Answered]
    BY TypingIsText, Zenon DEF Typing!Sheets
  <2>4. Len(Words(vd.title)) \in Nat
    <3>1. << >> \in Seq(Text)
      OBVIOUS
    <3>2. vd.title \in Text
      BY <2>1, <2>2, <3>1, RefilledType, Zenon
    <3>3. Words(vd.title) \in Seq(Text)
      BY <3>2, WordsType
    <3> QED BY <3>3
  <2>5. given \in Seq(Text) /\ Len(given) = Len(Words(vd.title))
    <3> DEFINE n == Len(Words(vd.title))
    <3>1. n \in Nat /\ given \in [1 .. n -> Text]
      BY <2>3, <2>4, TypingConstants
    <3> HIDE DEF n
    <3>2. given \in Seq(Text) /\ Len(given) = n
      BY <3>1
    <3> QED BY <3>2 DEF n
  <2>6. Refilled(vd.title, given) = vg
          <=> \A n \in DOMAIN vd.words : n \in DOMAIN given /\ given[n] = vd.words[n]
    <3>1. Len(given) = Len(Words(Refilled(vg, << >>)))
      BY <2>2, <2>5, Zenon
    <3>2. Refilled(Refilled(vg, << >>), given) = vg
            <=> \A n \in DOMAIN Words(vg) : n \in DOMAIN given /\ given[n] = Words(vg)[n]
      BY <2>1, <2>5, <3>1, PageIsText
    <3> QED BY <2>2, <3>2, Zenon
  <2> QED BY <2>6, TypingIsText, Zenon DEF Typing!Right
<1> QED BY <1>1, <1>2

(* The same, for the other instance: its operators are those of the text.  *)
LEMMA QuestionIsText ==
  /\ Question!Text = Text
  /\ \A s, w : Question!Refilled(s, w) = Refilled(s, w)
  /\ \A s : Question!Words(s) = Words(s)
  /\ \A s : Question!Parsed(s) = Saved(s)
<1>1. Question!Text = Text
  BY DEF Question!Text, Text
<1>2. \A s, w : Question!Refilled(s, w) = Refilled(s, w)
  BY DEF Refilled, Question!Refilled, Blank, Question!Blank, After, Question!After,
         InBlank, Question!InBlank, BlankEnd, Question!BlankEnd, Match, Question!Match,
         Text, Question!Text
<1>3. \A s : Question!Words(s) = Words(s)
  BY DEF Words, Question!Words, Blank, Question!Blank, After, Question!After,
         Inside, Question!Inside, BlankEnd, Question!BlankEnd, Match, Question!Match,
         Text, Question!Text
<1>4. \A s : Question!Parsed(s) = Saved(s)
  BY <1>2, <1>3, Zenon DEF Question!Parsed, Saved
<1> QED BY <1>1, <1>2, <1>3, <1>4

(* The row is made of the text saved last unless two saves met, and the    *)
(* attempt of the text it has a copy of.                                   *)
QuestionInv ==
  /\ Question!TypeOK
  /\ va # Question!NoRow => ve \in OfQuestion.Texts /\ (~vf => va = Saved(ve))
  /\ vg # Question!Nothing => vd = Saved(vg)

(* The constants, as they are used below.                                  *)
LEMMA QuestionConstants ==
  /\ OfQuestion.Texts \subseteq Text /\ OfQuestion.Answered \subseteq Text
  /\ OfQuestion.MaxSaves \in Nat /\ << >> \notin OfQuestion.Texts
<1>1. Question!FillInTheBlankAssumption
  BY ServicesAssumption DEF ServicesAssumption
<1>2. /\ OfQuestion.Texts \subseteq Text /\ OfQuestion.Answered \subseteq Text
      /\ OfQuestion.MaxSaves \in Nat /\ \A text \in OfQuestion.Texts : Len(text) > 0
  BY <1>1, QuestionIsText, Zenon DEF Question!FillInTheBlankAssumption
<1>3. ~(Len(<< >>) > 0)
  OBVIOUS
<1> QED BY <1>2, <1>3, Zenon

(* What a save leaves of the row it loaded is the new row.                 *)
LEMMA QuestionWritten ==
  ASSUME NEW row, NEW new, NEW loaded, loaded = row,
         new \in [title : Text, words : Seq(Text)]
  PROVE  [title |-> Question!Written(row.title, loaded.title, new.title),
          words |-> Question!Written(row.words, loaded.words, new.words)] = new
BY DEF Question!Written

(* The invariant holds of the first state.                                 *)
LEMMA QuestionStarts == Question!Init => QuestionInv
<1> SUFFICES ASSUME Question!Init
             PROVE  QuestionInv
  OBVIOUS
<1>1. << >> \in Text /\ << >> \in Seq(Text)
  BY DEF Text
<1>2. Question!NoRow \in Question!Rows
  BY <1>1, QuestionIsText DEF Question!NoRow, Question!Rows
<1>3. Question!TypeOK
  <2>1. 0 \in 0 .. OfQuestion.MaxSaves
    BY QuestionConstants
  <2>2. /\ va = Question!NoRow /\ vd = Question!NoRow /\ vc = 0 /\ vf = FALSE
        /\ ve = Question!Nothing /\ vg = Question!Nothing
        /\ vb = [r \in OfQuestion.Requests |-> Question!Idle]
    BY DEF Question!Init
  <2> QED BY <1>2, <2>1, <2>2 DEF Question!TypeOK
<1> QED BY <1>3 DEF Question!Init, QuestionInv

(* A save that met the row it had loaded leaves what is made of its text,  *)
(* another one is remembered as mixed, and an attempt copies the row.      *)
LEMMA QuestionKeeps == QuestionInv /\ [Question!Next]_(Question!vars) => QuestionInv'
<1> SUFFICES ASSUME QuestionInv, [Question!Next]_(Question!vars)
             PROVE  QuestionInv'
  OBVIOUS
<1> USE DEF QuestionInv
<1>0. /\ \A text \in OfQuestion.Texts : /\ Question!Parsed(text) = Saved(text)
                                      /\ Saved(text) \in Question!Rows
      /\ Question!Rows = [title : Text, words : Seq(Text)]
  <2>1. Question!Rows = [title : Text, words : Seq(Text)]
    BY QuestionIsText DEF Question!Rows
  <2> QED BY <2>1, QuestionIsText, QuestionConstants, SavedType
<1>1. ASSUME NEW text \in OfQuestion.Texts, Question!acl_addFillInTheBlankQuestion(text)
      PROVE  QuestionInv'
  <2>1. Question!TypeOK'
    BY <1>0, <1>1 DEF Question!acl_addFillInTheBlankQuestion, Question!TypeOK
  <2> QED BY <2>1, <1>0, <1>1 DEF Question!acl_addFillInTheBlankQuestion
<1>2. ASSUME NEW text \in OfQuestion.Texts, NEW r \in OfQuestion.Requests,
             Question!acl_updateFillInTheBlankQuestion(r, text)
      PROVE  QuestionInv'
  <2>1. vc' \in 0 .. OfQuestion.MaxSaves
    BY <1>2, QuestionConstants DEF Question!acl_updateFillInTheBlankQuestion, Question!TypeOK
  <2>2. [op |-> "update", loaded |-> va, text |-> text]
          \in [op : {"update"}, loaded : Question!Rows, text : OfQuestion.Texts]
    BY DEF Question!TypeOK
  <2>3. Question!TypeOK'
    BY <1>2, <2>1, <2>2 DEF Question!acl_updateFillInTheBlankQuestion, Question!TypeOK
  <2> QED BY <2>3, <1>2 DEF Question!acl_updateFillInTheBlankQuestion
<1>3. ASSUME NEW r \in OfQuestion.Requests, Question!update_flush(r)
      PROVE  QuestionInv'
  <2> DEFINE new == Question!Parsed(vb[r].text)
  <2>1. /\ vb[r] \in [op : {"update"}, loaded : Question!Rows, text : OfQuestion.Texts]
        /\ vb[r].text \in OfQuestion.Texts /\ vb[r].loaded \in Question!Rows
    BY <1>3 DEF Question!update_flush, Question!TypeOK
  <2>2. new = Saved(vb[r].text) /\ new \in Question!Rows
    BY <1>0, <2>1
  <2>3. /\ va' = [title |-> Question!Written(va.title, vb[r].loaded.title, new.title),
                  words |-> Question!Written(va.words, vb[r].loaded.words, new.words)]
        /\ ve' = vb[r].text /\ vf' = (va # vb[r].loaded)
        /\ vb' = [vb EXCEPT ![r] = Question!Idle]
        /\ UNCHANGED <<vc, vd, vg>>
    BY <1>3 DEF Question!update_flush
  <2> HIDE DEF new
  <2>4. va' \in Question!Rows
    BY <1>0, <2>2, <2>3 DEF Question!TypeOK, Question!Written
  <2>5. vf' \in BOOLEAN
    BY <2>3
  <2>6. Question!TypeOK'
    BY <2>1, <2>3, <2>4, <2>5 DEF Question!TypeOK
  <2>7. ~vf' => va' = new
    BY <1>0, <2>2, <2>3, QuestionWritten
  <2> QED BY <2>1, <2>2, <2>3, <2>6, <2>7
<1>4. ASSUME Question!acl_takeAssessment
      PROVE  QuestionInv'
  <2>1. /\ va # Question!NoRow /\ vd' = va /\ vg' = IF vf THEN Question!Nothing ELSE ve
        /\ UNCHANGED <<va, vb, vc, ve, vf>>
    BY <1>4 DEF Question!acl_takeAssessment
  <2>2. Question!TypeOK'
    BY <2>1 DEF Question!TypeOK
  <2> QED BY <2>1, <2>2
<1>5. CASE UNCHANGED Question!vars
  BY <1>5 DEF Question!vars, Question!TypeOK
<1> QED BY <1>1, <1>2, <1>3, <1>4, <1>5 DEF Question!Next

(* From the invariant follows what the pages show, by what was proved of   *)
(* the texts.                                                              *)
LEMMA QuestionShows == QuestionInv => Question!EditShowsTyped /\ Question!RightIsAsTyped
<1> SUFFICES ASSUME QuestionInv
             PROVE  Question!EditShowsTyped /\ Question!RightIsAsTyped
  OBVIOUS
<1>1. Question!EditShowsTyped
  <2> SUFFICES ASSUME va # Question!NoRow, ~vf
               PROVE  Question!Form(va) = ve
    BY DEF Question!EditShowsTyped
  <2>1. ve \in Text /\ va = Saved(ve)
    BY QuestionConstants DEF QuestionInv
  <2>2. va.title = Refilled(ve, << >>) /\ va.words = Words(ve)
    BY <2>1 DEF Saved
  <2>3. Question!Form(va) = Refilled(va.title, va.words)
    BY QuestionIsText, Zenon DEF Question!Form
  <2> QED BY <2>1, <2>2, <2>3, FormIsText, Zenon
<1>2. Question!RightIsAsTyped
  <2> SUFFICES ASSUME vg # Question!Nothing, NEW given \in Question!Sheets(vd)
               PROVE  Question!Right(vd, given) <=> Question!Refilled(vd.title, given) = vg
    BY DEF Question!RightIsAsTyped
  <2>1. vg \in Text /\ vd = Saved(vg)
    BY QuestionConstants DEF QuestionInv, Question!TypeOK
  <2>2. vd.title = Refilled(vg, << >>) /\ vd.words = Words(vg)
    BY <2>1 DEF Saved
  <2>3. given \in [1 .. Len(Words(vd.title)) -> OfQuestion.Answered]
    BY QuestionIsText, Zenon DEF Question!Sheets
  <2>4. Len(Words(vd.title)) \in Nat
    <3>1. << >> \in Seq(Text)
      OBVIOUS
    <3>2. vd.title \in Text
      BY <2>1, <2>2, <3>1, RefilledType, Zenon
    <3>3. Words(vd.title) \in Seq(Text)
      BY <3>2, WordsType
    <3> QED BY <3>3
  <2>5. given \in Seq(Text) /\ Len(given) = Len(Words(vd.title))
    <3> DEFINE n == Len(Words(vd.title))
    <3>1. n \in Nat /\ given \in [1 .. n -> Text]
      BY <2>3, <2>4, QuestionConstants
    <3> HIDE DEF n
    <3>2. given \in Seq(Text) /\ Len(given) = n
      BY <3>1
    <3> QED BY <3>2 DEF n
  <2>6. Refilled(vd.title, given) = vg
          <=> \A n \in DOMAIN vd.words : n \in DOMAIN given /\ given[n] = vd.words[n]
    <3>1. Len(given) = Len(Words(Refilled(vg, << >>)))
      BY <2>2, <2>5, Zenon
    <3>2. Refilled(Refilled(vg, << >>), given) = vg
            <=> \A n \in DOMAIN Words(vg) : n \in DOMAIN given /\ given[n] = Words(vg)[n]
      BY <2>1, <2>5, <3>1, PageIsText
    <3> QED BY <2>2, <3>2, Zenon
  <2> QED BY <2>6, QuestionIsText, Zenon DEF Question!Right
<1> QED BY <1>1, <1>2

BlanksHold ==
  /\ about = "a text"     => TypingInv
  /\ about = "a question" => QuestionInv

(* The invariant of FillInTheBlank holds of the first state.               *)
LEMMA BlanksStart == Init => BlanksHold
<1>1. Init => /\ about = "a text"     => Typing!Init
              /\ about = "a question" => Question!Init
  BY DEF Init
<1> QED BY <1>1, TypingStarts, QuestionStarts DEF BlanksHold

(* A step of the sum is one of FillInTheBlank or does not touch it.        *)
LEMMA BlanksStep == BlanksHold /\ [Next]_vars => BlanksHold'
<1>1. [Next]_vars => about' = about
  BY DEF Next, vars
<1>2. [Next]_vars => /\ about = "a text"     => [Typing!Next]_(Typing!vars)
                     /\ about = "a question" => [Question!Next]_(Question!vars)
  BY DEF Next, vars, Typing!vars, Question!vars
<1> QED BY <1>1, <1>2, TypingKeeps, QuestionKeeps DEF BlanksHold

(* Unless two saves met, the row is made of the text saved last, and an    *)
(* attempt has a copy of what is made of the text saved when it began.     *)
THEOREM BlanksInvariant == Spec => []BlanksHold
BY BlanksStart, BlanksStep, PTL DEF Spec

(* The edit page shows the text that was saved last, however its blanks    *)
(* and its other underscores lie, unless two saves met.                    *)
THEOREM EditCorrect == Spec => []EditShowsTyped
<1>1. BlanksHold => EditShowsTyped
  BY TypingShows, QuestionShows DEF BlanksHold, EditShowsTyped
<1> QED BY <1>1, BlanksInvariant, PTL

(* Answers are right exactly if the student's page, filled in with them,   *)
(* reads as the text that was saved when the attempt began.                *)
THEOREM RightCorrect == Spec => []RightIsAsTyped
<1>1. BlanksHold => RightIsAsTyped
  BY TypingShows, QuestionShows DEF BlanksHold, RightIsAsTyped
<1> QED BY <1>1, BlanksInvariant, PTL

-----------------------------------------------------------------------------
(* All of them.                                                            *)

Subjects == {"accounts", "account", "course", "answers", "one tab", "two tabs", "a quiz",
             "page", "a text", "a question"}

AllHold ==
  /\ about \in Subjects
  /\ AccountsHold /\ DiscussionsHold /\ CurriculumsHold /\ PageHolds /\ BlanksHold

(* The invariants together say of what the variables are made.             *)
LEMMA AllTyped == AllHold => TypeOK
<1> SUFFICES ASSUME AllHold
             PROVE  TypeOK
  OBVIOUS
<1>1. /\ about = "accounts" => Accounts!TypeOK
      /\ about = "account"  => OneAccount!TypeOK
  BY DEF AllHold, AccountsHold, Accounts!IInv, OneAccount!IInv
<1>2. /\ about = "course"  => Course!TypeOK
      /\ about = "answers" => Answers!TypeOK
  BY DEF AllHold, DiscussionsHold, Course!IInv, Answers!IInv
<1>3. /\ about = "one tab"  => OneTab!TypeOK
      /\ about = "two tabs" => TwoTabs!TypeOK
      /\ about = "a quiz"   => Quiz!TypeOK
  BY ServicesAssumption, OneTab!Types, TwoTabs!Types, Quiz!Types
     DEF AllHold, CurriculumsHold, ServicesAssumption
<1>4. about = "page" => Page!TypeOK
  BY DEF AllHold, PageHolds, Page!IInv
<1>5. /\ about = "a text"     => Typing!TypeOK
      /\ about = "a question" => Question!TypeOK
  BY DEF AllHold, BlanksHold, TypingInv, QuestionInv
<1>6. about \in Subjects
  BY DEF AllHold
<1> QED BY <1>1, <1>2, <1>3, <1>4, <1>5, <1>6, Zenon DEF TypeOK, Subjects

(* The variables are always those of the module that the behaviour is      *)
(* about, of the types it gives them.                                      *)
THEOREM TypeCorrect == Spec => []TypeOK
<1>1. Init => about \in Subjects
  BY DEF Init, Subjects
<1>2. about \in Subjects /\ [Next]_vars => (about \in Subjects)'
  BY DEF Next, vars, Subjects
<1>3. Spec => [](about \in Subjects)
  BY <1>1, <1>2, PTL DEF Spec
<1>4. (about \in Subjects) /\ AccountsHold /\ DiscussionsHold /\ CurriculumsHold
        /\ PageHolds /\ BlanksHold => TypeOK
  BY AllTyped DEF AllHold
<1> QED
  BY <1>3, <1>4, AccountsInvariant, DiscussionsInvariant, CurriculumsInvariant,
     PageInvariant, BlanksInvariant, PTL
=============================================================================
