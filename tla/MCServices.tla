---------------------------- MODULE MCServices ----------------------------
(* Small instances of the services for TLC. *)
EXTENDS Services

CONSTANTS
  e1, e2, r1, r2,             \* Account
  u1, u2, n1, q1, q2, a1,     \* Discussion
  t1, s1, s2,                 \* Curriculum
  x1, x2                      \* CoursePage

(* What there is to hash, and the filters on it. *)
Hashed == {"x", "y", " x", "&", "&amp;", "&amp;amp;", "&amp;amp;amp;"}
Trimmed == [t \in Hashed |-> IF t = " x" THEN "x" ELSE t]
Entities == [t \in Hashed |-> CASE t = "&"         -> "&amp;"
                               [] t = "&amp;"     -> "&amp;amp;"
                               [] t = "&amp;amp;" -> "&amp;amp;amp;"
                               [] OTHER           -> t]

(* Two accounts, and passwords that the filters leave as they are ... *)
TwoAccounts ==
  [MaxUsers |-> 2, Emails |-> {e1, e2}, Passwords |-> {"x", "y"}, Texts |-> Hashed,
   StringTrim |-> Trimmed, HtmlEntities |-> Entities,
   Requests |-> {r1, r2}, MaxCalls |-> 3]

(* ... or one account and one request after the other, but passwords that  *)
(* every form trims, that some escape, and that one makes of another.      *)
FourPasswords ==
  [MaxUsers |-> 1, Emails |-> {e1}, Passwords |-> {"x", " x", "&", "&amp;"},
   Texts |-> Hashed, StringTrim |-> Trimmed, HtmlEntities |-> Entities,
   Requests |-> {r1}, MaxCalls |-> 3]

(* An announcement and a question, each mailed to two subscribers ... *)
TwoPosts ==
  [Users |-> {u1, u2}, Announcements |-> {n1}, Questions |-> {q1},
   ContentQuestions |-> {}, Answers |-> {}, MaxDeaths |-> 1]

(* ... or an answer, to a question about the course or about a content. *)
OneAnswer ==
  [Users |-> {u1}, Announcements |-> {}, Questions |-> {q1, q2},
   ContentQuestions |-> {q2}, Answers |-> {a1}, MaxDeaths |-> 1]

(* One tab, and chapters with lectures and a quiz of the same id as one ... *)
ThreeChapters ==
  [MaxChapters |-> 3, OldChapters |-> 2, ContentIds |-> {1, 2}, AssessmentIds |-> {2},
   OldItems |-> {<<"content", 1>>, <<"assessment", 2>>}, Tabs |-> {t1}, MaxCalls |-> 2]

(* ... or two tabs, and little to drag ... *)
OneLecture ==
  [MaxChapters |-> 2, OldChapters |-> 1, ContentIds |-> {1}, AssessmentIds |-> {},
   OldItems |-> {<<"content", 1>>}, Tabs |-> {s1, s2}, MaxCalls |-> 2]

(* ... or one tab and a quiz, but a drop that fails, another one, and the  *)
(* deletion of the chapter.                                                *)
OneQuiz ==
  [MaxChapters |-> 2, OldChapters |-> 1, ContentIds |-> {}, AssessmentIds |-> {1},
   OldItems |-> {<<"assessment", 1>>}, Tabs |-> {t1}, MaxCalls |-> 3]

TwoQuestions == [Questions |-> {x1, x2}, MaxClicks |-> 5]

Alphabet == {"_", " ", "x", "y", "blank"}

(* Texts of up to four pieces, saved once ... *)
X == <<"_", "_", "x", "_", "_">>
Y == <<"_", "_", "y", "_", "_">>
Pieces == {X, Y, <<"_">>, <<"x">>, <<" ">>}
Joined(f) == LET upTo[i \in 0 .. Len(f)] == IF i = 0 THEN << >> ELSE upTo[i - 1] \o f[i]
             IN  upTo[Len(f)]
Typable == {text \in {Joined(f) : f \in UNION {[1 .. n -> Pieces] : n \in 1 .. 4}} :
              text[1] # " " /\ text[Len(text)] # " "}

ManyTexts ==
  [Texts |-> Typable,
   Answered |-> {<<"x">>, <<"y">>, << >>}, Requests |-> {r1}, MaxSaves |-> 0]

(* ... or five texts, some of the same title or the same words, and two    *)
(* requests that save one of them over another.                            *)
FiveTexts ==
  [Texts |-> {X \o X, X \o Y, Y \o <<" ">> \o Y, X \o <<" ">> \o Y, <<"x">>},
   Answered |-> {<<"x">>, <<"y">>, << >>}, Requests |-> {r1, r2}, MaxSaves |-> 3]
=============================================================================
