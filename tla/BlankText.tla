------------------------------ MODULE BlankText ------------------------------
(***************************************************************************)
(* What a regular expression makes of the text of a fill-in-the-blank      *)
(* question: the words between double underscores are taken out of it, and *)
(* others are put in their places.                                         *)
(*                                                                         *)
(* Code: the calls of preg_match_all and preg_replace_callback in          *)
(* App\Service\Course\Assessment, AssessmentController and the view helper *)
(* AssessmentQuestion.                                                     *)
(*                                                                         *)
(* A text is a sequence of characters; the word "blank" counts as one of   *)
(* them.  The expression is tried at the beginning of what is left of a    *)
(* text, and when it does not match there one character further.           *)
(***************************************************************************)
EXTENDS Naturals, Sequences

CONSTANT Characters  \* what texts are made of, with "_", " " and "blank"

ASSUME BlankTextAssumption == {"_", " ", "blank"} \subseteq Characters

Text == Seq(Characters)

(* s[1 .. j] matches __[a-zA-Z0-9]+__, which is so for one j at most. *)
Match(s, j) ==
  /\ 5 <= j /\ j <= Len(s)
  /\ \A k \in {1, 2, j - 1, j} : s[k] = "_"
  /\ \A k \in 3 .. j - 2 : s[k] \notin {"_", " "}

(* s begins with a blank, which ends there, and goes on after it. *)
Blank(s)    == \E j \in 1 .. Len(s) : Match(s, j)
BlankEnd(s) == CHOOSE j \in 1 .. Len(s) : Match(s, j)
After(s)    == SubSeq(s, BlankEnd(s) + 1, Len(s))

(* preg_filter("/_/", "") on a match: it has underscores at its ends only. *)
Inside(s)     == SubSeq(s, 3, BlankEnd(s) - 2)
InBlank(word) == <<"_", "_">> \o word \o <<"_", "_">>

(* preg_match_all: the words, in the order in which they stand. *)
Words(s) ==
  LET from[t \in Text] ==
        IF t = << >> THEN << >>
        ELSE IF Blank(t) THEN <<Inside(t)>> \o from[After(t)]
        ELSE from[Tail(t)]
  IN  from[s]

(* MUTANT of Refilled: the blanks are not counted. *)
Refilled_uncounted(s, words) ==
  LET word == IF words # << >> THEN Head(words) ELSE <<"blank">>
      from[t \in Text] ==
        IF t = << >> THEN << >>
        ELSE IF Blank(t) THEN InBlank(word) \o from[After(t)]
        ELSE <<Head(t)>> \o from[Tail(t)]
  IN  from[s]

(* preg_replace_callback: the blanks get the words one by one, those that  *)
(* no word is left for get "blank".                                        *)
Refilled(s, words) ==
  LET from[t \in Text] ==
        [left \in Seq(Text) |->
           IF t = << >> THEN << >>
           ELSE IF ~Blank(t) THEN <<Head(t)>> \o from[Tail(t)][left]
           ELSE IF left = << >> THEN InBlank(<<"blank">>) \o from[After(t)][left]
           ELSE InBlank(Head(left)) \o from[After(t)][Tail(left)]]
  IN  from[s][words]
=============================================================================
