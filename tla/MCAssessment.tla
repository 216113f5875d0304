---------------------------- MODULE MCAssessment ----------------------------
(* Instances of Assessment for TLC. *)
EXTENDS Assessment, TLC

CONSTANTS tf, mc, s1, s2, a1, a2, r1, r2

(* One true/false question and one with an array of two entries, of which  *)
(* the right and the wrong answer have the same values under other keys.   *)
BothKinds == {tf, mc}
OnlyTrueFalse == {tf}
TwoArrays ==
  [q \in BothKinds |->
    IF q = tf THEN [{0} -> {"0", "1"}]
    ELSE {x \in [{0, 1} -> {"0", "1"}] : x[0] # x[1]}]
OneAttempt  == {a1}
TwoAttempts == {a1, a2}
OneStudent  == {s1}
OneRequest  == {r1}
TwoRequests == {r1, r2}

(* Requests are interchangeable. *)
Symmetry == Permutations(TwoRequests)
=============================================================================
