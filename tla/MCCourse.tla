------------------------------ MODULE MCCourse ------------------------------
(* Instances of Course for TLC. *)
EXTENDS Course, TLC

CONSTANTS u1, u2, c1, c2, r1, r2

TwoUsers    == {u1, u2}
OneAdmin    == {u2}
OneContent  == {c1}
TwoContents == {c1, c2}
OneRequest  == {r1}
TwoRequests == {r1, r2}

(* Requests are interchangeable. *)
Symmetry == Permutations(TwoRequests)
=============================================================================
