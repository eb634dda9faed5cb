------------------------------- MODULE MCApi -------------------------------
(* Instances of Api for TLC. *)
EXTENDS Api

CONSTANTS r1, d1, d2, c1

OneRequest    == {r1}
TwoDeliveries == {d1, d2}
OneCall       == {c1}
=============================================================================
