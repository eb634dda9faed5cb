------------------------------ MODULE MCLoader ------------------------------
(* Instances of Loader for TLC. *)
EXTENDS Loader, TLC

CONSTANTS r1, r2, d1, d2, d3

OneRequest    == {r1}
TwoRequests   == {r1, r2}

TwoDeliveries   == {d1, d2}
ThreeDeliveries == {d1, d2, d3}

\* The goroutines that handle messages are interchangeable.
DeliverySymmetry == Permutations(Delivery)
=============================================================================
