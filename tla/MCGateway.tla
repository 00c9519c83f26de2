------------------------------ MODULE MCGateway ------------------------------
(***************************************************************************)
(* Gateway for TLC: one org that is set up and one that is not, so that    *)
(* requests of both meet; two checkouts; limits of one and two runs.       *)
(***************************************************************************)
EXTENDS Gateway, TLC

CONSTANTS o1, o2, id1, id2, q1, q2, q3, v1, v2

MCHomeId == o1 :> id1 @@ o2 :> id2

Interchangeable == Permutations(Requests) \cup Permutations(Visits)

MCTierLimit ==
  [t \in Tiers |-> [m \in Metrics |-> IF t \in Plans THEN 2 ELSE 1]]
=============================================================================
