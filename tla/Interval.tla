------------------------------ MODULE Interval ------------------------------
(***************************************************************************)
(* Identifiers as integers, ordered by operator< of class ID (ID.cpp).     *)
(* The rest of the development needs nothing of an identifier but this     *)
(* strict total order; module ByteID shows what the bytes of an ID and     *)
(* their order are in the code.                                            *)
(***************************************************************************)
EXTENDS Integers

(* Mutant of InInterval: wrong comparison with the upper end.              *)
InIntervalWrapped(id, lower, upper) ==
  \/ lower < upper /\ id > lower /\ id < upper
  \/ lower > upper /\ (id > lower \/ id >= upper)
  \/ lower = upper

(* ID::isInInterval: the open interval clockwise from lower to upper.      *)
(* When both ends are equal the code returns true for every identifier,    *)
(* the end itself included.                                                *)
InInterval(id, lower, upper) ==
  \/ lower < upper /\ id > lower /\ id < upper
  \/ lower > upper /\ (id > lower \/ id < upper)
  \/ lower = upper

(* The half-open test findSuccessor and findPredecessor make:              *)
(* id.isInInterval(n, s) || id == s.                                       *)
InHalfOpen(id, lower, upper) == InInterval(id, lower, upper) \/ id = upper

(* The first node of S clockwise from key, key itself if it is one.        *)
Closest(S, key) ==
  CHOOSE m \in S : \/ m = key
                   \/ \A q \in S \ {m} : q # key /\ ~InInterval(q, key, m)
=============================================================================
