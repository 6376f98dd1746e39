---------------------------- MODULE FingerTable ----------------------------
(***************************************************************************)
(* The finger table of one node (FingerTable.cpp) and the reads that       *)
(* LocalNode makes of it.  A table maps each index to the identifier of    *)
(* the node stored there, or to Nil.  The code stores shared pointers:     *)
(* several objects may stand for the same remote node, which matters only  *)
(* to removeNode.                                                          *)
(***************************************************************************)
EXTENDS Interval, FiniteSets, FiniteSetsExt

CONSTANTS
  M,     \* number of bits of an identifier, and of entries of a table
  Nil    \* the null pointer

(* fixFingers computes rand() % (M - 2), so a table has three entries.     *)
ASSUME MAssumption == M \in Nat /\ M > 2

Index == 0 .. M - 1

EmptyTable == [k \in Index |-> Nil]

(* The indexes at or above k that hold a node.                             *)
Filled(f, k) == {j \in Index : j >= k /\ f[j] # Nil}

(* getNode: the entry at k, or the nearest one above it that is not null.  *)
getNode(f, k) ==
  LET above == Filled(f, k)
  IN  IF above = {} THEN Nil ELSE f[Min(above)]

setNode(f, k, n) == [f EXCEPT ![k] = n]

(* The tables removeNode(s) may leave when s is the pointer that getNode(0)*)
(* returned.  Pointers are compared, not identifiers: the entry s was read *)
(* from is cleared, and so is any other that shares the object.            *)
removeNode(f, n) ==
  LET first == Min(Filled(f, 0))
      same  == {j \in Index : f[j] = n}
  IN  {[j \in Index |-> IF j \in gone THEN Nil ELSE f[j]] :
         gone \in {g \in SUBSET same : first \in g}}

(* LocalNode::getSuccessor of node n: the first finger; an empty table     *)
(* first gets n itself at index 0.                                         *)
successorOf(f, n) ==
  LET first == getNode(f, 0)
  IN  IF first = Nil THEN n ELSE first

withSuccessor(f, n) == IF getNode(f, 0) = Nil THEN setNode(f, 0, n) ELSE f

(* Mutant of precedes: any finger to another node will do.                 *)
precedesAny(f, n, id) == f \notin {Nil, n}

(* The test closestPrecedingFinger of node n makes of each finger f, from  *)
(* the highest index down: is it strictly between n and id?                *)
precedes(f, n, id) == f # Nil /\ InInterval(f, n, id)
=============================================================================
