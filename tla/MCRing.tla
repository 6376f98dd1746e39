------------------------------- MODULE MCRing -------------------------------
(***************************************************************************)
(* Instances of Ring for TLC.  Identifiers are the integers modulo 2^M.    *)
(***************************************************************************)
EXTENDS Ring

MCId == 0 .. 2^M - 1

(* What FingerTable.h says of start(k): (n + 2**k) % 2**M.                 *)
MCStart == [n \in Node |-> [k \in Index |-> (n + 2^k) % 2^M]]

Silent == [n \in Node |-> {}]

(* The user of the creator sends to an identifier far round the ring.      *)
TalkFar == [n \in Node |-> IF n = Creator THEN {2^M - 2} ELSE {}]
=============================================================================
