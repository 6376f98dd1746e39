------------------------------ MODULE MCByteID ------------------------------
(***************************************************************************)
(* Instances of ByteID for TLC: three bytes, so that a carry can run       *)
(* through a byte, of two bits.                                            *)
(***************************************************************************)
EXTENDS ByteID

(* The ends of an interval: all bytes equal, or only the last different.   *)
MCBounds ==
  {a \in ID : \A i, j \in Pos : a[i] = a[j] \/ (ID_LEN - 1 \in {i, j} /\ a[0] = 1)}
=============================================================================
