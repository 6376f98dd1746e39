------------------------------- MODULE ByteID -------------------------------
(***************************************************************************)
(* Class ID as the code stores it, an array of chars with the most         *)
(* significant one at index 0, and FingerTable::start.  Whether a char is  *)
(* signed depends on the platform the program is built for: it is chosen   *)
(* at the start.  A byte is represented by its bit pattern, a number in    *)
(* 0 .. 2^BITS - 1.                                                        *)
(***************************************************************************)
EXTENDS Interval, Sequences

CONSTANTS
  ID_LEN,      \* number of bytes of an identifier, 20 in the code
  BITS,        \* number of bits of a byte, 8 in the code
  Platforms,   \* is char a signed type?  TRUE, FALSE or both are tried
  Bounds       \* the identifiers tried as ends of an interval

ASSUME ByteAssumption ==
  /\ ID_LEN \in Nat \ {0}
  /\ BITS \in Nat \ {0}
  /\ Platforms \subseteq BOOLEAN

(* The law of powers, for the exponents that occur.                        *)
ASSUME PowerAssumption ==
  \A m, n \in 0 .. BITS * ID_LEN :
    2^m \in Nat \ {0} /\ 2^(m + n) = 2^m * 2^n

Pos == 0 .. ID_LEN - 1

Byte == 0 .. 2^BITS - 1

ID == [Pos -> Byte]

ASSUME BoundsAssumption == Bounds \subseteq ID

VARIABLES
  signed,       \* is char a signed type on this platform?
  id,           \* an identifier that operator+= is applied to
  val,          \* the number it is to stand for
  lower, upper  \* the ends of an interval it is compared with

vars == <<signed, id, val, lower, upper>>

-----------------------------------------------------------------------------
(* The value of a char when it is promoted to int.                         *)
char(b) == IF signed /\ b >= 2^(BITS - 1) THEN b - 2^BITS ELSE b

(* (char)val, and the bit above it: (char)(val >> 8) & 0x01.  The code     *)
(* adds in unsigned int; a negative char is sign extended, so the bits     *)
(* above are those of the two's complement of val.                         *)
low(v) == v % 2^BITS

overflow(v) == (v \div 2^BITS) % 2

(* Mutant of plus: the overflow is dropped.                                *)
plusNoCarry(a, b) == [i \in Pos |-> low(char(a[i]) + char(b[i]))]

(* operator+=: from the last byte to the first.                            *)
plus(a, b) ==
  LET sum[i \in 0 .. ID_LEN] ==
        IF i = ID_LEN THEN 0 ELSE char(a[i]) + char(b[i]) + overflow(sum[i + 1])
  IN  [i \in Pos |-> low(sum[i])]

(* Mutant of less: from the last byte to the first.                        *)
lessReversed(a, b) ==
  \E i \in Pos : /\ char(a[i]) < char(b[i])
                 /\ \A j \in i + 1 .. ID_LEN - 1 : a[j] = b[j]

(* operator<: the first byte that differs decides.                         *)
less(a, b) ==
  \E i \in Pos : /\ char(a[i]) < char(b[i])
                 /\ \A j \in 0 .. i - 1 : a[j] = b[j]

isInInterval(a, l, u) ==
  IF less(l, u) THEN less(l, a) /\ less(a, u)
  ELSE IF less(u, l) THEN less(l, a) \/ less(a, u)
  ELSE TRUE

(* Mutant of bit: the first byte is taken for the least significant one.   *)
bitReversed(k) ==
  [i \in Pos |-> IF i = k \div BITS THEN 2^(k % BITS) ELSE 0]

(* The summand start(k) builds: one bit in byte ID_LEN - (k / 8) - 1.      *)
bit(k) ==
  [i \in Pos |-> IF i = ID_LEN - (k \div BITS) - 1 THEN 2^(k % BITS) ELSE 0]

start(a, k) == plus(a, bit(k))

-----------------------------------------------------------------------------
(* What the bytes stand for.                                               *)

Modulus == 2^(BITS * ID_LEN)

(* The number with the most significant byte at index 0.                   *)
Value(a) ==
  LET v[i \in 0 .. ID_LEN] == IF i = 0 THEN 0 ELSE v[i - 1] * 2^BITS + a[i - 1]
  IN  v[ID_LEN]

(* The place of an identifier in the order of operator<.                   *)
Rank(a) ==
  LET first == IF signed THEN 2^(BITS - 1) ELSE 0
  IN  Value([i \in Pos |-> char(a[i]) + first])

Init ==
  /\ signed \in Platforms
  /\ id \in ID /\ val = Value(id)
  /\ lower \in Bounds /\ upper \in Bounds

PlusAssign(other) ==
  /\ id' = plus(id, other)
  /\ val' = (val + Value(other)) % Modulus
  /\ UNCHANGED <<signed, lower, upper>>

Next == \E other \in ID : PlusAssign(other)

Spec == Init /\ [][Next]_vars

-----------------------------------------------------------------------------
(* Where char is unsigned, after any sequence of operator+= the bytes are  *)
(* those of the sum modulo 2^M: every carry reaches the byte before it.    *)
SumIsModular == ~signed => Value(id) = val

(* "Computes the ID for the given index ((n + 2**i) % 2**M)"               *)
(* (FingerTable.h, of start).                                              *)
StartAsDocumented ==
  \A k \in 0 .. BITS * ID_LEN - 1 : Value(start(id, k)) = (Value(id) + 2^k) % Modulus

(* start(k) is as documented where char is unsigned: the bit is put in the *)
(* right byte, and the addition carries it.                                *)
StartOnUnsigned == ~signed => StartAsDocumented

(* isInInterval is the clockwise open interval of a linear order of all    *)
(* identifiers, as module Interval takes it to be, char signed or not.     *)
IntervalOfRanks ==
  isInInterval(id, lower, upper) <=> InInterval(Rank(id), Rank(lower), Rank(upper))
=============================================================================
