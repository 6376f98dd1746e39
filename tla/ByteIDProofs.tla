---------------------------- MODULE ByteIDProofs ----------------------------
(***************************************************************************)
(* Theorems about module ByteID, for identifiers of every length and bytes *)
(* of every width, on platforms where char is signed and where it is not.  *)
(***************************************************************************)
EXTENDS ByteID, WellFoundedInduction, TLAPS

-----------------------------------------------------------------------------
(* Induction, with the set of numbers a statement holds for in place of    *)
(* the statement.                                                          *)
LEMMA Induction ==
  ASSUME NEW n \in Nat, NEW S,
         0 \in S,
         \A i \in 0 .. n - 1 : i \in S => i + 1 \in S
  PROVE  \A i \in 0 .. n : i \in S
<1> DEFINE T == {i \in 0 .. n : i \notin S}
<1>1. SUFFICES ASSUME T # {}
               PROVE  FALSE
  OBVIOUS
<1>2. T \subseteq Nat
  OBVIOUS
<1> HIDE DEF T
<1>3. PICK m \in T : \A q \in T : ~(<<q, m>> \in OpToRel(<, Nat))
  BY <1>1, <1>2, NatLessThanWellFounded, WFMin
<1>4. m \in 0 .. n /\ m \notin S
  BY DEF T
<1>5. m # 0
  BY <1>4
<1>6. m - 1 \in 0 .. n - 1
  BY <1>4, <1>5
<1>7. m - 1 \notin S
  BY <1>4, <1>6
<1>8. m - 1 \in T
  BY <1>6, <1>7 DEF T
<1>9. ~(m - 1 < m)
  BY <1>2, <1>3, <1>8 DEF OpToRel
<1> QED
  BY <1>4, <1>9

-----------------------------------------------------------------------------
(* Powers of two.                                                          *)

Base == 2^BITS

Half == 2^(BITS - 1)

LEMMA Powers ==
  /\ ID_LEN \in Nat \ {0}
  /\ BITS \in Nat \ {0}
  /\ Half \in Nat \ {0}
  /\ Base \in Nat \ {0}
  /\ Base = 2 * Half
<1>1. ID_LEN \in Nat \ {0} /\ BITS \in Nat \ {0}
  BY ByteAssumption
<1>2. BITS * ID_LEN >= BITS /\ BITS * ID_LEN \in Nat
  BY <1>1
<1>3. /\ BITS \in 0 .. BITS * ID_LEN
      /\ BITS - 1 \in 0 .. BITS * ID_LEN
      /\ 1 \in 0 .. BITS * ID_LEN
  BY <1>1, <1>2
<1>4. 2^BITS \in Nat \ {0} /\ 2^(BITS - 1) \in Nat \ {0}
  BY <1>3, PowerAssumption
<1>5. 2^(1 + (BITS - 1)) = 2^1 * 2^(BITS - 1)
  BY <1>3, PowerAssumption
<1>6. 1 + (BITS - 1) = BITS
  BY <1>1
<1>7. 2^1 = 2
  OBVIOUS
<1>8. 2^BITS = 2 * 2^(BITS - 1)
  BY <1>5, <1>6, <1>7
<1> QED
  BY <1>1, <1>4, <1>8 DEF Base, Half

(* One byte more.                                                          *)
LEMMA NextPower ==
  ASSUME NEW i \in 0 .. ID_LEN - 1
  PROVE  /\ 2^(BITS * i) \in Nat \ {0}
         /\ 2^(BITS * (i + 1)) = Base * 2^(BITS * i)
<1>1. ID_LEN \in Nat \ {0} /\ BITS \in Nat \ {0} /\ i \in Nat /\ i =< ID_LEN
  BY Powers
<1>2. BITS * i =< BITS * ID_LEN /\ BITS =< BITS * ID_LEN /\ BITS * ID_LEN \in Nat
  BY <1>1
<1>3. BITS * i \in Nat
  BY <1>1
<1>4. BITS * i \in 0 .. BITS * ID_LEN /\ BITS \in 0 .. BITS * ID_LEN
  BY <1>1, <1>2, <1>3
<1>5. 2^(BITS * i) \in Nat \ {0} /\ 2^(BITS + BITS * i) = 2^BITS * 2^(BITS * i)
  BY <1>4, PowerAssumption
<1>6. BITS * (i + 1) = BITS + BITS * i
  BY <1>1
<1> QED
  BY <1>5, <1>6 DEF Base

-----------------------------------------------------------------------------
(* The number an array of bytes stands for.                                *)

Digits == [Pos -> Int]

(* v[i] is the number the first i bytes of a stand for.                    *)
Prefixes(a, v, n) ==
  v = [i \in 0 .. n |-> IF i = 0 THEN 0 ELSE v[i - 1] * Base + a[i - 1]]

LEMMA PrefixesExist ==
  ASSUME NEW a
  PROVE  \A n \in 0 .. ID_LEN : \E v : Prefixes(a, v, n)
<1> DEFINE S == {n \in 0 .. ID_LEN : \E v : Prefixes(a, v, n)}
<1>1. ID_LEN \in Nat
  BY ByteAssumption
<1>2. 0 \in S
  <2> DEFINE v == [i \in 0 .. 0 |-> 0]
  <2>1. Prefixes(a, v, 0)
    BY DEF Prefixes
  <2> QED
    BY <1>1, <2>1
<1>3. ASSUME NEW n \in 0 .. ID_LEN - 1, n \in S
      PROVE  n + 1 \in S
  <2>1. PICK v : Prefixes(a, v, n)
    BY <1>3
  <2> DEFINE w == [i \in 0 .. n + 1 |->
                     IF i = n + 1 THEN v[n] * Base + a[n] ELSE v[i]]
  <2>2. \A i \in 0 .. n : w[i] = v[i]
    OBVIOUS
  <2>3. \A i \in 0 .. n : v[i] = IF i = 0 THEN 0 ELSE v[i - 1] * Base + a[i - 1]
    BY <2>1 DEF Prefixes
  <2>4. ASSUME NEW i \in 0 .. n + 1
        PROVE  w[i] = IF i = 0 THEN 0 ELSE w[i - 1] * Base + a[i - 1]
    <3>1. CASE i = n + 1
      <4>1. i # 0 /\ i - 1 = n
        BY <3>1
      <4> QED
        BY <3>1, <4>1, <2>2
    <3>2. CASE i = 0
      BY <3>2, <2>2, <2>3
    <3>3. CASE i # 0 /\ i # n + 1
      <4>1. i \in 0 .. n /\ i - 1 \in 0 .. n
        BY <3>3
      <4> QED
        BY <3>3, <4>1, <2>2, <2>3
    <3> QED
      BY <3>1, <3>2, <3>3
  <2>5. w = [i \in 0 .. n + 1 |-> IF i = 0 THEN 0 ELSE w[i - 1] * Base + a[i - 1]]
    BY <2>4
  <2>6. Prefixes(a, w, n + 1)
    BY <2>5 DEF Prefixes
  <2> QED
    BY <1>1, <2>6
<1> HIDE DEF S
<1>4. \A n \in 0 .. ID_LEN : n \in S
  BY <1>1, <1>2, <1>3, Induction
<1> QED
  BY <1>4 DEF S

LEMMA ValuePrefix ==
  ASSUME NEW a \in Digits
  PROVE  \E v : Prefixes(a, v, ID_LEN) /\ Value(a) = v[ID_LEN]
<1> DEFINE w == CHOOSE v : Prefixes(a, v, ID_LEN)
<1>1. ID_LEN \in 0 .. ID_LEN
  BY ByteAssumption
<1>2. Prefixes(a, w, ID_LEN)
  BY <1>1, PrefixesExist
<1>3. Value(a) = w[ID_LEN]
  BY DEF Value, Prefixes, Base
<1> QED
  BY <1>2, <1>3

(* The numbers the first bytes of a stand for, as a rule.                  *)
LEMMA ValueRule ==
  ASSUME NEW a \in Digits
  PROVE  \E v \in [0 .. ID_LEN -> Int] :
           /\ v[0] = 0
           /\ \A i \in Pos : v[i + 1] = v[i] * Base + a[i]
           /\ Value(a) = v[ID_LEN]
<1>1. PICK v : Prefixes(a, v, ID_LEN) /\ Value(a) = v[ID_LEN]
  BY ValuePrefix
<1>2. ID_LEN \in Nat \ {0} /\ Base \in Nat
  BY Powers
<1>3. \A i \in 0 .. ID_LEN : v[i] = IF i = 0 THEN 0 ELSE v[i - 1] * Base + a[i - 1]
  BY <1>1 DEF Prefixes
<1>4. v[0] = 0
  BY <1>2, <1>3
<1>5. ASSUME NEW i \in Pos
      PROVE  v[i + 1] = v[i] * Base + a[i]
  <2>1. i + 1 \in 0 .. ID_LEN /\ i + 1 # 0 /\ (i + 1) - 1 = i
    BY <1>2 DEF Pos
  <2> QED
    BY <1>3, <2>1
<1> DEFINE S == {i \in 0 .. ID_LEN : v[i] \in Int}
<1>6. 0 \in S
  BY <1>2, <1>4
<1>7. ASSUME NEW i \in 0 .. ID_LEN - 1, i \in S
      PROVE  i + 1 \in S
  <2>1. i \in Pos /\ i + 1 \in 0 .. ID_LEN
    BY <1>2 DEF Pos
  <2>2. v[i] \in Int /\ a[i] \in Int
    BY <1>7, <2>1 DEF Digits
  <2>3. v[i + 1] \in Int
    BY <1>2, <1>5, <2>1, <2>2
  <2> QED
    BY <2>1, <2>3
<1> HIDE DEF S
<1>8. \A i \in 0 .. ID_LEN : i \in S
  BY <1>2, <1>6, <1>7, Induction
<1>9. \A i \in 0 .. ID_LEN : v[i] \in Int
  BY <1>8 DEF S
<1>10. v \in [0 .. ID_LEN -> Int]
  BY <1>1, <1>9 DEF Prefixes
<1> QED
  BY <1>1, <1>4, <1>5, <1>10

-----------------------------------------------------------------------------
(* The order of identifiers.                                               *)

(* A larger number stays larger when a byte is appended.                   *)
LEMMA AppendByte ==
  ASSUME NEW B \in Nat \ {0}, NEW x \in Int, NEW y \in Int, x < y,
         NEW c \in 0 .. B - 1, NEW d \in 0 .. B - 1
  PROVE  x * B + c < y * B + d
<1>1. PICK k \in Nat : y = x + 1 + k
  <2>1. y - x - 1 \in Nat /\ y = x + 1 + (y - x - 1)
    OBVIOUS
  <2> QED
    BY <2>1
<1>2. y * B = x * B + B + k * B
  BY <1>1
<1>3. k * B \in Nat /\ x * B \in Int
  OBVIOUS
<1> QED
  BY <1>2, <1>3

(* The first byte that differs decides which number is the smaller one.    *)
LEMMA FirstByteDecides ==
  ASSUME NEW d \in ID, NEW e \in ID, NEW p \in Pos,
         d[p] < e[p], \A j \in 0 .. p - 1 : d[j] = e[j]
  PROVE  Value(d) < Value(e)
<1>1. ID_LEN \in Nat \ {0} /\ Base \in Nat \ {0}
  BY Powers
<1>2. \A i \in Pos : d[i] \in 0 .. Base - 1 /\ e[i] \in 0 .. Base - 1
  BY DEF ID, Byte, Base
<1>3. d \in Digits /\ e \in Digits
  BY <1>1, <1>2 DEF ID, Digits
<1>4. PICK v \in [0 .. ID_LEN -> Int] :
         /\ v[0] = 0
         /\ \A i \in Pos : v[i + 1] = v[i] * Base + d[i]
         /\ Value(d) = v[ID_LEN]
  BY <1>3, ValueRule
<1>5. PICK w \in [0 .. ID_LEN -> Int] :
         /\ w[0] = 0
         /\ \A i \in Pos : w[i + 1] = w[i] * Base + e[i]
         /\ Value(e) = w[ID_LEN]
  BY <1>3, ValueRule
<1>6. p \in Nat /\ p < ID_LEN
  BY <1>1 DEF Pos
<1> DEFINE S == {i \in 0 .. ID_LEN : /\ i =< p => v[i] = w[i]
                                     /\ i > p => v[i] < w[i]}
<1>7. 0 \in S
  BY <1>1, <1>4, <1>5, <1>6
<1>8. ASSUME NEW i \in 0 .. ID_LEN - 1, i \in S
      PROVE  i + 1 \in S
  <2>1. i \in Pos /\ i \in 0 .. ID_LEN /\ i + 1 \in 0 .. ID_LEN
    BY <1>1 DEF Pos
  <2>2. /\ v[i + 1] = v[i] * Base + d[i] /\ v[i] \in Int /\ v[i + 1] \in Int
        /\ w[i + 1] = w[i] * Base + e[i] /\ w[i] \in Int /\ w[i + 1] \in Int
    BY <1>4, <1>5, <2>1
  <2>3. d[i] \in 0 .. Base - 1 /\ e[i] \in 0 .. Base - 1
    BY <1>2, <2>1
  <2>4. CASE i < p
    <3>0. i \in 0 .. p - 1 /\ i =< p
      BY <1>6, <2>4
    <3>1. d[i] = e[i] /\ v[i] = w[i]
      BY <1>8, <3>0
    <3>2. v[i + 1] = w[i + 1] /\ i + 1 =< p
      BY <1>6, <2>1, <2>2, <2>4, <3>1
    <3> QED
      BY <1>6, <2>1, <3>2
  <2>5. CASE i = p
    <3>0. i =< p
      BY <1>6, <2>5
    <3>1. v[i] = w[i] /\ d[i] < e[i]
      BY <1>8, <2>5, <3>0
    <3> HIDE DEF S
    <3>2. v[i + 1] < w[i + 1]
      BY <1>1, <2>2, <2>3, <3>1
    <3> QED
      BY <1>6, <2>1, <2>5, <3>2 DEF S
  <2>6. CASE i > p
    <3>1. v[i] < w[i]
      BY <1>6, <1>8, <2>6
    <3>2. v[i] * Base + d[i] < w[i] * Base + e[i]
      BY <1>1, <2>2, <2>3, <3>1, AppendByte
    <3>3. v[i + 1] < w[i + 1]
      BY <2>2, <3>2
    <3> QED
      BY <1>6, <2>1, <2>6, <3>3
  <2> QED
    BY <1>6, <2>1, <2>4, <2>5, <2>6
<1> HIDE DEF S
<1>9. \A i \in 0 .. ID_LEN : i \in S
  BY <1>1, <1>7, <1>8, Induction
<1>10. ID_LEN \in S
  BY <1>1, <1>9
<1> QED
  BY <1>4, <1>5, <1>6, <1>10 DEF S

(* Arrays that differ have a first byte that differs.                      *)
LEMMA FirstDifference ==
  ASSUME NEW d \in ID, NEW e \in ID, d # e
  PROVE  \E i \in Pos : d[i] # e[i] /\ \A j \in 0 .. i - 1 : d[j] = e[j]
<1>1. ID_LEN \in Nat
  BY Powers
<1>2. SUFFICES ASSUME \A i \in Pos : (\A j \in 0 .. i - 1 : d[j] = e[j]) => d[i] = e[i]
               PROVE  d = e
  OBVIOUS
<1> DEFINE S == {i \in 0 .. ID_LEN : \A j \in 0 .. i - 1 : d[j] = e[j]}
<1>3. 0 \in S
  BY <1>1
<1>4. ASSUME NEW i \in 0 .. ID_LEN - 1, i \in S
      PROVE  i + 1 \in S
  <2>1. d[i] = e[i]
    BY <1>2, <1>4 DEF Pos
  <2>2. ASSUME NEW j \in 0 .. (i + 1) - 1
        PROVE  d[j] = e[j]
    <3>1. j = i \/ j \in 0 .. i - 1
      BY <1>4
    <3> QED
      BY <1>4, <2>1, <3>1
  <2> QED
    BY <1>1, <2>2
<1> HIDE DEF S
<1>5. \A i \in 0 .. ID_LEN : i \in S
  BY <1>1, <1>3, <1>4, Induction
<1>6. ID_LEN \in S
  BY <1>1, <1>5
<1>7. \A j \in Pos : d[j] = e[j]
  BY <1>6 DEF S, Pos
<1> QED
  BY <1>7 DEF ID

(* The bytes by which operator< compares.                                  *)
First == IF signed THEN Half ELSE 0

Shifted(a) == [i \in Pos |-> char(a[i]) + First]

LEMMA ShiftedIsID ==
  ASSUME NEW a \in ID
  PROVE  /\ Shifted(a) \in ID
         /\ \A i \in Pos : char(a[i]) \in Int
<1>1. Half \in Nat \ {0} /\ Base \in Nat \ {0} /\ Base = 2 * Half
  BY Powers
<1>2. ASSUME NEW i \in Pos
      PROVE  char(a[i]) \in Int /\ char(a[i]) + First \in 0 .. Base - 1
  <2>1. a[i] \in 0 .. Base - 1
    BY DEF ID, Byte, Base
  <2>2. CASE signed /\ a[i] >= Half
    <3>1. char(a[i]) = a[i] - Base /\ First = Half
      BY <2>2 DEF char, Half, Base, First
    <3> QED
      BY <1>1, <2>1, <2>2, <3>1
  <2>3. CASE signed /\ ~(a[i] >= Half)
    <3>1. char(a[i]) = a[i] /\ First = Half
      BY <2>3 DEF char, Half, Base, First
    <3> QED
      BY <1>1, <2>1, <2>3, <3>1
  <2>4. CASE ~signed
    <3>1. char(a[i]) = a[i] /\ First = 0
      BY <2>4 DEF char, Half, Base, First
    <3> QED
      BY <1>1, <2>1, <3>1
  <2> QED
    BY <2>2, <2>3, <2>4
<1> QED
  BY <1>2 DEF Shifted, ID, Byte, Base

LEMMA CharInjective ==
  ASSUME NEW a \in ID, NEW b \in ID, NEW i \in Pos, char(a[i]) = char(b[i])
  PROVE  a[i] = b[i]
<1>1. Half \in Nat \ {0} /\ Base \in Nat \ {0} /\ Base = 2 * Half
  BY Powers
<1>2. a[i] \in 0 .. Base - 1 /\ b[i] \in 0 .. Base - 1
  BY DEF ID, Byte, Base
<1>3. /\ char(a[i]) = a[i] - Base \/ char(a[i]) = a[i]
      /\ char(b[i]) = b[i] - Base \/ char(b[i]) = b[i]
  BY DEF char, Base
<1> QED
  BY <1>1, <1>2, <1>3

(* operator< is the order of the ranks.                                    *)
LEMMA RankOrder ==
  ASSUME NEW a \in ID, NEW b \in ID
  PROVE  /\ Rank(a) \in Int
         /\ less(a, b) <=> Rank(a) < Rank(b)
<1> DEFINE d == Shifted(a)
           e == Shifted(b)
<1>1. d \in ID /\ e \in ID
  BY ShiftedIsID
<1>2. Rank(a) = Value(d) /\ Rank(b) = Value(e)
  BY DEF Rank, Shifted, First, Half
<1>3. First \in Int
  BY Powers DEF First
<1>4. ASSUME NEW i \in Pos
      PROVE  /\ char(a[i]) < char(b[i]) <=> d[i] < e[i]
             /\ char(b[i]) < char(a[i]) <=> e[i] < d[i]
             /\ a[i] = b[i] <=> d[i] = e[i]
  <2>1. char(a[i]) \in Int /\ char(b[i]) \in Int
    BY ShiftedIsID
  <2>2. d[i] = char(a[i]) + First /\ e[i] = char(b[i]) + First
    BY DEF Shifted
  <2>3. a[i] = b[i] <=> char(a[i]) = char(b[i])
    BY CharInjective
  <2> HIDE DEF d, e
  <2>4. /\ char(a[i]) < char(b[i]) <=> d[i] < e[i]
        /\ char(b[i]) < char(a[i]) <=> e[i] < d[i]
    BY <1>3, <2>1, <2>2
  <2>5. char(a[i]) = d[i] - First /\ char(b[i]) = e[i] - First
    BY <1>3, <2>1, <2>2
  <2> QED
    BY <2>2, <2>3, <2>4, <2>5
<1> HIDE DEF d, e
<1>5. Value(d) \in Int /\ Value(e) \in Int
  <2>1. ID_LEN \in Nat /\ Base \in Nat
    BY Powers
  <2>2. d \in Digits /\ e \in Digits
    BY <1>1, <2>1 DEF ID, Digits, Byte, Base
  <2>3. ID_LEN \in 0 .. ID_LEN
    BY <2>1
  <2> QED
    BY <2>2, <2>3, ValueRule
<1>6. ASSUME less(a, b)
      PROVE  Value(d) < Value(e)
  <2>1. PICK i \in Pos : char(a[i]) < char(b[i]) /\ \A j \in 0 .. i - 1 : a[j] = b[j]
    BY <1>6 DEF less
  <2>2. \A j \in 0 .. i - 1 : j \in Pos
    BY Powers DEF Pos
  <2>3. d[i] < e[i] /\ \A j \in 0 .. i - 1 : d[j] = e[j]
    BY <1>4, <2>1, <2>2
  <2> QED
    BY <1>1, <2>3, FirstByteDecides
<1>7. ASSUME Value(d) < Value(e)
      PROVE  less(a, b)
  <2>1. d # e
    BY <1>5, <1>7
  <2>2. PICK i \in Pos : d[i] # e[i] /\ \A j \in 0 .. i - 1 : d[j] = e[j]
    BY <1>1, <2>1, FirstDifference
  <2>3. d[i] \in Int /\ e[i] \in Int
    BY <1>1, Powers DEF ID, Byte, Base
  <2>4. ~(e[i] < d[i])
    <3>1. SUFFICES ASSUME e[i] < d[i]
                   PROVE  FALSE
      OBVIOUS
    <3>2. \A j \in 0 .. i - 1 : e[j] = d[j]
      BY <2>2
    <3>3. Value(e) < Value(d)
      BY <1>1, <3>1, <3>2, FirstByteDecides
    <3> QED
      BY <1>5, <1>7, <3>3
  <2>5. d[i] < e[i]
    BY <2>2, <2>3, <2>4
  <2>6. \A j \in 0 .. i - 1 : j \in Pos
    BY Powers DEF Pos
  <2>7. char(a[i]) < char(b[i]) /\ \A j \in 0 .. i - 1 : a[j] = b[j]
    BY <1>4, <2>2, <2>5, <2>6
  <2> QED
    BY <2>7 DEF less
<1> QED
  BY <1>2, <1>5, <1>6, <1>7

LEMMA IntervalRanks ==
  ASSUME NEW a \in ID, NEW l \in ID, NEW u \in ID
  PROVE  isInInterval(a, l, u) <=> InInterval(Rank(a), Rank(l), Rank(u))
<1> DEFINE A == Rank(a)
           L == Rank(l)
           U == Rank(u)
<1>1. A \in Int /\ L \in Int /\ U \in Int
  BY RankOrder
<1>2. /\ less(l, u) <=> L < U
      /\ less(u, l) <=> U < L
      /\ less(l, a) <=> L < A
      /\ less(a, u) <=> A < U
  BY RankOrder
<1> HIDE DEF A, L, U
<1>3. isInInterval(a, l, u) <=> InInterval(A, L, U)
  BY <1>1, <1>2 DEF isInInterval, InInterval
<1> QED
  BY <1>3 DEF A, L, U

-----------------------------------------------------------------------------
(* operator+=.                                                             *)

(* s[i] is the sum of bytes i and of the carry from the byte after it.     *)
Sums(a, b, s, n) ==
  s = [i \in n .. ID_LEN |->
         IF i = ID_LEN THEN 0 ELSE char(a[i]) + char(b[i]) + overflow(s[i + 1])]

LEMMA SumsExist ==
  ASSUME NEW a, NEW b
  PROVE  \E s : Sums(a, b, s, 0)
<1> DEFINE S == {k \in 0 .. ID_LEN : \E s : Sums(a, b, s, ID_LEN - k)}
<1>1. ID_LEN \in Nat
  BY Powers
<1>2. 0 \in S
  <2> DEFINE s == [i \in ID_LEN .. ID_LEN |-> 0]
  <2>1. \A i \in ID_LEN .. ID_LEN : i = ID_LEN
    BY <1>1
  <2>2. Sums(a, b, s, ID_LEN)
    BY <2>1 DEF Sums
  <2>3. ID_LEN - 0 = ID_LEN
    BY <1>1
  <2> HIDE DEF s
  <2> QED
    BY <1>1, <2>2, <2>3
<1>3. ASSUME NEW k \in 0 .. ID_LEN - 1, k \in S
      PROVE  k + 1 \in S
  <2> DEFINE n == ID_LEN - k
             m == ID_LEN - (k + 1)
  <2>1. PICK s : Sums(a, b, s, n)
    BY <1>3
  <2>2. n \in Int /\ m \in Int /\ m + 1 = n /\ n =< ID_LEN
    BY <1>1
  <2> HIDE DEF n, m, S
  <2> DEFINE w == [i \in m .. ID_LEN |->
                     IF i = m THEN char(a[m]) + char(b[m]) + overflow(s[n]) ELSE s[i]]
  <2>3. \A i \in n .. ID_LEN : w[i] = s[i]
    BY <1>1, <2>2
  <2>4. \A i \in n .. ID_LEN :
          s[i] = IF i = ID_LEN THEN 0 ELSE char(a[i]) + char(b[i]) + overflow(s[i + 1])
    BY <2>1 DEF Sums
  <2>5. ASSUME NEW i \in m .. ID_LEN
        PROVE  w[i] = IF i = ID_LEN THEN 0
                      ELSE char(a[i]) + char(b[i]) + overflow(w[i + 1])
    <3>1. CASE i = m
      <4>1. i # ID_LEN /\ i + 1 = n /\ n \in n .. ID_LEN
        BY <1>1, <2>2, <3>1
      <4>2. w[i + 1] = s[n]
        BY <4>1, <2>3
      <4>3. w[i] = char(a[m]) + char(b[m]) + overflow(s[n])
        BY <3>1
      <4> HIDE DEF w
      <4> QED
        BY <3>1, <4>1, <4>2, <4>3
    <3>2. CASE i # m /\ i = ID_LEN
      <4>1. i \in n .. ID_LEN
        BY <1>1, <2>2, <3>2
      <4> HIDE DEF w
      <4> QED
        BY <3>2, <4>1, <2>3, <2>4
    <3>3. CASE i # m /\ i # ID_LEN
      <4>1. i \in n .. ID_LEN /\ i + 1 \in n .. ID_LEN
        BY <1>1, <2>2, <3>3
      <4> HIDE DEF w
      <4> QED
        BY <3>3, <4>1, <2>3, <2>4
    <3> QED
      BY <3>1, <3>2, <3>3
  <2>6. w = [i \in m .. ID_LEN |->
               IF i = ID_LEN THEN 0
               ELSE char(a[i]) + char(b[i]) + overflow(w[i + 1])]
    BY <2>5
  <2>7. Sums(a, b, w, m)
    BY <2>6 DEF Sums
  <2>8. k + 1 \in 0 .. ID_LEN
    BY <1>1
  <2> HIDE DEF w
  <2> QED
    BY <2>7, <2>8 DEF S, m
<1> HIDE DEF S
<1>4. \A k \in 0 .. ID_LEN : k \in S
  BY <1>1, <1>2, <1>3, Induction
<1>5. ID_LEN \in S
  BY <1>1, <1>4
<1>6. ID_LEN - ID_LEN = 0
  BY <1>1
<1> QED
  BY <1>5, <1>6 DEF S

(* The sums of operator+=, as a rule.                                      *)
LEMMA PlusRule ==
  ASSUME NEW a \in ID, NEW b \in ID
  PROVE  \E s \in [0 .. ID_LEN -> Int] :
           /\ s[ID_LEN] = 0
           /\ \A i \in Pos : s[i] = char(a[i]) + char(b[i]) + overflow(s[i + 1])
           /\ plus(a, b) = [i \in Pos |-> low(s[i])]
<1> DEFINE s == CHOOSE f : Sums(a, b, f, 0)
<1>1. Sums(a, b, s, 0)
  BY SumsExist
<1>2. plus(a, b) = [i \in Pos |-> low(s[i])]
  BY DEF plus, Sums
<1> HIDE DEF s
<1>3. ID_LEN \in Nat \ {0} /\ Base \in Nat \ {0}
  BY Powers
<1>4. \A i \in 0 .. ID_LEN :
        s[i] = IF i = ID_LEN THEN 0 ELSE char(a[i]) + char(b[i]) + overflow(s[i + 1])
  BY <1>1 DEF Sums
<1>5. s[ID_LEN] = 0
  BY <1>3, <1>4
<1>6. ASSUME NEW i \in Pos
      PROVE  s[i] = char(a[i]) + char(b[i]) + overflow(s[i + 1])
  <2>1. i \in 0 .. ID_LEN /\ i # ID_LEN
    BY <1>3 DEF Pos
  <2> QED
    BY <1>4, <2>1
<1> DEFINE S == {k \in 0 .. ID_LEN : s[ID_LEN - k] \in Int}
<1>7. 0 \in S
  BY <1>3, <1>5
<1>8. ASSUME NEW k \in 0 .. ID_LEN - 1, k \in S
      PROVE  k + 1 \in S
  <2> DEFINE i == ID_LEN - (k + 1)
  <2>1. i \in Pos /\ i + 1 = ID_LEN - k
    BY <1>3 DEF Pos
  <2>2. s[i + 1] \in Int
    BY <1>8, <2>1
  <2> HIDE DEF i
  <2>3. overflow(s[i + 1]) \in Int
    BY <1>3, <2>2 DEF overflow, Base
  <2>4. char(a[i]) \in Int /\ char(b[i]) \in Int
    BY <2>1, ShiftedIsID
  <2>5. s[i] \in Int
    BY <1>6, <2>1, <2>3, <2>4
  <2> QED
    BY <1>3, <2>5 DEF i
<1> HIDE DEF S
<1>9. \A k \in 0 .. ID_LEN : k \in S
  BY <1>3, <1>7, <1>8, Induction
<1>10. ASSUME NEW i \in 0 .. ID_LEN
       PROVE  s[i] \in Int
  <2>1. ID_LEN - i \in 0 .. ID_LEN /\ ID_LEN - (ID_LEN - i) = i
    BY <1>3
  <2> QED
    BY <1>9, <2>1 DEF S
<1>11. s \in [0 .. ID_LEN -> Int]
  BY <1>1, <1>10 DEF Sums
<1> QED
  BY <1>2, <1>5, <1>6, <1>11

(* The sum of two identifiers is one, char signed or not.                  *)
LEMMA PlusIsID ==
  ASSUME NEW a \in ID, NEW b \in ID
  PROVE  plus(a, b) \in ID
<1>1. PICK s \in [0 .. ID_LEN -> Int] : plus(a, b) = [i \in Pos |-> low(s[i])]
  BY PlusRule
<1>2. Base \in Nat \ {0} /\ ID_LEN \in Nat
  BY Powers
<1>3. ASSUME NEW i \in Pos
      PROVE  low(s[i]) \in 0 .. Base - 1
  <2>1. s[i] \in Int
    BY <1>2 DEF Pos
  <2> QED
    BY <1>2, <2>1 DEF low, Base
<1> QED
  BY <1>1, <1>3 DEF ID, Byte, Base

(* What is stored and what is carried make up the sum.                     *)
LEMMA CarryAndRest ==
  ASSUME NEW x \in 0 .. 2 * Base - 1
  PROVE  /\ overflow(x) \in {0, 1}
         /\ low(x) \in 0 .. Base - 1
         /\ x = overflow(x) * Base + low(x)
<1>1. Base \in Nat \ {0} /\ x \in Nat
  BY Powers
<1>2. /\ x % Base \in 0 .. Base - 1
      /\ x = (x \div Base) * Base + (x % Base)
      /\ x \div Base \in Int
  BY <1>1
<1>3. x \div Base \in {0, 1}
  BY <1>1, <1>2
<1>4. overflow(x) = x \div Base
  BY <1>3 DEF overflow, Base
<1> QED
  BY <1>2, <1>3, <1>4 DEF low, Base

(* The number is below the next power.                                     *)
LEMMA ValueBelow ==
  ASSUME NEW a \in ID
  PROVE  Value(a) \in 0 .. Modulus - 1 /\ Modulus \in Nat \ {0}
<1>1. ID_LEN \in Nat \ {0} /\ Base \in Nat \ {0} /\ BITS \in Nat \ {0}
  BY Powers
<1>2. \A i \in Pos : a[i] \in 0 .. Base - 1
  BY DEF ID, Byte, Base
<1>3. a \in Digits
  BY <1>1, <1>2 DEF ID, Digits
<1>4. PICK v \in [0 .. ID_LEN -> Int] :
         /\ v[0] = 0
         /\ \A i \in Pos : v[i + 1] = v[i] * Base + a[i]
         /\ Value(a) = v[ID_LEN]
  BY <1>3, ValueRule
<1> DEFINE P == [i \in 0 .. ID_LEN |-> 2^(BITS * i)]
           S == {i \in 0 .. ID_LEN : P[i] \in Nat \ {0} /\ v[i] \in 0 .. P[i] - 1}
<1>5. 0 \in S
  <2>1. BITS * 0 = 0 /\ 2^0 = 1
    BY <1>1
  <2>2. P[0] = 2^(BITS * 0)
    BY <1>1
  <2>3. P[0] = 1
    BY <2>1, <2>2
  <2> HIDE DEF P
  <2> QED
    BY <1>1, <1>4, <2>3
<1>6. ASSUME NEW i \in 0 .. ID_LEN - 1, i \in S
      PROVE  i + 1 \in S
  <2>1. i \in Pos /\ i \in 0 .. ID_LEN /\ i + 1 \in 0 .. ID_LEN
    BY <1>1 DEF Pos
  <2>2. P[i + 1] = Base * P[i]
    BY <2>1, NextPower
  <2> HIDE DEF P
  <2>3. P[i] \in Nat \ {0} /\ v[i] \in 0 .. P[i] - 1
    BY <1>6
  <2>4. v[i + 1] = v[i] * Base + a[i] /\ a[i] \in 0 .. Base - 1
    BY <1>2, <1>4, <2>1
  <2>5. P[i + 1] \in Nat \ {0}
    BY <1>1, <2>2, <2>3
  <2>6. v[i] < P[i] /\ v[i] \in Int /\ P[i] \in Int /\ 0 \in 0 .. Base - 1
    BY <1>1, <2>3
  <2>7. v[i] * Base + a[i] < P[i] * Base + 0
    BY <1>1, <2>4, <2>6, AppendByte
  <2>8. v[i] * Base \in Nat /\ P[i] * Base = Base * P[i]
    BY <1>1, <2>3
  <2>9. v[i + 1] \in Nat
    BY <2>4, <2>8
  <2>10. v[i + 1] < P[i + 1]
    <3>1. v[i + 1] < P[i] * Base + 0
      BY <2>4, <2>7
    <3>2. P[i] * Base + 0 = P[i + 1]
      BY <1>1, <2>2, <2>3
    <3> QED
      BY <3>1, <3>2
  <2>11. v[i + 1] \in 0 .. P[i + 1] - 1
    BY <2>5, <2>9, <2>10
  <2> QED
    BY <2>1, <2>5, <2>11
<1> HIDE DEF S
<1>7. \A i \in 0 .. ID_LEN : i \in S
  BY <1>1, <1>5, <1>6, Induction
<1>8. ID_LEN \in S
  BY <1>1, <1>7
<1>9. P[ID_LEN] = Modulus
  BY <1>1 DEF Modulus
<1> QED
  BY <1>4, <1>8, <1>9 DEF S

LEMMA Remainder ==
  ASSUME NEW m \in Nat \ {0}, NEW x \in Nat, NEW q \in {0, 1}, NEW r \in 0 .. m - 1,
         x = q * m + r
  PROVE  x % m = r
OBVIOUS

LEMMA TwoBytes ==
  ASSUME NEW B \in Nat \ {0}, NEW x \in 0 .. B - 1, NEW y \in 0 .. B - 1, NEW c \in 0 .. 1
  PROVE  x + y + c \in 0 .. 2 * B - 1
OBVIOUS

(* Where char is unsigned, operator+= adds modulo 2^(BITS * ID_LEN).       *)
LEMMA PlusIsSum ==
  ASSUME ~signed, NEW a \in ID, NEW b \in ID
  PROVE  Value(plus(a, b)) = (Value(a) + Value(b)) % Modulus
<1>1. ID_LEN \in Nat \ {0} /\ Base \in Nat \ {0} /\ BITS \in Nat \ {0}
  BY Powers
<1> DEFINE t == plus(a, b)
<1>2. t \in ID
  BY PlusIsID
<1>3. a \in Digits /\ b \in Digits /\ t \in Digits
  BY <1>1, <1>2 DEF ID, Digits, Byte, Base
<1>4. PICK s \in [0 .. ID_LEN -> Int] :
         /\ s[ID_LEN] = 0
         /\ \A i \in Pos : s[i] = char(a[i]) + char(b[i]) + overflow(s[i + 1])
         /\ t = [i \in Pos |-> low(s[i])]
  BY PlusRule
<1> HIDE DEF t
<1>5. PICK u \in [0 .. ID_LEN -> Int] :
         /\ u[0] = 0
         /\ \A i \in Pos : u[i + 1] = u[i] * Base + a[i]
         /\ Value(a) = u[ID_LEN]
  BY <1>3, ValueRule
<1>6. PICK v \in [0 .. ID_LEN -> Int] :
         /\ v[0] = 0
         /\ \A i \in Pos : v[i + 1] = v[i] * Base + b[i]
         /\ Value(b) = v[ID_LEN]
  BY <1>3, ValueRule
<1>7. PICK w \in [0 .. ID_LEN -> Int] :
         /\ w[0] = 0
         /\ \A i \in Pos : w[i + 1] = w[i] * Base + t[i]
         /\ Value(t) = w[ID_LEN]
  BY <1>3, ValueRule
<1> DEFINE c == [i \in 0 .. ID_LEN |-> overflow(s[i])]
           P == [i \in 0 .. ID_LEN |-> 2^(BITS * i)]
<1>8. ASSUME NEW i \in 0 .. ID_LEN
      PROVE  c[i] \in {0, 1}
  <2>1. s[i] \in Int
    OBVIOUS
  <2>2. s[i] \div Base \in Int
    BY <1>1, <2>1
  <2>3. (s[i] \div Base) % 2 \in {0, 1}
    BY <2>2
  <2> QED
    BY <2>3 DEF overflow, Base
<1>9. c[ID_LEN] = 0
  <2>1. 0 \in 0 .. 2 * Base - 1
    BY <1>1
  <2>2. overflow(0) \in {0, 1} /\ low(0) \in 0 .. Base - 1 /\ 0 = overflow(0) * Base + low(0)
    BY <2>1, CarryAndRest
  <2>3. overflow(0) = 0
    BY <1>1, <2>2
  <2> QED
    BY <1>1, <1>4, <2>3
<1>10. ASSUME NEW i \in Pos
       PROVE  a[i] + b[i] + c[i + 1] = c[i] * Base + t[i]
  <2>1. i \in 0 .. ID_LEN /\ i + 1 \in 0 .. ID_LEN
    BY <1>1 DEF Pos
  <2>2. a[i] \in 0 .. Base - 1 /\ b[i] \in 0 .. Base - 1
    BY DEF ID, Byte, Base
  <2>3. char(a[i]) = a[i] /\ char(b[i]) = b[i]
    BY DEF char
  <2>4. c[i] = overflow(s[i]) /\ c[i + 1] = overflow(s[i + 1]) /\ c[i + 1] \in {0, 1}
    BY <1>8, <2>1
  <2> HIDE DEF c, P
  <2>5. s[i] = a[i] + b[i] + c[i + 1]
    BY <1>4, <2>3, <2>4
  <2>6. s[i] \in 0 .. 2 * Base - 1
    <3>1. c[i + 1] \in 0 .. 1
      BY <2>4
    <3>2. a[i] + b[i] + c[i + 1] \in 0 .. 2 * Base - 1
      BY <1>1, <2>2, <3>1, TwoBytes
    <3> QED
      BY <2>5, <3>2
  <2>7. s[i] = overflow(s[i]) * Base + low(s[i])
    BY <2>6, CarryAndRest
  <2>8. t[i] = low(s[i])
    BY <1>4
  <2> QED
    BY <2>4, <2>5, <2>7, <2>8
<1>11. P[0] = 1
  <2>1. BITS * 0 = 0 /\ 2^0 = 1
    BY <1>1
  <2>2. P[0] = 2^(BITS * 0)
    BY <1>1
  <2> QED
    BY <2>1, <2>2
<1>12. ASSUME NEW i \in Pos
       PROVE  P[i] \in Nat /\ P[i + 1] = Base * P[i]
  <2>1. i \in 0 .. ID_LEN - 1 /\ i \in 0 .. ID_LEN /\ i + 1 \in 0 .. ID_LEN
    BY <1>1 DEF Pos
  <2> QED
    BY <2>1, NextPower
<1>13. P[ID_LEN] = Modulus
  BY <1>1 DEF Modulus
<1> HIDE DEF c, P
<1> DEFINE S == {i \in 0 .. ID_LEN : u[i] + v[i] + c[i] = w[i] + c[0] * P[i]}
<1>14. c[0] \in {0, 1}
  BY <1>1, <1>8
<1>15. 0 \in S
  <2>1. 0 + 0 + c[0] = 0 + c[0] * 1
    BY <1>14
  <2>2. u[0] + v[0] + c[0] = w[0] + c[0] * P[0]
    BY <1>5, <1>6, <1>7, <1>11, <2>1
  <2> QED
    BY <1>1, <2>2
<1>16. ASSUME NEW i \in 0 .. ID_LEN - 1, i \in S
       PROVE  i + 1 \in S
  <2>1. i \in Pos /\ i \in 0 .. ID_LEN /\ i + 1 \in 0 .. ID_LEN
    BY <1>1 DEF Pos
  <2>2. /\ u[i + 1] = u[i] * Base + a[i] /\ u[i] \in Int
        /\ v[i + 1] = v[i] * Base + b[i] /\ v[i] \in Int
        /\ w[i + 1] = w[i] * Base + t[i] /\ w[i] \in Int
    BY <1>5, <1>6, <1>7, <2>1
  <2>3. a[i] \in Int /\ b[i] \in Int /\ t[i] \in Int
    BY <1>3, <2>1 DEF Digits
  <2>4. c[i] \in Int /\ c[i + 1] \in Int /\ P[i] \in Int /\ P[i + 1] = Base * P[i]
    BY <1>8, <1>12, <2>1
  <2>5. a[i] + b[i] + c[i + 1] = c[i] * Base + t[i]
    BY <1>10, <2>1
  <2>6. u[i] + v[i] + c[i] = w[i] + c[0] * P[i]
    BY <1>16
  <2> HIDE DEF S
  <2>7. (u[i] * Base + a[i]) + (v[i] * Base + b[i]) + c[i + 1]
          = (w[i] * Base + t[i]) + c[0] * (Base * P[i])
    <3>1. Base \in Int /\ c[0] \in Int
      BY <1>1, <1>14
    <3>2. u[i] \in Int /\ v[i] \in Int /\ w[i] \in Int
      BY <2>2
    <3>3. c[i] \in Int /\ c[i + 1] \in Int /\ P[i] \in Int
      BY <2>4
    <3> DEFINE B == Base
               x == u[i]
               y == v[i]
               z == w[i]
               f == a[i]
               g == b[i]
               h == t[i]
               j == c[i]
               k == c[i + 1]
               m == c[0]
               q == P[i]
    <3>4. /\ B \in Int /\ x \in Int /\ y \in Int /\ z \in Int
          /\ f \in Int /\ g \in Int /\ h \in Int
          /\ j \in Int /\ k \in Int /\ m \in Int /\ q \in Int
      BY <2>3, <3>1, <3>2, <3>3
    <3>5. f + g + k = j * B + h /\ x + y + j = z + m * q
      BY <2>5, <2>6
    <3> HIDE DEF B, x, y, z, f, g, h, j, k, m, q
    <3>6. (x * B + f) + (y * B + g) + k = (x + y) * B + (f + g + k)
      BY <3>4
    <3>7. (x + y) * B + (j * B + h) = (x + y + j) * B + h
      BY <3>4
    <3>8. (z + m * q) * B + h = (z * B + h) + m * (B * q)
      BY <3>4
    <3>9. (x * B + f) + (y * B + g) + k = (z * B + h) + m * (B * q)
      BY <3>5, <3>6, <3>7, <3>8
    <3> QED
      BY <3>9 DEF B, x, y, z, f, g, h, j, k, m, q
  <2>8. u[i + 1] + v[i + 1] + c[i + 1] = w[i + 1] + c[0] * P[i + 1]
    BY <2>2, <2>4, <2>7
  <2> QED
    BY <2>1, <2>8 DEF S
<1> HIDE DEF S
<1>17. \A i \in 0 .. ID_LEN : i \in S
  BY <1>1, <1>15, <1>16, Induction
<1>18. Value(a) + Value(b) + 0 = Value(t) + c[0] * Modulus
  <2>1. ID_LEN \in S
    BY <1>1, <1>17
  <2> QED
    BY <1>5, <1>6, <1>7, <1>9, <1>13, <2>1 DEF S
<1>19. /\ Value(t) \in 0 .. Modulus - 1 /\ Modulus \in Nat \ {0}
       /\ Value(a) \in Nat /\ Value(b) \in Nat
  BY <1>2, ValueBelow
<1>20. Value(a) + Value(b) \in Nat /\ Value(a) + Value(b) = c[0] * Modulus + Value(t)
  BY <1>14, <1>18, <1>19
<1>21. (Value(a) + Value(b)) % Modulus = Value(t)
  BY <1>14, <1>19, <1>20, Remainder
<1> QED
  BY <1>21 DEF t

-----------------------------------------------------------------------------
(* FingerTable::start.                                                     *)

(* Index k is in byte q from the last, at bit r of it.                     *)
LEMMA BitPlace ==
  ASSUME NEW k \in 0 .. BITS * ID_LEN - 1
  PROVE  /\ k \div BITS \in 0 .. ID_LEN - 1
         /\ k % BITS \in 0 .. BITS - 1
         /\ k = BITS * (k \div BITS) + (k % BITS)
<1>1. BITS \in Nat \ {0} /\ ID_LEN \in Nat \ {0}
  BY Powers
<1>2. BITS * ID_LEN \in Nat
  BY <1>1
<1>3. k \in Nat /\ k < BITS * ID_LEN
  BY <1>2
<1>4. /\ k % BITS \in 0 .. BITS - 1
      /\ k = BITS * (k \div BITS) + (k % BITS)
      /\ k \div BITS \in Nat
  BY <1>1, <1>3
<1>5. k \div BITS < ID_LEN
  <2> DEFINE q == k \div BITS
             r == k % BITS
  <2>1. q \in Nat /\ r \in Nat /\ k = BITS * q + r
    BY <1>1, <1>4
  <2> HIDE DEF q, r
  <2>2. SUFFICES ASSUME q >= ID_LEN
                 PROVE  FALSE
    BY <1>1, <2>1 DEF q
  <2>3. PICK d \in Nat : q = ID_LEN + d
    <3>1. q - ID_LEN \in Nat /\ q = ID_LEN + (q - ID_LEN)
      BY <1>1, <2>1, <2>2
    <3> QED
      BY <3>1
  <2>4. BITS * q = BITS * ID_LEN + BITS * d /\ BITS * d \in Nat
    BY <1>1, <2>3
  <2> QED
    BY <1>2, <1>3, <2>1, <2>4
<1> QED
  BY <1>1, <1>4, <1>5

(* One bit fits in a byte.                                                 *)
LEMMA BitInByte ==
  ASSUME NEW r \in 0 .. BITS - 1
  PROVE  2^r \in 0 .. Base - 1
<1>1. BITS \in Nat \ {0} /\ ID_LEN \in Nat \ {0} /\ Base \in Nat \ {0}
  BY Powers
<1>2. BITS * ID_LEN >= BITS /\ BITS * ID_LEN \in Nat
  BY <1>1
<1> DEFINE n == BITS - r - 1
<1>3. /\ r \in 0 .. BITS * ID_LEN /\ n \in 0 .. BITS * ID_LEN
      /\ n + 1 \in 0 .. BITS * ID_LEN /\ 1 \in 0 .. BITS * ID_LEN
      /\ r + (n + 1) = BITS
  BY <1>1, <1>2
<1> HIDE DEF n
<1>4. 2^r \in Nat \ {0} /\ 2^n \in Nat \ {0}
  BY <1>3, PowerAssumption
<1>5. 2^(r + (n + 1)) = 2^r * 2^(n + 1) /\ 2^(n + 1) = 2^n * 2^1
  BY <1>3, PowerAssumption
<1>6. 2^1 = 2
  OBVIOUS
<1> DEFINE x == 2^r
           y == 2^n
<1>7. Base = x * (y * 2)
  BY <1>3, <1>5, <1>6 DEF Base
<1>8. x \in Nat \ {0} /\ y \in Nat \ {0}
  BY <1>4
<1> HIDE DEF x, y
<1>9. PICK z \in Nat : y = z + 1
  <2>1. y - 1 \in Nat /\ y = (y - 1) + 1
    BY <1>8
  <2> QED
    BY <2>1
<1>10. Base = x + x + 2 * (x * z) /\ x * z \in Nat
  BY <1>7, <1>8, <1>9
<1>11. x \in 0 .. Base - 1
  BY <1>8, <1>10
<1> QED
  BY <1>11 DEF x

(* The summand start(k) builds stands for 2^k.                             *)
LEMMA BitIsPower ==
  ASSUME NEW k \in 0 .. BITS * ID_LEN - 1
  PROVE  bit(k) \in ID /\ Value(bit(k)) = 2^k
<1> DEFINE q == k \div BITS
           r == k % BITS
           p == ID_LEN - q - 1
           a == bit(k)
<1>1. BITS \in Nat \ {0} /\ ID_LEN \in Nat \ {0} /\ Base \in Nat \ {0}
  BY Powers
<1>2. q \in 0 .. ID_LEN - 1 /\ r \in 0 .. BITS - 1 /\ k = BITS * q + r
  BY BitPlace
<1>3. a = [i \in Pos |-> IF i = p THEN 2^r ELSE 0]
  BY DEF bit
<1> HIDE DEF q, r, a
<1>4. p \in Pos /\ p \in Nat /\ p < ID_LEN /\ ID_LEN - p - 1 = q
  BY <1>1, <1>2 DEF Pos
<1> HIDE DEF p
<1>5. 2^r \in 0 .. Base - 1
  BY <1>2, BitInByte
<1>6. a \in ID
  <2>1. 0 \in 0 .. Base - 1
    BY <1>1
  <2> QED
    BY <1>3, <1>5, <2>1 DEF ID, Byte, Base
<1>7. a \in Digits
  BY <1>1, <1>6 DEF ID, Byte, Base, Digits
<1>8. PICK v \in [0 .. ID_LEN -> Int] :
         /\ v[0] = 0
         /\ \A i \in Pos : v[i + 1] = v[i] * Base + a[i]
         /\ Value(a) = v[ID_LEN]
  BY <1>7, ValueRule
<1> DEFINE S == {i \in 0 .. ID_LEN : /\ i =< p => v[i] = 0
                                     /\ i > p => v[i] = 2^(BITS * (i - p - 1) + r)}
<1>9. 0 \in S
  BY <1>1, <1>4, <1>8
<1>10. ASSUME NEW i \in 0 .. ID_LEN - 1, i \in S
       PROVE  i + 1 \in S
  <2>1. i \in Pos /\ i \in 0 .. ID_LEN /\ i + 1 \in 0 .. ID_LEN
    BY <1>1 DEF Pos
  <2>2. v[i + 1] = v[i] * Base + a[i] /\ v[i] \in Int /\ v[i + 1] \in Int
    BY <1>8, <2>1
  <2>3. a[i] = IF i = p THEN 2^r ELSE 0
    BY <1>3, <2>1
  <2>4. /\ i =< p => v[i] = 0
        /\ i > p => v[i] = 2^(BITS * (i - p - 1) + r)
    BY <1>10
  <2> HIDE DEF S
  <2>5. CASE i < p
    <3>1. v[i + 1] = 0 * Base + 0
      BY <1>4, <2>1, <2>2, <2>3, <2>4, <2>5
    <3>2. v[i + 1] = 0 /\ i + 1 =< p
      BY <1>1, <1>4, <2>1, <2>5, <3>1
    <3> QED
      BY <1>4, <2>1, <3>2 DEF S
  <2>6. CASE i = p
    <3>1. v[i + 1] = 0 * Base + 2^r
      BY <1>4, <2>1, <2>2, <2>3, <2>4, <2>6
    <3>2. v[i + 1] = 2^r
      BY <1>1, <1>5, <3>1
    <3>3. BITS * ((i + 1) - p - 1) + r = r
      BY <1>1, <1>2, <1>4, <2>6
    <3>4. i + 1 > p
      BY <1>4, <2>6
    <3> QED
      BY <1>4, <2>1, <3>2, <3>3, <3>4 DEF S
  <2>7. CASE i > p
    <3> DEFINE n == i - p - 1
               e == BITS * n + r
    <3>1. v[i] = 2^e /\ a[i] = 0
      BY <1>4, <2>1, <2>3, <2>4, <2>7
    <3>2. n \in Nat /\ n + 1 =< ID_LEN /\ (i + 1) - p - 1 = n + 1
      BY <1>1, <1>4, <2>7
    <3>3. BITS * (n + 1) =< BITS * ID_LEN /\ BITS =< BITS * ID_LEN /\ BITS * ID_LEN \in Nat
      <4> HIDE DEF n
      <4>1. PICK d \in Nat : ID_LEN = n + 1 + d
        <5>1. ID_LEN - n - 1 \in Nat /\ ID_LEN = n + 1 + (ID_LEN - n - 1)
          BY <1>1, <3>2
        <5> QED
          BY <5>1
      <4>2. BITS * ID_LEN = BITS * (n + 1) + BITS * d /\ BITS * d \in Nat
        BY <1>1, <3>2, <4>1
      <4>3. BITS * (n + 1) = BITS + BITS * n /\ BITS * n \in Nat
        BY <1>1, <3>2
      <4> QED
        BY <1>1, <4>2, <4>3
    <3>4. e \in Nat /\ e + BITS = BITS * (n + 1) + r /\ e =< BITS * (n + 1)
      <4> HIDE DEF n
      <4>1. BITS * (n + 1) = BITS + BITS * n /\ BITS * n \in Nat
        BY <1>1, <3>2
      <4> QED
        BY <1>1, <1>2, <4>1
    <3>5. e \in 0 .. BITS * ID_LEN /\ BITS \in 0 .. BITS * ID_LEN
      <4> HIDE DEF e, n
      <4>1. BITS * (n + 1) \in Int
        BY <1>1, <3>2
      <4> QED
        BY <1>1, <3>3, <3>4, <4>1
    <3> HIDE DEF e, n
    <3>6. 2^(e + BITS) = 2^e * 2^BITS
      BY <3>5, PowerAssumption
    <3>7. v[i] * Base + 0 = 2^e * 2^BITS
      BY <1>1, <2>2, <3>1 DEF Base
    <3>8. v[i + 1] = 2^(BITS * (n + 1) + r)
      BY <2>2, <3>1, <3>4, <3>6, <3>7
    <3>9. v[i + 1] = 2^(BITS * ((i + 1) - p - 1) + r)
      BY <3>2, <3>8
    <3>10. i + 1 > p
      BY <1>4, <2>7
    <3> QED
      BY <1>4, <2>1, <3>9, <3>10 DEF S
  <2> QED
    BY <1>4, <2>1, <2>5, <2>6, <2>7
<1> HIDE DEF S
<1>11. \A i \in 0 .. ID_LEN : i \in S
  BY <1>1, <1>9, <1>10, Induction
<1>12. ID_LEN \in S /\ ID_LEN > p
  BY <1>1, <1>4, <1>11
<1>13. v[ID_LEN] = 2^(BITS * (ID_LEN - p - 1) + r)
  BY <1>12 DEF S
<1>14. Value(a) = 2^k
  BY <1>2, <1>4, <1>8, <1>13
<1> QED
  BY <1>6, <1>14 DEF a

-----------------------------------------------------------------------------
(* The theorems.                                                           *)

(* What the bytes are in every reachable state.                            *)
Bytes ==
  /\ id \in ID
  /\ lower \in ID
  /\ upper \in ID
  /\ ~signed => val = Value(id)

LEMMA InitBytes == Init => Bytes
BY BoundsAssumption DEF Init, Bytes

LEMMA StepBytes == Bytes /\ [Next]_vars => Bytes'
<1>1. SUFFICES ASSUME Bytes, [Next]_vars
               PROVE  Bytes'
  OBVIOUS
<1>2. ASSUME NEW other \in ID, PlusAssign(other)
      PROVE  Bytes'
  <2>1. /\ id' = plus(id, other) /\ val' = (val + Value(other)) % Modulus
        /\ signed' = signed /\ lower' = lower /\ upper' = upper
    BY <1>2 DEF PlusAssign
  <2>2. id' \in ID
    BY <1>1, <2>1, PlusIsID DEF Bytes
  <2>3. ASSUME ~signed
        PROVE  val' = Value(id')
    <3>1. val = Value(id)
      BY <1>1, <2>3 DEF Bytes
    <3>2. Value(plus(id, other)) = (Value(id) + Value(other)) % Modulus
      BY <1>1, <2>3, PlusIsSum DEF Bytes
    <3> QED
      BY <2>1, <3>1, <3>2
  <2> QED
    BY <1>1, <2>1, <2>2, <2>3 DEF Bytes
<1>3. CASE UNCHANGED vars
  BY <1>1, <1>3 DEF Bytes, vars
<1> QED
  BY <1>1, <1>2, <1>3 DEF Next

LEMMA AlwaysBytes == Spec => []Bytes
BY InitBytes, StepBytes, PTL DEF Spec

(* Where char is unsigned, any sequence of operator+= leaves the bytes of  *)
(* the sum modulo 2^(BITS * ID_LEN), for every length and width.           *)
THEOREM SumsAreModular == Spec => []SumIsModular
<1>1. Bytes => SumIsModular
  BY DEF Bytes, SumIsModular
<1> QED
  BY <1>1, AlwaysBytes, PTL

(* start(k) is (n + 2^k) % 2^M where char is unsigned, as FingerTable.h    *)
(* says of it, for every index, length and width.                          *)
THEOREM StartsAsDocumented == Spec => []StartOnUnsigned
<1>1. ASSUME Bytes
      PROVE  StartOnUnsigned
  <2>1. SUFFICES ASSUME ~signed, NEW k \in 0 .. BITS * ID_LEN - 1
                 PROVE  Value(start(id, k)) = (Value(id) + 2^k) % Modulus
    BY DEF StartOnUnsigned, StartAsDocumented
  <2>2. bit(k) \in ID /\ Value(bit(k)) = 2^k
    BY BitIsPower
  <2>3. Value(plus(id, bit(k))) = (Value(id) + Value(bit(k))) % Modulus
    BY <1>1, <2>1, <2>2, PlusIsSum DEF Bytes
  <2> QED
    BY <2>2, <2>3 DEF start
<1> QED
  BY <1>1, AlwaysBytes, PTL

(* isInInterval is the clockwise open interval of module Interval, in the  *)
(* order of the ranks, for every length and width, char signed or not.     *)
THEOREM IntervalsOfRanks == Spec => []IntervalOfRanks
<1>1. Bytes => IntervalOfRanks
  BY IntervalRanks DEF Bytes, IntervalOfRanks
<1> QED
  BY <1>1, AlwaysBytes, PTL
=============================================================================
