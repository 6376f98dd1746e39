---------------------------- MODULE OrderProofs ----------------------------
(***************************************************************************)
(* Lemmas about the order of nodes on the ring: what Closest and Following *)
(* return, and that what follows a node is followed by it from exactly one *)
(* side.                                                                   *)
(***************************************************************************)
EXTENDS RingProofs

(* A bounded set of identifiers that is not empty has a greatest element.  *)
LEMMA GreatestId ==
  ASSUME NEW S \in SUBSET Nat, S # {}, NEW top \in Nat, \A s \in S : s =< top
  PROVE  \E m \in S : \A q \in S : q =< m
<1> DEFINE D == {d \in Nat : d =< top /\ top - d \in S}
<1>1. PICK s \in S : TRUE
  OBVIOUS
<1>2. top - s \in D
  BY <1>1
<1>3. PICK d \in D : \A e \in D : d =< e
  BY <1>2, LeastId
<1>4. ASSUME NEW q \in S
      PROVE  q =< top - d
  <2>1. top - q \in D
    OBVIOUS
  <2> QED
    BY <1>3, <2>1
<1> QED
  BY <1>3, <1>4

(* There is only one node closest to an identifier.                        *)
LEMMA ClosestUnique ==
  ASSUME NEW S \in SUBSET Nat, NEW key \in Nat, NEW m \in S,
         \/ m = key
         \/ \A q \in S \ {m} : q # key /\ ~InInterval(q, key, m)
  PROVE  Closest(S, key) = m
<1> DEFINE c == Closest(S, key)
<1>1. /\ c \in S
      /\ c = key \/ \A q \in S \ {c} : q # key /\ ~InInterval(q, key, c)
  BY ClosestExists
<1> HIDE DEF c
<1>2. ASSUME c # m
      PROVE  FALSE
  <2>1. m # key /\ c # key
    BY <1>1, <1>2
  <2>2. ~InInterval(m, key, c) /\ ~InInterval(c, key, m)
    BY <1>1, <1>2, <2>1
  <2>3. m \in Int /\ c \in Int /\ key \in Int
    BY <1>1
  <2> QED
    BY <1>2, <2>1, <2>2, <2>3 DEF InInterval
<1> QED
  BY <1>2 DEF c

(* The node that follows n: no node lies between them.                     *)
LEMMA FollowingIs ==
  ASSUME NEW S \in SUBSET Nat, NEW n \in S
  PROVE  /\ Following(S, n) \in S
         /\ Following(S, n) = n <=> S = {n}
         /\ \A q \in S \ {n, Following(S, n)} : ~InInterval(q, n, Following(S, n))
<1>1. CASE S = {n}
  BY <1>1 DEF Following
<1>2. CASE S # {n}
  <2>1. S \ {n} \in SUBSET Nat /\ S \ {n} # {} /\ n \in Nat
    BY <1>2
  <2>2. /\ Closest(S \ {n}, n) \in S \ {n}
        /\ \/ Closest(S \ {n}, n) = n
           \/ \A q \in (S \ {n}) \ {Closest(S \ {n}, n)} :
                q # n /\ ~InInterval(q, n, Closest(S \ {n}, n))
    BY <2>1, ClosestExists
  <2> QED
    BY <1>2, <2>2 DEF Following
<1> QED
  BY <1>1, <1>2

LEMMA FollowingUnique ==
  ASSUME NEW S \in SUBSET Nat, NEW n \in S, NEW f \in S \ {n},
         \A q \in S \ {n, f} : ~InInterval(q, n, f)
  PROVE  Following(S, n) = f
<1>1. S \ {n} \in SUBSET Nat /\ n \in Nat /\ S # {n}
  OBVIOUS
<1>2. \A q \in (S \ {n}) \ {f} : q # n /\ ~InInterval(q, n, f)
  OBVIOUS
<1>3. Closest(S \ {n}, n) = f
  BY <1>1, <1>2, ClosestUnique
<1> QED
  BY <1>1, <1>3 DEF Following

(* Two nodes are not followed by the same.                                 *)
LEMMA FollowingInjective ==
  ASSUME NEW S \in SUBSET Nat, NEW m \in S, NEW n \in S, Following(S, m) = Following(S, n)
  PROVE  m = n
<1> DEFINE f == Following(S, n)
<1>1. /\ f \in S /\ (f = m <=> S = {m}) /\ (f = n <=> S = {n})
      /\ \A q \in S \ {n, f} : ~InInterval(q, n, f)
      /\ \A q \in S \ {m, f} : ~InInterval(q, m, f)
  BY FollowingIs
<1> HIDE DEF f
<1>2. ASSUME m # n
      PROVE  FALSE
  <2>1. f # m /\ f # n /\ ~InInterval(m, n, f) /\ ~InInterval(n, m, f)
    BY <1>1, <1>2
  <2>2. m \in Int /\ n \in Int /\ f \in Int
    BY <1>1
  <2> QED
    BY <1>2, <2>1, <2>2 DEF InInterval
<1> QED
  BY <1>2

(* In a bounded set, every node follows one.                               *)
LEMMA FollowingSurjective ==
  ASSUME NEW S \in SUBSET Nat, NEW top \in Nat, \A s \in S : s =< top, NEW n \in S
  PROVE  \E p \in S : Following(S, p) = n
<1> DEFINE Behind == {q \in S : q < n}
<1>1. CASE S = {n}
  BY <1>1 DEF Following
<1>2. ASSUME NEW p \in S \ {n}, \A q \in S \ {p, n} : ~InInterval(q, p, n)
      PROVE  \E r \in S : Following(S, r) = n
  BY <1>2, FollowingUnique
<1>3. CASE Behind # {}
  <2>1. PICK p \in Behind : \A q \in Behind : q =< p
    BY <1>3, GreatestId
  <2>2. \A q \in S \ {p, n} : ~InInterval(q, p, n)
    BY <2>1 DEF InInterval
  <2> QED
    BY <1>2, <2>1, <2>2
<1>4. CASE S # {n} /\ Behind = {}
  <2>1. PICK p \in S : \A q \in S : q =< p
    BY GreatestId
  <2>2. p > n
    <3>1. PICK q \in S : q # n
      BY <1>4
    <3>2. ~(q < n) /\ q =< p /\ p \in Nat /\ q \in Nat /\ n \in Nat
      BY <1>4, <2>1
    <3> QED
      BY <3>1, <3>2
  <2>3. \A q \in S \ {p, n} : ~InInterval(q, p, n)
    BY <1>4, <2>1, <2>2 DEF InInterval
  <2> QED
    BY <1>2, <2>1, <2>2, <2>3
<1> QED
  BY <1>1, <1>3, <1>4

(* The test of findSuccessor at a node whose successor is the next one     *)
(* finds the node closest to the key.                                      *)
LEMMA HalfOpenClosest ==
  ASSUME NEW S \in SUBSET Nat, NEW a \in S, NEW key \in Nat,
         InHalfOpen(key, a, Following(S, a))
  PROVE  Closest(S, key) = Following(S, a)
<1> DEFINE f == Following(S, a)
<1>1. f \in S /\ (f = a <=> S = {a}) /\ \A q \in S \ {a, f} : ~InInterval(q, a, f)
  BY FollowingIs
<1>2. InHalfOpen(key, a, f)
  OBVIOUS
<1> HIDE DEF f
<1> DEFINE Good == f = key \/ \A q \in S \ {f} : q # key /\ ~InInterval(q, key, f)
<1>3. ASSUME S = {a}
      PROVE  Good
  BY <1>1, <1>3
<1>4. ASSUME key = f
      PROVE  Good
  BY <1>4
<1>5. ASSUME f # a, InInterval(key, a, f), key # f
      PROVE  Good
  <2>1. ASSUME NEW q \in S \ {f}
        PROVE  q # key /\ ~InInterval(q, key, f)
    <3>1. q \in Int /\ key \in Int /\ a \in Int /\ f \in Int
      BY <1>1
    <3>2. CASE q = a
      BY <1>5, <3>1, <3>2 DEF InInterval
    <3>3. CASE q # a
      <4>1. ~InInterval(q, a, f)
        BY <1>1, <3>3
      <4> QED
        BY <1>5, <3>1, <3>3, <4>1 DEF InInterval
    <3> QED
      BY <3>2, <3>3
  <2> QED
    BY <2>1
<1>6. Good
  BY <1>1, <1>2, <1>3, <1>4, <1>5 DEF InHalfOpen
<1>7. Closest(S, key) = f
  BY <1>1, <1>6, ClosestUnique
<1> QED
  BY <1>7 DEF f

(* The first finger, where it is set, is the successor.                    *)
LEMMA FirstFinger ==
  ASSUME NEW f \in Table, NEW n \in Node, f[0] # Nil
  PROVE  /\ Min(Filled(f, 0)) = 0
         /\ getNode(f, 0) = f[0]
         /\ successorOf(f, n) = f[0]
         /\ withSuccessor(f, n) = f
<1> DEFINE S == Filled(f, 0)
<1>1. 0 \in S /\ S \subseteq Index /\ Index \subseteq Nat
  BY MAssumption DEF Filled, Index
<1>2. Min(S) = CHOOSE x \in S : \A y \in S : x =< y
  BY DEF Min
<1> HIDE DEF S
<1>3. \A y \in S : 0 =< y
  BY <1>1
<1>4. \A x \in S : (\A y \in S : x =< y) => x = 0
  BY <1>1
<1>5. Min(S) = 0
  BY <1>1, <1>2, <1>3, <1>4
<1>6. Min(Filled(f, 0)) = 0 /\ Filled(f, 0) # {}
  BY <1>1, <1>5 DEF S
<1>7. getNode(f, 0) = f[0]
  BY <1>6 DEF getNode
<1> QED
  BY <1>6, <1>7 DEF successorOf, withSuccessor
=============================================================================
