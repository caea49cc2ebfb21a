----------------------------- MODULE NumberFacts -----------------------------
(***************************************************************************)
(* What the proofs of several components need to know about numbers:       *)
(* remainders, for words and generations that wrap around, and the least   *)
(* element of a set, for the earliest deadline and the first free slot.    *)
(***************************************************************************)
EXTENDS Integers, FiniteSetsExt, WellFoundedInduction, TLAPS

-----------------------------------------------------------------------------
(* Remainders.                                                             *)

LEMMA Division ==
  ASSUME NEW x \in Int, NEW m \in Nat, m > 0
  PROVE  /\ x \div m \in Int /\ x % m \in 0 .. m - 1
         /\ x = m * (x \div m) + (x % m)
<1> QED BY Z3

LEMMA SmallMultiple ==
  ASSUME NEW m \in Nat, m > 0, NEW q \in Int, -m < m * q, m * q < m
  PROVE  q = 0
<1>1. CASE q >= 1
  <2>1. m * q >= m BY <1>1, Z3
  <2> QED BY <2>1
<1>2. CASE q <= -1
  <2>1. m * q <= -m BY <1>2, Z3
  <2> QED BY <2>1
<1> QED BY <1>1, <1>2

LEMMA Remainder ==
  ASSUME NEW m \in Nat, m > 0, NEW q \in Int, NEW r \in 0 .. m - 1
  PROVE  (m * q + r) % m = r
<1> DEFINE x == m * q + r
<1>0. m * q \in Int BY Z3
<1>1. x \in Int BY <1>0
<1>2. /\ x \div m \in Int /\ x % m \in 0 .. m - 1
      /\ x = m * (x \div m) + (x % m)
   BY <1>1, Division
<1> DEFINE d == x \div m
           e == x % m
<1>3. d \in Int /\ e \in 0 .. m-1 /\ m * q + r = m * d + e BY <1>2
<1> HIDE DEF d, e
<1>4. m * (q - d) = m * q - m * d BY <1>3, Z3
<1>5. q - d = 0
  <2>1. m * d \in Int BY <1>3, Z3
  <2>2. -m < m * (q - d) /\ m * (q - d) < m BY <1>3, <1>4, <1>0, <2>1
  <2> QED BY <2>2, <1>3, SmallMultiple
<1>6. q = d BY <1>5, <1>3
<1>7. r = e BY <1>3, <1>6, <1>0
<1> QED BY <1>7 DEF e

(* Equal modulo m and less than m apart: equal. *)
LEMMA SameRemainder ==
  ASSUME NEW m \in Nat, m > 0, NEW x \in Int, NEW y \in Int,
         x % m = y % m, -m < x - y, x - y < m
  PROVE  x = y
<1> DEFINE a == x \div m
           b == y \div m
           r == x % m
<1>1. a \in Int /\ b \in Int /\ r \in Int /\ x = m * a + r /\ y = m * b + r
  BY Division
<1> HIDE DEF a, b, r
<1>2. m * a \in Int /\ m * b \in Int /\ m * (a - b) = m * a - m * b
  BY <1>1, Z3
<1>3. a - b = 0
  <2>1. -m < m * (a - b) /\ m * (a - b) < m BY <1>1, <1>2
  <2> QED BY <2>1, <1>1, SmallMultiple
<1> QED BY <1>1, <1>3

(* Adding a multiple of m changes nothing. *)
LEMMA AddMultiple ==
  ASSUME NEW m \in Nat, m > 0, NEW x \in Int, NEW q \in Int
  PROVE  (x + m * q) % m = x % m
<1> DEFINE d == x \div m
           r == x % m
<1>1. d \in Int /\ r \in 0 .. m - 1 /\ x = m * d + r
  BY Division
<1> HIDE DEF d, r
<1>2. m * d \in Int /\ m * q \in Int /\ m * (d + q) = m * d + m * q
  BY <1>1, Z3
<1>3. x + m * q = m * (d + q) + r
  BY <1>1, <1>2
<1>4. (m * (d + q) + r) % m = r
  BY <1>1, Remainder
<1> QED BY <1>3, <1>4 DEF r

(* A remainder may be taken at any point of a sum. *)
LEMMA RemainderOfSum ==
  ASSUME NEW m \in Nat, m > 0, NEW x \in Int, NEW y \in Int
  PROVE  ((x % m) + y) % m = (x + y) % m
<1> DEFINE d == x \div m
           r == x % m
<1>1. d \in Int /\ r \in 0 .. m - 1 /\ x = m * d + r
  BY Division
<1> HIDE DEF d, r
<1>2. m * d \in Int BY <1>1, Z3
<1>3. x + y = (r + y) + m * d BY <1>1, <1>2
<1>4. r + y \in Int
  BY <1>1
<1>5. ((r + y) + m * d) % m = (r + y) % m
  BY <1>1, <1>4, AddMultiple
<1> QED BY <1>3, <1>5 DEF r

(* Counting on, modulo m. *)
LEMMA AddOne ==
  ASSUME NEW m \in Nat \ {0}, NEW x \in Nat
  PROVE  (x + 1) % m = IF x % m = m - 1 THEN 0 ELSE (x % m) + 1
<1>1. PICK q \in Int, r \in 0 .. m - 1 : x = m * q + r /\ x % m = r
  <2>1. x \div m \in Int /\ x % m \in 0 .. m - 1 /\ x = m * (x \div m) + (x % m)
    BY Division
  <2> QED BY <2>1
<1>0. m * q \in Int BY <1>1, Z3
<1>2. CASE r = m - 1
  <2>1. m * (q + 1) = m * q + m BY <1>1, Z3
  <2>2. x + 1 = m * (q + 1) + 0 BY <1>0, <1>1, <1>2, <2>1
  <2>3. (m * (q + 1) + 0) % m = 0 BY <1>1, Remainder
  <2> QED BY <1>1, <1>2, <2>2, <2>3
<1>3. CASE r # m - 1
  <2>1. x + 1 = m * q + (r + 1) /\ r + 1 \in 0 .. m - 1 BY <1>0, <1>1, <1>3
  <2>2. (m * q + (r + 1)) % m = r + 1 BY <1>1, <2>1, Remainder
  <2> QED BY <1>1, <1>3, <2>1, <2>2
<1> QED BY <1>1, <1>2, <1>3

-----------------------------------------------------------------------------
(* A set of natural numbers has a least element.                           *)
LEMMA LeastNat ==
  ASSUME NEW S, S \subseteq Nat, S # {}
  PROVE  \E x \in S : \A y \in S : x <= y
<1> DEFINE R == {ss \in Nat \X Nat : ss[1] < ss[2]}
<1>1. OpToRel(<, Nat) = R BY DEF OpToRel
<1>2. IsWellFoundedOn(R, Nat) BY <1>1, NatLessThanWellFounded
<1>3. \E x \in S : \A y \in S : <<y, x>> \notin R
  <2> HIDE DEF R
  <2> QED BY <1>2, WFMin
<1>4. PICK x \in S : \A y \in S : <<y, x>> \notin R BY <1>3
<1>5. ASSUME NEW y \in S PROVE x <= y
  <2>1. x \in Nat /\ y \in Nat OBVIOUS
  <2>2. ~(y < x) BY <1>4, <2>1
  <2> QED BY <2>1, <2>2
<1> QED BY <1>5

(* A set with 0 and with each successor holds all natural numbers.         *)
LEMMA SetInduction ==
  ASSUME NEW S, S \subseteq Nat, 0 \in S, \A n \in S : n + 1 \in S
  PROVE  S = Nat
<1> DEFINE T == Nat \ S
<1> SUFFICES ASSUME T # {} PROVE FALSE
  OBVIOUS
<1>1. T \subseteq Nat OBVIOUS
<1>2. PICK x \in T : \A y \in T : x <= y
  <2> HIDE DEF T
  <2> QED BY <1>1, LeastNat
<1>3. x \in Nat /\ x # 0 OBVIOUS
<1>4. x - 1 \in Nat BY <1>3
<1>5. x - 1 \notin T
  <2> SUFFICES ASSUME x - 1 \in T PROVE FALSE
    OBVIOUS
  <2>1. x <= x - 1 BY <1>2
  <2> QED BY <1>3, <2>1
<1>6. (x - 1) + 1 \in S BY <1>4, <1>5
<1>7. (x - 1) + 1 = x BY <1>3
<1> QED BY <1>6, <1>7

LEMMA MinIs ==
  ASSUME NEW S, S \subseteq Nat, S # {}
  PROVE  Min(S) \in S /\ \A y \in S : Min(S) <= y
BY LeastNat DEF Min

(* A bounded set of natural numbers has a greatest element.                *)
LEMMA MaxIs ==
  ASSUME NEW S, NEW b \in Nat, S \subseteq 0 .. b, S # {}
  PROVE  Max(S) \in S /\ \A y \in S : y <= Max(S)
<1> DEFINE T == {b - y : y \in S}
<1>1. T \subseteq Nat /\ T # {}
  <2>1. \A y \in S : y \in 0 .. b /\ b - y \in Nat OBVIOUS
  <2> QED BY <2>1
<1>2. PICK t \in T : \A u \in T : t <= u
  <2> HIDE DEF T
  <2> QED BY <1>1, LeastNat
<1>3. PICK x \in S : t = b - x OBVIOUS
<1>4. ASSUME NEW y \in S PROVE x >= y
  <2>1. b - y \in T OBVIOUS
  <2>2. t <= b - y BY <1>2, <2>1
  <2>3. x \in 0 .. b /\ y \in 0 .. b OBVIOUS
  <2> QED BY <1>3, <2>2, <2>3
<1>5. Max(S) \in S /\ \A y \in S : Max(S) >= y BY <1>4 DEF Max
<1>6. ASSUME NEW y \in S PROVE y <= Max(S)
  <2>1. Max(S) \in 0 .. b /\ y \in 0 .. b BY <1>5
  <2> QED BY <1>5, <2>1
<1> QED BY <1>5, <1>6
=============================================================================
