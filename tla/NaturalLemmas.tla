---------------------------- MODULE NaturalLemmas ----------------------------
(***************************************************************************)
(* Facts about natural numbers that several proofs use.                    *)
(***************************************************************************)
EXTENDS Integers, WellFoundedInduction, TLAPS

\* A set of natural numbers that is not empty has a least element.
LEMMA LeastElement ==
  ASSUME NEW S, S \subseteq Nat, S # {}
  PROVE  \E n \in S : \A m \in S : n =< m
<1>1. PICK n \in S : \A m \in S : ~ (<<m, n>> \in OpToRel(<, Nat))
  BY NatLessThanWellFounded, WFMin
<1>2. \A m \in S : ~ (m < n)
  BY <1>1 DEF OpToRel
<1> QED
  BY <1>2

\* Induction over the initial segment 0 .. n.
LEMMA SegmentInduction ==
  ASSUME NEW n \in Nat, NEW S, 0 \in S, \A k \in 0 .. n - 1 : k \in S => k + 1 \in S
  PROVE  0 .. n \subseteq S
<1>1. SUFFICES ASSUME 0 .. n \ S # {} PROVE FALSE
  OBVIOUS
<1>2. 0 .. n \ S \subseteq Nat
  OBVIOUS
<1>3. PICK k \in 0 .. n \ S : \A m \in 0 .. n \ S : k =< m
  BY <1>1, <1>2, LeastElement
<1>4. k # 0 /\ k - 1 \in 0 .. n - 1 /\ k - 1 \notin 0 .. n \ S
  BY <1>3
<1>5. (k - 1) + 1 \in S
  BY <1>4
<1> QED
  BY <1>3, <1>5

\* Dividing a product by one of its factors.
LEMMA DivideProduct ==
  ASSUME NEW a \in Nat, NEW b \in Nat, b > 0
  PROVE  (a * b) \div b = a /\ (a * b) % b = 0
OBVIOUS

\* A multiple is its quotient times the divisor.
LEMMA MultipleOfQuotient ==
  ASSUME NEW n \in Nat, NEW d \in Nat, d > 0, n % d = 0
  PROVE  n \div d \in Nat /\ n = (n \div d) * d
OBVIOUS

\* Counting one further crosses a multiple of d exactly if it reaches one.
LEMMA DivideSuccessor ==
  ASSUME NEW n \in Nat, NEW d \in Nat, d > 0
  PROVE  (n + 1) \div d = IF (n + 1) % d = 0 THEN n \div d + 1 ELSE n \div d
OBVIOUS

\* Halving a quotient is dividing by the doubled divisor.
LEMMA DivideTwice ==
  ASSUME NEW n \in Nat, NEW d \in Nat, d > 0
  PROVE  n \div (2 * d) = (n \div d) \div 2
OBVIOUS
=============================================================================
