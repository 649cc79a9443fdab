--------------------------- MODULE InductionLemmas ---------------------------
(***************************************************************************)
(* Induction over natural numbers, with sets in the place of predicates:   *)
(* the induction theorems of the library take an operator, which the       *)
(* provers cannot instantiate. What is needed follows from a theorem about *)
(* sets, that strict inclusion is well-founded on finite sets. The Max and *)
(* Min of the community modules, CHOOSE expressions, are seen to exist.    *)
(***************************************************************************)
EXTENDS Integers, FiniteSetsExt, FiniteSetTheorems, WellFoundedInduction, TLAPS

\* A set of natural numbers has a least element.
LEMMA LeastNumber ==
    ASSUME NEW S, S \subseteq Nat, S # {}
    PROVE  \E x \in S : \A y \in S : x <= y
<1> DEFINE D == {0..x : x \in S}
<1>1. D \subseteq FiniteSubsetsOf(Nat) /\ D # {}
    <2>1. \A x \in S : 0..x \subseteq Nat /\ IsFiniteSet(0..x)
        BY FS_Interval
    <2>2. QED
        BY <2>1 DEF FiniteSubsetsOf
<1>2. PICK d \in D : \A e \in D : ~(<<e, d>> \in StrictSubsetOrdering(Nat))
    <2> HIDE DEF D
    <2>1. IsWellFoundedOn(StrictSubsetOrdering(Nat), FiniteSubsetsOf(Nat))
        BY FS_StrictSubsetOrderingWellFounded
    <2>2. QED
        BY <1>1, <2>1, WFMin, Zenon
<1>3. PICK x \in S : d = 0..x
    OBVIOUS
<1>4. \A y \in S : x <= y
    <2>1. SUFFICES ASSUME NEW y \in S, y < x
                   PROVE  FALSE
        OBVIOUS
    <2>2. x \in Nat /\ y \in Nat
        OBVIOUS
    <2>3. 0..y \subseteq 0..x /\ x \in 0..x /\ x \notin 0..y
        BY <2>1, <2>2
    <2>4. 0..y \in SUBSET Nat /\ 0..x \in SUBSET Nat /\ 0..y # 0..x
        BY <2>2, <2>3
    <2>5. <<0..y, d>> \in StrictSubsetOrdering(Nat)
        BY <1>3, <2>3, <2>4 DEF StrictSubsetOrdering
    <2>6. 0..y \in D
        OBVIOUS
    <2>7. QED
        BY <1>2, <2>5, <2>6
<1>5. QED
    BY <1>4

\* The induction principle.
LEMMA InductiveSet ==
    ASSUME NEW S, 0 \in S, \A i \in Nat : i \in S => i + 1 \in S
    PROVE  \A i \in Nat : i \in S
<1>1. SUFFICES ASSUME NEW i \in Nat, i \notin S
               PROVE  FALSE
    OBVIOUS
<1>2. PICK x \in Nat \ S : \A y \in Nat \ S : x <= y
    BY <1>1, LeastNumber
<1>3. x - 1 \in Nat /\ x - 1 \in S
    BY <1>2
<1>4. QED
    BY <1>2, <1>3

\* A bounded set of natural numbers has a greatest element, which is its Max.
LEMMA GreatestNumber ==
    ASSUME NEW S, S \subseteq Nat, S # {}, NEW b \in Nat, \A x \in S : x <= b
    PROVE  Max(S) \in S /\ \A x \in S : x <= Max(S)
<1> DEFINE U == {u \in Nat : \A x \in S : x <= u}
<1>1. PICK u \in U : \A y \in U : u <= y
    <2>1. U \subseteq Nat /\ U # {}
        OBVIOUS
    <2>2. QED
        BY <2>1, LeastNumber
<1>2. u \in S
    <2>1. SUFFICES ASSUME u \notin S
                   PROVE  FALSE
        OBVIOUS
    <2>2. \A x \in S : x < u
        BY <1>1, <2>1
    <2>3. u - 1 \in U
        <3>1. u \in Nat /\ \E x \in S : x \in Nat /\ x < u
            BY <1>1, <2>2
        <3>2. u - 1 \in Nat /\ \A x \in S : x <= u - 1
            BY <2>2, <3>1
        <3>3. QED
            BY <3>2
    <2>4. QED
        BY <1>1, <2>3
<1>3. \E x \in S : \A y \in S : x >= y
    BY <1>1, <1>2
<1>4. QED
    BY <1>3 DEF Max

\* The Min of a set of natural numbers.
LEMMA LeastIsMin ==
    ASSUME NEW S, S \subseteq Nat, S # {}
    PROVE  Min(S) \in S /\ \A x \in S : Min(S) <= x
BY LeastNumber DEF Min

\* The Min of two numbers.
LEMMA MinOfTwo ==
    ASSUME NEW a \in Nat, NEW b \in Nat
    PROVE  /\ Min({a, b}) \in Nat
           /\ Min({a, b}) <= a /\ Min({a, b}) <= b
           /\ Min({a, b}) = a \/ Min({a, b}) = b
<1>1. {a, b} \subseteq Nat /\ {a, b} # {}
    OBVIOUS
<1>2. Min({a, b}) \in {a, b} /\ \A x \in {a, b} : Min({a, b}) <= x
    BY <1>1, LeastIsMin
<1>3. QED
    BY <1>2

\* The Max of numbers up to n + 1, of which that is one.
LEMMA MaxOfTop ==
    ASSUME NEW n \in Nat, NEW S \in SUBSET (1..(n + 1)), n + 1 \in S
    PROVE  Max(S) = n + 1
<1>1. S \subseteq Nat /\ S # {} /\ n + 1 \in Nat /\ \A x \in S : x <= n + 1
    OBVIOUS
<1>2. Max(S) \in S /\ \A x \in S : x <= Max(S)
    BY <1>1, GreatestNumber
<1>3. Max(S) \in Nat /\ Max(S) <= n + 1 /\ n + 1 <= Max(S)
    BY <1>1, <1>2, Zenon
<1>4. QED
    BY <1>3

=============================================================================
