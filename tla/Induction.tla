------------------------------ MODULE Induction ------------------------------
(***************************************************************************)
(* Induction over the naturals, stated of a set of numbers, and what it    *)
(* gives for the folds that the models are built from.                     *)
(***************************************************************************)
EXTENDS Integers, Sequences, SequencesExt, WellFoundedInduction, TLAPS

(* A set of naturals that is not empty has a least member.                 *)
LEMMA Least ==
  ASSUME NEW T, T \subseteq Nat, T # {}
  PROVE  \E n \in T : \A m \in T : n <= m
<1> DEFINE R == {ss \in Nat \X Nat : ss[1] < ss[2]}
<1>1. IsWellFoundedOn(R, Nat)
  BY NatLessThanWellFounded DEF OpToRel
<1>2. PICK n \in T : \A m \in T : ~ (<<m, n>> \in R)
  BY <1>1, WFMin
<1>3. ASSUME NEW m \in T, ~ (n <= m) PROVE FALSE
  <2>1. n \in Nat /\ m \in Nat /\ m < n
    BY <1>3
  <2>2. <<m, n>> \in R
    BY <2>1
  <2> QED BY <1>2, <2>2
<1> QED BY <1>3

(* A set that holds 0, and n + 1 whenever it holds n, holds every natural. *)
LEMMA NatSetInduction ==
  ASSUME NEW S, 0 \in S, \A n \in Nat : n \in S => n + 1 \in S
  PROVE  \A n \in Nat : n \in S
<1> SUFFICES ASSUME Nat \ S # {} PROVE FALSE
  OBVIOUS
<1>1. PICK n \in Nat \ S : \A m \in Nat \ S : n <= m
  BY Least
<1>2. n # 0 /\ n - 1 \in Nat
  BY <1>1
<1>3. n - 1 \in S
  BY <1>1, <1>2
<1> QED BY <1>1, <1>2, <1>3

(* Max is the largest member of a set of positions.                        *)
LEMMA MaxIsLargest ==
  ASSUME NEW n \in Nat, NEW t \in SUBSET (1 .. n), t # {}
  PROVE  Max(t) \in t /\ \A y \in t : y <= Max(t)
<1> DEFINE T == {n - y : y \in t}
<1>1. PICK m \in T : \A k \in T : m <= k
  <2>1. \A y \in t : n - y \in Nat
    OBVIOUS
  <2>2. T \subseteq Nat /\ T # {}
    BY <2>1
  <2> QED BY <2>2, Least
<1>2. PICK x \in t : m = n - x
  OBVIOUS
<1>3. ASSUME NEW y \in t PROVE x >= y
  <2>1. n - y \in T /\ x \in Nat /\ y \in Nat
    OBVIOUS
  <2> QED BY <1>1, <1>2, <2>1
<1>4. Max(t) \in t /\ \A y \in t : Max(t) >= y
  BY <1>3 DEF Max
<1> QED BY <1>4

(* The sum of a sequence of integers, as a fold, is an integer: the fold's *)
(* recursive function exists, and takes integers for values.               *)
LEMMA SumIsTyped ==
  ASSUME NEW s \in Seq(Int)
  PROVE  FoldLeft(LAMBDA x, y : x + y, 0, s) \in Int
<1> DEFINE n == Len(s)
<1> DEFINE term(h, t) == IF t = {} THEN 0 ELSE LET x == Max(t) IN h[t \ {x}] + s[x]
<1> DEFINE body(k, h) == [t \in SUBSET (1 .. k) |-> term(h, t)]
<1>1. n \in Nat /\ DOMAIN s = 1 .. n /\ \A i \in 1 .. n : s[i] \in Int
  OBVIOUS
<1>2. FoldLeft(LAMBDA x, y : x + y, 0, s) = (CHOOSE f : f = body(n, f))[1 .. n]
  BY <1>1 DEF FoldLeft, MapThenFoldSet
<1> HIDE DEF n
<1>3. \A k \in Nat : \A t \in SUBSET (1 .. k) : t # {} => Max(t) \in t /\ \A y \in t : y <= Max(t)
  BY MaxIsLargest
(* Such a function exists. *)
<1>4. ASSUME NEW k \in Nat, NEW h, h = body(k, h) PROVE \E g : g = body(k + 1, g)
  <2> DEFINE g == [t \in SUBSET (1 .. k + 1) |->
                       IF k + 1 \in t THEN h[t \ {k + 1}] + s[k + 1] ELSE h[t]]
  <2>1. ASSUME NEW t \in SUBSET (1 .. k + 1) PROVE g[t] = term(g, t)
    <3>0. t # {} => Max(t) \in t /\ \A y \in t : y <= Max(t)
      <4>1. k + 1 \in Nat
        OBVIOUS
      <4> QED BY <1>3, <4>1
    <3> HIDE DEF body
    <3>1. CASE t = {}
      <4>1. h[t] = term(h, t)
        BY <3>1, <1>4 DEF body
      <4> QED BY <3>1, <4>1
    <3>2. CASE k + 1 \in t
      <4>1. Max(t) = k + 1
        <5>1. k + 1 <= Max(t) /\ Max(t) \in 1 .. k + 1
          BY <3>2, <3>0
        <5> QED BY <5>1
      <4>2. t \ {k + 1} \in SUBSET (1 .. k + 1)
        OBVIOUS
      <4> QED BY <3>2, <4>1, <4>2
    <3>3. CASE t # {} /\ k + 1 \notin t
      <4>1. t \in SUBSET (1 .. k)
        BY <3>3
      <4>2. Max(t) \in t
        BY <3>3, <3>0
      <4>3. h[t] = h[t \ {Max(t)}] + s[Max(t)]
        BY <1>4, <3>3, <4>1 DEF body
      <4> QED BY <3>3, <4>1, <4>2, <4>3
    <3> QED BY <3>1, <3>2, <3>3
  <2>2. g = [t \in SUBSET (1 .. k + 1) |-> g[t]]
    OBVIOUS
  <2> HIDE DEF g, term
  <2>3. g = body(k + 1, g)
    BY <2>1, <2>2
  <2> QED BY <2>3
<1>5. \E h : h = body(n, h)
  <2> DEFINE S == {k \in Nat : \E h : h = body(k, h)}
  <2>1. 0 \in S
    <3> DEFINE h == [t \in SUBSET (1 .. 0) |-> 0]
    <3>1. h = body(0, h)
      OBVIOUS
    <3> HIDE DEF h, body
    <3> QED BY <3>1
  <2>2. ASSUME NEW k \in Nat, k \in S PROVE k + 1 \in S
    <3> HIDE DEF body
    <3> QED BY <1>4, <2>2
  <2> HIDE DEF S
  <2>3. n \in S
    BY <1>1, <2>1, <2>2, NatSetInduction
  <2> QED BY <2>3 DEF S
<1>6. PICK h : h = body(n, h) /\ h = CHOOSE f : f = body(n, f)
  <2> HIDE DEF body
  <2> QED BY <1>5
<1>7. \A t \in SUBSET (1 .. n) : h[t] = term(h, t)
  BY <1>6
<1>8. h[{}] = 0 /\ \A t \in SUBSET (1 .. n) : t # {} => h[t] = h[t \ {Max(t)}] + s[Max(t)]
  BY <1>7
<1> HIDE DEF body, term
(* Each of its values is a number.                                         *)
<1>9. h[1 .. n] \in Int
  <2> DEFINE below(k) == \A t \in SUBSET (1 .. n) : t \subseteq 1 .. k => h[t] \in Int
  <2> DEFINE S == {k \in Nat : below(k)}
  <2>1. below(0)
    <3> SUFFICES ASSUME NEW t \in SUBSET (1 .. n), t \subseteq 1 .. 0 PROVE h[t] \in Int
      OBVIOUS
    <3>1. t = {}
      OBVIOUS
    <3> QED BY <1>8, <3>1
  <2>2. ASSUME NEW k \in Nat, below(k) PROVE below(k + 1)
    <3> SUFFICES ASSUME NEW t \in SUBSET (1 .. n), t \subseteq 1 .. k + 1 PROVE h[t] \in Int
      OBVIOUS
    <3>1. CASE t = {}
      BY <1>8, <3>1
    <3>2. CASE t # {}
      <4>1. PICK m \in t : m = Max(t) /\ \A y \in t : y <= m
        BY <1>1, <1>3, <3>2
      <4>2. m \in 1 .. n /\ \A y \in t : y \in 1 .. k + 1
        OBVIOUS
      <4>3. t \ {m} \subseteq 1 .. k
        <5> SUFFICES ASSUME NEW y \in t, y # m PROVE y \in 1 .. k
          OBVIOUS
        <5>1. y <= m /\ y \in 1 .. k + 1 /\ m \in 1 .. k + 1
          BY <4>1, <4>2
        <5> QED BY <5>1
      <4>4. h[t \ {m}] \in Int
        BY <2>2, <4>3
      <4> QED BY <1>1, <1>8, <3>2, <4>1, <4>2, <4>4
    <3> QED BY <3>1, <3>2
  <2> HIDE DEF below
  <2>3. 0 \in S /\ \A k \in Nat : k \in S => k + 1 \in S
    BY <2>1, <2>2
  <2> HIDE DEF S
  <2>4. n \in S
    BY <1>1, <2>3, NatSetInduction
  <2>5. below(n)
    BY <2>4 DEF S
  <2> QED BY <2>5 DEF below
<1> QED BY <1>2, <1>6, <1>9
=============================================================================
