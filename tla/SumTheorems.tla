---------------------------- MODULE SumTheorems ----------------------------
(***************************************************************************)
(* What MapThenSumSet of the community modules computes, for any finite    *)
(* set: nothing for the empty set, and each element's weight counted once, *)
(* whatever the order in which CHOOSE takes them out.                      *)
(*                                                                         *)
(* The induction theorems of the library take an operator; these lemmas    *)
(* take a least counterexample out of a well-founded order instead.        *)
(***************************************************************************)
EXTENDS FiniteSetsExt, FiniteSetTheorems, TLAPS

\* t tells the sum of the weights w over each subset of S, as MapThenFoldSet recurs.
First(s) == CHOOSE x \in s : TRUE
Unfold(t, w, s) == IF s = {} THEN 0 ELSE w[First(s)] + t[s \ {First(s)}]
IsTotal(t, w, S) == t = [s \in SUBSET S |-> Unfold(t, w, s)]
Total(w, S) == (CHOOSE t : IsTotal(t, w, S))[S]

LEMMA LeastNumber ==
  ASSUME NEW N, N \subseteq Nat, N # {}
  PROVE  \E n \in N : \A m \in N : ~ (m < n)
<1> DEFINE R == OpToRel(<, Nat)
<1>1. IsWellFoundedOn(R, Nat)
  BY NatLessThanWellFounded
<1>2. \E n \in N : \A m \in N : <<m, n>> \notin R
  <2> HIDE DEF R
  <2> QED BY <1>1, WFMin
<1> QED
  BY <1>2 DEF OpToRel

LEMMA LeastSet ==
  ASSUME NEW S, IsFiniteSet(S), NEW F, F \subseteq SUBSET S, F # {}
  PROVE  \E s \in F : \A r \in F : r \subseteq s => r = s
<1> DEFINE R == StrictSubsetOrdering(S)
<1>1. IsWellFoundedOn(R, SUBSET S)
  BY FS_StrictSubsetOrderingWellFounded, FS_FiniteSubsetsOfFinite
<1>2. \E s \in F : \A r \in F : <<r, s>> \notin R
  <2> HIDE DEF R
  <2> QED BY <1>1, WFMin
<1> QED
  BY <1>2 DEF StrictSubsetOrdering

LEMMA TotalExists ==
  ASSUME NEW S, IsFiniteSet(S), NEW w
  PROVE  \E t : IsTotal(t, w, S)
<1> DEFINE D(n) == {s \in SUBSET S : Cardinality(s) <= n}
           Good(t, n) == t = [s \in D(n) |-> Unfold(t, w, s)]
           N == {n \in Nat : ~ \E t : Good(t, n)}
<1>1. \A s \in SUBSET S : IsFiniteSet(s) /\ Cardinality(s) \in Nat /\ Cardinality(s) <= Cardinality(S)
  BY FS_Subset, FS_CardinalityType
<1>2. ASSUME N # {} PROVE FALSE
  <2>1. PICK n \in N : \A m \in N : ~ (m < n)
    <3>1. N \subseteq Nat
      OBVIOUS
    <3> HIDE DEF N
    <3> QED BY <1>2, <3>1, LeastNumber
  <2>2. CASE n = 0
    <3> DEFINE t == [s \in D(0) |-> 0]
    <3>1. \A s \in D(0) : s = {}
      BY <1>1, FS_EmptySet
    <3>2. t = [s \in D(0) |-> Unfold(t, w, s)]
      BY <3>1 DEF Unfold
    <3>3. Good(t, 0)
      BY <3>2
    <3> QED BY <2>2, <3>3
  <2>3. CASE n # 0
    <3>1. n - 1 \in Nat /\ n - 1 < n /\ n \in Nat
      BY <2>3
    <3>2. n - 1 \notin N
      BY <2>1, <3>1
    <3>3. PICK u : Good(u, n - 1)
      BY <3>1, <3>2
    <3> DEFINE t == [s \in D(n) |-> Unfold(u, w, s)]
    <3>4. \A s \in D(n) : s # {} => s \ {First(s)} \in D(n - 1) /\ First(s) \in s
      <4> SUFFICES ASSUME NEW s \in D(n), s # {}
                   PROVE  s \ {First(s)} \in D(n - 1) /\ First(s) \in s
        OBVIOUS
      <4>1. First(s) \in s
        BY DEF First
      <4>2. Cardinality(s \ {First(s)}) = Cardinality(s) - 1
        BY <1>1, <4>1, FS_RemoveElement
      <4> QED BY <1>1, <3>1, <4>1, <4>2
    <3>5. D(n - 1) \subseteq D(n)
      BY <1>1, <3>1
    <3>6. \A s \in D(n - 1) : t[s] = u[s]
      <4>1. \A s \in D(n - 1) : u[s] = Unfold(u, w, s)
        BY <3>3
      <4> QED BY <3>5, <4>1
    <3>7. \A s \in D(n) : Unfold(u, w, s) = Unfold(t, w, s)
      BY <3>4, <3>6 DEF Unfold
    <3>8. t = [s \in D(n) |-> Unfold(t, w, s)]
      BY <3>7
    <3>9. Good(t, n)
      BY <3>8
    <3> QED BY <2>1, <3>9
  <2> QED BY <2>2, <2>3
<1>3. PICK t : Good(t, Cardinality(S))
  BY <1>1, <1>2
<1>4. D(Cardinality(S)) = SUBSET S
  BY <1>1
<1> QED
  BY <1>3, <1>4 DEF IsTotal

\* Totals of the same weights agree, and the order does not matter.
LEMMA TotalLaws ==
  ASSUME NEW S, IsFiniteSet(S), NEW w, \A x \in S : w[x] \in Nat, NEW t, IsTotal(t, w, S)
  PROVE  /\ t[{}] = 0
         /\ \A s \in SUBSET S : t[s] \in Nat
         /\ \A s \in SUBSET S : \A x \in s : t[s] = w[x] + t[s \ {x}]
<1> DEFINE Fine(s) == t[s] \in Nat /\ \A x \in s : t[s] = w[x] + t[s \ {x}]
           F == {s \in SUBSET S : ~ Fine(s)}
<1>1. \A s \in SUBSET S : t[s] = Unfold(t, w, s)
  BY DEF IsTotal
<1>2. ASSUME F # {} PROVE FALSE
  <2>1. PICK s \in F : \A r \in F : r \subseteq s => r = s
    <3>1. F \subseteq SUBSET S
      OBVIOUS
    <3> HIDE DEF F
    <3> QED BY <1>2, <3>1, LeastSet
  <2>2. \A r \in SUBSET s : r # s => Fine(r)
    BY <2>1
  <2>3. s # {}
    <3> SUFFICES ASSUME s = {} PROVE FALSE
      OBVIOUS
    <3>1. t[s] = 0
      BY <1>1, <2>1 DEF Unfold
    <3> QED BY <2>1, <3>1
  <2> DEFINE y == First(s)
  <2>4. y \in s /\ t[s] = w[y] + t[s \ {y}]
    BY <1>1, <2>1, <2>3 DEF Unfold, First
  <2>5. t[s \ {y}] \in Nat /\ w[y] \in Nat
    BY <2>1, <2>2, <2>4
  <2> HIDE DEF y
  <2>6. ASSUME NEW x \in s PROVE t[s] = w[x] + t[s \ {x}]
    <3>1. CASE x = y
      BY <2>4, <3>1
    <3>2. CASE x # y
      <4>1. t[s \ {y}] = w[x] + t[(s \ {y}) \ {x}]
        BY <2>2, <2>4, <3>2
      <4>2. t[s \ {x}] = w[y] + t[(s \ {x}) \ {y}]
        BY <2>2, <2>4, <2>6, <3>2
      <4>3. (s \ {x}) \ {y} = (s \ {y}) \ {x}
        OBVIOUS
      <4>4. t[(s \ {y}) \ {x}] \in Nat /\ w[x] \in Nat
        <5>1. (s \ {y}) \ {x} \in SUBSET s /\ (s \ {y}) \ {x} # s
          BY <2>6
        <5> QED BY <2>1, <2>2, <2>6, <5>1
      <4> QED BY <2>4, <2>5, <4>1, <4>2, <4>3, <4>4
    <3> QED BY <3>1, <3>2
  <2>7. t[s] \in Nat
    BY <2>4, <2>5
  <2>8. Fine(s)
    BY <2>6, <2>7
  <2> QED BY <2>1, <2>8
<1> QED
  BY <1>1, <1>2 DEF Unfold

LEMMA TotalsAgree ==
  ASSUME NEW S, IsFiniteSet(S), NEW w, NEW v, \A x \in S : w[x] = v[x] /\ w[x] \in Nat,
         NEW T, IsFiniteSet(T), S \subseteq T, \A x \in T : v[x] \in Nat,
         NEW t, IsTotal(t, w, S), NEW u, IsTotal(u, v, T)
  PROVE  t[S] = u[S]
<1> DEFINE F == {s \in SUBSET S : t[s] # u[s]}
<1>1. /\ t[{}] = 0 /\ u[{}] = 0
      /\ \A s \in SUBSET S : \A x \in s : t[s] = w[x] + t[s \ {x}] /\ u[s] = v[x] + u[s \ {x}]
  <2>1. /\ t[{}] = 0
        /\ \A s \in SUBSET S : \A x \in s : t[s] = w[x] + t[s \ {x}]
    BY TotalLaws
  <2>2. /\ u[{}] = 0
        /\ \A s \in SUBSET T : \A x \in s : u[s] = v[x] + u[s \ {x}]
    BY TotalLaws
  <2> QED BY <2>1, <2>2
<1>2. ASSUME F # {} PROVE FALSE
  <2>1. PICK s \in F : \A r \in F : r \subseteq s => r = s
    <3>1. F \subseteq SUBSET S
      OBVIOUS
    <3> HIDE DEF F
    <3> QED BY <1>2, <3>1, LeastSet
  <2>2. PICK x : x \in s
    BY <1>1, <2>1
  <2>3. t[s \ {x}] = u[s \ {x}]
    BY <2>1, <2>2
  <2> QED BY <1>1, <2>1, <2>2, <2>3
<1> QED
  BY <1>2

-----------------------------------------------------------------------------
(* The same of the total itself.                                               *)

LEMMA TotalIsTotal ==
  ASSUME NEW S, IsFiniteSet(S), NEW w
  PROVE  \E t : IsTotal(t, w, S) /\ Total(w, S) = t[S]
<1>1. IsTotal(CHOOSE t : IsTotal(t, w, S), w, S)
  BY TotalExists
<1> QED
  BY <1>1 DEF Total

\* The sum of nothing is nothing; each element counts once.
LEMMA TotalRules ==
  ASSUME NEW S, IsFiniteSet(S), NEW w, \A x \in S : w[x] \in Nat
  PROVE  /\ Total(w, S) \in Nat
         /\ Total(w, {}) = 0
         /\ \A x \in S : Total(w, S) = w[x] + Total(w, S \ {x})
<1>1. PICK t : IsTotal(t, w, S) /\ Total(w, S) = t[S]
  BY TotalIsTotal
<1>2. ASSUME NEW R \in SUBSET S PROVE Total(w, R) = t[R]
  <2>1. IsFiniteSet(R)
    BY FS_Subset
  <2>2. PICK r : IsTotal(r, w, R) /\ Total(w, R) = r[R]
    BY <2>1, TotalIsTotal
  <2>3. r[R] = t[R]
    BY <1>1, <2>1, <2>2, TotalsAgree
  <2> QED BY <2>2, <2>3
<1>3. /\ t[{}] = 0
      /\ t[S] \in Nat
      /\ \A x \in S : t[S] = w[x] + t[S \ {x}]
  BY <1>1, TotalLaws
<1> QED
  BY <1>2, <1>3

\* Only the weights of the elements matter.
LEMMA TotalExtensional ==
  ASSUME NEW S, IsFiniteSet(S), NEW w, NEW v, \A x \in S : w[x] = v[x] /\ w[x] \in Nat
  PROVE  Total(w, S) = Total(v, S)
<1>1. PICK t : IsTotal(t, w, S) /\ Total(w, S) = t[S]
  BY TotalIsTotal
<1>2. PICK u : IsTotal(u, v, S) /\ Total(v, S) = u[S]
  BY TotalIsTotal
<1>3. t[S] = u[S]
  BY <1>1, <1>2, TotalsAgree
<1> QED
  BY <1>1, <1>2, <1>3

\* A part and the rest.
LEMMA TotalSplits ==
  ASSUME NEW S, IsFiniteSet(S), NEW w, \A x \in S : w[x] \in Nat, NEW R \in SUBSET S
  PROVE  Total(w, S) = Total(w, R) + Total(w, S \ R)
<1> DEFINE F == {r \in SUBSET S : Total(w, S) # Total(w, r) + Total(w, S \ r)}
<1>1. \A r \in SUBSET S : /\ IsFiniteSet(r)
                          /\ Total(w, r) \in Nat
                          /\ Total(w, {}) = 0
                          /\ \A x \in r : Total(w, r) = w[x] + Total(w, r \ {x})
  BY FS_Subset, TotalRules
<1>2. ASSUME F # {} PROVE FALSE
  <2>1. PICK r \in F : \A q \in F : q \subseteq r => q = r
    <3>1. F \subseteq SUBSET S
      OBVIOUS
    <3> HIDE DEF F
    <3> QED BY <1>2, <3>1, LeastSet
  <2>2. CASE r = {}
    <3>1. S \ r = S /\ Total(w, r) = 0 /\ Total(w, S) \in Nat
      BY <1>1, <2>2
    <3>2. Total(w, S) = Total(w, r) + Total(w, S \ r)
      BY <3>1
    <3> QED BY <2>1, <3>2
  <2>3. CASE r # {}
    <3>1. PICK x : x \in r
      BY <2>3
    <3> DEFINE q == r \ {x}
    <3>2. q \in SUBSET S /\ q \subseteq r /\ q # r /\ x \in S /\ r \in SUBSET S /\ S \ r \in SUBSET S
      BY <2>1, <3>1
    <3>3. Total(w, S) = Total(w, q) + Total(w, S \ q)
      BY <2>1, <3>2
    <3>4. x \in S \ q /\ (S \ q) \ {x} = S \ r /\ S \ q \in SUBSET S
      BY <3>1, <3>2
    <3>5. Total(w, S \ q) = w[x] + Total(w, S \ r)
      BY <1>1, <3>4
    <3>6. Total(w, r) = w[x] + Total(w, q)
      BY <1>1, <3>1, <3>2
    <3>7. w[x] \in Nat /\ Total(w, q) \in Nat /\ Total(w, S \ r) \in Nat
      BY <1>1, <3>2
    <3> HIDE DEF q
    <3>8. Total(w, S) = Total(w, r) + Total(w, S \ r)
      BY <3>3, <3>5, <3>6, <3>7
    <3> QED BY <2>1, <3>8
  <2> QED BY <2>2, <2>3
<1> QED
  BY <1>2
============================================================================
