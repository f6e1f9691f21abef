-------------------------------- MODULE Loops --------------------------------
(***************************************************************************)
(* Facts about data that the proofs need: induction over the natural       *)
(* numbers, stated about a set so that it can be cited; the function that  *)
(* holds the value of an accumulator after each step of a loop; sums over  *)
(* a finite set, as the folds of the community modules compute them; and   *)
(* the list of a finite set's elements in a given order.                   *)
(***************************************************************************)
EXTENDS Integers, FiniteSets, Functions, WellFoundedInduction, FiniteSetTheorems, TLAPS

(* A set with 0 and the successors of its members holds every natural number: a smallest
   number outside would have a predecessor inside. *)
LEMMA Induction ==
    ASSUME NEW T, 0 \in T, \A n \in Nat : n \in T => n + 1 \in T
    PROVE  Nat \subseteq T
<1> DEFINE out == Nat \ T
           less == OpToRel(<, Nat)
<1>1. IsWellFoundedOn(less, Nat)
  BY NatLessThanWellFounded, Zenon
<1>2. \A i, j \in Nat : i < j => <<i, j>> \in less
  BY DEF OpToRel
<1> HIDE DEF less
<1>3. ASSUME out # {} PROVE FALSE
  <2>1. PICK n \in out : \A m \in out : ~(<<m, n>> \in less)
    BY <1>1, <1>3, WFMin, Zenon
  <2>2. n \in Nat /\ n # 0 /\ n - 1 \in Nat /\ n - 1 < n
    OBVIOUS
  <2>3. n - 1 \in T
    BY <1>2, <2>1, <2>2
  <2>4. n - 1 + 1 = n
    BY <2>2
  <2> QED
    BY <2>2, <2>3, <2>4
<1> QED
  BY <1>3

(* f holds the values of an accumulator in S: base before the first of m steps, then what
   each step makes of the value before. *)
IsLoop(f, S, base, m, step) ==
    /\ f \in [0 .. m -> S]
    /\ f[0] = base
    /\ \A n \in 1 .. m : f[n] = step[n][f[n - 1]]

LEMMA LoopExists ==
    ASSUME NEW S, NEW base \in S, NEW m \in Nat, NEW step \in [1 .. m -> [S -> S]]
    PROVE  \E f : IsLoop(f, S, base, m, step)
<1> DEFINE T == {k \in Nat : k <= m => \E f : IsLoop(f, S, base, k, step)}
<1>1. 0 \in T
  <2>1. IsLoop([i \in 0 .. 0 |-> base], S, base, 0, step)
    BY DEF IsLoop
  <2> QED
    BY <2>1
<1>2. ASSUME NEW k \in Nat, k \in T PROVE k + 1 \in T
  <2> SUFFICES ASSUME k + 1 <= m PROVE \E f : IsLoop(f, S, base, k + 1, step)
    OBVIOUS
  <2>1. PICK f : IsLoop(f, S, base, k, step)
    BY <1>2
  <2>2. k + 1 \in 1 .. m /\ f[k] \in S /\ step[k + 1][f[k]] \in S
    BY <2>1 DEF IsLoop
  <2> DEFINE g == [i \in 0 .. k + 1 |-> IF i <= k THEN f[i] ELSE step[k + 1][f[k]]]
  <2>3. IsLoop(g, S, base, k + 1, step)
    BY <2>1, <2>2 DEF IsLoop
  <2> QED
    BY <2>3
<1> HIDE DEF T
<1>3. m \in T
  BY <1>1, <1>2, Induction
<1> QED
  BY <1>3 DEF T

-----------------------------------------------------------------------------
(* Sums of a function over a finite set. *)

Pick(s) == CHOOSE x \in s : TRUE

(* g[s] is the sum of f over s, for every subset s of S, as the fold computes it: one
   element is taken out at a time. *)
AddsUp(g, f, S) ==
    g = [s \in SUBSET S |-> IF s = {} THEN 0 ELSE f[Pick(s)] + g[s \ {Pick(s)}]]

LEMMA PickIsOf == \A s : s # {} => Pick(s) \in s
  BY DEF Pick

LEMMA Smaller ==
    ASSUME NEW S, IsFiniteSet(S), NEW s \in SUBSET S, s # {}
    PROVE  /\ Pick(s) \in S /\ s \ {Pick(s)} \in SUBSET S
           /\ Cardinality(s) \in Nat /\ Cardinality(s \ {Pick(s)}) \in Nat
           /\ Cardinality(s) = Cardinality(s \ {Pick(s)}) + 1
<1>1. IsFiniteSet(s) /\ Pick(s) \in s
  BY FS_Subset, PickIsOf
<1>2. Cardinality(s) \in Nat /\ Cardinality(s \ {Pick(s)}) \in Nat
  BY <1>1, FS_CardinalityType, FS_RemoveElement
<1>3. Cardinality(s \ {Pick(s)}) = Cardinality(s) - 1
  BY <1>1, FS_RemoveElement
<1> QED
  BY <1>1, <1>2, <1>3

LEMMA NoneIsEmpty ==
    ASSUME NEW S, IsFiniteSet(S), NEW s \in SUBSET S, Cardinality(s) = 0
    PROVE  s = {}
  BY FS_Subset, FS_EmptySet

(* The sum over the smaller subsets is enough to say the sum over the next larger ones. *)
LEMMA SumExists ==
    ASSUME NEW f, NEW S, IsFiniteSet(S)
    PROVE  \E g : AddsUp(g, f, S)
<1> DEFINE Sub(n) == {s \in SUBSET S : Cardinality(s) <= n}
           P(n) == \E g : g = [s \in Sub(n) |->
                                 IF s = {} THEN 0 ELSE f[Pick(s)] + g[s \ {Pick(s)}]]
<1>1. P(0)
  <2>1. \A s \in Sub(0) : s = {}
    <3>1. SUFFICES ASSUME NEW s \in SUBSET S, Cardinality(s) <= 0 PROVE s = {}
      OBVIOUS
    <3>2. Cardinality(s) \in Nat
      BY FS_Subset, FS_CardinalityType
    <3> QED
      BY <3>1, <3>2, NoneIsEmpty
  <2> DEFINE g == [s \in Sub(0) |-> 0]
  <2>2. g = [s \in Sub(0) |-> IF s = {} THEN 0 ELSE f[Pick(s)] + g[s \ {Pick(s)}]]
    BY <2>1
  <2> QED
    BY <2>2
<1>2. ASSUME NEW n \in Nat, P(n) PROVE P(n + 1)
  <2>1. PICK g : g = [s \in Sub(n) |->
                        IF s = {} THEN 0 ELSE f[Pick(s)] + g[s \ {Pick(s)}]]
    BY <1>2
  <2> DEFINE h == [s \in Sub(n + 1) |->
                     IF s = {} THEN 0 ELSE f[Pick(s)] + g[s \ {Pick(s)}]]
  <2>2. \A s \in Sub(n + 1) : s # {} => s \ {Pick(s)} \in Sub(n)
    BY Smaller
  <2>3. \A s \in Sub(n) : s \in Sub(n + 1)
    <3>1. \A s \in SUBSET S : Cardinality(s) \in Nat
      BY FS_Subset, FS_CardinalityType
    <3> QED
      BY <3>1
  <2> HIDE DEF Sub
  <2>4. \A s \in Sub(n) : h[s] = g[s]
    BY <2>1, <2>3
  <2>5. h = [s \in Sub(n + 1) |-> IF s = {} THEN 0 ELSE f[Pick(s)] + h[s \ {Pick(s)}]]
    <3> DEFINE k == [s \in Sub(n + 1) |-> IF s = {} THEN 0 ELSE f[Pick(s)] + h[s \ {Pick(s)}]]
    <3>1. \A s \in Sub(n + 1) : h[s] = k[s]
      BY <2>2, <2>4
    <3> QED
      BY <3>1
  <2> HIDE DEF h
  <2> QED
    BY <2>5
<1>3. P(Cardinality(S))
  <2> DEFINE T == {n \in Nat : P(n)}
  <2> HIDE DEF P
  <2>1. 0 \in T /\ \A n \in Nat : n \in T => n + 1 \in T
    BY <1>1, <1>2
  <2> HIDE DEF T
  <2>2. Nat \subseteq T
    BY <2>1, Induction
  <2> QED
    BY <2>2, FS_CardinalityType DEF T
<1>4. SUBSET S = Sub(Cardinality(S))
  BY FS_Subset
<1> QED
  BY <1>3, <1>4 DEF AddsUp

(* Only the values over the set matter, and nothing but them. *)
LEMMA SumUnique ==
    ASSUME NEW f, NEW S, NEW g, AddsUp(g, f, S),
           NEW e, NEW R, R \subseteq S, IsFiniteSet(R), NEW h, AddsUp(h, e, R),
           \A x \in R : e[x] = f[x]
    PROVE  \A s \in SUBSET R : g[s] = h[s]
<1> DEFINE P(n) == \A s \in SUBSET R : Cardinality(s) = n => g[s] = h[s]
<1>1. /\ \A s \in SUBSET R : s \in SUBSET S
      /\ g[{}] = 0 /\ h[{}] = 0
      /\ \A s \in SUBSET R : s # {} => /\ g[s] = f[Pick(s)] + g[s \ {Pick(s)}]
                                       /\ h[s] = e[Pick(s)] + h[s \ {Pick(s)}]
  <2>1. \A s \in SUBSET R : s \in SUBSET S
    OBVIOUS
  <2>2. {} \in SUBSET R /\ {} \in SUBSET S
    OBVIOUS
  <2> QED
    BY <2>1, <2>2 DEF AddsUp
<1>2. P(0)
  BY <1>1, NoneIsEmpty
<1>3. ASSUME NEW n \in Nat, P(n) PROVE P(n + 1)
  <2> SUFFICES ASSUME NEW s \in SUBSET R, Cardinality(s) = n + 1 PROVE g[s] = h[s]
    OBVIOUS
  <2>1. s # {}
    BY FS_EmptySet
  <2>2. Pick(s) \in R /\ s \ {Pick(s)} \in SUBSET R /\ Cardinality(s \ {Pick(s)}) = n
    BY <2>1, Smaller
  <2> QED
    BY <1>1, <1>3, <2>1, <2>2
<1>4. \A n \in Nat : P(n)
  <2> DEFINE T == {n \in Nat : P(n)}
  <2> HIDE DEF P
  <2>1. 0 \in T /\ \A n \in Nat : n \in T => n + 1 \in T
    BY <1>2, <1>3
  <2> HIDE DEF T
  <2>2. Nat \subseteq T
    BY <2>1, Induction
  <2> QED
    BY <2>2 DEF T
<1>5. \A s \in SUBSET R : Cardinality(s) \in Nat
  BY FS_Subset, FS_CardinalityType
<1> QED
  BY <1>4, <1>5

LEMMA SumIsFold ==
    ASSUME NEW f, NEW S, IsFiniteSet(S)
    PROVE  \E g : AddsUp(g, f, S) /\ SumFunctionOnSet(f, S) = g[S]
<1> DEFINE step(g) == [s \in SUBSET S |-> IF s = {} THEN 0 ELSE f[Pick(s)] + g[s \ {Pick(s)}]]
           iter == CHOOSE g : g = step(g)
<1>1. SumFunctionOnSet(f, S) = iter[S]
  BY DEF SumFunctionOnSet, FoldFunctionOnSet, MapThenFoldSet, Pick
<1>2. \E g : g = step(g)
  <2>1. PICK g : AddsUp(g, f, S)
    BY SumExists
  <2>2. g = step(g)
    BY <2>1 DEF AddsUp
  <2> HIDE DEF step
  <2> QED
    BY <2>2
<1> HIDE DEF step
<1>3. iter = step(iter)
  BY <1>2, Zenon
<1> QED
  BY <1>1, <1>3 DEF step, AddsUp

LEMMA SumOfNothing == \A f : SumFunctionOnSet(f, {}) = 0
<1> SUFFICES ASSUME NEW f PROVE SumFunctionOnSet(f, {}) = 0
  OBVIOUS
<1>1. PICK g : AddsUp(g, f, {}) /\ SumFunctionOnSet(f, {}) = g[{}]
  BY SumIsFold, FS_EmptySet
<1> QED
  BY <1>1 DEF AddsUp

LEMMA SumSame ==
    ASSUME NEW S, IsFiniteSet(S), NEW e, NEW f, \A x \in S : e[x] = f[x]
    PROVE  SumFunctionOnSet(e, S) = SumFunctionOnSet(f, S)
<1>1. PICK g : AddsUp(g, f, S) /\ SumFunctionOnSet(f, S) = g[S]
  BY SumIsFold
<1>2. PICK h : AddsUp(h, e, S) /\ SumFunctionOnSet(e, S) = h[S]
  BY SumIsFold
<1>3. \A s \in SUBSET S : g[s] = h[s]
  BY <1>1, <1>2, SumUnique
<1> QED
  BY <1>1, <1>2, <1>3

LEMMA SumPicks ==
    ASSUME NEW f, NEW S, IsFiniteSet(S), S # {}
    PROVE  SumFunctionOnSet(f, S) = f[Pick(S)] + SumFunctionOnSet(f, S \ {Pick(S)})
<1> DEFINE R == S \ {Pick(S)}
<1>1. IsFiniteSet(R) /\ R \subseteq S
  BY FS_RemoveElement
<1>2. PICK g : AddsUp(g, f, S) /\ SumFunctionOnSet(f, S) = g[S]
  BY SumIsFold
<1>3. PICK h : AddsUp(h, f, R) /\ SumFunctionOnSet(f, R) = h[R]
  BY <1>1, SumIsFold
<1>4. g[S] = f[Pick(S)] + g[R]
  BY <1>2 DEF AddsUp
<1> HIDE DEF R
<1>5. \A s \in SUBSET R : g[s] = h[s]
  BY <1>1, <1>2, <1>3, SumUnique
<1>6. g[R] = h[R]
  BY <1>5
<1> QED
  BY <1>2, <1>3, <1>4, <1>6 DEF R

(* A sum does not depend on the element that is taken out first. *)
LEMMA SumAdds ==
    ASSUME NEW f, NEW S, IsFiniteSet(S), \A x \in S : f[x] \in Nat
    PROVE  /\ SumFunctionOnSet(f, S) \in Nat
           /\ \A x \in S : SumFunctionOnSet(f, S) = f[x] + SumFunctionOnSet(f, S \ {x})
<1> DEFINE sum(s) == SumFunctionOnSet(f, s)
           P(n) == \A s \in SUBSET S : Cardinality(s) <= n =>
                      sum(s) \in Nat /\ \A x \in s : sum(s) = f[x] + sum(s \ {x})
<1>0. \A s \in SUBSET S : IsFiniteSet(s) /\ Cardinality(s) \in Nat
  BY FS_Subset, FS_CardinalityType
<1>1. P(0)
  <2> SUFFICES ASSUME NEW s \in SUBSET S, Cardinality(s) <= 0
               PROVE  sum(s) \in Nat /\ \A x \in s : sum(s) = f[x] + sum(s \ {x})
    OBVIOUS
  <2>1. Cardinality(s) = 0
    BY <1>0
  <2>2. s = {}
    BY <2>1, NoneIsEmpty
  <2>3. sum(s) = 0
    BY <2>2, SumOfNothing
  <2> QED
    BY <2>2, <2>3
<1>2. ASSUME NEW n \in Nat, P(n) PROVE P(n + 1)
  <2> SUFFICES ASSUME NEW s \in SUBSET S, Cardinality(s) = n + 1
               PROVE  sum(s) \in Nat /\ \A x \in s : sum(s) = f[x] + sum(s \ {x})
    <3>1. \A s \in SUBSET S : Cardinality(s) <= n + 1 => Cardinality(s) <= n \/ Cardinality(s) = n + 1
      BY <1>0
    <3> HIDE DEF sum
    <3> QED
      BY <1>2, <3>1
  <2>1. IsFiniteSet(s) /\ s # {}
    BY FS_EmptySet, FS_Subset
  <2>2. PICK p : p = Pick(s)
    OBVIOUS
  <2>3. p \in s
    BY <2>1, <2>2, PickIsOf
  <2>4. \A x \in s : s \ {x} \in SUBSET S /\ Cardinality(s \ {x}) <= n
    <3>1. \A x \in s : Cardinality(s \ {x}) = Cardinality(s) - 1
      BY <2>1, FS_RemoveElement
    <3> QED
      BY <3>1
  <2>5. sum(s) = f[p] + sum(s \ {p})
    BY <2>1, <2>2, SumPicks
  <2> HIDE DEF sum
  <2>6. \A x \in s : sum(s \ {x}) \in Nat
    BY <1>2, <2>4
  <2>7. sum(s) \in Nat
    BY <2>3, <2>5, <2>6
  <2>8. ASSUME NEW x \in s PROVE sum(s) = f[x] + sum(s \ {x})
    <3>1. CASE x = p
      BY <2>5, <3>1
    <3>2. CASE x # p
      <4> DEFINE rest == (s \ {p}) \ {x}
      <4>1. x \in s \ {p} /\ p \in s \ {x} /\ rest = (s \ {x}) \ {p}
        BY <2>3, <3>2
      <4>2. sum(s \ {p}) = f[x] + sum(rest)
        BY <1>2, <2>3, <2>4, <4>1
      <4>3. sum(s \ {x}) = f[p] + sum(rest)
        BY <1>2, <2>4, <4>1
      <4>4. f[x] \in Nat /\ f[p] \in Nat
        BY <2>3
      <4>5. sum(rest) \in Nat
        <5>1. rest \in SUBSET S /\ s \ {p} \in SUBSET S /\ rest \subseteq s \ {p}
          OBVIOUS
        <5>2. Cardinality(rest) <= Cardinality(s \ {p})
          BY <1>0, <5>1, FS_Subset
        <5>3. Cardinality(rest) <= n
          BY <1>0, <2>3, <2>4, <5>1, <5>2
        <5> QED
          BY <1>2, <5>1, <5>3
      <4> HIDE DEF rest
      <4> QED
        BY <2>5, <4>2, <4>3, <4>4, <4>5
    <3> QED
      BY <3>1, <3>2
  <2> QED
    BY <2>7, <2>8
<1>3. \A n \in Nat : P(n)
  <2> DEFINE T == {n \in Nat : P(n)}
  <2> HIDE DEF P
  <2>1. 0 \in T /\ \A n \in Nat : n \in T => n + 1 \in T
    BY <1>1, <1>2
  <2> HIDE DEF T
  <2>2. Nat \subseteq T
    BY <2>1, Induction
  <2> QED
    BY <2>2 DEF T
<1>4. Cardinality(S) \in Nat
  BY FS_CardinalityType
<1> QED
  BY <1>3, <1>4

LEMMA SumOfZeros ==
    ASSUME NEW f, NEW S, IsFiniteSet(S), \A x \in S : f[x] = 0
    PROVE  SumFunctionOnSet(f, S) = 0
<1> DEFINE P(n) == \A s \in SUBSET S : Cardinality(s) = n => SumFunctionOnSet(f, s) = 0
<1>1. P(0)
  BY NoneIsEmpty, SumOfNothing
<1>2. ASSUME NEW n \in Nat, P(n) PROVE P(n + 1)
  <2> SUFFICES ASSUME NEW s \in SUBSET S, Cardinality(s) = n + 1
               PROVE  SumFunctionOnSet(f, s) = 0
    OBVIOUS
  <2>1. IsFiniteSet(s) /\ s # {}
    BY FS_EmptySet, FS_Subset
  <2>2. SumFunctionOnSet(f, s) = f[Pick(s)] + SumFunctionOnSet(f, s \ {Pick(s)})
    BY <2>1, SumPicks
  <2>3. Pick(s) \in S /\ s \ {Pick(s)} \in SUBSET S /\ Cardinality(s \ {Pick(s)}) = n
    BY <2>1, Smaller
  <2> QED
    BY <1>2, <2>2, <2>3
<1>3. \A n \in Nat : P(n)
  <2> DEFINE T == {n \in Nat : P(n)}
  <2> HIDE DEF P
  <2>1. 0 \in T /\ \A n \in Nat : n \in T => n + 1 \in T
    BY <1>1, <1>2
  <2> HIDE DEF T
  <2>2. Nat \subseteq T
    BY <2>1, Induction
  <2> QED
    BY <2>2 DEF T
<1>4. Cardinality(S) \in Nat
  BY FS_CardinalityType
<1> QED
  BY <1>3, <1>4

(* h says to which class of T an element of S belongs, class[t] holds those of t, g[t] is
   what they sum to; what belongs to none is 0. *)
SumsClasses(f, S, T, h, class, g) ==
    /\ IsFiniteSet(S) /\ IsFiniteSet(T)
    /\ \A x \in S : f[x] \in Nat /\ (h[x] \in T \/ f[x] = 0)
    /\ \A t \in T : class[t] \subseteq S /\ \A x \in S : x \in class[t] <=> h[x] = t
    /\ \A t \in T : g[t] = SumFunctionOnSet(f, class[t])

(* Summing class by class loses nothing. *)
LEMMA SumByClass ==
    ASSUME NEW f, NEW S, NEW T, NEW h, NEW class, NEW g, SumsClasses(f, S, T, h, class, g)
    PROVE  SumFunctionOnSet(g, T) = SumFunctionOnSet(f, S)
<1> DEFINE part(s, t) == {x \in s : h[x] = t}
           sum(s) == SumFunctionOnSet(f, s)
           byClass(s) == [t \in T |-> sum(part(s, t))]
           P(n) == \A s \in SUBSET S : Cardinality(s) = n =>
                      SumFunctionOnSet(byClass(s), T) = sum(s)
<1>f. IsFiniteSet(S) /\ IsFiniteSet(T)
  BY DEF SumsClasses
<1>n. \A x \in S : f[x] \in Nat /\ (h[x] \in T \/ f[x] = 0)
  BY DEF SumsClasses
<1>0. \A s \in SUBSET S : IsFiniteSet(s) /\ Cardinality(s) \in Nat
  BY <1>f, FS_Subset, FS_CardinalityType
<1>a. \A s \in SUBSET S : sum(s) \in Nat /\ \A x \in s : sum(s) = f[x] + sum(s \ {x})
  <2>1. SUFFICES ASSUME NEW s \in SUBSET S
                 PROVE  sum(s) \in Nat /\ \A x \in s : sum(s) = f[x] + sum(s \ {x})
    OBVIOUS
  <2>2. IsFiniteSet(s) /\ \A x \in s : f[x] \in Nat
    BY <1>0, <1>n
  <2> QED
    BY <2>2, SumAdds
<1>b. ASSUME NEW s \in SUBSET S
      PROVE  /\ \A t \in T : byClass(s)[t] \in Nat
             /\ \A t \in T : SumFunctionOnSet(byClass(s), T)
                              = byClass(s)[t] + SumFunctionOnSet(byClass(s), T \ {t})
  <2>1. \A t \in T : byClass(s)[t] \in Nat
    <3>1. \A t \in T : part(s, t) \in SUBSET S
      OBVIOUS
    <3> HIDE DEF sum, part
    <3> QED
      BY <1>a, <3>1
  <2> HIDE DEF byClass
  <2> QED
    BY <1>f, <2>1, SumAdds
<1>1. P(0)
  <2>1. \A t \in T : part({}, t) = {}
    OBVIOUS
  <2>2. sum({}) = 0
    BY SumOfNothing
  <2>3. \A t \in T : byClass({})[t] = 0
    BY <2>1, <2>2
  <2>4. SumFunctionOnSet(byClass({}), T) = 0
    <3> HIDE DEF byClass
    <3> QED
      BY <1>f, <2>3, SumOfZeros
  <2> QED
    BY <1>f, <2>2, <2>4, NoneIsEmpty
<1>2. ASSUME NEW n \in Nat, P(n) PROVE P(n + 1)
  <2> SUFFICES ASSUME NEW s \in SUBSET S, Cardinality(s) = n + 1
               PROVE  SumFunctionOnSet(byClass(s), T) = sum(s)
    OBVIOUS
  <2>0. s # {}
    BY FS_EmptySet
  <2>1. PICK x : x \in s
    BY <2>0
  <2> DEFINE r == s \ {x}
  <2>2. r \in SUBSET S /\ Cardinality(r) = n /\ x \in S
    <3>1. Cardinality(r) = Cardinality(s) - 1
      BY <1>0, <2>1, FS_RemoveElement
    <3> QED
      BY <3>1
  <2>3. SumFunctionOnSet(byClass(r), T) = sum(r)
    <3> HIDE DEF r, byClass, sum
    <3> QED
      BY <1>2, <2>2
  <2>4. sum(s) = f[x] + sum(r) /\ sum(r) \in Nat
    <3> HIDE DEF sum
    <3> QED
      BY <1>a, <2>1, <2>2
  <2>5. \A t \in T : t # h[x] => part(s, t) = part(r, t)
    BY <2>1
  <2>6. \A t \in T : t # h[x] => byClass(s)[t] = byClass(r)[t]
    BY <2>5
  <2>7. CASE h[x] \notin T
    <3>1. \A t \in T : byClass(s)[t] = byClass(r)[t]
      BY <2>6, <2>7
    <3>2. f[x] = 0
      BY <1>n, <2>2, <2>7
    <3>3. SumFunctionOnSet(byClass(s), T) = SumFunctionOnSet(byClass(r), T)
      <4> HIDE DEF byClass
      <4> QED
        BY <1>f, <3>1, SumSame
    <3> HIDE DEF sum, byClass, r
    <3> QED
      BY <2>3, <2>4, <3>2, <3>3
  <2>8. CASE h[x] \in T
    <3> DEFINE t == h[x]
    <3>1. SumFunctionOnSet(byClass(s), T \ {t}) = SumFunctionOnSet(byClass(r), T \ {t})
      <4>1. IsFiniteSet(T \ {t}) /\ \A u \in T \ {t} : byClass(s)[u] = byClass(r)[u]
        BY <1>f, <2>6, FS_RemoveElement
      <4> HIDE DEF byClass, t
      <4> QED
        BY <4>1, SumSame
    <3>2. byClass(s)[t] = f[x] + byClass(r)[t]
      <4>1. x \in part(s, t) /\ part(s, t) \in SUBSET S /\ part(s, t) \ {x} = part(r, t)
        BY <2>1, <2>8
      <4>2. byClass(s)[t] = sum(part(s, t)) /\ byClass(r)[t] = sum(part(r, t))
        BY <2>8
      <4>3. sum(part(s, t)) = f[x] + sum(part(s, t) \ {x})
        <5> HIDE DEF sum, part
        <5> QED
          BY <1>a, <4>1
      <4> HIDE DEF sum, part, byClass, r
      <4> QED
        BY <4>1, <4>2, <4>3
    <3>3. /\ SumFunctionOnSet(byClass(s), T)
             = byClass(s)[t] + SumFunctionOnSet(byClass(s), T \ {t})
          /\ SumFunctionOnSet(byClass(r), T)
             = byClass(r)[t] + SumFunctionOnSet(byClass(r), T \ {t})
          /\ byClass(r)[t] \in Nat /\ byClass(s)[t] \in Nat
      <4> HIDE DEF byClass, r
      <4> QED
        BY <1>b, <2>2, <2>8
    <3>4. f[x] \in Nat
      BY <1>n, <2>2
    <3>5. SumFunctionOnSet(byClass(r), T \ {t}) \in Nat
      <4>1. IsFiniteSet(T \ {t}) /\ \A u \in T \ {t} : byClass(r)[u] \in Nat
        <5>1. IsFiniteSet(T \ {t})
          BY <1>f, FS_RemoveElement
        <5> HIDE DEF byClass, r
        <5> QED
          BY <1>b, <2>2, <5>1
      <4> HIDE DEF byClass, t, r
      <4> QED
        BY <4>1, SumAdds
    <3> HIDE DEF sum, byClass, r, t
    <3> QED
      BY <2>3, <2>4, <3>1, <3>2, <3>3, <3>4, <3>5
  <2> QED
    BY <2>7, <2>8
<1>3. \A n \in Nat : P(n)
  <2> DEFINE M == {n \in Nat : P(n)}
  <2> HIDE DEF P
  <2>1. 0 \in M /\ \A n \in Nat : n \in M => n + 1 \in M
    BY <1>1, <1>2
  <2> HIDE DEF M
  <2>2. Nat \subseteq M
    BY <2>1, Induction
  <2> QED
    BY <2>2 DEF M
<1>4. SumFunctionOnSet(byClass(S), T) = sum(S)
  <2>1. S \in SUBSET S /\ Cardinality(S) \in Nat
    BY <1>f, FS_CardinalityType
  <2> HIDE DEF byClass, sum
  <2> QED
    BY <1>3, <2>1
<1>5. \A t \in T : g[t] = byClass(S)[t]
  <2>1. \A t \in T : class[t] = part(S, t) /\ g[t] = SumFunctionOnSet(f, class[t])
    BY DEF SumsClasses
  <2>2. \A t \in T : byClass(S)[t] = sum(part(S, t))
    OBVIOUS
  <2> HIDE DEF part, byClass
  <2> QED
    BY <2>1, <2>2
<1>6. SumFunctionOnSet(g, T) = SumFunctionOnSet(byClass(S), T)
  <2> HIDE DEF byClass
  <2> QED
    BY <1>f, <1>5, SumSame
<1> QED
  BY <1>4, <1>6

-----------------------------------------------------------------------------
(* A finite set that a relation orders can be written down in that order. *)

(* R tells any two elements of S apart, and does so consistently. *)
Orders(R, S) ==
    /\ \A a, b \in S : a # b => <<a, b>> \in R \/ <<b, a>> \in R
    /\ \A a, b, c \in S : <<a, b>> \in R /\ <<b, c>> \in R => <<a, c>> \in R

LEMMA LastExists ==
    ASSUME NEW S, IsFiniteSet(S), NEW R, Orders(R, S), S # {}
    PROVE  \E m \in S : \A a \in S : a # m => <<a, m>> \in R
<1> DEFINE P(n) == \A s \in SUBSET S : Cardinality(s) = n + 1 =>
                      \E m \in s : \A a \in s : a # m => <<a, m>> \in R
<1>0. \A s \in SUBSET S : IsFiniteSet(s) /\ Cardinality(s) \in Nat
  BY FS_Subset, FS_CardinalityType
<1>1. P(0)
  <2>1. \A s : IsFiniteSet(s) => (Cardinality(s) = 1 <=> \E m : s = {m})
    BY FS_Singleton
  <2>2. 0 + 1 = 1
    OBVIOUS
  <2> QED
    BY <1>0, <2>1, <2>2
<1>2. ASSUME NEW n \in Nat, P(n) PROVE P(n + 1)
  <2> SUFFICES ASSUME NEW s \in SUBSET S, Cardinality(s) = n + 1 + 1
               PROVE  \E m \in s : \A a \in s : a # m => <<a, m>> \in R
    OBVIOUS
  <2>1. PICK x : x \in s
    BY FS_EmptySet
  <2>2. s \ {x} \in SUBSET S /\ Cardinality(s \ {x}) = n + 1
    <3>1. Cardinality(s \ {x}) = Cardinality(s) - 1
      BY <1>0, <2>1, FS_RemoveElement
    <3> QED
      BY <3>1
  <2>3. PICK m \in s \ {x} : \A a \in s \ {x} : a # m => <<a, m>> \in R
    BY <1>2, <2>2
  <2>4. CASE <<m, x>> \in R
    <3>1. \A a \in s : a # x => <<a, x>> \in R
      BY <2>1, <2>3, <2>4 DEF Orders
    <3> QED
      BY <2>1, <3>1
  <2>5. CASE <<m, x>> \notin R
    <3>1. <<x, m>> \in R
      BY <2>1, <2>3, <2>5 DEF Orders
    <3> QED
      BY <2>3, <3>1
  <2> QED
    BY <2>4, <2>5
<1>3. \A n \in Nat : P(n)
  <2> DEFINE T == {n \in Nat : P(n)}
  <2> HIDE DEF P
  <2>1. 0 \in T /\ \A n \in Nat : n \in T => n + 1 \in T
    BY <1>1, <1>2
  <2> HIDE DEF T
  <2>2. Nat \subseteq T
    BY <2>1, Induction
  <2> QED
    BY <2>2 DEF T
<1>4. PICK n \in Nat : Cardinality(S) = n + 1
  <2>1. Cardinality(S) \in Nat /\ Cardinality(S) # 0
    BY FS_CardinalityType, FS_EmptySet
  <2>2. Cardinality(S) - 1 \in Nat /\ Cardinality(S) = Cardinality(S) - 1 + 1
    BY <2>1
  <2> QED
    BY <2>2
<1> QED
  BY <1>3, <1>4

LEMMA OrderExists ==
    ASSUME NEW S, IsFiniteSet(S), NEW R, Orders(R, S)
    PROVE  \E list \in [1 .. Cardinality(S) -> S] :
              /\ Range(list) = S
              /\ \A i, j \in 1 .. Cardinality(S) : i < j => <<list[i], list[j]>> \in R
<1> DEFINE Lists(s, n) == {list \in [1 .. n -> s] :
                 /\ Range(list) = s
                 /\ \A i, j \in 1 .. n : i < j => <<list[i], list[j]>> \in R}
           P(n) == \A s \in SUBSET S : Cardinality(s) = n => Lists(s, n) # {}
<1>0. \A s \in SUBSET S : IsFiniteSet(s) /\ Cardinality(s) \in Nat
  BY FS_Subset, FS_CardinalityType
<1>1. P(0)
  <2> SUFFICES ASSUME NEW s \in SUBSET S, Cardinality(s) = 0 PROVE Lists(s, 0) # {}
    OBVIOUS
  <2>1. s = {}
    BY NoneIsEmpty
  <2> DEFINE none == [i \in 1 .. 0 |-> i]
  <2>2. none \in [1 .. 0 -> s] /\ Range(none) = s
    BY <2>1 DEF Range
  <2>3. \A i, j \in 1 .. 0 : i < j => <<none[i], none[j]>> \in R
    OBVIOUS
  <2> HIDE DEF none
  <2> QED
    BY <2>2, <2>3
<1>2. ASSUME NEW n \in Nat, P(n) PROVE P(n + 1)
  <2> SUFFICES ASSUME NEW s \in SUBSET S, Cardinality(s) = n + 1 PROVE Lists(s, n + 1) # {}
    OBVIOUS
  <2>1. IsFiniteSet(s) /\ s # {} /\ Orders(R, s)
    BY <1>0, FS_EmptySet DEF Orders
  <2>2. PICK m \in s : \A a \in s : a # m => <<a, m>> \in R
    BY <2>1, LastExists
  <2>3. s \ {m} \in SUBSET S /\ Cardinality(s \ {m}) = n
    <3>1. Cardinality(s \ {m}) = Cardinality(s) - 1
      BY <2>1, <2>2, FS_RemoveElement
    <3> QED
      BY <3>1
  <2>4. PICK q \in Lists(s \ {m}, n) : TRUE
    <3> HIDE DEF Lists
    <3> QED
      BY <1>2, <2>3
  <2> DEFINE list == [i \in 1 .. n + 1 |-> IF i <= n THEN q[i] ELSE m]
  <2>5. q \in [1 .. n -> s \ {m}] /\ {q[i] : i \in 1 .. n} = s \ {m}
    BY <2>4 DEF Range
  <2>6. \A i \in 1 .. n + 1 : i \in 1 .. n \/ i = n + 1
    OBVIOUS
  <2>7. /\ \A i \in 1 .. n : list[i] = q[i] /\ i \in 1 .. n + 1
        /\ list[n + 1] = m /\ n + 1 \in 1 .. n + 1 /\ DOMAIN list = 1 .. n + 1
    OBVIOUS
  <2>8. list \in [1 .. n + 1 -> s]
    BY <2>2, <2>5, <2>6
  <2> HIDE DEF list
  <2>9. {list[i] : i \in 1 .. n + 1} = s
    <3>1. \A i \in 1 .. n + 1 : list[i] \in s
      BY <2>8
    <3>2. ASSUME NEW a \in s PROVE \E i \in 1 .. n + 1 : list[i] = a
      <4>1. CASE a = m
        BY <2>7, <4>1
      <4>2. CASE a # m
        <5>1. PICK i \in 1 .. n : q[i] = a
          BY <2>5, <4>2
        <5> QED
          BY <2>7, <5>1
      <4> QED
        BY <4>1, <4>2
    <3> QED
      BY <3>1, <3>2
  <2>10. ASSUME NEW i \in 1 .. n + 1, NEW j \in 1 .. n + 1, i < j
         PROVE  <<list[i], list[j]>> \in R
    <3>1. i \in 1 .. n
      BY <2>10
    <3>2. CASE j \in 1 .. n
      BY <2>4, <2>7, <2>10, <3>1, <3>2
    <3>3. CASE j = n + 1
      <4>1. q[i] \in s \ {m}
        BY <2>5, <3>1
      <4> QED
        BY <2>2, <2>7, <3>1, <3>3, <4>1
    <3> QED
      BY <2>6, <3>2, <3>3
  <2>11. Range(list) = s
    BY <2>7, <2>9 DEF Range
  <2> QED
    BY <2>8, <2>10, <2>11
<1>3. \A n \in Nat : P(n)
  <2> DEFINE T == {n \in Nat : P(n)}
  <2> HIDE DEF P
  <2>1. 0 \in T /\ \A n \in Nat : n \in T => n + 1 \in T
    BY <1>1, <1>2
  <2> HIDE DEF T
  <2>2. Nat \subseteq T
    BY <2>1, Induction
  <2> QED
    BY <2>2 DEF T
<1>4. Lists(S, Cardinality(S)) # {}
  <2>1. S \in SUBSET S /\ Cardinality(S) \in Nat
    BY FS_CardinalityType
  <2> HIDE DEF Lists
  <2> QED
    BY <1>3, <2>1
<1> QED
  BY <1>4
=============================================================================
