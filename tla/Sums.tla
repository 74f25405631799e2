-------------------------------- MODULE Sums --------------------------------
(***************************************************************************)
(* Induction over numbers and over finite sets, and what sums over finite  *)
(* sets (SumFunctionOnSet of the community modules) have in common.  The   *)
(* library's induction theorems take a predicate; these take the set of    *)
(* what satisfies it, so that they follow from its theorem WFMin and can   *)
(* be cited by any step.                                                   *)
(***************************************************************************)
EXTENDS FiniteSetsExt, FiniteSetTheorems, WellFoundedInduction, TLAPS

\* A set of numbers that holds 0 and the successors of what it holds, holds all.
LEMMA NatSetInduction ==
  ASSUME NEW S, 0 \in S, \A n \in Nat : n \in S => n + 1 \in S
  PROVE  Nat \subseteq S
<1> DEFINE T == Nat \ S
<1> SUFFICES ASSUME T # {} PROVE FALSE
  OBVIOUS
<1>1. PICK x \in T : \A y \in T : ~ (<<y, x>> \in OpToRel(<, Nat))
  BY WFMin, NatLessThanWellFounded, T \subseteq Nat, Zenon
<1>2. x \in Nat /\ x # 0
  OBVIOUS
<1>3. x - 1 \in Nat /\ (x - 1) + 1 = x
  BY <1>2
<1>4. <<x - 1, x>> \in OpToRel(<, Nat)
  BY <1>2, <1>3 DEF OpToRel
<1> QED
  BY <1>1, <1>3, <1>4

\* The iterates of a function on numbers exist: a definition by recursion over
\* Nat is a function of that equation.
LEMMA IterateExists ==
  ASSUME NEW f \in [Nat -> Nat], NEW a \in Nat
  PROVE  \E g \in [Nat -> Nat] :
            \A n \in Nat : g[n] = IF n = 0 THEN a ELSE f[g[n - 1]]
<1> DEFINE Upto(g, k) == /\ g[0] = a
                         /\ \A n \in Nat : n < k => g[n + 1] = f[g[n]]
           S == {k \in Nat : \E g \in [Nat -> Nat] : Upto(g, k)}
<1>1. 0 \in S
  <2> DEFINE g == [n \in Nat |-> a]
  <2>1. g \in [Nat -> Nat] /\ Upto(g, 0)
    OBVIOUS
  <2> QED
    BY <2>1
<1>2. ASSUME NEW k \in Nat, k \in S PROVE k + 1 \in S
  <2>1. PICK g \in [Nat -> Nat] : Upto(g, k)
    BY <1>2
  <2> DEFINE h == [g EXCEPT ![k + 1] = f[g[k]]]
  <2>2. h \in [Nat -> Nat]
    OBVIOUS
  <2>3. Upto(h, k + 1)
    BY <2>1
  <2> HIDE DEF h
  <2> QED
    BY <2>2, <2>3
<1>3. \A k \in Nat : \E g \in [Nat -> Nat] : Upto(g, k)
  BY <1>1, <1>2, NatSetInduction
<1> DEFINE G(k) == CHOOSE g \in [Nat -> Nat] : Upto(g, k)
           h == [n \in Nat |-> G(n)[n]]
<1>4. \A k \in Nat : G(k) \in [Nat -> Nat] /\ Upto(G(k), k)
  BY <1>3
<1>5. ASSUME NEW g1 \in [Nat -> Nat], NEW g2 \in [Nat -> Nat], NEW k \in Nat,
             Upto(g1, k), Upto(g2, k + 1)
      PROVE  g1[k] = g2[k]
  <2> DEFINE U == {n \in Nat : n <= k => g1[n] = g2[n]}
  <2>1. 0 \in U
    BY <1>5
  <2>2. ASSUME NEW n \in Nat, n \in U PROVE n + 1 \in U
    BY <1>5, <2>2
  <2>3. Nat \subseteq U
    BY <2>1, <2>2, NatSetInduction
  <2> QED
    BY <2>3
<1> HIDE DEF G
<1>6. h \in [Nat -> Nat]
  BY <1>4
<1>7. h[0] = a
  BY <1>4
<1>8. ASSUME NEW n \in Nat PROVE h[n + 1] = f[h[n]]
  <2>1. /\ G(n) \in [Nat -> Nat] /\ Upto(G(n), n)
        /\ G(n + 1) \in [Nat -> Nat] /\ Upto(G(n + 1), n + 1)
    <3> HIDE DEF Upto
    <3> QED
      BY <1>4, n + 1 \in Nat
  <2>2. G(n)[n] = G(n + 1)[n]
    <3> HIDE DEF Upto
    <3> QED
      BY <2>1, <1>5
  <2>3. G(n + 1)[n + 1] = f[G(n + 1)[n]]
    BY <2>1
  <2> QED
    BY <2>2, <2>3
<1> HIDE DEF h
<1>9. ASSUME NEW n \in Nat PROVE h[n] = IF n = 0 THEN a ELSE f[h[n - 1]]
  <2>1. CASE n = 0
    BY <2>1, <1>7
  <2>2. CASE n # 0
    <3>1. n - 1 \in Nat /\ (n - 1) + 1 = n
      BY <2>2
    <3>2. h[(n - 1) + 1] = f[h[n - 1]]
      BY <3>1, <1>8
    <3> QED
      BY <3>1, <3>2, <2>2
  <2> QED
    BY <2>1, <2>2
<1> QED
  BY <1>6, <1>9

-----------------------------------------------------------------------------
(* Induction over the subsets of a finite set, and sums *)

\* A set that holds a subset of S whenever it holds those with one element less,
\* holds all subsets of S.
LEMMA SubsetInduction ==
  ASSUME NEW S, IsFiniteSet(S), NEW P,
         \A T \in SUBSET S : (\A x \in T : T \ {x} \in P) => T \in P
  PROVE  SUBSET S \subseteq P
<1> DEFINE bad == (SUBSET S) \ P
<1> SUFFICES ASSUME bad # {} PROVE FALSE
  OBVIOUS
<1>1. bad \subseteq FiniteSubsetsOf(S)
  BY FS_Subset DEF FiniteSubsetsOf
<1>2. PICK T \in bad : \A U \in bad : ~ (<<U, T>> \in StrictSubsetOrdering(S))
  BY <1>1, WFMin, FS_StrictSubsetOrderingWellFounded, Zenon
<1>3. ASSUME NEW x \in T PROVE T \ {x} \in P
  <2>1. T \ {x} \in SUBSET S /\ T \ {x} \subseteq T /\ T \ {x} # T
    OBVIOUS
  <2>2. T \ {x} \in FiniteSubsetsOf(S) /\ T \in FiniteSubsetsOf(S)
    BY <1>1, <2>1, FS_Subset DEF FiniteSubsetsOf
  <2>3. <<T \ {x}, T>> \in StrictSubsetOrdering(S)
    BY <2>1, <2>2 DEF StrictSubsetOrdering
  <2> QED
    BY <2>1, <2>3, <1>2
<1> QED
  BY <1>3

\* The community modules' sum takes one element of the set and goes on with the
\* others.  Iter is the function by which it does so.
Pick(s) == CHOOSE x \in s : TRUE

Body(f, g, s) == IF s = {} THEN 0 ELSE f[Pick(s)] + g[s \ {Pick(s)}]

Iter(f, S) == CHOOSE g : g = [s \in SUBSET S |-> Body(f, g, s)]

\* It satisfies the equation that defines it, ...
LEMMA IterExists ==
  ASSUME NEW S, IsFiniteSet(S), NEW f, \A x \in S : f[x] \in Int
  PROVE  \A s \in SUBSET S : Iter(f, S)[s] = Body(f, Iter(f, S), s)
<1> DEFINE Upto(g, k) == \A s \in SUBSET S : Cardinality(s) <= k => g[s] = Body(f, g, s)
           K == {k \in Nat : \E g \in [SUBSET S -> Int] : Upto(g, k)}
<1>0. ASSUME NEW s \in SUBSET S
      PROVE  /\ Cardinality(s) \in Nat
             /\ Cardinality(s) = 0 <=> s = {}
             /\ s # {} => /\ Pick(s) \in s
                          /\ s \ {Pick(s)} \in SUBSET S
                          /\ Cardinality(s \ {Pick(s)}) = Cardinality(s) - 1
  <2>1. IsFiniteSet(s)
    BY FS_Subset
  <2>2. s # {} => Pick(s) \in s
    BY DEF Pick
  <2> QED
    BY <2>1, <2>2, FS_CardinalityType, FS_EmptySet, FS_RemoveElement
<1>1. 0 \in K
  <2> DEFINE g == [s \in SUBSET S |-> 0]
  <2>1. ASSUME NEW s \in SUBSET S, Cardinality(s) <= 0 PROVE g[s] = Body(f, g, s)
    <3>1. Cardinality(s) \in Nat /\ (Cardinality(s) = 0 => s = {})
      BY <1>0
    <3>2. s = {}
      BY <2>1, <3>1
    <3> QED
      BY <3>2 DEF Body
  <2>2. g \in [SUBSET S -> Int] /\ Upto(g, 0)
    BY <2>1
  <2> HIDE DEF g
  <2> QED
    BY <2>2
<1>2. ASSUME NEW k \in Nat, k \in K PROVE k + 1 \in K
  <2>1. PICK g \in [SUBSET S -> Int] : Upto(g, k)
    BY <1>2
  <2> DEFINE h == [s \in SUBSET S |-> IF Cardinality(s) <= k THEN g[s] ELSE Body(f, g, s)]
  <2>2. h \in [SUBSET S -> Int]
    <3>1. ASSUME NEW s \in SUBSET S PROVE Body(f, g, s) \in Int
      <4>1. CASE s = {}
        BY <4>1 DEF Body
      <4>2. CASE s # {}
        <5>1. f[Pick(s)] \in Int /\ g[s \ {Pick(s)}] \in Int
          BY <1>0, <4>2
        <5> QED
          BY <4>2, <5>1 DEF Body
      <4> QED
        BY <4>1, <4>2
    <3> QED
      BY <3>1
  <2>3. ASSUME NEW s \in SUBSET S, Cardinality(s) <= k + 1
        PROVE  h[s] = Body(f, h, s)
    <3>1. h[s] = Body(f, g, s)
      BY <2>1
    <3>2. CASE s = {}
      BY <3>1, <3>2 DEF Body
    <3>3. CASE s # {}
      <4>1. h[s \ {Pick(s)}] = g[s \ {Pick(s)}]
        BY <1>0, <2>3, <3>3
      <4> QED
        BY <3>1, <3>3, <4>1 DEF Body
    <3> QED
      BY <3>2, <3>3
  <2> HIDE DEF h
  <2>4. Upto(h, k + 1)
    BY <2>3
  <2> QED
    BY <2>2, <2>4
<1>3. PICK g \in [SUBSET S -> Int] : Upto(g, Cardinality(S))
  <2>1. Nat \subseteq K
    BY <1>1, <1>2, NatSetInduction
  <2> QED
    BY <2>1, FS_CardinalityType
<1>4. ASSUME NEW s \in SUBSET S PROVE g[s] = Body(f, g, s)
  <2>1. Cardinality(s) <= Cardinality(S)
    BY FS_Subset
  <2> QED
    BY <1>3, <2>1
<1>5. g = [s \in SUBSET S |-> Body(f, g, s)]
  BY <1>3, <1>4
<1>6. Iter(f, S) = [s \in SUBSET S |-> Body(f, Iter(f, S), s)]
  BY <1>5, Zenon DEF Iter
<1>7. \A s \in SUBSET S : Iter(f, S)[s] = Body(f, Iter(f, S), s)
  BY <1>6, Zenon
<1> QED
  BY <1>7

\* ... sums to an integer, ...
LEMMA IterType ==
  ASSUME NEW S, IsFiniteSet(S), NEW f, \A x \in S : f[x] \in Int
  PROVE  \A s \in SUBSET S : Iter(f, S)[s] \in Int
<1> DEFINE P == {s \in SUBSET S : Iter(f, S)[s] \in Int}
<1>1. ASSUME NEW s \in SUBSET S, \A x \in s : s \ {x} \in P
      PROVE  Iter(f, S)[s] \in Int
  <2>1. Iter(f, S)[s] = Body(f, Iter(f, S), s)
    BY IterExists
  <2>2. CASE s = {}
    BY <2>1, <2>2 DEF Body
  <2>3. CASE s # {}
    <3>1. Pick(s) \in s
      BY <2>3 DEF Pick
    <3>2. f[Pick(s)] \in Int /\ Iter(f, S)[s \ {Pick(s)}] \in Int
      BY <1>1, <3>1
    <3> QED
      BY <2>1, <2>3, <3>2 DEF Body
  <2> QED
    BY <2>2, <2>3
<1>2. SUBSET S \subseteq P
  <2>1. \A T \in SUBSET S : (\A x \in T : T \ {x} \in P) => T \in P
    BY <1>1
  <2> HIDE DEF P
  <2> QED
    BY <2>1, SubsetInduction
<1> QED
  BY <1>2

\* ... is what SumFunctionOnSet applies to the set, ...
LEMMA SumIter == \A f, S : SumFunctionOnSet(f, S) = Iter(f, S)[S]
  BY DEF SumFunctionOnSet, FoldFunctionOnSet, MapThenFoldSet, Iter, Body, Pick

\* ... and sums a part of S as it does within any larger part.
LEMMA IterSame ==
  ASSUME NEW S, IsFiniteSet(S), NEW f, \A x \in S : f[x] \in Int, NEW R \in SUBSET S
  PROVE  \A s \in SUBSET R : Iter(f, R)[s] = Iter(f, S)[s]
<1> DEFINE T == {s \in SUBSET R : Iter(f, R)[s] = Iter(f, S)[s]}
<1>1. IsFiniteSet(R)
  BY FS_Subset
<1>2. ASSUME NEW s \in SUBSET R, \A x \in s : s \ {x} \in T PROVE s \in T
  <2>1. /\ Iter(f, R)[s] = Body(f, Iter(f, R), s)
        /\ Iter(f, S)[s] = Body(f, Iter(f, S), s)
    <3>1. s \in SUBSET S /\ \A x \in R : f[x] \in Int
      OBVIOUS
    <3> QED
      BY <1>1, <3>1, IterExists
  <2>2. CASE s = {}
    BY <2>1, <2>2 DEF Body
  <2>3. CASE s # {}
    <3>1. Pick(s) \in s
      BY <2>3 DEF Pick
    <3>2. Iter(f, R)[s \ {Pick(s)}] = Iter(f, S)[s \ {Pick(s)}]
      BY <1>2, <3>1
    <3> QED
      BY <2>1, <2>3, <3>2 DEF Body
  <2> QED
    BY <2>2, <2>3
<1> HIDE DEF T
<1>3. SUBSET R \subseteq T
  BY <1>1, <1>2, SubsetInduction
<1> QED
  BY <1>3 DEF T

\* So a sum is 0 or that of the element taken and the rest ...
LEMMA SumPick ==
  ASSUME NEW S, IsFiniteSet(S), NEW f, \A x \in S : f[x] \in Int
  PROVE  /\ SumFunctionOnSet(f, S) \in Int
         /\ S = {} => SumFunctionOnSet(f, S) = 0
         /\ S # {} => /\ Pick(S) \in S
                      /\ SumFunctionOnSet(f, S) = f[Pick(S)] + SumFunctionOnSet(f, S \ {Pick(S)})
<1>1. SumFunctionOnSet(f, S) = Iter(f, S)[S] /\ Iter(f, S)[S] \in Int
      /\ Iter(f, S)[S] = Body(f, Iter(f, S), S)
  <2>1. S \in SUBSET S
    OBVIOUS
  <2> QED
    BY <2>1, SumIter, IterExists, IterType
<1>2. CASE S = {}
  BY <1>1, <1>2 DEF Body
<1>3. CASE S # {}
  <2> DEFINE R == S \ {Pick(S)}
  <2>1. Pick(S) \in S
    BY <1>3 DEF Pick
  <2>2. SumFunctionOnSet(f, R) = Iter(f, R)[R] /\ Iter(f, R)[R] = Iter(f, S)[R]
    <3>1. R \in SUBSET S /\ R \in SUBSET R
      OBVIOUS
    <3> QED
      BY <3>1, SumIter, IterSame
  <2> QED
    BY <1>1, <1>3, <2>1, <2>2 DEF Body
<1> QED
  BY <1>1, <1>2, <1>3

\* ... and, in whatever order elements are taken, any element and the rest.
LEMMA SumRemove ==
  ASSUME NEW S, IsFiniteSet(S), NEW f, \A x \in S : f[x] \in Int, NEW a \in S
  PROVE  SumFunctionOnSet(f, S) = f[a] + SumFunctionOnSet(f, S \ {a})
<1> DEFINE P == {T \in SUBSET S : \A x \in T : SumFunctionOnSet(f, T) = f[x] + SumFunctionOnSet(f, T \ {x})}
<1>1. ASSUME NEW T \in SUBSET S, \A x \in T : T \ {x} \in P, NEW x \in T
      PROVE  SumFunctionOnSet(f, T) = f[x] + SumFunctionOnSet(f, T \ {x})
  <2> DEFINE p == Pick(T)
  <2>1. \A U \in SUBSET T : IsFiniteSet(U) /\ \A y \in U : f[y] \in Int
    BY FS_Subset
  <2>2. p \in T /\ SumFunctionOnSet(f, T) = f[p] + SumFunctionOnSet(f, T \ {p})
    BY <2>1, T \in SUBSET T, T # {}, SumPick
  <2>3. CASE x = p
    BY <2>2, <2>3
  <2>4. CASE x # p
    <3> DEFINE rest == (T \ {p}) \ {x}
    <3>1. rest = (T \ {x}) \ {p} /\ rest \in SUBSET T
      OBVIOUS
    <3>2. /\ SumFunctionOnSet(f, T \ {p}) = f[x] + SumFunctionOnSet(f, rest)
          /\ SumFunctionOnSet(f, T \ {x}) = f[p] + SumFunctionOnSet(f, rest)
      BY <1>1, <2>2, <2>4, <3>1
    <3>3. SumFunctionOnSet(f, rest) \in Int
      BY <2>1, <3>1, SumPick
    <3>4. f[x] \in Int /\ f[p] \in Int
      BY <2>2
    <3> HIDE DEF p, rest
    <3> QED
      BY <2>2, <3>1, <3>2, <3>3, <3>4
  <2> QED
    BY <2>3, <2>4
<1>2. SUBSET S \subseteq P
  <2>1. \A T \in SUBSET S : (\A x \in T : T \ {x} \in P) => T \in P
    BY <1>1
  <2> HIDE DEF P
  <2> QED
    BY <2>1, SubsetInduction
<1> QED
  BY <1>2

\* Numbers that are matched one to one with others at least as large sum up to no
\* more than those.
LEMMA SumInjection ==
  ASSUME NEW A, IsFiniteSet(A), NEW B, IsFiniteSet(B), NEW f, NEW g, NEW h,
         \A b \in B : g[b] \in Nat,
         \A a \in A : f[a] \in Nat /\ h[a] \in B /\ f[a] <= g[h[a]],
         \A a, aa \in A : h[a] = h[aa] => a = aa
  PROVE  SumFunctionOnSet(f, A) <= SumFunctionOnSet(g, B)
<1> DEFINE Q == {T \in SUBSET B : SumFunctionOnSet(g, T) \in Nat}
<1>1. ASSUME NEW T \in SUBSET B, \A x \in T : T \ {x} \in Q PROVE T \in Q
  <2>1. IsFiniteSet(T) /\ \A y \in T : g[y] \in Int
    BY FS_Subset
  <2>2. CASE T = {}
    <3>1. SumFunctionOnSet(g, T) = 0
      BY <2>1, <2>2, SumPick
    <3> QED
      BY <3>1
  <2>3. CASE T # {}
    <3>1. Pick(T) \in T /\ SumFunctionOnSet(g, T) = g[Pick(T)] + SumFunctionOnSet(g, T \ {Pick(T)})
      BY <2>1, <2>3, SumPick
    <3>2. g[Pick(T)] \in Nat /\ SumFunctionOnSet(g, T \ {Pick(T)}) \in Nat
      BY <1>1, <3>1
    <3> QED
      BY <3>1, <3>2
  <2> QED
    BY <2>2, <2>3
<1>2. SUBSET B \subseteq Q
  <2> HIDE DEF Q
  <2> QED
    BY <1>1, SubsetInduction
<1> DEFINE P == {T \in SUBSET A : \A U \in SUBSET B : (\A a \in T : h[a] \in U)
                                     => SumFunctionOnSet(f, T) <= SumFunctionOnSet(g, U)}
<1>3. ASSUME NEW T \in SUBSET A, \A x \in T : T \ {x} \in P,
             NEW U \in SUBSET B, \A a \in T : h[a] \in U
      PROVE  SumFunctionOnSet(f, T) <= SumFunctionOnSet(g, U)
  <2>1. /\ IsFiniteSet(T) /\ \A y \in T : f[y] \in Int
        /\ IsFiniteSet(U) /\ \A y \in U : g[y] \in Int
    BY FS_Subset
  <2>2. CASE T = {}
    <3>1. SumFunctionOnSet(f, T) = 0
      BY <2>1, <2>2, SumPick
    <3> QED
      BY <1>2, <3>1
  <2>3. CASE T # {}
    <3> DEFINE p == Pick(T)
    <3>1. p \in T /\ SumFunctionOnSet(f, T) = f[p] + SumFunctionOnSet(f, T \ {p})
      BY <2>1, <2>3, SumPick
    <3>2. SumFunctionOnSet(g, U) = g[h[p]] + SumFunctionOnSet(g, U \ {h[p]})
      BY <1>3, <2>1, <3>1, SumRemove
    <3>3. SumFunctionOnSet(f, T \ {p}) <= SumFunctionOnSet(g, U \ {h[p]})
      <4>1. T \ {p} \in P
        BY <1>3, <3>1
      <4>2. U \ {h[p]} \in SUBSET B /\ \A a \in T \ {p} : h[a] \in U \ {h[p]}
        BY <1>3, <3>1
      <4> QED
        BY <4>1, <4>2
    <3>4. /\ f[p] \in Nat /\ g[h[p]] \in Nat /\ f[p] <= g[h[p]]
          /\ SumFunctionOnSet(f, T \ {p}) \in Int /\ SumFunctionOnSet(g, U \ {h[p]}) \in Int
      <4>1. IsFiniteSet(T \ {p}) /\ IsFiniteSet(U \ {h[p]})
        BY <2>1, FS_RemoveElement
      <4>2. SumFunctionOnSet(f, T \ {p}) \in Int /\ SumFunctionOnSet(g, U \ {h[p]}) \in Int
        BY <2>1, <4>1, SumPick
      <4> QED
        BY <3>1, <4>2
    <3> HIDE DEF p
    <3> QED
      BY <3>1, <3>2, <3>3, <3>4
  <2> QED
    BY <2>2, <2>3
<1>4. SUBSET A \subseteq P
  <2>1. \A T \in SUBSET A : (\A x \in T : T \ {x} \in P) => T \in P
    BY <1>3
  <2> HIDE DEF P
  <2> QED
    BY <2>1, SubsetInduction
<1> QED
  BY <1>4
=============================================================================
