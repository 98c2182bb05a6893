----------------------------- MODULE SumTheorems -----------------------------
(***************************************************************************)
(* Sums of natural numbers over a finite set, as the folds of the library  *)
(* compute them.                                                           *)
(*                                                                         *)
(* The library's induction theorems take an operator; a proof by induction *)
(* is made here from the set of the numbers for which the claim holds,     *)
(* which NatSetInduction shows to be all of Nat.                           *)
(***************************************************************************)
EXTENDS Integers, FiniteSetsExt, FiniteSetTheorems, WellFoundedInduction, TLAPS

\* The sum of f[x] over the elements of S.
SumOf(f, S) == MapThenSumSet(LAMBDA x : f[x], S)

\* The element that MapThenSumSet takes out of s next.
Taken(s) == CHOOSE x \in s : TRUE

\* The table of sums over the sets of D that MapThenSumSet recurs on.
IsTable(h, f, D) ==
    h = [s \in D |-> IF s = {} THEN 0 ELSE f[Taken(s)] + h[s \ {Taken(s)}]]

IsTableOf(h, f, S) == IsTable(h, f, SUBSET S)

\* The table has the sums over all subsets of S.
IsSumTable(h, f, S) ==
    IsTableOf(h, f, S) /\ \A A \in SUBSET S : SumOf(f, A) = h[A]

UpTo(S, n) == {s \in SUBSET S : Cardinality(s) <= n}

-----------------------------------------------------------------------------
(* Induction                                                                 *)

\* A set of numbers with 0 and every successor is Nat.
LEMMA NatSetInduction ==
    ASSUME NEW S \in SUBSET Nat, 0 \in S, \A n \in S : n + 1 \in S
    PROVE  S = Nat
<1>1. SUFFICES ASSUME Nat \ S # {} PROVE FALSE
  OBVIOUS
<1>2. PICK x \in Nat \ S : \A y \in Nat \ S : ~ (<<y, x>> \in OpToRel(<, Nat))
  <2>1. IsWellFoundedOn(OpToRel(<, Nat), Nat)
    BY NatLessThanWellFounded
  <2>2. Nat \ S \subseteq Nat
    OBVIOUS
  <2> QED BY ONLY <2>1, <2>2, <1>1, WFMin
<1>3. \A y \in Nat \ S : ~ (y < x)
  BY <1>2 DEF OpToRel
<1>4. x - 1 \in Nat /\ x - 1 < x
  OBVIOUS
<1>5. x - 1 \in S
  BY <1>3, <1>4
<1>6. x - 1 + 1 = x
  OBVIOUS
<1> QED BY <1>5, <1>6

\* What is left of a finite set when the chosen element is taken out.
LEMMA RemoveChosen ==
    ASSUME NEW s, IsFiniteSet(s), s # {}, NEW x \in s
    PROVE  /\ IsFiniteSet(s \ {x})
           /\ Cardinality(s) \in Nat
           /\ Cardinality(s \ {x}) \in Nat
           /\ Cardinality(s \ {x}) = Cardinality(s) - 1
BY FS_RemoveElement, FS_CardinalityType

\* What holds of the empty set, and of any set for which it holds when an element
\* is taken out, holds of a finite set.
LEMMA SubsetInduction ==
    ASSUME NEW S, IsFiniteSet(S), NEW F, {} \in F,
           \A s \in SUBSET S : s # {} /\ (\A x \in s : s \ {x} \in F) => s \in F
    PROVE  S \in F
<1> DEFINE Q(n) == \A s \in UpTo(S, n) : s \in F
<1>1. Q(0)
  BY FS_Subset, FS_EmptySet, FS_CardinalityType DEF UpTo
<1>2. \A n \in Nat : Q(n) => Q(n + 1)
  <2> SUFFICES ASSUME NEW n \in Nat, Q(n), NEW s \in UpTo(S, n + 1), s # {}
               PROVE  s \in F
    OBVIOUS
  <2>1. IsFiniteSet(s) /\ s \subseteq S /\ Cardinality(s) <= n + 1
    BY FS_Subset DEF UpTo
  <2>2. ASSUME NEW x \in s PROVE s \ {x} \in F
    <3>1. Cardinality(s) \in Nat /\ Cardinality(s \ {x}) = Cardinality(s) - 1
      BY <2>1, RemoveChosen
    <3>2. s \ {x} \in UpTo(S, n)
      BY <2>1, <3>1 DEF UpTo
    <3> QED BY <3>2
  <2> QED BY <2>1, <2>2
<1>3. \A n \in Nat : Q(n)
  <2> DEFINE N == {n \in Nat : Q(n)}
  <2> HIDE DEF Q
  <2>1. N \in SUBSET Nat
    OBVIOUS
  <2>2. 0 \in N /\ \A n \in N : n + 1 \in N
    BY <1>1, <1>2
  <2> HIDE DEF N
  <2>3. N = Nat
    BY <2>1, <2>2, NatSetInduction
  <2> QED BY <2>3 DEF N
<1>4. Cardinality(S) \in Nat /\ S \in UpTo(S, Cardinality(S))
  BY FS_CardinalityType DEF UpTo
<1> QED BY <1>3, <1>4

-----------------------------------------------------------------------------
(* The table exists                                                          *)

\* A table for the sets of at most n elements extends to n + 1.
LEMMA TableStep ==
    ASSUME NEW S, IsFiniteSet(S), NEW f, NEW n \in Nat, NEW g,
           IsTable(g, f, UpTo(S, n))
    PROVE  \E h : IsTable(h, f, UpTo(S, n + 1))
<1> DEFINE Body(u, s) == IF s = {} THEN 0 ELSE f[Taken(s)] + u[s \ {Taken(s)}]
<1> DEFINE h == [s \in UpTo(S, n + 1) |-> Body(g, s)]
<1>1. ASSUME NEW s \in UpTo(S, n + 1)
      PROVE  Body(h, s) = Body(g, s)
  <2>1. CASE s = {}
    BY <2>1
  <2>2. CASE s # {}
    <3> DEFINE r == s \ {Taken(s)}
    <3>0. IsFiniteSet(s) /\ s \subseteq S /\ Cardinality(s) <= n + 1
      BY FS_Subset DEF UpTo
    <3>1. Taken(s) \in s
      BY <2>2 DEF Taken
    <3>2. Cardinality(s) \in Nat /\ Cardinality(r) = Cardinality(s) - 1
      BY <2>2, <3>0, <3>1, RemoveChosen
    <3>3. r \in UpTo(S, n) /\ r \in UpTo(S, n + 1)
      BY <3>0, <3>2 DEF UpTo
    <3>4. h[r] = Body(g, r)
      BY <3>3
    <3>5. g[r] = Body(g, r)
      BY <3>3 DEF IsTableOf, IsTable
    <3> QED BY <3>4, <3>5
  <2> QED BY <2>1, <2>2
<1>2. h = [s \in UpTo(S, n + 1) |-> Body(h, s)]
  BY <1>1
<1> QED BY <1>2 DEF IsTableOf, IsTable

\* There is a table for all subsets of a finite set.
LEMMA TableExists ==
    ASSUME NEW S, IsFiniteSet(S), NEW f
    PROVE  \E h : IsTableOf(h, f, S)
<1> DEFINE Q(n) == \E h : IsTable(h, f, UpTo(S, n))
<1>1. Q(0)
  <2> DEFINE h == [s \in UpTo(S, 0) |-> 0]
  <2>1. \A s \in UpTo(S, 0) : s = {}
    BY FS_Subset, FS_EmptySet, FS_CardinalityType DEF UpTo
  <2>2. IsTable(h, f, UpTo(S, 0))
    BY <2>1 DEF IsTableOf, IsTable
  <2> QED BY <2>2
<1>2. \A n \in Nat : Q(n) => Q(n + 1)
  BY TableStep
<1>3. \A n \in Nat : Q(n)
  <2> DEFINE N == {n \in Nat : Q(n)}
  <2> HIDE DEF Q
  <2>1. N \in SUBSET Nat
    OBVIOUS
  <2>2. 0 \in N /\ \A n \in N : n + 1 \in N
    BY <1>1, <1>2
  <2> HIDE DEF N
  <2>3. N = Nat
    BY <2>1, <2>2, NatSetInduction
  <2> QED BY <2>3 DEF N
<1>4. Cardinality(S) \in Nat
  BY FS_CardinalityType
<1>5. UpTo(S, Cardinality(S)) = SUBSET S
  BY FS_Subset DEF UpTo
<1>6. \E h : IsTable(h, f, UpTo(S, Cardinality(S)))
  BY <1>3, <1>4
<1>7. PICK h : IsTable(h, f, UpTo(S, Cardinality(S)))
  BY <1>6
<1> QED BY <1>5, <1>7 DEF IsTableOf

\* MapThenSumSet reads its result from such a table.
LEMMA SumOfTable ==
    ASSUME NEW S, IsFiniteSet(S), NEW f
    PROVE  \E h : IsTableOf(h, f, S) /\ SumOf(f, S) = h[S]
<1> DEFINE h == CHOOSE iter : IsTableOf(iter, f, S)
<1>1. SumOf(f, S) = h[S]
  BY DEF SumOf, MapThenSumSet, MapThenFoldSet, IsTableOf, IsTable, Taken
<1>2. IsTableOf(h, f, S)
  BY TableExists
<1> QED BY <1>1, <1>2

\* The table of a subset agrees with that of the whole set.
LEMMA TablesAgree ==
    ASSUME NEW S, IsFiniteSet(S), NEW A \in SUBSET S, NEW f, NEW g, NEW h,
           IsTableOf(g, f, A), IsTableOf(h, f, S)
    PROVE  g[A] = h[A]
<1> DEFINE F == {s \in SUBSET A : g[s] = h[s]}
<1>0. IsFiniteSet(A)
  BY FS_Subset
<1>1. {} \in F
  <2>1. {} \in SUBSET S /\ {} \in SUBSET A
    OBVIOUS
  <2>2. g[{}] = 0 /\ h[{}] = 0
    BY <2>1 DEF IsTableOf, IsTable
  <2> QED BY <2>2
<1>2. ASSUME NEW s \in SUBSET A, s # {}, \A x \in s : s \ {x} \in F
      PROVE  s \in F
  <2>1. Taken(s) \in s
    BY <1>2 DEF Taken
  <2>2. g[s \ {Taken(s)}] = h[s \ {Taken(s)}]
    BY <1>2, <2>1
  <2>3. s \in SUBSET S
    OBVIOUS
  <2>4. /\ g[s] = f[Taken(s)] + g[s \ {Taken(s)}]
        /\ h[s] = f[Taken(s)] + h[s \ {Taken(s)}]
    BY <1>2, <2>3 DEF IsTableOf, IsTable
  <2> QED BY <2>2, <2>4
<1>3. \A s \in SUBSET A : s # {} /\ (\A x \in s : s \ {x} \in F) => s \in F
  BY <1>2
<1>4. A \in F
  <2> HIDE DEF F
  <2> QED BY <1>0, <1>1, <1>3, SubsetInduction
<1> QED BY <1>4

-----------------------------------------------------------------------------
(* Sums                                                                      *)

\* One table has the sums over all subsets of a finite set.
LEMMA SumTable ==
    ASSUME NEW S, IsFiniteSet(S), NEW f
    PROVE  \E h : IsSumTable(h, f, S)
<1>1. PICK h : IsTableOf(h, f, S)
  BY TableExists
<1>2. ASSUME NEW A \in SUBSET S
      PROVE  SumOf(f, A) = h[A]
  <2>1. IsFiniteSet(A)
    BY FS_Subset
  <2>2. PICK g : IsTableOf(g, f, A) /\ SumOf(f, A) = g[A]
    BY <2>1, SumOfTable
  <2>3. g[A] = h[A]
    BY <1>1, <2>2, TablesAgree
  <2> QED BY <2>2, <2>3
<1> QED BY <1>1, <1>2 DEF IsSumTable

\* The equations of the fold: nothing to add ...
LEMMA SumEmpty ==
    ASSUME NEW f
    PROVE  SumOf(f, {}) = 0
<1>1. IsFiniteSet({})
  BY FS_EmptySet
<1>2. PICK h : IsSumTable(h, f, {})
  BY <1>1, SumTable
<1>3. {} \in SUBSET {}
  OBVIOUS
<1> QED BY <1>2, <1>3 DEF IsSumTable, IsTableOf, IsTable

\* ... and the next element.
LEMMA SumUnfold ==
    ASSUME NEW S, IsFiniteSet(S), S # {}, NEW f
    PROVE  /\ Taken(S) \in S
           /\ SumOf(f, S) = f[Taken(S)] + SumOf(f, S \ {Taken(S)})
<1>1. PICK h : IsSumTable(h, f, S)
  BY SumTable
<1>2. S \in SUBSET S /\ S \ {Taken(S)} \in SUBSET S
  OBVIOUS
<1>3. h[S] = f[Taken(S)] + h[S \ {Taken(S)}]
  BY <1>1, <1>2 DEF IsSumTable, IsTableOf, IsTable
<1>4. SumOf(f, S) = h[S] /\ SumOf(f, S \ {Taken(S)}) = h[S \ {Taken(S)}]
  BY <1>1, <1>2 DEF IsSumTable
<1>5. Taken(S) \in S
  BY DEF Taken
<1> QED BY <1>3, <1>4, <1>5

\* A sum of natural numbers is a natural number.
LEMMA SumInNat ==
    ASSUME NEW S, IsFiniteSet(S), NEW f, \A x \in S : f[x] \in Nat
    PROVE  SumOf(f, S) \in Nat
<1> DEFINE F == {s \in SUBSET S : SumOf(f, s) \in Nat}
<1>1. {} \in F
  BY SumEmpty
<1>2. ASSUME NEW s \in SUBSET S, s # {}, \A x \in s : s \ {x} \in F
      PROVE  s \in F
  <2>1. Taken(s) \in s /\ SumOf(f, s) = f[Taken(s)] + SumOf(f, s \ {Taken(s)})
    BY <1>2, FS_Subset, SumUnfold
  <2> QED BY <1>2, <2>1
<1>3. \A s \in SUBSET S : s # {} /\ (\A x \in s : s \ {x} \in F) => s \in F
  BY <1>2
<1>4. S \in F
  <2> HIDE DEF F
  <2> QED BY <1>1, <1>3, SubsetInduction
<1> QED BY <1>4

\* Any element may be taken out first: the order of the fold does not matter.
LEMMA SumRemove ==
    ASSUME NEW S, IsFiniteSet(S), NEW f, \A x \in S : f[x] \in Nat
    PROVE  \A x \in S : SumOf(f, S) = f[x] + SumOf(f, S \ {x})
<1> DEFINE P(s) == \A x \in s : SumOf(f, s) = f[x] + SumOf(f, s \ {x})
           F == {s \in SUBSET S : P(s)}
<1>1. {} \in F
  OBVIOUS
<1>2. ASSUME NEW s \in SUBSET S, s # {}, \A x \in s : s \ {x} \in F, NEW x \in s
      PROVE  SumOf(f, s) = f[x] + SumOf(f, s \ {x})
  <2> DEFINE t == Taken(s)
  <2>1. IsFiniteSet(s)
    BY FS_Subset
  <2>2. t \in s /\ SumOf(f, s) = f[t] + SumOf(f, s \ {t})
    BY <1>2, <2>1, SumUnfold
  <2> HIDE DEF t
  <2>3. CASE x = t
    BY <2>2, <2>3
  <2>4. CASE x # t
    <3>1. SumOf(f, s \ {t}) = f[x] + SumOf(f, (s \ {t}) \ {x})
      BY <1>2, <2>2, <2>4
    <3>2. SumOf(f, s \ {x}) = f[t] + SumOf(f, (s \ {x}) \ {t})
      BY <1>2, <2>2, <2>4
    <3>3. (s \ {t}) \ {x} = (s \ {x}) \ {t}
      OBVIOUS
    <3>4. SumOf(f, (s \ {x}) \ {t}) \in Nat
      <4>1. IsFiniteSet((s \ {x}) \ {t})
        BY <2>1, FS_Subset, (s \ {x}) \ {t} \subseteq s
      <4> QED BY <4>1, SumInNat
    <3>5. f[x] \in Nat /\ f[t] \in Nat
      BY <2>2
    <3> DEFINE r == SumOf(f, (s \ {x}) \ {t})
    <3>6. SumOf(f, s) = f[t] + (f[x] + r) /\ SumOf(f, s \ {x}) = f[t] + r
      BY <2>2, <3>1, <3>2, <3>3
    <3>7. r \in Nat
      BY <3>4
    <3> HIDE DEF r
    <3> QED BY <3>5, <3>6, <3>7
  <2> QED BY <2>3, <2>4
<1>3. \A s \in SUBSET S : s # {} /\ (\A x \in s : s \ {x} \in F) => s \in F
  BY <1>2
<1>4. S \in F
  <2> HIDE DEF F
  <2> QED BY <1>1, <1>3, SubsetInduction
<1> QED BY <1>4

\* Functions that agree on S have the same sum over S.
LEMMA SumAgree ==
    ASSUME NEW S, IsFiniteSet(S), NEW f, NEW g, \A x \in S : f[x] = g[x]
    PROVE  SumOf(f, S) = SumOf(g, S)
<1> DEFINE F == {s \in SUBSET S : SumOf(f, s) = SumOf(g, s)}
<1>1. {} \in F
  BY SumEmpty
<1>2. ASSUME NEW s \in SUBSET S, s # {}, \A x \in s : s \ {x} \in F
      PROVE  s \in F
  <2>1. IsFiniteSet(s)
    BY FS_Subset
  <2>2. Taken(s) \in s /\ SumOf(f, s) = f[Taken(s)] + SumOf(f, s \ {Taken(s)})
    BY <1>2, <2>1, SumUnfold
  <2>3. SumOf(g, s) = g[Taken(s)] + SumOf(g, s \ {Taken(s)})
    BY <1>2, <2>1, SumUnfold
  <2> QED BY <1>2, <2>2, <2>3
<1>3. \A s \in SUBSET S : s # {} /\ (\A x \in s : s \ {x} \in F) => s \in F
  BY <1>2
<1>4. S \in F
  <2> HIDE DEF F
  <2> QED BY <1>1, <1>3, SubsetInduction
<1> QED BY <1>4

\* A smaller function has a smaller sum.
LEMMA SumPointwise ==
    ASSUME NEW S, IsFiniteSet(S), NEW f, NEW g,
           \A x \in S : f[x] \in Nat /\ g[x] \in Nat /\ f[x] <= g[x]
    PROVE  SumOf(f, S) <= SumOf(g, S)
<1> DEFINE F == {s \in SUBSET S : SumOf(f, s) <= SumOf(g, s)}
<1>1. {} \in F
  BY SumEmpty
<1>2. ASSUME NEW s \in SUBSET S, s # {}, \A x \in s : s \ {x} \in F
      PROVE  s \in F
  <2> DEFINE t == Taken(s)
             u == SumOf(f, s \ {t})
             v == SumOf(g, s \ {t})
  <2>1. IsFiniteSet(s) /\ IsFiniteSet(s \ {t})
    BY FS_Subset, s \ {t} \subseteq S
  <2>2. t \in s /\ SumOf(f, s) = f[t] + u
    BY <1>2, <2>1, SumUnfold
  <2>3. SumOf(g, s) = g[t] + v
    BY <1>2, <2>1, SumUnfold
  <2>4. u \in Nat /\ v \in Nat
    BY <2>1, SumInNat
  <2>5. u <= v
    BY <1>2, <2>2
  <2> HIDE DEF t, u, v
  <2>6. SumOf(f, s) <= SumOf(g, s)
    BY <2>2, <2>3, <2>4, <2>5
  <2> QED BY <2>6
<1>3. \A s \in SUBSET S : s # {} /\ (\A x \in s : s \ {x} \in F) => s \in F
  BY <1>2
<1>4. S \in F
  <2> HIDE DEF F
  <2> QED BY <1>1, <1>3, SubsetInduction
<1> QED BY <1>4

\* The sum over a smaller set is smaller.
LEMMA SumMonotone ==
    ASSUME NEW S, IsFiniteSet(S), NEW A \in SUBSET S, NEW f, \A x \in S : f[x] \in Nat
    PROVE  SumOf(f, A) <= SumOf(f, S)
<1> DEFINE F == {s \in SUBSET S : SumOf(f, A \cap s) <= SumOf(f, s)}
<1>1. {} \in F
  <2>1. SumOf(f, A \cap {}) = 0
    BY SumEmpty, A \cap {} = {}
  <2>2. SumOf(f, {}) = 0
    BY SumEmpty
  <2> QED BY <2>1, <2>2
<1>2. ASSUME NEW s \in SUBSET S, s # {}, \A x \in s : s \ {x} \in F
      PROVE  s \in F
  <2> PICK t \in s : TRUE
    BY <1>2
  <2> DEFINE u == SumOf(f, A \cap (s \ {t}))
             v == SumOf(f, s \ {t})
  <2>1. IsFiniteSet(s) /\ IsFiniteSet(s \ {t})
    BY FS_Subset, s \ {t} \subseteq S
  <2>2. IsFiniteSet(A \cap s) /\ IsFiniteSet(A \cap (s \ {t}))
    BY FS_Subset, A \cap s \subseteq S, A \cap (s \ {t}) \subseteq S
  <2>3. SumOf(f, s) = f[t] + v
    BY <2>1, SumRemove
  <2>4. SumOf(f, A \cap s) = IF t \in A THEN f[t] + u ELSE u
    <3>1. CASE t \in A
      <4>1. t \in A \cap s /\ (A \cap s) \ {t} = A \cap (s \ {t})
        BY <3>1
      <4>2. SumOf(f, A \cap s) = f[t] + SumOf(f, (A \cap s) \ {t})
        BY <2>2, <4>1, SumRemove
      <4> QED BY <3>1, <4>1, <4>2
    <3>2. CASE t \notin A
      BY <3>2, A \cap s = A \cap (s \ {t})
    <3> QED BY <3>1, <3>2
  <2>5. u \in Nat /\ v \in Nat /\ f[t] \in Nat
    BY <2>1, <2>2, SumInNat
  <2>6. u <= v
    BY <1>2
  <2> HIDE DEF u, v
  <2>7. SumOf(f, A \cap s) <= SumOf(f, s)
    BY <2>3, <2>4, <2>5, <2>6
  <2> QED BY <2>7
<1>3. \A s \in SUBSET S : s # {} /\ (\A x \in s : s \ {x} \in F) => s \in F
  BY <1>2
<1>4. S \in F
  <2> HIDE DEF F
  <2> QED BY <1>1, <1>3, SubsetInduction
<1> QED BY <1>4, A \cap S = A

\* The sum over two disjoint sets is the sum of their sums.
LEMMA SumDisjoint ==
    ASSUME NEW S, IsFiniteSet(S), NEW T, IsFiniteSet(T), S \cap T = {},
           NEW f, \A x \in S \cup T : f[x] \in Nat
    PROVE  SumOf(f, S \cup T) = SumOf(f, S) + SumOf(f, T)
<1> DEFINE F == {s \in SUBSET S : SumOf(f, s \cup T) = SumOf(f, s) + SumOf(f, T)}
<1>0. SumOf(f, T) \in Nat
  BY SumInNat
<1>1. {} \in F
  <2>1. SumOf(f, {} \cup T) = SumOf(f, T)
    BY {} \cup T = T
  <2>2. SumOf(f, {}) = 0
    BY SumEmpty
  <2> QED BY <1>0, <2>1, <2>2
<1>2. ASSUME NEW s \in SUBSET S, s # {}, \A x \in s : s \ {x} \in F
      PROVE  s \in F
  <2> PICK t \in s : TRUE
    BY <1>2
  <2> DEFINE u == SumOf(f, s \ {t})
             v == SumOf(f, (s \ {t}) \cup T)
             w == SumOf(f, T)
  <2>1. IsFiniteSet(s) /\ IsFiniteSet(s \ {t})
    BY FS_Subset, s \ {t} \subseteq S
  <2>2. IsFiniteSet(s \cup T)
    BY <2>1, FS_Union
  <2>3. SumOf(f, s) = f[t] + u
    BY <2>1, SumRemove
  <2>4. SumOf(f, s \cup T) = f[t] + v
    <3>1. (s \cup T) \ {t} = (s \ {t}) \cup T
      OBVIOUS
    <3>2. SumOf(f, s \cup T) = f[t] + SumOf(f, (s \cup T) \ {t})
      <4>1. t \in s \cup T /\ \A x \in s \cup T : f[x] \in Nat
        OBVIOUS
      <4> QED BY <2>2, <4>1, SumRemove
    <3> QED BY <3>1, <3>2
  <2>5. u \in Nat /\ f[t] \in Nat
    BY <2>1, SumInNat
  <2>6. v = u + w
    BY <1>2
  <2>7. w \in Nat
    BY <1>0
  <2> HIDE DEF u, v, w
  <2>8. SumOf(f, s \cup T) = SumOf(f, s) + w
    BY <2>3, <2>4, <2>5, <2>6, <2>7
  <2> QED BY <2>8 DEF w
<1>3. \A s \in SUBSET S : s # {} /\ (\A x \in s : s \ {x} \in F) => s \in F
  BY <1>2
<1>4. S \in F
  <2> HIDE DEF F
  <2> QED BY <1>1, <1>3, SubsetInduction
<1> QED BY <1>4

\* The sum of n numbers that are at most m is at most n * m.
LEMMA SumBound ==
    ASSUME NEW S, IsFiniteSet(S), NEW m \in Nat,
           NEW f, \A x \in S : f[x] \in Nat /\ f[x] <= m
    PROVE  SumOf(f, S) <= Cardinality(S) * m
<1> DEFINE F == {s \in SUBSET S : SumOf(f, s) <= Cardinality(s) * m}
<1>1. {} \in F
  BY SumEmpty, FS_EmptySet
<1>2. ASSUME NEW s \in SUBSET S, s # {}, \A x \in s : s \ {x} \in F
      PROVE  s \in F
  <2> PICK t \in s : TRUE
    BY <1>2
  <2> DEFINE u == SumOf(f, s \ {t})
             n == Cardinality(s \ {t})
  <2>1. IsFiniteSet(s) /\ IsFiniteSet(s \ {t})
    BY FS_Subset, s \ {t} \subseteq S
  <2>2. n \in Nat /\ Cardinality(s) = n + 1
    BY <2>1, RemoveChosen
  <2>3. SumOf(f, s) = f[t] + u
    BY <2>1, SumRemove
  <2>4. u \in Nat /\ f[t] \in Nat /\ f[t] <= m
    BY <2>1, SumInNat
  <2>5. u <= n * m
    BY <1>2
  <2> HIDE DEF u, n
  <2>6. (n + 1) * m = n * m + m /\ n * m \in Nat
    BY <2>2
  <2>7. SumOf(f, s) <= Cardinality(s) * m
    BY <2>2, <2>3, <2>4, <2>5, <2>6
  <2> QED BY <2>7
<1>3. \A s \in SUBSET S : s # {} /\ (\A x \in s : s \ {x} \in F) => s \in F
  BY <1>2
<1>4. S \in F
  <2> HIDE DEF F
  <2> QED BY <1>1, <1>3, SubsetInduction
<1> QED BY <1>4

\* Counting one more at y.
LEMMA SumIncrement ==
    ASSUME NEW S, IsFiniteSet(S), NEW f, NEW g, NEW y,
           \A x \in S : f[x] \in Nat,
           \A x \in S : g[x] = IF x = y THEN f[x] + 1 ELSE f[x]
    PROVE  SumOf(g, S) = SumOf(f, S) + (IF y \in S THEN 1 ELSE 0)
<1>1. CASE y \notin S
  <2>1. SumOf(f, S) = SumOf(g, S)
    BY <1>1, SumAgree
  <2>2. SumOf(f, S) \in Nat
    BY SumInNat
  <2> QED BY <1>1, <2>1, <2>2
<1>2. CASE y \in S
  <2>1. IsFiniteSet(S \ {y})
    BY FS_Subset, S \ {y} \subseteq S
  <2>2. SumOf(f, S \ {y}) = SumOf(g, S \ {y})
    BY <2>1, SumAgree
  <2>3. SumOf(f, S) = f[y] + SumOf(f, S \ {y})
    BY <1>2, SumRemove
  <2>4. SumOf(g, S) = g[y] + SumOf(g, S \ {y})
    <3>1. \A x \in S : g[x] \in Nat
      OBVIOUS
    <3> QED BY <1>2, <3>1, SumRemove
  <2>5. SumOf(f, S \ {y}) \in Nat /\ f[y] \in Nat
    BY <1>2, <2>1, SumInNat
  <2>6. g[y] = f[y] + 1
    BY <1>2
  <2> QED BY <1>2, <2>2, <2>3, <2>4, <2>5, <2>6
<1> QED BY <1>1, <1>2

=============================================================================
