------------------------------- MODULE Totals -------------------------------
(* Sums over finite sets, for the proofs: what MapThenSumSet of the         *)
(* community modules adds up, one element at a time; and what else the    *)
(* proofs need of numbers: quotients, remainders, least elements.           *)
EXTENDS Integers, FiniteSetsExt, FiniteSetTheorems, WellFoundedInduction, TLAPS

(* The sum of what a function has on a set. *)
Total(f, S) == MapThenSumSet(LAMBDA x : f[x], S)

-----------------------------------------------------------------------------
(* Natural numbers, by the least element of a set of them. *)
Below == {p \in Nat \X Nat : p[1] < p[2]}

LEMMA Least == ASSUME NEW T \in SUBSET Nat, T # {} PROVE \E n \in T : \A m \in T : n <= m
<1>1. IsWellFoundedOn(Below, Nat)
  BY NatLessThanWellFounded DEF OpToRel, Below
<1>2. PICK n \in T : \A m \in T : <<m, n>> \notin Below
  BY <1>1, WFMin
<1>3. ASSUME NEW m \in T PROVE n <= m
  <2>1. <<m, n>> \in Nat \X Nat /\ <<m, n>> \notin Below
    BY <1>2
  <2>2. ~(m < n)
    BY <2>1 DEF Below
  <2>3. QED
    BY <2>2
<1>4. QED
  BY <1>3

(* What holds of 0, and of the successor of what it holds of, holds of all. *)
LEMMA Induction == ASSUME NEW T, 0 \in T, \A n \in Nat : n \in T => n + 1 \in T PROVE Nat \subseteq T
<1>1. SUFFICES ASSUME Nat \ T # {} PROVE FALSE
  OBVIOUS
<1>2. PICK n \in Nat \ T : \A m \in Nat \ T : n <= m
  BY <1>1, Least
<1>3. n # 0 /\ n - 1 \in Nat /\ n - 1 \in T
  BY <1>2
<1>4. QED
  BY <1>2, <1>3

(* What holds of the empty set, and of each set with one element more, holds  *)
(* of a finite set.                                                         *)
LEMMA Growing ==
    ASSUME NEW S, IsFiniteSet(S), NEW G, {} \in G,
           \A s \in SUBSET S : \A x \in S \ s : s \in G => s \cup {x} \in G
    PROVE  S \in G
<1> DEFINE T == {n \in Nat : \A s \in SUBSET S : Cardinality(s) = n => s \in G}
<1>1. \A s \in SUBSET S : IsFiniteSet(s) /\ Cardinality(s) \in Nat
  BY FS_Subset, FS_CardinalityType
<1>2. 0 \in T
  BY <1>1, FS_EmptySet
<1>3. ASSUME NEW n \in Nat, n \in T PROVE n + 1 \in T
  <2>1. ASSUME NEW s \in SUBSET S, Cardinality(s) = n + 1 PROVE s \in G
    <3>1. PICK x \in s : TRUE
      BY <1>1, <2>1, FS_EmptySet
    <3>2. Cardinality(s \ {x}) = n
      <4>1. IsFiniteSet(s) /\ x \in s
        BY <1>1, <3>1
      <4>2. Cardinality(s \ {x}) = Cardinality(s) - 1
        BY <4>1, FS_RemoveElement
      <4>3. QED
        BY <2>1, <4>2
    <3>3. s \ {x} \in G /\ s = (s \ {x}) \cup {x} /\ x \in S \ (s \ {x}) /\ s \ {x} \in SUBSET S
      BY <1>3, <3>1, <3>2
    <3>4. QED
      BY <3>3
  <2>2. QED
    BY <2>1
<1> HIDE DEF T
<1>4. Nat \subseteq T
  BY <1>2, <1>3, Induction
<1>5. QED
  BY <1>1, <1>4 DEF T

-----------------------------------------------------------------------------
(* The function MapThenFoldSet chooses: the sum of each subset of a set. *)
Pick(s) == CHOOSE x \in s : TRUE
Adds(sum, f, S) == sum = [s \in SUBSET S |-> IF s = {} THEN 0 ELSE f[Pick(s)] + sum[s \ {Pick(s)}]]

LEMMA Unfold == ASSUME NEW f, NEW S
                PROVE  Total(f, S) = (CHOOSE sum : Adds(sum, f, S))[S]
  BY DEF Total, MapThenSumSet, MapThenFoldSet, Adds, Pick

LEMMA Less == ASSUME NEW S, IsFiniteSet(S), S # {}
              PROVE  /\ Pick(S) \in S /\ IsFiniteSet(S \ {Pick(S)})
                     /\ Cardinality(S) \in Nat \ {0}
                     /\ Cardinality(S \ {Pick(S)}) = Cardinality(S) - 1
<1>1. Pick(S) \in S
  BY DEF Pick
<1>2. Cardinality(S) \in Nat /\ Cardinality(S) # 0
  BY FS_CardinalityType, FS_EmptySet
<1>3. QED
  BY <1>1, <1>2, FS_RemoveElement

(* Two such functions agree wherever both are defined. *)
LEMMA AddsOnce ==
    ASSUME NEW f, NEW S, NEW R, NEW u, NEW v, Adds(u, f, S), Adds(v, f, R),
           NEW s \in SUBSET (S \cap R), IsFiniteSet(s)
    PROVE  u[s] = v[s]
<1> DEFINE T == {n \in Nat : \A t \in SUBSET (S \cap R) :
                                IsFiniteSet(t) /\ Cardinality(t) = n => u[t] = v[t]}
<1>1. \A t \in SUBSET (S \cap R) : /\ u[t] = IF t = {} THEN 0 ELSE f[Pick(t)] + u[t \ {Pick(t)}]
                                   /\ v[t] = IF t = {} THEN 0 ELSE f[Pick(t)] + v[t \ {Pick(t)}]
  BY DEF Adds
<1>2. 0 \in T
  <2>1. ASSUME NEW t \in SUBSET (S \cap R), IsFiniteSet(t), Cardinality(t) = 0 PROVE u[t] = v[t]
    BY <1>1, <2>1, FS_EmptySet
  <2>2. QED
    BY <2>1
<1>3. ASSUME NEW n \in Nat, n \in T PROVE n + 1 \in T
  <2>1. ASSUME NEW t \in SUBSET (S \cap R), IsFiniteSet(t), Cardinality(t) = n + 1 PROVE u[t] = v[t]
    <3>1. t # {}
      BY <2>1, FS_EmptySet
    <3>2. IsFiniteSet(t \ {Pick(t)}) /\ Cardinality(t \ {Pick(t)}) = n
      BY <2>1, <3>1, Less
    <3>3. u[t \ {Pick(t)}] = v[t \ {Pick(t)}]
      BY <1>3, <3>2
    <3>4. QED
      BY <1>1, <3>1, <3>3
  <2>2. QED
    BY <2>1
<1> HIDE DEF T
<1>4. Nat \subseteq T
  BY <1>2, <1>3, Induction
<1>5. Cardinality(s) \in T
  BY <1>4, FS_CardinalityType
<1>6. QED
  BY <1>5 DEF T

(* There is such a function for every finite set. *)
LEMMA AddsExists == ASSUME NEW f, NEW S, IsFiniteSet(S) PROVE \E sum : Adds(sum, f, S)
<1> DEFINE T == {n \in Nat : \A s \in SUBSET S : Cardinality(s) <= n => \E sum : Adds(sum, f, s)}
<1>1. \A s \in SUBSET S : IsFiniteSet(s) /\ Cardinality(s) \in Nat
  BY FS_Subset, FS_CardinalityType
<1>2. 0 \in T
  <2>1. ASSUME NEW s \in SUBSET S, Cardinality(s) <= 0 PROVE \E sum : Adds(sum, f, s)
    <3>1. s = {} /\ SUBSET s = {{}}
      BY <1>1, <2>1, FS_EmptySet
    <3>2. Adds([t \in SUBSET s |-> 0], f, s)
      BY <3>1 DEF Adds
    <3>3. QED
      BY <3>2
  <2>2. QED
    BY <2>1
<1>3. ASSUME NEW n \in Nat, n \in T PROVE n + 1 \in T
  <2>1. ASSUME NEW s \in SUBSET S, Cardinality(s) <= n + 1 PROVE \E sum : Adds(sum, f, s)
    <3> DEFINE sum == [t \in SUBSET s |-> IF t = {} THEN 0 ELSE f[Pick(t)] + Total(f, t \ {Pick(t)})]
    <3>1. ASSUME NEW t \in SUBSET s, t # {} PROVE Total(f, t \ {Pick(t)}) = sum[t \ {Pick(t)}]
      <4> DEFINE r == t \ {Pick(t)}
      <4> DEFINE it == CHOOSE v : Adds(v, f, r)
      <4>1. t \in SUBSET S /\ Cardinality(t) \in Nat /\ Cardinality(t) <= Cardinality(s)
        BY <1>1, <3>1, FS_Subset
      <4>2. r \in SUBSET s /\ r \in SUBSET S /\ IsFiniteSet(r) /\ Cardinality(r) <= n
        BY <1>1, <2>1, <3>1, <4>1, Less
      <4>3. Adds(it, f, r) /\ Total(f, r) = it[r]
        BY <1>3, <4>2, Unfold
      <4>4. it[r] = IF r = {} THEN 0 ELSE f[Pick(r)] + it[r \ {Pick(r)}]
        BY <4>3 DEF Adds
      <4>5. ASSUME r # {} PROVE it[r \ {Pick(r)}] = Total(f, r \ {Pick(r)})
        <5> DEFINE q == r \ {Pick(r)}
        <5>1. IsFiniteSet(q) /\ q \in SUBSET S /\ q \in SUBSET r
          BY <1>1, <4>2
        <5>2. Cardinality(q) <= n
          BY <4>2, <4>5, Less
        <5>3. Adds(CHOOSE v : Adds(v, f, q), f, q) /\ Total(f, q) = (CHOOSE v : Adds(v, f, q))[q]
          BY <1>3, <5>1, <5>2, Unfold
        <5>4. QED
          BY <4>3, <5>1, <5>3, AddsOnce
      <4>6. QED
        BY <4>2, <4>3, <4>4, <4>5
    <3>2. Adds(sum, f, s)
      BY <3>1 DEF Adds
    <3>3. QED
      BY <3>2
  <2>2. QED
    BY <2>1
<1> HIDE DEF T
<1>4. Nat \subseteq T
  BY <1>2, <1>3, Induction
<1>5. Cardinality(S) \in T
  BY <1>4, FS_CardinalityType
<1>6. QED
  BY <1>1, <1>5 DEF T

(* What MapThenSumSet does with a set: nothing, or the element it picks first. *)
LEMMA TotalSteps ==
    ASSUME NEW f
    PROVE  /\ Total(f, {}) = 0
           /\ \A S : IsFiniteSet(S) /\ S # {} => Total(f, S) = f[Pick(S)] + Total(f, S \ {Pick(S)})
<1>1. ASSUME NEW S, IsFiniteSet(S)
      PROVE  Total(f, S) = IF S = {} THEN 0 ELSE f[Pick(S)] + Total(f, S \ {Pick(S)})
  <2> DEFINE it == CHOOSE v : Adds(v, f, S)
  <2>1. Adds(it, f, S) /\ Total(f, S) = it[S]
    BY <1>1, AddsExists, Unfold
  <2>2. it[S] = IF S = {} THEN 0 ELSE f[Pick(S)] + it[S \ {Pick(S)}]
    BY <2>1 DEF Adds
  <2>3. ASSUME S # {} PROVE it[S \ {Pick(S)}] = Total(f, S \ {Pick(S)})
    <3> DEFINE r == S \ {Pick(S)}
    <3>1. IsFiniteSet(r)
      BY <1>1, <2>3, Less
    <3>2. Adds(CHOOSE v : Adds(v, f, r), f, r) /\ Total(f, r) = (CHOOSE v : Adds(v, f, r))[r]
      BY <3>1, AddsExists, Unfold
    <3>3. QED
      BY <2>1, <3>1, <3>2, AddsOnce
  <2>4. QED
    BY <2>1, <2>2, <2>3
<1>2. IsFiniteSet({})
  BY FS_EmptySet
<1>3. QED
  BY <1>1, <1>2

-----------------------------------------------------------------------------
(* A sum of integers is an integer, in whatever order they are taken. *)
LEMMA TotalRemove ==
    ASSUME NEW S, IsFiniteSet(S), NEW f, \A x \in S : f[x] \in Int
    PROVE  Total(f, S) \in Int /\ \A x \in S : Total(f, S) = f[x] + Total(f, S \ {x})
<1> DEFINE T == {n \in Nat : \A s \in SUBSET S :
                    Cardinality(s) <= n => /\ Total(f, s) \in Int
                                           /\ \A x \in s : Total(f, s) = f[x] + Total(f, s \ {x})}
<1>1. \A s \in SUBSET S : IsFiniteSet(s) /\ Cardinality(s) \in Nat
  BY FS_Subset, FS_CardinalityType
<1>2. 0 \in T
  <2>1. ASSUME NEW s \in SUBSET S, Cardinality(s) <= 0 PROVE s = {} /\ Total(f, s) = 0
    BY <1>1, <2>1, FS_EmptySet, TotalSteps
  <2>2. QED
    BY <2>1
<1>3. ASSUME NEW n \in Nat, n \in T PROVE n + 1 \in T
  <2>1. ASSUME NEW s \in SUBSET S, Cardinality(s) <= n + 1, s # {}
        PROVE  Total(f, s) \in Int /\ \A x \in s : Total(f, s) = f[x] + Total(f, s \ {x})
    <3> DEFINE p == Pick(s)
    <3>0. IsFiniteSet(s) /\ Cardinality(s) \in Nat
      BY <1>1
    <3>1. \A x \in s : /\ s \ {x} \in SUBSET S /\ Cardinality(s \ {x}) = Cardinality(s) - 1
      BY <3>0, FS_RemoveElement
    <3>2. p \in s /\ f[p] \in Int /\ Total(f, s) = f[p] + Total(f, s \ {p})
      BY <2>1, <3>0, Less, TotalSteps
    <3>3. \A x \in s : /\ Total(f, s \ {x}) \in Int
                       /\ \A y \in s \ {x} : Total(f, s \ {x}) = f[y] + Total(f, (s \ {x}) \ {y})
      BY <1>1, <1>3, <2>1, <3>1
    <3>4. ASSUME NEW x \in s, x # p PROVE Total(f, s) = f[x] + Total(f, s \ {x})
      <4> DEFINE r == (s \ {p}) \ {x}
      <4>1. /\ Total(f, s \ {x}) = f[p] + Total(f, r) /\ Total(f, s \ {p}) = f[x] + Total(f, r)
        <5>1. (s \ {x}) \ {p} = r
          OBVIOUS
        <5>2. QED
          BY <3>2, <3>3, <3>4, <5>1
      <4>2. Total(f, r) \in Int
        <5>1. r \in SUBSET (s \ {p}) /\ r \in SUBSET S
          OBVIOUS
        <5>2. Cardinality(r) <= Cardinality(s \ {p}) /\ Cardinality(r) \in Nat
          BY <1>1, <3>1, <3>2, <5>1, FS_Subset
        <5>3. Cardinality(r) <= n
          BY <2>1, <3>0, <3>1, <3>2, <5>2
        <5>4. QED
          BY <1>3, <5>1, <5>3
      <4>3. f[x] \in Int
        OBVIOUS
      <4>4. QED
        BY <3>2, <4>1, <4>2, <4>3
    <3>5. Total(f, s) \in Int
      BY <3>2, <3>3
    <3>6. QED
      BY <3>2, <3>4, <3>5
  <2>2. ASSUME NEW s \in SUBSET S, s = {} PROVE Total(f, s) = 0
    BY <2>2, TotalSteps
  <2>3. QED
    BY <2>1, <2>2
<1> HIDE DEF T
<1>4. Nat \subseteq T
  BY <1>2, <1>3, Induction
<1>5. QED
  BY <1>1, <1>4 DEF T

(* One element more. *)
LEMMA TotalAdd ==
    ASSUME NEW S, IsFiniteSet(S), NEW f, NEW x, x \notin S, \A y \in S \cup {x} : f[y] \in Int
    PROVE  Total(f, S \cup {x}) = Total(f, S) + f[x] /\ Total(f, S) \in Int
<1> DEFINE R == S \cup {x}
<1>1. IsFiniteSet(R) /\ x \in R /\ R \ {x} = S /\ \A y \in R : f[y] \in Int
  BY FS_AddElement
<1>2. Total(f, S) \in Int /\ f[x] \in Int
  BY TotalRemove
<1> HIDE DEF R
<1>3. Total(f, R) = f[x] + Total(f, R \ {x})
  BY <1>1, TotalRemove
<1>4. Total(f, R) = f[x] + Total(f, S)
  BY <1>1, <1>3
<1>5. QED
  BY <1>2, <1>4 DEF R

(* Only the values on the set count, and what is no larger sums to no more. *)
LEMMA TotalOrder ==
    ASSUME NEW S, IsFiniteSet(S), NEW f, NEW g, \A x \in S : f[x] \in Int /\ g[x] \in Int /\ f[x] <= g[x]
    PROVE  Total(f, S) <= Total(g, S)
<1> DEFINE G == {s \in SUBSET S : Total(f, s) <= Total(g, s)}
<1>1. {} \in G
  BY TotalSteps
<1>2. ASSUME NEW s \in SUBSET S, NEW x \in S \ s, s \in G PROVE s \cup {x} \in G
  <2>1. IsFiniteSet(s)
    BY FS_Subset
  <2>2. /\ Total(f, s \cup {x}) = Total(f, s) + f[x] /\ Total(f, s) \in Int
        /\ Total(g, s \cup {x}) = Total(g, s) + g[x] /\ Total(g, s) \in Int
    BY <2>1, TotalAdd
  <2>3. QED
    BY <1>2, <2>2
<1> HIDE DEF G
<1>3. S \in G
  BY <1>1, <1>2, Growing
<1>4. QED
  BY <1>3 DEF G

LEMMA TotalSame ==
    ASSUME NEW S, IsFiniteSet(S), NEW f, NEW g, \A x \in S : f[x] \in Int /\ f[x] = g[x]
    PROVE  Total(f, S) = Total(g, S)
<1>1. Total(f, S) <= Total(g, S) /\ Total(g, S) <= Total(f, S)
  BY TotalOrder
<1>2. Total(f, S) \in Int /\ Total(g, S) \in Int
  BY TotalRemove
<1>3. QED
  BY <1>1, <1>2

(* One value changes. *)
LEMMA TotalChange ==
    ASSUME NEW S, IsFiniteSet(S), NEW f, NEW g, NEW x \in S, \A y \in S : f[y] \in Int /\ g[y] \in Int,
           \A y \in S \ {x} : g[y] = f[y]
    PROVE  Total(g, S) = Total(f, S) + g[x] - f[x]
<1>1. IsFiniteSet(S \ {x})
  BY FS_RemoveElement
<1>2. Total(g, S \ {x}) = Total(f, S \ {x}) /\ Total(f, S \ {x}) \in Int
  BY <1>1, TotalSame, TotalRemove
<1>3. Total(f, S) = f[x] + Total(f, S \ {x}) /\ Total(g, S) = g[x] + Total(g, S \ {x})
  BY TotalRemove
<1>4. QED
  BY <1>2, <1>3

(* Sums of what is not negative. *)
LEMMA TotalNat ==
    ASSUME NEW S, IsFiniteSet(S), NEW f, \A x \in S : f[x] \in Nat
    PROVE  /\ Total(f, S) \in Nat
           /\ \A x \in S : f[x] <= Total(f, S)
           /\ \A s \in SUBSET S : Total(f, s) \in Nat /\ Total(f, s) <= Total(f, S)
<1> DEFINE G == {s \in SUBSET S : Total(f, s) \in Nat}
<1>1. {} \in G
  BY TotalSteps
<1>2. ASSUME NEW s \in SUBSET S, NEW x \in S \ s, s \in G PROVE s \cup {x} \in G
  <2>1. IsFiniteSet(s)
    BY FS_Subset
  <2>2. \A y \in s \cup {x} : f[y] \in Int
    OBVIOUS
  <2>3. Total(f, s \cup {x}) = Total(f, s) + f[x] /\ f[x] \in Nat
    BY <2>1, <2>2, TotalAdd
  <2>4. QED
    BY <1>2, <2>3
<1>3. ASSUME NEW s \in SUBSET S PROVE s \in G
  <2>1. IsFiniteSet(s) /\ \A r \in SUBSET s : \A x \in s \ r : r \in G => r \cup {x} \in G
    BY <1>2, FS_Subset
  <2> HIDE DEF G
  <2>2. QED
    BY <1>1, <2>1, Growing
<1>4. ASSUME NEW s \in SUBSET S PROVE Total(f, s) <= Total(f, S)
  <2> DEFINE g == [x \in S |-> IF x \in s THEN f[x] ELSE 0]
  <2> DEFINE H == {r \in SUBSET S : Total(g, r) = Total(f, r \cap s)}
  <2>1. {} \in H
    BY TotalSteps
  <2>2. ASSUME NEW r \in SUBSET S, NEW x \in S \ r, r \in H PROVE r \cup {x} \in H
    <3>1. IsFiniteSet(r) /\ IsFiniteSet(r \cap s)
      BY FS_Subset
    <3>2. Total(g, r \cup {x}) = Total(g, r) + g[x]
      BY <3>1, TotalAdd
    <3>3. CASE x \in s
      <4>1. (r \cup {x}) \cap s = (r \cap s) \cup {x}
        BY <3>3
      <4>2. Total(f, (r \cap s) \cup {x}) = Total(f, r \cap s) + f[x]
        <5>1. x \notin r \cap s /\ \A y \in (r \cap s) \cup {x} : f[y] \in Int
          OBVIOUS
        <5>2. QED
          BY <3>1, <5>1, TotalAdd
      <4>3. QED
        BY <2>2, <3>2, <3>3, <4>1, <4>2
    <3>4. CASE x \notin s
      <4>1. (r \cup {x}) \cap s = r \cap s
        BY <3>4
      <4>2. Total(g, r) \in Int
        BY <3>1, TotalRemove
      <4>3. QED
        BY <2>2, <3>2, <3>4, <4>1, <4>2
    <3>5. QED
      BY <3>3, <3>4
  <2> HIDE DEF H
  <2>3. S \in H
    BY <2>1, <2>2, Growing
  <2>4. Total(g, S) = Total(f, s)
    BY <2>3 DEF H
  <2>5. Total(g, S) <= Total(f, S)
    BY TotalOrder
  <2>6. QED
    BY <2>4, <2>5
<1>5. ASSUME NEW x \in S PROVE f[x] <= Total(f, S)
  <2>1. Total(f, S) = f[x] + Total(f, S \ {x}) /\ Total(f, S \ {x}) \in Nat
    BY <1>3, TotalRemove
  <2>2. QED
    BY <2>1
<1>6. QED
  BY <1>3, <1>4, <1>5

(* Two sets that have nothing in common. *)
LEMMA TotalUnion ==
    ASSUME NEW R, NEW S, IsFiniteSet(R), IsFiniteSet(S), R \cap S = {}, NEW f, \A x \in R \cup S : f[x] \in Int
    PROVE  Total(f, R \cup S) = Total(f, R) + Total(f, S)
<1> DEFINE G == {s \in SUBSET S : Total(f, R \cup s) = Total(f, R) + Total(f, s)}
<1>1. {} \in G
  <2>1. Total(f, {}) = 0 /\ Total(f, R) \in Int /\ R \cup {} = R
    BY TotalSteps, TotalRemove
  <2>2. QED
    BY <2>1
<1>2. ASSUME NEW s \in SUBSET S, NEW x \in S \ s, s \in G PROVE s \cup {x} \in G
  <2> DEFINE U == R \cup s
  <2>1. IsFiniteSet(s) /\ IsFiniteSet(U)
    BY FS_Subset, FS_Union
  <2>2. x \notin U /\ x \notin s /\ \A y \in U \cup {x} : f[y] \in Int /\ \A z \in s \cup {x} : f[z] \in Int
    OBVIOUS
  <2>3. R \cup (s \cup {x}) = U \cup {x}
    OBVIOUS
  <2>4. Total(f, U) = Total(f, R) + Total(f, s)
    BY <1>2
  <2> HIDE DEF U
  <2>5. Total(f, U \cup {x}) = Total(f, U) + f[x] /\ Total(f, s \cup {x}) = Total(f, s) + f[x]
    BY <2>1, <2>2, TotalAdd
  <2>6. f[x] \in Int /\ Total(f, R) \in Int /\ Total(f, s) \in Int
    BY <2>1, TotalRemove
  <2>7. Total(f, R \cup (s \cup {x})) = Total(f, U) + f[x]
    BY <2>3, <2>5
  <2>8. Total(f, R \cup (s \cup {x})) = Total(f, R) + Total(f, s \cup {x})
    BY <2>4, <2>5, <2>6, <2>7
  <2>9. QED
    BY <2>8
<1> HIDE DEF G
<1>3. S \in G
  BY <1>1, <1>2, Growing
<1>4. QED
  BY <1>3 DEF G

LEMMA TotalZero ==
    ASSUME NEW S, IsFiniteSet(S), NEW f, \A x \in S : f[x] = 0
    PROVE  Total(f, S) = 0
<1> DEFINE G == {s \in SUBSET S : Total(f, s) = 0}
<1>1. {} \in G
  BY TotalSteps
<1>2. ASSUME NEW s \in SUBSET S, NEW x \in S \ s, s \in G PROVE s \cup {x} \in G
  <2>1. IsFiniteSet(s) /\ \A y \in s \cup {x} : f[y] \in Int
    BY FS_Subset
  <2>2. Total(f, s \cup {x}) = Total(f, s) + f[x]
    BY <2>1, TotalAdd
  <2>3. QED
    BY <1>2, <2>2
<1> HIDE DEF G
<1>3. S \in G
  BY <1>1, <1>2, Growing
<1>4. QED
  BY <1>3 DEF G

(* The values of two functions together, and a sum of what is not below a   *)
(* bound.                                                                   *)
LEMMA TotalPlus ==
    ASSUME NEW S, IsFiniteSet(S), NEW f, NEW g, NEW h,
           \A x \in S : f[x] \in Int /\ g[x] \in Int /\ h[x] = f[x] + g[x]
    PROVE  Total(h, S) = Total(f, S) + Total(g, S)
<1> DEFINE G == {s \in SUBSET S : Total(h, s) = Total(f, s) + Total(g, s)}
<1>1. {} \in G
  BY TotalSteps
<1>2. ASSUME NEW s \in SUBSET S, NEW x \in S \ s, s \in G PROVE s \cup {x} \in G
  <2>1. IsFiniteSet(s) /\ \A y \in s \cup {x} : f[y] \in Int /\ g[y] \in Int /\ h[y] \in Int
    BY FS_Subset
  <2>2. /\ Total(f, s \cup {x}) = Total(f, s) + f[x] /\ Total(f, s) \in Int
        /\ Total(g, s \cup {x}) = Total(g, s) + g[x] /\ Total(g, s) \in Int
        /\ Total(h, s \cup {x}) = Total(h, s) + h[x]
    <3>1. x \notin s /\ (\A y \in s \cup {x} : f[y] \in Int) /\ (\A y \in s \cup {x} : g[y] \in Int)
          /\ \A y \in s \cup {x} : h[y] \in Int
      BY <2>1
    <3>2. Total(f, s \cup {x}) = Total(f, s) + f[x] /\ Total(f, s) \in Int
      BY <2>1, <3>1, TotalAdd
    <3>3. Total(g, s \cup {x}) = Total(g, s) + g[x] /\ Total(g, s) \in Int
      BY <2>1, <3>1, TotalAdd
    <3>4. Total(h, s \cup {x}) = Total(h, s) + h[x] /\ Total(h, s) \in Int
      BY <2>1, <3>1, TotalAdd
    <3>5. QED
      BY <3>2, <3>3, <3>4
  <2>3. f[x] \in Int /\ g[x] \in Int /\ h[x] = f[x] + g[x]
    OBVIOUS
  <2>4. Total(h, s) = Total(f, s) + Total(g, s)
    BY <1>2
  <2>5. QED
    BY <2>2, <2>3, <2>4
<1> HIDE DEF G
<1>3. S \in G
  BY <1>1, <1>2, Growing
<1>4. QED
  BY <1>3 DEF G

LEMMA TotalFloor ==
    ASSUME NEW S, IsFiniteSet(S), NEW f, NEW b \in Int, \A x \in S : f[x] \in Int /\ b <= f[x]
    PROVE  Total(f, S) >= b * Cardinality(S)
<1> DEFINE G == {s \in SUBSET S : Total(f, s) >= b * Cardinality(s)}
<1>1. {} \in G
  BY TotalSteps, FS_EmptySet
<1>2. ASSUME NEW s \in SUBSET S, NEW x \in S \ s, s \in G PROVE s \cup {x} \in G
  <2>1. IsFiniteSet(s) /\ \A y \in s \cup {x} : f[y] \in Int
    BY FS_Subset
  <2>2. /\ Total(f, s \cup {x}) = Total(f, s) + f[x] /\ Total(f, s) \in Int
        /\ Cardinality(s \cup {x}) = Cardinality(s) + 1 /\ Cardinality(s) \in Nat
    <3>1. x \notin s
      OBVIOUS
    <3>2. Total(f, s \cup {x}) = Total(f, s) + f[x] /\ Total(f, s) \in Int
      BY <2>1, <3>1, TotalAdd
    <3>3. QED
      BY <2>1, <3>1, <3>2, FS_AddElement, FS_CardinalityType
  <2> DEFINE c == Cardinality(s)
  <2>3. b * (c + 1) = b * c + b /\ b * c \in Int
    <3>1. c \in Int
      BY <2>2
    <3> HIDE DEF c
    <3>2. QED
      BY <3>1, Z3
  <2>4. f[x] \in Int /\ b <= f[x] /\ Total(f, s) >= b * Cardinality(s)
    BY <1>2
  <2>5. QED
    BY <2>2, <2>3, <2>4
<1> HIDE DEF G
<1>3. S \in G
  BY <1>1, <1>2, Growing
<1>4. QED
  BY <1>3 DEF G

(* The first of the least values. *)
LEMMA FirstLeast ==
    ASSUME NEW S \in SUBSET Int, IsFiniteSet(S), S # {}, NEW f, \A x \in S : f[x] \in Int
    PROVE  \E j \in S : \A k \in S : f[j] < f[k] \/ (f[j] = f[k] /\ j <= k)
<1> DEFINE G == {s \in SUBSET S : s # {} => \E j \in s : \A k \in s : f[j] < f[k] \/ (f[j] = f[k] /\ j <= k)}
<1>1. {} \in G
  OBVIOUS
<1>2. ASSUME NEW s \in SUBSET S, NEW x \in S \ s, s \in G PROVE s \cup {x} \in G
  <2>1. CASE s = {}
    BY <2>1
  <2>2. CASE s # {}
    <3>1. PICK j \in s : \A k \in s : f[j] < f[k] \/ (f[j] = f[k] /\ j <= k)
      BY <1>2, <2>2
    <3>2. CASE f[j] < f[x] \/ (f[j] = f[x] /\ j <= x)
      BY <3>1, <3>2
    <3>3. CASE ~(f[j] < f[x] \/ (f[j] = f[x] /\ j <= x))
      <4>1. ASSUME NEW k \in s PROVE f[x] < f[k] \/ (f[x] = f[k] /\ x <= k)
        <5>1. /\ f[x] \in Int /\ f[j] \in Int /\ f[k] \in Int /\ x \in Int /\ j \in Int /\ k \in Int
              /\ f[j] < f[k] \/ (f[j] = f[k] /\ j <= k)
          BY <3>1
        <5>2. QED
          BY <3>3, <5>1
      <4>2. QED
        BY <4>1
    <3>4. QED
      BY <3>2, <3>3
  <2>3. QED
    BY <2>1, <2>2
<1> HIDE DEF G
<1>3. S \in G
  BY <1>1, <1>2, Growing
<1>4. QED
  BY <1>3 DEF G

-----------------------------------------------------------------------------
(* Quotients of naturals, and products that grow. *)
LEMMA Quotient ==
    ASSUME NEW c \in Nat \ {0}, NEW x \in Nat
    PROVE  x \div c \in Nat /\ c * (x \div c) <= x /\ x < c * (x \div c) + c
<1>1. x \div c \in Int
  OBVIOUS
<1>2. c * (x \div c) <= x /\ x < c * (x \div c) + c
  BY Z3
<1>3. x \div c >= 0
  OBVIOUS
<1>4. QED
  BY <1>1, <1>2, <1>3

LEMMA ProductGrows == ASSUME NEW c \in Nat, NEW a \in Int, NEW b \in Int, a <= b
                     PROVE  c * a <= c * b
<1>1. b - a \in Nat
  OBVIOUS
<1>2. c * (b - a) \in Nat
  BY <1>1
<1>3. c * (b - a) = c * b - c * a
  BY Z3
<1>4. QED
  BY <1>2, <1>3

LEMMA QuotientLargest ==
    ASSUME NEW c \in Nat \ {0}, NEW x \in Nat, NEW s \in Int, c * s <= x
    PROVE  s <= x \div c
<1> DEFINE q == x \div c
<1>1. q \in Nat /\ x < c * q + c
  BY Quotient
<1> HIDE DEF q
<1>2. SUFFICES ASSUME q + 1 <= s PROVE FALSE
  BY <1>1 DEF q
<1>3. c * (q + 1) <= c * s
  BY <1>1, <1>2, ProductGrows
<1>4. c * (q + 1) = c * q + c
  BY <1>1
<1>5. c * q \in Int /\ c * s \in Int
  BY <1>1
<1>6. QED
  BY <1>1, <1>3, <1>4, <1>5

(* Remainders of a counter. *)
LEMMA OneQuotient ==
    ASSUME NEW n \in Nat \ {0}, NEW q \in Nat, NEW k \in Nat, NEW r \in 0..n - 1, NEW s \in 0..n - 1,
           n * q + r = n * k + s
    PROVE  ~(q < k)
<1> SUFFICES ASSUME q < k PROVE FALSE
  OBVIOUS
<1>1. PICK d \in Nat : k = q + 1 + d
  <2>1. k - q - 1 \in Nat /\ k = q + 1 + (k - q - 1)
    OBVIOUS
  <2>2. QED
    BY <2>1
<1>2. n * k = n * q + n + n * d
  BY <1>1
<1>3. n * d \in Nat
  OBVIOUS
<1>4. n * q \in Nat /\ n * k \in Nat
  OBVIOUS
<1>5. PICK a, b, c : a = n * q /\ b = n * k /\ c = n * d
  OBVIOUS
<1>6. a \in Nat /\ b \in Nat /\ c \in Nat /\ b = a + n + c /\ a + r = b + s
  BY <1>2, <1>3, <1>4, <1>5
<1>7. QED
  BY <1>6

LEMMA Remainder ==
    ASSUME NEW n \in Nat \ {0}, NEW q \in Nat, NEW r \in 0..n - 1
    PROVE  (n * q + r) % n = r
<1>1. PICK a \in Nat : a = n * q + r
  OBVIOUS
<1>2. a = n * (a \div n) + (a % n) /\ a % n \in 0..n-1 /\ a \div n \in Nat
  OBVIOUS
<1>3. PICK k \in Nat, s \in 0..n - 1 : k = a \div n /\ s = a % n
  BY <1>2
<1>4. n * q + r = n * k + s
  BY <1>1, <1>2, <1>3
<1>5. ~(q < k) /\ ~(k < q)
  BY <1>4, OneQuotient
<1>6. q = k
  BY <1>5
<1>7. r = s
  BY <1>4, <1>6
<1>8. QED
  BY <1>1, <1>3, <1>7

LEMMA NextRemainder ==
    ASSUME NEW n \in Nat \ {0}, NEW c \in Nat
    PROVE  /\ c % n \in 0..n - 1
           /\ (c + 1) % n = IF c % n = n - 1 THEN 0 ELSE (c % n) + 1
<1>1. c = n * (c \div n) + (c % n) /\ c % n \in 0..n-1 /\ c \div n \in Nat
  OBVIOUS
<1>2. PICK q \in Nat, m \in 0..n - 1 : q = c \div n /\ m = c % n /\ c = n * q + m
  BY <1>1
<1>3. CASE m = n - 1
  <2>1. c + 1 = n * (q + 1) + 0
    BY <1>2, <1>3
  <2>2. (n * (q + 1) + 0) % n = 0
    BY Remainder
  <2>3. QED
    BY <1>2, <1>3, <2>1, <2>2
<1>4. CASE m # n - 1
  <2>1. c + 1 = n * q + (m + 1) /\ m + 1 \in 0..n - 1
    BY <1>2, <1>4
  <2>2. (n * q + (m + 1)) % n = m + 1
    BY <2>1, Remainder
  <2>3. QED
    BY <1>2, <1>4, <2>1, <2>2
<1>5. QED
  BY <1>3, <1>4

-----------------------------------------------------------------------------
(* Sums over the moments of a time. *)
LEMMA TotalSpan ==
    ASSUME NEW f, NEW t \in Nat, NEW u \in Int, \A x \in t..u : f[x] \in Nat
    PROVE  /\ IsFiniteSet(t..u) /\ Total(f, t..u) \in Nat
           /\ u < t => Total(f, t..u) = 0
           /\ t <= u => Total(f, t..u) = Total(f, t..(u - 1)) + f[u]
           /\ \A v \in t..(u + 1) : Total(f, t..u) = Total(f, t..(v - 1)) + Total(f, v..u)
<1>1. IsFiniteSet(t..u)
  BY FS_Interval
<1>2. Total(f, t..u) \in Nat
  BY <1>1, TotalNat
<1>3. u < t => t..u = {}
  OBVIOUS
<1>4. ASSUME t <= u PROVE Total(f, t..u) = Total(f, t..(u - 1)) + f[u]
  <2> DEFINE S == t..(u - 1)
  <2>1. IsFiniteSet(S) /\ u \notin S /\ t..u = S \cup {u} /\ \A x \in S \cup {u} : f[x] \in Int
    BY <1>4, FS_Interval
  <2> HIDE DEF S
  <2>2. Total(f, S \cup {u}) = Total(f, S) + f[u]
    BY <2>1, TotalAdd
  <2>3. QED
    BY <2>1, <2>2 DEF S
<1>5. ASSUME NEW v \in t..(u + 1) PROVE Total(f, t..u) = Total(f, t..(v - 1)) + Total(f, v..u)
  <2> DEFINE R == t..(v - 1)
  <2> DEFINE S == v..u
  <2>1. /\ IsFiniteSet(R) /\ IsFiniteSet(S) /\ R \cap S = {} /\ t..u = R \cup S
        /\ \A x \in R \cup S : f[x] \in Int
    BY <1>5, FS_Interval
  <2> HIDE DEF R, S
  <2>2. Total(f, R \cup S) = Total(f, R) + Total(f, S)
    BY <2>1, TotalUnion
  <2>3. QED
    BY <2>1, <2>2 DEF R, S
<1>6. QED
  BY <1>1, <1>2, <1>3, <1>4, <1>5, TotalSteps
=============================================================================
