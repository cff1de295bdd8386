--------------------------- MODULE ResilienceProofs ---------------------------
(***************************************************************************)
(* What stands between the requests and the services keeps its promises    *)
(* for any callers, thresholds, times and lists: the circuit breaker, the  *)
(* adaptive one, the gateway, the middleware, the balancers, and the       *)
(* clients of Nacos.                                                       *)
(***************************************************************************)
EXTENDS MCResilience, FiniteSetTheorems, SequenceTheorems, Totals, TLAPS

-----------------------------------------------------------------------------
(* Lists of instances.  There is an increasing list of any finite set of    *)
(* numbers, and each of them is in it once.                                 *)
Increasing(U) ==
    {list \in [1..Cardinality(U) -> U] : \A j, k \in 1..Cardinality(U) : j < k => list[j] < list[k]}

LEMMA Finitely == ASSUME NEW n \in Nat, NEW U \in SUBSET (1..n) PROVE IsFiniteSet(U) /\ Cardinality(U) \in 0..n
<1>1. IsFiniteSet(1..n) /\ Cardinality(1..n) = n
  BY FS_Interval
<1>2. IsFiniteSet(U) /\ Cardinality(U) <= n
  BY <1>1, FS_Subset
<1>3. Cardinality(U) \in Nat
  BY <1>2, FS_CardinalityType
<1>4. QED
  BY <1>2, <1>3

LEMMA ListExists == ASSUME NEW n \in Nat, NEW U \in SUBSET (1..n) PROVE Increasing(U) # {}
<1> DEFINE T == {m \in Nat : \A V \in SUBSET (1..m) : Increasing(V) # {}}
<1>1. 0 \in T
  <2>1. ASSUME NEW V \in SUBSET (1..0) PROVE Increasing(V) # {}
    <3>1. V = {}
      OBVIOUS
    <3>5. Cardinality(V) = 0
      BY <3>1, FS_EmptySet
    <3>2. [j \in 1..0 |-> 0] \in Increasing(V)
      BY <3>5, <3>1 DEF Increasing
    <3>3. QED
      BY <3>2
  <2>2. QED
    BY <2>1
<1>2. ASSUME NEW m \in Nat, m \in T PROVE m + 1 \in T
  <2>1. ASSUME NEW V \in SUBSET (1..(m + 1)) PROVE Increasing(V) # {}
    <3>1. CASE m + 1 \notin V
      <4>1. V \in SUBSET (1..m)
        BY <3>1
      <4>2. QED
        BY <1>2, <4>1
    <3>2. CASE m + 1 \in V
      <4> DEFINE R == V \ {m + 1}
      <4> DEFINE c == Cardinality(R)
      <4>1. R \in SUBSET (1..m)
        OBVIOUS
      <4>2. /\ IsFiniteSet(R) /\ c \in Nat /\ m + 1 \notin R /\ V = R \cup {m + 1}
            /\ Cardinality(V) = c + 1
        <5>1. IsFiniteSet(R) /\ c \in Nat /\ m + 1 \notin R /\ V = R \cup {m + 1}
          BY <3>2, <4>1, Finitely
        <5>2. QED
          BY <5>1, FS_AddElement
      <4>3. PICK list : list \in Increasing(R)
        BY <1>2, <4>1
      <4>4. list \in [1..c -> R] /\ \A j, k \in 1..c : j < k => list[j] < list[k]
        BY <4>3 DEF Increasing
      <4> DEFINE new == [j \in 1..(c + 1) |-> IF j = c + 1 THEN m + 1 ELSE list[j]]
      <4> HIDE DEF c
      <4>5. new \in [1..(c + 1) -> V]
        BY <4>2, <4>4
      <4>6. ASSUME NEW j \in 1..(c + 1), NEW k \in 1..(c + 1), j < k PROVE new[j] < new[k]
        <5>1. j \in 1..c /\ list[j] \in R /\ list[j] \in 1..m
          <6>1. c \in Nat /\ j < k
            BY <4>2, <4>6
          <6>2. j \in 1..c
            BY <6>1
          <6>3. list[j] \in R
            BY <4>4, <6>2
          <6>4. QED
            BY <4>1, <6>2, <6>3
        <5>2. CASE k = c + 1
          BY <5>1, <5>2, <4>2, <4>6
        <5>3. CASE k # c + 1
          <6>1. k \in 1..c
            BY <4>2, <5>3
          <6>2. list[j] < list[k]
            BY <4>4, <4>6, <5>1, <6>1
          <6>3. j # c + 1
            BY <4>2, <5>1
          <6>4. QED
            BY <5>3, <6>2, <6>3
        <5>4. QED
          BY <5>2, <5>3
      <4>7. new \in Increasing(V)
        BY <4>2, <4>5, <4>6 DEF Increasing
      <4>8. QED
        BY <4>7
    <3>3. QED
      BY <3>1, <3>2
  <2>2. QED
    BY <2>1
<1> HIDE DEF T
<1>3. n \in T
  BY <1>1, <1>2, Induction
<1>4. QED
  BY <1>3 DEF T

IsList(n, U, list) == n \in Nat /\ U \in SUBSET (1..n) /\ list \in Increasing(U)

LEMMA ListOnce ==
    ASSUME NEW n, NEW U, NEW list, IsList(n, U, list)
    PROVE  /\ list \in [1..Cardinality(U) -> U]
           /\ \A j, k \in 1..Cardinality(U) : list[j] = list[k] => j = k
           /\ \A i \in U : \E j \in 1..Cardinality(U) : list[j] = i
<1> DEFINE c == Cardinality(U)
<1>9. n \in Nat /\ U \in SUBSET (1..n) /\ list \in Increasing(U)
  BY DEF IsList
<1>1. IsFiniteSet(U) /\ c \in Nat
  BY <1>9, Finitely
<1>2. list \in [1..c -> U] /\ \A j, k \in 1..c : j < k => list[j] < list[k]
  BY <1>9 DEF Increasing
<1>3. Cardinality(1..c) = c
  BY <1>1, FS_Interval
<1> HIDE DEF c
<1>4. ASSUME NEW j \in 1..c, NEW k \in 1..c, list[j] = list[k] PROVE j = k
  <2>1. list[j] \in Int /\ j \in Int /\ k \in Int
    <3>1. list[j] \in U
      BY <1>2
    <3>2. list[j] \in 1..n
      BY <1>9, <3>1
    <3>3. QED
      BY <1>1, <1>9, <3>2
  <2>2. ~(j < k) /\ ~(k < j)
    BY <1>2, <1>4, <2>1
  <2>3. QED
    BY <2>1, <2>2
<1>5. list \in Injection(1..c, U)
  BY <1>2, <1>4 DEF Injection, IsInjective
<1>6. list \in Surjection(1..c, U)
  BY <1>1, <1>3, <1>5, FS_Injection DEF c
<1>7. \A i \in U : \E j \in 1..c : list[j] = i
  BY <1>6 DEF Surjection
<1>8. QED
  BY <1>2, <1>4, <1>7 DEF c

(* What the instances have is what the places of their list have. *)
LEMMA ListTotal ==
    ASSUME NEW n \in Nat, NEW U \in SUBSET (1..n), NEW list \in Increasing(U), NEW f, \A i \in U : f[i] \in Int,
           NEW g, \A j \in 1..Cardinality(U) : g[j] = f[list[j]]
    PROVE  Total(g, 1..Cardinality(U)) = Total(f, U)
<1> DEFINE c == Cardinality(U)
<1> DEFINE Of(s) == {list[j] : j \in s}
<1> DEFINE G == {s \in SUBSET (1..c) : Total(g, s) = Total(f, Of(s))}
<1>1. IsFiniteSet(U) /\ c \in Nat
  BY Finitely
<1>2. /\ list \in [1..c -> U]
      /\ \A j, k \in 1..c : list[j] = list[k] => j = k
      /\ \A i \in U : \E j \in 1..c : list[j] = i
  <2>1. IsList(n, U, list)
    BY DEF IsList
  <2>2. QED
    BY <2>1, ListOnce, SMTT(60)
<1>4. \A j \in 1..c : g[j] = f[list[j]]
  OBVIOUS
<1> HIDE DEF c
<1>3. IsFiniteSet(1..c)
  BY <1>1, FS_Interval
<1>5. {} \in G
  BY TotalSteps
<1>6. ASSUME NEW s \in SUBSET (1..c), NEW x \in (1..c) \ s, s \in G PROVE s \cup {x} \in G
  <2> DEFINE R == Of(s)
  <2>1. IsFiniteSet(s) /\ x \notin s /\ \A y \in s \cup {x} : g[y] \in Int
    <3>1. \A y \in 1..c : g[y] \in Int
      BY <1>2, <1>4
    <3>2. QED
      BY <1>3, <3>1, FS_Subset
  <2>2. R \in SUBSET U /\ list[x] \notin R /\ Of(s \cup {x}) = R \cup {list[x]}
    BY <1>2
  <2>3. IsFiniteSet(R) /\ \A y \in R \cup {list[x]} : f[y] \in Int
    BY <1>1, <1>2, <2>2, FS_Subset
  <2>4. Total(g, s) = Total(f, R)
    BY <1>6
  <2> HIDE DEF R
  <2>5. Total(g, s \cup {x}) = Total(g, s) + g[x] /\ Total(g, s) \in Int
    BY <2>1, TotalAdd
  <2> DEFINE i == list[x]
  <2>8. IsFiniteSet(R) /\ i \notin R /\ \A y \in R \cup {i} : f[y] \in Int
    BY <2>2, <2>3
  <2> HIDE DEF i
  <2>9. Total(f, R \cup {i}) = Total(f, R) + f[i] /\ Total(f, R) \in Int
    BY <2>8, TotalAdd
  <2>6. Total(f, R \cup {list[x]}) = Total(f, R) + f[list[x]]
    BY <2>9 DEF i
  <2>7. QED
    BY <1>4, <2>2, <2>4, <2>5, <2>6
<1>7. Of(1..c) = U
  <2>1. ASSUME NEW i \in U PROVE i \in Of(1..c)
    <3>1. PICK j \in 1..c : list[j] = i
      BY <1>2
    <3>2. QED
      BY <3>1
  <2>2. ASSUME NEW i \in Of(1..c) PROVE i \in U
    BY <1>2
  <2>3. QED
    BY <2>1, <2>2
<1> HIDE DEF G
<1>8. 1..c \in G
  BY <1>3, <1>5, <1>6, Growing
<1>9. QED
  BY <1>7, <1>8 DEF G, c

-----------------------------------------------------------------------------
(* One selection by smooth weights: everybody is raised by its weight, and  *)
(* the highest pays the weights of all.  The weights still add up to        *)
(* nothing, and nobody falls a whole selection below.                       *)
Smooth(n, w, old, new, best, all) ==
    /\ n \in Nat \ {0} /\ w \in [1..n -> Nat] /\ old \in [1..n -> Int] /\ best \in 1..n
    /\ all = Total(w, 1..n) /\ all > 0 /\ Total(old, 1..n) = 0
    /\ \A k \in 1..n : old[k] + w[k] <= old[best] + w[best]
    /\ new \in [1..n -> Int] /\ new[best] = old[best] + w[best] - all
    /\ \A j \in (1..n) \ {best} : new[j] = old[j] + w[j]

LEMMA SmoothSelection ==
    ASSUME NEW n, NEW w, NEW old, NEW new, NEW best, NEW all, Smooth(n, w, old, new, best, all)
    PROVE  /\ Total(new, 1..n) = 0 /\ all \in Nat
           /\ (\A j \in 1..n : -all < old[j]) => \A j \in 1..n : -all < new[j]
<1> DEFINE raised == [j \in 1..n |-> old[j] + w[j]]
<1>1. /\ n \in Nat \ {0} /\ w \in [1..n -> Nat] /\ old \in [1..n -> Int] /\ best \in 1..n
      /\ all = Total(w, 1..n) /\ all > 0 /\ Total(old, 1..n) = 0
      /\ \A k \in 1..n : old[k] + w[k] <= old[best] + w[best]
      /\ new \in [1..n -> Int] /\ new[best] = old[best] + w[best] - all
      /\ \A j \in (1..n) \ {best} : new[j] = old[j] + w[j]
  BY DEF Smooth
<1>2. IsFiniteSet(1..n)
  BY <1>1, FS_Interval
<1>3. all \in Nat
  BY <1>1, <1>2, TotalNat
<1>4. raised \in [1..n -> Int] /\ \A j \in 1..n : raised[j] = old[j] + w[j]
  BY <1>1, SMTT(60)
<1>5. Total(raised, 1..n) = all
  <2> HIDE DEF raised
  <2>1. ASSUME NEW x \in 1..n PROVE old[x] \in Int /\ w[x] \in Int /\ raised[x] = old[x] + w[x]
    <3>1. old[x] \in Int
      BY <1>1
    <3>2. w[x] \in Nat
      BY <1>1
    <3>3. QED
      BY <1>4, <3>1, <3>2
  <2>2. Total(raised, 1..n) = Total(old, 1..n) + Total(w, 1..n)
    BY <1>2, <2>1, TotalPlus
  <2>3. QED
    BY <1>1, <1>3, <2>2
<1>6. Total(new, 1..n) = 0
  <2>1. /\ \A y \in 1..n : raised[y] \in Int /\ new[y] \in Int
        /\ \A y \in (1..n) \ {best} : new[y] = raised[y]
        /\ new[best] = raised[best] - all
    <3> HIDE DEF raised
    <3>1. \A y \in 1..n : raised[y] \in Int /\ new[y] \in Int
      BY <1>1, <1>4
    <3>2. \A y \in (1..n) \ {best} : new[y] = raised[y]
      BY <1>1, <1>4
    <3>3. raised[best] = old[best] + w[best]
      BY <1>1, <1>4
    <3>4. QED
      BY <1>1, <1>3, <3>1, <3>2, <3>3
  <2> HIDE DEF raised
  <2>2. Total(new, 1..n) = Total(raised, 1..n) + new[best] - raised[best]
    <3> DEFINE S == 1..n
    <3>1. /\ IsFiniteSet(S) /\ best \in S /\ \A y \in S : raised[y] \in Int /\ new[y] \in Int
          /\ \A y \in S \ {best} : new[y] = raised[y]
      BY <1>1, <1>2, <2>1
    <3> HIDE DEF S
    <3>2. Total(new, S) = Total(raised, S) + new[best] - raised[best]
      BY <3>1, TotalChange
    <3>3. QED
      BY <3>2 DEF S
  <2>3. QED
    <3>1. new[best] = raised[best] - all /\ raised[best] \in Int
      BY <1>1, <2>1
    <3>2. QED
      BY <1>3, <1>5, <2>2, <3>1
<1>7. raised[best] > 0
  <2>1. SUFFICES ASSUME ~(raised[best] > 0) PROVE FALSE
    OBVIOUS
  <2> DEFINE zero == [j \in 1..n |-> 0]
  <2>2. \A x \in 1..n : raised[x] \in Int /\ zero[x] \in Int /\ raised[x] <= zero[x]
    <3> HIDE DEF raised
    <3>1. ASSUME NEW x \in 1..n PROVE raised[x] \in Int /\ zero[x] = 0 /\ raised[x] <= 0
      <4>1. raised[x] \in Int /\ raised[best] \in Int
        BY <1>1, <1>4
      <4>2. raised[x] <= raised[best]
        BY <1>1, <1>4
      <4>3. QED
        BY <2>1, <4>1, <4>2
    <3>2. QED
      BY <3>1
  <2>3. Total(zero, 1..n) = 0
    BY <1>2, TotalZero
  <2> HIDE DEF zero, raised
  <2>4. Total(raised, 1..n) <= Total(zero, 1..n)
    BY <1>2, <2>2, TotalOrder
  <2>5. QED
    BY <1>1, <1>3, <1>5, <2>3, <2>4
<1>8. ASSUME \A j \in 1..n : -all < old[j], NEW j \in 1..n PROVE -all < new[j]
  <2>1. CASE j = best
    <3> HIDE DEF raised
    <3>1. raised[best] = old[best] + w[best] /\ raised[best] \in Int
      BY <1>1, <1>4
    <3>3. new[j] = raised[best] - all
      BY <1>1, <1>3, <2>1, <3>1, SMTT(60)
    <3>2. QED
      BY <1>3, <1>7, <3>1, <3>3
  <2>2. CASE j # best
    <3>1. new[j] = old[j] + w[j] /\ old[j] \in Int /\ w[j] \in Nat /\ -all < old[j]
      BY <1>1, <1>8, <2>2
    <3>2. QED
      BY <1>3, <3>1
  <2>3. QED
    BY <2>1, <2>2
<1>9. QED
  BY <1>3, <1>6, <1>8

(* What is due to each after so many turns, of which it had some.  After as *)
(* many turns as the weights of all, it had as many as its weight.          *)
Due(n, w, cur, had, turn, all) ==
    /\ n \in Nat /\ w \in [1..n -> Nat] /\ cur \in [1..n -> Int] /\ had \in [1..n -> Nat]
    /\ all \in Nat \ {0} /\ turn \in Nat /\ Total(cur, 1..n) = 0
    /\ \A j \in 1..n : cur[j] = turn * w[j] - had[j] * all /\ -all < cur[j]

LEMMA RoundEnds ==
    ASSUME NEW n, NEW w, NEW cur, NEW had, NEW turn, NEW all, Due(n, w, cur, had, turn, all), turn = all
    PROVE  \A j \in 1..n : had[j] = w[j] /\ cur[j] = 0
<1>1. /\ n \in Nat /\ w \in [1..n -> Nat] /\ cur \in [1..n -> Int] /\ had \in [1..n -> Nat]
      /\ all \in Nat \ {0} /\ Total(cur, 1..n) = 0
      /\ \A j \in 1..n : cur[j] = all * w[j] - had[j] * all /\ -all < cur[j]
  BY DEF Due
<1>2. ASSUME NEW j \in 1..n
      PROVE  \E d \in Nat : w[j] = had[j] + d /\ cur[j] = all * d
  <2> DEFINE a == w[j]
  <2> DEFINE b == had[j]
  <2>1. a \in Nat /\ b \in Nat /\ cur[j] = all * a - b * all /\ -all < cur[j]
    BY <1>1
  <2> HIDE DEF a, b
  <2>2. cur[j] = all * (a - b)
    <3>1. all \in Int /\ a \in Int /\ b \in Int
      BY <1>1, <2>1
    <3>2. all * (a - b) = all * a - b * all
      BY <3>1, Z3
    <3>3. QED
      BY <2>1, <3>2
  <2>3. a - b \in Nat
    <3>1. SUFFICES ASSUME a - b <= -1 PROVE FALSE
      BY <2>1
    <3>2. all * (a - b) <= all * (-1)
      BY <1>1, <2>1, <3>1, ProductGrows
    <3>3. all * (-1) = -all
      BY <1>1
    <3>4. QED
      BY <1>1, <2>1, <2>2, <3>2, <3>3
  <2>4. QED
    BY <2>1, <2>2, <2>3 DEF a, b
<1>3. \A j \in 1..n : cur[j] \in Nat
  <2>1. ASSUME NEW j \in 1..n PROVE cur[j] \in Nat
    <3>1. PICK d \in Nat : cur[j] = all * d
      BY <1>2
    <3>2. QED
      BY <1>1, <3>1
  <2>2. QED
    BY <2>1
<1>4. IsFiniteSet(1..n)
  BY <1>1, FS_Interval
<1>5. \A j \in 1..n : cur[j] <= Total(cur, 1..n)
  BY <1>3, <1>4, TotalNat
<1>6. ASSUME NEW j \in 1..n PROVE had[j] = w[j] /\ cur[j] = 0
  <2>1. cur[j] = 0
    BY <1>1, <1>3, <1>5, SMTT(60)
  <2>2. PICK d \in Nat : w[j] = had[j] + d /\ cur[j] = all * d
    BY <1>2
  <2>3. d = 0
    <3>1. SUFFICES ASSUME 1 <= d PROVE FALSE
      BY <2>2
    <3>2. all * 1 <= all * d
      BY <1>1, <2>2, <3>1, ProductGrows
    <3>3. QED
      BY <1>1, <2>1, <2>2, <3>2
  <2>4. had[j] \in Nat
    BY <1>1
  <2>5. QED
    BY <2>1, <2>2, <2>3, <2>4
<1>7. QED
  BY <1>6

(* Nobody is behind by more than the others can be ahead. *)
LEMMA DueBounded ==
    ASSUME NEW n, NEW w, NEW cur, NEW had, NEW turn, NEW all, Due(n, w, cur, had, turn, all), NEW j \in 1..n
    PROVE  cur[j] <= (n - 1) * (all - 1)
<1>1. /\ n \in Nat /\ cur \in [1..n -> Int] /\ all \in Nat \ {0} /\ Total(cur, 1..n) = 0
      /\ \A k \in 1..n : -all < cur[k]
  BY DEF Due
<1> DEFINE S == (1..n) \ {j}
<1>2. IsFiniteSet(1..n) /\ Cardinality(1..n) = n
  BY <1>1, FS_Interval
<1>3. IsFiniteSet(S) /\ Cardinality(S) = n - 1
  BY <1>2, FS_RemoveElement
<1>4. Total(cur, 1..n) = cur[j] + Total(cur, S) /\ Total(cur, S) \in Int
  <2>1. \A x \in 1..n : cur[x] \in Int
    BY <1>1
  <2>2. Total(cur, 1..n) = cur[j] + Total(cur, S)
    BY <1>2, <2>1, TotalRemove
  <2>3. Total(cur, S) \in Int
    BY <1>3, <2>1, TotalRemove
  <2>4. QED
    BY <2>2, <2>3
<1> DEFINE b == 1 - all
<1>5. b \in Int /\ \A x \in S : cur[x] \in Int /\ b <= cur[x]
  BY <1>1
<1> HIDE DEF b, S
<1>6. Total(cur, S) >= b * (n - 1)
  BY <1>3, <1>5, TotalFloor
<1>7. b * (n - 1) = -((n - 1) * (all - 1))
  <2>1. all \in Int /\ n \in Int
    BY <1>1
  <2>2. (1 - all) * (n - 1) = -((n - 1) * (all - 1))
    BY <2>1, Z3
  <2>3. QED
    BY <2>2 DEF b
<1>8. cur[j] \in Int /\ (n - 1) * (all - 1) \in Int
  BY <1>1
<1>9. QED
  BY <1>1, <1>4, <1>6, <1>7, <1>8

(* How many selections ago the place j of a list of n was picked, if place  *)
(* last was picked last and one after the other before it; and a round in   *)
(* which the places picked within so many turns have had one each.          *)
Back(n, last, j) == IF j - 1 <= last THEN last - (j - 1) ELSE last + n - (j - 1)
InTurn(n, last, turn, had) ==
    \A j \in 1..n : had[j] = IF Back(n, last, j) < turn THEN 1 ELSE 0

(* The next in turn begins another round, or had nothing in this one. *)
LEMMA NextInTurn ==
    ASSUME NEW n \in Nat \ {0}, NEW last \in 0..n - 1, NEW next \in 0..n - 1,
           next = IF last = n - 1 THEN 0 ELSE last + 1,
           NEW turn \in 0..n, NEW had, NEW new,
           IF turn = 0 THEN \A j \in 1..n : had[j] = 0 ELSE InTurn(n, last, turn, had),
           \A j \in 1..n : new[j] = (IF turn = n THEN 0 ELSE had[j]) + (IF j = next + 1 THEN 1 ELSE 0)
    PROVE  InTurn(n, next, IF turn = n THEN 1 ELSE turn + 1, new)
<1> SUFFICES ASSUME NEW j \in 1..n
             PROVE  new[j] = IF Back(n, next, j) < (IF turn = n THEN 1 ELSE turn + 1) THEN 1 ELSE 0
  BY DEF InTurn
<1> DEFINE b == Back(n, last, j)
<1> DEFINE c == Back(n, next, j)
<1>1. /\ b \in 0..n - 1 /\ c \in 0..n - 1
      /\ IF j = next + 1 THEN b = n - 1 /\ c = 0 ELSE c = b + 1
  BY DEF Back
<1>2. turn # 0 => had[j] = IF b < turn THEN 1 ELSE 0
  BY DEF InTurn
<1>3. turn = 0 => had[j] = 0
  OBVIOUS
<1>4. new[j] = (IF turn = n THEN 0 ELSE had[j]) + (IF j = next + 1 THEN 1 ELSE 0)
  OBVIOUS
<1> HIDE DEF b, c
<1>5. new[j] = IF c < (IF turn = n THEN 1 ELSE turn + 1) THEN 1 ELSE 0
  <2>1. CASE turn = n
    BY <1>1, <1>4, <2>1
  <2>2. CASE turn = 0 /\ turn # n
    BY <1>1, <1>3, <1>4, <2>2
  <2>3. CASE turn # 0 /\ turn # n
    BY <1>1, <1>2, <1>4, <2>3
  <2>4. QED
    BY <2>1, <2>2, <2>3
<1>6. QED
  BY <1>5 DEF c

-----------------------------------------------------------------------------
(* The circuit breaker. *)
USE CallersAssumption, MaxFailuresAssumption, ResetTimeoutAssumption

(* The breaker's own steps keep its types. *)
LEMMA BreakerStep == ASSUME TypeOK, [Next]_vars PROVE TypeOK'
<1> USE DEF TypeOK, cbVars, AtMost, FailureForgotten
<1>1. ASSUME NEW c \in Callers, Invoke(c) PROVE TypeOK'
  BY <1>1 DEF Invoke
<1>2. ASSUME NEW c \in Callers, Reject(c) PROVE TypeOK'
  BY <1>2 DEF Reject
<1>3. ASSUME NEW c \in Callers, Admit(c) PROVE TypeOK'
  BY <1>3 DEF Admit
<1>4. ASSUME NEW c \in Callers, Succeed(c) PROVE TypeOK'
  BY <1>4 DEF Succeed
<1>5. ASSUME NEW c \in Callers, Fail(c) PROVE TypeOK'
  BY <1>5 DEF Fail, Streak
<1>6. ASSUME NEW c \in Callers, Panic(c) PROVE TypeOK'
  BY <1>6 DEF Panic
<1>7. CASE Reset
  BY <1>7 DEF Reset
<1>8. CASE Cleanup
  BY <1>8 DEF Cleanup
<1>9. CASE Tick
  BY <1>9 DEF Tick
<1>10. CASE UNCHANGED vars
  BY <1>10 DEF vars
<1>11. QED
  BY <1>1, <1>2, <1>3, <1>4, <1>5, <1>6, <1>7, <1>8, <1>9, <1>10 DEF Next

(* The breaker's variables keep their types. *)
THEOREM TypeCorrect == Spec => []TypeOK
<1>1. Init => TypeOK
  BY DEF Init, TypeOK, FailureForgotten
<1>2. QED
  BY <1>1, BreakerStep, PTL DEF Spec

(* What the trip logic rests on: a closed breaker is below its threshold   *)
(* and its counter covers the streak, unless the streak is old enough for  *)
(* the cleanup goroutine to have forgotten it.                             *)
CountCoversStreak ==
    state = "Closed" =>
        /\ failureCount < MaxFailures
        /\ streak < MaxFailures
        /\ streak <= failureCount \/ sinceFailure = FailureForgotten

(* A closed breaker has seen fewer than MaxFailures failures in a row,     *)
(* whatever the cleanup goroutine did meanwhile (breaker.go:90-121).       *)
THEOREM OutageTrips == Spec => []TripsOnOutage
<1>1. Init => CountCoversStreak
  BY DEF Init, CountCoversStreak, FailureForgotten
<1>2. TypeOK /\ CountCoversStreak /\ [Next]_vars => CountCoversStreak'
  <2> SUFFICES ASSUME TypeOK, CountCoversStreak, [Next]_vars
               PROVE  CountCoversStreak'
    OBVIOUS
  <2> USE DEF TypeOK, CountCoversStreak, cbVars, AtMost, FailureForgotten
  <2>1. ASSUME NEW c \in Callers, Invoke(c) PROVE CountCoversStreak'
    BY <2>1 DEF Invoke
  <2>2. ASSUME NEW c \in Callers, Reject(c) PROVE CountCoversStreak'
    BY <2>2 DEF Reject
  <2>3. ASSUME NEW c \in Callers, Admit(c) PROVE CountCoversStreak'
    BY <2>3 DEF Admit
  <2>4. ASSUME NEW c \in Callers, Succeed(c) PROVE CountCoversStreak'
    BY <2>4 DEF Succeed
  <2>5. ASSUME NEW c \in Callers, Fail(c) PROVE CountCoversStreak'
    BY <2>5 DEF Fail, Streak
  <2>6. ASSUME NEW c \in Callers, Panic(c) PROVE CountCoversStreak'
    BY <2>6 DEF Panic
  <2>7. CASE Reset
    BY <2>7 DEF Reset
  <2>8. CASE Cleanup
    BY <2>8 DEF Cleanup
  <2>9. CASE Tick
    BY <2>9 DEF Tick
  <2>10. CASE UNCHANGED vars
    BY <2>10 DEF vars
  <2>11. QED
    BY <2>1, <2>2, <2>3, <2>4, <2>5, <2>6, <2>7, <2>8, <2>9, <2>10 DEF Next
<1>3. CountCoversStreak => TripsOnOutage
  BY DEF CountCoversStreak, TripsOnOutage
<1>4. QED
  BY <1>1, <1>2, <1>3, TypeCorrect, PTL DEF Spec

(* The mutex admits nobody while the breaker is open. *)
IdleWhenOpen == state = "Open" => Running = {}

(* An operation that runs has the mutex, and only one is. *)
OneUnderMutex ==
    /\ Serialised
    /\ IdleWhenOpen
    /\ mu = "free" => Running = {}

(* cb.mu is held from the decision to the recorded outcome. *)
LEMMA MutexInvariant == Spec => []OneUnderMutex
<1>1. Init => OneUnderMutex
  BY DEF Init, OneUnderMutex, Serialised, IdleWhenOpen, Running
<1>2. TypeOK /\ OneUnderMutex /\ [Next]_vars => OneUnderMutex'
  <2> SUFFICES ASSUME TypeOK, OneUnderMutex, [Next]_vars
               PROVE  OneUnderMutex'
    OBVIOUS
  <2> USE DEF TypeOK, OneUnderMutex, Serialised, IdleWhenOpen, Running, cbVars
  <2>1. ASSUME NEW c \in Callers, Invoke(c) PROVE OneUnderMutex'
    BY <2>1 DEF Invoke
  <2>2. ASSUME NEW c \in Callers, Reject(c) PROVE OneUnderMutex'
    BY <2>2 DEF Reject
  <2>3. ASSUME NEW c \in Callers, Admit(c) PROVE OneUnderMutex'
    BY <2>3 DEF Admit
  <2>4. ASSUME NEW c \in Callers, Succeed(c) PROVE OneUnderMutex'
    BY <2>4 DEF Succeed
  <2>5. ASSUME NEW c \in Callers, Fail(c) PROVE OneUnderMutex'
    BY <2>5 DEF Fail
  <2>6. ASSUME NEW c \in Callers, Panic(c) PROVE OneUnderMutex'
    BY <2>6 DEF Panic
  <2>7. CASE Reset
    BY <2>7 DEF Reset
  <2>8. CASE Cleanup
    BY <2>8 DEF Cleanup
  <2>9. CASE Tick
    BY <2>9 DEF Tick
  <2>10. CASE UNCHANGED vars
    BY <2>10 DEF vars
  <2>11. QED
    BY <2>1, <2>2, <2>3, <2>4, <2>5, <2>6, <2>7, <2>8, <2>9, <2>10 DEF Next
<1>3. QED
  BY <1>1, <1>2, TypeCorrect, PTL DEF Spec

(* The mutex serialises the operations and none runs while the breaker is  *)
(* open (breaker.go:47-80): an invariant of every execution.               *)
THEOREM OperationsSerialised == Spec => [](Serialised /\ IdleWhenOpen)
  BY MutexInvariant, PTL DEF OneUnderMutex

(* While the breaker is open and the reset timeout has not passed, the     *)
(* failing service is left alone (breaker.go:51-66).                       *)
THEOREM OpenShedsLoad == Spec => ShedsLoad
<1>1. TypeOK /\ OneUnderMutex /\ [Next]_vars
        => [state = "Open" /\ sinceChange < ResetTimeout
              => Running = {} /\ Running' = {}]_vars
  BY DEF OneUnderMutex, IdleWhenOpen, TypeOK, Running, Next, Invoke, Reject, Admit, TimedOut,
         Succeed, Fail, Panic, Reset, Cleanup, Tick, vars, cbVars
<1>2. QED
  BY <1>1, TypeCorrect, MutexInvariant, PTL DEF Spec, ShedsLoad

-----------------------------------------------------------------------------
(* The gateway: a request that waits has cost the backend nothing, one     *)
(* that runs has an attempt left, and neither has an answer.               *)
AnswerComes == \A c \in Callers :
    /\ call[c] # "idle" => answer[c] = "none"
    /\ call[c] = "waiting" => tried[c] = 0
    /\ call[c] = "running" => tried[c] <= RetryCount

GatewayInv == TypeOK /\ GatewayTypeOK /\ AnswerComes /\ AnswerFits

(* A step of the gateway, whose breaker nobody resets. *)
LEMMA GatewayStep == ASSUME GatewayInv, [GatewayNext]_gatewayVars PROVE GatewayInv'
<1> USE ResilienceAssumption DEF GatewayInv, TypeOK, GatewayTypeOK, AnswerComes, AnswerFits, Answer, Attempted
<1>1. ASSUME NEW c \in Callers, Pass(c) PROVE GatewayInv'
  <2>1. TypeOK'
    BY <1>1, BreakerStep DEF Pass, Next
  <2>2. QED
    BY <1>1, <2>1 DEF Pass, Invoke
<1>2. ASSUME NEW c \in Callers, Limited(c) PROVE GatewayInv'
  BY <1>2 DEF Limited, vars, cbVars, limiterVars
<1>3. ASSUME NEW c \in Callers, Refuse(c) PROVE GatewayInv'
  <2>1. TypeOK'
    BY <1>3, BreakerStep DEF Refuse, Next
  <2>2. QED
    BY <1>3, <2>1 DEF Refuse, Reject, limiterVars
<1>4. ASSUME NEW c \in Callers, Begin(c) PROVE GatewayInv'
  <2>1. TypeOK'
    BY <1>4, BreakerStep DEF Begin, Next
  <2>2. QED
    BY <1>4, <2>1 DEF Begin, Admit, limiterVars, requestVars
<1>5. ASSUME NEW c \in Callers, TryFails(c) PROVE GatewayInv'
  BY <1>5 DEF TryFails, IsLast, vars, cbVars, limiterVars
<1>6. ASSUME NEW c \in Callers, Exhausted(c) PROVE GatewayInv'
  <2>1. TypeOK'
    BY <1>6, BreakerStep DEF Exhausted, Next
  <2>2. QED
    BY <1>6, <2>1 DEF Exhausted, IsLast, Fail, limiterVars
<1>7. ASSUME NEW c \in Callers, Served(c) PROVE GatewayInv'
  <2>1. TypeOK'
    BY <1>7, BreakerStep DEF Served, Next
  <2>2. QED
    BY <1>7, <2>1 DEF Served, Succeed, limiterVars
<1>8. ASSUME NEW c \in Callers, Aborted(c) PROVE GatewayInv'
  <2>1. TypeOK'
    BY <1>8, BreakerStep DEF Aborted, Next
  <2>2. QED
    BY <1>8, <2>1 DEF Aborted, Panic, limiterVars
<1>9. CASE BeginRefill \/ Refill
  BY <1>9 DEF BeginRefill, Refill, vars, cbVars, requestVars
<1>10. CASE (Cleanup \/ Tick) /\ UNCHANGED <<limiterVars, requestVars>>
  <2>1. TypeOK'
    BY <1>10, BreakerStep DEF Next
  <2>2. QED
    BY <1>10, <2>1 DEF Cleanup, Tick, limiterVars, requestVars
<1>11. CASE UNCHANGED gatewayVars
  BY <1>11 DEF gatewayVars, vars, cbVars, limiterVars, requestVars
<1>12. QED
  BY <1>1, <1>2, <1>3, <1>4, <1>5, <1>6, <1>7, <1>8, <1>9, <1>10, <1>11 DEF GatewayNext, Attempt

-----------------------------------------------------------------------------
(* The middleware: the counter covers the failures in a row, and a breaker *)
(* that closes starts it again.                                            *)
MiddlewareInv ==
    /\ M!TypeOK
    /\ mStreak <= failures
    /\ mState = "closed" => failures < MaxFailures

(* A step of the middleware's breaker. *)
LEMMA MiddlewareStep == ASSUME MiddlewareInv, [M!Next]_(M!vars) PROVE MiddlewareInv'
<1> USE ResilienceAssumption DEF MiddlewareInv, M!TypeOK, M!AtMost, M!Move, M!breakerVars
<1>1. ASSUME NEW r \in Callers, M!ReadState(r) PROVE MiddlewareInv'
  BY <1>1 DEF M!ReadState
<1>2. ASSUME NEW r \in Callers, M!Refuse(r) PROVE MiddlewareInv'
  BY <1>2 DEF M!Refuse
<1>3. ASSUME NEW r \in Callers, M!SleptEnough(r) PROVE MiddlewareInv'
  BY <1>3 DEF M!SleptEnough
<1>4. ASSUME NEW r \in Callers, M!Promote(r) PROVE MiddlewareInv'
  BY <1>4 DEF M!Promote
<1>5. ASSUME NEW r \in Callers, M!Fail(r) PROVE MiddlewareInv'
  BY <1>5 DEF M!Fail, M!CountFailure
<1>6. ASSUME NEW r \in Callers, M!TimeOut(r) PROVE MiddlewareInv'
  BY <1>6 DEF M!TimeOut, M!CountFailure
<1>7. ASSUME NEW r \in Callers, M!Succeed(r) PROVE MiddlewareInv'
  BY <1>7 DEF M!Succeed, M!CountSuccess
<1>8. CASE M!Tick
  BY <1>8 DEF M!Tick
<1>9. CASE UNCHANGED M!vars
  BY <1>9 DEF M!vars
<1>10. QED
  BY <1>1, <1>2, <1>3, <1>4, <1>5, <1>6, <1>7, <1>8, <1>9 DEF M!Next, M!Finish

-----------------------------------------------------------------------------
(* The client of Nacos: the goroutines have ended before Close takes the   *)
(* instance away, and only then is it told that the instance is gone.      *)
NacosInv ==
    /\ Nacos!TypeOK
    /\ owner \in {"removing", "done"} => \A l \in Callers : beat[l] = "off"
    /\ removed => owner = "done" /\ service \notin server
    /\ registered => serviceName \in Names
    /\ owner = "removing" => registered
    /\ owner \in {"answered", "answeredAuto"} => service \in Names

(* A step of the client of Nacos, of its goroutines or of Nacos itself. *)
LEMMA NacosStep == ASSUME NacosInv, [Nacos!Next]_nacosVars PROVE NacosInv'
<1> USE ResilienceAssumption DEF NacosInv, Nacos!TypeOK, Nacos!Goes, Nacos!Request, Nacos!call, Nacos!ending
<1>1. ASSUME NEW n \in Names, Nacos!Register(n) PROVE NacosInv'
  BY <1>1 DEF Nacos!Register
<1>2. ASSUME NEW n \in Names, Nacos!Deregister(n) PROVE NacosInv'
  BY <1>2 DEF Nacos!Deregister
<1>3. ASSUME NEW n \in Names, Nacos!Forget(n) PROVE NacosInv'
  BY <1>3 DEF Nacos!Forget
<1>4. CASE Nacos!EndRegister
  BY <1>4 DEF Nacos!EndRegister, Nacos!StartHeartbeat
<1>5. CASE Nacos!EndDeregister
  BY <1>5 DEF Nacos!EndDeregister
<1>6. CASE Nacos!BeginClose
  BY <1>6 DEF Nacos!BeginClose
<1>7. CASE Nacos!Wait
  BY <1>7 DEF Nacos!Wait
<1>8. CASE Nacos!Remove
  <2>1. PICK ok \in BOOLEAN : /\ Nacos!Request(server \ {service}, ok)
                             /\ registered' = ~ok /\ removed' = ok
    BY <1>8 DEF Nacos!Remove
  <2>2. /\ owner = "removing" /\ owner' = "done"
        /\ UNCHANGED <<serviceName, service, calls, stopped, beat>>
    BY <1>8 DEF Nacos!Remove
  <2>3. CASE ok
    BY <2>1, <2>2, <2>3
  <2>4. CASE ~ok
    BY <2>1, <2>2, <2>4
  <2>5. QED
    BY <2>3, <2>4
<1>9. ASSUME NEW l \in Callers, Nacos!ReadForBeat(l) PROVE NacosInv'
  BY <1>9 DEF Nacos!ReadForBeat
<1>10. ASSUME NEW l \in Callers, Nacos!StopHeartbeat(l) PROVE NacosInv'
  BY <1>10 DEF Nacos!StopHeartbeat
<1>11. ASSUME NEW l \in Callers, NEW got \in BOOLEAN, Nacos!SendHeartbeat(l, got) PROVE NacosInv'
  BY <1>11 DEF Nacos!SendHeartbeat
<1>12. CASE UNCHANGED nacosVars
  BY <1>12 DEF nacosVars
<1>13. QED
  BY <1>1, <1>2, <1>3, <1>4, <1>5, <1>6, <1>7, <1>8, <1>9, <1>10, <1>11, <1>12 DEF Nacos!Next

-----------------------------------------------------------------------------
(* The cache of instances: the age of what is cached is at most the time   *)
(* it has been cached and the time its answer was under way.               *)
DiscoveryInv == Disc!TypeOK /\ (Disc!Fresh => dataAge <= cacheAge + MaxFetch)

(* Cardinality in Discovery and in LoadBalance is that of FiniteSets. *)
LEMMA SameNumber == \A S : Disc!Cardinality(S) = Cardinality(S) /\ B!Cardinality(S) = Cardinality(S)
  BY DEF Disc!Cardinality, B!Cardinality, Cardinality

(* The numbers of instances. *)
LEMMA Numbers == ASSUME NEW S \in SUBSET Instances
                 PROVE  Disc!Cardinality(S) \in 0..Disc!Cardinality(Instances)
<1>1. IsFiniteSet(Instances)
  BY ResilienceAssumption
<1>2. IsFiniteSet(S) /\ Cardinality(S) <= Cardinality(Instances)
  BY <1>1, FS_Subset
<1>3. Cardinality(S) \in Nat /\ Cardinality(Instances) \in Nat
  BY <1>1, <1>2, FS_CardinalityType
<1>4. QED
  BY <1>2, <1>3, SameNumber

(* A step of GetInstances, of the watch loop or of Nacos. *)
LEMMA DiscoveryStep == ASSUME DiscoveryInv, [Disc!Next]_discoveryVars PROVE DiscoveryInv'
<1> USE DEF DiscoveryInv, Disc!TypeOK, Disc!cache, Disc!fetches, Disc!watch, Disc!Fresh,
             Disc!MayAsk, Disc!Oldest, Disc!Lower
<1>1. CacheTime \in Nat /\ WatchTime \in Nat /\ MaxFetch \in Nat
  BY ResilienceAssumption
<1>2. ASSUME NEW S \in SUBSET Instances, NEW a \in Disc!Askers, Disc!Compare(a, S)
      PROVE  /\ loop' \in {"wait", "get"} /\ ticker' \in 0..WatchTime
             /\ lastInstances' \in 0..Disc!Cardinality(Instances)
             /\ notified' \in 0..Disc!Cardinality(Instances)
  BY <1>2, Numbers DEF Disc!Compare
<1>3. ASSUME NEW a \in Disc!Askers, Disc!Fetch(a) PROVE DiscoveryInv'
  BY <1>1, <1>3 DEF Disc!Fetch
<1>4. ASSUME NEW a \in Disc!Askers, Disc!Store(a) PROVE DiscoveryInv'
  <2>1. fetched[a] \in SUBSET Instances /\ fetchAge[a] \in 0..MaxFetch
    BY <1>4 DEF Disc!Store
  <2>2. Disc!Compare(a, fetched[a])
    BY <1>4 DEF Disc!Store
  <2>3. QED
    BY <1>1, <1>2, <1>4, <2>1, <2>2 DEF Disc!Store
<1>5. ASSUME NEW a \in Disc!Askers, Disc!Fail(a) PROVE DiscoveryInv'
  BY <1>1, <1>5 DEF Disc!Fail
<1>6. CASE Disc!Hit
  <2>1. cached \in SUBSET Instances /\ Loop \in Disc!Askers
    BY <1>6 DEF Disc!Hit, Disc!Askers
  <2>2. QED
    BY <1>1, <1>2, <1>6, <2>1 DEF Disc!Hit
<1>7. CASE Disc!WatchTick
  BY <1>1, <1>7 DEF Disc!WatchTick
<1>8. CASE Disc!Tick
  BY <1>1, <1>8 DEF Disc!Tick
<1>9. ASSUME NEW i \in Instances, Disc!Change(i) PROVE DiscoveryInv'
  BY <1>1, <1>9 DEF Disc!Change
<1>10. CASE UNCHANGED discoveryVars
  BY <1>10 DEF discoveryVars
<1>11. QED
  BY <1>3, <1>4, <1>5, <1>6, <1>7, <1>8, <1>9, <1>10 DEF Disc!Next

-----------------------------------------------------------------------------
(* The watchers of Nacos: what a channel holds has come in order, the last *)
(* of it is the list as it is unless a call is still due or found the      *)
(* channel full, and d.watchers has open channels only.                    *)
LastOf(w) == IF queue[w] = <<>> THEN seen[w] ELSE queue[w][Len(queue[w])]

ListsInv ==
    /\ Disc!ListsTypeOK
    /\ Disc!ClosedOnce /\ Disc!InOrder
    /\ \A w \in watchers : channel[w] = "open"
    /\ \A w \in subscribed :
          channel[w] = "open" /\ w \notin due /\ ~skipped[w] => LastOf(w) = version

(* The lists of q do not go back, nor behind s. *)
InRow(q, s) == \A i \in DOMAIN q : (IF i = 1 THEN s ELSE q[i - 1]) <= q[i]

(* What the library appends to the list of a channel. *)
LEMMA Appended ==
    ASSUME NEW v \in Nat, NEW q \in Seq(0..v), NEW s \in -1..v, InRow(q, s)
    PROVE  \E a \in Seq(0..v) : /\ a = Append(q, v) /\ a # <<>>
                                /\ Len(a) = Len(q) + 1 /\ a[Len(a)] = v /\ InRow(a, s)
<1>1. PICK a : a = Append(q, v)
  OBVIOUS
<1>2. /\ a \in Seq(0..v) /\ a # <<>> /\ Len(a) = Len(q) + 1 /\ a[Len(a)] = v
      /\ InRow(a, s)
  BY <1>1, SMTT(60) DEF InRow
<1>3. QED
  BY <1>1, <1>2

(* What is left of a channel when the application has taken the first list. *)
LEMMA Taken ==
    ASSUME NEW v \in Nat, NEW q \in Seq(0..v), q # <<>>, NEW s \in -1..v, InRow(q, s)
    PROVE  /\ Tail(q) \in Seq(0..v) /\ Head(q) \in 0..v /\ Len(Tail(q)) = Len(q) - 1
           /\ InRow(Tail(q), Head(q))
           /\ IF Tail(q) = <<>> THEN Head(q) = q[Len(q)]
                                ELSE Tail(q)[Len(q) - 1] = q[Len(q)]
<1> USE DEF InRow
<1> DEFINE t == Tail(q)
<1>1. /\ t \in Seq(0..v) /\ Head(q) \in 0..v /\ Len(t) = Len(q) - 1 /\ Len(q) \in Nat \ {0}
      /\ Head(q) = q[1] /\ \A i \in 1..Len(t) : t[i] = q[i + 1]
  OBVIOUS
<1>2. DOMAIN t = 1..Len(t) /\ DOMAIN q = 1..Len(q)
  BY <1>1
<1>3. ASSUME NEW i \in DOMAIN t PROVE (IF i = 1 THEN Head(q) ELSE t[i - 1]) <= t[i]
  <2>1. i + 1 \in DOMAIN q /\ i + 1 # 1 /\ q[(i + 1) - 1] <= q[i + 1]
    BY <1>1, <1>2, <1>3, SMTT(60)
  <2>2. t[i] = q[i + 1] /\ (i + 1) - 1 = i
    BY <1>1, <1>2, <1>3
  <2>3. CASE i = 1
    BY <1>1, <2>1, <2>2, <2>3
  <2>4. CASE i # 1
    <3>1. t[i - 1] = q[i]
      BY <1>1, <1>2, <1>3, <2>4
    <3>2. QED
      BY <2>1, <2>2, <2>4, <3>1
  <2>5. QED
    BY <2>3, <2>4
<1>4. CASE t = <<>>
  <2>1. Len(q) = 1
    BY <1>1, <1>4
  <2>2. QED
    BY <1>1, <1>3, <1>4, <2>1
<1>5. CASE t # <<>>
  <2>1. Len(q) - 1 \in 1..Len(t)
    BY <1>1, <1>5
  <2>2. t[Len(q) - 1] = q[(Len(q) - 1) + 1] /\ (Len(q) - 1) + 1 = Len(q)
    BY <1>1, <2>1
  <2>3. t[Len(q) - 1] = q[Len(q)]
    BY <2>2
  <2>4. InRow(t, Head(q))
    BY <1>1, <1>3, <1>5, <2>3
  <2>5. QED
    BY <1>1, <1>5, <2>3, <2>4
<1>6. QED
  BY <1>4, <1>5

(* A step of a watcher, of Close or of the Nacos library. *)
LEMMA ListsStep == ASSUME ListsInv, [Disc!ListsNext]_listVars PROVE ListsInv'
<1> USE DEF ListsInv, Disc!ListsTypeOK, Disc!ClosedOnce, Disc!InOrder, LastOf, Disc!channels
<1>1. QueueSize \in Nat /\ MaxVersion \in Nat
  BY ResilienceAssumption
<1>2. ASSUME NEW w \in Callers, Disc!Subscribe(w) PROVE ListsInv'
  BY <1>1, <1>2 DEF Disc!Subscribe
<1>3. ASSUME NEW w \in Callers, Disc!Enter(w) PROVE ListsInv'
  BY <1>1, <1>3 DEF Disc!Enter
<1>4. ASSUME NEW w \in Callers, Disc!Unwatch(w) PROVE ListsInv'
  BY <1>1, <1>4 DEF Disc!Unwatch, Disc!CloseChannels
<1>5. CASE Disc!CloseWatchers
  BY <1>1, <1>5 DEF Disc!CloseWatchers, Disc!CloseChannels
<1>6. CASE Disc!ChangeList
  BY <1>1, <1>6 DEF Disc!ChangeList
<1>7. ASSUME NEW w \in Callers, Disc!Callback(w) PROVE ListsInv'
  <2>1. PICK q, S : q = queue[w] /\ S = Seq(0..version)
    OBVIOUS
  <2>2. /\ q \in Seq(0..version) /\ version \in Nat /\ seen[w] \in -1..version /\ Len(q) <= QueueSize
        /\ InRow(q, seen[w])
    BY <1>1, <2>1 DEF InRow
  <2>3. /\ w \in due /\ due' = due \ {w}
        /\ UNCHANGED <<version, subscribed, watchers, channel, seen>>
    BY <1>7 DEF Disc!Callback
  <2>4. CASE channel[w] = "closed"
    <3>1. panicked' = "send" /\ UNCHANGED <<queue, skipped>>
      BY <1>7, <2>4 DEF Disc!Callback
    <3>2. QED
      BY <1>1, <2>3, <2>4, <3>1
  <2>5. CASE channel[w] # "closed" /\ Len(q) = QueueSize
    <3>1. queue' = queue /\ skipped' = [skipped EXCEPT ![w] = TRUE] /\ panicked' = panicked
      BY <1>7, <2>1, <2>5 DEF Disc!Callback
    <3>2. QED
      BY <1>1, <2>3, <2>5, <3>1
  <2>6. CASE channel[w] # "closed" /\ Len(q) # QueueSize
    <3>1. PICK a \in Seq(0..version) :
             /\ a = Append(q, version) /\ a # <<>>
             /\ Len(a) = Len(q) + 1 /\ a[Len(a)] = version /\ InRow(a, seen[w])
      BY <2>2, Appended
    <3>2. /\ queue' = [queue EXCEPT ![w] = a] /\ skipped' = [skipped EXCEPT ![w] = FALSE]
          /\ panicked' = panicked
      BY <1>7, <2>1, <2>6, <3>1 DEF Disc!Callback
    <3>3. /\ a \in S /\ a # <<>> /\ Len(a) = Len(q) + 1 /\ a[Len(a)] = version
          /\ InRow(a, seen[w])
      BY <2>1, <3>1
    <3>4. Len(a) <= QueueSize
      BY <1>1, <2>2, <2>6, <3>3
    <3>5. queue' \in [Callers -> S] /\ queue'[w] = a /\ \A x \in Callers \ {w} : queue'[x] = queue[x]
      BY <2>1, <3>2, <3>3
    <3>6. Disc!ListsTypeOK'
      BY <2>1, <2>3, <3>2, <3>4, <3>5
    <3>7. Disc!InOrder'
      BY <2>3, <3>3, <3>5 DEF InRow
    <3>8. \A x \in subscribed' :
             channel'[x] = "open" /\ x \notin due' /\ ~skipped'[x] => LastOf(x)' = version'
      BY <2>3, <3>2, <3>3, <3>5
    <3>9. QED
      BY <2>3, <3>2, <3>6, <3>7, <3>8
  <2>7. QED
    BY <2>4, <2>5, <2>6
<1>8. ASSUME NEW w \in Callers, Disc!Receive(w) PROVE ListsInv'
  <2>1. PICK q, S : q = queue[w] /\ S = Seq(0..version)
    OBVIOUS
  <2>2. PICK t, h : t = Tail(q) /\ h = Head(q)
    OBVIOUS
  <2>3. /\ q \in Seq(0..version) /\ q # <<>> /\ version \in Nat /\ seen[w] \in -1..version
        /\ InRow(q, seen[w])
    BY <1>1, <1>8, <2>1, SMTT(60) DEF Disc!Receive, InRow
  <2>4. /\ seen' = [seen EXCEPT ![w] = h] /\ queue' = [queue EXCEPT ![w] = t]
        /\ UNCHANGED <<version, subscribed, due, watchers, channel, skipped, panicked>>
    BY <1>8, <2>1, <2>2 DEF Disc!Receive
  <2>5. /\ t \in S /\ h \in 0..version /\ Len(t) = Len(q) - 1
        /\ InRow(t, h)
        /\ IF t = <<>> THEN h = q[Len(q)] ELSE t[Len(t)] = q[Len(q)]
    BY <2>1, <2>2, <2>3, Taken
  <2>6. /\ queue' \in [Callers -> S] /\ queue'[w] = t /\ \A x \in Callers \ {w} : queue'[x] = queue[x]
        /\ seen' \in [Callers -> -1..version] /\ seen'[w] = h
        /\ \A x \in Callers \ {w} : seen'[x] = seen[x]
    <3>1. h \in -1..version
      BY <2>3, <2>5
    <3>2. QED
      BY <2>1, <2>4, <2>5, <3>1
  <2>7. Len(t) <= QueueSize
    <3>1. Len(q) <= QueueSize /\ Len(q) \in Nat
      BY <2>1, <2>3
    <3>2. QED
      BY <1>1, <2>5, <3>1
  <2>8. Disc!ListsTypeOK'
    BY <2>1, <2>4, <2>6, <2>7
  <2>9. Disc!InOrder'
    BY <2>5, <2>6 DEF InRow
  <2>10. LastOf(w)' = LastOf(w) /\ \A x \in Callers \ {w} : LastOf(x)' = LastOf(x)
    BY <2>1, <2>3, <2>5, <2>6
  <2>11. QED
    BY <2>4, <2>8, <2>9, <2>10, ZenonT(60)
<1>9. CASE UNCHANGED listVars
  BY <1>1, <1>9 DEF listVars
<1>10. QED
  BY <1>2, <1>3, <1>4, <1>5, <1>6, <1>7, <1>8, <1>9 DEF Disc!ListsNext

-----------------------------------------------------------------------------
(* The adaptive breaker: while it is open one goroutine sleeps, and what   *)
(* is left of its sleep and the time since the opening make up the sleep   *)
(* window.                                                                 *)
OneSleeper ==
    IF aState = "Open" THEN \E n \in 0..ResetTimeout : timers = <<n>> /\ n + aSinceChange >= ResetTimeout
                       ELSE timers = <<>>

AdaptiveInv ==
    /\ aState \in {"Closed", "Open", "HalfOpen"} /\ aSinceChange \in 0..ResetTimeout + 1
    /\ requests \in 0..MaxRequests /\ aFailures \in 0..requests /\ consecutive \in 0..A!Most
    /\ op \in [Callers -> {"idle", "running"}]
    /\ OneSleeper

(* The invariant of the adaptive breaker includes its types. *)
LEMMA AdaptiveTypes == AdaptiveInv => A!TypeOK
<1> SUFFICES ASSUME AdaptiveInv PROVE timers \in Seq(0..ResetTimeout)
  BY DEF AdaptiveInv, A!TypeOK
<1>1. CASE timers = <<>>
  BY <1>1
<1>2. CASE \E n \in 0..ResetTimeout : timers = <<n>>
  BY <1>2
<1>3. QED
  BY <1>1, <1>2 DEF AdaptiveInv, OneSleeper

(* What a step of the adaptive breaker may do to its state. *)
Lasts ==
    /\ aState = "Open" /\ aState' # "Open" => aState' = "HalfOpen" /\ aSinceChange >= ResetTimeout
    /\ aState = "Closed" /\ aState' # "Closed" => aState' = "Open"
    /\ Len(timers') = IF aState' = "Open" THEN 1 ELSE 0

(* Every step of the adaptive breaker keeps its invariant, and leaves the open state *)
(* only by the timer that opening started.                                           *)
LEMMA AdaptiveStep == ASSUME AdaptiveInv, [A!Next]_adaptiveVars PROVE AdaptiveInv' /\ Lasts
<1> USE DEF AdaptiveInv, OneSleeper, Lasts, A!AtMost, A!statVars, A!stateVars
<1>1. ResetTimeout \in Nat /\ MaxRequests \in Nat /\ A!Most \in Nat
  BY ResilienceAssumption DEF A!Most
<1>2. ASSUME NEW c \in Callers, A!Begin(c) PROVE AdaptiveInv' /\ Lasts
  BY <1>1, <1>2 DEF A!Begin
<1>3. ASSUME NEW c \in Callers, A!MarkSuccess(c) PROVE AdaptiveInv' /\ Lasts
  BY <1>1, <1>3 DEF A!MarkSuccess, A!Done, A!ChangeState
<1>4. ASSUME NEW c \in Callers, A!MarkFailure(c) PROVE AdaptiveInv' /\ Lasts
  <2>1. /\ op' \in [Callers -> {"idle", "running"}]
        /\ requests' = requests + 1 /\ requests' \in 0..MaxRequests
        /\ aFailures' = aFailures + 1
        /\ consecutive' \in 0..A!Most
    BY <1>1, <1>4 DEF A!MarkFailure, A!Done
  <2>2. aFailures' \in 0..requests'
    BY <1>1, <2>1
  <2>3. A!ChangeState("Open") \/ UNCHANGED A!stateVars
    BY <1>4 DEF A!MarkFailure
  <2>4. CASE UNCHANGED A!stateVars
    BY <1>1, <2>1, <2>2, <2>4
  <2>5. CASE aState # "Open" /\ A!ChangeState("Open")
    <3>1. timers' = Append(<<>>, ResetTimeout) /\ aState' = "Open" /\ aSinceChange' = 0
      BY <2>5 DEF A!ChangeState
    <3>2. timers' = <<ResetTimeout>> /\ Len(timers') = 1
      BY <3>1
    <3>3. OneSleeper'
      BY <1>1, <3>1, <3>2
    <3>4. QED
      BY <1>1, <2>1, <2>2, <2>5, <3>1, <3>2, <3>3
  <2>6. QED
    BY <2>3, <2>4, <2>5 DEF A!ChangeState
<1>5. ASSUME NEW i \in DOMAIN timers, A!Wake(i) PROVE AdaptiveInv' /\ Lasts
  <2>1. PICK n \in 0..ResetTimeout : aState = "Open" /\ timers = <<n>> /\ n + aSinceChange >= ResetTimeout
    BY <1>5
  <2>2. i = 1 /\ n = 0
    BY <1>5, <2>1 DEF A!Wake
  <2>3. timers' = SubSeq(<<n>>, 1, 0) \o SubSeq(<<n>>, 2, 1)
    BY <1>5, <2>1, <2>2 DEF A!Wake
  <2>4. timers' = <<>>
    BY <2>3
  <2>5. /\ aState' = "HalfOpen" /\ aSinceChange' = 0
        /\ UNCHANGED <<requests, aFailures, consecutive, op>>
    BY <1>5, <2>1 DEF A!Wake
  <2>6. aSinceChange >= ResetTimeout
    BY <1>1, <2>1, <2>2
  <2>7. QED
    BY <1>1, <2>1, <2>4, <2>5, <2>6
<1>6. CASE A!AutoAdjust
  BY <1>1, <1>6 DEF A!AutoAdjust
<1>7. CASE A!Tick
  <2>1. /\ aSinceChange' = A!AtMost(ResetTimeout + 1, aSinceChange + 1)
        /\ timers' = [i \in DOMAIN timers |-> IF timers[i] > 0 THEN timers[i] - 1 ELSE 0]
        /\ UNCHANGED <<aState, requests, aFailures, consecutive, op>>
    BY <1>7 DEF A!Tick
  <2>2. aSinceChange' \in 0..ResetTimeout + 1
    BY <1>1, <2>1
  <2>3. CASE aState = "Open"
    <3>1. PICK n \in 0..ResetTimeout : timers = <<n>> /\ n + aSinceChange >= ResetTimeout
      BY <2>3
    <3>2. PICK m \in 0..ResetTimeout : m = (IF n > 0 THEN n - 1 ELSE 0)
      BY <1>1
    <3>3. timers' = <<m>>
      BY <2>1, <3>1, <3>2
    <3>4. m + aSinceChange' >= ResetTimeout
      BY <1>1, <2>1, <3>1, <3>2
    <3>5. QED
      BY <2>1, <2>2, <2>3, <3>3, <3>4
  <2>4. CASE aState # "Open"
    <3>1. timers' = <<>>
      BY <2>1, <2>4
    <3>2. QED
      BY <2>1, <2>2, <2>4, <3>1
  <2>5. QED
    BY <2>3, <2>4
<1>8. CASE UNCHANGED adaptiveVars
  BY <1>1, <1>8 DEF adaptiveVars
<1>9. QED
  BY <1>2, <1>3, <1>4, <1>5, <1>6, <1>7, <1>8 DEF A!Next, A!WakeOne

-----------------------------------------------------------------------------
(* The components together.  A breaker that is called directly leaves the  *)
(* gateway's requests as they are in the beginning.                        *)
Untried == kind # "gateway" => \A c \in Callers : answer[c] = "none" /\ tried[c] = 0

ResilienceInv ==
    /\ GatewayInv /\ Untried /\ AdaptiveInv /\ MiddlewareInv
    /\ NacosInv /\ ListsInv /\ DiscoveryInv

(* The initial states of every component are as its invariant says. *)
LEMMA ResilienceStarts == ASSUME MCInit PROVE ResilienceInv
<1> USE ResilienceAssumption DEF MCInit, GatewayInit
<1>1. GatewayInv /\ Untried
  BY DEF Init, GatewayInv, TypeOK, GatewayTypeOK, AnswerComes, AnswerFits, FailureForgotten, Untried
<1>2. AdaptiveInv
  <2>1. A!Most \in Nat
    BY DEF A!Most
  <2>2. QED
    BY <2>1 DEF A!Init, AdaptiveInv, OneSleeper
<1>3. MiddlewareInv
  BY DEF M!Init, MiddlewareInv, M!TypeOK
<1>4. NacosInv
  <2>1. ~registered /\ ~removed /\ registered \in BOOLEAN /\ removed \in BOOLEAN /\ stopped \in BOOLEAN
    BY DEF Nacos!Init
  <2>2. /\ server = {} /\ serviceName = NoName /\ owner = "idle" /\ service = NoName /\ calls = 0
        /\ beat = [l \in Callers |-> "off"]
    BY DEF Nacos!Init
  <2>3. QED
    BY <2>1, <2>2 DEF NacosInv, Nacos!TypeOK
<1>5. ListsInv
  <2>1. <<>> \in Seq(0..0) /\ Len(<<>>) = 0
    OBVIOUS
  <2>2. QED
    BY <2>1 DEF Disc!ListsInit, ListsInv, Disc!ListsTypeOK, Disc!ClosedOnce, Disc!InOrder
<1>6. DiscoveryInv
  <2>1. Disc!Cardinality(Instances) \in Nat
    BY SameNumber, FS_CardinalityType
  <2>2. QED
    BY <2>1 DEF Disc!Init, DiscoveryInv, Disc!TypeOK, Disc!Fresh, Disc!Oldest
<1>7. QED
  BY <1>1, <1>2, <1>3, <1>4, <1>5, <1>6 DEF ResilienceInv

(* Whatever step is taken, every component takes one of its own or none.   *)
LEMMA EachMoves ==
    ASSUME [MCNext]_mcVars
    PROVE  /\ [A!Next]_adaptiveVars /\ [M!Next]_(M!vars) /\ [B!Next]_balancerVars
           /\ [Nacos!Next]_nacosVars /\ [Disc!ListsNext]_listVars /\ [Disc!Next]_discoveryVars
           /\ \/ [GatewayNext]_gatewayVars
              \/ kind = "breaker" /\ Next /\ UNCHANGED <<limiterVars, requestVars>>
           /\ kind' = kind /\ (kind # "gateway" => UNCHANGED <<limiterVars, requestVars>>)
<1> USE DEF OnBreaker, OnGateway, OnAdaptive, OnMiddleware, OnBalancer, OnNacos, OnLists, OnDiscovery,
           mcVars, breakerVars, trafficVars, registryVars
<1>1. CASE OnBreaker(Next)
  BY <1>1 DEF middlewareVars, M!vars, M!breakerVars
<1>2. CASE OnGateway(GatewayNext)
  BY <1>2 DEF middlewareVars, M!vars, M!breakerVars
<1>3. CASE OnAdaptive(A!Next)
  BY <1>3 DEF middlewareVars, M!vars, M!breakerVars, gatewayVars
<1>4. CASE OnMiddleware(M!Next)
  BY <1>4 DEF gatewayVars
<1>5. CASE OnBalancer(B!Next) \/ OnNacos(Nacos!Next) \/ OnLists(Disc!ListsNext) \/ OnDiscovery(Disc!Next)
  BY <1>5 DEF middlewareVars, M!vars, M!breakerVars, gatewayVars
<1>6. CASE UNCHANGED mcVars
  BY <1>6 DEF middlewareVars, M!vars, M!breakerVars, gatewayVars
<1>7. QED
  BY <1>1, <1>2, <1>3, <1>4, <1>5, <1>6 DEF MCNext

(* A breaker that is called directly. *)
LEMMA DirectStep ==
    ASSUME GatewayInv, Untried, kind = "breaker", kind' = kind, Next, UNCHANGED <<limiterVars, requestVars>>
    PROVE  GatewayInv'
<1>1. TypeOK'
  BY BreakerStep DEF GatewayInv
<1>2. answer' = answer /\ tried' = tried /\ tokens' = tokens /\ filling' = filling
  BY DEF limiterVars, requestVars
<1>3. \A c \in Callers : answer[c] = "none" /\ tried[c] = 0
  BY DEF Untried
<1>4. AnswerComes' /\ AnswerFits'
  BY <1>2, <1>3, ResilienceAssumption DEF AnswerComes, AnswerFits
<1>5. QED
  BY <1>1, <1>2, <1>4 DEF GatewayInv, GatewayTypeOK

(* The invariant of the components together. *)
LEMMA ResilienceHolds == MCSpec => []ResilienceInv
<1>1. ResilienceInv /\ [MCNext]_mcVars => ResilienceInv'
  <2> SUFFICES ASSUME ResilienceInv, [MCNext]_mcVars PROVE ResilienceInv'
    OBVIOUS
  <2>1. GatewayInv'
    BY EachMoves, GatewayStep, DirectStep DEF ResilienceInv
  <2>2. Untried'
    BY EachMoves DEF ResilienceInv, Untried, requestVars
  <2>3. AdaptiveInv' /\ MiddlewareInv' /\ NacosInv' /\ ListsInv' /\ DiscoveryInv'
    BY EachMoves, AdaptiveStep, MiddlewareStep, NacosStep, ListsStep, DiscoveryStep DEF ResilienceInv
  <2>4. QED
    BY <2>1, <2>2, <2>3 DEF ResilienceInv
<1>2. QED
  BY <1>1, ResilienceStarts, PTL DEF MCSpec

(* The variables of the breakers, the gateway and the clients of Nacos     *)
(* keep their types.                                                       *)
THEOREM ResilienceTypesOK == MCSpec => []TypesOK
<1>1. ResilienceInv => TypesOK
  BY AdaptiveTypes DEF ResilienceInv, TypesOK, GatewayInv, MiddlewareInv, NacosInv, ListsInv, DiscoveryInv
<1>2. QED
  BY <1>1, ResilienceHolds, PTL

(* A request is given up after all its attempts or none, and the           *)
(* middleware's breaker opens at its threshold (gateway.go:80-134,         *)
(* advanced.go:107-132).                                                   *)
THEOREM AnswersHold == MCSpec => []AnswersSound
<1>1. ResilienceInv => AnswersSound
  BY DEF ResilienceInv, AnswersSound, GatewayInv, MiddlewareInv, M!TripsInTime, M!TypeOK
<1>2. QED
  BY <1>1, ResilienceHolds, PTL

(* Nothing beats for a closed client, watchers miss no list and see them   *)
(* in order, and the cache's answers are of bounded age (client.go:605,    *)
(* nacos.go:256-350, discovery.go:155-195).                                *)
THEOREM DestinationsHold == MCSpec => []DestinationsSound
<1>1. NacosInv => Nacos!GoneAfterClose
  BY DEF NacosInv, Nacos!GoneAfterClose
<1>2. ListsInv => Disc!WatchersSound
  BY DEF ListsInv, Disc!WatchersSound, Disc!SeesTheLatest, LastOf
<1>3. DiscoveryInv => Disc!StaleBounded
  BY ResilienceAssumption DEF DiscoveryInv, Disc!StaleBounded, Disc!Fresh, Disc!TypeOK, Disc!Oldest
<1>4. QED
  BY <1>1, <1>2, <1>3, ResilienceHolds, PTL DEF ResilienceInv, DestinationsSound

(* The adaptive breaker stays open for the whole sleep window, whatever    *)
(* results arrive meanwhile, leaves it for the half-open state only, and   *)
(* leaves no goroutine behind (adaptive.go:185-213).                       *)
THEOREM OpenStaysOpen == A!Spec => A!OpenLasts
<1>1. A!Init => AdaptiveInv
  <2>1. A!Most \in Nat /\ MaxRequests \in Nat
    BY ResilienceAssumption DEF A!Most
  <2>2. QED
    BY <2>1 DEF A!Init, AdaptiveInv, OneSleeper
<1>2. A!vars' = A!vars => adaptiveVars' = adaptiveVars
  BY DEF adaptiveVars, A!vars, A!stateVars, A!statVars
<1>3. AdaptiveInv /\ [A!Next]_(A!vars) => AdaptiveInv' /\ [Lasts]_(A!vars)
  <2>1. [A!Next]_(A!vars) => [A!Next]_adaptiveVars
    BY <1>2
  <2>2. QED
    BY <2>1, AdaptiveStep
<1>4. [Lasts]_(A!vars) =>
        [/\ aState = "Open" /\ aState' # "Open" => aState' = "HalfOpen" /\ aSinceChange >= ResetTimeout
         /\ aState = "Closed" /\ aState' # "Closed" => aState' = "Open"
         /\ Len(timers') = IF aState' = "Open" THEN 1 ELSE 0]_(A!vars)
  BY DEF Lasts
<1>5. QED
  BY <1>1, <1>3, <1>4, PTL DEF A!Spec, A!OpenLasts

-----------------------------------------------------------------------------
(* The balancer that counts connections.  That it selects someone who is   *)
(* alive is not needed: whoever it selects is who the user is using.       *)
Using(i) == {u \in Callers : using[u] = i}

CountsInv ==
    /\ connectionCounts \in [B!AllInstances -> Nat]
    /\ \E S : using \in [Callers -> S]
    /\ \A i \in B!AllInstances : connectionCounts[i] = Cardinality(Using(i))

(* The number of users of an instance goes with each of them.              *)
LEMMA UsersMove ==
    ASSUME IsFiniteSet(Callers), NEW S, using \in [Callers -> S], NEW u \in Callers,
           NEW x, using' = [using EXCEPT ![u] = x], x # using[u]
    PROVE  \A i : /\ Cardinality(Using(i)) \in Nat
                  /\ i \notin {x, using[u]} => Cardinality(Using(i)') = Cardinality(Using(i))
                  /\ i = x => Cardinality(Using(i)') = Cardinality(Using(i)) + 1
                  /\ i = using[u] => Cardinality(Using(i)') = Cardinality(Using(i)) - 1
<1> TAKE i
<1>1. IsFiniteSet(Using(i)) /\ Cardinality(Using(i)) \in Nat
  BY FS_Subset, FS_CardinalityType DEF Using
<1>2. CASE i \notin {x, using[u]}
  <2>1. Using(i)' = Using(i)
    BY <1>2 DEF Using
  <2>2. QED
    BY <1>1, <1>2, <2>1
<1>3. CASE i = x
  <2>1. Using(i)' = Using(i) \cup {u} /\ u \notin Using(i)
    BY <1>3 DEF Using
  <2>2. QED
    BY <1>1, <1>3, <2>1, FS_AddElement
<1>4. CASE i = using[u]
  <2>1. Using(i)' = Using(i) \ {u} /\ u \in Using(i)
    BY <1>4 DEF Using
  <2>2. QED
    BY <1>1, <1>4, <2>1, FS_RemoveElement, ZenonT(60)
<1>5. QED
  BY <1>2, <1>3, <1>4

LEMMA CountsStart == ASSUME B!Init, N \in Nat PROVE CountsInv
<1>1. /\ connectionCounts = [i \in 1..N |-> 0] /\ using = [u \in Callers |-> 0]
  BY DEF B!Init, B!Nobody, B!AllInstances
<1>2. ASSUME NEW i \in 1..N PROVE Using(i) = {}
  BY <1>1 DEF Using
<1>3. using \in [Callers -> {0}] /\ connectionCounts \in [1..N -> Nat]
  BY <1>1
<1>4. QED
  BY <1>1, <1>2, <1>3, FS_EmptySet DEF CountsInv, B!AllInstances

LEMMA CountsStep ==
    ASSUME CountsInv, [B!Next]_(B!vars), IsFiniteSet(Callers), N \in Nat PROVE CountsInv'
<1>1. CASE UNCHANGED <<connectionCounts, using>>
  BY <1>1 DEF CountsInv, Using
<1>2. ASSUME NEW u \in Callers, B!SelectLeast(u) PROVE CountsInv'
  <2>1. PICK x : /\ using[u] = 0 /\ using' = [using EXCEPT ![u] = x]
                 /\ connectionCounts' = [connectionCounts EXCEPT ![x] = @ + 1]
    BY <1>2 DEF B!SelectLeast
  <2>2. PICK S : using \in [Callers -> S]
    BY DEF CountsInv
  <2>3. using' \in [Callers -> S \cup {x}]
    BY <2>1, <2>2
  <2>4. connectionCounts' \in [B!AllInstances -> Nat]
    <3>1. CASE x \in B!AllInstances
      BY <2>1, <3>1 DEF CountsInv
    <3>2. CASE x \notin B!AllInstances
      <4>1. connectionCounts' = connectionCounts
        BY <2>1, <3>2 DEF CountsInv
      <4>2. QED
        BY <4>1 DEF CountsInv
    <3>3. QED
      BY <3>1, <3>2
  <2>5. CASE x = 0
    <3>1. using' = using /\ \A i \in B!AllInstances : connectionCounts'[i] = connectionCounts[i]
      BY <2>1, <2>2, <2>5 DEF CountsInv, B!AllInstances
    <3>2. QED
      BY <2>3, <2>4, <3>1 DEF CountsInv, Using
  <2>6. CASE x # 0
    <3>1. ASSUME NEW i \in B!AllInstances PROVE connectionCounts'[i] = Cardinality(Using(i)')
      <4>1. i # 0 /\ connectionCounts[i] = Cardinality(Using(i))
        BY DEF CountsInv, B!AllInstances
      <4>2. CASE i = x
        BY <2>1, <2>2, <2>6, <4>1, <4>2, UsersMove DEF CountsInv
      <4>3. CASE i # x
        <5>1. connectionCounts'[i] = connectionCounts[i]
          BY <2>1, <4>3 DEF CountsInv
        <5>2. Cardinality(Using(i)') = Cardinality(Using(i))
          <6>1. x # using[u] /\ i \notin {x, using[u]}
            BY <2>1, <2>6, <4>1, <4>3
          <6>2. \A k : k \notin {x, using[u]} => Cardinality(Using(k)') = Cardinality(Using(k))
            BY <2>1, <2>2, <6>1, UsersMove
          <6>3. QED
            BY <6>1, <6>2
        <5>3. QED
          BY <4>1, <5>1, <5>2
      <4>4. QED
        BY <4>2, <4>3
    <3>2. QED
      BY <2>3, <2>4, <3>1 DEF CountsInv, Using
  <2>7. QED
    BY <2>5, <2>6
<1>3. ASSUME NEW u \in Callers, B!ReleaseConnection(u) PROVE CountsInv'
  <2>1. PICK y : y = using[u]
    OBVIOUS
  <2>2. /\ y # 0 /\ using' = [using EXCEPT ![u] = 0]
        /\ connectionCounts' = [connectionCounts EXCEPT ![y] = IF @ > 0 THEN @ - 1 ELSE @]
    BY <1>3, <2>1 DEF B!ReleaseConnection
  <2>3. PICK S : using \in [Callers -> S]
    BY DEF CountsInv
  <2>4. using' \in [Callers -> S \cup {0}]
    BY <2>2, <2>3
  <2>5. connectionCounts' \in [B!AllInstances -> Nat]
    <3>1. CASE y \in B!AllInstances
      BY <2>2, <3>1 DEF CountsInv
    <3>2. CASE y \notin B!AllInstances
      <4>1. connectionCounts' = connectionCounts
        BY <2>2, <3>2 DEF CountsInv
      <4>2. QED
        BY <4>1 DEF CountsInv
    <3>3. QED
      BY <3>1, <3>2
  <2>6. ASSUME NEW i \in B!AllInstances PROVE connectionCounts'[i] = Cardinality(Using(i)')
    <3>1. i # 0 /\ connectionCounts[i] = Cardinality(Using(i))
      BY DEF CountsInv, B!AllInstances
    <3>2. CASE i = y
      <4>1. Cardinality(Using(i)) > 0
        <5>1. u \in Using(i) /\ IsFiniteSet(Using(i))
          BY <2>1, <3>2, FS_Subset DEF Using
        <5>2. QED
          BY <5>1, FS_EmptySet, FS_CardinalityType
      <4>2. QED
        BY <2>1, <2>2, <2>3, <3>1, <3>2, <4>1, UsersMove DEF CountsInv
    <3>3. CASE i # y
      <4>1. connectionCounts'[i] = connectionCounts[i]
        BY <2>2, <3>3 DEF CountsInv
      <4>2. i \notin {0, using[u]}
        BY <2>1, <2>2, <3>1, <3>3
      <4>3. \A k : k \notin {0, using[u]} => Cardinality(Using(k)') = Cardinality(Using(k))
        BY <2>1, <2>2, <2>3, UsersMove
      <4>4. QED
        BY <3>1, <4>1, <4>2, <4>3
    <3>4. QED
      BY <3>2, <3>3
  <2>7. QED
    BY <2>4, <2>5, <2>6 DEF CountsInv, Using
<1>4. QED
  BY <1>1, <1>2, <1>3 DEF B!Next, B!Change, B!SelectNext, B!SelectWeighted, B!vars, B!balance

LEMMA CountsMean == CountsInv => B!CountsRight
  BY SameNumber DEF CountsInv, B!CountsRight, Using

(* The counts of the least-connection balancer are those of the            *)
(* connections, whatever instances die and come back meanwhile, for any    *)
(* finite number of users (balancer.go:287-344).                           *)
THEOREM ConnectionsCounted == ASSUME IsFiniteSet(Callers), N \in Nat PROVE B!Spec => []B!CountsRight
<1>1. CountsInv /\ [B!Next]_(B!vars) => CountsInv'
  BY CountsStep
<1>2. B!Init => CountsInv
  BY CountsStart
<1>3. QED
  BY <1>1, <1>2, CountsMean, PTL DEF B!Spec

-----------------------------------------------------------------------------
(* The balancers.  How many are alive, their list, and their weights.       *)
ListOf(U) == CHOOSE list \in [1..Cardinality(U) -> U] : \A j, k \in 1..Cardinality(U) : j < k => list[j] < list[k]
Number == Cardinality(up)
Listed == ListOf(up)
All == Total(weight, up)
Heavy == strategy = "weighted_round_robin" /\ All > 0
Last ==
    IF strategy = "round_robin" THEN index % Number
    ELSE IF index = 0 THEN Number - 1 ELSE index - 1

BalanceTypes ==
    /\ strategy \in {"round_robin", "weighted_round_robin", "least_connection"}
    /\ weight \in [1..N -> 0..MaxWeight] /\ up \in SUBSET (1..N)
    /\ index \in 0..Cycle - 1
    /\ currentWeights \in Seq(Int) /\ Len(currentWeights) <= N
    /\ turns \in Nat /\ chosen \in [1..N -> Nat] /\ mixed \in BOOLEAN

(* When the round ends, and what is known where it begins. *)
TurnsInv ==
    /\ turns <= IF Heavy THEN All ELSE Number
    /\ turns = 0 => \A i \in 1..N : chosen[i] = 0
    /\ strategy = "least_connection" => turns = 0
    /\ strategy = "weighted_round_robin" =>
        /\ Len(currentWeights) # Number => turns = 0
        /\ index < Len(currentWeights) \/ (Len(currentWeights) = 0 /\ index = 0)

SumInv == Total(currentWeights, 1..Len(currentWeights)) = 0

(* A weight is what is due; who is alive had a turn if it was in the last.  *)
HeavyInv == Heavy /\ ~mixed /\ Len(currentWeights) = Number =>
    \A j \in 1..Number : /\ currentWeights[j] = turns * weight[Listed[j]] - chosen[Listed[j]] * All
                         /\ -All < currentWeights[j]
LightInv == ~Heavy /\ turns > 0 =>
    InTurn(Number, Last, turns, [j \in 1..Number |-> chosen[Listed[j]]])

BalanceInv == BalanceTypes /\ TurnsInv /\ SumInv /\ HeavyInv /\ LightInv

(* These are the operators of the module. *)
LEMMA Listing ==
    /\ B!Size = Number /\ B!AliveInstances = Listed /\ B!TotalWeight = All
    /\ B!Weighted = Heavy /\ B!Round = IF Heavy THEN All ELSE Number
<1>1. \A S : B!Cardinality(S) = Cardinality(S)
  BY SameNumber
<1>2. B!Size = Number
  BY <1>1 DEF B!Size, Number
<1>3. B!AliveInstances = Listed
  BY <1>2 DEF B!AliveInstances, Listed, ListOf, Number
<1>4. B!TotalWeight = All
  BY DEF B!TotalWeight, B!MapThenSumSet, B!MapThenFoldSet, All, Total, MapThenSumSet, MapThenFoldSet
<1>5. QED
  BY <1>2, <1>3, <1>4 DEF B!Weighted, Heavy, B!Round

(* The list of those alive. *)
ListKnown ==
    /\ Number \in 0..N /\ (up # {} => Number > 0) /\ IsFiniteSet(up)
    /\ Listed \in [1..Number -> up] /\ \A j \in 1..Number : Listed[j] \in 1..N
    /\ \A j, k \in 1..Number : Listed[j] = Listed[k] => j = k
    /\ \A i \in up : \E j \in 1..Number : Listed[j] = i
    /\ All \in Nat /\ \A i \in 1..N : weight[i] \in Nat
    /\ Total([j \in 1..Number |-> weight[Listed[j]]], 1..Number) = All

LEMMA ListFacts == BalanceTypes => ListKnown
<1> SUFFICES ASSUME BalanceTypes PROVE ListKnown
  OBVIOUS
<1>1. N \in Nat /\ up \in SUBSET (1..N) /\ MaxWeight \in Nat /\ weight \in [1..N -> 0..MaxWeight]
  BY BalancersAssumption DEF BalanceTypes
<1>2. IsFiniteSet(up) /\ Number \in 0..N
  BY <1>1, Finitely DEF Number
<1>3. up # {} => Number > 0
  BY <1>2, FS_EmptySet DEF Number
<1>4. Listed \in Increasing(up)
  <2>1. Increasing(up) # {}
    BY <1>1, ListExists
  <2>2. QED
    BY <2>1 DEF Increasing, Listed, ListOf
<1>5. /\ Listed \in [1..Number -> up]
      /\ \A j, k \in 1..Number : Listed[j] = Listed[k] => j = k
      /\ \A i \in up : \E j \in 1..Number : Listed[j] = i
  <2>1. IsList(N, up, Listed)
    BY <1>1, <1>4 DEF IsList
  <2>2. QED
    BY <2>1, ListOnce DEF Number
<1>6. \A i \in 1..N : weight[i] \in Nat
  BY <1>1
<1>7. All \in Nat
  <2>1. \A i \in up : weight[i] \in Nat
    BY <1>1, <1>6
  <2>2. QED
    BY <1>2, <2>1, TotalNat DEF All
<1>8. Total([j \in 1..Number |-> weight[Listed[j]]], 1..Number) = All
  <2> DEFINE g == [j \in 1..Number |-> weight[Listed[j]]]
  <2>1. \A j \in 1..Cardinality(up) : g[j] = weight[Listed[j]]
    BY DEF Number
  <2>2. \A i \in up : weight[i] \in Int
    BY <1>1, <1>6
  <2> HIDE DEF g
  <2>3. Total(g, 1..Cardinality(up)) = Total(weight, up)
    BY <1>1, <1>4, <2>1, <2>2, ListTotal, ZenonT(60)
  <2>4. QED
    BY <2>3 DEF All, Number, g
<1>9. \A j \in 1..Number : Listed[j] \in 1..N
  BY <1>1, <1>5
<1>10. QED
  BY <1>2, <1>3, <1>5, <1>6, <1>7, <1>8, <1>9 DEF ListKnown

(* Nothing of this changes while the list stays. *)
LEMMA ListStays ==
    ASSUME UNCHANGED <<strategy, weight, up>>
    PROVE  UNCHANGED <<Number, Listed, All, Heavy>>
  BY DEF Number, Listed, All, Heavy

(* The history of a selection. *)
LEMMA Selected ==
    ASSUME BalanceTypes, NEW i \in 1..N, B!Chosen(i), NEW r, r = IF Heavy THEN All ELSE Number
    PROVE  /\ turns' = IF turns = r THEN 1 ELSE turns + 1
           /\ chosen' \in [1..N -> Nat]
           /\ \A k \in 1..N : chosen'[k] = (IF turns = r THEN 0 ELSE chosen[k]) + (IF k = i THEN 1 ELSE 0)
<1>1. B!Round = r
  BY Listing
<1>2. /\ turns' = IF turns = r THEN 1 ELSE turns + 1
      /\ chosen' = [(IF turns = r THEN B!Nobody ELSE chosen) EXCEPT ![i] = @ + 1]
  BY <1>1 DEF B!Chosen
<1> DEFINE old == IF turns = r THEN B!Nobody ELSE chosen
<1>3. old \in [1..N -> Nat] /\ \A k \in 1..N : old[k] = IF turns = r THEN 0 ELSE chosen[k]
  BY DEF BalanceTypes, B!Nobody, B!AllInstances
<1>4. chosen' = [old EXCEPT ![i] = @ + 1]
  BY <1>2
<1> HIDE DEF old
<1>5. chosen' \in [1..N -> Nat] /\ \A k \in 1..N : chosen'[k] = old[k] + (IF k = i THEN 1 ELSE 0)
  BY <1>3, <1>4
<1>6. QED
  BY <1>2, <1>3, <1>5

(* A selection in turn, round robin or with no weights. *)
LEMMA InTurnStep ==
    ASSUME BalanceInv, ~Heavy, up # {}, UNCHANGED <<strategy, weight, up>>,
           strategy # "least_connection",
           NEW last \in 0..Number - 1, NEW next \in 0..Number - 1,
           next = IF last = Number - 1 THEN 0 ELSE last + 1,
           turns > 0 => last = Last, next = Last', B!Chosen(Listed[next + 1])
    PROVE  /\ turns' \in Nat /\ turns' > 0 /\ turns' <= Number
           /\ chosen' \in [1..N -> Nat] /\ LightInv'
<1> DEFINE n == Number
<1> DEFINE had == [j \in 1..n |-> chosen[Listed[j]]]
<1> DEFINE new == [j \in 1..n |-> chosen'[Listed[j]]]
<1>0. BalanceTypes /\ TurnsInv /\ LightInv
  BY DEF BalanceInv
<1>1. /\ n \in Nat \ {0} /\ \A j \in 1..n : Listed[j] \in 1..N
      /\ \A j, k \in 1..n : Listed[j] = Listed[k] => j = k
  BY <1>0, ListFacts, BalancersAssumption DEF ListKnown
<1>2. next + 1 \in 1..n /\ Listed[next + 1] \in 1..N
  BY <1>1
<1>3. /\ turns' = IF turns = n THEN 1 ELSE turns + 1
      /\ chosen' \in [1..N -> Nat]
      /\ \A k \in 1..N : chosen'[k] = (IF turns = n THEN 0 ELSE chosen[k])
                                      + (IF k = Listed[next + 1] THEN 1 ELSE 0)
  BY <1>0, <1>2, Selected
<1>4. turns \in 0..n
  BY <1>0, <1>1 DEF BalanceTypes, TurnsInv
<1>5. \A j \in 1..n : new[j] = (IF turns = n THEN 0 ELSE had[j]) + (IF j = next + 1 THEN 1 ELSE 0)
  <2>1. ASSUME NEW j \in 1..n
        PROVE  new[j] = (IF turns = n THEN 0 ELSE had[j]) + (IF j = next + 1 THEN 1 ELSE 0)
    <3>1. Listed[j] = Listed[next + 1] <=> j = next + 1
      BY <1>1, <1>2
    <3>2. new[j] = chosen'[Listed[j]] /\ had[j] = chosen[Listed[j]] /\ Listed[j] \in 1..N
      BY <1>1
    <3>3. QED
      BY <1>3, <3>1, <3>2
  <2>2. QED
    BY <2>1
<1>6. IF turns = 0 THEN \A j \in 1..n : had[j] = 0 ELSE InTurn(n, last, turns, had)
  <2>1. CASE turns = 0
    BY <1>0, <1>1, <2>1 DEF TurnsInv
  <2>2. CASE turns # 0
    <3>1. turns > 0
      BY <1>4, <2>2
    <3>2. InTurn(n, Last, turns, had)
      BY <1>0, <3>1 DEF LightInv
    <3>3. QED
      BY <2>2, <3>1, <3>2
  <2>3. QED
    BY <2>1, <2>2
<1>7. UNCHANGED <<Number, Listed, Heavy>>
  BY ListStays
<1> HIDE DEF had, new, n
<1>8. InTurn(n, next, IF turns = n THEN 1 ELSE turns + 1, new)
  BY <1>1, <1>4, <1>5, <1>6, NextInTurn DEF n
<1>9. InTurn(Number', Last', turns', [j \in 1..Number' |-> chosen'[Listed'[j]]])
  <2>1. Number' = n /\ [j \in 1..Number' |-> chosen'[Listed'[j]]] = new
    BY <1>7 DEF n, new
  <2>2. QED
    BY <1>3, <1>8, <2>1
<1>10. turns' \in Nat /\ turns' > 0 /\ turns' <= n
  BY <1>1, <1>3, <1>4
<1>11. QED
  BY <1>3, <1>9, <1>10 DEF LightInv, n

LEMMA NextStep == ASSUME BalanceInv, B!SelectNext PROVE BalanceInv'
<1> DEFINE n == Number
<1>0. BalanceTypes /\ TurnsInv /\ SumInv
  BY DEF BalanceInv
<1>1. /\ strategy = "round_robin" /\ up # {} /\ index' = (index + 1) % Cycle /\ B!Chosen(B!At(index'))
      /\ UNCHANGED <<strategy, weight, up, currentWeights, connectionCounts, using, mixed>>
  BY DEF B!SelectNext, B!config
<1>2. n \in Nat \ {0} /\ n \in 1..N /\ Cycle % n = 0 /\ Cycle \in Nat \ {0} /\ index \in 0..Cycle - 1
  <2>1. n \in Nat \ {0} /\ n \in 1..N /\ index \in 0..Cycle - 1
    <3>1. Number \in 0..N /\ Number > 0 /\ N \in Nat
      BY <1>0, <1>1, ListFacts, BalancersAssumption DEF ListKnown
    <3>2. index \in 0..Cycle - 1
      BY <1>0 DEF BalanceTypes
    <3>3. QED
      BY <3>1, <3>2
  <2>2. QED
    BY <2>1, BalancersAssumption
<1>3. ~Heavy
  BY <1>1 DEF Heavy
<1>4. UNCHANGED <<Number, Listed, All, Heavy>>
  BY <1>1, ListStays
<1> HIDE DEF n
<1>5. /\ index % n \in 0..n - 1 /\ index' \in 0..Cycle - 1 /\ index' % n \in 0..n - 1
      /\ index' % n = IF index % n = n - 1 THEN 0 ELSE (index % n) + 1
  <2>1. index \in Nat /\ index % n \in 0..n - 1
        /\ (index + 1) % n = IF index % n = n - 1 THEN 0 ELSE (index % n) + 1
    <3>1. PICK c \in Nat : c = index
      BY <1>2
    <3>2. /\ c % n \in 0..n - 1
          /\ (c + 1) % n = IF c % n = n - 1 THEN 0 ELSE (c % n) + 1
      BY <1>2, NextRemainder
    <3>3. QED
      BY <3>1, <3>2
  <2>2. CASE index + 1 < Cycle
    <3>1. index + 1 \in 0..Cycle - 1 /\ (Cycle * 0 + (index + 1)) % Cycle = index + 1
      BY <1>2, <2>2, Remainder
    <3>2. Cycle * 0 + (index + 1) = index + 1
      BY <1>2
    <3>3. index' = index + 1
      BY <1>1, <3>1, <3>2
    <3>4. QED
      BY <1>2, <2>1, <2>2, <3>3
  <2>3. CASE index + 1 = Cycle
    <3>1. index' = 0
      <4>1. (Cycle * 1 + 0) % Cycle = 0
        BY <1>2, Remainder
      <4>2. QED
        BY <1>1, <1>2, <2>3, <4>1
    <3>2. index' % n = 0
      <4>1. (n * 0 + 0) % n = 0
        BY <1>2, Remainder
      <4>2. QED
        BY <1>2, <3>1, <4>1
    <3>3. QED
      BY <1>2, <2>1, <2>3, <3>1, <3>2
  <2>4. QED
    BY <1>2, <2>2, <2>3
<1> DEFINE last == index % n
<1> DEFINE next == index' % n
<1>6. last = Last /\ next = Last'
  BY <1>1, <1>4 DEF Last, n
<1>7. B!At(index') = Listed[next + 1]
  BY Listing, <1>4 DEF B!At, n
<1>8. B!Chosen(Listed[next + 1])
  BY <1>1, <1>7
<1>9. /\ last \in 0..Number - 1 /\ next \in 0..Number - 1
      /\ next = IF last = Number - 1 THEN 0 ELSE last + 1
  BY <1>5 DEF n
<1> HIDE DEF last, next
<1>10. /\ turns' \in Nat /\ turns' > 0 /\ turns' <= Number
       /\ chosen' \in [1..N -> Nat] /\ LightInv'
  BY <1>1, <1>3, <1>6, <1>8, <1>9, InTurnStep
<1>11. BalanceTypes'
  BY <1>0, <1>1, <1>5, <1>10 DEF BalanceTypes
<1>12. TurnsInv'
  BY <1>1, <1>3, <1>4, <1>10 DEF TurnsInv
<1>13. SumInv'
  BY <1>0, <1>1 DEF SumInv
<1>14. HeavyInv'
  BY <1>3, <1>4 DEF HeavyInv
<1>15. QED
  BY <1>10, <1>11, <1>12, <1>13, <1>14 DEF BalanceInv

(* The list becomes another one: nothing is known but that it adds up.      *)
LEMMA ChangeStep == ASSUME BalanceInv, NEW i \in 1..N, B!Change(i) PROVE BalanceInv'
<1>0. BalanceTypes /\ TurnsInv /\ SumInv
  BY DEF BalanceInv
<1>1. /\ up' = IF i \in up THEN up \ {i} ELSE up \cup {i}
      /\ turns' = 0 /\ chosen' = [k \in 1..N |-> 0]
      /\ mixed' = (currentWeights # [j \in DOMAIN currentWeights |-> 0])
      /\ UNCHANGED <<strategy, weight, index, currentWeights, connectionCounts, using>>
  BY DEF B!Change, B!Nobody, B!AllInstances, B!config, B!balance
<1>2. BalanceTypes'
  <2>1. up' \in SUBSET (1..N)
    BY <1>0, <1>1 DEF BalanceTypes
  <2>2. mixed' \in BOOLEAN
    BY <1>1
  <2>3. chosen' \in [1..N -> Nat] /\ turns' \in Nat
    BY <1>1
  <2>4. QED
    BY <1>0, <1>1, <2>1, <2>2, <2>3 DEF BalanceTypes
<1>9. ListKnown'
  BY <1>2, ListFacts, PTL
<1>3. /\ Number' \in 0..N /\ All' \in Nat
      /\ \A j \in 1..Number' : Listed'[j] \in 1..N
      /\ \A k \in 1..N : weight'[k] \in Nat
  BY <1>9 DEF ListKnown
<1>4. TurnsInv'
  <2>1. (turns <= IF Heavy THEN All ELSE Number)'
    BY <1>1, <1>3
  <2>2. \A k \in 1..N : chosen'[k] = 0
    BY <1>1
  <2>3. QED
    BY <1>0, <1>1, <2>1, <2>2 DEF TurnsInv
<1>5. SumInv'
  BY <1>0, <1>1 DEF SumInv
<1>6. HeavyInv'
  <2> SUFFICES ASSUME Heavy', ~mixed', Len(currentWeights') = Number', NEW j \in 1..Number'
               PROVE  /\ currentWeights'[j] = turns' * weight'[Listed'[j]] - chosen'[Listed'[j]] * All'
                      /\ -All' < currentWeights'[j]
    BY DEF HeavyInv
  <2>1. currentWeights = [k \in DOMAIN currentWeights |-> 0]
    BY <1>1
  <2>2. DOMAIN currentWeights = 1..Number'
    BY <1>0, <1>1 DEF BalanceTypes
  <2>3. currentWeights[j] = 0
    BY <2>1, <2>2
  <2>4. All' \in Nat /\ All' > 0
    BY <1>3 DEF Heavy
  <2>5. Listed'[j] \in 1..N /\ weight'[Listed'[j]] \in Nat
    BY <1>3
  <2>6. turns' * weight'[Listed'[j]] = 0 /\ chosen'[Listed'[j]] * All' = 0
    BY <1>1, <2>4, <2>5
  <2>7. QED
    BY <1>1, <2>3, <2>4, <2>6
<1>7. LightInv'
  BY <1>1 DEF LightInv
<1>8. QED
  BY <1>2, <1>4, <1>5, <1>6, <1>7 DEF BalanceInv

(* The first of the highest is one of them, and none is higher.             *)
LEMMA HighestIs ==
    ASSUME NEW n \in Nat \ {0}, NEW raised \in [1..n -> Int]
    PROVE  B!Highest(raised) \in 1..n /\ \A k \in 1..n : raised[k] <= raised[B!Highest(raised)]
<1> DEFINE low == [j \in 1..n |-> -raised[j]]
<1> DEFINE P(j) == \A k \in 1..n : raised[k] < raised[j] \/ (raised[k] = raised[j] /\ j <= k)
<1>1. \A j \in 1..n : raised[j] \in Int /\ low[j] = -raised[j]
  OBVIOUS
<1>2. PICK j \in 1..n : \A k \in 1..n : low[j] < low[k] \/ (low[j] = low[k] /\ j <= k)
  <2>1. 1..n \in SUBSET Int /\ IsFiniteSet(1..n) /\ 1..n # {} /\ \A x \in 1..n : low[x] \in Int
    <3>1. 1 \in 1..n
      OBVIOUS
    <3>2. IsFiniteSet(1..n)
      BY FS_Interval
    <3>3. \A x \in 1..n : low[x] \in Int
      BY <1>1
    <3>4. QED
      BY <3>1, <3>2, <3>3, SMTT(60)
  <2> HIDE DEF low
  <2>2. QED
    BY <2>1, FirstLeast
<1>3. P(j)
  <2> SUFFICES ASSUME NEW k \in 1..n PROVE raised[k] < raised[j] \/ (raised[k] = raised[j] /\ j <= k)
    OBVIOUS
  <2>1. /\ raised[k] \in Int /\ raised[j] \in Int /\ low[j] = -raised[j] /\ low[k] = -raised[k]
        /\ low[j] < low[k] \/ (low[j] = low[k] /\ j <= k)
    BY <1>1, <1>2
  <2> HIDE DEF low
  <2>2. QED
    BY <2>1
<1>4. DOMAIN raised = 1..n
  OBVIOUS
<1>5. B!Highest(raised) = CHOOSE m \in 1..n : P(m)
  BY <1>4 DEF B!Highest
<1> HIDE DEF P
<1>6. B!Highest(raised) \in 1..n /\ P(B!Highest(raised))
  BY <1>2, <1>3, <1>5
<1>7. ASSUME NEW k \in 1..n PROVE raised[k] <= raised[B!Highest(raised)]
  <2>1. raised[k] \in Int /\ raised[B!Highest(raised)] \in Int
    BY <1>6
  <2>2. raised[k] < raised[B!Highest(raised)] \/ raised[k] = raised[B!Highest(raised)]
    BY <1>6 DEF P
  <2>3. QED
    BY <2>1, <2>2
<1>8. QED
  BY <1>6, <1>7

(* Zeros, where the number of those alive has changed. *)
LEMMA Forgets ==
    ASSUME BalanceInv, strategy = "weighted_round_robin", up # {},
           NEW old, old = IF Len(currentWeights) = Number THEN currentWeights ELSE [j \in 1..Number |-> 0]
    PROVE  /\ old \in [1..Number -> Int] /\ Total(old, 1..Number) = 0
           /\ Len(currentWeights) # Number => turns = 0 /\ \A j \in 1..Number : old[j] = 0
<1>0. BalanceTypes /\ TurnsInv /\ SumInv
  BY DEF BalanceInv
<1>1. Number \in Nat
  BY <1>0, ListFacts, BalancersAssumption DEF ListKnown
<1>2. CASE Len(currentWeights) = Number
  <2>1. old = currentWeights /\ currentWeights \in Seq(Int)
    BY <1>0, <1>2 DEF BalanceTypes
  <2>2. old \in [1..Number -> Int]
    BY <1>2, <2>1
  <2>3. QED
    BY <1>0, <1>2, <2>1, <2>2 DEF SumInv
<1>3. CASE Len(currentWeights) # Number
  <2>1. old = [j \in 1..Number |-> 0] /\ turns = 0
    BY <1>0, <1>3 DEF TurnsInv
  <2>2. IsFiniteSet(1..Number) /\ \A j \in 1..Number : old[j] = 0
    BY <1>1, <2>1, FS_Interval
  <2>3. Total(old, 1..Number) = 0
    BY <2>2, TotalZero
  <2>4. old \in [1..Number -> Int]
    BY <2>1
  <2>5. QED
    BY <1>3, <2>1, <2>2, <2>3, <2>4
<1>4. QED
  BY <1>2, <1>3

(* What is due after one turn more is what is raised and paid. *)
IsDue(cur, turn, w, had, all) ==
    turn \in Nat /\ w \in Nat /\ had \in Nat /\ all \in Nat /\ cur = turn * w - had * all

LEMMA OneTurnMore ==
    ASSUME NEW cur, NEW turn, NEW w, NEW had, NEW all, IsDue(cur, turn, w, had, all)
    PROVE  \A d \in {0, 1} : cur + w - d * all = (turn + 1) * w - (had + d) * all
<1> TAKE d \in {0, 1}
<1>0. turn \in Nat /\ w \in Nat /\ had \in Nat /\ all \in Nat /\ cur = turn * w - had * all
  BY DEF IsDue
<1>1. turn \in Int /\ w \in Int /\ had \in Int /\ all \in Int /\ d \in Int
  BY <1>0
<1>2. turn * w - had * all + w - d * all = (turn + 1) * w - (had + d) * all
  BY <1>1, Z3
<1>3. QED
  BY <1>0, <1>2

(* A selection by weights. *)
LEMMA HeavyStep ==
    ASSUME BalanceInv, B!SelectWeighted, Heavy PROVE BalanceInv'
<1> DEFINE n == Number
<1> DEFINE w == [j \in 1..n |-> weight[Listed[j]]]
<1> DEFINE had == [j \in 1..n |-> chosen[Listed[j]]]
<1> DEFINE kept == Len(currentWeights) = n
<1> DEFINE old == IF kept THEN currentWeights ELSE [j \in 1..n |-> 0]
<1> DEFINE raised == [j \in 1..n |-> old[j] + w[j]]
<1> DEFINE best == B!Highest(raised)
<1>0. BalanceTypes /\ TurnsInv /\ SumInv /\ HeavyInv
  BY DEF BalanceInv
<1>1. strategy = "weighted_round_robin" /\ up # {} /\ All > 0
  BY DEF Heavy, B!SelectWeighted
<1>2. /\ UNCHANGED <<strategy, weight, up, connectionCounts, using>>
      /\ mixed' = (kept /\ mixed)
      /\ index' = IF kept THEN index ELSE 0
  BY <1>1, Listing DEF B!SelectWeighted, B!config
<1>3. currentWeights' = [raised EXCEPT ![best] = @ - All] /\ B!Chosen(Listed[best])
  <2>1. [j \in 1..n |-> old[j] + weight[Listed[j]]] = raised
    OBVIOUS
  <2>2. QED
    BY <1>1, <2>1, Listing DEF B!SelectWeighted
<1>4. UNCHANGED <<Number, Listed, All, Heavy>>
  BY <1>2, ListStays
<1>5. /\ n \in Nat \ {0} /\ n <= N /\ All \in Nat \ {0} /\ Total(w, 1..n) = All
      /\ \A j \in 1..n : Listed[j] \in 1..N /\ weight[Listed[j]] \in Nat
      /\ \A j, k \in 1..n : Listed[j] = Listed[k] => j = k
  <2>1. /\ Number \in 0..N /\ Number > 0 /\ All \in Nat /\ Total(w, 1..n) = All
        /\ \A j \in 1..Number : Listed[j] \in 1..N
        /\ \A j, k \in 1..Number : Listed[j] = Listed[k] => j = k
        /\ \A i \in 1..N : weight[i] \in Nat
    BY <1>0, <1>1, ListFacts DEF ListKnown
  <2>2. QED
    BY <1>1, <2>1, BalancersAssumption
<1>6. w \in [1..n -> Nat] /\ \A j \in 1..n : w[j] = weight[Listed[j]]
  BY <1>5
<1>7. had \in [1..n -> Nat] /\ \A j \in 1..n : had[j] = chosen[Listed[j]]
  BY <1>0, <1>5 DEF BalanceTypes
<1>8. /\ old \in [1..n -> Int] /\ Total(old, 1..n) = 0
      /\ ~kept => turns = 0 /\ \A j \in 1..n : old[j] = 0
  BY <1>1, Forgets
<1>9. ASSUME ~mixed \/ ~kept
      PROVE  \A j \in 1..n : old[j] = turns * w[j] - had[j] * All /\ -All < old[j]
  <2>1. CASE kept
    BY <1>0, <1>6, <1>7, <1>9, <2>1 DEF HeavyInv
  <2>2. CASE ~kept
    <3>1. ASSUME NEW j \in 1..n PROVE old[j] = turns * w[j] - had[j] * All /\ -All < old[j]
      <4>1. turns = 0 /\ old[j] = 0
        BY <1>8, <2>2
      <4>2. had[j] = 0
        BY <1>0, <1>5, <1>7, <4>1 DEF TurnsInv
      <4>3. w[j] \in Nat
        BY <1>6
      <4>4. turns * w[j] = 0 /\ had[j] * All = 0
        BY <1>5, <4>1, <4>2, <4>3
      <4>5. QED
        BY <1>5, <4>1, <4>4
    <3>2. QED
      BY <3>1
  <2>3. QED
    BY <2>1, <2>2
<1> HIDE DEF w, had, old
<1>10. raised \in [1..n -> Int] /\ \A j \in 1..n : raised[j] = old[j] + w[j]
  BY <1>6, <1>8
<1>11. best \in 1..n /\ \A k \in 1..n : raised[k] <= raised[best]
  <2> HIDE DEF raised
  <2>1. QED
    BY <1>5, <1>10, HighestIs
<1> HIDE DEF raised, best
<1>12. /\ currentWeights' \in [1..n -> Int] /\ currentWeights'[best] = old[best] + w[best] - All
       /\ \A j \in (1..n) \ {best} : currentWeights'[j] = old[j] + w[j]
  <2>1. raised[best] - All \in Int
    BY <1>5, <1>10, <1>11
  <2>2. QED
    <3>1. currentWeights' \in [1..n -> Int]
      BY <1>3, <1>10, <2>1
    <3>2. currentWeights'[best] = raised[best] - All
      BY <1>3, <1>10, <1>11
    <3>3. \A j \in (1..n) \ {best} : currentWeights'[j] = raised[j]
      BY <1>3, <1>10
    <3>4. raised[best] = old[best] + w[best] /\ \A j \in 1..n : raised[j] = old[j] + w[j]
      BY <1>10, <1>11
    <3>8. old[best] \in Int /\ w[best] \in Int /\ All \in Int
      BY <1>5, <1>6, <1>8, <1>11
    <3>5. currentWeights'[best] = old[best] + w[best] - All
      BY <3>2, <3>4, <3>8
    <3>6. \A j \in (1..n) \ {best} : currentWeights'[j] = old[j] + w[j]
      BY <3>3, <3>4
    <3>7. QED
      BY <3>1, <3>5, <3>6
<1>13. Smooth(n, w, old, currentWeights', best, All)
  <2>1. \A k \in 1..n : old[k] + w[k] <= old[best] + w[best]
    BY <1>10, <1>11
  <2>2. QED
    BY <1>1, <1>5, <1>6, <1>8, <1>11, <1>12, <2>1 DEF Smooth
<1>14. /\ Total(currentWeights', 1..n) = 0
       /\ (\A j \in 1..n : -All < old[j]) => \A j \in 1..n : -All < currentWeights'[j]
  BY <1>13, SmoothSelection
<1>15. currentWeights' \in Seq(Int) /\ Len(currentWeights') = n
  BY <1>5, <1>12
<1>16. /\ turns' = IF turns = All THEN 1 ELSE turns + 1
       /\ chosen' \in [1..N -> Nat]
       /\ \A k \in 1..N : chosen'[k] = (IF turns = All THEN 0 ELSE chosen[k])
                                       + (IF k = Listed[best] THEN 1 ELSE 0)
  <2>1. Listed[best] \in 1..N
    BY <1>5, <1>11
  <2>2. QED
    BY <1>0, <1>3, <2>1, Selected
<1>17. turns \in Nat /\ turns <= All
  BY <1>0 DEF BalanceTypes, TurnsInv
<1>18. turns' \in Nat /\ turns' > 0 /\ turns' <= All
  BY <1>5, <1>16, <1>17
<1>19. index' \in Nat /\ index' < n /\ index' < Cycle
  <2>1. index \in 0..Cycle - 1 /\ Cycle \in Nat \ {0}
    BY <1>0, BalancersAssumption DEF BalanceTypes
  <2>2. kept => index < n
    BY <1>0, <1>1, <1>5 DEF TurnsInv
  <2>3. QED
    BY <1>2, <1>5, <2>1, <2>2
<1>20. BalanceTypes'
  <2>1. mixed' \in BOOLEAN
    BY <1>2
  <2>2. index' \in 0..Cycle - 1
    BY <1>19, BalancersAssumption
  <2>3. QED
    BY <1>0, <1>2, <1>5, <1>15, <1>16, <1>18, <2>1, <2>2 DEF BalanceTypes
<1>21. TurnsInv'
  BY <1>1, <1>2, <1>4, <1>15, <1>18, <1>19 DEF TurnsInv
<1>22. SumInv'
  BY <1>14, <1>15 DEF SumInv
<1>23. LightInv'
  BY <1>4 DEF LightInv
<1>24. HeavyInv'
  <2> SUFFICES ASSUME ~mixed', NEW j \in 1..n
               PROVE  /\ currentWeights'[j] = turns' * w[j] - chosen'[Listed[j]] * All
                      /\ -All < currentWeights'[j]
    BY <1>2, <1>4, <1>6 DEF HeavyInv
  <2>1. ~mixed \/ ~kept
    BY <1>2
  <2>2. \A k \in 1..n : old[k] = turns * w[k] - had[k] * All /\ -All < old[k]
    BY <1>9, <2>1
  <2>3. -All < currentWeights'[j]
    BY <1>14, <2>2
  <2> DEFINE d == IF j = best THEN 1 ELSE 0
  <2>4. Listed[j] = Listed[best] <=> j = best
    BY <1>5, <1>11
  <2>5. chosen'[Listed[j]] = (IF turns = All THEN 0 ELSE had[j]) + d
    BY <1>5, <1>7, <1>16, <2>4, SMTT(60)
  <2>6. currentWeights'[j] = old[j] + w[j] - d * All
    <3>1. old[j] \in Int /\ w[j] \in Nat
      BY <1>6, <1>8
    <3>2. CASE j = best
      BY <1>5, <1>12, <3>1, <3>2
    <3>3. CASE j # best
      BY <1>5, <1>12, <3>1, <3>3
    <3>4. QED
      BY <3>2, <3>3
  <2>7. d \in {0, 1} /\ w[j] \in Nat /\ had[j] \in Nat /\ All \in Nat
    BY <1>5, <1>6, <1>7
  <2> HIDE DEF d
  <2>8. CASE turns = All
    <3>1. Due(n, w, old, had, turns, All)
      BY <1>5, <1>6, <1>7, <1>8, <1>17, <2>2 DEF Due
    <3>2. old[j] = 0
      BY <2>8, <3>1, RoundEnds
    <3>3. IsDue(old[j], 0, w[j], 0, All)
      BY <2>7, <3>2 DEF IsDue
    <3>4. old[j] + w[j] - d * All = (0 + 1) * w[j] - (0 + d) * All
      BY <2>7, <3>3, OneTurnMore
    <3>5. turns' = 0 + 1 /\ chosen'[Listed[j]] = 0 + d
      BY <1>16, <2>5, <2>7, <2>8
    <3>6. QED
      BY <2>3, <2>6, <3>4, <3>5
  <2>9. CASE turns # All
    <3>1. old[j] + w[j] - d * All = (turns + 1) * w[j] - (had[j] + d) * All
      <4>1. IsDue(old[j], turns, w[j], had[j], All)
        BY <1>17, <2>2, <2>7 DEF IsDue
      <4>2. QED
        BY <2>7, <4>1, OneTurnMore
    <3>2. turns' = turns + 1 /\ chosen'[Listed[j]] = had[j] + d
      BY <1>16, <2>5, <2>9
    <3>3. QED
      BY <2>3, <2>6, <3>1, <3>2
  <2>10. QED
    BY <2>8, <2>9
<1>25. QED
  BY <1>20, <1>21, <1>22, <1>23, <1>24 DEF BalanceInv

(* The weighted balancer without weights goes round. *)
LEMMA LightStep == ASSUME BalanceInv, B!SelectWeighted, ~Heavy PROVE BalanceInv'
<1> DEFINE n == Number
<1> DEFINE kept == Len(currentWeights) = n
<1> DEFINE old == IF kept THEN currentWeights ELSE [j \in 1..n |-> 0]
<1> DEFINE next == IF kept THEN index ELSE 0
<1> DEFINE last == IF next = 0 THEN n - 1 ELSE next - 1
<1>0. BalanceTypes /\ TurnsInv /\ SumInv
  BY DEF BalanceInv
<1>1. strategy = "weighted_round_robin" /\ up # {} /\ ~(All > 0)
  BY DEF Heavy, B!SelectWeighted
<1>2. /\ UNCHANGED <<strategy, weight, up, connectionCounts, using>>
      /\ mixed' = (kept /\ mixed)
      /\ currentWeights' = old
      /\ index' = (next + 1) % n
      /\ B!Chosen(B!At(next))
  BY <1>1, Listing DEF B!SelectWeighted, B!config
<1>3. UNCHANGED <<Number, Listed, All, Heavy>>
  BY <1>2, ListStays
<1>4. n \in Nat \ {0} /\ n <= N /\ N \in Nat /\ n <= Cycle /\ Cycle \in Nat \ {0}
  <2>1. Number \in 0..N /\ Number > 0 /\ N \in Nat /\ Cycle \in Nat \ {0}
    BY <1>0, <1>1, ListFacts, BalancersAssumption DEF ListKnown
  <2>2. Number <= Cycle
    <3>1. SUFFICES ASSUME Cycle < Number PROVE FALSE
      BY <2>1
    <3>2. (Number * 0 + Cycle) % Number = Cycle
      BY <2>1, <3>1, Remainder
    <3>3. Number * 0 + Cycle = Cycle
      BY <2>1
    <3>4. Cycle % Number = 0
      BY <2>1, BalancersAssumption
    <3>5. QED
      BY <2>1, <3>2, <3>3, <3>4
  <2>3. QED
    BY <2>1, <2>2
<1>5. /\ old \in [1..n -> Int] /\ Total(old, 1..n) = 0 /\ (~kept => turns = 0)
  BY <1>1, Forgets
<1>6. next \in 0..n - 1
  BY <1>0, <1>1, <1>4 DEF TurnsInv, BalanceTypes
<1>7. last \in 0..n - 1 /\ next = IF last = n - 1 THEN 0 ELSE last + 1
  BY <1>4, <1>6
<1>8. turns > 0 => last = Last
  BY <1>1, <1>5 DEF Last
<1> HIDE DEF old, next, last
<1>9. index' = (IF next = n - 1 THEN 0 ELSE next + 1) /\ next % n = next
  <2>1. (n * 0 + next) % n = next /\ n * 0 + next = next
    BY <1>4, <1>6, Remainder
  <2>2. next % n = next
    BY <2>1
  <2>3. (next + 1) % n = IF next % n = n - 1 THEN 0 ELSE (next % n) + 1
    <3>1. next \in Nat
      BY <1>6
    <3>2. QED
      BY <1>4, <3>1, NextRemainder
  <2>4. QED
    BY <1>2, <2>2, <2>3
<1>10. next = Last'
  BY <1>1, <1>2, <1>3, <1>4, <1>6, <1>9 DEF Last
<1>11. B!Chosen(Listed[next + 1])
  BY <1>2, <1>9, Listing DEF B!At
<1>12. /\ turns' \in Nat /\ turns' > 0 /\ turns' <= Number
       /\ chosen' \in [1..N -> Nat] /\ LightInv'
  BY <1>1, <1>2, <1>6, <1>7, <1>8, <1>10, <1>11, InTurnStep
<1>13. currentWeights' \in Seq(Int) /\ Len(currentWeights') = n
  BY <1>2, <1>4, <1>5
<1>14. index' \in 0..n - 1
  BY <1>4, <1>6, <1>9
<1>15. BalanceTypes'
  <2>1. mixed' \in BOOLEAN /\ index' \in 0..Cycle - 1
    BY <1>2, <1>4, <1>14
  <2>2. QED
    BY <1>0, <1>2, <1>4, <1>12, <1>13, <2>1 DEF BalanceTypes
<1>16. TurnsInv'
  BY <1>1, <1>2, <1>3, <1>12, <1>13, <1>14 DEF TurnsInv
<1>17. SumInv'
  BY <1>2, <1>5, <1>13 DEF SumInv
<1>18. HeavyInv'
  BY <1>3 DEF HeavyInv
<1>19. QED
  BY <1>12, <1>15, <1>16, <1>17, <1>18 DEF BalanceInv

(* Whatever else happens leaves the rounds alone. *)
LEMMA RoundsStay ==
    ASSUME BalanceInv, UNCHANGED <<strategy, weight, up, index, currentWeights, turns, chosen, mixed>>
    PROVE  BalanceInv'
<1>1. UNCHANGED <<Number, Listed, All, Heavy>>
  BY ListStays
<1>2. Last' = Last
  BY <1>1 DEF Last
<1>3. BalanceTypes'
  BY DEF BalanceInv, BalanceTypes
<1>4. TurnsInv'
  BY <1>1 DEF BalanceInv, TurnsInv
<1>5. SumInv'
  BY DEF BalanceInv, SumInv
<1>6. HeavyInv'
  BY <1>1 DEF BalanceInv, HeavyInv
<1>7. LightInv'
  BY <1>1, <1>2 DEF BalanceInv, LightInv
<1>8. QED
  BY <1>3, <1>4, <1>5, <1>6, <1>7 DEF BalanceInv

(* The balancers start with the counts, the users and the rounds at nothing. *)
UsersInv == using \in [Callers -> 0..N]
BalancerInv == BalanceInv /\ CountsInv /\ UsersInv

LEMMA BalancerStarts == ASSUME B!Init PROVE BalancerInv
<1>1. /\ strategy \in {"round_robin", "weighted_round_robin", "least_connection"}
      /\ up = 1..N /\ index = 0 /\ currentWeights = <<>> /\ using = [u \in Callers |-> 0]
      /\ turns = 0 /\ chosen = [i \in 1..N |-> 0] /\ mixed = FALSE
  BY DEF B!Init, B!AllInstances, B!Nobody
<1>2. weight \in [1..N -> 0..MaxWeight]
  <2>1. weight \in [1..N -> 0..MaxWeight] \/ weight = [i \in 1..N |-> 1]
    BY DEF B!Init, B!AllInstances
  <2>2. QED
    BY <2>1, BalancersAssumption
<1>3. BalanceTypes
  <2>1. 0 \in 0..Cycle - 1 /\ N \in Nat
    BY BalancersAssumption
  <2>2. <<>> \in Seq(Int) /\ Len(<<>>) = 0
    OBVIOUS
  <2>3. chosen \in [1..N -> Nat] /\ mixed \in BOOLEAN
    BY <1>1
  <2>4. QED
    BY <1>1, <1>2, <2>1, <2>2, <2>3 DEF BalanceTypes
<1>4. Number \in Nat /\ All \in Nat
  BY <1>3, ListFacts, BalancersAssumption DEF ListKnown
<1>5. TurnsInv
  BY <1>1, <1>4 DEF TurnsInv
<1>6. SumInv
  <2>1. 1..Len(currentWeights) = {}
    BY <1>1
  <2>2. QED
    BY <2>1, TotalSteps DEF SumInv
<1>7. HeavyInv
  <2>1. SUFFICES ASSUME Number = 0, Heavy PROVE FALSE
    BY <1>1 DEF HeavyInv
  <2>2. up = {}
    BY <1>3, <2>1, ListFacts DEF ListKnown
  <2>3. All = 0
    BY <2>2, TotalSteps DEF All
  <2>4. QED
    BY <2>1, <2>3 DEF Heavy
<1>8. LightInv
  BY <1>1 DEF LightInv
<1>9. CountsInv
  BY BalancersAssumption, CountsStart
<1>10. UsersInv
  BY <1>1, BalancersAssumption DEF UsersInv
<1>11. QED
  BY <1>3, <1>5, <1>6, <1>7, <1>8, <1>9, <1>10 DEF BalancerInv, BalanceInv

(* Whoever has the fewest connections is alive. *)
LEMMA LeastIsAlive ==
    ASSUME BalancerInv, NEW u \in Callers, B!SelectLeast(u)
    PROVE  /\ UsersInv' /\ UNCHANGED <<strategy, weight, up, index, currentWeights, turns, chosen, mixed>>
<1> DEFINE P(i) == \A j \in up :
                    \/ connectionCounts[i] < connectionCounts[j]
                    \/ connectionCounts[i] = connectionCounts[j] /\ i <= j
<1> DEFINE least == CHOOSE i \in up : P(i)
<1>1. /\ up # {} /\ using' = [using EXCEPT ![u] = least]
      /\ UNCHANGED <<strategy, weight, up, index, currentWeights, turns, chosen, mixed>>
  BY DEF B!SelectLeast, B!config, B!history
<1>2. BalanceTypes /\ UsersInv /\ connectionCounts \in [1..N -> Nat]
  BY DEF BalancerInv, BalanceInv, CountsInv, B!AllInstances
<1>3. \E i \in up : P(i)
  <2>1. IsFiniteSet(up) /\ up \in SUBSET (1..N) /\ N \in Nat
    BY <1>2, ListFacts, BalancersAssumption DEF ListKnown, BalanceTypes
  <2>2. up \in SUBSET Int /\ \A x \in up : connectionCounts[x] \in Int
    BY <1>2, <2>1
  <2>3. QED
    BY <1>1, <2>1, <2>2, FirstLeast
<1> HIDE DEF P
<1>4. least \in up
  BY <1>3
<1> HIDE DEF least
<1>5. least \in 0..N
  BY <1>2, <1>4, BalancersAssumption DEF BalanceTypes
<1>6. UsersInv'
  BY <1>1, <1>2, <1>5 DEF UsersInv
<1>7. QED
  BY <1>1, <1>6

LEMMA BalancerStep == ASSUME BalancerInv, [B!Next]_balancerVars PROVE BalancerInv'
<1>0. BalanceInv /\ CountsInv /\ UsersInv
  BY DEF BalancerInv
<1>1. CountsInv'
  <2>1. [B!Next]_(B!vars)
    BY DEF balancerVars, B!vars, B!config, B!balance, B!history
  <2>2. QED
    BY <1>0, <2>1, BalancersAssumption, CountsStep
<1>2. ASSUME NEW i \in 1..N, B!Change(i) PROVE BalanceInv' /\ UsersInv'
  <2>1. using' = using
    BY <1>2 DEF B!Change
  <2>2. QED
    BY <1>0, <1>2, <2>1, ChangeStep DEF UsersInv
<1>3. CASE B!SelectNext
  <2>1. using' = using
    BY <1>3 DEF B!SelectNext
  <2>2. QED
    BY <1>0, <1>1, <1>3, <2>1, NextStep DEF UsersInv, BalancerInv
<1>4. CASE B!SelectWeighted
  <2>1. using' = using
    BY <1>4 DEF B!SelectWeighted
  <2>2. BalanceInv'
    BY <1>0, <1>4, HeavyStep, LightStep
  <2>3. QED
    BY <1>0, <1>1, <2>1, <2>2 DEF UsersInv, BalancerInv
<1>5. ASSUME NEW u \in Callers, B!SelectLeast(u) PROVE BalanceInv' /\ UsersInv'
  BY <1>0, <1>5, LeastIsAlive, RoundsStay
<1>6. ASSUME NEW u \in Callers, B!ReleaseConnection(u) PROVE BalanceInv' /\ UsersInv'
  <2>1. /\ using' = [using EXCEPT ![u] = 0]
        /\ UNCHANGED <<strategy, weight, up, index, currentWeights, turns, chosen, mixed>>
    BY <1>6 DEF B!ReleaseConnection, B!config, B!history
  <2>2. UsersInv'
    BY <1>0, <2>1, BalancersAssumption DEF UsersInv
  <2>3. QED
    BY <1>0, <2>1, <2>2, RoundsStay
<1>7. CASE UNCHANGED balancerVars
  <2>1. UNCHANGED <<strategy, weight, up, index, currentWeights, turns, chosen, mixed, using>>
    BY <1>7 DEF balancerVars
  <2>2. QED
    BY <1>0, <1>1, <2>1, RoundsStay DEF UsersInv, BalancerInv
<1>8. QED
  BY <1>1, <1>2, <1>3, <1>4, <1>5, <1>6, <1>7 DEF B!Next, B!AllInstances, BalancerInv

(* What the balancers promise. *)
LEMMA RoundsFair == ASSUME BalancerInv PROVE B!FairRounds
<1>0. BalanceTypes /\ TurnsInv /\ SumInv /\ HeavyInv /\ LightInv
  BY DEF BalancerInv, BalanceInv
<1> DEFINE n == Number
<1> DEFINE w == [j \in 1..n |-> weight[Listed[j]]]
<1> DEFINE had == [j \in 1..n |-> chosen[Listed[j]]]
<1>1. ListKnown /\ up \in SUBSET (1..N)
  BY <1>0, ListFacts DEF BalanceTypes
<1>2. /\ n \in Nat /\ w \in [1..n -> Nat] /\ had \in [1..n -> Nat]
      /\ \A j \in 1..n : w[j] = weight[Listed[j]] /\ had[j] = chosen[Listed[j]]
  <2>1. \A j \in 1..n : Listed[j] \in 1..N /\ weight[Listed[j]] \in Nat
    BY <1>1 DEF ListKnown
  <2>2. n \in Nat
    BY <1>1, BalancersAssumption DEF ListKnown
  <2>3. \A j \in 1..n : chosen[Listed[j]] \in Nat
    BY <1>0, <2>1 DEF BalanceTypes
  <2>4. QED
    BY <2>1, <2>2, <2>3
<1> HIDE DEF w, had
<1>3. ASSUME Heavy, ~mixed, Len(currentWeights) = n PROVE Due(n, w, currentWeights, had, turns, All)
  <2>1. currentWeights \in [1..n -> Int] /\ turns \in Nat
    BY <1>0, <1>3 DEF BalanceTypes
  <2>2. All \in Nat \ {0} /\ Total(currentWeights, 1..n) = 0
    BY <1>0, <1>1, <1>3 DEF ListKnown, Heavy, SumInv
  <2>3. \A j \in 1..n : currentWeights[j] = turns * w[j] - had[j] * All /\ -All < currentWeights[j]
    BY <1>0, <1>2, <1>3 DEF HeavyInv
  <2>4. QED
    BY <1>2, <2>1, <2>2, <2>3 DEF Due
<1>4. ASSUME Heavy, Len(currentWeights) # n PROVE turns = 0 /\ \A i \in 1..N : chosen[i] = 0
  BY <1>0, <1>4 DEF Heavy, TurnsInv
<1>5. ASSUME ~mixed, turns = (IF Heavy THEN All ELSE Number), NEW i \in up
      PROVE  chosen[i] = IF Heavy THEN weight[i] ELSE 1
  <2>1. PICK j \in 1..n : Listed[j] = i
    BY <1>1 DEF ListKnown
  <2>2. w[j] = weight[i] /\ had[j] = chosen[i]
    BY <1>2, <2>1
  <2>3. CASE Heavy
    <3>1. All > 0 /\ turns = All
      BY <1>5, <2>3 DEF Heavy
    <3>2. Len(currentWeights) = n
      BY <1>4, <2>3, <3>1
    <3>3. Due(n, w, currentWeights, had, turns, All)
      BY <1>3, <1>5, <2>3, <3>2
    <3>4. had[j] = w[j]
      BY <3>1, <3>3, RoundEnds
    <3>5. QED
      BY <2>2, <2>3, <3>4
  <2>4. CASE ~Heavy
    <3>1. turns = n /\ n > 0
      BY <1>2, <1>5, <2>1, <2>4
    <3>2. InTurn(n, Last, n, had)
      BY <1>0, <2>4, <3>1 DEF LightInv, had
    <3>3. Last \in 0..n - 1
      <4>1. CASE strategy = "round_robin"
        <5>1. index \in Nat
          BY <1>0, BalancersAssumption DEF BalanceTypes
        <5>2. index % n \in 0..n - 1
          <6>1. n \in Nat \ {0}
            BY <1>2, <3>1
          <6> HIDE DEF n
          <6>2. QED
            BY <5>1, <6>1, NextRemainder
        <5>3. QED
          BY <4>1, <5>2 DEF Last
      <4>2. CASE strategy = "weighted_round_robin"
        <5>1. index \in 0..n - 1
          <6>1. index \in Nat
            BY <1>0, BalancersAssumption DEF BalanceTypes
          <6>2. Len(currentWeights) = n
            BY <1>0, <3>1, <4>2 DEF TurnsInv
          <6>3. index < n
            BY <1>0, <3>1, <4>2, <6>1, <6>2 DEF TurnsInv
          <6>4. QED
            BY <1>2, <6>1, <6>3
        <5>2. QED
          BY <3>1, <4>2, <5>1, <1>2 DEF Last
      <4>3. strategy # "least_connection"
        BY <1>0, <3>1 DEF TurnsInv
      <4>4. QED
        BY <1>0, <4>1, <4>2, <4>3 DEF BalanceTypes
    <3>4. Back(n, Last, j) < n
      BY <1>2, <2>1, <3>3 DEF Back
    <3>5. had[j] = 1
      BY <3>2, <3>4 DEF InTurn
    <3>6. QED
      BY <2>2, <2>4, <3>5
  <2>5. QED
    BY <2>3, <2>4
<1>6. ASSUME ~mixed, Heavy, NEW i \in up
      PROVE  /\ -All < turns * weight[i] - chosen[i] * All
             /\ turns * weight[i] - chosen[i] * All <= (n - 1) * (All - 1)
  <2>1. PICK j \in 1..n : Listed[j] = i
    BY <1>1 DEF ListKnown
  <2>2. w[j] = weight[i] /\ had[j] = chosen[i]
    BY <1>2, <2>1
  <2>3. CASE Len(currentWeights) = n
    <3>1. Due(n, w, currentWeights, had, turns, All)
      BY <1>3, <1>6, <2>3
    <3>2. currentWeights[j] <= (n - 1) * (All - 1)
      BY <3>1, DueBounded
    <3>3. currentWeights[j] = turns * w[j] - had[j] * All /\ -All < currentWeights[j]
      BY <3>1 DEF Due
    <3>4. QED
      BY <2>2, <3>2, <3>3
  <2>4. CASE Len(currentWeights) # n
    <3>1. turns = 0 /\ chosen[i] = 0
      BY <1>1, <1>4, <1>6, <2>4
    <3>2. All \in Nat /\ All > 0 /\ weight[i] \in Nat
      BY <1>1, <1>6 DEF ListKnown, Heavy
    <3>3. turns * weight[i] = 0 /\ chosen[i] * All = 0
      BY <3>1, <3>2
    <3>4. n - 1 \in Nat /\ All - 1 \in Nat
      BY <1>2, <2>1, <3>2
    <3>5. (n - 1) * (All - 1) >= 0
      BY <3>4
    <3>6. QED
      BY <3>2, <3>3, <3>5
  <2>5. QED
    BY <2>3, <2>4
<1>7. QED
  BY <1>5, <1>6, Listing DEF B!FairRounds, B!Share

LEMMA BalancerPromise == BalancerInv => BalancersSound
<1> SUFFICES ASSUME BalancerInv PROVE BalancersSound
  OBVIOUS
<1>1. BalanceTypes /\ SumInv /\ CountsInv /\ UsersInv
  BY DEF BalancerInv, BalanceInv
<1>2. B!TypeOK
  BY <1>1 DEF B!TypeOK, B!AllInstances, BalanceTypes, CountsInv, UsersInv
<1>3. B!WeightsCancel
  <2>1. DOMAIN currentWeights = 1..Len(currentWeights)
    BY <1>1 DEF BalanceTypes
  <2>2. Total(currentWeights, DOMAIN currentWeights) = 0
    BY <1>1, <2>1 DEF SumInv
  <2>3. B!MapThenSumSet(LAMBDA j : currentWeights[j], DOMAIN currentWeights)
            = Total(currentWeights, DOMAIN currentWeights)
    BY DEF B!MapThenSumSet, B!MapThenFoldSet, Total, MapThenSumSet, MapThenFoldSet
  <2>4. QED
    BY <2>2, <2>3 DEF B!WeightsCancel
<1>4. B!CountsRight
  BY <1>1, CountsMean
<1>5. QED
  BY <1>2, <1>3, <1>4, RoundsFair DEF BalancersSound, B!BalancersFair

(* For any instances, weights and users, whatever instances die and come    *)
(* back: a complete round gives everyone alive its share, by weights or in  *)
(* turn; nobody is a whole selection ahead of its share meanwhile; the      *)
(* weights that are kept add up to nothing; and the counts are those of the *)
(* connections (balancer.go:35-155, 287-344).                               *)
THEOREM BalancersHold == MCSpec => []BalancersSound
<1>1. MCInit => BalancerInv
  BY BalancerStarts DEF MCInit
<1>2. BalancerInv /\ [MCNext]_mcVars => BalancerInv'
  BY BalancerStep, EachMoves
<1>3. QED
  BY <1>1, <1>2, BalancerPromise, PTL DEF MCSpec

=============================================================================
