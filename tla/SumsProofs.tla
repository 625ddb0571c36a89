----------------------------- MODULE SumsProofs -----------------------------
(***************************************************************************)
(* Facts about functions defined by recursion on 0..n, and from them the   *)
(* laws of Total. The induction theorems of the library take an operator   *)
(* as parameter; here an induction is over a set of naturals, often as the *)
(* choice of a least counterexample, and a recursive definition is given   *)
(* by its step as a function.                                              *)
(***************************************************************************)
EXTENDS Sums, Integers, FiniteSetTheorems, WellFoundedInduction, TLAPS

\* A non-empty set of naturals has a least element: the interval below it is
\* minimal, for strict inclusion, among the intervals below the set's elements.
LEMMA LeastNat ==
  ASSUME NEW T, T \subseteq Nat, T # {}
  PROVE  \E m \in T : \A k \in T : m <= k
<1> DEFINE F == {0 .. j : j \in T}
<1>1. F \subseteq FiniteSubsetsOf(Nat) /\ F # {}
  <2>1. ASSUME NEW j \in T PROVE 0 .. j \in FiniteSubsetsOf(Nat)
    <3>1. j \in Int /\ 0 \in Int
      OBVIOUS
    <3>2. IsFiniteSet(0 .. j)
      BY <3>1, FS_Interval
    <3> QED
      BY <3>2 DEF FiniteSubsetsOf
  <2> QED
    BY <2>1
<1>2. IsWellFoundedOn(StrictSubsetOrdering(Nat), FiniteSubsetsOf(Nat))
  BY FS_StrictSubsetOrderingWellFounded
<1>3. \E x \in F : \A y \in F : ~ (<<y, x>> \in StrictSubsetOrdering(Nat))
  <2> HIDE DEF F
  <2> QED
    BY <1>1, <1>2, WFMin
<1>4. PICK m \in T : \A k \in T : ~ (<<0 .. k, 0 .. m>> \in StrictSubsetOrdering(Nat))
  BY <1>3
<1>5. ASSUME NEW k \in T PROVE m <= k
  <2>1. m \in Nat /\ k \in Nat
    OBVIOUS
  <2>2. SUFFICES ASSUME k < m PROVE FALSE
    BY <2>1
  <2>3. 0 .. k \subseteq 0 .. m /\ m \in 0 .. m /\ m \notin 0 .. k
    BY <2>1, <2>2
  <2>4. 0 .. k \in SUBSET Nat /\ 0 .. m \in SUBSET Nat
    BY <2>1
  <2>5. <<0 .. k, 0 .. m>> \in StrictSubsetOrdering(Nat)
    BY <2>3, <2>4 DEF StrictSubsetOrdering
  <2> QED
    BY <1>4, <2>5
<1> QED
  BY <1>5

\* Induction up to n: a set of numbers that contains 0 and the successor of each
\* of its elements below n contains 0..n.
LEMMA UpTo ==
  ASSUME NEW n \in Nat, NEW S, 0 \in S, \A k \in 1 .. n : k - 1 \in S => k \in S
  PROVE  \A k \in 0 .. n : k \in S
<1> DEFINE T == {k \in 0 .. n : k \notin S}
<1>1. SUFFICES ASSUME T # {} PROVE FALSE
  OBVIOUS
<1>2. PICK k \in T : \A j \in T : k <= j
  <2>1. T \subseteq Nat
    OBVIOUS
  <2> HIDE DEF T
  <2> QED
    BY <1>1, <2>1, LeastNat
<1>3. k \in 1 .. n /\ k - 1 \in 0 .. n /\ ~ (k <= k - 1)
  <2>1. k # 0
    BY <1>2
  <2> QED
    BY <1>2, <2>1
<1>4. k - 1 \in S
  BY <1>2, <1>3
<1> QED
  BY <1>2, <1>3, <1>4

\* A step function F and a start x0 define a sequence of values x0, F[1][x0], ...
IsRecursion(f, n, X, x0, F) ==
  /\ f \in [0 .. n -> X]
  /\ f[0] = x0
  /\ \A k \in 1 .. n : f[k] = F[k][f[k - 1]]

\* Such a sequence exists for every length.
LEMMA RecursionExists ==
  ASSUME NEW n \in Nat, NEW X, NEW x0 \in X, NEW F \in [1 .. n -> [X -> X]]
  PROVE  \E f : IsRecursion(f, n, X, x0, F)
<1> DEFINE S == {k \in 0 .. n : \E f : IsRecursion(f, k, X, x0, F)}
<1>1. 0 \in S
  <2>1. IsRecursion([m \in 0 .. 0 |-> x0], 0, X, x0, F)
    BY DEF IsRecursion
  <2> QED
    BY <2>1
<1>2. ASSUME NEW k \in 1 .. n, k - 1 \in S PROVE k \in S
  <2>1. PICK f : IsRecursion(f, k - 1, X, x0, F)
    BY <1>2
  <2> DEFINE g == [m \in 0 .. k |-> IF m = k THEN F[k][f[k - 1]] ELSE f[m]]
  <2>2. f[k - 1] \in X /\ F[k][f[k - 1]] \in X
    <3>1. k - 1 \in 0 .. (k - 1)
      OBVIOUS
    <3>2. f[k - 1] \in X
      BY <2>1, <3>1 DEF IsRecursion
    <3> QED
      BY <3>2
  <2>3. g \in [0 .. k -> X]
    BY <2>1, <2>2 DEF IsRecursion
  <2>4. g[0] = x0
    BY <2>1 DEF IsRecursion
  <2>5. ASSUME NEW m \in 1 .. k PROVE g[m] = F[m][g[m - 1]]
    BY <2>1 DEF IsRecursion
  <2>6. IsRecursion(g, k, X, x0, F)
    <3> HIDE DEF g
    <3> QED
      BY <2>3, <2>4, <2>5 DEF IsRecursion
  <2>7. k \in 0 .. n
    OBVIOUS
  <2> HIDE DEF g
  <2> QED
    BY <2>6, <2>7
<1>3. \A k \in 0 .. n : k \in S
  <2> HIDE DEF S
  <2> QED
    BY <1>1, <1>2, UpTo
<1> QED
  BY <1>3

-----------------------------------------------------------------------------
(* Sums. *)

\* s is the running sum of f over 0..k.
IsRunningSum(s, f, k) ==
  /\ s \in [0 .. k -> Nat]
  /\ s[0] = 0
  /\ \A m \in 1 .. k : s[m] = s[m - 1] + f[m]

\* Every finite function has a running sum.
LEMMA RunningSumExists ==
  ASSUME NEW n \in Nat, NEW f \in [1 .. n -> Nat]
  PROVE  \E s : IsRunningSum(s, f, n)
<1> DEFINE T == {k \in 0 .. n : ~ \E s : IsRunningSum(s, f, k)}
<1>1. SUFFICES ASSUME T # {} PROVE FALSE
  <2>1. n \in 0 .. n
    OBVIOUS
  <2> QED
    BY <2>1
<1>2. PICK k \in T : \A j \in T : k <= j
  <2>1. T \subseteq Nat
    OBVIOUS
  <2> HIDE DEF T
  <2> QED
    BY <1>1, <2>1, LeastNat
<1>3. k \in 0 .. n /\ ~ \E s : IsRunningSum(s, f, k)
  OBVIOUS
<1>4. CASE k = 0
  <2>1. IsRunningSum([m \in 0 .. 0 |-> 0], f, 0)
    BY DEF IsRunningSum
  <2> QED
    BY <1>3, <1>4, <2>1
<1>5. CASE k # 0
  <2>1. k - 1 \in 0 .. n /\ k - 1 \in Nat /\ k \in 1 .. n
    BY <1>3, <1>5
  <2>2. k - 1 \notin T
    BY <1>2, <1>3, <2>1
  <2>3. PICK s : IsRunningSum(s, f, k - 1)
    BY <2>1, <2>2
  <2> DEFINE t == [m \in 0 .. k |-> IF m = k THEN s[k - 1] + f[k] ELSE s[m]]
  <2>4. t \in [0 .. k -> Nat] /\ t[0] = 0
    BY <2>1, <2>3 DEF IsRunningSum
  <2>5. ASSUME NEW m \in 1 .. k PROVE t[m] = t[m - 1] + f[m]
    BY <2>1, <2>3 DEF IsRunningSum
  <2>6. IsRunningSum(t, f, k)
    <3> HIDE DEF t
    <3> QED
      BY <2>4, <2>5 DEF IsRunningSum
  <2> QED
    BY <1>3, <2>6
<1> QED
  BY <1>4, <1>5

\* PartialSums(f, n) is the running sum its recursive definition says it is.
LEMMA PartialSumsIsRunningSum ==
  ASSUME NEW n \in Nat, NEW f \in [1 .. n -> Nat]
  PROVE  IsRunningSum(PartialSums(f, n), f, n)
<1> DEFINE Eq(s) == s = [m \in 0 .. n |-> IF m = 0 THEN 0 ELSE s[m - 1] + f[m]]
<1>1. PICK r : IsRunningSum(r, f, n)
  BY RunningSumExists
<1>2. Eq(r)
  BY <1>1 DEF IsRunningSum
<1>3. Eq(PartialSums(f, n))
  BY <1>2 DEF PartialSums
<1> DEFINE s == PartialSums(f, n)
<1> HIDE DEF s
<1>9. Eq(s)
  BY <1>3 DEF s
<1>4. s[0] = 0 /\ \A m \in 1 .. n : s[m] = s[m - 1] + f[m]
  <2>1. s[0] = 0
    BY <1>9
  <2>2. ASSUME NEW m \in 1 .. n PROVE s[m] = s[m - 1] + f[m]
    BY <1>9
  <2> QED
    BY <2>1, <2>2
<1>5. s = [m \in 0 .. n |-> s[m]]
  BY <1>9
<1>6. \A m \in 0 .. n : s[m] \in Nat
  <2> DEFINE T == {k \in 0 .. n : s[k] \notin Nat}
  <2>1. SUFFICES ASSUME T # {} PROVE FALSE
    OBVIOUS
  <2>2. PICK k \in T : \A j \in T : k <= j
    <3>1. T \subseteq Nat
      OBVIOUS
    <3> HIDE DEF T
    <3> QED
      BY <2>1, <3>1, LeastNat
  <2>3. k \in 1 .. n
    BY <1>4, <2>2
  <2>4. s[k - 1] \in Nat
    BY <2>2, <2>3
  <2> QED
    BY <1>4, <2>2, <2>3, <2>4
<1>7. s \in [0 .. n -> Nat]
  BY <1>5, <1>6
<1>8. IsRunningSum(s, f, n)
  BY <1>4, <1>7 DEF IsRunningSum
<1> QED
  BY <1>8 DEF s

\* A sum of naturals is a natural.
LEMMA TotalType ==
  ASSUME NEW n \in Nat, NEW f \in [1 .. n -> Nat]
  PROVE  Total(f, n) \in Nat
<1>1. n \in 0 .. n
  OBVIOUS
<1> QED
  BY <1>1, PartialSumsIsRunningSum DEF Total, IsRunningSum

\* Changing one term changes the sum by the difference.
LEMMA TotalUpdate ==
  ASSUME NEW n \in Nat, NEW f \in [1 .. n -> Nat], NEW g \in [1 .. n -> Nat],
         NEW k \in 1 .. n, \A m \in 1 .. n : m # k => g[m] = f[m]
  PROVE  Total(g, n) = Total(f, n) - f[k] + g[k]
<1> DEFINE s == PartialSums(f, n)
           t == PartialSums(g, n)
           T == {m \in 0 .. n : t[m] # IF m < k THEN s[m] ELSE s[m] - f[k] + g[k]}
<1> HIDE DEF s, t
<1>1. IsRunningSum(s, f, n) /\ IsRunningSum(t, g, n)
  BY PartialSumsIsRunningSum DEF s, t
<1>2. \A m \in 0 .. n : s[m] \in Nat /\ t[m] \in Nat
  BY <1>1 DEF IsRunningSum
<1>3. T = {}
  <2>1. SUFFICES ASSUME T # {} PROVE FALSE
    OBVIOUS
  <2>2. PICK m \in T : \A j \in T : m <= j
    <3>1. T \subseteq Nat
      OBVIOUS
    <3> HIDE DEF T
    <3> QED
      BY <2>1, <3>1, LeastNat
  <2>3. m # 0
    BY <1>1, <2>2 DEF IsRunningSum
  <2>4. m \in 1 .. n /\ m - 1 \in 0 .. n /\ m - 1 \notin T
    BY <2>2, <2>3
  <2>5. t[m - 1] = IF m - 1 < k THEN s[m - 1] ELSE s[m - 1] - f[k] + g[k]
    BY <2>4
  <2>6. t[m] = t[m - 1] + g[m] /\ s[m] = s[m - 1] + f[m]
    BY <1>1, <2>4 DEF IsRunningSum
  <2>7. /\ f[m] \in Nat /\ g[m] \in Nat /\ f[k] \in Nat /\ g[k] \in Nat
        /\ s[m - 1] \in Nat /\ m \in Nat /\ k \in Nat
    BY <1>2, <2>4
  <2>10. t[m] # IF m < k THEN s[m] ELSE s[m] - f[k] + g[k]
    BY <2>2
  <2>8. CASE m = k
    <3>1. t[m - 1] = s[m - 1]
      BY <2>5, <2>7, <2>8
    <3> QED
      BY <2>6, <2>7, <2>8, <2>10, <3>1
  <2>9. CASE m # k
    <3>1. g[m] = f[m]
      BY <2>4, <2>9
    <3> QED
      BY <2>5, <2>6, <2>7, <2>9, <2>10, <3>1
  <2> QED
    BY <2>8, <2>9
<1>4. n \in 0 .. n /\ ~ (n < k)
  OBVIOUS
<1>5. t[n] = s[n] - f[k] + g[k]
  BY <1>3, <1>4
<1> QED
  BY <1>5 DEF Total, s, t

\* A sum whose terms are all 0 is 0.
LEMMA TotalZero ==
  ASSUME NEW n \in Nat, NEW f \in [1 .. n -> Nat], \A m \in 1 .. n : f[m] = 0
  PROVE  Total(f, n) = 0
<1> DEFINE s == PartialSums(f, n)
           T == {m \in 0 .. n : s[m] # 0}
<1> HIDE DEF s
<1>1. IsRunningSum(s, f, n)
  BY PartialSumsIsRunningSum DEF s
<1>2. T = {}
  <2>1. SUFFICES ASSUME T # {} PROVE FALSE
    OBVIOUS
  <2>2. PICK m \in T : \A j \in T : m <= j
    <3>1. T \subseteq Nat
      OBVIOUS
    <3> HIDE DEF T
    <3> QED
      BY <2>1, <3>1, LeastNat
  <2>3. m \in 1 .. n /\ m - 1 \in 0 .. n
    BY <1>1, <2>2 DEF IsRunningSum
  <2>4. s[m - 1] = 0
    BY <2>2, <2>3
  <2>5. s[m] = s[m - 1] + f[m]
    BY <1>1, <2>3 DEF IsRunningSum
  <2>6. f[m] = 0 /\ s[m] # 0
    BY <2>2, <2>3
  <2> QED
    BY <2>4, <2>5, <2>6
<1>3. n \in 0 .. n
  OBVIOUS
<1> QED
  BY <1>2, <1>3 DEF Total, s

\* A term is at most the sum: dropping it leaves a sum that is still natural.
LEMMA TotalBound ==
  ASSUME NEW n \in Nat, NEW f \in [1 .. n -> Nat], NEW k \in 1 .. n
  PROVE  f[k] <= Total(f, n)
<1> DEFINE g == [f EXCEPT ![k] = 0]
<1>1. g \in [1 .. n -> Nat] /\ g[k] = 0 /\ \A m \in 1 .. n : m # k => g[m] = f[m]
  OBVIOUS
<1> HIDE DEF g
<1>2. Total(g, n) = Total(f, n) - f[k] + g[k]
  BY <1>1, TotalUpdate
<1>3. Total(g, n) \in Nat /\ Total(f, n) \in Nat /\ f[k] \in Nat
  BY <1>1, TotalType
<1> QED
  BY <1>1, <1>2, <1>3

\* Two sums add up term by term.
LEMMA TotalSum ==
  ASSUME NEW n \in Nat, NEW f \in [1 .. n -> Nat], NEW g \in [1 .. n -> Nat],
         NEW h \in [1 .. n -> Nat], \A m \in 1 .. n : h[m] = f[m] + g[m]
  PROVE  Total(h, n) = Total(f, n) + Total(g, n)
<1> DEFINE s == PartialSums(f, n)
           t == PartialSums(g, n)
           u == PartialSums(h, n)
           T == {m \in 0 .. n : u[m] # s[m] + t[m]}
<1> HIDE DEF s, t, u
<1>1. IsRunningSum(s, f, n) /\ IsRunningSum(t, g, n) /\ IsRunningSum(u, h, n)
  BY PartialSumsIsRunningSum DEF s, t, u
<1>2. \A m \in 0 .. n : s[m] \in Nat /\ t[m] \in Nat /\ u[m] \in Nat
  BY <1>1 DEF IsRunningSum
<1>3. T = {}
  <2>1. SUFFICES ASSUME T # {} PROVE FALSE
    OBVIOUS
  <2>2. PICK m \in T : \A j \in T : m <= j
    <3>1. T \subseteq Nat
      OBVIOUS
    <3> HIDE DEF T
    <3> QED
      BY <2>1, <3>1, LeastNat
  <2>3. m # 0
    BY <1>1, <2>2 DEF IsRunningSum
  <2>4. m \in 1 .. n /\ m - 1 \in 0 .. n /\ m - 1 \notin T
    BY <2>2, <2>3
  <2>5. u[m - 1] = s[m - 1] + t[m - 1]
    BY <2>4
  <2>6. u[m] = u[m - 1] + h[m] /\ s[m] = s[m - 1] + f[m] /\ t[m] = t[m - 1] + g[m]
    BY <1>1, <2>4 DEF IsRunningSum
  <2>7. /\ f[m] \in Nat /\ g[m] \in Nat /\ h[m] = f[m] + g[m]
        /\ s[m - 1] \in Nat /\ t[m - 1] \in Nat /\ u[m - 1] \in Nat
    BY <1>2, <2>4
  <2>8. u[m] = (s[m - 1] + t[m - 1]) + (f[m] + g[m])
    BY <2>5, <2>6, <2>7
  <2>9. u[m] = (s[m - 1] + f[m]) + (t[m - 1] + g[m])
    <3>1. \A a, b, c, e \in Nat : (a + b) + (c + e) = (a + c) + (b + e)
      OBVIOUS
    <3> QED
      BY <2>4, <2>7, <2>8, <3>1
  <2>10. u[m] # s[m] + t[m]
    BY <2>2
  <2> QED
    BY <2>6, <2>9, <2>10
<1>4. n \in 0 .. n
  OBVIOUS
<1> QED
  BY <1>3, <1>4 DEF Total, s, t, u

\* The rises of a function of 0..n add up to its rise over the whole interval.
LEMMA TotalRise ==
  ASSUME NEW n \in Nat, NEW r \in [0 .. n -> Nat], NEW f \in [1 .. n -> Nat],
         \A m \in 1 .. n : f[m] = r[m] - r[m - 1]
  PROVE  Total(f, n) = r[n] - r[0]
<1> DEFINE s == PartialSums(f, n)
           T == {m \in 0 .. n : s[m] # r[m] - r[0]}
<1> HIDE DEF s
<1>1. IsRunningSum(s, f, n)
  BY PartialSumsIsRunningSum DEF s
<1>2. T = {}
  <2>1. SUFFICES ASSUME T # {} PROVE FALSE
    OBVIOUS
  <2>2. PICK m \in T : \A j \in T : m <= j
    <3>1. T \subseteq Nat
      OBVIOUS
    <3> HIDE DEF T
    <3> QED
      BY <2>1, <3>1, LeastNat
  <2>3. m # 0
    BY <1>1, <2>2 DEF IsRunningSum
  <2>4. m \in 1 .. n /\ m - 1 \in 0 .. n /\ m - 1 \notin T
    BY <2>2, <2>3
  <2>5. s[m - 1] = r[m - 1] - r[0]
    BY <2>4
  <2>6. s[m] = s[m - 1] + f[m] /\ f[m] = r[m] - r[m - 1]
    BY <1>1, <2>4 DEF IsRunningSum
  <2>7. r[m] \in Nat /\ r[m - 1] \in Nat /\ r[0] \in Nat
    BY <2>4
  <2>8. s[m] # r[m] - r[0]
    BY <2>2
  <2> QED
    BY <2>5, <2>6, <2>7, <2>8
<1>3. n \in 0 .. n
  OBVIOUS
<1> QED
  BY <1>2, <1>3 DEF Total, s

\* So they do when they are added from the last to the first.
LEMMA TotalRiseBackwards ==
  ASSUME NEW n \in Nat, NEW r \in [0 .. n -> Nat], NEW f \in [1 .. n -> Nat],
         \A m \in 1 .. n : f[m] = r[n + 1 - m] - r[n + 1 - m - 1]
  PROVE  Total(f, n) = r[n] - r[0]
<1> DEFINE s == PartialSums(f, n)
           T == {m \in 0 .. n : s[m] # r[n] - r[n - m]}
<1> HIDE DEF s
<1>1. IsRunningSum(s, f, n)
  BY PartialSumsIsRunningSum DEF s
<1>2. T = {}
  <2>1. SUFFICES ASSUME T # {} PROVE FALSE
    OBVIOUS
  <2>2. PICK m \in T : \A j \in T : m <= j
    <3>1. T \subseteq Nat
      OBVIOUS
    <3> HIDE DEF T
    <3> QED
      BY <2>1, <3>1, LeastNat
  <2>3. m # 0
    <3>1. r[n] \in Nat /\ n - 0 = n
      OBVIOUS
    <3> QED
      BY <1>1, <2>2, <3>1 DEF IsRunningSum
  <2>4. m \in 1 .. n /\ m - 1 \in 0 .. n /\ m - 1 \notin T
    BY <2>2, <2>3
  <2>5. s[m - 1] = r[n] - r[n - (m - 1)]
    BY <2>4
  <2>6. s[m] = s[m - 1] + f[m] /\ f[m] = r[n + 1 - m] - r[n + 1 - m - 1]
    BY <1>1, <2>4 DEF IsRunningSum
  <2>7. /\ n - (m - 1) = n + 1 - m /\ n + 1 - m - 1 = n - m
        /\ n + 1 - m \in 0 .. n /\ n - m \in 0 .. n /\ n \in 0 .. n
    BY <2>4
  <2>8. r[n + 1 - m] \in Nat /\ r[n - m] \in Nat /\ r[n] \in Nat
    BY <2>7
  <2>9. s[m] # r[n] - r[n - m]
    BY <2>2
  <2>10. s[m] = r[n] - r[n + 1 - m] + (r[n + 1 - m] - r[n - m])
    BY <2>5, <2>6, <2>7
  <2> QED
    BY <2>8, <2>9, <2>10
<1>3. n \in 0 .. n /\ n - n = 0
  OBVIOUS
<1>4. s[n] = r[n] - r[n - n]
  BY <1>2, <1>3
<1> QED
  BY <1>3, <1>4 DEF Total, s
=============================================================================
