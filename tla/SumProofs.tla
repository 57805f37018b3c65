------------------------------ MODULE SumProofs ------------------------------
(* What the totals of the models compute: PrefixSum over a sequence, and       *)
(* SumFunctionOnSet over a finite set.  Both are recursive functions, that is  *)
(* CHOOSEs: that a function with the equation exists has to be shown, and so   *)
(* does every fact about it, by the least number that would break it.          *)
EXTENDS PrefixSums, SequencesExt, FiniteSetTheorems, TLAPS

(* A set of numbers that is not empty has a least member. *)
LEMMA Smallest ==
  ASSUME NEW S, S \subseteq Nat, S # {}
  PROVE  \E n \in S : \A m \in S : n <= m
<1>1. IsWellFoundedOn(OpToRel(<, Nat), Nat)
  BY NatLessThanWellFounded
<1>2. PICK n \in S : \A m \in S : ~ (<<m, n>> \in OpToRel(<, Nat))
  BY <1>1, WFMin
<1>3. \A m \in S : ~(m < n)
  BY <1>2 DEF OpToRel
<1> QED
  BY <1>3

(* Counting up from zero, in terms of a set of numbers.                        *)
LEMMA CountingUp ==
  ASSUME NEW n \in Nat, NEW S, 0 \in S,
         \A j \in 0..n : j \in S /\ j < n => j + 1 \in S
  PROVE  \A j \in 0..n : j \in S
<1> DEFINE Bad == {j \in 0..n : j \notin S}
<1> SUFFICES ASSUME Bad # {} PROVE FALSE
  OBVIOUS
<1>1. PICK m \in Bad : \A j \in Bad : m <= j
  <2>1. Bad \subseteq Nat
    OBVIOUS
  <2> HIDE DEF Bad
  <2> QED
    BY <2>1, Smallest
<1>2. m \in 0..n /\ m \notin S /\ m # 0
  BY <1>1
<1>3. m - 1 \in 0..n /\ m - 1 < n /\ (m - 1) + 1 = m /\ ~(m <= m - 1)
  BY <1>2
<1>4. m - 1 \in S
  BY <1>1, <1>3
<1> QED
  BY <1>2, <1>3, <1>4

(* f holds the running totals of the first n members of a. *)
Totals(n, a, f) == f = [k \in 0..n |-> IF k = 0 THEN 0 ELSE f[k - 1] + a[k]]

(* Running totals exist for every prefix. *)
LEMMA TotalsExist ==
  ASSUME NEW N \in Nat, NEW a \in [1..N -> Nat]
  PROVE  \A n \in 0..N : \E f \in [0..n -> Nat] : Totals(n, a, f)
<1> DEFINE Bad == {n \in 0..N : ~ \E f \in [0..n -> Nat] : Totals(n, a, f)}
<1> SUFFICES ASSUME Bad # {} PROVE FALSE
  OBVIOUS
<1>0. Bad \subseteq Nat
  OBVIOUS
<1>1. PICK n \in Bad : \A m \in Bad : n <= m
  <2> HIDE DEF Bad
  <2> QED
    BY <1>0, Smallest
<1>2. n \in 0..N /\ n \in Nat /\ ~ \E f \in [0..n -> Nat] : Totals(n, a, f)
  BY <1>1
<1>3. n # 0
  <2> DEFINE z == [k \in 0..0 |-> 0]
  <2>1. z \in [0..0 -> Nat]
    OBVIOUS
  <2>2. z = [k \in 0..0 |-> IF k = 0 THEN 0 ELSE z[k - 1] + a[k]]
    OBVIOUS
  <2> HIDE DEF z
  <2>3. Totals(0, a, z)
    BY <2>2 DEF Totals
  <2> QED
    BY <2>1, <2>3, <1>2
<1>4. n - 1 \in 0..N /\ n - 1 \in Nat /\ n - 1 \notin Bad
  <2>1. n - 1 \in 0..N /\ n - 1 \in Nat
    BY <1>2, <1>3
  <2>2. ~(n <= n - 1)
    BY <1>2
  <2> HIDE DEF Bad
  <2> QED
    BY <1>1, <2>1, <2>2
<1>5. PICK f \in [0..(n - 1) -> Nat] : Totals(n - 1, a, f)
  BY <1>4
<1> DEFINE g == [k \in 0..n |-> IF k = n THEN f[n - 1] + a[n] ELSE f[k]]
<1>6. f[n - 1] + a[n] \in Nat
  <2>1. n \in 1..N /\ n - 1 \in 0..(n - 1)
    BY <1>2, <1>3
  <2> QED
    BY <2>1, <1>5
<1>7. g \in [0..n -> Nat]
  <2>1. ASSUME NEW k \in 0..n, k # n PROVE k \in 0..(n - 1)
    BY <2>1, <1>2, <1>3
  <2> QED
    BY <2>1, <1>6
<1>8. ASSUME NEW k \in 0..n
      PROVE  g[k] = IF k = 0 THEN 0 ELSE g[k - 1] + a[k]
  <2>1. CASE k = n
    <3>1. k # 0 /\ n - 1 # n /\ n - 1 \in 0..n
      BY <2>1, <1>2, <1>3
    <3> QED
      BY <2>1, <3>1
  <2>2. CASE k # n
    <3>1. k \in 0..(n - 1)
      BY <2>2, <1>2, <1>3
    <3>2. f[k] = IF k = 0 THEN 0 ELSE f[k - 1] + a[k]
      BY <3>1, <1>5 DEF Totals
    <3>3. g[k] = f[k]
      BY <2>2
    <3>4. k # 0 => k - 1 \in 0..n /\ k - 1 # n
      BY <3>1, <1>2
    <3>5. k # 0 => g[k - 1] = f[k - 1]
      BY <3>4
    <3> HIDE DEF g
    <3> QED
      BY <3>2, <3>3, <3>5
  <2> QED
    BY <2>1, <2>2
<1>9. Totals(n, a, g)
  <2>1. DOMAIN g = 0..n /\ g = [k \in 0..n |-> g[k]]
    OBVIOUS
  <2> HIDE DEF g
  <2> QED
    BY <2>1, <1>8 DEF Totals
<1> QED
  <2> HIDE DEF g
  <2> QED
    BY <1>2, <1>7, <1>9

(* PrefixSum(a) is the function of running totals of a. *)
THEOREM PrefixSumTotals ==
  ASSUME NEW a \in Seq(Nat)
  PROVE  /\ PrefixSum(a) \in [0..Len(a) -> Nat]
         /\ PrefixSum(a)[0] = 0
         /\ \A k \in 1..Len(a) : PrefixSum(a)[k] = PrefixSum(a)[k - 1] + a[k]
<1> DEFINE N == Len(a)
<1>1. N \in Nat /\ a \in [1..N -> Nat] /\ N \in 0..N
  OBVIOUS
<1>2. PICK f \in [0..N -> Nat] : Totals(N, a, f)
  <2> HIDE DEF N
  <2> QED
    BY <1>1, TotalsExist
<1>3. \E g : g = [k \in 0..N |-> IF k = 0 THEN 0 ELSE g[k - 1] + a[k]]
  BY <1>2 DEF Totals
<1>4. Totals(N, a, PrefixSum(a))
  BY <1>3 DEF Totals, PrefixSum
<1> DEFINE P == PrefixSum(a)
<1>5. P = [k \in 0..N |-> IF k = 0 THEN 0 ELSE P[k - 1] + a[k]]
  BY <1>4 DEF Totals
<1>6. \A k \in 0..N : P[k] = IF k = 0 THEN 0 ELSE P[k - 1] + a[k]
  <2> HIDE DEF P
  <2> QED
    BY <1>5
<1>7. \A k \in 0..N : P[k] \in Nat
  <2> DEFINE Bad == {k \in 0..N : P[k] \notin Nat}
  <2> SUFFICES ASSUME Bad # {} PROVE FALSE
    OBVIOUS
  <2> HIDE DEF P
  <2>1. Bad \subseteq Nat
    BY <1>1
  <2>2. PICK k \in Bad : \A m \in Bad : k <= m
    <3> HIDE DEF Bad
    <3> QED
      BY <2>1, Smallest
  <2>3. k \in 0..N /\ k \in Nat /\ P[k] \notin Nat
    BY <1>1, <2>2
  <2>4. k # 0
    BY <1>6, <2>3
  <2>5. k - 1 \in 0..N /\ k \in 1..N /\ ~(k <= k - 1)
    BY <1>1, <2>3, <2>4
  <2>6. P[k - 1] \in Nat
    BY <2>2, <2>5
  <2>7. P[k] = P[k - 1] + a[k] /\ a[k] \in Nat
    BY <1>1, <1>6, <2>3, <2>4, <2>5
  <2> QED
    BY <2>3, <2>6, <2>7
<1>8. P \in [0..N -> Nat]
  <2> HIDE DEF P
  <2> QED
    BY <1>5, <1>7
<1>9. P[0] = 0
  <2> HIDE DEF P
  <2> QED
    BY <1>1, <1>6
<1>10. \A k \in 1..N : P[k] = P[k - 1] + a[k]
  <2> HIDE DEF P
  <2> QED
    BY <1>1, <1>6
<1> QED
  BY <1>8, <1>9, <1>10
-----------------------------------------------------------------------------
(* Among the subsets of a finite set there is one with no smaller one beside it. *)
LEMMA MinimalSet ==
  ASSUME NEW S, IsFiniteSet(S), NEW U, U \subseteq SUBSET S, U # {}
  PROVE  \E s \in U : \A x \in s : s \ {x} \notin U
<1> DEFINE Sizes == {n \in Nat : \E s \in U : Cardinality(s) = n}
<1>1. \A s \in U : IsFiniteSet(s) /\ Cardinality(s) \in Nat
  BY FS_Subset, FS_CardinalityType
<1>2. PICK n \in Sizes : \A m \in Sizes : n <= m
  <2>1. Sizes \subseteq Nat /\ Sizes # {}
    BY <1>1
  <2> HIDE DEF Sizes
  <2> QED
    BY <2>1, Smallest
<1>3. PICK s \in U : Cardinality(s) = n
  BY <1>2
<1>4. ASSUME NEW x \in s, s \ {x} \in U PROVE FALSE
  <2>1. n \in Nat /\ Cardinality(s \ {x}) = n - 1
    BY <1>1, <1>3, FS_RemoveElement
  <2>2. n - 1 \in Sizes /\ ~(n <= n - 1)
    BY <1>1, <1>4, <2>1
  <2> HIDE DEF Sizes
  <2> QED
    BY <1>2, <2>2
<1> QED
  BY <1>3, <1>4

(* The member of s that a sum takes first. *)
Pick(s) == CHOOSE x \in s : TRUE

(* g is the table of the sums of f over the sets in T. *)
Sums(f, T, g) ==
  g = [s \in T |-> IF s = {} THEN 0 ELSE f[Pick(s)] + g[s \ {Pick(s)}]]

LEMMA SumIsATable ==
  ASSUME NEW f, NEW S
  PROVE  SumFunctionOnSet(f, S) = (CHOOSE g : Sums(f, SUBSET S, g))[S]
BY DEF SumFunctionOnSet, FoldFunctionOnSet, MapThenFoldSet, Sums, Pick

(* The sets in T can be summed one member at a time within T. *)
Small(S, n) == {s \in SUBSET S : Cardinality(s) <= n}

LEMMA PickOut ==
  ASSUME NEW S, IsFiniteSet(S), NEW s \in SUBSET S, s # {}
  PROVE  /\ Pick(s) \in s
         /\ s \ {Pick(s)} \in SUBSET S
         /\ IsFiniteSet(s) /\ Cardinality(s) \in Nat \ {0}
         /\ Cardinality(s \ {Pick(s)}) = Cardinality(s) - 1
<1>1. Pick(s) \in s
  BY DEF Pick
<1>2. IsFiniteSet(s)
  BY FS_Subset
<1>3. Cardinality(s) \in Nat /\ Cardinality(s) # 0
  BY <1>2, FS_CardinalityType, FS_EmptySet
<1>4. Cardinality(s \ {Pick(s)}) = Cardinality(s) - 1
  BY <1>1, <1>2, FS_RemoveElement
<1> QED
  BY <1>1, <1>2, <1>3, <1>4

LEMMA SumsOfSmallExist ==
  ASSUME NEW S, IsFiniteSet(S), NEW f, \A x \in S : f[x] \in Int
  PROVE  \A n \in Nat : \E g \in [Small(S, n) -> Int] : Sums(f, Small(S, n), g)
<1> DEFINE Bad == {n \in Nat : ~ \E g \in [Small(S, n) -> Int] : Sums(f, Small(S, n), g)}
<1> SUFFICES ASSUME Bad # {} PROVE FALSE
  OBVIOUS
<1>1. PICK n \in Bad : \A m \in Bad : n <= m
  <2>1. Bad \subseteq Nat
    OBVIOUS
  <2> HIDE DEF Bad
  <2> QED
    BY <2>1, Smallest
<1>2. n \in Nat /\ ~ \E g \in [Small(S, n) -> Int] : Sums(f, Small(S, n), g)
  BY <1>1
<1>3. n # 0
  <2>1. ASSUME n = 0 PROVE FALSE
    <3>1. ASSUME NEW s \in Small(S, 0) PROVE s = {}
      <4>1. s \in SUBSET S /\ Cardinality(s) <= 0
        BY DEF Small
      <4>2. s # {} => Cardinality(s) \in Nat \ {0}
        BY <4>1, PickOut
      <4> QED
        BY <4>1, <4>2
    <3> DEFINE z == [s \in Small(S, 0) |-> 0]
    <3>2. z \in [Small(S, 0) -> Int]
      OBVIOUS
    <3>3. Sums(f, Small(S, 0), z)
      BY <3>1 DEF Sums
    <3> HIDE DEF z
    <3> QED
      BY <1>2, <2>1, <3>2, <3>3
  <2> QED
    BY <2>1
<1>4. n - 1 \in Nat /\ n - 1 \notin Bad
  <2>1. n - 1 \in Nat /\ ~(n <= n - 1)
    BY <1>2, <1>3
  <2> HIDE DEF Bad
  <2> QED
    BY <1>1, <2>1
<1>5. PICK g \in [Small(S, n - 1) -> Int] : Sums(f, Small(S, n - 1), g)
  BY <1>4
<1> DEFINE total(s) == IF s = {} THEN 0 ELSE f[Pick(s)] + g[s \ {Pick(s)}]
           h == [s \in Small(S, n) |-> total(s)]
<1>6. ASSUME NEW s \in Small(S, n), s # {}
      PROVE  /\ s \ {Pick(s)} \in Small(S, n - 1)
             /\ s \ {Pick(s)} \in Small(S, n)
             /\ Pick(s) \in S
  <2>1. s \in SUBSET S /\ Cardinality(s) <= n
    BY DEF Small
  <2>2. /\ Pick(s) \in s
        /\ s \ {Pick(s)} \in SUBSET S
        /\ Cardinality(s) \in Nat \ {0}
        /\ Cardinality(s \ {Pick(s)}) = Cardinality(s) - 1
    BY <1>6, <2>1, PickOut
  <2> QED
    BY <1>2, <2>1, <2>2 DEF Small
<1>7. h \in [Small(S, n) -> Int]
  <2>1. ASSUME NEW s \in Small(S, n), s # {} PROVE total(s) \in Int
    <3>1. g[s \ {Pick(s)}] \in Int /\ f[Pick(s)] \in Int
      BY <1>6, <2>1
    <3> QED
      BY <2>1, <3>1
  <2>2. ASSUME NEW s \in Small(S, n) PROVE total(s) \in Int
    <3>1. CASE s = {}
      BY <3>1
    <3> HIDE DEF total
    <3> QED
      BY <2>1, <3>1
  <2> HIDE DEF total
  <2> QED
    BY <2>2 DEF h
<1>8. \A s \in Small(S, n - 1) : s \in Small(S, n) /\ h[s] = g[s]
  <2> TAKE s \in Small(S, n - 1)
  <2>1. s \in Small(S, n)
    <3>1. Cardinality(s) \in Int
      BY FS_Subset, FS_CardinalityType DEF Small
    <3> QED
      BY <1>2, <3>1 DEF Small
  <2>2. g[s] = IF s = {} THEN 0 ELSE f[Pick(s)] + g[s \ {Pick(s)}]
    BY <1>5 DEF Sums
  <2> QED
    BY <2>1, <2>2
<1>9. Sums(f, Small(S, n), h)
  <2>1. \A s \in Small(S, n) :
          h[s] = IF s = {} THEN 0 ELSE f[Pick(s)] + h[s \ {Pick(s)}]
    BY <1>6, <1>8
  <2>2. h = [s \in Small(S, n) |-> h[s]]
    OBVIOUS
  <2> HIDE DEF h
  <2> QED
    BY <2>1, <2>2 DEF Sums
<1> QED
  <2> HIDE DEF h
  <2> QED
    BY <1>2, <1>7, <1>9

(* Two tables agree wherever both are defined. *)
LEMMA SumsAgree ==
  ASSUME NEW S, IsFiniteSet(S), NEW R \in SUBSET S, NEW f, NEW g, NEW h,
         Sums(f, SUBSET S, g), Sums(f, SUBSET R, h)
  PROVE  \A s \in SUBSET R : g[s] = h[s]
<1> DEFINE Bad == {s \in SUBSET R : g[s] # h[s]}
<1> SUFFICES ASSUME Bad # {} PROVE FALSE
  OBVIOUS
<1>1. PICK s \in Bad : \A x \in s : s \ {x} \notin Bad
  <2>1. IsFiniteSet(R) /\ Bad \subseteq SUBSET R
    BY FS_Subset
  <2> HIDE DEF Bad
  <2> QED
    BY <2>1, MinimalSet
<1>2. /\ g[s] = IF s = {} THEN 0 ELSE f[Pick(s)] + g[s \ {Pick(s)}]
      /\ h[s] = IF s = {} THEN 0 ELSE f[Pick(s)] + h[s \ {Pick(s)}]
  BY <1>1 DEF Sums
<1>3. s # {} /\ Pick(s) \in s
  BY <1>1, <1>2 DEF Pick
<1>4. g[s \ {Pick(s)}] = h[s \ {Pick(s)}]
  BY <1>1, <1>3
<1> QED
  BY <1>1, <1>2, <1>3, <1>4

(* A sum of numbers is a number, and takes its first member and the rest. *)
LEMMA SumReadsTable ==
  ASSUME NEW S, IsFiniteSet(S), NEW f, \A x \in S : f[x] \in Int
  PROVE  \A s \in SUBSET S :
           /\ SumFunctionOnSet(f, s) \in Int
           /\ s # {} => SumFunctionOnSet(f, s)
                         = f[Pick(s)] + SumFunctionOnSet(f, s \ {Pick(s)})
<1>1. Cardinality(S) \in Nat /\ Small(S, Cardinality(S)) = SUBSET S
  BY FS_CardinalityType, FS_Subset DEF Small
<1>2. PICK g \in [SUBSET S -> Int] : Sums(f, SUBSET S, g)
  <2>1. \E g \in [Small(S, Cardinality(S)) -> Int] :
           Sums(f, Small(S, Cardinality(S)), g)
    BY <1>1, SumsOfSmallExist
  <2> QED
    BY <1>1, <2>1
<1>3. ASSUME NEW s \in SUBSET S PROVE SumFunctionOnSet(f, s) = g[s]
  <2> DEFINE h == [t \in SUBSET s |-> g[t]]
             k == CHOOSE j : Sums(f, SUBSET s, j)
  <2>1. Sums(f, SUBSET s, h)
    <3>1. \A t \in SUBSET s : t # {} => t \ {Pick(t)} \in SUBSET s
      OBVIOUS
    <3> QED
      BY <1>2, <3>1 DEF Sums
  <2>2. Sums(f, SUBSET s, k)
    <3> HIDE DEF h
    <3> QED
      BY <2>1
  <2> HIDE DEF k, h
  <2>3. g[s] = k[s]
    <3>1. \A t \in SUBSET s : g[t] = k[t]
      <4>1. Sums(f, SUBSET S, g) /\ Sums(f, SUBSET s, k)
        BY <1>2, <2>2
      <4> QED
        BY <4>1, SumsAgree, SMTT(90)
    <3> QED
      BY <3>1
  <2> QED
    BY <2>3, SumIsATable DEF k
<1>4. \A s \in SUBSET S :
        g[s] = IF s = {} THEN 0 ELSE f[Pick(s)] + g[s \ {Pick(s)}]
  BY <1>2 DEF Sums
<1>5. ASSUME NEW s \in SUBSET S, s # {}
      PROVE  g[s] = f[Pick(s)] + SumFunctionOnSet(f, s \ {Pick(s)})
  <2>1. s \ {Pick(s)} \in SUBSET S
    OBVIOUS
  <2> QED
    BY <1>3, <1>4, <1>5, <2>1
<1>6. \A s \in SUBSET S : g[s] \in Int
  BY <1>2
<1> QED
  BY <1>3, <1>5, <1>6

LEMMA SumOfNone == \A f : SumFunctionOnSet(f, {}) = 0
<1> TAKE f
<1> DEFINE e == [x \in {} |-> 0]
           h == [t \in SUBSET {} |-> 0]
           k == CHOOSE j : Sums(f, SUBSET {}, j)
<1>1. Sums(f, SUBSET {}, h)
  BY DEF Sums
<1>2. Sums(f, SUBSET {}, k)
  <2> HIDE DEF h
  <2> QED
    BY <1>1
<1> HIDE DEF k
<1>3. k[{}] = 0
  BY <1>2 DEF Sums
<1> QED
  BY <1>3, SumIsATable DEF k

(* A member leaves the sum, whichever it is. *)
LEMMA SumTakes ==
  ASSUME NEW S, IsFiniteSet(S), NEW f, \A x \in S : f[x] \in Int
  PROVE  \A s \in SUBSET S : \A x \in s :
           SumFunctionOnSet(f, s) = f[x] + SumFunctionOnSet(f, s \ {x})
<1> DEFINE Sum(s) == SumFunctionOnSet(f, s)
           Good(s) == \A x \in s : Sum(s) = f[x] + Sum(s \ {x})
           Bad == {s \in SUBSET S : ~Good(s)}
<1> SUFFICES ASSUME Bad # {} PROVE FALSE
  OBVIOUS
<1>1. PICK s \in Bad : \A x \in s : s \ {x} \notin Bad
  <2>1. Bad \subseteq SUBSET S
    OBVIOUS
  <2> HIDE DEF Bad
  <2> QED
    BY <2>1, MinimalSet
<1>2. PICK x \in s : Sum(s) # f[x] + Sum(s \ {x})
  BY <1>1
<1> DEFINE p == Pick(s)
           rest == Sum((s \ {p}) \ {x})
<1>3. p \in s /\ s \in SUBSET S /\ Sum(s) = f[p] + Sum(s \ {p})
  BY SMTT(60), <1>1, <1>2, SumReadsTable DEF Pick
<1>4. f[x] \in Int /\ f[p] \in Int /\ rest \in Int
  <2>1. (s \ {p}) \ {x} \in SUBSET S
    BY <1>3
  <2> QED
    BY <1>2, <1>3, <2>1, SumReadsTable
<1> HIDE DEF p, Sum, rest
<1>5. Good(s \ {p}) /\ Good(s \ {x})
  BY <1>1, <1>2, <1>3
<1>6. p # x /\ (s \ {x}) \ {p} = (s \ {p}) \ {x}
  BY <1>2, <1>3
<1>7. Sum(s \ {p}) = f[x] + rest /\ Sum(s \ {x}) = f[p] + rest
  BY <1>2, <1>3, <1>5, <1>6 DEF rest
<1>8. Sum(s) = f[p] + (f[x] + rest) /\ Sum(s) # f[x] + (f[p] + rest)
  BY <1>2, <1>3, <1>7
<1> QED
  BY <1>4, <1>8

(* One member more. *)
LEMMA SumWith ==
  ASSUME NEW S, IsFiniteSet(S), NEW x, x \notin S,
         NEW f, \A y \in S \cup {x} : f[y] \in Int
  PROVE  /\ IsFiniteSet(S \cup {x})
         /\ SumFunctionOnSet(f, S) \in Int
         /\ SumFunctionOnSet(f, S \cup {x}) = SumFunctionOnSet(f, S) + f[x]
<1> DEFINE T == S \cup {x}
<1>1. IsFiniteSet(T)
  BY FS_AddElement
<1>2. T \in SUBSET T /\ x \in T /\ T \ {x} = S /\ S \in SUBSET T
  OBVIOUS
<1>3. \A y \in T : f[y] \in Int
  OBVIOUS
<1> HIDE DEF T
<1>4. SumFunctionOnSet(f, T) = f[x] + SumFunctionOnSet(f, S)
  BY <1>1, <1>2, <1>3, SumTakes
<1>5. SumFunctionOnSet(f, S) \in Int /\ f[x] \in Int
  BY <1>1, <1>2, <1>3, SumReadsTable
<1> QED
  BY <1>1, <1>4, <1>5 DEF T

(* One member less. *)
LEMMA SumWithout ==
  ASSUME NEW S, IsFiniteSet(S), NEW x \in S, NEW f, \A y \in S : f[y] \in Int
  PROVE  /\ IsFiniteSet(S \ {x})
         /\ SumFunctionOnSet(f, S \ {x}) \in Int
         /\ SumFunctionOnSet(f, S \ {x}) = SumFunctionOnSet(f, S) - f[x]
<1>1. IsFiniteSet(S \ {x}) /\ S \in SUBSET S /\ S \ {x} \in SUBSET S
  BY FS_RemoveElement
<1>2. SumFunctionOnSet(f, S) = f[x] + SumFunctionOnSet(f, S \ {x})
  BY <1>1, SumTakes
<1>3. SumFunctionOnSet(f, S \ {x}) \in Int /\ f[x] \in Int
  BY <1>1, SumReadsTable
<1> QED
  BY <1>1, <1>2, <1>3

(* Where every member counts for at least one, the sum is at least the number *)
(* of members. *)
LEMMA SumCounts ==
  ASSUME NEW S, IsFiniteSet(S), NEW f, \A x \in S : f[x] \in Nat
  PROVE  /\ SumFunctionOnSet(f, S) \in Nat
         /\ (\A x \in S : f[x] >= 1) => Cardinality(S) <= SumFunctionOnSet(f, S)
<1> DEFINE Sum(s) == SumFunctionOnSet(f, s)
           Good(s) == /\ Sum(s) \in Nat
                      /\ (\A x \in S : f[x] >= 1) => Cardinality(s) <= Sum(s)
           Bad == {s \in SUBSET S : ~Good(s)}
<1> SUFFICES ASSUME Bad # {} PROVE FALSE
  OBVIOUS
<1>1. PICK s \in Bad : \A x \in s : s \ {x} \notin Bad
  <2>1. Bad \subseteq SUBSET S
    OBVIOUS
  <2> HIDE DEF Bad
  <2> QED
    BY <2>1, MinimalSet
<1>2. s # {}
  <2>1. Good({})
    BY SumOfNone, FS_EmptySet
  <2> QED
    BY <1>1, <2>1
<1> DEFINE p == Pick(s)
           rest == s \ {p}
<1>3. /\ p \in s /\ s \in SUBSET S /\ rest \in SUBSET S
      /\ Cardinality(s) \in Nat \ {0} /\ Cardinality(rest) = Cardinality(s) - 1
  BY <1>1, <1>2, PickOut
<1>4. Sum(s) = f[p] + Sum(rest)
  BY <1>2, <1>3, SumReadsTable
<1> HIDE DEF Sum
<1>5. Good(rest)
  BY <1>1, <1>3
<1> HIDE DEF p, rest
<1>6. f[p] \in Nat /\ ((\A x \in S : f[x] >= 1) => f[p] >= 1)
  BY <1>3
<1> QED
  BY <1>1, <1>3, <1>4, <1>5, <1>6

(* Fewer members, no larger a sum. *)
LEMMA SumGrows ==
  ASSUME NEW S, IsFiniteSet(S), NEW f, \A x \in S : f[x] \in Nat, NEW T \in SUBSET S
  PROVE  SumFunctionOnSet(f, T) <= SumFunctionOnSet(f, S)
<1> DEFINE Sum(s) == SumFunctionOnSet(f, s)
           Bad == {s \in SUBSET S : \E t \in SUBSET s : ~(Sum(t) <= Sum(s))}
<1>0. \A s \in SUBSET S : IsFiniteSet(s) /\ Sum(s) \in Nat
  <2> TAKE s \in SUBSET S
  <2>1. IsFiniteSet(s)
    BY FS_Subset
  <2> QED
    BY <2>1, SumCounts
<1> SUFFICES ASSUME Bad # {} PROVE FALSE
  OBVIOUS
<1>1. PICK s \in Bad : \A x \in s : s \ {x} \notin Bad
  <2>1. Bad \subseteq SUBSET S
    OBVIOUS
  <2> HIDE DEF Bad
  <2> QED
    BY <2>1, MinimalSet
<1>2. PICK t \in SUBSET s : ~(Sum(t) <= Sum(s))
  BY <1>1
<1> HIDE DEF Sum
<1>3. t # s
  BY <1>0, <1>1, <1>2
<1>4. PICK x \in s : x \notin t
  BY <1>2, <1>3
<1>5. Sum(t) <= Sum(s \ {x})
  BY <1>1, <1>2, <1>4
<1>6. Sum(s) = f[x] + Sum(s \ {x})
  BY <1>1, <1>4, SumTakes DEF Sum
<1> QED
  <2>1. /\ Sum(t) \in Nat /\ Sum(s \ {x}) \in Nat /\ f[x] \in Nat
    BY <1>0, <1>1, <1>2, <1>4
  <2> QED
    BY <1>2, <1>5, <1>6, <2>1
=============================================================================
