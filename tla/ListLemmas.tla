-------------------------------- MODULE ListLemmas ------------------------------
(***************************************************************************)
(* What the operators on lists compute, for lists of any length.  The      *)
(* induction theorems of the library take an operator; here the set of the *)
(* numbers for which the claim holds takes its place, and a step that is a *)
(* function takes the place of the body of a recursive definition.         *)
(***************************************************************************)
EXTENDS Lists, FiniteSetTheorems, WellFoundedInduction, TLAPS

--------------------------------------------------------------------------------
(* Induction and recursion.                                                   *)

\* Of a set of numbers that is not empty one is the least.
LEMMA LeastNumber ==
    ASSUME NEW S \in SUBSET Nat, S # {}
    PROVE  \E n \in S : \A m \in S : n <= m
<1>1. PICK x \in S : \A y \in S : <<y, x>> \notin OpToRel(<, Nat)
    BY NatLessThanWellFounded, WFMin
<1>2. ASSUME NEW y \in S PROVE x <= y
  <2>1. x \in Nat /\ y \in Nat
      OBVIOUS
  <2>2. <<y, x>> \in Nat \X Nat /\ ~(<<y, x>> \in OpToRel(<, Nat))
      BY <1>1, <2>1
  <2>3. ~(y < x)
      BY <2>1, <2>2 DEF OpToRel
  <2> QED BY <2>1, <2>3
<1> QED BY <1>2

\* Min names it.
LEMMA MinIsLeast ==
    ASSUME NEW S \in SUBSET Nat, S # {}
    PROVE  Min(S) \in S /\ \A m \in S : Min(S) <= m
BY LeastNumber DEF Min

\* A set that holds 0, and with a number the next one, holds all of them.
LEMMA Induction ==
    ASSUME NEW S, 0 \in S, \A n \in Nat : n \in S => n + 1 \in S
    PROVE  Nat \subseteq S
<1> SUFFICES ASSUME Nat \ S # {} PROVE FALSE
    OBVIOUS
<1>1. PICK n \in Nat \ S : \A m \in Nat \ S : n <= m
    BY LeastNumber
<1>2. n # 0 /\ n - 1 \in Nat
    BY <1>1
<1>3. n - 1 \in S
    BY <1>1, <1>2
<1> QED BY <1>1, <1>2, <1>3

\* A step that stays in a set, and what it is to be computed with it.
Steps(N, S) == [(1 .. N) \X S -> S]
Iterates(f, N, S, first, step) ==
    /\ f \in [0 .. N -> S] /\ f[0] = first
    /\ \A i \in 1 .. N : f[i] = step[<<i, f[i - 1]>>]

\* A recursive function on 0 .. N whose step stays in a set exists.
LEMMA Recursion ==
    ASSUME NEW N \in Nat, NEW S, NEW first \in S, NEW step \in Steps(N, S)
    PROVE  \E f : Iterates(f, N, S, first, step)
<1> USE DEF Steps, Iterates
<1> DEFINE Upto(n, f) == f[0] = first /\ \A i \in 1 .. n : f[i] = step[<<i, f[i - 1]>>]
           Good == {n \in Nat : n <= N => \E f \in [0 .. n -> S] : Upto(n, f)}
<1>1. 0 \in Good
  <2>1. [i \in 0 .. 0 |-> first] \in [0 .. 0 -> S] /\ Upto(0, [i \in 0 .. 0 |-> first])
      OBVIOUS
  <2> QED BY <2>1
<1>2. ASSUME NEW n \in Nat, n \in Good, n + 1 <= N
      PROVE  \E f \in [0 .. n + 1 -> S] : Upto(n + 1, f)
  <2>1. PICK f \in [0 .. n -> S] : Upto(n, f)
      BY <1>2
  <2> DEFINE g == [i \in 0 .. n + 1 |-> IF i = n + 1 THEN step[<<n + 1, f[n]>>] ELSE f[i]]
  <2>2. n \in 0 .. n /\ f[n] \in S /\ <<n + 1, f[n]>> \in (1 .. N) \X S
      BY <1>2
  <2>3. step[<<n + 1, f[n]>>] \in S
      BY <2>2
  <2>4. g \in [0 .. n + 1 -> S]
      BY <2>3
  <2>5. g[0] = first
      BY <2>1
  <2>6. ASSUME NEW i \in 1 .. n + 1 PROVE g[i] = step[<<i, g[i - 1]>>]
    <3>1. CASE i = n + 1
      <4>1. g[i] = step[<<n + 1, f[n]>>] /\ i - 1 = n /\ n \in 0 .. n + 1 /\ n # n + 1
          BY <3>1
      <4> QED BY <3>1, <4>1
    <3>2. CASE i # n + 1
      <4>1. i \in 1 .. n /\ i - 1 \in 0 .. n /\ i - 1 # n + 1
          BY <3>2
      <4>2. g[i] = f[i] /\ g[i - 1] = f[i - 1]
          BY <3>2, <4>1
      <4> QED BY <2>1, <4>1, <4>2
    <3> QED BY <3>1, <3>2
  <2> QED BY <2>4, <2>5, <2>6
<1>3. \A n \in Nat : n \in Good => n + 1 \in Good
    BY <1>2
<1> HIDE DEF Good
<1>4. Nat \subseteq Good
    BY <1>1, <1>3, Induction
<1>5. \E f \in [0 .. N -> S] : Upto(N, f)
    BY <1>4 DEF Good
<1> QED BY <1>5

--------------------------------------------------------------------------------
(* Sums.                                                                      *)

\* The partial sums of a list, as Total computes them.
LEMMA PartialSums ==
    ASSUME NEW s \in Seq(Int)
    PROVE  \E sum \in [0 .. Len(s) -> Int] :
              /\ sum[0] = 0 /\ \A i \in 1 .. Len(s) : sum[i] = sum[i - 1] + s[i]
              /\ Total(s) = sum[Len(s)]
<1> DEFINE N == Len(s)
           step == [p \in (1 .. N) \X Int |-> p[2] + s[p[1]]]
           Body(sum) == [n \in 0 .. N |-> IF n = 0 THEN 0 ELSE sum[n - 1] + s[n]]
           all == CHOOSE sum : sum = Body(sum)
<1>1. N \in Nat /\ step \in Steps(N, Int)
    BY DEF Steps
<1>s0. \A i \in 1 .. N, x \in Int : step[<<i, x>>] = x + s[i]
    OBVIOUS
<1> HIDE DEF step
<1> HIDE DEF N
<1>2. PICK f : Iterates(f, N, Int, 0, step)
  <2>1. 0 \in Int
      OBVIOUS
  <2> HIDE DEF all
  <2> QED BY ONLY <1>1, <2>1, Recursion
<1>3. \A i \in 1 .. N : f[i] = f[i - 1] + s[i]
  <2>1. \A i \in 1 .. N : f[i - 1] \in Int
    <3>1. \A i \in 1 .. N : i - 1 \in 0 .. N
        BY <1>1
    <3> QED BY <1>2, <3>1 DEF Iterates
  <2> QED BY <1>2, <1>s0, <2>1 DEF Iterates
<1>4. f = Body(f)
    BY <1>1, <1>2, <1>3 DEF Iterates
<1>5. all = Body(all)
    BY <1>4
<1>6. Total(s) = all[N]
    BY DEF Total, N
<1> HIDE DEF all
<1>7. all[0] = 0 /\ \A i \in 1 .. N : all[i] = all[i - 1] + s[i]
    BY <1>1, <1>5
<1> DEFINE Good == {n \in Nat : n <= N => all[n] \in Int}
<1>8. 0 \in Good /\ \A n \in Nat : n \in Good => n + 1 \in Good
  <2>1. \A n \in Nat : n + 1 <= N => s[n + 1] \in Int
      BY DEF N
  <2>2. ASSUME NEW n \in Nat, n \in Good, n + 1 <= N PROVE all[n + 1] \in Int
    <3>1. n + 1 \in 1 .. N /\ n + 1 - 1 = n /\ n <= N
        BY <1>1, <2>2
    <3>2. all[n + 1] = all[n] + s[n + 1]
        BY <1>7, <3>1
    <3> QED BY <2>1, <2>2, <3>1, <3>2
  <2> QED BY <1>7, <2>2
<1> HIDE DEF Good
<1>9. Nat \subseteq Good
    BY <1>8, Induction
<1>10. \A n \in 0 .. N : all[n] \in Int
    BY <1>1, <1>9 DEF Good
<1>11. all \in [0 .. N -> Int]
  <2>1. DOMAIN all = 0 .. N
      BY <1>5
  <2>2. all = [n \in 0 .. N |-> all[n]]
      BY <1>5, <2>1
  <2> QED BY <1>10, <2>2
<1> QED BY <1>6, <1>7, <1>11 DEF N

\* The sum of no number, and of whole numbers.
LEMMA TotalTyped ==
    Total(<<>>) = 0 /\ \A s \in Seq(Int) : Total(s) \in Int
<1>1. ASSUME NEW s \in Seq(Int) PROVE Total(s) \in Int /\ (Len(s) = 0 => Total(s) = 0)
  <2>1. PICK sum \in [0 .. Len(s) -> Int] : sum[0] = 0 /\ Total(s) = sum[Len(s)]
      BY PartialSums
  <2>2. Len(s) \in 0 .. Len(s)
      OBVIOUS
  <2> QED BY <2>1, <2>2
<1>2. <<>> \in Seq(Int) /\ Len(<<>>) = 0
    OBVIOUS
<1> QED BY <1>1, <1>2

\* A number is added at the end.
LEMMA TotalAppend ==
    ASSUME NEW s \in Seq(Int), NEW e \in Int
    PROVE  Total(Append(s, e)) = Total(s) + e
<1> DEFINE t == Append(s, e)
           N == Len(s)
<1>1. t \in Seq(Int) /\ Len(t) = N + 1 /\ N \in Nat /\ t[N + 1] = e /\ \A i \in 1 .. N : t[i] = s[i]
    OBVIOUS
<1>2. PICK f \in [0 .. N -> Int] :
          f[0] = 0 /\ (\A i \in 1 .. N : f[i] = f[i - 1] + s[i]) /\ Total(s) = f[N]
    BY PartialSums
<1>3. \E g \in [0 .. Len(t) -> Int] :
          g[0] = 0 /\ (\A i \in 1 .. Len(t) : g[i] = g[i - 1] + t[i]) /\ Total(t) = g[Len(t)]
    BY <1>1, PartialSums
<1> HIDE DEF t, N
<1>4. PICK g \in [0 .. N + 1 -> Int] :
          g[0] = 0 /\ (\A i \in 1 .. N + 1 : g[i] = g[i - 1] + t[i]) /\ Total(t) = g[N + 1]
    BY <1>1, <1>3
<1> DEFINE Good == {n \in Nat : n <= N => f[n] = g[n]}
<1>5. ASSUME NEW n \in Nat, n \in Good, n + 1 <= N PROVE f[n + 1] = g[n + 1]
  <2>1. n + 1 \in 1 .. N /\ n + 1 \in 1 .. N + 1 /\ n + 1 - 1 = n /\ n <= N
      BY <1>1, <1>5
  <2>2. f[n + 1] = f[n] + s[n + 1] /\ g[n + 1] = g[n] + t[n + 1]
      BY <1>2, <1>4, <2>1
  <2> QED BY <1>1, <1>5, <2>1, <2>2
<1>6. 0 \in Good /\ \A n \in Nat : n \in Good => n + 1 \in Good
    BY <1>2, <1>4, <1>5
<1> HIDE DEF Good
<1>7. N \in Good
    BY <1>1, <1>6, Induction
<1>8. f[N] = g[N] /\ f[N] \in Int
    BY <1>1, <1>7 DEF Good
<1>9. g[N + 1] = g[N] + e
  <2>1. N + 1 \in 1 .. N + 1 /\ N + 1 - 1 = N
      BY <1>1
  <2> QED BY <1>1, <1>4, <2>1
<1> QED BY <1>2, <1>4, <1>8, <1>9 DEF t

\* One number is replaced.
LEMMA TotalReplace ==
    ASSUME NEW s \in Seq(Int), NEW t \in Seq(Int), NEW k \in 1 .. Len(s),
           Len(t) = Len(s), \A i \in 1 .. Len(s) : i # k => t[i] = s[i]
    PROVE  Total(t) = Total(s) - s[k] + t[k]
<1> DEFINE N == Len(s)
<1>1. N \in Nat /\ k \in 1 .. N /\ s[k] \in Int /\ t[k] \in Int /\ Len(t) = N
      /\ \A i \in 1 .. N : s[i] \in Int /\ t[i] \in Int
    OBVIOUS
<1>2. PICK f \in [0 .. N -> Int] :
          f[0] = 0 /\ (\A i \in 1 .. N : f[i] = f[i - 1] + s[i]) /\ Total(s) = f[N]
    BY PartialSums
<1>3. PICK g \in [0 .. N -> Int] :
          g[0] = 0 /\ (\A i \in 1 .. N : g[i] = g[i - 1] + t[i]) /\ Total(t) = g[N]
    BY <1>1, PartialSums
<1>4. \A i \in 1 .. N : i # k => t[i] = s[i]
    OBVIOUS
<1> HIDE DEF N
<1> DEFINE Good == {n \in Nat : n <= N => (n < k => g[n] = f[n]) /\ (n >= k => g[n] = f[n] - s[k] + t[k])}
<1>5. ASSUME NEW n \in Nat, n \in Good, n + 1 <= N
      PROVE  (n + 1 < k => g[n + 1] = f[n + 1]) /\ (n + 1 >= k => g[n + 1] = f[n + 1] - s[k] + t[k])
  <2>1. n + 1 \in 1 .. N /\ n + 1 - 1 = n /\ n <= N /\ n \in 0 .. N
      BY <1>1, <1>5
  <2>2. f[n + 1] = f[n] + s[n + 1] /\ g[n + 1] = g[n] + t[n + 1]
      BY <1>2, <1>3, <2>1
  <2>3. f[n] \in Int /\ g[n] \in Int /\ s[n + 1] \in Int /\ t[n + 1] \in Int
      BY <1>1, <2>1
  <2>4. (n < k => g[n] = f[n]) /\ (n >= k => g[n] = f[n] - s[k] + t[k])
      BY <1>5, <2>1
  <2>5. (n + 1 # k => t[n + 1] = s[n + 1]) /\ (n + 1 = k => s[n + 1] = s[k] /\ t[n + 1] = t[k])
      BY <1>4, <2>1
  <2>6. PICK a \in Int, b \in Int, x \in Int, y \in Int :
           a = f[n] /\ b = g[n] /\ x = f[n + 1] /\ y = g[n + 1]
    <3>1. n + 1 \in 0 .. N
        BY <1>1, <2>1
    <3>2. f[n + 1] \in Int /\ g[n + 1] \in Int
        BY <3>1
    <3> QED BY ONLY <2>3, <3>2
  <2>7. PICK c \in Int, d \in Int, p \in Int, q \in Int :
           c = s[n + 1] /\ d = t[n + 1] /\ p = s[k] /\ q = t[k]
    <3>1. s[k] \in Int /\ t[k] \in Int
        BY <1>1
    <3> QED BY ONLY <2>3, <3>1
  <2>8. x = a + c /\ y = b + d
      BY <2>2, <2>6, <2>7
  <2>9. (n < k => b = a) /\ (n >= k => b = a - p + q)
      BY <2>4, <2>6, <2>7
  <2>10. (n + 1 # k => d = c) /\ (n + 1 = k => c = p /\ d = q)
      BY <2>5, <2>7
  <2>11. (n + 1 < k => y = x) /\ (n + 1 >= k => y = x - p + q)
    <3>1. k \in Int
        BY <1>1
    <3> QED BY ONLY <2>8, <2>9, <2>10, <3>1, n \in Nat, a \in Int, b \in Int, c \in Int, d \in Int, p \in Int, q \in Int
  <2> QED BY <2>6, <2>7, <2>11
<1>6. 0 \in Good
    BY <1>1, <1>2, <1>3
<1>7. \A n \in Nat : n \in Good => n + 1 \in Good
    BY <1>5
<1> HIDE DEF Good
<1>8. N \in Good
    BY <1>1, <1>6, <1>7, Induction
<1> QED BY <1>1, <1>2, <1>3, <1>8 DEF Good

\* A sum of numbers that are not negative is none.
LEMMA TotalNat ==
    ASSUME NEW s \in Seq(Nat)
    PROVE  Total(s) \in Nat
<1> DEFINE N == Len(s)
<1>1. N \in Nat /\ s \in Seq(Int) /\ \A i \in 1 .. N : s[i] \in Nat
    OBVIOUS
<1>2. PICK f \in [0 .. N -> Int] :
          f[0] = 0 /\ (\A i \in 1 .. N : f[i] = f[i - 1] + s[i]) /\ Total(s) = f[N]
    BY <1>1, PartialSums
<1> HIDE DEF N
<1> DEFINE Good == {n \in Nat : n <= N => f[n] \in Nat}
<1>3. ASSUME NEW n \in Nat, n \in Good, n + 1 <= N PROVE f[n + 1] \in Nat
  <2>1. n + 1 \in 1 .. N /\ n + 1 - 1 = n /\ n <= N
      BY <1>1, <1>3
  <2>2. f[n + 1] = f[n] + s[n + 1]
      BY <1>2, <2>1
  <2> QED BY <1>1, <1>3, <2>1, <2>2
<1>4. 0 \in Good /\ \A n \in Nat : n \in Good => n + 1 \in Good
    BY <1>2, <1>3
<1> HIDE DEF Good
<1>5. N \in Good
    BY <1>1, <1>4, Induction
<1> QED BY <1>1, <1>2, <1>5 DEF Good

\* The sum of zeros and ones counts the ones.
LEMMA TotalCounts ==
    ASSUME NEW s \in Seq({0, 1})
    PROVE  /\ IsFiniteSet({i \in 1 .. Len(s) : s[i] = 1})
           /\ Total(s) = Cardinality({i \in 1 .. Len(s) : s[i] = 1})
<1> DEFINE N == Len(s)
           Ones(n) == {i \in 1 .. n : s[i] = 1}
<1>1. N \in Nat /\ s \in Seq(Int) /\ \A i \in 1 .. N : s[i] \in {0, 1}
    OBVIOUS
<1>2. PICK f \in [0 .. N -> Int] :
          f[0] = 0 /\ (\A i \in 1 .. N : f[i] = f[i - 1] + s[i]) /\ Total(s) = f[N]
    BY <1>1, PartialSums
<1> HIDE DEF N
<1> DEFINE Good == {n \in Nat : n <= N => IsFiniteSet(Ones(n)) /\ f[n] = Cardinality(Ones(n))}
<1>3. 0 \in Good
  <2>1. Ones(0) = {}
      OBVIOUS
  <2> QED BY <1>2, <2>1, FS_EmptySet
<1>4. ASSUME NEW n \in Nat, n \in Good PROVE n + 1 \in Good
  <2> SUFFICES ASSUME n + 1 <= N PROVE IsFiniteSet(Ones(n + 1)) /\ f[n + 1] = Cardinality(Ones(n + 1))
      OBVIOUS
  <2>1. IsFiniteSet(Ones(n)) /\ f[n] = Cardinality(Ones(n)) /\ n + 1 \in 1 .. N
      BY <1>1, <1>4
  <2>2. f[n + 1] = f[n] + s[n + 1] /\ f[n] \in Int
    <3>1. f[n + 1] = f[(n + 1) - 1] + s[n + 1]
        BY <1>2, <2>1
    <3>2. (n + 1) - 1 = n /\ n \in 0 .. N
        BY <1>1, <2>1
    <3> QED BY <1>2, <3>1, <3>2
  <2>3. CASE s[n + 1] = 1
    <3>1. Ones(n + 1) = Ones(n) \cup {n + 1} /\ n + 1 \notin Ones(n)
        BY <2>3
    <3> HIDE DEF Ones
    <3>2. IsFiniteSet(Ones(n) \cup {n + 1}) /\ Cardinality(Ones(n) \cup {n + 1}) = Cardinality(Ones(n)) + 1
        BY <2>1, <3>1, FS_AddElement
    <3> QED BY <2>1, <2>2, <2>3, <3>1, <3>2
  <2>4. CASE s[n + 1] # 1
    <3>1. Ones(n + 1) = Ones(n)
        BY <2>4
    <3> HIDE DEF Ones
    <3>2. s[n + 1] = 0
        BY <1>1, <2>1, <2>4
    <3> QED BY <2>1, <2>2, <3>1, <3>2
  <2> QED BY <2>3, <2>4
<1> HIDE DEF Good
<1>5. N \in Good
    BY <1>1, <1>3, <1>4, Induction
<1>6. IsFiniteSet(Ones(N)) /\ f[N] = Cardinality(Ones(N))
    BY <1>1, <1>5 DEF Good
<1> QED BY <1>2, <1>6 DEF N

--------------------------------------------------------------------------------
(* Sorting.                                                                   *)

\* The positions of a list.
LEMMA IndexSet ==
    ASSUME NEW n \in Nat
    PROVE  IsFiniteSet(1 .. n) /\ Cardinality(1 .. n) = n
<1>1. 1 \in Int /\ n \in Int /\ (1 > n => n = 0)
    OBVIOUS
<1>2. IsFiniteSet(1 .. n) /\ Cardinality(1 .. n) = IF 1 > n THEN 0 ELSE n - 1 + 1
    BY <1>1, FS_Interval
<1> QED BY <1>1, <1>2

\* A list t has the elements of s, each once, in the order of their keys, and
\* those with one key in the order they had: p tells where each comes from.
Sorting(keys, s, t, p) ==
    /\ p \in [DOMAIN s -> DOMAIN s]
    /\ \A k \in DOMAIN s : \E r \in DOMAIN s : p[r] = k
    /\ \A r, q \in DOMAIN s : r < q => Precedes(keys, p[r], p[q])
    /\ \A r \in DOMAIN s : t[r] = s[p[r]]

\* SortedBy gives such a list.
LEMMA SortedByKeys ==
    ASSUME NEW S, NEW s \in Seq(S), NEW keys \in [DOMAIN s -> Int]
    PROVE  /\ SortedBy(keys, s) \in Seq(S) /\ Len(SortedBy(keys, s)) = Len(s)
           /\ \E p : Sorting(keys, s, SortedBy(keys, s), p)
<1> DEFINE N == Len(s)
           D == 1 .. N
           Before(k) == {j \in D : Precedes(keys, j, k)}
           Pos(k) == Position(keys, k)
<1>1. N \in Nat /\ DOMAIN s = D /\ DOMAIN keys = D /\ (\A k \in D : keys[k] \in Int /\ s[k] \in S)
    OBVIOUS
<1>2. \A k \in D : Pos(k) = 1 + Cardinality(Before(k))
    BY <1>1 DEF Position
<1> HIDE DEF N
<1> HIDE DEF Pos
<1>3. IsFiniteSet(D) /\ Cardinality(D) = N
    BY <1>1, IndexSet
<1>4. \A k \in D : IsFiniteSet(Before(k)) /\ Cardinality(Before(k)) \in Nat
  <2>1. \A k \in D : Before(k) \in SUBSET D
      OBVIOUS
  <2> HIDE DEF D, Before
  <2> QED BY <1>3, <2>1, FS_Subset, FS_CardinalityType
<1>5. \A k \in D : ~Precedes(keys, k, k)
    BY <1>1 DEF Precedes
<1>6. \A j, k \in D : j # k => Precedes(keys, j, k) \/ Precedes(keys, k, j)
    BY <1>1 DEF Precedes
<1>7. \A i, j, k \in D : Precedes(keys, i, j) /\ Precedes(keys, j, k) => Precedes(keys, i, k)
    BY <1>1 DEF Precedes
<1>8. ASSUME NEW j \in D, NEW k \in D, Precedes(keys, j, k)
      PROVE  Cardinality(Before(j)) < Cardinality(Before(k))
  <2>1. Before(j) \in SUBSET Before(k) /\ j \in Before(k) /\ j \notin Before(j)
      BY <1>5, <1>7, <1>8
  <2> HIDE DEF Before
  <2>2. Before(j) # Before(k)
      BY <2>1
  <2>3. Cardinality(Before(j)) <= Cardinality(Before(k)) /\ Cardinality(Before(j)) # Cardinality(Before(k))
      BY <1>4, <2>1, <2>2, FS_Subset
  <2> QED BY <1>4, <2>3
<1>9. \A k \in D : Pos(k) \in D
  <2>1. ASSUME NEW k \in D PROVE Cardinality(Before(k)) < N
    <3>1. Before(k) \in SUBSET D /\ k \notin Before(k)
        BY <1>5
    <3>2. Before(k) # D
        BY <3>1
    <3> HIDE DEF Before, D
    <3>3. Cardinality(Before(k)) <= N /\ Cardinality(Before(k)) # N
        BY <1>3, <3>1, <3>2, FS_Subset
    <3> QED BY <1>1, <1>4, <3>3
  <2>2. ASSUME NEW k \in D PROVE 1 + Cardinality(Before(k)) \in D
    <3> HIDE DEF Before
    <3> QED BY <1>1, <1>4, <2>1
  <2> QED BY <1>2, <2>2
<1>10. \A j, k \in D : Precedes(keys, j, k) => Pos(j) < Pos(k)
  <2> HIDE DEF Before
  <2>1. \A k \in D : Cardinality(Before(k)) \in Int
      BY <1>4
  <2> QED BY <1>2, <1>8, <2>1
<1>11. \A j, k \in D : Pos(j) = Pos(k) => j = k
  <2>1. \A k \in D : Pos(k) \in Int
      BY <1>1, <1>9
  <2> QED BY <1>6, <1>10, <2>1
<1> DEFINE pos == [k \in D |-> Pos(k)]
<1>12. pos \in Injection(D, D)
    BY <1>9, <1>11 DEF Injection, IsInjective
<1>13. \A r \in D : \E k \in D : Pos(k) = r
  <2> HIDE DEF pos, D
  <2>1. pos \in Surjection(D, D)
      BY <1>3, <1>12, FS_Injection
  <2>2. \A r \in D : \E k \in D : pos[k] = r
      BY <2>1 DEF Surjection
  <2> QED BY <2>2 DEF pos
<1> DEFINE At(r) == CHOOSE k \in D : Pos(k) = r
           p == [r \in D |-> At(r)]
           t == SortedBy(keys, s)
<1>14. t = [r \in D |-> s[At(r)]]
    BY <1>1 DEF SortedBy, Pos
<1>15. \A r \in D : At(r) \in D /\ Pos(At(r)) = r
    BY <1>13
<1> HIDE DEF At
<1>16. t \in Seq(S) /\ Len(t) = N
  <2>1. t \in [1 .. N -> S]
      BY <1>1, <1>14, <1>15
  <2> HIDE DEF t
  <2> QED BY <1>1, <2>1
<1>17. \A k \in D : \E r \in D : p[r] = k
    BY <1>9, <1>11, <1>15
<1>18. \A r, q \in D : r < q => Precedes(keys, p[r], p[q])
  <2>1. ASSUME NEW r \in D, NEW q \in D, r < q PROVE Precedes(keys, At(r), At(q))
    <3>1. r \in Int /\ q \in Int /\ r # q /\ ~(q < r)
        BY <1>1, <2>1
    <3>2. At(r) # At(q)
        BY <1>15, <3>1
    <3> QED BY <1>6, <1>10, <1>15, <3>1, <3>2
  <2> QED BY <2>1
<1>19. \A r \in D : t[r] = s[p[r]]
    BY <1>14
<1>20. p \in [D -> D]
    BY <1>15
<1> HIDE DEF t, p, D
<1>21. Sorting(keys, s, t, p)
    BY <1>1, <1>17, <1>18, <1>19, <1>20 DEF Sorting
<1> QED BY <1>16, <1>21 DEF t, N

--------------------------------------------------------------------------------
(* Lists of lists.                                                            *)

\* One list after another, by its places.
LEMMA ConcatPlaces ==
    ASSUME NEW S, NEW a \in Seq(S), NEW b \in Seq(S)
    PROVE  /\ a \o b \in Seq(S) /\ DOMAIN (a \o b) = 1 .. Len(a) + Len(b)
           /\ Len(a \o b) = Len(a) + Len(b)
           /\ \A i \in 1 .. Len(a) : (a \o b)[i] = a[i]
           /\ \A i \in 1 .. Len(a) + Len(b) : i > Len(a) => (a \o b)[i] = b[i - Len(a)]
<1>1. PICK m \in Nat, n \in Nat : m = Len(a) /\ n = Len(b)
    OBVIOUS
<1>2. a \o b \in Seq(S) /\ DOMAIN (a \o b) = 1 .. m + n /\ Len(a \o b) = m + n
    BY <1>1
<1>3. \A i \in 1 .. m : (a \o b)[i] = a[i]
    BY <1>1
<1>4. ASSUME NEW i \in 1 .. m + n, i > m PROVE (a \o b)[i] = b[i - m]
    BY <1>1, <1>4
<1> QED BY <1>1, <1>2, <1>3, <1>4

\* Of a set of numbers with a bound that is not empty one is the greatest.
LEMMA GreatestNumber ==
    ASSUME NEW n \in Nat, NEW S \in SUBSET (0 .. n), S # {}
    PROVE  \E k \in S : \A m \in S : m <= k
<1> DEFINE T == {x \in 0 .. n : n - x \in S}
<1>1. PICK s \in S : s \in 0 .. n
    OBVIOUS
<1>2. n - s \in 0 .. n /\ n - (n - s) = s
    BY <1>1
<1>3. T \in SUBSET Nat /\ n - s \in T
    BY <1>2
<1>4. PICK l \in T : \A m \in T : l <= m
  <2> HIDE DEF T
  <2> QED BY <1>3, LeastNumber
<1>5. ASSUME NEW m \in S PROVE m <= n - l
  <2>1. m \in 0 .. n /\ n - m \in 0 .. n /\ n - (n - m) = m
      OBVIOUS
  <2>2. n - m \in T
      BY <2>1
  <2>3. l <= n - m
    <3> HIDE DEF T
    <3> QED BY <1>4, <2>2
  <2>4. l \in Nat
      OBVIOUS
  <2> HIDE DEF T
  <2> QED BY <2>1, <2>3, <2>4
<1>6. n - l \in S
    BY <1>4
<1> QED BY <1>5, <1>6

\* A list is what is up to a place and what is behind it.
LEMMA SplitAt ==
    ASSUME NEW S, NEW s \in Seq(S), NEW k \in 0 .. Len(s)
    PROVE  /\ SubSeq(s, 1, k) \in Seq(S) /\ SubSeq(s, k + 1, Len(s)) \in Seq(S)
           /\ s = SubSeq(s, 1, k) \o SubSeq(s, k + 1, Len(s))
           /\ Len(SubSeq(s, 1, k)) = k /\ \A i \in 1 .. k : SubSeq(s, 1, k)[i] = s[i]
           /\ Len(SubSeq(s, k + 1, Len(s))) = Len(s) - k
           /\ \A i \in 1 .. Len(s) - k : SubSeq(s, k + 1, Len(s))[i] = s[k + i]
<1> DEFINE a == SubSeq(s, 1, k)
           b == SubSeq(s, k + 1, Len(s))
<1>1. PICK n \in Nat : n = Len(s) /\ k \in 0 .. n /\ n - k \in Nat
    OBVIOUS
<1>2. a \in Seq(S) /\ Len(a) = k /\ \A i \in 1 .. k : a[i] = s[i]
    BY <1>1
<1>3. b \in Seq(S) /\ Len(b) = n - k /\ \A i \in 1 .. n - k : b[i] = s[k + i]
    BY <1>1
<1> HIDE DEF a, b
<1>4. PICK m \in Nat : m = n - k
    BY <1>1
<1>5. k + m = n /\ k \in Nat
    BY <1>1, <1>4
<1>6. /\ a \o b \in Seq(S) /\ DOMAIN (a \o b) = 1 .. k + m
      /\ \A i \in 1 .. k : (a \o b)[i] = a[i]
      /\ \A i \in 1 .. k + m : i > k => (a \o b)[i] = b[i - k]
  <2>1. PICK v \in Seq(S), w \in Seq(S) : v = a /\ w = b
      BY <1>2, <1>3
  <2>2. Len(v) = k /\ Len(w) = m
      BY <1>2, <1>3, <1>4, <2>1
  <2>3. v \in Seq(S) /\ w \in Seq(S)
      OBVIOUS
  <2>4. /\ v \o w \in Seq(S) /\ DOMAIN (v \o w) = 1 .. Len(v) + Len(w)
        /\ \A i \in 1 .. Len(v) : (v \o w)[i] = v[i]
        /\ \A i \in 1 .. Len(v) + Len(w) : i > Len(v) => (v \o w)[i] = w[i - Len(v)]
      BY ONLY <2>3, ConcatPlaces
  <2> QED BY <2>1, <2>2, <2>4
<1>7. ASSUME NEW i \in 1 .. n PROVE (a \o b)[i] = s[i]
  <2>1. CASE i <= k
    <3>1. i \in 1 .. k
        BY <1>5, <2>1
    <3> QED BY <1>2, <1>6, <3>1
  <2>2. CASE i > k
    <3>1. i - k \in 1 .. m /\ k + (i - k) = i /\ i \in 1 .. k + m
        BY <1>5, <2>2
    <3> QED BY <1>3, <1>4, <1>6, <2>2, <3>1
  <2>3. i <= k \/ i > k
      BY <1>5
  <2> QED BY <2>1, <2>2, <2>3
<1>8. s = [i \in 1 .. n |-> s[i]]
    BY <1>1
<1>9. a \o b = [i \in 1 .. n |-> (a \o b)[i]]
  <2> DEFINE c == a \o b
  <2> HIDE DEF c
  <2>1. c \in Seq(S) /\ DOMAIN c = 1 .. n
      BY <1>5, <1>6 DEF c
  <2>2. c = [i \in 1 .. n |-> c[i]]
      BY ONLY <2>1
  <2> QED BY <2>2 DEF c
<1>10. a \o b = s
    BY <1>7, <1>8, <1>9
<1> QED BY <1>1, <1>2, <1>3, <1>10 DEF a, b

\* The elements of two lists, one after the other.
LEMMA ConcatHolds ==
    ASSUME NEW S, NEW a \in Seq(S), NEW b \in Seq(S)
    PROVE  ToSet(a \o b) = ToSet(a) \cup ToSet(b)
<1>1. /\ DOMAIN (a \o b) = 1 .. Len(a) + Len(b) /\ DOMAIN a = 1 .. Len(a) /\ DOMAIN b = 1 .. Len(b)
      /\ Len(a) \in Nat /\ Len(b) \in Nat
    OBVIOUS
<1>2. \A i \in 1 .. Len(a) : i \in DOMAIN (a \o b) /\ (a \o b)[i] = a[i]
    OBVIOUS
<1>3. \A i \in 1 .. Len(b) : Len(a) + i \in DOMAIN (a \o b) /\ (a \o b)[Len(a) + i] = b[i]
    OBVIOUS
<1>4. ASSUME NEW i \in DOMAIN (a \o b) PROVE (a \o b)[i] \in ToSet(a) \cup ToSet(b)
  <2>1. CASE i <= Len(a)
    <3>1. i \in 1 .. Len(a)
        BY <1>1, <1>4, <2>1
    <3> QED BY <1>1, <1>2, <3>1 DEF ToSet
  <2>2. CASE ~(i <= Len(a))
    <3>1. i - Len(a) \in 1 .. Len(b) /\ i = Len(a) + (i - Len(a))
        BY <1>1, <1>4, <2>2
    <3>2. (a \o b)[i] = b[i - Len(a)]
        BY <1>3, <3>1
    <3> QED BY <1>1, <3>1, <3>2 DEF ToSet
  <2> QED BY <2>1, <2>2
<1>5. ToSet(a) \subseteq ToSet(a \o b)
    BY <1>1, <1>2 DEF ToSet
<1>6. ToSet(b) \subseteq ToSet(a \o b)
    BY <1>1, <1>3 DEF ToSet
<1>7. ToSet(a \o b) \subseteq ToSet(a) \cup ToSet(b)
    BY <1>4 DEF ToSet
<1> QED BY <1>5, <1>6, <1>7

\* A flattened list is what concatenating its lists one by one comes to.
Flattens(f, seqs) ==
    /\ f[0] = <<>> /\ FlattenSeq(seqs) = f[Len(seqs)]
    /\ \A i \in Nat : i + 1 \in 0 .. Len(seqs) => f[i + 1] = f[i] \o seqs[i + 1]

\* There are the lists it goes through.
LEMMA FlattenSteps ==
    ASSUME NEW S, NEW seqs \in Seq(Seq(S))
    PROVE  \E f \in [0 .. Len(seqs) -> Seq(S)] : Flattens(f, seqs)
<1> DEFINE N == Len(seqs)
           Body(f) == [i \in 1 .. N |-> IF i = 1 THEN seqs[i] ELSE f[i - 1] \o seqs[i]]
           all == CHOOSE f : f = Body(f)
           step == [p \in (1 .. N) \X Seq(S) |-> p[2] \o seqs[p[1]]]
<1>0. \A a, b \in Seq(S) : a \o b \in Seq(S) /\ <<>> \o a = a
    OBVIOUS
<1>1. N \in Nat /\ DOMAIN seqs = 1 .. N /\ \A i \in 1 .. N : seqs[i] \in Seq(S)
    OBVIOUS
<1>2. CASE N = 0
  <2> DEFINE f == [i \in 0 .. N |-> <<>>]
  <2>1. FlattenSeq(seqs) = <<>>
      BY <1>1, <1>2 DEF FlattenSeq
  <2>2. f \in [0 .. N -> Seq(S)] /\ f[0] = <<>> /\ f[N] = <<>>
      BY <1>2
  <2>3. Flattens(f, seqs)
      BY <1>2, <2>1, <2>2 DEF Flattens
  <2> QED BY <2>2, <2>3
<1>3. CASE N # 0
  <2>1. FlattenSeq(seqs) = all[N]
      BY <1>3 DEF FlattenSeq
  <2>2. step \in Steps(N, Seq(S)) /\ \A i \in 1 .. N, x \in Seq(S) : step[<<i, x>>] = x \o seqs[i]
    <3>1. \A i \in 1 .. N, x \in Seq(S) : step[<<i, x>>] = x \o seqs[i]
        OBVIOUS
    <3>2. \A p \in (1 .. N) \X Seq(S) : p[2] \o seqs[p[1]] \in Seq(S)
        BY <1>0, <1>1
    <3>3. step \in [(1 .. N) \X Seq(S) -> Seq(S)]
        BY <3>2
    <3> QED BY <3>1, <3>3 DEF Steps
  <2> HIDE DEF step, N
  <2>3. PICK f : Iterates(f, N, Seq(S), <<>>, step)
    <3>1. <<>> \in Seq(S)
        OBVIOUS
    <3> HIDE DEF all
    <3> QED BY ONLY <1>1, <2>2, <3>1, Recursion
  <2>4. f[0] = <<>> /\ f \in [0 .. N -> Seq(S)] /\ \A i \in 1 .. N : f[i] = f[i - 1] \o seqs[i]
    <3>1. \A i \in 1 .. N : i - 1 \in 0 .. N
        BY <1>1
    <3> QED BY <2>2, <2>3, <3>1 DEF Iterates
  <2> DEFINE g == [i \in 1 .. N |-> f[i]]
  <2>5. g = Body(g)
    <3>1. ASSUME NEW i \in 1 .. N PROVE f[i] = IF i = 1 THEN seqs[i] ELSE g[i - 1] \o seqs[i]
      <4>1. CASE i = 1
        <5>1. 1 \in 1 .. N /\ 1 - 1 = 0
            BY <4>1
        <5>2. f[1] = <<>> \o seqs[1] /\ seqs[1] \in Seq(S)
            BY <1>1, <2>4, <5>1
        <5>3. f[1] = seqs[1]
            BY <1>0, <5>2
        <5> QED BY <4>1, <5>3
      <4>2. CASE i # 1
        <5>1. i - 1 \in 1 .. N
            BY <1>1, <4>2
        <5> QED BY <2>4, <4>2, <5>1
      <4> QED BY <4>1, <4>2
    <3> QED BY <3>1
  <2>6. all = Body(all)
      BY <2>5
  <2> HIDE DEF all
  <2>7. \A i \in 1 .. N : all[i] = IF i = 1 THEN seqs[i] ELSE all[i - 1] \o seqs[i]
      BY <2>6
  <2> DEFINE Holds(n) == all[n] = f[n]
             Good == {n \in Nat : n \in 1 .. N => Holds(n)}
  <2>8. 0 \in Good
      OBVIOUS
  <2>9. ASSUME NEW n \in Nat, n \in Good, n + 1 \in 1 .. N
        PROVE  Holds(n + 1)
    <3>1. CASE n = 0
      <4>1. 1 \in 1 .. N /\ 1 - 1 = 0 /\ n + 1 = 1
          BY <1>1, <2>9, <3>1
      <4>2. all[1] = seqs[1] /\ f[1] = f[1 - 1] \o seqs[1]
          BY <2>4, <2>7, <4>1
      <4>3. f[1] = <<>> \o seqs[1] /\ seqs[1] \in Seq(S)
          BY <1>1, <2>4, <4>1, <4>2
      <4>4. f[1] = seqs[1]
          BY <1>0, <4>3
      <4> QED BY <4>1, <4>2, <4>4
    <3>2. CASE n # 0
      <4>1. n \in 1 .. N /\ n + 1 # 1 /\ n + 1 - 1 = n
          BY <1>1, <2>9, <3>2
      <4>2. all[n + 1] = all[n] \o seqs[n + 1]
        <5>1. all[n + 1] = IF n + 1 = 1 THEN seqs[n + 1] ELSE all[n + 1 - 1] \o seqs[n + 1]
            BY <2>7, <2>9
        <5> QED BY <4>1, <5>1
      <4>3. f[n + 1] = f[n] \o seqs[n + 1]
        <5>1. PICK j \in 1 .. N : j = n + 1 /\ j - 1 = n
            BY <2>9, <4>1
        <5>2. f[j] = f[j - 1] \o seqs[j]
            BY <2>4
        <5> QED BY <5>1, <5>2
      <4> QED BY <2>9, <4>1, <4>2, <4>3
    <3> QED BY <3>1, <3>2
  <2>10. \A n \in Nat : n \in Good => n + 1 \in Good
    <3> HIDE DEF Holds
    <3> QED BY <2>9
  <2> HIDE DEF Good
  <2>11. N \in Good
      BY <1>1, <2>8, <2>10, Induction
  <2>12. all[N] = f[N]
      BY <1>1, <1>3, <2>11 DEF Good
  <2>13. ASSUME NEW n \in Nat, n + 1 \in 0 .. N PROVE f[n + 1] = f[n] \o seqs[n + 1]
    <3>1. PICK j \in 1 .. N : j = n + 1 /\ j - 1 = n
        BY <1>1, <2>13
    <3>2. f[j] = f[j - 1] \o seqs[j]
        BY <2>4
    <3> QED BY <3>1, <3>2
  <2>14. Flattens(f, seqs)
      BY <2>1, <2>4, <2>12, <2>13 DEF Flattens, N
  <2> QED BY <2>4, <2>14 DEF N
<1> QED BY <1>2, <1>3

\* The elements of the lists, in one list.
LEMMA FlattenHolds ==
    ASSUME NEW S, NEW seqs \in Seq(Seq(S))
    PROVE  /\ FlattenSeq(seqs) \in Seq(S)
           /\ ToSet(FlattenSeq(seqs)) = UNION {ToSet(seqs[i]) : i \in DOMAIN seqs}
<1> DEFINE N == Len(seqs)
<1>1. N \in Nat /\ DOMAIN seqs = 1 .. N /\ \A i \in 1 .. N : seqs[i] \in Seq(S)
    OBVIOUS
<1>2. PICK f \in [0 .. N -> Seq(S)] : Flattens(f, seqs)
    BY FlattenSteps
<1>3. f[0] = <<>> /\ FlattenSeq(seqs) = f[N] /\ f[N] \in Seq(S)
    BY <1>1, <1>2 DEF Flattens
<1> DEFINE Holds(n) == ToSet(f[n]) = UNION {ToSet(seqs[i]) : i \in 1 .. n}
           Good == {n \in Nat : n \in 0 .. N => Holds(n)}
<1>4. 0 \in Good
    BY <1>3 DEF ToSet
<1>5. ASSUME NEW n \in Nat, n \in Good, n + 1 \in 0 .. N PROVE Holds(n + 1)
  <2>1. 1 .. n + 1 = (1 .. n) \cup {n + 1}
      OBVIOUS
  <2>2. n \in 0 .. N /\ f[n + 1] = f[n] \o seqs[n + 1] /\ f[n] \in Seq(S) /\ seqs[n + 1] \in Seq(S)
    <3>1. n \in 0 .. N /\ n + 1 \in 1 .. N
        BY <1>1, <1>5
    <3>2. f[n + 1] = f[n] \o seqs[n + 1]
        BY <1>2, <1>5 DEF Flattens
    <3> QED BY <1>1, <1>2, <3>1, <3>2
  <2>3. ToSet(f[n + 1]) = ToSet(f[n]) \cup ToSet(seqs[n + 1])
      BY <2>2, ConcatHolds
  <2> QED BY <1>5, <2>1, <2>2, <2>3
<1>6. \A n \in Nat : n \in Good => n + 1 \in Good
  <2> HIDE DEF Holds
  <2> QED BY <1>5
<1> HIDE DEF Good
<1>7. N \in Good
    BY <1>1, <1>4, <1>6, Induction
<1>8. Holds(N)
    BY <1>1, <1>7 DEF Good
<1> QED BY <1>1, <1>3, <1>8

\* Lists are put together in any order.
LEMMA ConcatAssociates ==
    ASSUME NEW S, NEW a \in Seq(S), NEW b \in Seq(S), NEW c \in Seq(S)
    PROVE  (a \o b) \o c = a \o (b \o c)
<1> DEFINE l == (a \o b) \o c
           r == a \o (b \o c)
<1>1. PICK m \in Nat, n \in Nat, k \in Nat : m = Len(a) /\ n = Len(b) /\ k = Len(c)
    OBVIOUS
<1>2. /\ a \o b \in Seq(S) /\ Len(a \o b) = m + n
      /\ b \o c \in Seq(S) /\ Len(b \o c) = n + k
    BY <1>1
<1>3. /\ l \in Seq(S) /\ Len(l) = m + n + k
      /\ r \in Seq(S) /\ Len(r) = m + (n + k)
    BY <1>1, <1>2
<1>4. ASSUME NEW i \in 1 .. m + n + k PROVE l[i] = r[i]
  <2>1. CASE i <= m
      BY <1>1, <1>2, <2>1
  <2>2. CASE i > m /\ i <= m + n
    <3>1. i - m \in 1 .. n
        BY <2>2
    <3>2. l[i] = b[i - m]
        BY <1>1, <1>2, <2>2, <3>1
    <3>3. r[i] = (b \o c)[i - m]
        BY <1>1, <1>2, <2>2, <3>1
    <3> QED BY <1>1, <3>1, <3>2, <3>3
  <2>3. CASE i > m + n
    <3>1. i - (m + n) \in 1 .. k /\ i - m \in 1 .. n + k /\ ~(i - m <= n) /\ i - m - n = i - (m + n)
        BY <2>3
    <3>2. l[i] = c[i - (m + n)]
        BY <1>1, <1>2, <2>3, <3>1
    <3>3. r[i] = (b \o c)[i - m]
        BY <1>1, <1>2, <2>3, <3>1
    <3>4. (b \o c)[i - m] = c[i - m - n]
        BY <1>1, <3>1
    <3> QED BY <3>1, <3>2, <3>3, <3>4
  <2> HIDE DEF l, r
  <2>4. i <= m \/ (i > m /\ i <= m + n) \/ i > m + n
      OBVIOUS
  <2> QED BY <2>1, <2>2, <2>3, <2>4
<1>5. Len(l) = Len(r) /\ m + n + k = m + (n + k)
    BY <1>3
<1> HIDE DEF l, r
<1>6. l = [i \in 1 .. m + n + k |-> l[i]] /\ r = [i \in 1 .. m + n + k |-> r[i]]
    BY <1>3, <1>5
<1> QED BY <1>4, <1>6 DEF l, r

\* Two lists of lists, flattened one after the other.
LEMMA FlattenConcat ==
    ASSUME NEW S, NEW a \in Seq(Seq(S)), NEW b \in Seq(Seq(S))
    PROVE  FlattenSeq(a \o b) = FlattenSeq(a) \o FlattenSeq(b)
<1> DEFINE c == a \o b
<1>0. \A x, y, z \in Seq(S) : (x \o y) \o z = x \o (y \o z)
    BY ONLY ConcatAssociates
<1>1. PICK m \in Nat, n \in Nat : m = Len(a) /\ n = Len(b)
    OBVIOUS
<1>2. /\ c \in Seq(Seq(S)) /\ Len(c) = m + n
      /\ \A i \in 1 .. m : c[i] = a[i]
      /\ \A i \in 1 .. n : c[m + i] = b[i] /\ b[i] \in Seq(S)
    BY <1>1
<1> HIDE DEF c
<1>3. PICK f \in [0 .. m -> Seq(S)] : Flattens(f, a)
    BY <1>1, FlattenSteps
<1>4. PICK g \in [0 .. n -> Seq(S)] : Flattens(g, b)
    BY <1>1, FlattenSteps
<1>5. PICK h \in [0 .. m + n -> Seq(S)] : Flattens(h, c)
    BY <1>2, FlattenSteps
<1>6. /\ f[0] = <<>> /\ FlattenSeq(a) = f[m]
      /\ g[0] = <<>> /\ FlattenSeq(b) = g[n]
      /\ h[0] = <<>> /\ FlattenSeq(c) = h[m + n]
    BY <1>1, <1>2, <1>3, <1>4, <1>5 DEF Flattens
<1> DEFINE Same(i) == h[i] = f[i]
           Good == {i \in Nat : i \in 0 .. m => Same(i)}
<1>7. 0 \in Good
    BY <1>6
<1>8. ASSUME NEW i \in Nat, i \in Good, i + 1 \in 0 .. m PROVE Same(i + 1)
  <2>1. i \in 0 .. m /\ i + 1 \in 1 .. m /\ i + 1 \in 0 .. m + n
      BY <1>1, <1>8
  <2>2. h[i] = f[i]
      BY <1>8, <2>1
  <2>3. f[i + 1] = f[i] \o a[i + 1]
      BY <1>1, <1>3, <1>8 DEF Flattens
  <2>4. h[i + 1] = h[i] \o c[i + 1]
      BY <1>2, <1>5, <2>1 DEF Flattens
  <2>5. c[i + 1] = a[i + 1]
      BY <1>2, <2>1
  <2> QED BY <2>2, <2>3, <2>4, <2>5
<1>9. \A i \in Nat : i \in Good => i + 1 \in Good
  <2> HIDE DEF Same
  <2> QED BY <1>8
<1>10. m \in Good
  <2> HIDE DEF Good
  <2> QED BY <1>1, <1>7, <1>9, Induction
<1>11. h[m] = f[m]
    BY <1>1, <1>10
<1> HIDE DEF Good
<1> DEFINE Longer(i) == h[m + i] = f[m] \o g[i]
           All == {i \in Nat : i \in 0 .. n => Longer(i)}
<1>12. f[m] \in Seq(S)
  <2>1. m \in 0 .. m
      BY <1>1
  <2> QED BY <1>3, <2>1
<1>13. 0 \in All
  <2>1. f[m] \o <<>> = f[m] /\ m + 0 = m
      BY <1>1, <1>12
  <2> QED BY <1>6, <1>11, <2>1
<1>14. ASSUME NEW i \in Nat, i \in All, i + 1 \in 0 .. n PROVE Longer(i + 1)
  <2>1. PICK k \in Nat : k = m + i
      BY <1>1
  <2>2. i \in 0 .. n /\ i + 1 \in 1 .. n /\ k + 1 = m + (i + 1) /\ k + 1 \in 0 .. m + n
      BY <1>1, <1>14, <2>1
  <2>3. h[k] = f[m] \o g[i]
      BY <1>14, <2>1, <2>2
  <2>4. h[k + 1] = h[k] \o c[k + 1]
      BY <1>2, <1>5, <2>2 DEF Flattens
  <2>5. c[k + 1] = b[i + 1] /\ b[i + 1] \in Seq(S)
    <3>1. PICK j \in 1 .. n : j = i + 1 /\ m + j = k + 1
        BY <1>1, <2>1, <2>2
    <3>2. c[m + j] = b[j] /\ b[j] \in Seq(S)
        BY <1>2
    <3> QED BY <3>1, <3>2
  <2>6. g[i + 1] = g[i] \o b[i + 1] /\ g[i] \in Seq(S)
      BY <1>1, <1>4, <1>14, <2>2 DEF Flattens
  <2>7. (f[m] \o g[i]) \o b[i + 1] = f[m] \o (g[i] \o b[i + 1])
      BY <1>0, <1>12, <2>5, <2>6
  <2> QED BY <2>2, <2>3, <2>4, <2>5, <2>6, <2>7
<1>15. \A i \in Nat : i \in All => i + 1 \in All
  <2> HIDE DEF Longer
  <2> QED BY <1>14
<1>16. n \in All
  <2> HIDE DEF All
  <2> QED BY <1>1, <1>13, <1>15, Induction
<1>17. h[m + n] = f[m] \o g[n]
    BY <1>1, <1>16
<1> QED BY <1>6, <1>17 DEF c

--------------------------------------------------------------------------------
(* What each element of a list comes to, in one list.                         *)

\* F gives a list of elements of T for each element of S.
Gives(F, S, T) == F \in [S -> Seq(T)]

Parts(F, s) == [i \in DOMAIN s |-> F[s[i]]]
Each(F, s) == FlattenSeq(Parts(F, s))
Held(F, s) == UNION {ToSet(F[x]) : x \in ToSet(s)}

\* It is made of what the elements come to.
LEMMA EachHolds ==
    ASSUME NEW S, NEW T, NEW F, Gives(F, S, T), NEW s \in Seq(S)
    PROVE  /\ Parts(F, s) \in Seq(Seq(T))
           /\ Each(F, s) \in Seq(T)
           /\ ToSet(Each(F, s)) = Held(F, s)
<1> DEFINE seqs == Parts(F, s)
<1>1. Len(s) \in Nat /\ DOMAIN s = 1 .. Len(s) /\ \A i \in DOMAIN s : s[i] \in S
    OBVIOUS
<1>2. seqs \in [1 .. Len(s) -> Seq(T)] /\ DOMAIN seqs = DOMAIN s /\ \A i \in DOMAIN s : seqs[i] = F[s[i]]
    BY <1>1 DEF Parts, Gives
<1> HIDE DEF seqs
<1>3. seqs \in Seq(Seq(T))
    BY <1>1, <1>2
<1>4. FlattenSeq(seqs) \in Seq(T) /\ ToSet(FlattenSeq(seqs)) = UNION {ToSet(seqs[i]) : i \in DOMAIN seqs}
    BY <1>3, FlattenHolds
<1>5. {ToSet(seqs[i]) : i \in DOMAIN seqs} = {ToSet(F[x]) : x \in ToSet(s)}
  <2>1. ToSet(s) = {s[i] : i \in DOMAIN s}
      BY DEF ToSet
  <2>2. \A i \in DOMAIN seqs : s[i] \in ToSet(s) /\ seqs[i] = F[s[i]]
      BY <1>2, <2>1
  <2>3. \A x \in ToSet(s) : \E i \in DOMAIN seqs : seqs[i] = F[x]
      BY <1>2, <2>1
  <2> QED BY <2>2, <2>3
<1> QED BY <1>3, <1>4, <1>5 DEF Each, Held, seqs

\* What two lists come to.
LEMMA EachConcat ==
    ASSUME NEW S, NEW T, NEW F, Gives(F, S, T), NEW a \in Seq(S), NEW b \in Seq(S)
    PROVE  Each(F, a \o b) = Each(F, a) \o Each(F, b)
<1> DEFINE c == a \o b
           r == Parts(F, a) \o Parts(F, b)
<1>1. PICK m \in Nat, n \in Nat : m = Len(a) /\ n = Len(b)
    OBVIOUS
<1>2. /\ c \in Seq(S) /\ DOMAIN c = 1 .. m + n /\ DOMAIN a = 1 .. m /\ DOMAIN b = 1 .. n
      /\ \A i \in 1 .. m : c[i] = a[i]
      /\ \A i \in 1 .. m + n : i > m => i - m \in 1 .. n /\ c[i] = b[i - m]
    BY <1>1
<1> HIDE DEF c
<1>3. Parts(F, a) \in Seq(Seq(T)) /\ Parts(F, b) \in Seq(Seq(T))
    BY EachHolds
<1>4. Len(Parts(F, a)) = m /\ Len(Parts(F, b)) = n
    BY <1>1, <1>2 DEF Parts
<1>5. /\ r \in Seq(Seq(T)) /\ DOMAIN r = 1 .. m + n
      /\ \A i \in 1 .. m : r[i] = Parts(F, a)[i]
      /\ \A i \in 1 .. m + n : i > m => r[i] = Parts(F, b)[i - m]
  <2>1. PICK v \in Seq(Seq(T)), w \in Seq(Seq(T)) : v = Parts(F, a) /\ w = Parts(F, b)
      BY <1>3
  <2>2. Len(v) = m /\ Len(w) = n
      BY <1>4, <2>1
  <2>3. /\ v \o w \in Seq(Seq(T)) /\ DOMAIN (v \o w) = 1 .. m + n
        /\ \A i \in 1 .. m : (v \o w)[i] = v[i]
        /\ \A i \in 1 .. m + n : i > m => (v \o w)[i] = w[i - m]
      BY ONLY <2>2, v \in Seq(Seq(T)), w \in Seq(Seq(T)), m \in Nat, n \in Nat, ConcatPlaces
  <2> QED BY <2>1, <2>3
<1>6. ASSUME NEW i \in 1 .. m + n PROVE Parts(F, c)[i] = r[i]
  <2>1. Parts(F, c)[i] = F[c[i]]
      BY <1>2 DEF Parts
  <2> HIDE DEF r
  <2>2. CASE i <= m
    <3>1. i \in 1 .. m
        BY <1>1, <2>2
    <3> QED BY <1>2, <1>5, <2>1, <3>1 DEF Parts
  <2>3. CASE i > m
      BY <1>2, <1>5, <2>1, <2>3 DEF Parts
  <2> QED BY <1>1, <2>2, <2>3
<1>7. Parts(F, c) = [i \in 1 .. m + n |-> Parts(F, c)[i]]
    BY <1>2 DEF Parts
<1>8. r = [i \in 1 .. m + n |-> r[i]]
  <2> HIDE DEF r
  <2> QED BY <1>5
<1>9. Parts(F, c) = r
  <2> HIDE DEF r
  <2> QED BY <1>6, <1>7, <1>8
<1>10. FlattenSeq(r) = FlattenSeq(Parts(F, a)) \o FlattenSeq(Parts(F, b))
    BY <1>3, FlattenConcat
<1> QED BY <1>9, <1>10 DEF Each, c

\* A list of which nothing comes.
LEMMA EachNothing ==
    ASSUME NEW S, NEW T, NEW F, Gives(F, S, T), NEW s \in Seq(S), \A i \in DOMAIN s : F[s[i]] = <<>>
    PROVE  Each(F, s) = <<>>
<1> DEFINE e == Each(F, s)
<1>1. e \in Seq(T) /\ ToSet(e) = Held(F, s)
    BY EachHolds
<1>2. \A x \in ToSet(s) : ToSet(F[x]) = {}
    BY DEF ToSet
<1>3. ToSet(e) = {}
    BY <1>1, <1>2 DEF Held
<1> HIDE DEF e
<1>4. \A i \in 1 .. Len(e) : e[i] \in ToSet(e)
    BY <1>1 DEF ToSet
<1>5. Len(e) = 0
  <2>1. Len(e) \in Nat
      BY <1>1
  <2>2. Len(e) # 0 => 1 \in 1 .. Len(e)
      BY <2>1
  <2> QED BY <1>3, <1>4, <2>2
<1>6. e = <<>>
    BY <1>1, <1>5
<1> QED BY <1>6 DEF e

\* What one element comes to.
LEMMA EachOne ==
    ASSUME NEW S, NEW T, NEW F, Gives(F, S, T), NEW x \in S
    PROVE  Each(F, <<x>>) = F[x]
<1> DEFINE seqs == <<F[x]>>
<1>1. Parts(F, <<x>>) = seqs
    BY DEF Parts
<1>2. F[x] \in Seq(T)
    BY DEF Gives
<1>3. seqs \in Seq(Seq(T)) /\ Len(seqs) = 1 /\ seqs[1] = F[x]
    BY <1>2
<1> HIDE DEF seqs
<1>4. PICK f \in [0 .. 1 -> Seq(T)] : Flattens(f, seqs)
    BY <1>3, FlattenSteps
<1>5. f[0] = <<>> /\ FlattenSeq(seqs) = f[1] /\ f[0 + 1] = f[0] \o seqs[0 + 1]
  <2>1. 0 + 1 \in 0 .. Len(seqs)
      BY <1>3
  <2> QED BY <1>3, <1>4, <2>1 DEF Flattens
<1>6. f[1] = <<>> \o F[x]
    BY <1>3, <1>5
<1> QED BY <1>1, <1>2, <1>5, <1>6 DEF Each

--------------------------------------------------------------------------------
(* Selections.                                                                *)

\* An element, if it is wanted.
Wanted(S, some) == [x \in S |-> IF x \in some THEN <<x>> ELSE <<>>]

\* Only is what each element that is wanted comes to.
LEMMA OnlyIsEach ==
    ASSUME NEW S, NEW some, NEW s \in Seq(S)
    PROVE  Gives(Wanted(S, some), S, S) /\ Only(s, some) = Each(Wanted(S, some), s)
<1>1. \A x \in S : <<x>> \in Seq(S) /\ <<>> \in Seq(S)
    OBVIOUS
<1>2. Wanted(S, some) \in [S -> Seq(S)]
    BY <1>1 DEF Wanted
<1>3. \A i \in DOMAIN s : s[i] \in S
    OBVIOUS
<1>4. [i \in DOMAIN s |-> IF s[i] \in some THEN <<s[i]>> ELSE <<>>] = Parts(Wanted(S, some), s)
    BY <1>3 DEF Wanted, Parts
<1> QED BY <1>2, <1>4 DEF Only, Each, Gives

\* It has the elements that are wanted.
LEMMA OnlyHolds ==
    ASSUME NEW S, NEW some, NEW s \in Seq(S)
    PROVE  Only(s, some) \in Seq(S) /\ ToSet(Only(s, some)) = ToSet(s) \cap some
<1> DEFINE F == Wanted(S, some)
<1>1. Gives(F, S, S) /\ Only(s, some) = Each(F, s)
    BY OnlyIsEach
<1>2. Each(F, s) \in Seq(S) /\ ToSet(Each(F, s)) = Held(F, s)
  <2> HIDE DEF F
  <2>1. Gives(F, S, S)
      BY <1>1
  <2> QED BY <2>1, EachHolds
<1>3. ToSet(s) \subseteq S
    BY DEF ToSet
<1>4. \A x \in ToSet(s) : ToSet(F[x]) = {x} \cap some
  <2> SUFFICES ASSUME NEW x \in ToSet(s) PROVE ToSet(F[x]) = {x} \cap some
      OBVIOUS
  <2>1. F[x] = IF x \in some THEN <<x>> ELSE <<>>
      BY <1>3 DEF Wanted
  <2>2. ToSet(<<x>>) = {x} /\ ToSet(<<>>) = {}
      BY DEF ToSet
  <2> HIDE DEF F
  <2> QED BY <2>1, <2>2
<1>5. Held(F, s) = ToSet(s) \cap some
  <2> HIDE DEF F
  <2> QED BY <1>4 DEF Held
<1> QED BY <1>1, <1>2, <1>5

\* Selecting from two lists.
LEMMA OnlyConcat ==
    ASSUME NEW S, NEW some, NEW a \in Seq(S), NEW b \in Seq(S)
    PROVE  Only(a \o b, some) = Only(a, some) \o Only(b, some)
<1> DEFINE F == Wanted(S, some)
<1>1. a \o b \in Seq(S)
    OBVIOUS
<1>2. /\ Gives(F, S, S) /\ Only(a \o b, some) = Each(F, a \o b)
      /\ Only(a, some) = Each(F, a) /\ Only(b, some) = Each(F, b)
    BY <1>1, OnlyIsEach
<1> HIDE DEF F
<1> QED BY <1>2, EachConcat

\* Selecting from a list of lists, before or after it is flattened.
LEMMA OnlyFlattens ==
    ASSUME NEW S, NEW some, NEW seqs \in Seq(Seq(S)),
           NEW parts, parts = [i \in DOMAIN seqs |-> Only(seqs[i], some)]
    PROVE  FlattenSeq(parts) = Only(FlattenSeq(seqs), some)
<1>1. PICK n \in Nat : n = Len(seqs)
    OBVIOUS
<1>2. DOMAIN seqs = 1 .. n /\ \A i \in 1 .. n : seqs[i] \in Seq(S)
    BY <1>1
<1>3. \A i \in 1 .. n : Only(seqs[i], some) \in Seq(S)
    BY <1>2, OnlyHolds
<1>4. parts \in [1 .. n -> Seq(S)] /\ \A i \in 1 .. n : parts[i] = Only(seqs[i], some)
    BY <1>2, <1>3
<1>5. parts \in Seq(Seq(S)) /\ Len(parts) = n
    BY ONLY <1>4, n \in Nat
<1>6. PICK f \in [0 .. n -> Seq(S)] : Flattens(f, seqs)
    BY <1>1, FlattenSteps
<1>7. PICK g \in [0 .. n -> Seq(S)] : Flattens(g, parts)
    BY <1>5, FlattenSteps
<1>8. /\ f[0] = <<>> /\ FlattenSeq(seqs) = f[n]
      /\ g[0] = <<>> /\ FlattenSeq(parts) = g[n]
    BY <1>1, <1>5, <1>6, <1>7 DEF Flattens
<1> DEFINE Same(i) == g[i] = Only(f[i], some)
           Good == {i \in Nat : i \in 0 .. n => Same(i)}
<1>9. 0 \in Good
  <2>1. <<>> \in Seq(S) /\ ToSet(<<>>) = {}
      BY DEF ToSet
  <2>2. Only(<<>>, some) \in Seq(S) /\ ToSet(Only(<<>>, some)) = {}
      BY <2>1, OnlyHolds
  <2>3. PICK e \in Seq(S) : e = Only(<<>>, some)
      BY <2>2
  <2>4. \A i \in 1 .. Len(e) : e[i] \in ToSet(e)
      BY <2>3 DEF ToSet
  <2>5. e = <<>>
    <3>1. Len(e) \in Nat /\ (Len(e) # 0 => 1 \in 1 .. Len(e))
        OBVIOUS
    <3>2. Len(e) = 0
        BY <2>2, <2>3, <2>4, <3>1
    <3> QED BY ONLY <3>2, e \in Seq(S)
  <2> QED BY <1>8, <2>3, <2>5
<1>10. ASSUME NEW i \in Nat, i \in Good, i + 1 \in 0 .. n PROVE Same(i + 1)
  <2>1. i \in 0 .. n /\ i + 1 \in 1 .. n
      BY <1>1, <1>10
  <2>2. g[i] = Only(f[i], some)
      BY <1>10, <2>1
  <2>3. f[i + 1] = f[i] \o seqs[i + 1] /\ f[i] \in Seq(S) /\ seqs[i + 1] \in Seq(S)
    <3>1. f[i + 1] = f[i] \o seqs[i + 1]
        BY <1>1, <1>6, <1>10 DEF Flattens
    <3> QED BY <1>2, <1>6, <2>1, <3>1
  <2>4. g[i + 1] = g[i] \o parts[i + 1]
      BY <1>5, <1>7, <1>10 DEF Flattens
  <2>5. parts[i + 1] = Only(seqs[i + 1], some)
      BY <1>4, <2>1
  <2>6. Only(f[i] \o seqs[i + 1], some) = Only(f[i], some) \o Only(seqs[i + 1], some)
    <3> DEFINE x == f[i]
               y == seqs[i + 1]
    <3> HIDE DEF x, y
    <3>1. x \in Seq(S) /\ y \in Seq(S)
        BY <2>3 DEF x, y
    <3>2. Only(x \o y, some) = Only(x, some) \o Only(y, some)
        BY ONLY <3>1, OnlyConcat
    <3> QED BY <3>2 DEF x, y
  <2> QED BY <2>2, <2>3, <2>4, <2>5, <2>6
<1>11. \A i \in Nat : i \in Good => i + 1 \in Good
  <2> HIDE DEF Same
  <2> QED BY <1>10
<1>12. n \in Good
  <2> HIDE DEF Good
  <2> QED BY <1>1, <1>9, <1>11, Induction
<1>13. Same(n)
    BY <1>1, <1>12
<1> QED BY <1>8, <1>13

================================================================================
