----------------------------- MODULE SumsProofs -----------------------------
(***************************************************************************)
(* Facts about Sum for tables of every length.  Each is an induction over  *)
(* the prefix of the table; the induction principle used is the one on     *)
(* sets of numbers proved first (UpTo), which is a consequence of < being  *)
(* well-founded on the naturals.                                           *)
(***************************************************************************)
EXTENDS Sums, WellFoundedInduction, TLAPS

(***************************************************************************)
(* Every non-empty set of natural numbers has a least element.             *)
(***************************************************************************)
LEMMA LeastElement ==
  ASSUME NEW S, S \subseteq Nat, S # {}
  PROVE  \E m \in S : \A k \in S : m <= k
<1>1. IsWellFoundedOn(OpToRel(<, Nat), Nat)
  BY NatLessThanWellFounded
<1>2. PICK m \in S : \A k \in S : ~(<<k, m>> \in OpToRel(<, Nat))
  BY <1>1, WFMin
<1>3. \A k \in S : ~(k < m)
  <2>. TAKE k \in S
  <2>1. ~(<<k, m>> \in {ss \in Nat \X Nat : ss[1] < ss[2]})
    BY <1>2 DEF OpToRel
  <2>2. <<k, m>> \in Nat \X Nat
    OBVIOUS
  <2>. QED BY <2>1, <2>2
<1>. QED
  BY <1>3

(***************************************************************************)
(* Induction up to n, on a set: a set that contains 0 and, with every i    *)
(* below n, also i + 1, contains everything from 0 to n.                   *)
(***************************************************************************)
LEMMA UpTo ==
  ASSUME NEW n \in Nat, NEW S, 0 \in S,
         \A i \in 0 .. n - 1 : i \in S => i + 1 \in S
  PROVE  \A i \in 0 .. n : i \in S
<1> DEFINE Bad == {i \in 0 .. n : i \notin S}
<1>1. SUFFICES ASSUME Bad # {} PROVE FALSE
  OBVIOUS
<1>2. Bad \subseteq Nat
  OBVIOUS
<1>3. PICK m \in Bad : \A k \in Bad : m <= k
  <2> HIDE DEF Bad
  <2>. QED BY <1>1, <1>2, LeastElement
<1>4. m # 0
  OBVIOUS
<1>5. m - 1 \in 0 .. n - 1 /\ m - 1 \in S
  BY <1>3, <1>4
<1>. QED
  BY <1>5

(***************************************************************************)
(* The running totals of a table of integers, as a function of how far the *)
(* loop has got.                                                           *)
(***************************************************************************)
IsRunningTotal(s, d, n) ==
  /\ s \in [0 .. n -> Int]
  /\ s[0] = 0
  /\ \A i \in 1 .. n : s[i] = s[i-1] + d[i]

(***************************************************************************)
(* A table of integers has running totals, and only one table of them.     *)
(***************************************************************************)
LEMMA RunningTotalExists ==
  ASSUME NEW n \in Nat, NEW d, \A i \in 1 .. n : d[i] \in Int
  PROVE  \E s : IsRunningTotal(s, d, n)
<1> DEFINE S == {m \in 0 .. n : \E s : IsRunningTotal(s, d, m)}
<1>1. 0 \in S
  <2>1. IsRunningTotal([i \in 0 .. 0 |-> 0], d, 0)
    BY DEF IsRunningTotal
  <2>. QED BY <2>1
<1>2. ASSUME NEW m \in 0 .. n - 1, m \in S PROVE m + 1 \in S
  <2>1. PICK s : IsRunningTotal(s, d, m)
    BY <1>2
  <2> DEFINE t == [i \in 0 .. m + 1 |-> IF i = m + 1 THEN s[m] + d[m + 1] ELSE s[i]]
  <2>2. IsRunningTotal(t, d, m + 1)
    BY <2>1 DEF IsRunningTotal
  <2>. QED BY <2>2
<1>3. n \in S
  <2> HIDE DEF S
  <2>. QED BY <1>1, <1>2, UpTo
<1>. QED BY <1>3

LEMMA RunningTotalUnique ==
  ASSUME NEW n \in Nat, NEW d, NEW s, NEW r,
         IsRunningTotal(s, d, n), IsRunningTotal(r, d, n)
  PROVE  \A i \in 0 .. n : s[i] = r[i]
<1> DEFINE S == {i \in 0 .. n : s[i] = r[i]}
<1>1. 0 \in S
  BY DEF IsRunningTotal
<1>2. ASSUME NEW m \in 0 .. n - 1, m \in S PROVE m + 1 \in S
  <2>1. s[m + 1] = s[m] + d[m + 1] /\ r[m + 1] = r[m] + d[m + 1]
    BY DEF IsRunningTotal
  <2>. QED BY <1>2, <2>1
<1>3. \A i \in 0 .. n : i \in S
  <2> HIDE DEF S
  <2>. QED BY <1>1, <1>2, UpTo
<1>. QED BY <1>3

(***************************************************************************)
(* Sum is the last of the running totals.                                  *)
(***************************************************************************)
LEMMA SumIsRunningTotal ==
  ASSUME NEW n \in Nat, NEW d, \A i \in 1 .. n : d[i] \in Int
  PROVE  \E s : IsRunningTotal(s, d, n) /\ Sum(d, n) = s[n]
<1> DEFINE s == CHOOSE s : s = [i \in 0 .. n |-> IF i = 0 THEN 0 ELSE s[i-1] + d[i]]
<1>1. PICK r : IsRunningTotal(r, d, n)
  BY RunningTotalExists
<1>2. r = [i \in 0 .. n |-> IF i = 0 THEN 0 ELSE r[i-1] + d[i]]
  BY <1>1 DEF IsRunningTotal
<1>3. s = [i \in 0 .. n |-> IF i = 0 THEN 0 ELSE s[i-1] + d[i]]
  BY <1>2
<1>4. Sum(d, n) = s[n]
  BY DEF Sum
<1> HIDE DEF s
<1> DEFINE S == {i \in 0 .. n : s[i] \in Int}
<1>5. 0 \in S
  BY <1>3
<1>6. ASSUME NEW m \in 0 .. n - 1, m \in S PROVE m + 1 \in S
  <2>1. s[m + 1] = s[m] + d[m + 1]
    BY <1>3
  <2>. QED BY <1>6, <2>1
<1>7. \A i \in 0 .. n : i \in S
  <2> HIDE DEF S
  <2>. QED BY <1>5, <1>6, UpTo
<1>8. IsRunningTotal(s, d, n)
  BY <1>3, <1>7 DEF IsRunningTotal
<1>. QED BY <1>4, <1>8

(***************************************************************************)
(* The equations of the loop: an empty table sums to 0, and each iteration *)
(* adds one entry.                                                         *)
(***************************************************************************)
LEMMA SumEmpty ==
  ASSUME NEW d
  PROVE  Sum(d, 0) = 0
<1>1. PICK s : IsRunningTotal(s, d, 0) /\ Sum(d, 0) = s[0]
  BY SumIsRunningTotal
<1>. QED BY <1>1 DEF IsRunningTotal

LEMMA SumStep ==
  ASSUME NEW n \in Nat, NEW d, \A i \in 1 .. n + 1 : d[i] \in Int
  PROVE  /\ Sum(d, n) \in Int
         /\ Sum(d, n + 1) = Sum(d, n) + d[n + 1]
<1>1. PICK s : IsRunningTotal(s, d, n) /\ Sum(d, n) = s[n]
  BY SumIsRunningTotal
<1>2. PICK r : IsRunningTotal(r, d, n + 1) /\ Sum(d, n + 1) = r[n + 1]
  <2>1. n + 1 \in Nat
    OBVIOUS
  <2>. QED BY <2>1, SumIsRunningTotal
<1> DEFINE q == [i \in 0 .. n |-> r[i]]
<1>3. IsRunningTotal(q, d, n)
  BY <1>2 DEF IsRunningTotal
<1>4. q[n] = s[n]
  <2> HIDE DEF q
  <2>. QED BY <1>1, <1>3, RunningTotalUnique
<1>5. r[n + 1] = r[n] + d[n + 1] /\ q[n] = r[n] /\ s[n] \in Int
  BY <1>1, <1>2 DEF IsRunningTotal
<1>. QED BY <1>1, <1>2, <1>4, <1>5

(***************************************************************************)
(* A sum of integers is an integer.                                        *)
(***************************************************************************)
LEMMA SumInt ==
  ASSUME NEW n \in Nat, NEW d, \A i \in 1 .. n : d[i] \in Int
  PROVE  Sum(d, n) \in Int
<1>1. PICK s : IsRunningTotal(s, d, n) /\ Sum(d, n) = s[n]
  BY SumIsRunningTotal
<1>. QED BY <1>1 DEF IsRunningTotal

(***************************************************************************)
(* A table that is nowhere larger has no larger a sum.                     *)
(***************************************************************************)
LEMMA SumMonotone ==
  ASSUME NEW n \in Nat, NEW d, NEW e,
         \A i \in 1 .. n : d[i] \in Int /\ e[i] \in Int /\ d[i] <= e[i]
  PROVE  Sum(d, n) <= Sum(e, n)
<1> DEFINE S == {m \in 0 .. n : Sum(d, m) <= Sum(e, m)}
<1>1. 0 \in S
  BY SumEmpty
<1>2. ASSUME NEW m \in 0 .. n - 1, m \in S PROVE m + 1 \in S
  <2>1. /\ m \in Nat
        /\ \A i \in 1 .. m + 1 : d[i] \in Int /\ e[i] \in Int
        /\ d[m + 1] <= e[m + 1] /\ d[m + 1] \in Int /\ e[m + 1] \in Int
    OBVIOUS
  <2>2. Sum(d, m) \in Int /\ Sum(d, m + 1) = Sum(d, m) + d[m + 1]
    BY <2>1, SumStep
  <2>3. Sum(e, m) \in Int /\ Sum(e, m + 1) = Sum(e, m) + e[m + 1]
    BY <2>1, SumStep
  <2>. QED BY <1>2, <2>1, <2>2, <2>3
<1>3. \A i \in 0 .. n : i \in S
  <2> HIDE DEF S
  <2>. QED BY <1>1, <1>2, UpTo
<1>. QED BY <1>3

(***************************************************************************)
(* The sum of a table whose entries are all c is n times c.                *)
(***************************************************************************)
LEMMA SumConstant ==
  ASSUME NEW n \in Nat, NEW c \in Int, NEW d, \A i \in 1 .. n : d[i] = c
  PROVE  Sum(d, n) = n * c
<1> DEFINE S == {m \in 0 .. n : Sum(d, m) = m * c}
<1>1. 0 \in S
  BY SumEmpty
<1>2. ASSUME NEW m \in 0 .. n - 1, m \in S PROVE m + 1 \in S
  <2>1. /\ m \in Nat
        /\ \A i \in 1 .. m + 1 : d[i] \in Int
        /\ d[m + 1] = c
    OBVIOUS
  <2>2. Sum(d, m + 1) = Sum(d, m) + c
    BY <2>1, SumStep
  <2>3. (m + 1) * c = m * c + c
    BY <2>1
  <2>. QED BY <1>2, <2>2, <2>3
<1>3. \A i \in 0 .. n : i \in S
  <2> HIDE DEF S
  <2>. QED BY <1>1, <1>2, UpTo
<1>. QED BY <1>3

(***************************************************************************)
(* Entries between lo and hi give a sum between n * lo and n * hi.         *)
(***************************************************************************)
LEMMA SumBounds ==
  ASSUME NEW n \in Nat, NEW lo \in Int, NEW hi \in Int, NEW d,
         \A i \in 1 .. n : d[i] \in Int /\ lo <= d[i] /\ d[i] <= hi
  PROVE  Sum(d, n) \in Int /\ n * lo <= Sum(d, n) /\ Sum(d, n) <= n * hi
<1> DEFINE L == [i \in 1 .. n |-> lo]
           H == [i \in 1 .. n |-> hi]
<1>1. Sum(L, n) = n * lo /\ Sum(H, n) = n * hi
  <2>1. \A i \in 1 .. n : L[i] = lo
    OBVIOUS
  <2>2. \A i \in 1 .. n : H[i] = hi
    OBVIOUS
  <2> HIDE DEF L, H
  <2>. QED BY <2>1, <2>2, SumConstant
<1>2. /\ \A i \in 1 .. n : L[i] \in Int /\ d[i] \in Int /\ L[i] <= d[i]
      /\ \A i \in 1 .. n : d[i] \in Int /\ H[i] \in Int /\ d[i] <= H[i]
  OBVIOUS
<1>3. Sum(L, n) <= Sum(d, n)
  <2> HIDE DEF L
  <2>. QED BY <1>2, SumMonotone
<1>4. Sum(d, n) <= Sum(H, n)
  <2> HIDE DEF H
  <2>. QED BY <1>2, SumMonotone
<1>. QED BY <1>1, <1>3, <1>4, SumInt

(***************************************************************************)
(* Differences of neighbours add up to the difference of the ends.         *)
(***************************************************************************)
LEMMA SumTelescopes ==
  ASSUME NEW n \in Nat, NEW a, NEW d,
         \A i \in 1 .. n + 1 : a[i] \in Int,
         \A i \in 1 .. n : d[i] = a[i + 1] - a[i]
  PROVE  Sum(d, n) = a[n + 1] - a[1]
<1> DEFINE S == {m \in 0 .. n : Sum(d, m) = a[m + 1] - a[1]}
<1>1. 0 \in S
  BY SumEmpty
<1>2. ASSUME NEW m \in 0 .. n - 1, m \in S PROVE m + 1 \in S
  <2>1. /\ m \in Nat
        /\ \A i \in 1 .. m + 1 : d[i] \in Int
        /\ d[m + 1] = a[m + 2] - a[m + 1]
        /\ a[1] \in Int /\ a[m + 1] \in Int /\ a[m + 2] \in Int
    OBVIOUS
  <2>2. Sum(d, m + 1) = Sum(d, m) + d[m + 1]
    BY <2>1, SumStep
  <2>. QED BY <1>2, <2>1, <2>2
<1>3. \A i \in 0 .. n : i \in S
  <2> HIDE DEF S
  <2>. QED BY <1>1, <1>2, UpTo
<1>. QED BY <1>3

(***************************************************************************)
(* Changing one entry of a table changes its sum by as much.               *)
(***************************************************************************)
LEMMA SumUpdate ==
  ASSUME NEW n \in Nat, NEW k \in 1 .. n, NEW d, NEW e,
         \A i \in 1 .. n : d[i] \in Int,
         e[k] \in Int, \A i \in 1 .. n : i # k => e[i] = d[i]
  PROVE  Sum(e, n) = Sum(d, n) - d[k] + e[k]
<1> DEFINE Change(m) == IF k <= m THEN e[k] - d[k] ELSE 0
           S == {m \in 0 .. n : Sum(e, m) = Sum(d, m) + Change(m)}
<1>1. 0 \in S
  BY SumEmpty
<1>2. ASSUME NEW m \in 0 .. n - 1, m \in S PROVE m + 1 \in S
  <2>1. /\ m \in Nat
        /\ \A i \in 1 .. m + 1 : d[i] \in Int
        /\ \A i \in 1 .. m + 1 : e[i] \in Int
    OBVIOUS
  <2>2. Sum(d, m) \in Int /\ Sum(d, m + 1) = Sum(d, m) + d[m + 1]
    BY <2>1, SumStep
  <2>3. Sum(e, m + 1) = Sum(e, m) + e[m + 1]
    BY <2>1, SumStep
  <2>4. e[m + 1] = IF m + 1 = k THEN e[k] ELSE d[m + 1]
    OBVIOUS
  <2>5. /\ d[m + 1] \in Int /\ d[k] \in Int
        /\ Sum(e, m) = Sum(d, m) + Change(m)
    BY <1>2
  <2>6. Sum(e, m + 1) = Sum(d, m + 1) + Change(m + 1)
    BY <2>2, <2>3, <2>4, <2>5
  <2>. QED BY <2>6
<1>3. \A i \in 0 .. n : i \in S
  <2>. HIDE DEF S
  <2>. QED BY <1>1, <1>2, UpTo
<1>4. Sum(e, n) = Sum(d, n) + Change(n)
  BY <1>3
<1>5. Sum(d, n) \in Int
  BY SumInt
<1>. QED BY <1>4, <1>5

(***************************************************************************)
(* No entry of a table of natural numbers exceeds the table's sum.         *)
(***************************************************************************)
LEMMA SumEntry ==
  ASSUME NEW n \in Nat, NEW k \in 1 .. n, NEW d, \A i \in 1 .. n : d[i] \in Nat
  PROVE  d[k] <= Sum(d, n)
<1> DEFINE E == [i \in 1 .. n |-> IF i = k THEN 0 ELSE d[i]]
           Z == [i \in 1 .. n |-> 0]
<1>1. /\ E[k] = 0
      /\ \A i \in 1 .. n : i # k => E[i] = d[i]
      /\ \A i \in 1 .. n : Z[i] = 0
      /\ \A i \in 1 .. n : Z[i] \in Int /\ E[i] \in Int /\ Z[i] <= E[i]
      /\ \A i \in 1 .. n : d[i] \in Int
  OBVIOUS
<1>. HIDE DEF E, Z
<1>2. Sum(E, n) = Sum(d, n) - d[k] + E[k]
  BY <1>1, SumUpdate
<1>3. Sum(Z, n) = n * 0
  BY <1>1, SumConstant
<1>4. Sum(Z, n) <= Sum(E, n)
  BY <1>1, SumMonotone
<1>5. Sum(d, n) \in Int
  BY <1>1, SumInt
<1>. QED BY <1>1, <1>2, <1>3, <1>4, <1>5

(***************************************************************************)
(* A sum of natural numbers is a natural number.                           *)
(***************************************************************************)
LEMMA SumNat ==
  ASSUME NEW n \in Nat, NEW d, \A i \in 1 .. n : d[i] \in Nat
  PROVE  Sum(d, n) \in Nat
<1> DEFINE S == {m \in 0 .. n : Sum(d, m) \in Nat}
<1>1. 0 \in S
  BY SumEmpty
<1>2. ASSUME NEW m \in 0 .. n - 1, m \in S PROVE m + 1 \in S
  <2>1. m \in Nat /\ (\A i \in 1 .. m + 1 : d[i] \in Int) /\ d[m + 1] \in Nat
    OBVIOUS
  <2>2. Sum(d, m + 1) = Sum(d, m) + d[m + 1]
    BY <2>1, SumStep
  <2>. QED BY <1>2, <2>1, <2>2
<1>3. \A i \in 0 .. n : i \in S
  <2> HIDE DEF S
  <2>. QED BY <1>1, <1>2, UpTo
<1>. QED BY <1>3

(***************************************************************************)
(* The sum of a table that is the entry-wise sum of two.                   *)
(***************************************************************************)
LEMMA SumPlus ==
  ASSUME NEW n \in Nat, NEW d, NEW e, NEW f,
         \A i \in 1 .. n : d[i] \in Int /\ e[i] \in Int /\ f[i] = d[i] + e[i]
  PROVE  Sum(f, n) = Sum(d, n) + Sum(e, n)
<1> DEFINE S == {m \in 0 .. n : Sum(f, m) = Sum(d, m) + Sum(e, m)}
<1>1. 0 \in S
  BY SumEmpty
<1>2. ASSUME NEW m \in 0 .. n - 1, m \in S PROVE m + 1 \in S
  <2>1. /\ m \in Nat
        /\ \A i \in 1 .. m + 1 : d[i] \in Int /\ e[i] \in Int /\ f[i] \in Int
        /\ f[m + 1] = d[m + 1] + e[m + 1] /\ d[m + 1] \in Int /\ e[m + 1] \in Int
    OBVIOUS
  <2>2. Sum(d, m) \in Int /\ Sum(d, m + 1) = Sum(d, m) + d[m + 1]
    BY <2>1, SumStep
  <2>3. Sum(e, m) \in Int /\ Sum(e, m + 1) = Sum(e, m) + e[m + 1]
    BY <2>1, SumStep
  <2>4. Sum(f, m + 1) = Sum(f, m) + f[m + 1]
    BY <2>1, SumStep
  <2>. QED BY <1>2, <2>1, <2>2, <2>3, <2>4
<1>3. \A i \in 0 .. n : i \in S
  <2> HIDE DEF S
  <2>. QED BY <1>1, <1>2, UpTo
<1>. QED BY <1>3

(***************************************************************************)
(* A sum is a sum of the entries, whatever else is in the table.           *)
(***************************************************************************)
LEMMA SumSame ==
  ASSUME NEW n \in Nat, NEW d, NEW e, \A i \in 1 .. n : d[i] \in Int /\ e[i] = d[i]
  PROVE  Sum(e, n) = Sum(d, n)
<1>1. /\ \A i \in 1 .. n : d[i] \in Int /\ e[i] \in Int /\ d[i] <= e[i]
      /\ \A i \in 1 .. n : e[i] \in Int /\ d[i] \in Int /\ e[i] <= d[i]
      /\ \A i \in 1 .. n : d[i] \in Int
      /\ \A i \in 1 .. n : e[i] \in Int
  OBVIOUS
<1>2. Sum(d, n) <= Sum(e, n) /\ Sum(e, n) <= Sum(d, n)
  BY <1>1, SumMonotone
<1>3. Sum(d, n) \in Int /\ Sum(e, n) \in Int
  BY <1>1, SumInt
<1>. QED BY <1>2, <1>3
=============================================================================
