---------------------------- MODULE PricingProofs ----------------------------
(***************************************************************************)
(* Proofs about PricedGateway, for any sources, limits, catalogues, usages *)
(* and number of calls: what the two walks over a source admit, what an    *)
(* estimate is the price of, and what the total of a run says.             *)
(***************************************************************************)
EXTENDS PricedGateway, FunctionTheorems, FiniteSetTheorems, SequenceTheorems, WellFoundedInduction, TLAPS

(* What the recursive functions compute, and what a run has cost. *)

\* Induction over the numbers up to n, for a set of numbers: what is at 0 and passes from each to
\* the next is everywhere.
LEMMA UpTo ==
  ASSUME NEW n \in Nat, NEW G, 0 \in G, \A i \in 0..(n - 1) : i \in G => i + 1 \in G
  PROVE  \A i \in 0..n : i \in G
<1> DEFINE Bad == {i \in 0..n : i \notin G}
<1> SUFFICES ASSUME Bad # {} PROVE FALSE  OBVIOUS
<1>1. PICK R : IsWellFoundedOn(R, Nat) /\ \A x, y \in Nat : y < x => <<y, x>> \in R
  <2>1. \A x, y \in Nat : y < x => <<y, x>> \in OpToRel(<, Nat)
    BY DEF OpToRel
  <2> QED BY <2>1, NatLessThanWellFounded
<1>2. PICK x \in Bad : \A y \in Bad : ~(<<y, x>> \in R)
  <2>1. Bad \subseteq Nat  OBVIOUS
  <2> HIDE DEF Bad
  <2> QED BY <1>1, <2>1, WFMin
<1>3. x \in 0..n /\ x \notin G /\ x # 0  BY <1>2
<1>4. x - 1 \in 0..(n - 1) /\ x - 1 \in Nat /\ x \in Nat /\ x - 1 < x /\ (x - 1) + 1 = x  BY <1>3
<1>5. <<x - 1, x>> \in R  BY <1>1, <1>4
<1>6. x - 1 \in G  BY <1>2, <1>4, <1>5
<1> QED BY <1>3, <1>4, <1>6

\* What a recursive function over the numbers up to n prescribes, some function does.
Recursion(n, S, z, step) == n \in Nat /\ z \in S /\ step \in [(1..n) \X S -> S]
Follows(f, n, z, step) == f[0] = z /\ \A i \in 1..n : f[i] = step[<<i, f[i - 1]>>]

LEMMA RecursionHas ==
  ASSUME NEW n, NEW S, NEW z, NEW step, Recursion(n, S, z, step)
  PROVE  \E f \in [0..n -> S] : Follows(f, n, z, step)
<1> USE DEF Recursion, Follows
<1> DEFINE Fits(f, k) == Follows(f, k, z, step)
           G == {k \in 0..n : \E f \in [0..k -> S] : Fits(f, k)}
<1>1. 0 \in G
  <2> DEFINE f == [i \in 0..0 |-> z]
  <2>1. f \in [0..0 -> S] /\ f[0] = z /\ 0 \in 0..n /\ \A i \in 1..0 : FALSE  OBVIOUS
  <2> HIDE DEF f
  <2> QED BY <2>1
<1>2. ASSUME NEW k \in 0..(n - 1), k \in G PROVE k + 1 \in G
  <2>1. PICK f \in [0..k -> S] : Fits(f, k)  BY <1>2
  <2> DEFINE v == step[<<k + 1, f[k]>>]
             g == [i \in 0..(k + 1) |-> IF i <= k THEN f[i] ELSE v]
  <2>2. v \in S
    <3>1. k + 1 \in 1..n /\ f[k] \in S  OBVIOUS
    <3>2. <<k + 1, f[k]>> \in (1..n) \X S  BY <3>1
    <3> QED BY <3>2
  <2> HIDE DEF v
  <2>3. g \in [0..(k + 1) -> S]  BY <2>2
  <2>4. g[k + 1] = v /\ (\A i \in 0..k : g[i] = f[i])  OBVIOUS
  <2> HIDE DEF g
  <2>5. ASSUME NEW i \in 1..(k + 1) PROVE g[i] = step[<<i, g[i - 1]>>]
    <3>1. CASE i \in 1..k
      <4>1. i \in 0..k /\ i - 1 \in 0..k  BY <3>1
      <4> QED BY <2>1, <2>4, <3>1, <4>1
    <3>2. CASE i = k + 1
      <4>1. i - 1 = k /\ k \in 0..k  BY <3>2
      <4>2. g[i - 1] = f[k]  BY <2>4, <4>1
      <4>3. g[i] = step[<<i, f[k]>>]  BY <2>4, <3>2 DEF v
      <4> QED BY <4>2, <4>3
    <3> QED BY <3>1, <3>2
  <2>6. g[0] = z
    <3>1. 0 \in 0..k  OBVIOUS
    <3> QED BY <2>1, <2>4, <3>1
  <2>7. k + 1 \in 0..n  OBVIOUS
  <2> QED BY <2>3, <2>5, <2>6, <2>7
<1> HIDE DEF G
<1>3. n \in G
  <2>1. \A i \in 0..n : i \in G  BY <1>1, <1>2, UpTo
  <2> QED BY <2>1
<1> QED BY <1>3 DEF G

SumsOf(s, q, n) == (\A i \in 0..n : s[i] \in Int) /\ s[0] = 0 /\ \A i \in 1..n : s[i] = s[i - 1] + q[i]
Numbers(q, n) == n \in Nat /\ DOMAIN q = 1..n /\ Len(q) = n /\ \A i \in 1..n : q[i] \in Int

\* The sums of the prefixes.
LEMMA AddedAre ==
  ASSUME NEW q, NEW n, Numbers(q, n)
  PROVE  SumsOf(Added(q), q, n)
<1> USE DEF Numbers
<1> DEFINE P(g) == g = [i \in 0..n |-> IF i = 0 THEN 0 ELSE g[i - 1] + q[i]]
           step == [x \in (1..n) \X Int |-> x[2] + q[x[1]]]
<1>1. step \in [(1..n) \X Int -> Int]
  <2>1. \A x \in (1..n) \X Int : x[1] \in 1..n /\ x[2] \in Int  OBVIOUS
  <2>2. \A x \in (1..n) \X Int : x[2] + q[x[1]] \in Int  BY <2>1
  <2> QED BY <2>2
<1>2. \A i \in 1..n, s \in Int : step[<<i, s>>] = s + q[i]  OBVIOUS
<1> HIDE DEF step
<1>3. PICK f \in [0..n -> Int] : f[0] = 0 /\ \A i \in 1..n : f[i] = step[<<i, f[i - 1]>>]
  <2> DEFINE S == Int
             z == 0
  <2>1. Recursion(n, S, z, step)  BY <1>1 DEF Recursion
  <2> HIDE DEF S, z
  <2>2. \E f \in [0..n -> S] : Follows(f, n, z, step)  BY <2>1, RecursionHas
  <2> QED BY <2>2 DEF S, z, Follows
<1>4. \A i \in 1..n : f[i] = f[i - 1] + q[i]
  <2> TAKE i \in 1..n
  <2>1. i - 1 \in 0..n  OBVIOUS
  <2>2. f[i - 1] \in Int  BY <2>1
  <2> QED BY <1>2, <1>3, <2>2
<1>5. P(f)
  <2>1. \A i \in 0..n : f[i] = IF i = 0 THEN 0 ELSE f[i - 1] + q[i]
    <3> TAKE i \in 0..n
    <3>1. i = 0 \/ i \in 1..n  OBVIOUS
    <3> QED BY <1>3, <1>4, <3>1
  <2> QED BY <2>1
<1>6. Added(q) = CHOOSE g : P(g)  BY DEF Added
<1> DEFINE c == Added(q)
<1>7. P(c)
  <2> HIDE DEF P
  <2> QED BY <1>5, <1>6
<1> HIDE DEF c
<1>8. \A i \in 0..n : c[i] = IF i = 0 THEN 0 ELSE c[i - 1] + q[i]  BY <1>7, Zenon
<1>9. c[0] = 0 /\ \A i \in 1..n : c[i] = c[i - 1] + q[i]
  <2>1. 0 \in 0..n /\ \A i \in 1..n : i \in 0..n /\ i # 0  OBVIOUS
  <2> QED BY <1>8, <2>1
<1> DEFINE H == {j \in 0..n : c[j] \in Int}
<1>10. 0 \in H  BY <1>9
<1>11. ASSUME NEW i \in 0..(n - 1), i \in H PROVE i + 1 \in H
  <2>1. i + 1 \in 1..n /\ (i + 1) - 1 = i /\ i + 1 \in 0..n  OBVIOUS
  <2>2. c[i + 1] = c[i] + q[i + 1]  BY <1>9, <2>1
  <2>3. c[i] \in Int /\ q[i + 1] \in Int  BY <1>11, <2>1
  <2> QED BY <2>1, <2>2, <2>3
<1>12. \A i \in 0..n : c[i] \in Int
  <2> HIDE DEF H
  <2>1. \A i \in 0..n : i \in H  BY <1>10, <1>11, UpTo
  <2> QED BY <2>1 DEF H
<1> QED BY <1>9, <1>12 DEF c, SumsOf

\* q, of n numbers, is a of k followed by b of m.
SplitOf(q, n, a, k, b, m) ==
  /\ Numbers(q, n) /\ k \in Nat /\ m \in Nat /\ k + m = n
  /\ DOMAIN a = 1..k /\ Len(a) = k /\ \A i \in 1..k : a[i] = q[i]
  /\ DOMAIN b = 1..m /\ Len(b) = m /\ \A i \in 1..m : b[i] = q[k + i]

\* The sum of a sequence in two parts.
LEMMA AddedParts ==
  ASSUME NEW q, NEW n, NEW a, NEW k, NEW b, NEW m, SplitOf(q, n, a, k, b, m)
  PROVE  Added(q)[n] = Added(a)[k] + Added(b)[m]
<1> USE DEF SplitOf, Numbers
<1> DEFINE s == Added(q)
           u == Added(a)
           v == Added(b)
<1>0. k \in 0..n /\ (\A i \in 1..k : i \in 1..n) /\ (\A i \in 1..m : k + i \in 1..n) /\ k + m = n
  OBVIOUS
<1>1. (\A i \in 0..n : s[i] \in Int) /\ s[0] = 0 /\ \A i \in 1..n : s[i] = s[i - 1] + q[i]
  BY AddedAre DEF SumsOf
<1>2. (\A i \in 0..k : u[i] \in Int) /\ u[0] = 0 /\ \A i \in 1..k : u[i] = u[i - 1] + a[i]
  <2>1. Numbers(a, k)  BY <1>0
  <2>2. SumsOf(Added(a), a, k)
    <3> HIDE DEF Numbers, SplitOf
    <3> QED BY <2>1, AddedAre
  <2> QED BY <2>2, Zenon DEF SumsOf
<1>3. (\A i \in 0..m : v[i] \in Int) /\ v[0] = 0 /\ \A i \in 1..m : v[i] = v[i - 1] + b[i]
  <2>1. Numbers(b, m)  BY <1>0
  <2>2. SumsOf(Added(b), b, m)
    <3> HIDE DEF Numbers, SplitOf
    <3> QED BY <2>1, AddedAre
  <2> QED BY <2>2, Zenon DEF SumsOf
<1>4. (\A i \in 1..m : b[i] = q[k + i])  OBVIOUS
<1> HIDE DEF s, u, v
<1>5. s[k] = u[k]
  <2> DEFINE G == {i \in 0..k : s[i] = u[i]}
  <2>1. 0 \in G  BY <1>0, <1>1, <1>2
  <2>2. ASSUME NEW i \in 0..(k - 1), i \in G PROVE i + 1 \in G
    <3>1. i + 1 \in 1..k /\ i + 1 \in 1..n /\ (i + 1) - 1 = i /\ i + 1 \in 0..k  BY <1>0
    <3>2. s[i + 1] = s[i] + q[i + 1] /\ u[i + 1] = u[i] + a[i + 1]  BY <1>1, <1>2, <3>1
    <3> QED BY <2>2, <3>1, <3>2
  <2> HIDE DEF G
  <2>3. \A i \in 0..k : i \in G  BY <1>0, <2>1, <2>2, UpTo
  <2>4. k \in G  BY <1>0, <2>3
  <2> QED BY <2>4 DEF G
<1>6. s[k + m] = s[k] + v[m]
  <2> DEFINE G == {i \in 0..m : s[k + i] = s[k] + v[i]}
  <2>1. 0 \in G
    <3>1. s[k] \in Int /\ k + 0 = k /\ 0 \in 0..m  BY <1>0, <1>1
    <3> QED BY <1>3, <3>1
  <2>2. ASSUME NEW i \in 0..(m - 1), i \in G PROVE i + 1 \in G
    <3>1. /\ i + 1 \in 1..m /\ k + (i + 1) \in 1..n /\ (k + (i + 1)) - 1 = k + i /\ i + 1 \in 0..m
          /\ (i + 1) - 1 = i /\ k \in 0..n /\ i \in 0..m
      BY <1>0
    <3>2. s[k + (i + 1)] = s[k + i] + q[k + (i + 1)] /\ v[i + 1] = v[i] + b[i + 1]  BY <1>1, <1>3, <3>1
    <3>3. s[k + i] = s[k] + v[i]  BY <2>2
    <3>4. s[k] \in Int /\ v[i] \in Int /\ q[k + (i + 1)] \in Int /\ b[i + 1] = q[k + (i + 1)]
      BY <1>1, <1>3, <1>4, <3>1
    <3>5. s[k + (i + 1)] = s[k] + v[i + 1]
      <4> DEFINE x == s[k]
                 y == v[i]
                 z == q[k + (i + 1)]
      <4>1. x \in Int /\ y \in Int /\ z \in Int /\ s[k + (i + 1)] = (x + y) + z /\ v[i + 1] = y + z
        BY <3>2, <3>3, <3>4, Zenon
      <4> HIDE DEF x, y, z
      <4>2. (x + y) + z = x + (y + z)  BY <4>1
      <4> QED BY <4>1, <4>2 DEF x
    <3> QED BY <3>1, <3>5
  <2> HIDE DEF G
  <2>3. \A i \in 0..m : i \in G  BY <1>0, <2>1, <2>2, UpTo
  <2>4. m \in G  BY <1>0, <2>3
  <2> QED BY <2>4 DEF G
<1>7. s[n] = u[k] + v[m]  BY <1>0, <1>5, <1>6
<1> QED BY <1>7 DEF s, u, v

\* A sum of numbers that are not negative is one, and is positive exactly if one of them is.
LEMMA AddedPositive ==
  ASSUME NEW n \in Nat, NEW q, DOMAIN q = 1..n, Len(q) = n, \A i \in 1..n : q[i] \in Nat
  PROVE  Added(q)[n] \in Nat /\ (Added(q)[n] > 0 <=> \E i \in 1..n : q[i] > 0)
<1> DEFINE c == Added(q)
           G == {k \in 0..n : c[k] \in Nat /\ (c[k] > 0 <=> \E i \in 1..k : q[i] > 0)}
<1>1. c[0] = 0 /\ \A i \in 1..n : c[i] = c[i - 1] + q[i]
  <2>1. Numbers(q, n)  BY DEF Numbers
  <2> QED BY <2>1, AddedAre DEF SumsOf
<1> HIDE DEF c
<1>2. 0 \in G  BY <1>1
<1>3. ASSUME NEW k \in 0..(n - 1), k \in G PROVE k + 1 \in G
  <2>1. k + 1 \in 1..n /\ (k + 1) - 1 = k /\ k + 1 \in 0..n  OBVIOUS
  <2>2. c[k + 1] = c[k] + q[k + 1] /\ c[k] \in Nat /\ q[k + 1] \in Nat  BY <1>1, <1>3, <2>1
  <2>3. c[k] > 0 <=> \E i \in 1..k : q[i] > 0  BY <1>3
  <2>4. (\E i \in 1..(k + 1) : q[i] > 0) <=> ((\E i \in 1..k : q[i] > 0) \/ q[k + 1] > 0)
    <3>1. \A i \in 1..(k + 1) : i \in 1..k \/ i = k + 1  OBVIOUS
    <3>2. \A i \in 1..k : i \in 1..(k + 1)  OBVIOUS
    <3>3. k + 1 \in 1..(k + 1)  OBVIOUS
    <3> QED BY <3>1, <3>2, <3>3, Zenon
  <2>5. c[k + 1] \in Nat /\ (c[k + 1] > 0 <=> (c[k] > 0 \/ q[k + 1] > 0))
    <3> DEFINE x == c[k]
               y == q[k + 1]
    <3>1. x \in Nat /\ y \in Nat /\ c[k + 1] = x + y  BY <2>2
    <3> HIDE DEF x, y
    <3>2. x + y \in Nat /\ (x + y > 0 <=> (x > 0 \/ y > 0))  BY <3>1
    <3> QED BY <3>1, <3>2 DEF x, y
  <2> QED BY <2>1, <2>3, <2>4, <2>5
<1> HIDE DEF G
<1>4. n \in G
  <2>1. \A i \in 0..n : i \in G  BY <1>2, <1>3, UpTo
  <2> QED BY <2>1
<1> QED BY <1>4 DEF G, c

CostStatuses == {"UNKNOWN", "ESTIMATED", "EXACT", "SUBSCRIPTION_INCLUDED"}

\* A sequence of n costs, in which the unknown ones are those that count an unknown component.
CostsOf(r, n) ==
  /\ n \in Nat /\ DOMAIN r = 1..n /\ Len(r) = n
  /\ \A i \in 1..n : /\ r[i].amount \in Int /\ r[i].unknown \in Nat /\ r[i].status \in CostStatuses
                     /\ r[i].unknown > 0 <=> r[i].status = "UNKNOWN"

\* What is unknown is never lost in the sums.
LEMMA TotalsAre ==
  ASSUME NEW r, NEW n, CostsOf(r, n)
  PROVE  /\ Total(r) \in Int /\ Unknown(r) \in Nat
         /\ Unknown(r) > 0 <=> "UNKNOWN" \in StatusesOf(r)
         /\ StatusesOf(r) \subseteq CostStatuses /\ (n > 0 => StatusesOf(r) # {})
<1> DEFINE a == [i \in DOMAIN r |-> r[i].amount]
           u == [i \in DOMAIN r |-> r[i].unknown]
<1>0. n \in Nat /\ DOMAIN r = 1..n /\ Len(r) = n  BY DEF CostsOf
<1>1. DOMAIN a = 1..n /\ Len(a) = n /\ \A i \in 1..n : a[i] \in Int  BY <1>0 DEF CostsOf
<1>2. DOMAIN u = 1..n /\ Len(u) = n /\ \A i \in 1..n : u[i] \in Nat /\ u[i] = r[i].unknown  BY <1>0 DEF CostsOf
<1>3. Total(r) = Added(a)[n] /\ Unknown(r) = Added(u)[n]  BY <1>0 DEF Total, Unknown
<1> HIDE DEF a, u
<1>4. Total(r) \in Int
  <2>0. Numbers(a, n)  BY <1>0, <1>1 DEF Numbers
  <2>1. \A i \in 0..n : Added(a)[i] \in Int  BY <2>0, AddedAre DEF SumsOf
  <2>2. n \in 0..n  BY <1>0
  <2> QED BY <1>3, <2>1, <2>2
<1>5. Added(u)[n] \in Nat /\ (Added(u)[n] > 0 <=> \E i \in 1..n : u[i] > 0)
  <2>1. \A i \in 1..n : u[i] \in Nat  BY <1>2
  <2> QED BY <1>0, <1>2, <2>1, AddedPositive
<1>6. (\E i \in 1..n : u[i] > 0) <=> \E i \in 1..n : r[i].status = "UNKNOWN"
  <2>1. \A i \in 1..n : u[i] > 0 <=> r[i].status = "UNKNOWN"  BY <1>2 DEF CostsOf
  <2> QED BY <2>1
<1>7. (\E i \in 1..n : r[i].status = "UNKNOWN") <=> "UNKNOWN" \in StatusesOf(r)  BY <1>0 DEF StatusesOf
<1>8. StatusesOf(r) \subseteq CostStatuses  BY <1>0 DEF StatusesOf, CostsOf
<1>9. n > 0 => StatusesOf(r) # {}
  <2>1. n > 0 => 1 \in DOMAIN r  BY <1>0
  <2>2. 1 \in DOMAIN r => r[1].status \in StatusesOf(r)  BY DEF StatusesOf
  <2> QED BY <2>1, <2>2
<1> QED BY <1>3, <1>4, <1>5, <1>6, <1>7, <1>8, <1>9

LEMMA OnlyExact ==
  ASSUME NEW S, S \subseteq CostStatuses, "UNKNOWN" \notin S, S # {}
  PROVE  S \cap {"ESTIMATED", "SUBSCRIPTION_INCLUDED"} = {} <=> S = {"EXACT"}
<1>1. ASSUME S \cap {"ESTIMATED", "SUBSCRIPTION_INCLUDED"} = {} PROVE S = {"EXACT"}
  <2>1. \A x \in S : x = "EXACT"  BY <1>1 DEF CostStatuses
  <2> QED BY <2>1
<1>2. ASSUME S = {"EXACT"} PROVE S \cap {"ESTIMATED", "SUBSCRIPTION_INCLUDED"} = {}  BY <1>2
<1> QED BY <1>1, <1>2

\* The sums and the statuses of a sequence are those of its parts.
LEMMA TotalsParts ==
  ASSUME NEW r, NEW n, CostsOf(r, n), NEW k, NEW m, n = k + m,
         NEW a, CostsOf(a, k), \A i \in 1..k : a[i] = r[i],
         NEW b, CostsOf(b, m), \A i \in 1..m : b[i] = r[k + i]
  PROVE  /\ Total(r) = Total(a) + Total(b) /\ Unknown(r) = Unknown(a) + Unknown(b)
         /\ StatusesOf(r) = StatusesOf(a) \cup StatusesOf(b)
<1>0. /\ n \in Nat /\ DOMAIN r = 1..n /\ Len(r) = n /\ k \in Nat /\ DOMAIN a = 1..k /\ Len(a) = k
      /\ m \in Nat /\ DOMAIN b = 1..m /\ Len(b) = m /\ k \in 0..n
  BY DEF CostsOf
<1>1. Total(r) = Total(a) + Total(b)
  <2> DEFINE R == [i \in DOMAIN r |-> r[i].amount]
             A == [i \in DOMAIN a |-> a[i].amount]
             B == [i \in DOMAIN b |-> b[i].amount]
  <2>1. DOMAIN R = 1..n /\ Len(R) = n /\ \A i \in 1..n : R[i] \in Int  BY <1>0 DEF CostsOf
  <2>2. DOMAIN A = 1..k /\ Len(A) = k /\ \A i \in 1..k : A[i] = R[i]
    <3>1. \A i \in 1..k : i \in 1..n  BY <1>0
    <3> QED BY <1>0, <3>1
  <2>3. DOMAIN B = 1..m /\ Len(B) = m /\ \A i \in 1..m : B[i] = R[k + i]
    <3>1. \A i \in 1..m : k + i \in 1..n  BY <1>0
    <3> QED BY <1>0, <3>1
  <2>4. Total(r) = Added(R)[n] /\ Total(a) = Added(A)[k] /\ Total(b) = Added(B)[m]  BY <1>0 DEF Total
  <2> HIDE DEF R, A, B
  <2>5. Added(R)[n] = Added(A)[k] + Added(B)[m]
    <3>1. n \in Nat /\ k \in Nat /\ m \in Nat /\ k + m = n  BY <1>0
    <3>2. SplitOf(R, n, A, k, B, m)  BY <2>1, <2>2, <2>3, <3>1 DEF SplitOf, Numbers
    <3> QED BY <3>2, AddedParts
  <2> QED BY <2>4, <2>5
<1>2. Unknown(r) = Unknown(a) + Unknown(b)
  <2> DEFINE R == [i \in DOMAIN r |-> r[i].unknown]
             A == [i \in DOMAIN a |-> a[i].unknown]
             B == [i \in DOMAIN b |-> b[i].unknown]
  <2>1. DOMAIN R = 1..n /\ Len(R) = n /\ \A i \in 1..n : R[i] \in Int  BY <1>0 DEF CostsOf
  <2>2. DOMAIN A = 1..k /\ Len(A) = k /\ \A i \in 1..k : A[i] = R[i]
    <3>1. \A i \in 1..k : i \in 1..n  BY <1>0
    <3> QED BY <1>0, <3>1
  <2>3. DOMAIN B = 1..m /\ Len(B) = m /\ \A i \in 1..m : B[i] = R[k + i]
    <3>1. \A i \in 1..m : k + i \in 1..n  BY <1>0
    <3> QED BY <1>0, <3>1
  <2>4. Unknown(r) = Added(R)[n] /\ Unknown(a) = Added(A)[k] /\ Unknown(b) = Added(B)[m]  BY <1>0 DEF Unknown
  <2> HIDE DEF R, A, B
  <2>5. Added(R)[n] = Added(A)[k] + Added(B)[m]
    <3>1. n \in Nat /\ k \in Nat /\ m \in Nat /\ k + m = n  BY <1>0
    <3>2. SplitOf(R, n, A, k, B, m)  BY <2>1, <2>2, <2>3, <3>1 DEF SplitOf, Numbers
    <3> QED BY <3>2, AddedParts
  <2> QED BY <2>4, <2>5
<1>3. \A i \in 1..m : b[i] = r[k + i]  OBVIOUS
<1>4. StatusesOf(r) \subseteq StatusesOf(a) \cup StatusesOf(b)
  <2> SUFFICES ASSUME NEW i \in 1..n PROVE r[i].status \in StatusesOf(a) \cup StatusesOf(b)
    BY <1>0 DEF StatusesOf
  <2>1. CASE i \in 1..k  BY <1>0, <2>1 DEF StatusesOf
  <2>2. CASE i \notin 1..k
    <3>1. i - k \in 1..m /\ k + (i - k) = i  BY <1>0, <2>2
    <3>2. b[i - k] = r[i]  BY <1>3, <3>1
    <3> QED BY <1>0, <3>1, <3>2 DEF StatusesOf
  <2> QED BY <2>1, <2>2
<1>5. StatusesOf(a) \subseteq StatusesOf(r)
  <2>1. \A i \in 1..k : i \in 1..n  BY <1>0
  <2> QED BY <1>0, <2>1 DEF StatusesOf
<1>6. StatusesOf(b) \subseteq StatusesOf(r)
  <2> SUFFICES ASSUME NEW i \in 1..m PROVE b[i].status \in StatusesOf(r)
    BY <1>0 DEF StatusesOf
  <2>1. k + i \in DOMAIN r  BY <1>0
  <2>2. r[k + i].status \in StatusesOf(r)  BY <2>1 DEF StatusesOf
  <2> QED BY <1>3, <2>2
<1> QED BY <1>1, <1>2, <1>4, <1>5, <1>6

LEMMA CombinedIs ==
  ASSUME NEW S, NEW t, NEW u \in Nat
  PROVE  /\ u > 0 => Combined(S, t, u) = [status |-> "UNKNOWN", amount |-> 0]
         /\ u = 0 /\ S = {"SUBSCRIPTION_INCLUDED"} =>
              Combined(S, t, u) = [status |-> "SUBSCRIPTION_INCLUDED", amount |-> 0]
         /\ u = 0 /\ S # {"SUBSCRIPTION_INCLUDED"} /\ S \cap {"ESTIMATED", "SUBSCRIPTION_INCLUDED"} # {} =>
              Combined(S, t, u) = [status |-> "ESTIMATED", amount |-> t]
         /\ S \cap {"ESTIMATED", "SUBSCRIPTION_INCLUDED"} = {} /\ u = 0 =>
              Combined(S, t, u) = [status |-> "EXACT", amount |-> t]
<1>1. CASE u > 0
  <2>1. ~(u = 0)  BY <1>1
  <2> QED BY <1>1, <2>1, Zenon DEF Combined
<1>2. CASE u = 0
  <2>1. ~(u > 0)  BY <1>2
  <2>2. S \cap {"ESTIMATED", "SUBSCRIPTION_INCLUDED"} = {} => S # {"SUBSCRIPTION_INCLUDED"}  OBVIOUS
  <2>3. CASE S = {"SUBSCRIPTION_INCLUDED"}  BY <1>2, <2>1, <2>2, <2>3, Zenon DEF Combined
  <2>4. CASE S # {"SUBSCRIPTION_INCLUDED"}  BY <1>2, <2>1, <2>4, Zenon DEF Combined
  <2> QED BY <2>3, <2>4
<1>3. u > 0 \/ u = 0  OBVIOUS
<1> QED BY <1>1, <1>2, <1>3

\* The record that stands for a whole sequence.
Standing(r) == [status |-> Aggregate(r).cost.status, amount |-> Aggregate(r).subtotal, unknown |-> Aggregate(r).unknown]

LEMMA StandingIs ==
  ASSUME NEW r, NEW n, CostsOf(r, n), n > 0
  PROVE  /\ Standing(r).amount = Total(r) /\ Standing(r).unknown = Unknown(r)
         /\ Standing(r).status \in CostStatuses
         /\ Unknown(r) > 0 <=> Standing(r).status = "UNKNOWN"
         /\ Unknown(r) = 0 =>
              /\ Standing(r).status = "SUBSCRIPTION_INCLUDED" <=> StatusesOf(r) = {"SUBSCRIPTION_INCLUDED"}
              /\ Standing(r).status = "EXACT" <=> StatusesOf(r) = {"EXACT"}
<1> DEFINE S == StatusesOf(r)
           t == Total(r)
           u == Unknown(r)
           c == Combined(S, t, u)
<1>1. /\ u \in Nat /\ (u > 0 <=> "UNKNOWN" \in S) /\ S \subseteq CostStatuses /\ S # {}
  BY TotalsAre
<1>2. Standing(r).amount = t /\ Standing(r).unknown = u /\ Standing(r).status = c.status
  BY DEF Standing, Aggregate
<1> HIDE DEF S, t, u
<1>3. /\ u > 0 => c = [status |-> "UNKNOWN", amount |-> 0]
      /\ u = 0 /\ S = {"SUBSCRIPTION_INCLUDED"} => c = [status |-> "SUBSCRIPTION_INCLUDED", amount |-> 0]
      /\ u = 0 /\ S # {"SUBSCRIPTION_INCLUDED"} /\ S \cap {"ESTIMATED", "SUBSCRIPTION_INCLUDED"} # {} =>
           c = [status |-> "ESTIMATED", amount |-> t]
      /\ S \cap {"ESTIMATED", "SUBSCRIPTION_INCLUDED"} = {} /\ u = 0 => c = [status |-> "EXACT", amount |-> t]
  BY <1>1, CombinedIs
<1> HIDE DEF c
<1>4. u > 0 \/ u = 0  BY <1>1
<1>5. u = 0 => (S \cap {"ESTIMATED", "SUBSCRIPTION_INCLUDED"} = {} <=> S = {"EXACT"})
  <2>1. u = 0 => "UNKNOWN" \notin S  BY <1>1
  <2> QED BY <1>1, <2>1, OnlyExact
<1>6. /\ u > 0 => c.status = "UNKNOWN"
      /\ u = 0 /\ S = {"SUBSCRIPTION_INCLUDED"} => c.status = "SUBSCRIPTION_INCLUDED"
      /\ u = 0 /\ S # {"SUBSCRIPTION_INCLUDED"} /\ S # {"EXACT"} => c.status = "ESTIMATED"
      /\ u = 0 /\ S = {"EXACT"} => c.status = "EXACT"
  BY <1>3, <1>5
<1>7. S = {"EXACT"} => S # {"SUBSCRIPTION_INCLUDED"}  OBVIOUS
<1>8. ~(u > 0 /\ u = 0)  BY <1>1
<1>9. /\ c.status \in CostStatuses /\ (u > 0 <=> c.status = "UNKNOWN")
      /\ u = 0 => /\ c.status = "SUBSCRIPTION_INCLUDED" <=> S = {"SUBSCRIPTION_INCLUDED"}
                  /\ c.status = "EXACT" <=> S = {"EXACT"}
  BY <1>4, <1>6, <1>7, <1>8 DEF CostStatuses
<1> QED BY <1>2, <1>9 DEF S, t, u

CostsInParts(r, n, a, k, b, m) ==
  /\ CostsOf(r, n) /\ n = k + m /\ k > 0 /\ m > 0
  /\ CostsOf(a, k) /\ \A i \in 1..k : a[i] = r[i]
  /\ CostsOf(b, m) /\ \A i \in 1..m : b[i] = r[k + i]

\* Two sequences added up separately and then together say what they say at once.
LEMMA PartsAgree ==
  ASSUME NEW r, NEW n, NEW a, NEW k, NEW b, NEW m, CostsInParts(r, n, a, k, b, m)
  PROVE  Aggregate(<<Standing(a), Standing(b)>>) = Aggregate(r)
<1> DEFINE A == Standing(a)
           B == Standing(b)
           p == <<A, B>>
<1>1. /\ A.amount = Total(a) /\ A.unknown = Unknown(a) /\ A.status \in CostStatuses
      /\ Unknown(a) > 0 <=> A.status = "UNKNOWN"
      /\ Unknown(a) = 0 => /\ A.status = "SUBSCRIPTION_INCLUDED" <=> StatusesOf(a) = {"SUBSCRIPTION_INCLUDED"}
                           /\ A.status = "EXACT" <=> StatusesOf(a) = {"EXACT"}
  BY StandingIs DEF CostsInParts
<1>2. /\ B.amount = Total(b) /\ B.unknown = Unknown(b) /\ B.status \in CostStatuses
      /\ Unknown(b) > 0 <=> B.status = "UNKNOWN"
      /\ Unknown(b) = 0 => /\ B.status = "SUBSCRIPTION_INCLUDED" <=> StatusesOf(b) = {"SUBSCRIPTION_INCLUDED"}
                           /\ B.status = "EXACT" <=> StatusesOf(b) = {"EXACT"}
  BY StandingIs DEF CostsInParts
<1>3. /\ Total(a) \in Int /\ Unknown(a) \in Nat /\ StatusesOf(a) \subseteq CostStatuses /\ StatusesOf(a) # {}
      /\ Unknown(a) > 0 <=> "UNKNOWN" \in StatusesOf(a)
  BY TotalsAre DEF CostsInParts
<1>4. /\ Total(b) \in Int /\ Unknown(b) \in Nat /\ StatusesOf(b) \subseteq CostStatuses /\ StatusesOf(b) # {}
      /\ Unknown(b) > 0 <=> "UNKNOWN" \in StatusesOf(b)
  BY TotalsAre DEF CostsInParts
<1>5. /\ Total(r) = Total(a) + Total(b) /\ Unknown(r) = Unknown(a) + Unknown(b)
      /\ StatusesOf(r) = StatusesOf(a) \cup StatusesOf(b)
  BY TotalsParts DEF CostsInParts
<1> HIDE DEF A, B
<1>6. Total(p) = A.amount + B.amount /\ Unknown(p) = A.unknown + B.unknown /\ StatusesOf(p) = {A.status, B.status}
  <2>0. DOMAIN p = 1..2 /\ Len(p) = 2 /\ p[1] = A /\ p[2] = B /\ 1 \in 1..2 /\ 2 \in 1..2 /\ 2 - 1 = 1 /\ 1 - 1 = 0
        /\ \A i \in 1..2 : i = 1 \/ i = 2
    OBVIOUS
  <2> HIDE DEF p
  <2> DEFINE x == [i \in DOMAIN p |-> p[i].amount]
             y == [i \in DOMAIN p |-> p[i].unknown]
  <2>1. DOMAIN x = 1..2 /\ Len(x) = 2 /\ x[1] = A.amount /\ x[2] = B.amount /\ Total(p) = Added(x)[2]
    BY <2>0 DEF Total
  <2>2. DOMAIN y = 1..2 /\ Len(y) = 2 /\ y[1] = A.unknown /\ y[2] = B.unknown /\ Unknown(p) = Added(y)[2]
    BY <2>0 DEF Unknown
  <2> HIDE DEF x, y
  <2>3. Added(x)[2] = A.amount + B.amount
    <3>1. \A i \in 1..2 : x[i] \in Int  BY <1>1, <1>2, <1>3, <1>4, <2>0, <2>1
    <3>2. Added(x)[0] = 0 /\ \A i \in 1..2 : Added(x)[i] = Added(x)[i - 1] + x[i]
      <4> DEFINE w == 2
      <4>1. Numbers(x, w)  BY <2>1, <3>1 DEF Numbers
      <4> HIDE DEF w
      <4>2. Added(x)[0] = 0 /\ \A i \in 1..w : Added(x)[i] = Added(x)[i - 1] + x[i]  BY <4>1, AddedAre DEF SumsOf
      <4> QED BY <4>2 DEF w
    <3>3. Added(x)[1] = 0 + x[1] /\ Added(x)[2] = Added(x)[1] + x[2]  BY <2>0, <3>2
    <3> QED BY <2>0, <2>1, <3>1, <3>3
  <2>4. Added(y)[2] = A.unknown + B.unknown
    <3>1. \A i \in 1..2 : y[i] \in Int  BY <1>1, <1>2, <1>3, <1>4, <2>0, <2>2
    <3>2. Added(y)[0] = 0 /\ \A i \in 1..2 : Added(y)[i] = Added(y)[i - 1] + y[i]
      <4> DEFINE w == 2
      <4>1. Numbers(y, w)  BY <2>2, <3>1 DEF Numbers
      <4> HIDE DEF w
      <4>2. Added(y)[0] = 0 /\ \A i \in 1..w : Added(y)[i] = Added(y)[i - 1] + y[i]  BY <4>1, AddedAre DEF SumsOf
      <4> QED BY <4>2 DEF w
    <3>3. Added(y)[1] = 0 + y[1] /\ Added(y)[2] = Added(y)[1] + y[2]  BY <2>0, <3>2
    <3> QED BY <2>0, <2>2, <3>1, <3>3
  <2>5. StatusesOf(p) = {A.status, B.status}  BY <2>0 DEF StatusesOf
  <2> QED BY <2>1, <2>2, <2>3, <2>4, <2>5
<1> DEFINE S == StatusesOf(r)
           T == {A.status, B.status}
           t == Total(r)
           u == Unknown(r)
           ua == Unknown(a)
           ub == Unknown(b)
           Sa == StatusesOf(a)
           Sb == StatusesOf(b)
           Paid == {"ESTIMATED", "SUBSCRIPTION_INCLUDED"}
<1>7. Combined(T, t, u) = Combined(S, t, u)
  <2>1. /\ ua \in Nat /\ ub \in Nat /\ u = ua + ub /\ S = Sa \cup Sb /\ u \in Nat
        /\ Sa # {} /\ Sb # {} /\ Sa \subseteq CostStatuses /\ Sb \subseteq CostStatuses
        /\ (ua > 0 <=> "UNKNOWN" \in Sa) /\ (ub > 0 <=> "UNKNOWN" \in Sb)
    BY <1>3, <1>4, <1>5
  <2>2. /\ A.status \in CostStatuses /\ (ua > 0 <=> A.status = "UNKNOWN")
        /\ ua = 0 => (A.status = "SUBSCRIPTION_INCLUDED" <=> Sa = {"SUBSCRIPTION_INCLUDED"}) /\ (A.status = "EXACT" <=> Sa = {"EXACT"})
        /\ B.status \in CostStatuses /\ (ub > 0 <=> B.status = "UNKNOWN")
        /\ ub = 0 => (B.status = "SUBSCRIPTION_INCLUDED" <=> Sb = {"SUBSCRIPTION_INCLUDED"}) /\ (B.status = "EXACT" <=> Sb = {"EXACT"})
    BY <1>1, <1>2
  <2> HIDE DEF S, t, u, ua, ub, Sa, Sb
  <2>3. CASE u > 0
    <3>1. Combined(T, t, u) = [status |-> "UNKNOWN", amount |-> 0]  BY <2>1, <2>3, CombinedIs
    <3>2. Combined(S, t, u) = [status |-> "UNKNOWN", amount |-> 0]  BY <2>1, <2>3, CombinedIs
    <3> QED BY <3>1, <3>2
  <2>4. CASE u = 0
    <3>1. ua = 0 /\ ub = 0  BY <2>1, <2>4
    <3>2. "UNKNOWN" \notin Sa /\ "UNKNOWN" \notin Sb  BY <2>1, <3>1
    <3>3. T = {"SUBSCRIPTION_INCLUDED"} <=> S = {"SUBSCRIPTION_INCLUDED"}
      <4>1. T = {"SUBSCRIPTION_INCLUDED"} <=> Sa = {"SUBSCRIPTION_INCLUDED"} /\ Sb = {"SUBSCRIPTION_INCLUDED"}
        BY <2>2, <3>1
      <4> QED BY <2>1, <4>1
    <3>4. T \cap Paid = {} <=> S \cap Paid = {}
      <4>1. T \cap Paid = {} <=> Sa = {"EXACT"} /\ Sb = {"EXACT"}
        <5>1. T \cap Paid = {} <=> A.status \notin Paid /\ B.status \notin Paid  OBVIOUS
        <5>2. A.status \notin Paid <=> A.status = "EXACT"  BY <2>1, <2>2, <3>1 DEF CostStatuses
        <5>3. B.status \notin Paid <=> B.status = "EXACT"  BY <2>1, <2>2, <3>1 DEF CostStatuses
        <5> QED BY <2>2, <3>1, <5>1, <5>2, <5>3
      <4>2. S \cap Paid = {} <=> Sa \cap Paid = {} /\ Sb \cap Paid = {}  BY <2>1
      <4>3. (Sa \cap Paid = {} <=> Sa = {"EXACT"}) /\ (Sb \cap Paid = {} <=> Sb = {"EXACT"})
        BY <2>1, <3>2, OnlyExact
      <4> QED BY <4>1, <4>2, <4>3
    <3> HIDE DEF T
    <3>5. /\ u = 0 /\ T = {"SUBSCRIPTION_INCLUDED"} => Combined(T, t, u) = [status |-> "SUBSCRIPTION_INCLUDED", amount |-> 0]
          /\ u = 0 /\ T # {"SUBSCRIPTION_INCLUDED"} /\ T \cap Paid # {} => Combined(T, t, u) = [status |-> "ESTIMATED", amount |-> t]
          /\ T \cap Paid = {} /\ u = 0 => Combined(T, t, u) = [status |-> "EXACT", amount |-> t]
      BY <2>1, CombinedIs
    <3>6. /\ u = 0 /\ S = {"SUBSCRIPTION_INCLUDED"} => Combined(S, t, u) = [status |-> "SUBSCRIPTION_INCLUDED", amount |-> 0]
          /\ u = 0 /\ S # {"SUBSCRIPTION_INCLUDED"} /\ S \cap Paid # {} => Combined(S, t, u) = [status |-> "ESTIMATED", amount |-> t]
          /\ S \cap Paid = {} /\ u = 0 => Combined(S, t, u) = [status |-> "EXACT", amount |-> t]
      BY <2>1, CombinedIs
    <3> QED BY <2>4, <3>3, <3>4, <3>5, <3>6
  <2> QED BY <2>1, <2>3, <2>4
<1>8. Total(p) = t /\ Unknown(p) = u /\ StatusesOf(p) = T  BY <1>1, <1>2, <1>5, <1>6
<1>9. Aggregate(p) = Aggregate(r)  BY <1>7, <1>8 DEF Aggregate
<1> QED BY <1>9 DEF A, B

\* The entries that are indexed are entries of the catalogue, and all of them have a name.
NamedEntries == {e \in PriceEntries : e.raw # <<>>}

LEMMA IndexedAre ==
  ASSUME NEW entries \in Catalogues
  PROVE  Indexed(entries)[Len(entries)] \in Seq(NamedEntries)
<1> DEFINE n == Len(entries)
           S == Seq(NamedEntries)
           P(g) == g = [i \in 0..n |-> IF i = 0 THEN <<>>
                                       ELSE IF entries[i].sound THEN Append(g[i - 1], entries[i]) ELSE g[i - 1]]
           step == [x \in (1..n) \X S |-> IF entries[x[1]].sound THEN Append(x[2], entries[x[1]]) ELSE x[2]]
<1>1. n \in Nat /\ \A i \in 1..n : entries[i].sound => entries[i] \in NamedEntries
  <2>1. entries \in Seq(PriceEntries) /\ \A i \in DOMAIN entries : entries[i].sound => entries[i].raw # <<>>
    BY PricedAssumption
  <2>2. DOMAIN entries = 1..n /\ n \in Nat /\ \A i \in 1..n : entries[i] \in PriceEntries  BY <2>1
  <2> QED BY <2>1, <2>2 DEF NamedEntries
<1> HIDE DEF n
<1>2. \A s \in S, e \in NamedEntries : Append(s, e) \in S  OBVIOUS
<1>3. <<>> \in S  OBVIOUS
<1> HIDE DEF S
<1>4. step \in [(1..n) \X S -> S]
  <2>1. ASSUME NEW x \in (1..n) \X S PROVE (IF entries[x[1]].sound THEN Append(x[2], entries[x[1]]) ELSE x[2]) \in S
    <3>1. x[1] \in 1..n /\ x[2] \in S  OBVIOUS
    <3>2. CASE entries[x[1]].sound  BY <1>1, <1>2, <3>1, <3>2
    <3>3. CASE ~entries[x[1]].sound  BY <3>1, <3>3
    <3> QED BY <3>2, <3>3
  <2> QED BY <2>1
<1>5. ASSUME NEW i \in 1..n, NEW s \in S
      PROVE  step[<<i, s>>] = IF entries[i].sound THEN Append(s, entries[i]) ELSE s
  <2>1. <<i, s>> \in (1..n) \X S  OBVIOUS
  <2> QED BY <2>1
<1> HIDE DEF step
<1>6. PICK f \in [0..n -> S] : f[0] = <<>> /\ \A i \in 1..n : f[i] = step[<<i, f[i - 1]>>]
  <2> DEFINE z == <<>>
  <2>1. Recursion(n, S, z, step)  BY <1>1, <1>3, <1>4 DEF Recursion
  <2> HIDE DEF z
  <2>2. \E f \in [0..n -> S] : Follows(f, n, z, step)  BY <2>1, RecursionHas
  <2> QED BY <2>2 DEF z, Follows
<1>7. P(f)
  <2>1. ASSUME NEW i \in 0..n
        PROVE  f[i] = IF i = 0 THEN <<>> ELSE IF entries[i].sound THEN Append(f[i - 1], entries[i]) ELSE f[i - 1]
    <3>1. CASE i = 0  BY <1>6, <3>1
    <3>2. CASE i # 0
      <4>1. i \in 1..n /\ i - 1 \in 0..n  BY <1>1, <3>2
      <4>2. f[i - 1] \in S  BY <4>1
      <4>3. step[<<i, f[i - 1]>>] = IF entries[i].sound THEN Append(f[i - 1], entries[i]) ELSE f[i - 1]
        BY <1>5, <4>1, <4>2
      <4> QED BY <1>6, <3>2, <4>1, <4>3
    <3> QED BY <3>1, <3>2
  <2> QED BY <2>1
<1>8. Indexed(entries) = CHOOSE g : P(g)  BY DEF Indexed, n
<1> DEFINE c == Indexed(entries)
<1>9. P(c)
  <2> HIDE DEF P
  <2> QED BY <1>7, <1>8
<1> HIDE DEF c
<1>10. \A i \in 0..n : c[i] = IF i = 0 THEN <<>> ELSE IF entries[i].sound THEN Append(c[i - 1], entries[i]) ELSE c[i - 1]
  BY <1>9, Zenon
<1> DEFINE H == {j \in 0..n : c[j] \in S}
<1>11. 0 \in H
  <2>1. 0 \in 0..n  BY <1>1
  <2>2. c[0] = <<>>  BY <1>10, <2>1
  <2> QED BY <1>3, <2>1, <2>2
<1>12. ASSUME NEW i \in 0..(n - 1), i \in H PROVE i + 1 \in H
  <2>1. i + 1 \in 1..n /\ (i + 1) - 1 = i /\ i + 1 \in 0..n /\ i + 1 # 0  BY <1>1
  <2>2. c[i + 1] = IF entries[i + 1].sound THEN Append(c[i], entries[i + 1]) ELSE c[i]  BY <1>10, <2>1
  <2>3. c[i] \in S  BY <1>12
  <2>4. c[i + 1] \in S  BY <1>1, <1>2, <2>1, <2>2, <2>3
  <2> QED BY <2>1, <2>4
<1>13. n \in H
  <2> HIDE DEF H
  <2>1. \A i \in 0..n : i \in H  BY <1>1, <1>11, <1>12, UpTo
  <2> QED BY <1>1, <2>1
<1> QED BY <1>13 DEF c, n, S

\* Names of models as paths.
LEMMA PathFacts ==
  ASSUME NEW r \in Seq(STRING), NEW model \in Seq(STRING), r # <<>>
  PROVE  /\ <<Provider>> \o model # model
         /\ r = <<Provider>> \o model => <<Provider>> \o r # model
         /\ <<Provider>> \o r = model <=> Len(model) > 1 /\ Head(model) = Provider /\ r = Tail(model)
         /\ Len(model) > 1 /\ Head(model) = Provider => <<Provider>> \o Tail(model) = model
<1> DEFINE p == <<Provider>>
           U == STRING \cup {Provider}
<1>1. p \in Seq(U) /\ Len(p) = 1 /\ p[1] = Provider  OBVIOUS
<1>u. model \in Seq(U) /\ r \in Seq(U)
  <2>1. ASSUME NEW s \in Seq(STRING) PROVE s \in Seq(U)
    <3>1. Len(s) \in Nat /\ s \in [1..Len(s) -> STRING]  OBVIOUS
    <3>2. s \in [1..Len(s) -> U]  BY <3>1
    <3> QED BY <3>1, <3>2
  <2> QED BY <2>1
<1> HIDE DEF p, U
<1>c. ASSUME NEW s \in Seq(U)
      PROVE  /\ p \o s \in Seq(U) /\ Len(p \o s) = 1 + Len(s) /\ Len(s) \in Nat /\ (p \o s)[1] = Provider
             /\ \A i \in 1..Len(s) : (p \o s)[i + 1] = s[i]
  <2>1. /\ p \o s \in Seq(U) /\ Len(p \o s) = 1 + Len(s) /\ Len(s) \in Nat
        /\ \A i \in 1..(1 + Len(s)) : (p \o s)[i] = IF i <= 1 THEN p[i] ELSE s[i - 1]
    <3>1. /\ p \o s \in Seq(U) /\ Len(p \o s) = Len(p) + Len(s)
          /\ \A i \in 1..(Len(p) + Len(s)) : (p \o s)[i] = IF i <= Len(p) THEN p[i] ELSE s[i - Len(p)]
      BY <1>1, ConcatProperties
    <3>2. Len(s) \in Nat  OBVIOUS
    <3> QED BY <1>1, <3>1, <3>2
  <2>2. 1 \in 1..(1 + Len(s)) /\ \A i \in 1..Len(s) : i + 1 \in 1..(1 + Len(s)) /\ ~(i + 1 <= 1) /\ (i + 1) - 1 = i
    BY <2>1
  <2> QED BY <1>1, <2>1, <2>2
<1>2. Len(p \o model) = 1 + Len(model) /\ Len(p \o r) = 1 + Len(r) /\ Len(model) \in Nat /\ Len(r) \in Nat
  BY <1>u, <1>c
<1>3. p \o model # model /\ (r = p \o model => p \o r # model)  BY <1>2
<1>4. ASSUME p \o r = model PROVE Len(model) > 1 /\ Head(model) = Provider /\ r = Tail(model)
  <2>1. Len(r) > 0  BY <1>u, <1>2
  <2>2. Len(model) = 1 + Len(r) /\ model[1] = Provider /\ \A i \in 1..Len(r) : model[i + 1] = r[i]
    BY <1>u, <1>c, <1>4
  <2>3. Head(model) = model[1] /\ model # <<>>  BY <2>2, <1>2
  <2>4. /\ Tail(model) \in Seq(U) /\ Len(Tail(model)) = Len(r)
        /\ \A i \in 1..Len(r) : Tail(model)[i] = model[i + 1]
    BY <1>u, <1>2, <2>2, <2>3, HeadTailProperties
  <2>5. r = Tail(model)  BY <1>u, <1>2, <2>2, <2>4, SeqEqual
  <2> QED BY <1>2, <2>1, <2>2, <2>3, <2>5
<1>5. ASSUME Len(model) > 1, Head(model) = Provider PROVE p \o Tail(model) = model
  <2>1. model # <<>> /\ Head(model) = model[1]  BY <1>u, <1>2, <1>5
  <2>2. /\ Tail(model) \in Seq(U) /\ Len(Tail(model)) = Len(model) - 1
        /\ \A i \in 1..(Len(model) - 1) : Tail(model)[i] = model[i + 1]
    BY <1>u, <2>1, HeadTailProperties
  <2>3. /\ p \o Tail(model) \in Seq(U) /\ Len(p \o Tail(model)) = Len(model) /\ (p \o Tail(model))[1] = Provider
        /\ \A i \in 1..(Len(model) - 1) : (p \o Tail(model))[i + 1] = Tail(model)[i]
    BY <1>c, <1>2, <2>2
  <2>4. ASSUME NEW i \in 1..Len(model) PROVE (p \o Tail(model))[i] = model[i]
    <3>1. CASE i = 1  BY <1>5, <2>1, <2>3, <3>1
    <3>2. CASE i # 1
      <4>1. i - 1 \in 1..(Len(model) - 1) /\ (i - 1) + 1 = i  BY <1>2, <3>2
      <4>2. (p \o Tail(model))[(i - 1) + 1] = model[(i - 1) + 1]  BY <2>2, <2>3, <4>1
      <4> QED BY <4>1, <4>2
    <3> QED BY <3>1, <3>2
  <2> QED BY <1>u, <2>3, <2>4, SeqEqual
<1> QED BY <1>3, <1>4, <1>5 DEF p

\* The entries of a list that name a model most closely, as EstimateIsTheUse has them.
Nearest(list, model) ==
  {i \in DOMAIN list : /\ Distance(list[i], model) < 3
                       /\ \A j \in DOMAIN list : Distance(list[j], model) >= Distance(list[i], model)}

\* resolveEntries finds them all, and nothing else.
LEMMA ResolvedNearest ==
  ASSUME prices \in Seq(NamedEntries), NEW model \in Seq(STRING)
  PROVE  Resolved(model) = Nearest(prices, model) /\ Resolved(model) \subseteq DOMAIN prices
<1> DEFINE D == DOMAIN prices
           d(i) == Distance(prices[i], model)
           Short == Len(model) > 1 /\ Head(model) = Provider
<1>1. ASSUME NEW i \in D
      PROVE  /\ d(i) \in {0, 1, 2, 3}
             /\ d(i) = 0 <=> prices[i].raw = model
             /\ d(i) = 1 <=> prices[i].raw = <<Provider>> \o model
             /\ d(i) = 2 <=> Short /\ prices[i].raw = Tail(model)
  <2> DEFINE r == prices[i].raw
             a == r = model
             b == r = <<Provider>> \o model
             c == <<Provider>> \o r = model
  <2>1. r \in Seq(STRING) /\ r # <<>>
    <3>1. prices[i] \in NamedEntries  OBVIOUS
    <3> QED BY <3>1 DEF NamedEntries, PriceEntries
  <2>2. ~(a /\ b) /\ ~(b /\ c) /\ ~(a /\ c) /\ (c <=> Short /\ r = Tail(model))
    <3>1. /\ <<Provider>> \o model # model /\ (r = <<Provider>> \o model => <<Provider>> \o r # model)
          /\ (<<Provider>> \o r = model <=> Len(model) > 1 /\ Head(model) = Provider /\ r = Tail(model))
      BY <2>1, PathFacts
    <3> QED BY <3>1
  <2>3. d(i) = CASE a -> 0 [] b -> 1 [] c -> 2 [] OTHER -> 3  BY DEF Distance
  <2>4. 0 # 1 /\ 0 # 2 /\ 0 # 3 /\ 1 # 2 /\ 1 # 3 /\ 2 # 3  OBVIOUS
  <2> HIDE DEF a, b, c, d, Short, r
  <2>5. /\ a => d(i) = 0
        /\ b => d(i) = 1
        /\ c => d(i) = 2
        /\ ~a /\ ~b /\ ~c => d(i) = 3
    BY <2>2, <2>3
  <2>6. d(i) \in {0, 1, 2, 3} /\ (d(i) = 0 <=> a) /\ (d(i) = 1 <=> b) /\ (d(i) = 2 <=> c)
    BY <2>2, <2>4, <2>5
  <2> QED BY <2>2, <2>6 DEF a, b, r
<1>2. Short => <<Provider>> \o Tail(model) = model
  <2>1. Short => model \in Seq(STRING) /\ model # <<>>  OBVIOUS
  <2> QED BY <2>1, PathFacts
<1>3. Exact(model) = {i \in D : d(i) = 0}  BY <1>1 DEF Exact
<1>4. Alias(model) = {i \in D : d(i) = 1}  BY <1>1 DEF Alias
<1>5. Unprefixed(model) = {i \in D : Short /\ (prices[i].raw = Tail(model) \/ d(i) = 0)}
  <2>1. CASE Short
    <3>1. Unprefixed(model) = {i \in D : prices[i].raw = Tail(model)} \cup {i \in D : prices[i].raw = model}
      BY <1>2, <2>1 DEF Unprefixed, Exact, Alias
    <3> QED BY <1>1, <2>1, <3>1
  <2>2. CASE ~Short
    <3>1. Unprefixed(model) = {}  BY <2>2 DEF Unprefixed
    <3> QED BY <2>2, <3>1
  <2> QED BY <2>1, <2>2
<1>6. Nearest(prices, model) = {i \in D : d(i) < 3 /\ \A j \in D : d(j) >= d(i)}  BY DEF Nearest
<1>7. ASSUME NEW i \in D PROVE d(i) \in {0, 1, 2, 3} /\ (Short /\ prices[i].raw = Tail(model) <=> d(i) = 2)  BY <1>1
<1> HIDE DEF d, D, Short
<1>8. CASE Exact(model) # {}
  <2>1. Resolved(model) = Exact(model)
    <3>1. ~(Exact(model) = {} /\ Alias(model) # {})  BY <1>8
    <3> QED BY <1>8, <3>1, Zenon DEF Resolved
  <2>2. PICK k \in D : d(k) = 0  BY <1>3, <1>8
  <2>3. \A i \in D : (d(i) < 3 /\ \A j \in D : d(j) >= d(i)) <=> d(i) = 0  BY <1>7, <2>2
  <2>4. Nearest(prices, model) = Exact(model)  BY <1>3, <1>6, <2>3
  <2> QED BY <1>3, <2>1, <2>4 DEF D
<1>9. CASE Exact(model) = {} /\ Alias(model) # {}
  <2>1. Resolved(model) = Alias(model)
    <3>1. ~(Exact(model) # {})  BY <1>9
    <3> QED BY <1>9, <3>1, Zenon DEF Resolved
  <2>2. PICK k \in D : d(k) = 1  BY <1>4, <1>9
  <2>3. \A i \in D : d(i) # 0  BY <1>3, <1>9
  <2>4. \A i \in D : (d(i) < 3 /\ \A j \in D : d(j) >= d(i)) <=> d(i) = 1  BY <1>7, <2>2, <2>3
  <2>5. Nearest(prices, model) = Alias(model)  BY <1>4, <1>6, <2>4
  <2> QED BY <1>4, <2>1, <2>5 DEF D
<1>10. CASE Exact(model) = {} /\ Alias(model) = {}
  <2>1. Resolved(model) = Unprefixed(model)
    <3>1. ~(Exact(model) # {}) /\ ~(Exact(model) = {} /\ Alias(model) # {})  BY <1>10
    <3> QED BY <3>1, Zenon DEF Resolved
  <2>2. \A i \in D : d(i) # 0 /\ d(i) # 1  BY <1>3, <1>4, <1>10
  <2>3. \A i \in D : (d(i) < 3 /\ \A j \in D : d(j) >= d(i)) <=> d(i) = 2  BY <1>7, <2>2
  <2>4. Unprefixed(model) = {i \in D : d(i) = 2}  BY <1>5, <1>7, <2>2
  <2>5. Nearest(prices, model) = Unprefixed(model)  BY <1>6, <2>3, <2>4
  <2> QED BY <2>1, <2>4, <2>5 DEF D
<1> QED BY <1>8, <1>9, <1>10

\* A component that may be priced costs its tokens at its price, and nothing without tokens.
LEMMA ComponentCost ==
  ASSUME NEW t \in Nat, NEW p \in PriceFields, p # -2, t > 0 => p # -1
  PROVE  /\ t > 0 => p >= 0
         /\ (IF p >= 0 THEN t * p ELSE 0) = (IF t > 0 THEN t * p ELSE 0)
         /\ (IF p >= 0 THEN t * p ELSE 0) \in Nat
<1>1. p \in Int /\ (p >= 0 <=> p # -1) /\ (p >= 0 => p \in Nat)  BY DEF PriceFields
<1>2. CASE t = 0
  <2>1. t * p = 0  BY <1>1, <1>2
  <2> QED BY <1>2, <2>1
<1>3. CASE t > 0
  <2>1. p >= 0 /\ p \in Nat  BY <1>1, <1>3
  <2>2. t * p \in Nat  BY <2>1
  <2> QED BY <1>3, <2>1, <2>2
<1> QED BY <1>2, <1>3

LEMMA AmountIs ==
  ASSUME NEW e \in PriceEntries, NEW u \in UsageRecords, u.cached <= u.input, Priceable(e, u)
  PROVE  /\ u.cached > 0 => e.cache >= 0
         /\ u.output > 0 => e.output >= 0
         /\ u.input > u.cached => e.input >= 0
         /\ Amount(e, u) = (IF u.input > u.cached THEN (u.input - u.cached) * e.input ELSE 0)
                         + (IF u.output > 0 THEN u.output * e.output ELSE 0)
                         + (IF u.cached > 0 THEN u.cached * e.cache ELSE 0)
         /\ Amount(e, u) \in Int
<1> DEFINE t1 == u.input - u.cached
           t2 == u.output
           t3 == u.cached
           p1 == e.input
           p2 == e.output
           p3 == e.cache
<1>1. /\ p1 \in PriceFields /\ p2 \in PriceFields /\ p3 \in PriceFields  BY DEF PriceEntries
<1>2. /\ t1 \in Nat /\ t2 \in Nat /\ t3 \in Nat /\ (u.input > u.cached <=> t1 > 0)
  <2>1. u.input \in Nat /\ u.output \in Nat /\ u.cached \in Nat  BY DEF UsageRecords
  <2> QED BY <2>1
<1>3. /\ p1 # -2 /\ (t1 > 0 => p1 # -1)
      /\ p2 # -2 /\ (t2 > 0 => p2 # -1)
      /\ p3 # -2 /\ (t3 > 0 => p3 # -1)
  <2> DEFINE parts == Components(e, u)
  <2>1. /\ DOMAIN parts = 1..3 /\ parts[1].tokens = t1 /\ parts[1].price = p1
        /\ parts[2].tokens = t2 /\ parts[2].price = p2
        /\ parts[3].tokens = t3 /\ parts[3].price = p3
    BY DEF Components
  <2>2. \A i \in DOMAIN parts : parts[i].price # -2 /\ (parts[i].tokens > 0 => parts[i].price # -1)
    BY DEF Priceable
  <2> HIDE DEF parts, t1, t2, t3, p1, p2, p3
  <2>3. 1 \in 1..3 /\ 2 \in 1..3 /\ 3 \in 1..3  OBVIOUS
  <2> QED BY <2>1, <2>2, <2>3
<1> DEFINE c1 == IF p1 >= 0 THEN t1 * p1 ELSE 0
           c2 == IF p2 >= 0 THEN t2 * p2 ELSE 0
           c3 == IF p3 >= 0 THEN t3 * p3 ELSE 0
<1>4. Amount(e, u) = c1 + c2 + c3
  <2> DEFINE parts == Components(e, u)
  <2>1. /\ parts[1].tokens = t1 /\ parts[1].price = p1
        /\ parts[2].tokens = t2 /\ parts[2].price = p2
        /\ parts[3].tokens = t3 /\ parts[3].price = p3
    BY DEF Components
  <2>2. Amount(e, u) = (IF parts[1].price >= 0 THEN parts[1].tokens * parts[1].price ELSE 0)
                     + (IF parts[2].price >= 0 THEN parts[2].tokens * parts[2].price ELSE 0)
                     + (IF parts[3].price >= 0 THEN parts[3].tokens * parts[3].price ELSE 0)
    BY Zenon DEF Amount
  <2> HIDE DEF parts, t1, t2, t3, p1, p2, p3
  <2> QED BY <2>1, <2>2, Zenon
<1> HIDE DEF t1, t2, t3, p1, p2, p3
<1>5. (t1 > 0 => p1 >= 0) /\ c1 = (IF t1 > 0 THEN t1 * p1 ELSE 0) /\ c1 \in Nat  BY <1>1, <1>2, <1>3, ComponentCost
<1>6. (t2 > 0 => p2 >= 0) /\ c2 = (IF t2 > 0 THEN t2 * p2 ELSE 0) /\ c2 \in Nat  BY <1>1, <1>2, <1>3, ComponentCost
<1>7. (t3 > 0 => p3 >= 0) /\ c3 = (IF t3 > 0 THEN t3 * p3 ELSE 0) /\ c3 \in Nat  BY <1>1, <1>2, <1>3, ComponentCost
<1>8. (IF u.input > u.cached THEN t1 * p1 ELSE 0) = (IF t1 > 0 THEN t1 * p1 ELSE 0)  BY <1>2
<1> HIDE DEF c1, c2, c3
<1>9. Amount(e, u) \in Int  BY <1>4, <1>5, <1>6, <1>7
<1>10. Amount(e, u) = (IF u.input > u.cached THEN t1 * p1 ELSE 0) + (IF t2 > 0 THEN t2 * p2 ELSE 0) + (IF t3 > 0 THEN t3 * p3 ELSE 0)
  BY <1>4, <1>5, <1>6, <1>7, <1>8, Zenon
<1> QED BY <1>2, <1>5, <1>6, <1>7, <1>9, <1>10 DEF t1, t2, t3, p1, p2, p3

CallRecords == [model : Seq(STRING), usage : UsageRecords, status : CostStatuses, amount : Int, unknown : {0, 1}]

\* What EstimateIsTheUse says of one call and the list of entries.
WellEstimated(list, call) ==
  call.status = "ESTIMATED" =>
    \E i \in Nearest(list, call.model) :
      /\ Nearest(list, call.model) = {i}
      /\ call.usage.cached > 0 => list[i].cache >= 0
      /\ call.usage.output > 0 => list[i].output >= 0
      /\ call.usage.input > call.usage.cached => list[i].input >= 0
      /\ call.amount = (IF call.usage.input > call.usage.cached THEN (call.usage.input - call.usage.cached) * list[i].input ELSE 0)
                     + (IF call.usage.output > 0 THEN call.usage.output * list[i].output ELSE 0)
                     + (IF call.usage.cached > 0 THEN call.usage.cached * list[i].cache ELSE 0)

CallSound(list, call) == (call.unknown > 0 <=> call.status = "UNKNOWN") /\ WellEstimated(list, call)

\* The inductive invariant: the catalogue is indexed before the first call and stays, so every
\* estimate in the ledger is still the one the catalogue gives.
PricedInv ==
  /\ prices \in Seq(NamedEntries)
  /\ gatewayCall \in [step : {"idle", "attempt"}, model : Seq(STRING), retries : Nat]
  /\ prices = <<>> => ledger = <<>> /\ gatewayCall.step = "idle"
  /\ ledger \in Seq(CallRecords)
  /\ \A n \in 1..Len(ledger) : CallSound(prices, ledger[n])

\* What a finished call adds to the ledger.
LEMMA CallAdded ==
  ASSUME PricedInv, prices # <<>>, UNCHANGED prices, NEW call \in CallRecords, CallSound(prices, call), ledger' = Append(ledger, call),
         gatewayCall' \in [step : {"idle", "attempt"}, model : Seq(STRING), retries : Nat]
  PROVE  PricedInv'
<1>1. ledger' \in Seq(CallRecords) /\ Len(ledger') = Len(ledger) + 1 /\ Len(ledger) \in Nat
      /\ ledger'[Len(ledger) + 1] = call /\ \A n \in 1..Len(ledger) : ledger'[n] = ledger[n]
  BY DEF PricedInv
<1>3. ASSUME NEW n \in 1..Len(ledger') PROVE CallSound(prices, ledger'[n])
  <2>1. CASE n = Len(ledger) + 1  BY <1>1, <2>1
  <2>2. CASE n # Len(ledger) + 1
    <3>1. n \in 1..Len(ledger)  BY <1>1, <2>2
    <3> QED BY <1>1, <3>1 DEF PricedInv
  <2> QED BY <2>1, <2>2
<1> QED BY <1>1, <1>3 DEF PricedInv

\* Steps that touch neither the catalogue nor the ledger.
LEMMA BooksKept ==
  ASSUME PricedInv, UNCHANGED <<prices, ledger>>,
         gatewayCall' \in [step : {"idle", "attempt"}, model : Seq(STRING), retries : Nat],
         prices = <<>> => gatewayCall'.step = "idle"
  PROVE  PricedInv'
<1>1. \A n \in 1..Len(ledger) : CallSound(prices, ledger[n])  BY DEF PricedInv
<1>2. (\A n \in 1..Len(ledger) : CallSound(prices, ledger[n]))'  BY <1>1
<1> QED BY <1>2 DEF PricedInv

LEMMA EstimateSound ==
  ASSUME prices \in Seq(NamedEntries), NEW model \in Seq(STRING), NEW usage \in UsageRecords, NEW clock,
         NEW price, price = Estimate(model, usage, clock) \/ price = UnknownCost
  PROVE  /\ CostRecord(model, usage, price) \in CallRecords
         /\ CallSound(prices, CostRecord(model, usage, price))
<1> DEFINE call == CostRecord(model, usage, price)
<1>1. CASE price = UnknownCost
  <2>1. call = [model |-> model, usage |-> usage, status |-> "UNKNOWN", amount |-> 0, unknown |-> 1]
    BY <1>1 DEF CostRecord, UnknownCost
  <2>2. call \in CallRecords  BY <2>1 DEF CallRecords, CostStatuses
  <2>3. CallSound(prices, call)
    <3>1. call.status = "UNKNOWN" /\ call.unknown = 1  BY <2>1
    <3>2. "UNKNOWN" # "ESTIMATED" /\ 1 > 0  OBVIOUS
    <3> HIDE DEF call
    <3> QED BY <3>1, <3>2 DEF CallSound, WellEstimated
  <2> QED BY <2>2, <2>3
<1>2. CASE price # UnknownCost
  <2> DEFINE R == Resolved(model)
  <2>1. /\ usage.cached <= usage.input /\ Cardinality(R) = 1
        /\ \A i \in R : Priceable(prices[i], usage)
        /\ price = [status |-> "ESTIMATED", amount |-> Amount(prices[CHOOSE i \in R : TRUE], usage)]
    BY <1>2 DEF Estimate
  <2>2. R = Nearest(prices, model) /\ R \subseteq DOMAIN prices  BY ResolvedNearest
  <2>3. IsFiniteSet(R)
    <3>1. DOMAIN prices = 1..Len(prices) /\ Len(prices) \in Nat  OBVIOUS
    <3>2. IsFiniteSet(1..Len(prices))  BY <3>1, FS_Interval
    <3> QED BY <2>2, <3>1, <3>2, FS_Subset
  <2>4. PICK i : R = {i}  BY <2>1, <2>3, FS_Singleton
  <2>5. (CHOOSE j \in R : TRUE) = i  BY <2>4
  <2>6. i \in DOMAIN prices /\ Priceable(prices[i], usage)  BY <2>1, <2>2, <2>4
  <2>7. prices[i] \in PriceEntries
    <3>1. prices[i] \in NamedEntries  BY <2>6
    <3> QED BY <3>1 DEF NamedEntries
  <2> DEFINE e == prices[i]
             a == Amount(e, usage)
  <2>8. /\ usage.cached > 0 => e.cache >= 0
        /\ usage.output > 0 => e.output >= 0
        /\ usage.input > usage.cached => e.input >= 0
        /\ a = (IF usage.input > usage.cached THEN (usage.input - usage.cached) * e.input ELSE 0)
             + (IF usage.output > 0 THEN usage.output * e.output ELSE 0)
             + (IF usage.cached > 0 THEN usage.cached * e.cache ELSE 0)
        /\ a \in Int
    BY <2>1, <2>6, <2>7, AmountIs
  <2>9. price = [status |-> "ESTIMATED", amount |-> a]  BY <2>1, <2>5
  <2> HIDE DEF a
  <2>10. call = [model |-> model, usage |-> usage, status |-> "ESTIMATED", amount |-> a, unknown |-> 0]
    BY <2>9 DEF CostRecord
  <2>11. call \in CallRecords  BY <2>8, <2>10 DEF CallRecords, CostStatuses
  <2>12. call.model = model /\ call.usage = usage /\ call.status = "ESTIMATED" /\ call.amount = a /\ call.unknown = 0
    BY <2>10
  <2>13. Nearest(prices, model) = {i}  BY <2>2, <2>4
  <2> HIDE DEF call
  <2>14. WellEstimated(prices, call)  BY <2>8, <2>12, <2>13 DEF WellEstimated
  <2>15. CallSound(prices, call)
    <3>1. ~(0 > 0) /\ "UNKNOWN" # "ESTIMATED"  OBVIOUS
    <3> QED BY <2>12, <2>14, <3>1 DEF CallSound
  <2> QED BY <2>11, <2>15 DEF call
<1> QED BY <1>1, <1>2

LEMMA PricedStart == PricedInit => PricedInv
<1> SUFFICES ASSUME PricedInit PROVE PricedInv  OBVIOUS
<1>1. prices = <<>> /\ ledger = <<>> /\ gatewayCall = [step |-> "idle", model |-> <<>>, retries |-> 0]
  BY DEF PricedInit, NoGatewayCall
<1>2. <<>> \in Seq(STRING) /\ <<>> \in Seq(NamedEntries) /\ <<>> \in Seq(CallRecords) /\ Len(<<>>) = 0  OBVIOUS
<1>3. gatewayCall \in [step : {"idle", "attempt"}, model : Seq(STRING), retries : Nat] /\ gatewayCall.step = "idle"
  BY <1>1, <1>2
<1>4. \A n \in 1..Len(ledger) : FALSE  BY <1>1, <1>2
<1> QED BY <1>1, <1>2, <1>3, <1>4 DEF PricedInv

LEMMA PricedStep == PricedInv /\ [PricedNext]_pricedVars => PricedInv'
<1> SUFFICES ASSUME PricedInv, [PricedNext]_pricedVars PROVE PricedInv'  OBVIOUS
<1> DEFINE Calls == [step : {"idle", "attempt"}, model : Seq(STRING), retries : Nat]
<1>0. gatewayCall \in Calls /\ (prices = <<>> => gatewayCall.step = "idle")  BY DEF PricedInv
<1>i. NoGatewayCall \in Calls /\ NoGatewayCall.step = "idle"
  <2>1. <<>> \in Seq(STRING)  OBVIOUS
  <2> QED BY <2>1 DEF NoGatewayCall
<1>1. ASSUME NEW d \in PriceSources, NEW text \in BOOLEAN, LoadSource(d, text) PROVE PricedInv'
  BY <1>0, <1>1, BooksKept DEF LoadSource
<1>2. CASE WalkText  BY <1>0, <1>2, BooksKept DEF WalkText
<1>3. CASE WalkObject  BY <1>0, <1>3, BooksKept DEF WalkObject
<1>4. ASSUME NEW entries \in Catalogues, IndexCatalogue(entries) PROVE PricedInv'
  <2>1. prices = <<>> /\ prices' = Indexed(entries)[Len(entries)] /\ UNCHANGED <<gatewayCall, ledger>>
    BY <1>4 DEF IndexCatalogue
  <2>2. ledger = <<>> /\ gatewayCall.step = "idle"  BY <2>1 DEF PricedInv
  <2>3. prices' \in Seq(NamedEntries)  BY <2>1, IndexedAre
  <2>4. \A n \in 1..Len(ledger') : FALSE  BY <2>1, <2>2
  <2> QED BY <1>0, <2>1, <2>2, <2>3, <2>4 DEF PricedInv
<1>5. ASSUME NEW model \in PricedRequests, BeginCall(model) PROVE PricedInv'
  <2>1. prices # <<>> /\ gatewayCall' = [NoGatewayCall EXCEPT !.step = "attempt", !.model = model] /\ UNCHANGED <<prices, ledger>>
    BY <1>5 DEF BeginCall
  <2>2. model \in Seq(STRING)  BY PricedAssumption
  <2>3. gatewayCall' \in Calls  BY <2>1, <2>2 DEF NoGatewayCall
  <2> QED BY <2>1, <2>3, BooksKept
<1>6. CASE GatewayAttemptFails
  <2>1. gatewayCall.step = "attempt" /\ UNCHANGED <<prices, ledger>>
        /\ gatewayCall' = IF gatewayCall.retries + 1 > MaxGatewayRetries THEN NoGatewayCall
                          ELSE [gatewayCall EXCEPT !.retries = @ + 1]
    BY <1>6 DEF GatewayAttemptFails
  <2>2. prices # <<>>  BY <1>0, <2>1
  <2>3. [gatewayCall EXCEPT !.retries = @ + 1] \in Calls  BY <1>0
  <2>4. gatewayCall' \in Calls  BY <1>i, <2>1, <2>3
  <2> QED BY <2>1, <2>2, <2>4, BooksKept
<1>7. ASSUME NEW usage \in Usages, NEW clock \in GatewayClock, GatewayAnswers(usage, clock) PROVE PricedInv'
  <2> DEFINE model == gatewayCall.model
             price == IF usage.sound THEN Estimate(model, usage, clock) ELSE UnknownCost
             call == CostRecord(model, usage, price)
  <2>1. gatewayCall.step = "attempt" /\ ledger' = Append(ledger, call) /\ gatewayCall' = NoGatewayCall /\ UNCHANGED prices
    BY <1>7 DEF GatewayAnswers
  <2>2. prices # <<>> /\ prices \in Seq(NamedEntries)  BY <1>0, <2>1 DEF PricedInv
  <2>3. model \in Seq(STRING) /\ usage \in UsageRecords  BY <1>0, PricedAssumption
  <2>4. price = Estimate(model, usage, clock) \/ price = UnknownCost  OBVIOUS
  <2> HIDE DEF price, model
  <2>5. call \in CallRecords /\ CallSound(prices, call)  BY <2>2, <2>3, <2>4, EstimateSound
  <2> HIDE DEF call
  <2>6. gatewayCall' \in Calls  BY <1>i, <2>1
  <2> QED BY <2>1, <2>2, <2>5, <2>6, CallAdded
<1>8. ASSUME NEW status \in {"EXACT", "SUBSCRIPTION_INCLUDED"},
             NativeCall([status |-> status, amount |-> IF status = "EXACT" THEN 2 ELSE 0])
      PROVE  PricedInv'
  <2> DEFINE price == [status |-> status, amount |-> IF status = "EXACT" THEN 2 ELSE 0]
             usage == [input |-> 0, output |-> 0, cached |-> 0, sound |-> TRUE]
             none == <<>>
             call == CostRecord(none, usage, price)
  <2>1. prices # <<>> /\ ledger' = Append(ledger, call) /\ UNCHANGED <<prices, gatewayCall>>
    BY <1>8 DEF NativeCall
  <2>2. usage \in UsageRecords /\ none \in Seq(STRING)  BY DEF UsageRecords
  <2>3. status \in CostStatuses /\ status # "UNKNOWN" /\ status # "ESTIMATED"  BY DEF CostStatuses
  <2>4. price.status = status /\ price.amount \in Int  OBVIOUS
  <2> HIDE DEF price, usage, none
  <2>5. call = [model |-> none, usage |-> usage, status |-> status, amount |-> price.amount, unknown |-> 0]
    BY <2>3, <2>4 DEF CostRecord
  <2>6. call \in CallRecords  BY <2>2, <2>3, <2>4, <2>5 DEF CallRecords
  <2>7. call.status = status /\ call.unknown = 0  BY <2>5
  <2> HIDE DEF call
  <2>8. CallSound(prices, call)
    <3>1. ~(0 > 0)  OBVIOUS
    <3> QED BY <2>3, <2>7, <3>1 DEF CallSound, WellEstimated
  <2>9. gatewayCall' \in Calls  BY <1>0, <2>1
  <2> QED BY <2>1, <2>6, <2>8, <2>9, CallAdded
<1>9. CASE UNCHANGED pricedVars  BY <1>0, <1>9, BooksKept DEF pricedVars
<1> QED BY <1>1, <1>2, <1>3, <1>4, <1>5, <1>6, <1>7, <1>8, <1>9, Zenon DEF PricedNext

LEMMA PricedInvSound == PricedInv => EstimateIsTheUse /\ TotalsAreHonest
<1> SUFFICES ASSUME PricedInv PROVE EstimateIsTheUse /\ TotalsAreHonest  OBVIOUS
<1> DEFINE N == Len(ledger)
<1>1. ledger \in Seq(CallRecords) /\ N \in Nat /\ DOMAIN ledger = 1..N  BY DEF PricedInv
<1>2. EstimateIsTheUse
  <2>1. \A n \in DOMAIN ledger : WellEstimated(prices, ledger[n])  BY <1>1 DEF PricedInv, CallSound
  <2> QED BY <2>1, Zenon DEF EstimateIsTheUse, WellEstimated, Nearest
<1>3. \A i \in 1..N : /\ ledger[i].amount \in Int /\ ledger[i].unknown \in Nat /\ ledger[i].status \in CostStatuses
                      /\ (ledger[i].unknown > 0 <=> ledger[i].status = "UNKNOWN")
  <2> TAKE i \in 1..N
  <2>1. ledger[i] \in CallRecords  BY <1>1
  <2>2. ledger[i].amount \in Int /\ ledger[i].unknown \in Nat /\ ledger[i].status \in CostStatuses
    BY <2>1 DEF CallRecords
  <2> QED BY <2>2 DEF PricedInv, CallSound
<1>4. CostsOf(ledger, N)  BY <1>1, <1>3 DEF CostsOf
<1>5. ASSUME N > 0 PROVE TotalsAreHonest
  <2>1. /\ Standing(ledger).status \in CostStatuses
        /\ Unknown(ledger) > 0 <=> Standing(ledger).status = "UNKNOWN"
        /\ Unknown(ledger) = 0 =>
             /\ Standing(ledger).status = "SUBSCRIPTION_INCLUDED" <=> StatusesOf(ledger) = {"SUBSCRIPTION_INCLUDED"}
             /\ Standing(ledger).status = "EXACT" <=> StatusesOf(ledger) = {"EXACT"}
    BY <1>4, <1>5, StandingIs
  <2>2. Standing(ledger).status = Aggregate(ledger).cost.status  BY DEF Standing
  <2>3. Unknown(ledger) \in Nat /\ (Unknown(ledger) > 0 <=> "UNKNOWN" \in StatusesOf(ledger))  BY <1>4, TotalsAre
  <2>4. Aggregate(ledger).cost.status # "UNKNOWN" => \A n \in DOMAIN ledger : ledger[n].status # "UNKNOWN"
    BY <2>1, <2>2, <2>3 DEF StatusesOf
  <2>5. Aggregate(ledger).cost.status = "EXACT" => \A n \in DOMAIN ledger : ledger[n].status = "EXACT"
    <3> SUFFICES ASSUME Aggregate(ledger).cost.status = "EXACT", NEW n \in DOMAIN ledger PROVE ledger[n].status = "EXACT"
      OBVIOUS
    <3>1. "EXACT" # "UNKNOWN"  OBVIOUS
    <3>2. Unknown(ledger) = 0  BY <2>1, <2>2, <2>3, <3>1
    <3>3. StatusesOf(ledger) = {"EXACT"}  BY <2>1, <2>2, <3>2
    <3> QED BY <3>3 DEF StatusesOf
  <2>6. ASSUME NEW k \in 1..(N - 1)
        PROVE  Aggregate(<<Standing(SubSeq(ledger, 1, k)), Standing(SubSeq(ledger, k + 1, N))>>) = Aggregate(ledger)
    <3> DEFINE a == SubSeq(ledger, 1, k)
               b == SubSeq(ledger, k + 1, N)
               m == N - k
    <3>1. k \in Nat /\ m \in Nat /\ N = k + m /\ k > 0 /\ m > 0  BY <1>1
    <3>2. Len(a) = k /\ DOMAIN a = 1..k /\ \A i \in 1..k : a[i] = ledger[i]  BY <1>1, <3>1
    <3>3. Len(b) = m /\ DOMAIN b = 1..m /\ \A i \in 1..m : b[i] = ledger[k + i]
      <4>1. Len(b) = m /\ DOMAIN b = 1..m  BY <1>1, <3>1
      <4>2. \A i \in 1..m : b[i] = ledger[k + i]
        <5> TAKE i \in 1..m
        <5>1. b[i] = ledger[(k + 1) + i - 1]  BY <1>1, <3>1
        <5>2. (k + 1) + i - 1 = k + i  BY <3>1
        <5> QED BY <5>1, <5>2
      <4> QED BY <4>1, <4>2
    <3> HIDE DEF a, b, m, N
    <3>4. CostsOf(a, k)
      <4>1. \A i \in 1..k : i \in 1..N  BY <3>1
      <4> QED BY <1>3, <3>1, <3>2, <4>1 DEF CostsOf
    <3>5. CostsOf(b, m)
      <4>1. \A i \in 1..m : k + i \in 1..N  BY <3>1
      <4> QED BY <1>3, <3>1, <3>3, <4>1 DEF CostsOf
    <3>6. Aggregate(<<Standing(a), Standing(b)>>) = Aggregate(ledger)
      <4>1. CostsInParts(ledger, N, a, k, b, m)  BY <1>4, <3>1, <3>2, <3>3, <3>4, <3>5 DEF CostsInParts
      <4> QED BY <4>1, PartsAgree
    <3> QED BY <3>6 DEF a, b
  <2> QED BY <2>4, <2>5, <2>6, Zenon DEF TotalsAreHonest, Standing
<1>6. ~(N > 0) => TotalsAreHonest  BY DEF TotalsAreHonest
<1> QED BY <1>2, <1>5, <1>6

-----------------------------------------------------------------------------
(* The places of a price source. *)

LEMMA ImageFinite ==
  ASSUME NEW S, IsFiniteSet(S), NEW T, NEW f \in [S -> T], \A t \in T : \E x \in S : f[x] = t
  PROVE  IsFiniteSet(T)
<1>1. f \in Surjection(S, T)  BY DEF Surjection
<1> QED BY <1>1, FS_Surjection

\* A source as PricedAssumption has it.
SourceOf(d) ==
  /\ d.kids \in Seq(Seq(Nat)) /\ 1 \in DOMAIN d.kids
  /\ \A n \in DOMAIN d.kids : /\ \A i \in DOMAIN d.kids[n] : d.kids[n][i] \in DOMAIN d.kids
                              /\ d.kind[n] \in {"node", "leaf", "big", "odd"}

\* A place of the k-th level: a path of k indices and the node it leads to.
PlaceForm(d, x, k) == x = <<x[1], x[2]>> /\ x[1] \in Seq(Nat) /\ Len(x[1]) = k /\ x[2] \in DOMAIN d.kids
Inside(d, x, i) == i \in DOMAIN d.kids[x[2]]

LEMMA KidIs ==
  ASSUME NEW d, SourceOf(d), NEW k \in Nat, NEW x, PlaceForm(d, x, k), NEW i, Inside(d, x, i)
  PROVE  /\ PlaceForm(d, KidPlace(d, x, i), k + 1) /\ KidPlace(d, x, i)[1] = Append(x[1], i)
         /\ KidPlace(d, x, i)[2] = d.kids[x[2]][i] /\ i \in Nat
<1> DEFINE p == x[1]
           n == x[2]
           y == <<Append(p, i), d.kids[n][i]>>
<1>1. p \in Seq(Nat) /\ Len(p) = k /\ n \in DOMAIN d.kids  BY DEF PlaceForm
<1>2. d.kids[n][i] \in DOMAIN d.kids  BY <1>1 DEF SourceOf, Inside
<1>3. i \in Nat
  <2>1. d.kids[n] \in Seq(Nat)  BY <1>1 DEF SourceOf
  <2>2. i \in 1..Len(d.kids[n]) /\ Len(d.kids[n]) \in Nat  BY <2>1 DEF Inside
  <2> QED BY <2>2
<1>4. Append(p, i) \in Seq(Nat) /\ Len(Append(p, i)) = k + 1  BY <1>1, <1>3
<1>5. KidPlace(d, x, i) = y  BY DEF KidPlace
<1>6. y[1] = Append(p, i) /\ y[2] = d.kids[n][i]  OBVIOUS
<1> HIDE DEF p, n, y
<1>7. y = <<y[1], y[2]>>  BY <1>6 DEF y
<1>8. PlaceForm(d, y, k + 1)  BY <1>2, <1>4, <1>6, <1>7 DEF PlaceForm
<1> QED BY <1>3, <1>5, <1>6, <1>8 DEF p, n

\* The levels: the root, and then the kids of the level before.
LevelsOf(d, lv) ==
  /\ lv[0] = {RootPlace}
  /\ \A k \in 1..(MaxJsonDepth + 1) : lv[k] = UNION {KidPlaces(d, x) : x \in lv[k - 1]}

LEMMA LevelsAre ==
  ASSUME NEW d
  PROVE  LevelsOf(d, Levels(d))
<1> DEFINE n == MaxJsonDepth + 1
           P(g) == g = [k \in 0..n |-> IF k = 0 THEN {RootPlace} ELSE UNION {KidPlaces(d, x) : x \in g[k - 1]}]
           Fits(f, m) == f[0] = {RootPlace} /\ \A k \in 1..m : f[k] = UNION {KidPlaces(d, x) : x \in f[k - 1]}
           G == {m \in 0..n : \E f : DOMAIN f = 0..m /\ f = [k \in 0..m |-> f[k]] /\ Fits(f, m)}
<1>0. n \in Nat  BY PricedAssumption
<1> HIDE DEF n
<1>1. 0 \in G
  <2> DEFINE f == [k \in 0..0 |-> {RootPlace}]
  <2>1. DOMAIN f = 0..0 /\ f[0] = {RootPlace} /\ 0 \in 0..n /\ (\A i \in 1..0 : FALSE) /\ f = [k \in 0..0 |-> f[k]]  BY <1>0
  <2> HIDE DEF f
  <2> QED BY <2>1
<1>2. ASSUME NEW m \in 0..(n - 1), m \in G PROVE m + 1 \in G
  <2>1. PICK f : DOMAIN f = 0..m /\ f = [k \in 0..m |-> f[k]] /\ Fits(f, m)  BY <1>2
  <2> DEFINE v == UNION {KidPlaces(d, x) : x \in f[m]}
             g == [i \in 0..(m + 1) |-> IF i <= m THEN f[i] ELSE v]
  <2> HIDE DEF v
  <2>2. /\ DOMAIN g = 0..(m + 1) /\ g[m + 1] = v /\ (\A i \in 0..m : g[i] = f[i]) /\ m + 1 \in 0..n /\ 0 \in 0..m
        /\ g = [k \in 0..(m + 1) |-> g[k]]
    BY <1>0
  <2> HIDE DEF g
  <2>3. ASSUME NEW k \in 1..(m + 1) PROVE g[k] = UNION {KidPlaces(d, x) : x \in g[k - 1]}
    <3>1. CASE k \in 1..m
      <4>1. k \in 0..m /\ k - 1 \in 0..m  BY <3>1
      <4>2. f[k] = UNION {KidPlaces(d, x) : x \in f[k - 1]}  BY <2>1, <3>1
      <4>3. g[k] = f[k] /\ g[k - 1] = f[k - 1]  BY <2>2, <4>1
      <4> QED BY <4>2, <4>3
    <3>2. CASE k = m + 1
      <4>1. k - 1 = m /\ m \in 0..m  BY <3>2
      <4>2. g[k - 1] = f[m] /\ g[k] = v  BY <2>2, <3>2, <4>1
      <4> QED BY <4>2 DEF v
    <3> QED BY <3>1, <3>2
  <2>4. g[0] = {RootPlace}  BY <2>1, <2>2
  <2> QED BY <2>2, <2>3, <2>4
<1>3. n \in G
  <2> HIDE DEF G
  <2>1. \A m \in 0..n : m \in G  BY <1>0, <1>1, <1>2, UpTo
  <2> QED BY <1>0, <2>1
<1>4. PICK f : DOMAIN f = 0..n /\ f = [k \in 0..n |-> f[k]] /\ Fits(f, n)  BY <1>3
<1>5. P(f)
  <2>1. ASSUME NEW k \in 0..n PROVE f[k] = IF k = 0 THEN {RootPlace} ELSE UNION {KidPlaces(d, x) : x \in f[k - 1]}
    <3>1. CASE k = 0  BY <1>4, <3>1
    <3>2. CASE k # 0
      <4>1. k \in 1..n  BY <1>0, <3>2
      <4>2. f[k] = UNION {KidPlaces(d, x) : x \in f[k - 1]}  BY <1>4, <4>1
      <4> QED BY <3>2, <4>2, Zenon
    <3> QED BY <3>1, <3>2
  <2> DEFINE h == [k \in 0..n |-> IF k = 0 THEN {RootPlace} ELSE UNION {KidPlaces(d, x) : x \in f[k - 1]}]
  <2>2. [k \in 0..n |-> f[k]] = h  BY <2>1, Zenon
  <2> HIDE DEF h
  <2>3. f = h  BY <1>4, <2>2
  <2> QED BY <2>3 DEF h
<1>6. Levels(d) = CHOOSE g : P(g)  BY Zenon DEF Levels, n
<1> DEFINE c == Levels(d)
<1>7. P(c)
  <2> HIDE DEF P
  <2> QED BY <1>5, <1>6
<1> HIDE DEF c
<1>8. \A k \in 0..n : c[k] = IF k = 0 THEN {RootPlace} ELSE UNION {KidPlaces(d, x) : x \in c[k - 1]}  BY <1>7, Zenon
<1>9. c[0] = {RootPlace}
  <2>1. 0 \in 0..n  BY <1>0
  <2> QED BY <1>8, <2>1, Zenon
<1>10. ASSUME NEW k \in 1..n PROVE c[k] = UNION {KidPlaces(d, x) : x \in c[k - 1]}
  <2>1. k \in 0..n /\ k # 0  BY <1>0
  <2> QED BY <1>8, <2>1, Zenon
<1> QED BY <1>9, <1>10 DEF LevelsOf, c, n

LEMMA AppendSame ==
  ASSUME NEW p \in Seq(Nat), NEW q \in Seq(Nat), NEW i \in Nat, NEW j \in Nat, Append(p, i) = Append(q, j)
  PROVE  p = q /\ i = j
<1> DEFINE a == Append(p, i)
           b == Append(q, j)
<1>1. Len(a) = Len(p) + 1 /\ Len(b) = Len(q) + 1 /\ Len(p) \in Nat /\ Len(q) \in Nat  OBVIOUS
<1>2. a = b  OBVIOUS
<1>3. Len(p) = Len(q)  BY <1>1, <1>2
<1>4. a[Len(p) + 1] = i /\ b[Len(q) + 1] = j  OBVIOUS
<1>5. \A k \in 1..Len(p) : a[k] = p[k]  BY SMTT(30)
<1>6. \A k \in 1..Len(q) : b[k] = q[k]  BY SMTT(30)
<1> HIDE DEF a, b
<1>7. i = j  BY <1>2, <1>3, <1>4
<1>8. \A k \in 1..Len(p) : p[k] = q[k]  BY <1>2, <1>3, <1>5, <1>6
<1> QED BY <1>3, <1>7, <1>8, SeqEqual

LEMMA ButLast ==
  ASSUME NEW A, NEW a \in Seq(A), Len(a) > 0
  PROVE  /\ SubSeq(a, 1, Len(a) - 1) \in Seq(A) /\ Len(SubSeq(a, 1, Len(a) - 1)) = Len(a) - 1
         /\ \A i \in 1..(Len(a) - 1) : SubSeq(a, 1, Len(a) - 1)[i] = a[i]
<1> DEFINE k == Len(a) - 1
           s == SubSeq(a, 1, k)
<1>1. k \in Nat /\ Len(a) = k + 1  OBVIOUS
<1>2. \A i \in 1..k : a[i] \in A  BY <1>1
<1>3. s = [i \in 1..k |-> a[i]]  BY <1>1
<1> HIDE DEF s, k
<1>4. s \in Seq(A) /\ Len(s) = k /\ \A i \in 1..k : s[i] = a[i]  BY <1>1, <1>2, <1>3
<1> QED BY <1>4 DEF s, k

LEMMA InLevel ==
  ASSUME NEW d, NEW k \in 1..(MaxJsonDepth + 1), NEW y
  PROVE  y \in Levels(d)[k] <=> \E x \in Levels(d)[k - 1] : \E i : Inside(d, x, i) /\ y = KidPlace(d, x, i)
<1>1. Levels(d)[k] = UNION {KidPlaces(d, x) : x \in Levels(d)[k - 1]}  BY LevelsAre DEF LevelsOf
<1> DEFINE L == Levels(d)[k - 1]
<1>2. y \in Levels(d)[k] <=> \E x \in L : y \in KidPlaces(d, x)  BY <1>1, Zenon
<1>3. \A x : y \in KidPlaces(d, x) <=> \E i : Inside(d, x, i) /\ y = KidPlace(d, x, i)
  BY Zenon DEF KidPlaces, Inside
<1> HIDE DEF L
<1>4. y \in Levels(d)[k] <=> \E x \in L : \E i : Inside(d, x, i) /\ y = KidPlace(d, x, i)  BY <1>2, <1>3, Zenon
<1> QED BY <1>4 DEF L

\* Every level holds places of its depth, finitely many, and no two with the same path.
LevelGood(d, k) ==
  /\ \A x \in Levels(d)[k] : PlaceForm(d, x, k)
  /\ \A x, y \in Levels(d)[k] : x[1] = y[1] => x = y
  /\ IsFiniteSet(Levels(d)[k])

LEMMA LevelsGood ==
  ASSUME NEW d, SourceOf(d)
  PROVE  \A k \in 0..(MaxJsonDepth + 1) : LevelGood(d, k)
<1> DEFINE n == MaxJsonDepth + 1
           G == {k \in 0..n : LevelGood(d, k)}
<1>0. n \in Nat  BY PricedAssumption
<1>1. 0 \in G
  <2>1. Levels(d)[0] = {RootPlace}  BY LevelsAre DEF LevelsOf
  <2>2. PlaceForm(d, RootPlace, 0)
    <3> DEFINE e == <<>>
               r == <<e, 1>>
    <3>1. r = <<r[1], r[2]>> /\ r[1] = e /\ r[2] = 1  OBVIOUS
    <3>2. e \in Seq(Nat) /\ Len(e) = 0  OBVIOUS
    <3>3. 1 \in DOMAIN d.kids  BY DEF SourceOf
    <3>4. RootPlace = r  BY DEF RootPlace
    <3> HIDE DEF e, r
    <3>5. PlaceForm(d, r, 0)  BY <3>1, <3>2, <3>3 DEF PlaceForm
    <3> QED BY <3>4, <3>5
  <2>3. IsFiniteSet({RootPlace})  BY FS_Singleton
  <2>4. 0 \in 0..n  BY <1>0
  <2> HIDE DEF n
  <2> QED BY <2>1, <2>2, <2>3, <2>4 DEF LevelGood
<1>2. ASSUME NEW k \in 0..(n - 1), k \in G PROVE k + 1 \in G
  <2> DEFINE L == Levels(d)[k]
             N == Levels(d)[k + 1]
  <2>0. k + 1 \in 1..(MaxJsonDepth + 1) /\ (k + 1) - 1 = k /\ k \in Nat /\ k + 1 \in 0..n  BY <1>0
  <2>1. LevelGood(d, k)  BY <1>2
  <2>2. \A y : y \in N <=> \E x \in L : \E i : Inside(d, x, i) /\ y = KidPlace(d, x, i)
    <3> TAKE y
    <3>1. y \in Levels(d)[k + 1] <=> \E x \in Levels(d)[(k + 1) - 1] : \E i : Inside(d, x, i) /\ y = KidPlace(d, x, i)
      BY <2>0, InLevel
    <3> QED BY <2>0, <3>1
  <2>3. \A x \in L : PlaceForm(d, x, k)  BY <2>1 DEF LevelGood
  <2>4. \A y \in N : PlaceForm(d, y, k + 1)
    <3> TAKE y \in N
    <3>1. PICK x \in L : \E i : Inside(d, x, i) /\ y = KidPlace(d, x, i)  BY <2>2
    <3>2. PICK i : Inside(d, x, i) /\ y = KidPlace(d, x, i)  BY <3>1
    <3> QED BY <2>0, <2>3, <3>2, KidIs
  <2>5. ASSUME NEW y \in N, NEW z \in N, y[1] = z[1] PROVE y = z
    <3>1. PICK u \in L : \E i : Inside(d, u, i) /\ y = KidPlace(d, u, i)  BY <2>2
    <3>2. PICK i : Inside(d, u, i) /\ y = KidPlace(d, u, i)  BY <3>1
    <3>3. PICK v \in L : \E j : Inside(d, v, j) /\ z = KidPlace(d, v, j)  BY <2>2
    <3>4. PICK j : Inside(d, v, j) /\ z = KidPlace(d, v, j)  BY <3>3
    <3>5. y[1] = Append(u[1], i) /\ i \in Nat  BY <2>0, <2>3, <3>2, KidIs
    <3>6. z[1] = Append(v[1], j) /\ j \in Nat  BY <2>0, <2>3, <3>4, KidIs
    <3>7. u[1] \in Seq(Nat) /\ v[1] \in Seq(Nat)  BY <2>3 DEF PlaceForm
    <3>8. u[1] = v[1] /\ i = j
      <4> DEFINE p == u[1]
                 q == v[1]
      <4>1. p \in Seq(Nat) /\ q \in Seq(Nat) /\ Append(p, i) = Append(q, j) /\ i \in Nat /\ j \in Nat
        BY <2>5, <3>5, <3>6, <3>7
      <4> HIDE DEF p, q
      <4>2. p = q /\ i = j  BY <4>1, AppendSame
      <4> QED BY <4>2 DEF p, q
    <3>9. u = v  BY <2>1, <3>8 DEF LevelGood
    <3> QED BY <3>2, <3>4, <3>8, <3>9
  <2>6. IsFiniteSet(N)
    <3>1. IsFiniteSet(L)  BY <2>1 DEF LevelGood
    <3> DEFINE S == {KidPlaces(d, x) : x \in L}
               f == [x \in L |-> KidPlaces(d, x)]
    <3>2. N = UNION S
      <4>1. Levels(d)[k + 1] = UNION {KidPlaces(d, x) : x \in Levels(d)[(k + 1) - 1]}  BY <2>0, LevelsAre DEF LevelsOf
      <4> QED BY <2>0, <4>1
    <3>3. IsFiniteSet(S)
      <4>1. f \in [L -> S] /\ \A t \in S : \E x \in L : f[x] = t
        <5> HIDE DEF L
        <5> QED OBVIOUS
      <4> HIDE DEF f, S, L
      <4> QED BY <3>1, <4>1, ImageFinite
    <3>4. ASSUME NEW T \in S PROVE IsFiniteSet(T)
      <4>1. PICK x \in L : T = KidPlaces(d, x)  OBVIOUS
      <4> DEFINE D == DOMAIN d.kids[x[2]]
                 g == [i \in D |-> KidPlace(d, x, i)]
      <4>2. T = {KidPlace(d, x, i) : i \in D}  BY <4>1 DEF KidPlaces
      <4>3. IsFiniteSet(D)
        <5>1. x[2] \in DOMAIN d.kids  BY <2>3 DEF PlaceForm
        <5>2. d.kids[x[2]] \in Seq(Nat)  BY <5>1 DEF SourceOf
        <5>3. D = 1..Len(d.kids[x[2]]) /\ Len(d.kids[x[2]]) \in Nat  BY <5>2
        <5>4. IsFiniteSet(1..Len(d.kids[x[2]]))
          <6> DEFINE b == Len(d.kids[x[2]])
          <6>1. 1 \in Int /\ b \in Int  BY <5>3
          <6> HIDE DEF b
          <6>2. IsFiniteSet(1..b)  BY <6>1, FS_Interval
          <6> QED BY <6>2 DEF b
        <5> QED BY <5>3, <5>4
      <4>4. g \in [D -> T] /\ \A t \in T : \E i \in D : g[i] = t
        <5> HIDE DEF D
        <5> QED BY <4>2
      <4> HIDE DEF g, D
      <4> QED BY <4>3, <4>4, ImageFinite
    <3> HIDE DEF S, N, L
    <3>5. IsFiniteSet(UNION S)  BY <3>3, <3>4, FS_UNION
    <3> QED BY <3>2, <3>5
  <2>7. LevelGood(d, k + 1)  BY <2>4, <2>5, <2>6 DEF LevelGood
  <2> QED BY <2>0, <2>7
<1>3. \A k \in 0..n : k \in G
  <2> HIDE DEF G, n
  <2> QED BY <1>0, <1>1, <1>2, UpTo
<1> QED BY <1>3

\* What the walks need to know of the places: x is one at its depth.
PlaceAt(d, x) == /\ x \in Places(d) /\ Len(x[1]) \in 0..(MaxJsonDepth + 1) /\ x \in Levels(d)[Len(x[1])]
                 /\ PlaceForm(d, x, Len(x[1])) /\ Len(x[1]) \in Nat

LEMMA PlacesAre ==
  ASSUME NEW d, SourceOf(d), NEW x, x \in Places(d)
  PROVE  PlaceAt(d, x)
<1>1. PICK k \in 0..(MaxJsonDepth + 1) : x \in Levels(d)[k]  BY DEF Places
<1>2. PlaceForm(d, x, k)  BY <1>1, LevelsGood DEF LevelGood
<1>3. Len(x[1]) = k  BY <1>2 DEF PlaceForm
<1>4. k \in Nat  BY PricedAssumption
<1> QED BY <1>1, <1>2, <1>3, <1>4 DEF PlaceAt

LEMMA KidsAre ==
  ASSUME NEW d, SourceOf(d), NEW x \in Places(d)
  PROVE  d.kids[x[2]] \in Seq(Nat) /\ DOMAIN d.kids[x[2]] = 1..Len(d.kids[x[2]]) /\ Len(d.kids[x[2]]) \in Nat
<1> DEFINE n == x[2]
           kids == d.kids[n]
<1>1. PlaceAt(d, x)  BY PlacesAre
<1>2. n \in DOMAIN d.kids  BY <1>1 DEF PlaceAt, PlaceForm
<1> HIDE DEF n
<1>3. kids \in Seq(Nat)  BY <1>2 DEF SourceOf
<1> HIDE DEF kids
<1>4. kids \in Seq(Nat) /\ DOMAIN kids = 1..Len(kids) /\ Len(kids) \in Nat  BY <1>3
<1> QED BY <1>4 DEF kids, n

LEMMA RootIn ==
  ASSUME NEW d
  PROVE  RootPlace \in Places(d) /\ Len(RootPlace[1]) = 0 /\ RootPlace[2] = 1
<1>1. Levels(d)[0] = {RootPlace}  BY LevelsAre DEF LevelsOf
<1>2. 0 \in 0..(MaxJsonDepth + 1)  BY PricedAssumption
<1>3. RootPlace \in Places(d)  BY <1>1, <1>2 DEF Places
<1> QED BY <1>3 DEF RootPlace

\* Its kids are places while it is not below the limit.
LEMMA KidIn ==
  ASSUME NEW d, SourceOf(d), NEW x \in Places(d), Len(x[1]) <= MaxJsonDepth, NEW i, Inside(d, x, i)
  PROVE  KidPlace(d, x, i) \in Places(d)
<1> DEFINE k == Len(x[1])
<1>1. x \in Levels(d)[k] /\ k \in Nat  BY PlacesAre DEF PlaceAt
<1>2. k + 1 \in 1..(MaxJsonDepth + 1) /\ k + 1 \in 0..(MaxJsonDepth + 1) /\ (k + 1) - 1 = k  BY <1>1, PricedAssumption
<1> HIDE DEF k
<1> DEFINE m == k + 1
           y == KidPlace(d, x, i)
<1>3. x \in Levels(d)[m - 1]  BY <1>1, <1>2
<1>4. m \in 1..(MaxJsonDepth + 1) /\ m \in 0..(MaxJsonDepth + 1) /\ y = KidPlace(d, x, i)  BY <1>2
<1> HIDE DEF m, y
<1>5. y \in Levels(d)[m]  BY <1>3, <1>4, InLevel
<1>6. y \in Places(d)  BY <1>4, <1>5 DEF Places
<1> QED BY <1>6 DEF y

LEMMA KidFacts ==
  ASSUME NEW d, SourceOf(d), NEW x \in Places(d), NEW i, Inside(d, x, i)
  PROVE  /\ Len(KidPlace(d, x, i)[1]) = Len(x[1]) + 1 /\ KidPlace(d, x, i)[2] = d.kids[x[2]][i]
         /\ KidPlace(d, x, i)[1] = Append(x[1], i) /\ i \in Nat
         /\ KidPlace(d, x, i) # RootPlace /\ KidPlace(d, x, i) # x
<1> DEFINE y == KidPlace(d, x, i)
           k == Len(x[1])
<1>1. PlaceForm(d, x, k) /\ k \in Nat  BY PlacesAre DEF PlaceAt
<1> HIDE DEF k
<1>2. PlaceForm(d, y, k + 1) /\ y[1] = Append(x[1], i) /\ y[2] = d.kids[x[2]][i] /\ i \in Nat  BY <1>1, KidIs
<1> HIDE DEF y
<1>3. Len(y[1]) = k + 1  BY <1>2 DEF PlaceForm
<1>4. y # RootPlace  BY <1>1, <1>3, RootIn
<1>5. y # x  BY <1>1, <1>3 DEF k
<1> QED BY <1>2, <1>3, <1>4, <1>5 DEF y, k

\* A place is the kid of one place, at one index.
LEMMA KidSame ==
  ASSUME NEW d, SourceOf(d), NEW x \in Places(d), NEW y \in Places(d), NEW i, NEW j, Inside(d, x, i), Inside(d, y, j),
         KidPlace(d, x, i) = KidPlace(d, y, j)
  PROVE  x = y /\ i = j
<1> DEFINE p == x[1]
           q == y[1]
<1>a. KidPlace(d, x, i)[1] = Append(p, i) /\ i \in Nat  BY KidFacts, SMTT(30)
<1>b. KidPlace(d, y, j)[1] = Append(q, j) /\ j \in Nat  BY KidFacts, SMTT(30)
<1>1. Append(p, i) = Append(q, j) /\ i \in Nat /\ j \in Nat  BY <1>a, <1>b, Zenon
<1>2. PlaceAt(d, x) /\ PlaceAt(d, y)  BY PlacesAre
<1>3. p \in Seq(Nat) /\ q \in Seq(Nat)  BY <1>2 DEF PlaceAt, PlaceForm
<1>4. x \in Levels(d)[Len(p)] /\ y \in Levels(d)[Len(q)] /\ Len(p) \in 0..(MaxJsonDepth + 1)  BY <1>2 DEF PlaceAt
<1>5. \A k \in 0..(MaxJsonDepth + 1) : \A u, v \in Levels(d)[k] : u[1] = v[1] => u = v  BY LevelsGood DEF LevelGood
<1> HIDE DEF p, q
<1>6. p = q /\ i = j  BY <1>1, <1>3, AppendSame
<1>7. x \in Levels(d)[Len(p)] /\ y \in Levels(d)[Len(p)]  BY <1>4, <1>6
<1>8. x[1] = y[1]  BY <1>6 DEF p, q
<1> QED BY <1>4, <1>5, <1>6, <1>7, <1>8

LEMMA ParentIn ==
  ASSUME NEW d, SourceOf(d), NEW y \in Places(d), y # RootPlace
  PROVE  \E x \in Places(d) : \E i : Inside(d, x, i) /\ y = KidPlace(d, x, i)
<1> DEFINE k == Len(y[1])
<1>1. y \in Levels(d)[k] /\ k \in 0..(MaxJsonDepth + 1)  BY PlacesAre DEF PlaceAt
<1>2. Levels(d)[0] = {RootPlace}  BY LevelsAre DEF LevelsOf
<1> HIDE DEF k
<1>3. k \in 1..(MaxJsonDepth + 1) /\ k - 1 \in 0..(MaxJsonDepth + 1)  BY <1>1, <1>2, PricedAssumption
<1>4. PICK x \in Levels(d)[k - 1] : \E i : Inside(d, x, i) /\ y = KidPlace(d, x, i)  BY <1>1, <1>3, InLevel
<1>5. x \in Places(d)  BY <1>3, <1>4 DEF Places
<1> QED BY <1>4, <1>5

LEMMA PlacesFinite ==
  ASSUME NEW d, SourceOf(d)
  PROVE  IsFiniteSet(Places(d))
<1> DEFINE D == 0..(MaxJsonDepth + 1)
           S == {Levels(d)[k] : k \in D}
           f == [k \in D |-> Levels(d)[k]]
<1>1. f \in [D -> S] /\ \A t \in S : \E k \in D : f[k] = t
  <2> HIDE DEF D
  <2> QED OBVIOUS
<1>2. IsFiniteSet(D)
  <2> DEFINE b == MaxJsonDepth + 1
  <2>1. 0 \in Int /\ b \in Int  BY PricedAssumption
  <2> HIDE DEF b
  <2>2. IsFiniteSet(0..b)  BY <2>1, FS_Interval
  <2> QED BY <2>2 DEF b
<1>3. \A T \in S : IsFiniteSet(T)  BY LevelsGood DEF LevelGood
<1>4. Places(d) = UNION S  BY DEF Places
<1> HIDE DEF f, S, D
<1>5. IsFiniteSet(S)  BY <1>1, <1>2, ImageFinite
<1>6. IsFiniteSet(UNION S)  BY <1>3, <1>5, FS_UNION
<1> QED BY <1>4, <1>6

\* A set that holds the root and, of every place in it, the kids, holds every place.
LEMMA ClosedIsAll ==
  ASSUME NEW d, SourceOf(d), NEW S, RootPlace \in S,
         \A x \in S : \A i : Inside(d, x, i) => KidPlace(d, x, i) \in S
  PROVE  Places(d) \subseteq S
<1> DEFINE n == MaxJsonDepth + 1
           G == {k \in 0..n : Levels(d)[k] \subseteq S}
<1>0. n \in Nat  BY PricedAssumption
<1>1. 0 \in G
  <2>1. Levels(d)[0] = {RootPlace}  BY LevelsAre DEF LevelsOf
  <2>2. 0 \in 0..n  BY <1>0
  <2> QED BY <2>1, <2>2
<1>2. ASSUME NEW k \in 0..(n - 1), k \in G PROVE k + 1 \in G
  <2>0. k + 1 \in 1..(MaxJsonDepth + 1) /\ (k + 1) - 1 = k /\ k + 1 \in 0..n  BY <1>0
  <2>1. ASSUME NEW y \in Levels(d)[k + 1] PROVE y \in S
    <3>1. \E x \in Levels(d)[(k + 1) - 1] : \E i : Inside(d, x, i) /\ y = KidPlace(d, x, i)  BY <2>0, InLevel
    <3>2. PICK x \in Levels(d)[k] : \E i : Inside(d, x, i) /\ y = KidPlace(d, x, i)  BY <2>0, <3>1
    <3>3. x \in S  BY <1>2
    <3> QED BY <3>2, <3>3
  <2> QED BY <2>0, <2>1
<1>3. \A k \in 0..n : k \in G
  <2> HIDE DEF G, n
  <2> QED BY <1>0, <1>1, <1>2, UpTo
<1> QED BY <1>3 DEF Places

\* Places that always go on reach the level past the limit.
LEMMA DeepIsReached ==
  ASSUME NEW d, SourceOf(d), NEW S, S \subseteq Places(d), NEW r \in S,
         \A x \in S : Len(x[1]) <= MaxJsonDepth => \E i : Inside(d, x, i) /\ KidPlace(d, x, i) \in S
  PROVE  \E x \in S : Len(x[1]) > MaxJsonDepth
<1> DEFINE n == MaxJsonDepth + 1
           G == {k \in 0..n : \E x \in S : Len(x[1]) >= k}
<1>0. n \in Nat  BY PricedAssumption
<1>1. 0 \in G
  <2>1. Len(r[1]) \in Nat  BY PlacesAre DEF PlaceAt
  <2>2. 0 \in 0..n  BY <1>0
  <2> QED BY <2>1, <2>2
<1>2. ASSUME NEW k \in 0..(n - 1), k \in G PROVE k + 1 \in G
  <2>1. PICK x \in S : Len(x[1]) >= k  BY <1>2
  <2>2. Len(x[1]) \in Nat /\ x \in Places(d)  BY <2>1, PlacesAre DEF PlaceAt
  <2>3. k + 1 \in 0..n /\ MaxJsonDepth \in Nat  BY <1>0, PricedAssumption
  <2>4. CASE Len(x[1]) <= MaxJsonDepth
    <3>1. PICK i : Inside(d, x, i) /\ KidPlace(d, x, i) \in S  BY <2>4
    <3>2. Len(KidPlace(d, x, i)[1]) = Len(x[1]) + 1  BY <2>2, <3>1, KidFacts
    <3>3. Len(KidPlace(d, x, i)[1]) >= k + 1  BY <2>1, <2>2, <3>2
    <3> QED BY <2>3, <3>1, <3>3
  <2>5. CASE Len(x[1]) > MaxJsonDepth
    <3>1. Len(x[1]) >= k + 1  BY <2>2, <2>3, <2>5
    <3> QED BY <2>1, <2>3, <3>1
  <2> QED BY <2>2, <2>3, <2>4, <2>5
<1>3. n \in G
  <2> HIDE DEF G, n
  <2>1. \A k \in 0..n : k \in G  BY <1>0, <1>1, <1>2, UpTo
  <2> QED BY <1>0, <2>1
<1>4. PICK x \in S : Len(x[1]) >= n  BY <1>3
<1>5. Len(x[1]) \in Nat  BY PlacesAre DEF PlaceAt
<1>6. Len(x[1]) > MaxJsonDepth  BY <1>4, <1>5, PricedAssumption
<1> QED BY <1>4, <1>6

(* The walk over a parsed text: the stack holds, one by one, places that are not seen yet. *)

Frames == [node : Nat, depth : Nat, next : Nat]

LEMMA FramesAre ==
  ASSUME NEW stack \in Seq(Frames), NEW i \in 1..Len(stack)
  PROVE  stack[i] \in Frames /\ stack[i].node \in Nat /\ stack[i].depth \in Nat /\ stack[i].next \in Nat
<1>1. stack[i] \in Frames  OBVIOUS
<1> DEFINE f == stack[i]
<1> HIDE DEF f
<1>2. f \in Frames  BY <1>1 DEF f
<1>3. f.node \in Nat /\ f.depth \in Nat /\ f.next \in Nat  BY <1>2 DEF Frames
<1> QED BY <1>1, <1>3 DEF f

\* W names the places the stack's frames stand for.
Parallel(d, stack, W) ==
  /\ stack \in Seq(Frames) /\ W \in Seq(Places(d)) /\ Len(W) = Len(stack)
  /\ \A i \in 1..Len(stack) : stack[i].node = W[i][2] /\ stack[i].depth = Len(W[i][1])
On(W, x) == \E i \in 1..Len(W) : W[i] = x

\* V, the places seen: count of them, within the limits, and reached from each other.
Within(d, x) == Len(x[1]) <= MaxJsonDepth /\ d.kind[x[2]] \in {"node", "leaf"}
HasParent(d, V, x) == x = RootPlace \/ \E v \in V : \E i : Inside(d, v, i) /\ x = KidPlace(d, v, i)
Seen(d, V, count) ==
  /\ V \subseteq Places(d) /\ IsFiniteSet(V) /\ Cardinality(V) = count /\ count \in Nat /\ count <= MaxJsonNodes
  /\ \A v \in V : Within(d, v) /\ HasParent(d, V, v)

LEMMA SeenAnother ==
  ASSUME NEW d, NEW V, NEW count, Seen(d, V, count), NEW x \in Places(d), x \notin V
  PROVE  /\ count + 1 <= MaxJsonNodes /\ Within(d, x) /\ HasParent(d, V, x) => Seen(d, V \cup {x}, count + 1)
         /\ IsFiniteSet(V \cup {x}) /\ Cardinality(V \cup {x}) = count + 1
<1>1. IsFiniteSet(V) /\ Cardinality(V) = count /\ count \in Nat  BY DEF Seen
<1>2. IsFiniteSet(V \cup {x}) /\ Cardinality(V \cup {x}) = count + 1  BY <1>1, FS_AddElement
<1>3. ASSUME NEW y, HasParent(d, V, y) PROVE HasParent(d, V \cup {x}, y)  BY <1>3 DEF HasParent
<1>4. ASSUME count + 1 <= MaxJsonNodes, Within(d, x), HasParent(d, V, x) PROVE Seen(d, V \cup {x}, count + 1)
  <2>1. V \cup {x} \subseteq Places(d) /\ count + 1 \in Nat  BY <1>1 DEF Seen
  <2>2. \A v \in V \cup {x} : Within(d, v) /\ HasParent(d, V, v)  BY <1>4 DEF Seen
  <2>3. \A v \in V \cup {x} : Within(d, v) /\ HasParent(d, V \cup {x}, v)  BY <1>3, <2>2
  <2> QED BY <1>2, <1>4, <2>1, <2>3 DEF Seen
<1> QED BY <1>2, <1>4

\* A kid of a place not seen is not seen, nor is it a place whose parent is seen.
LEMMA KidIsNew ==
  ASSUME NEW d, SourceOf(d), NEW V, V \subseteq Places(d), NEW x \in Places(d), x \notin V, NEW i, Inside(d, x, i)
  PROVE  ~HasParent(d, V, KidPlace(d, x, i))
<1> SUFFICES ASSUME HasParent(d, V, KidPlace(d, x, i)) PROVE FALSE  OBVIOUS
<1>1. KidPlace(d, x, i) # RootPlace  BY KidFacts
<1>2. PICK v \in V : \E j : Inside(d, v, j) /\ KidPlace(d, x, i) = KidPlace(d, v, j)  BY <1>1 DEF HasParent
<1>3. PICK j : Inside(d, v, j) /\ KidPlace(d, x, i) = KidPlace(d, v, j)  BY <1>2
<1>4. v \in Places(d)  OBVIOUS
<1>5. x = v  BY <1>3, <1>4, KidSame
<1> QED BY <1>5

\* Everything seen, the value is bounded; something seen or met that is outside the limits, it is not.
LEMMA AllSeenBounded ==
  ASSUME NEW d, SourceOf(d), NEW V, NEW count, Seen(d, V, count), RootPlace \in V,
         \A v \in V : \A i : Inside(d, v, i) => KidPlace(d, v, i) \in V
  PROVE  WellBounded(d) <=> ~d.large
<1>1. Places(d) \subseteq V  BY ClosedIsAll
<1>2. Places(d) = V  BY <1>1 DEF Seen
<1>3. Cardinality(Places(d)) <= MaxJsonNodes  BY <1>2 DEF Seen
<1>4. \A x \in Places(d) : Len(x[1]) <= MaxJsonDepth /\ d.kind[x[2]] \in {"node", "leaf"}  BY <1>2 DEF Seen, Within
<1> QED BY <1>3, <1>4 DEF WellBounded

LEMMA OutsideIsNot ==
  ASSUME NEW d, SourceOf(d), NEW V, NEW count, Seen(d, V, count), NEW x \in Places(d), x \notin V,
         count + 1 > MaxJsonNodes \/ ~Within(d, x)
  PROVE  ~WellBounded(d)
<1>1. CASE ~Within(d, x)  BY <1>1 DEF WellBounded, Within
<1>2. CASE count + 1 > MaxJsonNodes
  <2> DEFINE T == V \cup {x}
             P == Places(d)
  <2>1. IsFiniteSet(P)  BY PlacesFinite
  <2>2. T \subseteq P  BY DEF Seen
  <2>3. Cardinality(T) = count + 1  BY SeenAnother
  <2> HIDE DEF T, P
  <2>4. Cardinality(T) <= Cardinality(P) /\ Cardinality(P) \in Nat  BY <2>1, <2>2, FS_Subset, FS_CardinalityType
  <2>5. count \in Nat  BY DEF Seen
  <2>6. ~(Cardinality(P) <= MaxJsonNodes)  BY <1>2, <2>3, <2>4, <2>5, PricedAssumption
  <2> QED BY <2>6 DEF WellBounded, P
<1> QED BY <1>1, <1>2

\* Refused's condition, on the place.
LEMMA RefusedIs ==
  ASSUME NEW d, SourceOf(d), NEW x \in Places(d)
  PROVE  Within(d, x) <=> ~(Len(x[1]) > MaxJsonDepth \/ d.kind[x[2]] \in {"big", "odd"})
<1>1. PlaceAt(d, x)  BY PlacesAre
<1>2. x[2] \in DOMAIN d.kids /\ Len(x[1]) \in Nat  BY <1>1 DEF PlaceAt, PlaceForm
<1>3. d.kind[x[2]] \in {"node", "leaf", "big", "odd"}  BY <1>2 DEF SourceOf
<1> QED BY <1>2, <1>3, PricedAssumption DEF Within

TextHolds(d, stack, count, V, W) ==
  /\ Parallel(d, stack, W) /\ Seen(d, V, count)
  /\ \A i, j \in 1..Len(W) : W[i] = W[j] => i = j
  /\ \A i \in 1..Len(W) : W[i] \notin V /\ HasParent(d, V, W[i])
  /\ RootPlace \in V \/ On(W, RootPlace)
  /\ \A v \in V : \A i : Inside(d, v, i) => KidPlace(d, v, i) \in V \/ On(W, KidPlace(d, v, i))

\* c is a without its last, and then b.
Splice(c, a, b) ==
  /\ Len(c) = Len(a) - 1 + Len(b)
  /\ \A i \in 1..Len(c) : \/ i \in 1..(Len(a) - 1) /\ c[i] = a[i]
                          \/ i - (Len(a) - 1) \in 1..Len(b) /\ c[i] = b[i - (Len(a) - 1)]
  /\ \A i \in 1..(Len(a) - 1) : i \in 1..Len(c) /\ c[i] = a[i]
  /\ \A j \in 1..Len(b) : \E i \in 1..Len(c) : i = Len(a) - 1 + j /\ c[i] = b[j]

LEMMA SpliceIs ==
  ASSUME NEW A, NEW a \in Seq(A), NEW b \in Seq(A), Len(a) > 0
  PROVE  SubSeq(a, 1, Len(a) - 1) \o b \in Seq(A) /\ Splice(SubSeq(a, 1, Len(a) - 1) \o b, a, b)
<1> DEFINE s == SubSeq(a, 1, Len(a) - 1)
           k == Len(a) - 1
           c == s \o b
<1>1. k \in Nat /\ Len(b) \in Nat /\ Len(a) = k + 1  OBVIOUS
<1>2. s \in Seq(A) /\ Len(s) = k /\ \A i \in 1..k : s[i] = a[i]  BY ButLast
<1> HIDE DEF s, k
<1>3. c \in Seq(A) /\ Len(c) = k + Len(b)  BY <1>1, <1>2
<1>4. \A i \in 1..Len(c) : c[i] = IF i <= k THEN s[i] ELSE b[i - k]  BY <1>1, <1>2
<1> HIDE DEF c
<1>5. \A i \in 1..Len(c) : \/ i \in 1..k /\ c[i] = a[i]
                           \/ i - k \in 1..Len(b) /\ c[i] = b[i - k]  BY <1>1, <1>2, <1>3, <1>4
<1>6. \A i \in 1..k : i \in 1..Len(c) /\ c[i] = a[i]  BY <1>1, <1>2, <1>3, <1>4
<1>7. ASSUME NEW j \in 1..Len(b) PROVE \E i \in 1..Len(c) : i = k + j /\ c[i] = b[j]
  <2>1. k + j \in 1..Len(c) /\ ~(k + j <= k) /\ (k + j) - k = j  BY <1>1, <1>3
  <2>2. c[k + j] = b[j]  BY <1>4, <2>1
  <2> QED BY <2>1, <2>2
<1>8. Splice(c, a, b)  BY <1>1, <1>3, <1>5, <1>6, <1>7 DEF Splice, k
<1> QED BY <1>3, <1>8 DEF c, s, k

\* The frames of a place's kids.
Pushed(d, x, pushed) ==
  /\ pushed \in Seq(Frames) /\ Len(pushed) = Len(d.kids[x[2]])
  /\ \A i \in 1..Len(pushed) : pushed[i].node = d.kids[x[2]][i] /\ pushed[i].depth = Len(x[1]) + 1

LEMMA TextGoesOn ==
  ASSUME NEW d, SourceOf(d), NEW stack, NEW count, NEW V, NEW W, TextHolds(d, stack, count, V, W), Len(stack) > 0,
         NEW x, x = W[Len(stack)], count + 1 <= MaxJsonNodes, Within(d, x),
         NEW pushed, Pushed(d, x, pushed), NEW stack2, stack2 \in Seq(Frames), Splice(stack2, stack, pushed)
  PROVE  \E V2, W2 : TextHolds(d, stack2, count + 1, V2, W2)
<1> DEFINE kids == d.kids[x[2]]
           new == [i \in 1..Len(kids) |-> KidPlace(d, x, i)]
           W2 == SubSeq(W, 1, Len(W) - 1) \o new
           V2 == V \cup {x}
<1>0. Len(pushed) = Len(d.kids[x[2]]) /\ \A i \in 1..Len(pushed) : pushed[i].node = d.kids[x[2]][i] /\ pushed[i].depth = Len(x[1]) + 1
  BY DEF Pushed
<1>1. Parallel(d, stack, W) /\ Seen(d, V, count)  BY DEF TextHolds
<1>2. /\ W \in Seq(Places(d)) /\ Len(W) = Len(stack) /\ Len(W) > 0 /\ Len(W) \in Nat /\ Len(W) \in 1..Len(W)
      /\ V \subseteq Places(d)
  BY <1>1 DEF Parallel, Seen
<1>3. x \in Places(d) /\ x = W[Len(W)] /\ x \notin V /\ HasParent(d, V, x)
  <2>1. x = W[Len(W)]  BY <1>2
  <2>2. W[Len(W)] \in Places(d)  BY <1>2
  <2>3. W[Len(W)] \notin V /\ HasParent(d, V, W[Len(W)])  BY <1>2 DEF TextHolds
  <2> QED BY <2>1, <2>2, <2>3
<1>5. kids \in Seq(Nat) /\ DOMAIN kids = 1..Len(kids) /\ Len(kids) \in Nat  BY <1>3, KidsAre
<1>6. \A i : i \in 1..Len(kids) <=> Inside(d, x, i)  BY <1>5 DEF Inside
<1> HIDE DEF kids
<1>7. \A i \in 1..Len(kids) : KidPlace(d, x, i) \in Places(d)
  <2>1. Len(x[1]) <= MaxJsonDepth  BY DEF Within
  <2> QED BY <1>3, <1>6, <2>1, KidIn
<1>8. new \in Seq(Places(d)) /\ Len(new) = Len(kids) /\ \A i \in 1..Len(kids) : new[i] = KidPlace(d, x, i)
  BY <1>5, <1>7
<1> HIDE DEF new
<1>9. W2 \in Seq(Places(d)) /\ Splice(W2, W, new)  BY <1>2, <1>8, SpliceIs
<1> HIDE DEF W2, V2
<1>10. Seen(d, V2, count + 1)  BY <1>1, <1>3, SeenAnother DEF V2
<1>11. \A i \in 1..Len(W2) : \/ i \in 1..(Len(W) - 1) /\ W2[i] = W[i]
                             \/ \E j \in 1..Len(kids) : i = Len(W) - 1 + j /\ W2[i] = KidPlace(d, x, j)
  <2> TAKE i \in 1..Len(W2)
  <2> DEFINE j == i - (Len(W) - 1)
  <2>1. \/ i \in 1..(Len(W) - 1) /\ W2[i] = W[i]
        \/ j \in 1..Len(new) /\ W2[i] = new[j]  BY <1>9 DEF Splice
  <2>2. i = Len(W) - 1 + j  BY <1>2
  <2> HIDE DEF j
  <2> QED BY <1>8, <2>1, <2>2
<1>12. \A i \in 1..(Len(W) - 1) : On(W2, W[i])
  <2> TAKE i \in 1..(Len(W) - 1)
  <2>1. i \in 1..Len(W2) /\ W2[i] = W[i]  BY <1>9 DEF Splice
  <2> QED BY <2>1 DEF On
<1>13. \A j \in 1..Len(kids) : On(W2, KidPlace(d, x, j))
  <2> TAKE j \in 1..Len(kids)
  <2>1. j \in 1..Len(new) /\ new[j] = KidPlace(d, x, j)  BY <1>8
  <2>2. \E i \in 1..Len(W2) : W2[i] = new[j]  BY <1>9, <2>1 DEF Splice
  <2> QED BY <2>1, <2>2 DEF On
<1>14. \A y : On(W, y) => y = x \/ On(W2, y)
  <2> TAKE y
  <2> HAVE On(W, y)
  <2>1. PICK i \in 1..Len(W) : W[i] = y  BY DEF On
  <2>2. i = Len(W) \/ i \in 1..(Len(W) - 1)  BY <1>2
  <2>3. CASE i = Len(W)  BY <1>3, <2>1, <2>3
  <2>4. CASE i \in 1..(Len(W) - 1)
    <3>1. On(W2, W[i])  BY <1>12, <2>4
    <3> QED BY <2>1, <3>1
  <2> QED BY <2>2, <2>3, <2>4
<1>15. \A y : HasParent(d, V, y) => HasParent(d, V2, y)  BY DEF HasParent, V2
<1>16. ASSUME NEW i \in 1..Len(W2) PROVE W2[i] \notin V2 /\ HasParent(d, V2, W2[i])
  <2>1. CASE i \in 1..(Len(W) - 1) /\ W2[i] = W[i]
    <3>1. i \in 1..Len(W) /\ i # Len(W)  BY <1>2, <2>1
    <3>2. W[i] \notin V /\ HasParent(d, V, W[i])  BY <3>1 DEF TextHolds
    <3>3. W[i] # x  BY <1>2, <1>3, <3>1 DEF TextHolds
    <3> QED BY <1>15, <2>1, <3>2, <3>3 DEF V2
  <2>2. ASSUME NEW j \in 1..Len(kids), W2[i] = KidPlace(d, x, j) PROVE W2[i] \notin V2 /\ HasParent(d, V2, W2[i])
    <3> DEFINE y == KidPlace(d, x, j)
    <3>1. Inside(d, x, j)  BY <1>6
    <3>2. y # x  BY <1>3, <3>1, KidFacts
    <3>3. ~HasParent(d, V, y)  BY <1>2, <1>3, <3>1, KidIsNew
    <3>4. y = KidPlace(d, x, j) /\ x \in V2  BY DEF V2
    <3> HIDE DEF y
    <3>5. y \notin V  BY <1>1, <3>3 DEF Seen
    <3>6. HasParent(d, V2, y)  BY <3>1, <3>4 DEF HasParent
    <3> QED BY <2>2, <3>2, <3>4, <3>5, <3>6 DEF V2
  <2> QED BY <1>11, <2>1, <2>2
<1>17. ASSUME NEW i \in 1..Len(W2), NEW j \in 1..Len(W2), W2[i] = W2[j] PROVE i = j
  <2> DEFINE Old(k) == k \in 1..(Len(W) - 1) /\ W2[k] = W[k]
             New(k) == \E h \in 1..Len(kids) : k = Len(W) - 1 + h /\ W2[k] = KidPlace(d, x, h)
  <2>0. (Old(i) \/ New(i)) /\ (Old(j) \/ New(j))  BY <1>11
  <2>1. ASSUME NEW a \in 1..Len(W2), NEW b \in 1..Len(W2), Old(a), New(b) PROVE W2[a] # W2[b]
    <3>1. PICK h \in 1..Len(kids) : W2[b] = KidPlace(d, x, h)  BY <2>1
    <3>2. a \in 1..Len(W)  BY <1>2, <2>1
    <3>3. HasParent(d, V, W[a])  BY <3>2 DEF TextHolds
    <3>4. ~HasParent(d, V, KidPlace(d, x, h))
      <4>1. Inside(d, x, h)  BY <1>6
      <4> QED BY <1>2, <1>3, <4>1, KidIsNew
    <3> QED BY <2>1, <3>1, <3>3, <3>4
  <2>2. CASE Old(i) /\ Old(j)
    <3>1. i \in 1..(Len(W) - 1) /\ j \in 1..(Len(W) - 1) /\ W2[i] = W[i] /\ W2[j] = W[j]  BY <2>2, Zenon
    <3>2. i \in 1..Len(W) /\ j \in 1..Len(W)  BY <1>2, <3>1
    <3>3. W[i] = W[j]  BY <1>17, <3>1, Zenon
    <3> QED BY <3>2, <3>3 DEF TextHolds
  <2>3. CASE New(i) /\ New(j)
    <3>1. PICK h \in 1..Len(kids) : i = Len(W) - 1 + h /\ W2[i] = KidPlace(d, x, h)  BY <2>3
    <3>2. PICK g \in 1..Len(kids) : j = Len(W) - 1 + g /\ W2[j] = KidPlace(d, x, g)  BY <2>3
    <3>3. KidPlace(d, x, h) = KidPlace(d, x, g) /\ Inside(d, x, h) /\ Inside(d, x, g)  BY <1>6, <1>17, <3>1, <3>2
    <3>4. h = g  BY <1>3, <3>3, KidSame
    <3> QED BY <3>1, <3>2, <3>4
  <2> HIDE DEF Old, New
  <2> QED BY <1>17, <2>0, <2>1, <2>2, <2>3
<1>18. RootPlace \in V2 \/ On(W2, RootPlace)  BY <1>14 DEF TextHolds, V2
<1>19. ASSUME NEW v \in V2, NEW i, Inside(d, v, i) PROVE KidPlace(d, v, i) \in V2 \/ On(W2, KidPlace(d, v, i))
  <2>1. CASE v = x
    <3>1. i \in 1..Len(kids)  BY <1>6, <1>19, <2>1
    <3> QED BY <1>13, <2>1, <3>1
  <2>2. CASE v \in V
    <3>1. KidPlace(d, v, i) \in V \/ On(W, KidPlace(d, v, i))  BY <1>19, <2>2 DEF TextHolds
    <3> QED BY <1>14, <3>1 DEF V2
  <2> QED BY <2>1, <2>2 DEF V2
<1>20. Parallel(d, stack2, W2)
  <2>1. Len(pushed) = Len(kids) /\ Len(new) = Len(pushed)  BY <1>0, <1>8 DEF kids
  <2>2. Len(W2) = Len(stack2)
    <3>1. Len(W2) = Len(W) - 1 + Len(new) /\ Len(stack2) = Len(stack) - 1 + Len(pushed)  BY <1>9 DEF Splice
    <3> QED BY <1>2, <2>1, <3>1
  <2>3. ASSUME NEW i \in 1..Len(stack2) PROVE stack2[i].node = W2[i][2] /\ stack2[i].depth = Len(W2[i][1])
    <3> DEFINE j == i - (Len(W) - 1)
    <3>1. \/ i \in 1..(Len(W) - 1) /\ stack2[i] = stack[i]
          \/ j \in 1..Len(pushed) /\ stack2[i] = pushed[j]  BY <1>2 DEF Splice
    <3>2. \/ i \in 1..(Len(W) - 1) /\ W2[i] = W[i]
          \/ j \in 1..Len(new) /\ W2[i] = new[j]  BY <1>9, <2>2 DEF Splice
    <3>3. ~(i \in 1..(Len(W) - 1) /\ j \in 1..Len(pushed))  BY <1>2
    <3> HIDE DEF j
    <3>4. CASE i \in 1..(Len(W) - 1)
      <4>1. stack2[i] = stack[i] /\ W2[i] = W[i]  BY <2>1, <3>1, <3>2, <3>3, <3>4
      <4>2. i \in 1..Len(stack)  BY <1>2, <3>4
      <4>3. stack[i].node = W[i][2] /\ stack[i].depth = Len(W[i][1])  BY <1>1, <4>2 DEF Parallel
      <4> QED BY <4>1, <4>3
    <3>5. CASE i \notin 1..(Len(W) - 1)
      <4>1. j \in 1..Len(pushed) /\ stack2[i] = pushed[j] /\ W2[i] = new[j]  BY <3>1, <3>2, <3>5
      <4>2. j \in 1..Len(kids) /\ new[j] = KidPlace(d, x, j) /\ Inside(d, x, j)  BY <1>6, <1>8, <2>1, <4>1
      <4>3. pushed[j].node = kids[j] /\ pushed[j].depth = Len(x[1]) + 1  BY <1>0, <4>1 DEF kids
      <4>4. Len(KidPlace(d, x, j)[1]) = Len(x[1]) + 1 /\ KidPlace(d, x, j)[2] = d.kids[x[2]][j]  BY <1>3, <4>2, KidFacts, SMTT(30)
      <4>5. Len(new[j][1]) = Len(x[1]) + 1 /\ new[j][2] = kids[j]  BY <4>2, <4>4, Zenon DEF kids
      <4> QED BY <4>1, <4>3, <4>5
    <3> QED BY <3>4, <3>5
  <2> QED BY <1>9, <2>2, <2>3 DEF Parallel
<1>21. TextHolds(d, stack2, count + 1, V2, W2)  BY <1>10, <1>16, <1>17, <1>18, <1>19, <1>20 DEF TextHolds
<1> QED BY <1>21

(* The walk over an object: the stack is the path to the place being written.  V is what was entered; *)
(* of a place on the path the kids up to its frame's next are done, the others are not entered yet.  *)

PathHolds(d, stack, W) ==
  /\ Parallel(d, stack, W) /\ (Len(W) > 0 => W[1] = RootPlace)
  /\ \A i \in 1..Len(W) : stack[i].next \in 0..Len(d.kids[W[i][2]])
  /\ \A i \in 1..(Len(W) - 1) : /\ stack[i].next > 0 /\ Inside(d, W[i], stack[i].next)
                                /\ W[i + 1] = KidPlace(d, W[i], stack[i].next)
Later(stack, W, v, i) == \E k \in 1..Len(W) : v = W[k] /\ i > stack[k].next
NotYet(d, stack, V, W) == \A k \in 1..Len(W) : \A i : Inside(d, W[k], i) /\ i > stack[k].next => KidPlace(d, W[k], i) \notin V

ObjectHolds(d, stack, count, V, W) ==
  /\ PathHolds(d, stack, W) /\ Seen(d, V, count) /\ NotYet(d, stack, V, W)
  /\ Len(W) = 0 => RootPlace \in V
  /\ \A i \in 1..Len(W) : W[i] \in V <=> stack[i].next > 0
  /\ \A v \in V : \A i : Inside(d, v, i) =>
       KidPlace(d, v, i) \in V \/ Later(stack, W, v, i) \/ (Len(W) > 0 /\ KidPlace(d, v, i) = W[Len(W)])

\* Once the value at the top has been entered.
Entered(d, stack, count, V, W) ==
  /\ PathHolds(d, stack, W) /\ Seen(d, V, count) /\ NotYet(d, stack, V, W)
  /\ \A i \in 1..Len(W) : W[i] \in V
  /\ \A v \in V : \A i : Inside(d, v, i) => KidPlace(d, v, i) \in V \/ Later(stack, W, v, i)

\* The depth of a place on the path is its index, so the path does not meet itself.
LEMMA PathDepth ==
  ASSUME NEW d, SourceOf(d), NEW stack, NEW W, PathHolds(d, stack, W)
  PROVE  \A i \in 1..Len(W) : W[i] \in Places(d) /\ Len(W[i][1]) = i - 1
<1>1. W \in Seq(Places(d)) /\ Len(W) \in Nat  BY DEF PathHolds, Parallel
<1>2. \A i \in 1..Len(W) : W[i] \in Places(d)  BY <1>1
<1> SUFFICES ASSUME Len(W) > 0 PROVE \A i \in 1..Len(W) : Len(W[i][1]) = i - 1  BY <1>1, <1>2
<1> DEFINE n == Len(W) - 1
           G == {k \in 0..n : Len(W[k + 1][1]) = k}
<1>3. n \in Nat  BY <1>1
<1>4. 0 \in G
  <2>1. W[1] = RootPlace /\ Len(RootPlace[1]) = 0  BY RootIn DEF PathHolds
  <2>2. 0 \in 0..n /\ 0 + 1 = 1  BY <1>3
  <2> QED BY <2>1, <2>2
<1>5. ASSUME NEW k \in 0..(n - 1), k \in G PROVE k + 1 \in G
  <2> DEFINE i == k + 1
  <2>1. i \in 1..(Len(W) - 1) /\ i \in 1..Len(W) /\ i \in 0..n  BY <1>1
  <2>2. Len(W[i][1]) = k  BY <1>5
  <2> HIDE DEF i
  <2>3. Inside(d, W[i], stack[i].next) /\ W[i + 1] = KidPlace(d, W[i], stack[i].next)  BY <2>1 DEF PathHolds
  <2>4. Len(W[i + 1][1]) = Len(W[i][1]) + 1
    <3> DEFINE x == W[i]
               m == stack[i].next
    <3>1. x \in Places(d) /\ Inside(d, x, m)  BY <1>2, <2>1, <2>3
    <3> HIDE DEF x, m
    <3>2. Len(KidPlace(d, x, m)[1]) = Len(x[1]) + 1  BY <3>1, KidFacts
    <3> QED BY <2>3, <3>2 DEF x, m
  <2>5. Len(W[i + 1][1]) = i  BY <2>2, <2>4 DEF i
  <2>6. i \in G  BY <2>1, <2>5
  <2> QED BY <2>6 DEF i
<1>6. \A k \in 0..n : k \in G
  <2> HIDE DEF n, G
  <2> QED BY <1>3, <1>4, <1>5, UpTo
<1>7. ASSUME NEW i \in 1..Len(W) PROVE Len(W[i][1]) = i - 1
  <2>1. i - 1 \in 0..n /\ (i - 1) + 1 = i  BY <1>1
  <2>2. i - 1 \in G  BY <1>6, <2>1
  <2> QED BY <2>1, <2>2
<1> QED BY <1>7

LEMMA PathFree ==
  ASSUME NEW d, SourceOf(d), NEW stack, NEW W, PathHolds(d, stack, W)
  PROVE  \A i, j \in 1..Len(W) : W[i] = W[j] => i = j
<1> SUFFICES ASSUME NEW i \in 1..Len(W), NEW j \in 1..Len(W), W[i] = W[j] PROVE i = j  OBVIOUS
<1>1. Len(W[i][1]) = i - 1 /\ Len(W[j][1]) = j - 1  BY PathDepth
<1>2. Len(W[i][1]) = Len(W[j][1])  OBVIOUS
<1>3. i - 1 = j - 1  BY <1>1, <1>2
<1> QED BY <1>3

\* The top's kids to come, and those of the path, are not the top.
LEMMA TopIsDone ==
  ASSUME NEW d, SourceOf(d), NEW stack, NEW W, PathHolds(d, stack, W), Len(W) > 0,
         NEW k \in 1..Len(W), NEW i, Inside(d, W[k], i), i > stack[k].next
  PROVE  KidPlace(d, W[k], i) # W[Len(W)]
<1> SUFFICES ASSUME KidPlace(d, W[k], i) = W[Len(W)] PROVE FALSE  OBVIOUS
<1>0. Len(W) \in Nat /\ stack \in Seq(Frames) /\ Len(stack) = Len(W)  BY DEF PathHolds, Parallel
<1>1. W[k] \in Places(d) /\ Len(W[k][1]) = k - 1  BY PathDepth
<1>2. Len(KidPlace(d, W[k], i)[1]) = Len(W[k][1]) + 1 /\ i \in Nat  BY <1>1, KidFacts
<1>3. Len(W) \in 1..Len(W)  BY <1>0
<1>4. Len(W[Len(W)][1]) = Len(W) - 1  BY <1>3, PathDepth
<1>5. k = Len(W) - 1  BY <1>0, <1>1, <1>2, <1>4
<1>6. k \in 1..(Len(W) - 1) /\ k + 1 = Len(W)  BY <1>0, <1>5
<1>7. Inside(d, W[k], stack[k].next) /\ W[Len(W)] = KidPlace(d, W[k], stack[k].next)  BY <1>6 DEF PathHolds
<1> DEFINE x == W[k]
           m == stack[k].next
<1>8. x \in Places(d) /\ Inside(d, x, i) /\ Inside(d, x, m) /\ KidPlace(d, x, i) = KidPlace(d, x, m)  BY <1>1, <1>7
<1> HIDE DEF x, m
<1>9. i = m  BY <1>8, KidSame
<1>10. stack[k].next \in Nat
  <2>1. k \in 1..Len(stack)  BY <1>0
  <2> QED BY <1>0, <2>1, FramesAre
<1> QED BY <1>2, <1>9, <1>10 DEF m

LEMMA Enters ==
  ASSUME NEW d, SourceOf(d), NEW stack, NEW count, NEW V, NEW W, ObjectHolds(d, stack, count, V, W), Len(W) > 0,
         NEW x, x = W[Len(W)], NEW count2, count2 \in Nat,
         IF stack[Len(W)].next = 0 THEN count2 = count + 1 /\ count2 <= MaxJsonNodes /\ Within(d, x) ELSE count2 = count
  PROVE  Entered(d, stack, count2, V \cup {x}, W)
<1> DEFINE L == Len(W)
           V2 == V \cup {x}
<1>1. PathHolds(d, stack, W) /\ Seen(d, V, count) /\ NotYet(d, stack, V, W)  BY DEF ObjectHolds
<1>2. L \in Nat /\ L \in 1..L /\ Len(stack) = L /\ stack \in Seq(Frames)  BY <1>1 DEF PathHolds, Parallel
<1>3. x \in Places(d)  BY <1>1, <1>2, PathDepth
<1>4. \A i \in 1..L : stack[i].next \in Nat
  <2> TAKE i \in 1..L
  <2>1. i \in 1..Len(stack)  BY <1>2
  <2> QED BY <1>2, <2>1, FramesAre
<1>5. \A i \in 1..(L - 1) : stack[i].next > 0  BY <1>1 DEF PathHolds
<1>6. \A i \in 1..L : W[i] \in V2
  <2> TAKE i \in 1..L
  <2>1. i = L \/ i \in 1..(L - 1)  BY <1>2
  <2>2. CASE i \in 1..(L - 1)
    <3>1. W[i] \in V  BY <1>5, <2>2 DEF ObjectHolds
    <3> QED BY <3>1
  <2> QED BY <2>1, <2>2
<1>7. HasParent(d, V, x)
  <2>1. CASE L = 1
    <3>1. x = RootPlace  BY <1>1, <2>1 DEF PathHolds
    <3> QED BY <3>1 DEF HasParent
  <2>2. CASE L # 1
    <3> DEFINE k == L - 1
    <3>1. k \in 1..(L - 1) /\ k + 1 = L /\ k \in 1..L  BY <1>2, <2>2
    <3> HIDE DEF k
    <3>2. Inside(d, W[k], stack[k].next) /\ W[k + 1] = KidPlace(d, W[k], stack[k].next)  BY <1>1, <3>1 DEF PathHolds
    <3>3. W[k] \in V  BY <1>5, <3>1 DEF ObjectHolds
    <3>4. x = W[k + 1]  BY <3>1
    <3> QED BY <3>2, <3>3, <3>4 DEF HasParent
  <2> QED BY <2>1, <2>2
<1>8. Seen(d, V2, count2)
  <2>1. CASE stack[L].next = 0
    <3>1. x \notin V  BY <1>2, <2>1 DEF ObjectHolds
    <3>2. count2 = count + 1 /\ count + 1 <= MaxJsonNodes /\ Within(d, x)  BY <2>1
    <3>3. Seen(d, V \cup {x}, count + 1)  BY <1>1, <1>3, <1>7, <3>1, <3>2, SeenAnother
    <3> QED BY <3>2, <3>3
  <2>2. CASE stack[L].next # 0
    <3>1. stack[L].next > 0  BY <1>2, <1>4, <2>2
    <3>2. x \in V  BY <1>2, <3>1 DEF ObjectHolds
    <3>3. V2 = V  BY <3>2
    <3> QED BY <1>1, <2>2, <3>3
  <2> QED BY <2>1, <2>2
<1>9. NotYet(d, stack, V2, W)
  <2> SUFFICES ASSUME NEW k \in 1..Len(W), NEW i, Inside(d, W[k], i), i > stack[k].next PROVE KidPlace(d, W[k], i) \notin V2
    BY DEF NotYet
  <2>1. KidPlace(d, W[k], i) \notin V  BY <1>1 DEF NotYet
  <2>2. KidPlace(d, W[k], i) # x  BY <1>1, TopIsDone
  <2> QED BY <2>1, <2>2
<1>10. ASSUME NEW v \in V2, NEW i, Inside(d, v, i) PROVE KidPlace(d, v, i) \in V2 \/ Later(stack, W, v, i)
  <2>1. CASE v \in V  BY <1>10, <2>1 DEF ObjectHolds
  <2>2. CASE v = x /\ v \notin V
    <3>1. ~(stack[L].next > 0)  BY <1>2, <2>2 DEF ObjectHolds
    <3>2. stack[L].next = 0  BY <1>2, <1>4, <3>1
    <3>3. i > 0
      <4>3. DOMAIN d.kids[x[2]] = 1..Len(d.kids[x[2]]) /\ Len(d.kids[x[2]]) \in Nat  BY <1>3, KidsAre
      <4>4. i \in 1..Len(d.kids[x[2]])  BY <1>10, <2>2, <4>3 DEF Inside
      <4> QED BY <4>3, <4>4
    <3> QED BY <1>2, <2>2, <3>2, <3>3 DEF Later
  <2> QED BY <2>1, <2>2
<1> HIDE DEF V2
<1>11. Entered(d, stack, count2, V2, W)  BY <1>1, <1>6, <1>8, <1>9, <1>10 DEF Entered
<1> QED BY <1>11 DEF V2

\* A value is written when its last kid is.
LEMMA Leaves ==
  ASSUME NEW d, SourceOf(d), NEW stack, NEW count, NEW V, NEW W, Entered(d, stack, count, V, W), Len(W) > 0,
         stack[Len(W)].next = Len(d.kids[W[Len(W)][2]])
  PROVE  ObjectHolds(d, SubSeq(stack, 1, Len(stack) - 1), count, V, SubSeq(W, 1, Len(W) - 1))
<1> DEFINE k == Len(W) - 1
           s == SubSeq(stack, 1, k)
           w == SubSeq(W, 1, k)
<1>1. PathHolds(d, stack, W) /\ Seen(d, V, count) /\ NotYet(d, stack, V, W)  BY DEF Entered
<1>2. Parallel(d, stack, W)  BY <1>1 DEF PathHolds
<1>3. stack \in Seq(Frames) /\ W \in Seq(Places(d)) /\ Len(stack) = Len(W) /\ Len(W) \in Nat  BY <1>2 DEF Parallel
<1>4. k \in Nat /\ Len(W) = k + 1 /\ \A i \in 1..k : i \in 1..Len(W)  BY <1>3
<1>5. s \in Seq(Frames) /\ Len(s) = k /\ \A i \in 1..k : s[i] = stack[i]
  <2>1. Len(stack) > 0 /\ k = Len(stack) - 1  BY <1>3
  <2> QED BY <1>3, <2>1, ButLast
<1>6. w \in Seq(Places(d)) /\ Len(w) = k /\ \A i \in 1..k : w[i] = W[i]  BY <1>3, ButLast
<1>7. s = SubSeq(stack, 1, Len(stack) - 1)  BY <1>3
<1>8. w = SubSeq(W, 1, Len(W) - 1)  OBVIOUS
<1> HIDE DEF s, w, k
<1>9. Parallel(d, s, w)
  <2>1. \A i \in 1..Len(s) : s[i].node = w[i][2] /\ s[i].depth = Len(w[i][1])
    <3> TAKE i \in 1..Len(s)
    <3>1. i \in 1..k /\ i \in 1..Len(stack)  BY <1>3, <1>4, <1>5
    <3>2. stack[i].node = W[i][2] /\ stack[i].depth = Len(W[i][1])  BY <1>2, <3>1 DEF Parallel
    <3> QED BY <1>5, <1>6, <3>1, <3>2
  <2> QED BY <1>5, <1>6, <2>1 DEF Parallel
<1>10. \A i \in 1..(k - 1) : i \in 1..k /\ i + 1 \in 1..k /\ i \in 1..(Len(W) - 1)  BY <1>4
<1>11. PathHolds(d, s, w)
  <2>1. Len(w) > 0 => w[1] = RootPlace
    <3> HAVE Len(w) > 0
    <3>1. 1 \in 1..k /\ Len(W) > 0  BY <1>4, <1>6
    <3>2. W[1] = RootPlace  BY <1>1, <3>1 DEF PathHolds
    <3> QED BY <1>6, <3>1, <3>2
  <2>2. \A i \in 1..Len(w) : s[i].next \in 0..Len(d.kids[w[i][2]])
    <3> TAKE i \in 1..Len(w)
    <3>1. i \in 1..k /\ i \in 1..Len(W)  BY <1>4, <1>6
    <3>2. stack[i].next \in 0..Len(d.kids[W[i][2]])  BY <1>1, <3>1 DEF PathHolds
    <3> QED BY <1>5, <1>6, <3>1, <3>2
  <2>3. \A i \in 1..(Len(w) - 1) : s[i].next > 0 /\ Inside(d, w[i], s[i].next) /\ w[i + 1] = KidPlace(d, w[i], s[i].next)
    <3> TAKE i \in 1..(Len(w) - 1)
    <3>1. i \in 1..k /\ i + 1 \in 1..k /\ i \in 1..(Len(W) - 1)  BY <1>6, <1>10
    <3>2. stack[i].next > 0 /\ Inside(d, W[i], stack[i].next) /\ W[i + 1] = KidPlace(d, W[i], stack[i].next)
      BY <1>1, <3>1 DEF PathHolds
    <3>3. s[i] = stack[i] /\ w[i] = W[i] /\ w[i + 1] = W[i + 1]  BY <1>5, <1>6, <3>1
    <3> QED BY <3>2, <3>3
  <2> QED BY <1>9, <2>1, <2>2, <2>3 DEF PathHolds
<1>12. NotYet(d, s, V, w)
  <2> SUFFICES ASSUME NEW j \in 1..Len(w), NEW i, Inside(d, w[j], i), i > s[j].next PROVE KidPlace(d, w[j], i) \notin V
    BY DEF NotYet
  <2>1. j \in 1..k /\ j \in 1..Len(W)  BY <1>4, <1>6
  <2>2. s[j] = stack[j] /\ w[j] = W[j]  BY <1>5, <1>6, <2>1
  <2>3. Inside(d, W[j], i) /\ i > stack[j].next  BY <2>2
  <2>4. KidPlace(d, W[j], i) \notin V  BY <1>1, <2>1, <2>3 DEF NotYet
  <2> QED BY <2>2, <2>4
<1>13. Len(w) = 0 => RootPlace \in V
  <2> HAVE Len(w) = 0
  <2>1. 1 \in 1..Len(W) /\ Len(W) > 0  BY <1>4
  <2>2. W[1] = RootPlace  BY <1>1, <2>1 DEF PathHolds
  <2>3. W[1] \in V  BY <2>1 DEF Entered
  <2> QED BY <2>2, <2>3
<1>14. \A i \in 1..Len(w) : w[i] \in V <=> s[i].next > 0
  <2> TAKE i \in 1..Len(w)
  <2>1. i \in 1..k /\ i \in 1..Len(W) /\ i \in 1..(Len(W) - 1)  BY <1>4, <1>6
  <2>2. W[i] \in V  BY <2>1 DEF Entered
  <2>3. stack[i].next > 0  BY <1>1, <2>1 DEF PathHolds
  <2>4. s[i] = stack[i] /\ w[i] = W[i]  BY <1>5, <1>6, <2>1
  <2> QED BY <2>2, <2>3, <2>4
<1>15. ASSUME NEW v \in V, NEW i, Inside(d, v, i) PROVE KidPlace(d, v, i) \in V \/ Later(s, w, v, i)
  <2> SUFFICES ASSUME Later(stack, W, v, i) PROVE Later(s, w, v, i)  BY <1>15 DEF Entered
  <2>1. PICK j \in 1..Len(W) : v = W[j] /\ i > stack[j].next  BY DEF Later
  <2>2. CASE j = Len(W)
    <3> DEFINE n == Len(d.kids[v[2]])
    <3>1. v \in Places(d)  BY <1>1 DEF Seen
    <3>4. DOMAIN d.kids[v[2]] = 1..n /\ n \in Nat  BY <3>1, KidsAre
    <3>5. i \in 1..n /\ n \in Nat  BY <1>15, <3>4 DEF Inside
    <3>6. stack[j].next = n  BY <2>1, <2>2
    <3> HIDE DEF n
    <3>7. i > n  BY <2>1, <3>6
    <3> QED BY <3>5, <3>7
  <2>3. CASE j # Len(W)
    <3>1. j \in 1..k /\ j \in 1..Len(w)  BY <1>4, <1>6, <2>3
    <3>2. s[j] = stack[j] /\ w[j] = W[j]  BY <1>5, <1>6, <3>1
    <3> QED BY <2>1, <3>1, <3>2 DEF Later
  <2> QED BY <2>2, <2>3
<1>16. ObjectHolds(d, s, count, V, w)  BY <1>1, <1>11, <1>12, <1>13, <1>14, <1>15 DEF ObjectHolds
<1> QED BY <1>7, <1>8, <1>16

\* A kid is entered next.
\* stack2 is stack with f, the top's frame at its next kid, and g, that kid's frame.
Descends(d, stack, W, x, stack2, f, g) ==
  /\ stack[Len(W)].next # Len(d.kids[x[2]])
  /\ stack2 \in Seq(Frames) /\ Len(stack2) = Len(W) + 1 /\ \A i \in 1..(Len(W) - 1) : stack2[i] = stack[i]
  /\ f \in Frames /\ g \in Frames /\ stack2[Len(W)] = f /\ stack2[Len(W) + 1] = g
  /\ f.node = stack[Len(W)].node /\ f.depth = stack[Len(W)].depth /\ f.next = stack[Len(W)].next + 1
  /\ g.node = d.kids[x[2]][stack[Len(W)].next + 1] /\ g.depth = stack[Len(W)].depth + 1 /\ g.next = 0

LEMMA GoesDown ==
  ASSUME NEW d, SourceOf(d), NEW stack, NEW count, NEW V, NEW W, Entered(d, stack, count, V, W), Len(W) > 0,
         NEW x, x = W[Len(W)], NEW stack2, NEW f, NEW g, Descends(d, stack, W, x, stack2, f, g)
  PROVE  \E W2 : ObjectHolds(d, stack2, count, V, W2)
<1> DEFINE L == Len(W)
           j == stack[L].next + 1
           y == KidPlace(d, x, j)
           W2 == Append(W, y)
<1>0. /\ stack[Len(W)].next # Len(d.kids[x[2]])
      /\ stack2 \in Seq(Frames) /\ Len(stack2) = Len(W) + 1 /\ \A i \in 1..(Len(W) - 1) : stack2[i] = stack[i]
      /\ f \in Frames /\ g \in Frames /\ stack2[Len(W)] = f /\ stack2[Len(W) + 1] = g
      /\ f.node = stack[Len(W)].node /\ f.depth = stack[Len(W)].depth /\ f.next = stack[Len(W)].next + 1
      /\ g.node = d.kids[x[2]][stack[Len(W)].next + 1] /\ g.depth = stack[Len(W)].depth + 1 /\ g.next = 0
  BY DEF Descends
<1>1. PathHolds(d, stack, W) /\ Seen(d, V, count) /\ NotYet(d, stack, V, W)  BY DEF Entered
<1>2. Parallel(d, stack, W)  BY <1>1 DEF PathHolds
<1>3. stack \in Seq(Frames) /\ W \in Seq(Places(d)) /\ Len(stack) = L /\ L \in Nat /\ L \in 1..L  BY <1>2 DEF Parallel
<1>4. x \in Places(d) /\ x \in V  BY <1>3 DEF Entered
<1>5. Len(x[1]) <= MaxJsonDepth  BY <1>1, <1>4 DEF Seen, Within
<1>6. Inside(d, x, j) /\ j > stack[L].next /\ j \in 1..Len(d.kids[x[2]]) /\ j \in Nat /\ stack[L].next \in Nat
  <2> DEFINE n == Len(d.kids[x[2]])
             m == stack[L].next
  <2>4. DOMAIN d.kids[x[2]] = 1..n /\ n \in Nat  BY <1>4, KidsAre
  <2>5. m \in 0..n  BY <1>1, <1>3 DEF PathHolds
  <2>6. m # n /\ j = m + 1  BY <1>0
  <2> HIDE DEF n, m, j
  <2>7. j \in 1..n /\ j > m /\ j \in Nat /\ m \in Nat  BY <2>4, <2>5, <2>6
  <2>8. Inside(d, x, j)  BY <2>4, <2>7 DEF Inside
  <2> QED BY <2>7, <2>8 DEF n, m
<1>7. y \in Places(d) /\ y # x /\ y # RootPlace /\ Len(y[1]) = Len(x[1]) + 1 /\ y[2] = d.kids[x[2]][j]
  <2>1. y \in Places(d)  BY <1>4, <1>5, <1>6, KidIn, Zenon
  <2> QED BY <1>4, <1>6, <2>1, KidFacts, SMTT(30)
<1>8. y \notin V
  <2>1. Inside(d, W[L], j)  BY <1>6
  <2>2. KidPlace(d, W[L], j) \notin V  BY <1>1, <1>3, <1>6, <2>1 DEF NotYet
  <2> QED BY <2>2
<1>9. f.node = stack[L].node /\ f.depth = stack[L].depth /\ f.next = j /\ stack2[L] = f /\ stack2[L + 1] = g /\ g.next = 0
      /\ g.node = y[2] /\ g.depth = stack[L].depth + 1
  BY <1>0, <1>7
<1> HIDE DEF j
<1>10. y = KidPlace(d, x, j)  OBVIOUS
<1> HIDE DEF y
<1>11. W2 \in Seq(Places(d)) /\ Len(W2) = L + 1 /\ W2[L + 1] = y /\ \A i \in 1..L : W2[i] = W[i]  BY <1>3, <1>7
<1> HIDE DEF W2
<1>12. \A i \in 1..(L + 1) : i \in 1..(L - 1) \/ i = L \/ i = L + 1  BY <1>3
<1>13. \A i \in 1..(L - 1) : i \in 1..L /\ stack2[i] = stack[i] /\ W2[i] = W[i]  BY <1>0, <1>3, <1>11
<1>14. W2[L] = x /\ x = W[L]  BY <1>3, <1>11
<1>15. Parallel(d, stack2, W2)
  <2>1. \A i \in 1..Len(stack2) : stack2[i].node = W2[i][2] /\ stack2[i].depth = Len(W2[i][1])
    <3>0. \A i \in 1..L : stack[i].node = W[i][2] /\ stack[i].depth = Len(W[i][1])  BY <1>2, <1>3 DEF Parallel
    <3> TAKE i \in 1..Len(stack2)
    <3>1. CASE i \in 1..(L - 1)  BY <1>13, <3>0, <3>1
    <3>2. CASE i = L  BY <1>3, <1>9, <1>14, <3>0, <3>2
    <3>3. CASE i = L + 1
      <4>1. stack[L].depth = Len(x[1])  BY <1>3, <1>14, <3>0
      <4>2. g.depth = Len(y[1])  BY <1>7, <1>9, <4>1
      <4> QED BY <1>9, <1>11, <3>3, <4>2
    <3> QED BY <1>0, <1>12, <3>1, <3>2, <3>3
  <2> QED BY <1>0, <1>3, <1>11, <2>1 DEF Parallel
<1>16. PathHolds(d, stack2, W2)
  <2>1. W2[1] = RootPlace
    <3>1. 1 \in 1..L /\ W[1] = RootPlace  BY <1>1, <1>3 DEF PathHolds
    <3> QED BY <1>11, <3>1
  <2>2. \A i \in 1..Len(W2) : stack2[i].next \in 0..Len(d.kids[W2[i][2]])
    <3>0. \A i \in 1..L : stack[i].next \in 0..Len(d.kids[W[i][2]])  BY <1>1 DEF PathHolds
    <3> TAKE i \in 1..Len(W2)
    <3>1. CASE i \in 1..(L - 1)  BY <1>13, <3>0, <3>1
    <3>2. CASE i = L
      <4>1. j \in 0..Len(d.kids[x[2]])  BY <1>6
      <4> QED BY <1>9, <1>14, <3>2, <4>1
    <3>3. CASE i = L + 1
      <4>1. Len(d.kids[y[2]]) \in Nat  BY <1>7, KidsAre
      <4>4. 0 \in 0..Len(d.kids[y[2]])  BY <4>1
      <4> QED BY <1>9, <1>11, <3>3, <4>4
    <3> QED BY <1>11, <1>12, <3>1, <3>2, <3>3
  <2>3. \A i \in 1..(Len(W2) - 1) : stack2[i].next > 0 /\ Inside(d, W2[i], stack2[i].next) /\ W2[i + 1] = KidPlace(d, W2[i], stack2[i].next)
    <3> TAKE i \in 1..(Len(W2) - 1)
    <3>1. i \in 1..(L - 1) \/ i = L  BY <1>3, <1>11
    <3>2. CASE i \in 1..(L - 1)
      <4>1. stack[i].next > 0 /\ Inside(d, W[i], stack[i].next) /\ W[i + 1] = KidPlace(d, W[i], stack[i].next)
        BY <1>1, <3>2 DEF PathHolds
      <4>2. i + 1 \in 1..L  BY <1>3, <3>2
      <4>3. W2[i + 1] = W[i + 1]  BY <1>11, <4>2
      <4> QED BY <1>13, <3>2, <4>1, <4>3
    <3>3. CASE i = L
      <4>1. j > 0  BY <1>6
      <4> QED BY <1>6, <1>9, <1>10, <1>11, <1>14, <3>3, <4>1
    <3> QED BY <3>1, <3>2, <3>3
  <2> QED BY <1>15, <2>1, <2>2, <2>3 DEF PathHolds
<1>17. NotYet(d, stack2, V, W2)
  <2> SUFFICES ASSUME NEW k \in 1..Len(W2), NEW i, Inside(d, W2[k], i), i > stack2[k].next PROVE KidPlace(d, W2[k], i) \notin V
    BY DEF NotYet
  <2>1. CASE k \in 1..(L - 1)
    <3>1. W2[k] = W[k] /\ stack2[k] = stack[k] /\ k \in 1..L  BY <1>13, <2>1
    <3>2. Inside(d, W[k], i) /\ i > stack[k].next  BY <3>1
    <3>3. KidPlace(d, W[k], i) \notin V  BY <1>1, <3>1, <3>2 DEF NotYet
    <3> QED BY <3>1, <3>3
  <2>2. CASE k = L
    <3>1. Inside(d, x, i) /\ i > j  BY <1>9, <1>14, <2>2
    <3>2. i \in Nat  BY <1>4, <3>1, KidFacts
    <3>3. i > stack[L].next  BY <1>6, <3>1, <3>2
    <3>4. KidPlace(d, W[L], i) \notin V  BY <1>1, <1>3, <1>14, <3>1, <3>3 DEF NotYet
    <3> QED BY <1>14, <2>2, <3>4
  <2>3. CASE k = L + 1
    <3>1. Inside(d, y, i) /\ W2[k] = y  BY <1>11, <2>3
    <3>2. V \subseteq Places(d)  BY <1>1 DEF Seen
    <3>3. ~HasParent(d, V, KidPlace(d, y, i))  BY <1>7, <1>8, <3>1, <3>2, KidIsNew
    <3>4. \A v \in V : HasParent(d, V, v)  BY <1>1 DEF Seen
    <3> QED BY <3>1, <3>3, <3>4
  <2> QED BY <1>11, <1>12, <2>1, <2>2, <2>3
<1>18. \A i \in 1..Len(W2) : W2[i] \in V <=> stack2[i].next > 0
  <2> TAKE i \in 1..Len(W2)
  <2>1. CASE i \in 1..(L - 1)
    <3>1. W[i] \in V  BY <1>13, <2>1 DEF Entered
    <3>2. stack[i].next > 0  BY <1>1, <2>1 DEF PathHolds
    <3> QED BY <1>13, <2>1, <3>1, <3>2
  <2>2. CASE i = L
    <3>1. j > 0  BY <1>6
    <3> QED BY <1>4, <1>9, <1>14, <2>2, <3>1
  <2>3. CASE i = L + 1  BY <1>8, <1>9, <1>11, <2>3
  <2> QED BY <1>11, <1>12, <2>1, <2>2, <2>3
<1>19. ASSUME NEW v \in V, NEW i, Inside(d, v, i)
       PROVE  KidPlace(d, v, i) \in V \/ Later(stack2, W2, v, i) \/ (Len(W2) > 0 /\ KidPlace(d, v, i) = W2[Len(W2)])
  <2> SUFFICES ASSUME Later(stack, W, v, i) PROVE Later(stack2, W2, v, i) \/ KidPlace(d, v, i) = W2[Len(W2)]
    BY <1>3, <1>11, <1>19 DEF Entered
  <2>1. PICK k \in 1..L : v = W[k] /\ i > stack[k].next  BY DEF Later
  <2>2. k = L \/ k \in 1..(L - 1)  BY <1>3
  <2>3. CASE k \in 1..(L - 1)
    <3>1. W2[k] = W[k] /\ stack2[k] = stack[k] /\ k \in 1..Len(W2)  BY <1>3, <1>11, <1>13, <2>3
    <3> QED BY <2>1, <3>1 DEF Later
  <2>4. CASE k = L
    <3>1. v = x /\ i > stack[L].next /\ i \in Nat  BY <1>4, <1>14, <1>19, <2>1, <2>4, KidFacts
    <3>2. i = j \/ i > j
      <4>1. j = stack[L].next + 1  BY DEF j
      <4> QED BY <1>6, <3>1, <4>1
    <3>3. CASE i = j  BY <1>10, <1>11, <3>1, <3>3
    <3>4. CASE i > j
      <4>1. L \in 1..Len(W2) /\ W2[L] = v /\ stack2[L].next = j  BY <1>3, <1>9, <1>11, <1>14, <3>1
      <4> QED BY <3>4, <4>1 DEF Later
    <3> QED BY <3>2, <3>3, <3>4
  <2> QED BY <2>2, <2>3, <2>4
<1>20. Len(W2) = 0 => RootPlace \in V  BY <1>3, <1>11
<1>21. ObjectHolds(d, stack2, count, V, W2)  BY <1>1, <1>16, <1>17, <1>18, <1>19, <1>20 DEF ObjectHolds
<1> QED BY <1>21

\* A value that contains itself has places below every limit.
LEMMA AgainIsNot ==
  ASSUME NEW d, SourceOf(d), NEW stack, NEW W, PathHolds(d, stack, W), NEW a \in 1..(Len(W) - 1), W[a][2] = W[Len(W)][2]
  PROVE  ~WellBounded(d)
<1> DEFINE L == Len(W)
           C == {W[i][2] : i \in a..(L - 1)}
           S == {p \in Places(d) : p[2] \in C}
<1>1. L \in Nat /\ W \in Seq(Places(d))  BY DEF PathHolds, Parallel
<1>2. a \in 1..L /\ a \in a..(L - 1) /\ \A i \in a..(L - 1) : i \in 1..(L - 1) /\ i \in 1..L /\ i + 1 \in 1..L  BY <1>1
<1>3. W[a] \in S  BY <1>1, <1>2
<1>4. ASSUME NEW p \in S, Len(p[1]) <= MaxJsonDepth PROVE \E i : Inside(d, p, i) /\ KidPlace(d, p, i) \in S
  <2>1. PICK i \in a..(L - 1) : p[2] = W[i][2]  OBVIOUS
  <2> DEFINE m == stack[i].next
             y == KidPlace(d, p, m)
  <2>2. Inside(d, W[i], m) /\ W[i + 1] = KidPlace(d, W[i], m)  BY <1>2, <2>1 DEF PathHolds
  <2> HIDE DEF m
  <2>3. Inside(d, p, m)  BY <2>1, <2>2 DEF Inside
  <2>4. p \in Places(d) /\ W[i] \in Places(d)  BY <1>1, <1>2, <2>1
  <2>5. y[2] = d.kids[p[2]][m]  BY <2>3, <2>4, KidFacts
  <2>6. W[i + 1][2] = d.kids[W[i][2]][m]  BY <2>2, <2>4, KidFacts
  <2>7. y \in Places(d)  BY <1>4, <2>3, <2>4, KidIn
  <2> HIDE DEF y
  <2>8. y[2] = W[i + 1][2]  BY <2>1, <2>5, <2>6
  <2>9. y[2] \in C
    <3>1. i + 1 \in a..(L - 1) \/ i + 1 = L  BY <1>1, <1>2
    <3>2. CASE i + 1 \in a..(L - 1)  BY <2>8, <3>2
    <3>3. CASE i + 1 = L  BY <1>2, <2>8, <3>3
    <3> QED BY <3>1, <3>2, <3>3
  <2>10. y \in S  BY <2>7, <2>9
  <2> QED BY <2>3, <2>10 DEF y
<1>5. S \subseteq Places(d)  OBVIOUS
<1> HIDE DEF S
<1>6. PICK p \in S : Len(p[1]) > MaxJsonDepth  BY <1>3, <1>4, <1>5, DeepIsReached
<1>7. PlaceAt(d, p)  BY <1>5, PlacesAre
<1>8. ~(Len(p[1]) <= MaxJsonDepth)  BY <1>6, <1>7, PricedAssumption DEF PlaceAt
<1> QED BY <1>5, <1>6, <1>8 DEF WellBounded

(* The walks, step by step. *)

TextWalks(d, stack, count) == ~d.large /\ \E V, W : TextHolds(d, stack, count, V, W)
ObjectWalks(d, stack, count) == \E V, W : ObjectHolds(d, stack, count, V, W)

LEMMA SourcesAre ==
  ASSUME NEW d \in PriceSources
  PROVE  SourceOf(d) /\ d.large \in BOOLEAN
<1>1. /\ d.kids \in Seq(Seq(Nat)) /\ Len(d.kids) > 0 /\ d.large \in BOOLEAN
      /\ \A n \in DOMAIN d.kids : /\ \A i \in DOMAIN d.kids[n] : d.kids[n][i] \in DOMAIN d.kids
                                  /\ d.kind[n] \in {"node", "leaf", "big", "odd"}
  BY PricedAssumption
<1>2. 1 \in DOMAIN d.kids
  <2> DEFINE s == d.kids
  <2>1. s \in Seq(Seq(Nat)) /\ Len(s) > 0  BY <1>1
  <2> HIDE DEF s
  <2>2. 1 \in DOMAIN s  BY <2>1
  <2> QED BY <2>2 DEF s
<1> QED BY <1>1, <1>2 DEF SourceOf

LEMMA WalkStarts ==
  ASSUME NEW d, SourceOf(d), NEW f \in Frames, f.node = 1, f.depth = 0, f.next = 0
  PROVE  /\ ~d.large => TextWalks(d, <<f>>, 0)
         /\ ObjectWalks(d, <<f>>, 0)
<1> DEFINE stack == <<f>>
           r == RootPlace
           W == <<r>>
           V == {}
<1>1. r \in Places(d) /\ Len(r[1]) = 0 /\ r[2] = 1 /\ r = RootPlace  BY RootIn
<1> HIDE DEF r
<1>2. stack \in Seq(Frames) /\ Len(stack) = 1 /\ stack[1] = f  OBVIOUS
<1>3. W \in Seq(Places(d)) /\ Len(W) = 1 /\ W[1] = r  BY <1>1
<1>4. IsFiniteSet(V) /\ Cardinality(V) = 0  BY FS_EmptySet
<1>5. 0 \in Nat /\ 0 <= MaxJsonNodes  BY PricedAssumption
<1>6. Len(d.kids[r[2]]) \in Nat  BY <1>1, KidsAre
<1>7. V = {} /\ \A x : x \notin V  OBVIOUS
<1> HIDE DEF stack, W, V
<1>8. Seen(d, V, 0)  BY <1>4, <1>5, <1>7 DEF Seen
<1>9. \A i : i \in 1..1 <=> i = 1  OBVIOUS
<1>10. \A i \in 1..(1 - 1) : FALSE  OBVIOUS
<1>11. Parallel(d, stack, W)  BY <1>1, <1>2, <1>3, <1>9 DEF Parallel
<1>12. On(W, RootPlace)  BY <1>1, <1>3, <1>9 DEF On
<1>13. TextHolds(d, stack, 0, V, W)
  <2>1. \A i \in 1..Len(W) : W[i] \notin V /\ HasParent(d, V, W[i])  BY <1>1, <1>3, <1>7, <1>9 DEF HasParent
  <2> QED BY <1>3, <1>7, <1>8, <1>9, <1>11, <1>12, <2>1 DEF TextHolds
<1>14. PathHolds(d, stack, W)
  <2>1. 0 \in 0..Len(d.kids[r[2]])  BY <1>6
  <2>2. \A i \in 1..Len(W) : stack[i].next \in 0..Len(d.kids[W[i][2]])  BY <1>2, <1>3, <1>9, <2>1
  <2>3. \A i \in 1..(Len(W) - 1) : FALSE  BY <1>3, <1>10
  <2> QED BY <1>1, <1>3, <1>11, <2>2, <2>3 DEF PathHolds
<1>15. ObjectHolds(d, stack, 0, V, W)
  <2>1. \A i \in 1..Len(W) : ~(stack[i].next > 0)  BY <1>2, <1>3, <1>9
  <2>2. NotYet(d, stack, V, W)  BY <1>7 DEF NotYet
  <2>3. Len(W) # 0  BY <1>3
  <2> QED BY <1>7, <1>8, <1>14, <2>1, <2>2, <2>3 DEF ObjectHolds
<1> QED BY <1>13, <1>15 DEF TextWalks, ObjectWalks, stack

LEMMA TextEnds ==
  ASSUME NEW d, SourceOf(d), NEW count, TextWalks(d, <<>>, count)
  PROVE  WellBounded(d)
<1> DEFINE none == <<>>
<1>0. none = <<>> /\ Len(none) = 0 /\ \A i \in 1..0 : FALSE  OBVIOUS
<1> HIDE DEF none
<1>1. PICK V, W : TextHolds(d, none, count, V, W)  BY <1>0 DEF TextWalks
<1>2. Len(W) = 0  BY <1>0, <1>1 DEF TextHolds, Parallel
<1>3. \A x : ~On(W, x)  BY <1>0, <1>2 DEF On
<1>4. RootPlace \in V /\ \A v \in V : \A i : Inside(d, v, i) => KidPlace(d, v, i) \in V  BY <1>1, <1>3 DEF TextHolds
<1>5. Seen(d, V, count) /\ ~d.large  BY <1>1 DEF TextHolds, TextWalks
<1> QED BY <1>4, <1>5, AllSeenBounded

LEMMA ObjectEnds ==
  ASSUME NEW d, SourceOf(d), NEW count, ObjectWalks(d, <<>>, count)
  PROVE  WellBounded(d) <=> ~d.large
<1> DEFINE none == <<>>
<1>0. none = <<>> /\ Len(none) = 0 /\ (\A i \in 1..0 : FALSE) /\ ~(0 > 0)  OBVIOUS
<1> HIDE DEF none
<1>1. PICK V, W : ObjectHolds(d, none, count, V, W)  BY <1>0 DEF ObjectWalks
<1>2. Len(W) = 0  BY <1>0, <1>1 DEF ObjectHolds, PathHolds, Parallel
<1>3. \A v, i : ~Later(none, W, v, i)  BY <1>0, <1>2 DEF Later
<1>4. RootPlace \in V /\ \A v \in V : \A i : Inside(d, v, i) => KidPlace(d, v, i) \in V
  BY <1>0, <1>1, <1>2, <1>3 DEF ObjectHolds
<1>5. Seen(d, V, count)  BY <1>1 DEF ObjectHolds
<1> QED BY <1>4, <1>5, AllSeenBounded

\* What Refused asks of the frame at the top.
Stops(d, f, count) == count > MaxJsonNodes \/ f.depth > MaxJsonDepth \/ d.kind[f.node] \in {"big", "odd"}

LEMMA StopsIs ==
  ASSUME NEW d, SourceOf(d), NEW x \in Places(d), NEW f, f.node = x[2], f.depth = Len(x[1]), NEW count \in Nat
  PROVE  Stops(d, f, count) <=> ~(count <= MaxJsonNodes /\ Within(d, x))
<1>1. Within(d, x) <=> ~(f.depth > MaxJsonDepth \/ d.kind[f.node] \in {"big", "odd"})  BY RefusedIs
<1>2. count > MaxJsonNodes <=> ~(count <= MaxJsonNodes)  BY PricedAssumption
<1> QED BY <1>1, <1>2 DEF Stops

LEMMA TextStep ==
  ASSUME NEW d, SourceOf(d), NEW stack, stack # <<>>, NEW count, TextWalks(d, stack, count),
         NEW top, top = stack[Len(stack)]
  PROVE  /\ Stops(d, top, count + 1) => ~WellBounded(d)
         /\ ~Stops(d, top, count + 1) =>
              LET kids == d.kids[top.node]
                  stack2 == SubSeq(stack, 1, Len(stack) - 1)
                              \o [i \in DOMAIN kids |-> [node |-> kids[i], depth |-> top.depth + 1, next |-> 0]]
              IN stack2 \in Seq(Frames) /\ count + 1 \in Nat /\ TextWalks(d, stack2, count + 1)
<1>1. PICK V, W : TextHolds(d, stack, count, V, W)  BY DEF TextWalks
<1>2. Parallel(d, stack, W) /\ Seen(d, V, count)  BY <1>1 DEF TextHolds
<1> DEFINE L == Len(stack)
           x == W[L]
<1>3. stack \in Seq(Frames) /\ W \in Seq(Places(d)) /\ Len(W) = L /\ L \in Nat /\ L > 0 /\ L \in 1..L  BY <1>2 DEF Parallel
<1>4. x \in Places(d) /\ x \notin V  BY <1>1, <1>3 DEF TextHolds
<1>5. top.node = x[2] /\ top.depth = Len(x[1])  BY <1>2, <1>3 DEF Parallel
<1>6. count \in Nat /\ count + 1 \in Nat  BY <1>2 DEF Seen
<1>7. x = W[Len(stack)]  OBVIOUS
<1> HIDE DEF x
<1>8. Stops(d, top, count + 1) <=> ~(count + 1 <= MaxJsonNodes /\ Within(d, x))  BY <1>4, <1>5, <1>6, StopsIs
<1>9. ASSUME Stops(d, top, count + 1) PROVE ~WellBounded(d)
  <2>1. count + 1 > MaxJsonNodes \/ ~Within(d, x)  BY <1>6, <1>8, <1>9, PricedAssumption
  <2> QED BY <1>2, <1>4, <2>1, OutsideIsNot
<1> DEFINE kids == d.kids[top.node]
           frame(i) == [node |-> kids[i], depth |-> top.depth + 1, next |-> 0]
           pushed == [i \in DOMAIN kids |-> frame(i)]
           stack2 == SubSeq(stack, 1, Len(stack) - 1) \o pushed
<1>10. kids = d.kids[x[2]] /\ kids \in Seq(Nat) /\ DOMAIN kids = 1..Len(kids) /\ Len(kids) \in Nat
  <2>1. d.kids[x[2]] \in Seq(Nat) /\ DOMAIN d.kids[x[2]] = 1..Len(d.kids[x[2]]) /\ Len(d.kids[x[2]]) \in Nat  BY <1>4, KidsAre
  <2> QED BY <1>5, <2>1
<1>11. top.depth \in Nat  BY <1>3, FramesAre
<1>10a. kids \in Seq(Nat)  BY <1>10
<1> HIDE DEF kids
<1>12. ASSUME NEW i \in 1..Len(kids) PROVE frame(i) \in Frames /\ frame(i).node = kids[i] /\ frame(i).depth = top.depth + 1
  <2>1. kids[i] \in Nat /\ top.depth + 1 \in Nat
    <3>1. kids[i] \in Nat  BY <1>10a
    <3>2. top.depth + 1 \in Nat  BY <1>11
    <3> QED BY <3>1, <3>2
  <2> QED BY <2>1 DEF Frames
<1> HIDE DEF frame
<1>13. pushed \in Seq(Frames) /\ Len(pushed) = Len(kids) /\ \A i \in 1..Len(kids) : pushed[i] = frame(i)
  <2>1. pushed = [i \in 1..Len(kids) |-> frame(i)]  BY <1>10
  <2> HIDE DEF pushed
  <2> QED BY <1>10, <1>12, <2>1
<1> HIDE DEF pushed
<1>14. stack2 \in Seq(Frames) /\ Splice(stack2, stack, pushed)  BY <1>3, <1>13, SpliceIs
<1> HIDE DEF stack2
<1>15. ASSUME ~Stops(d, top, count + 1) PROVE TextWalks(d, stack2, count + 1)
  <2>1. count + 1 <= MaxJsonNodes /\ Within(d, x)  BY <1>8, <1>15
  <2>2. Len(pushed) = Len(d.kids[x[2]])  BY <1>10, <1>13
  <2>3. \A i \in 1..Len(pushed) : pushed[i].node = d.kids[x[2]][i] /\ pushed[i].depth = Len(x[1]) + 1
    BY <1>5, <1>10, <1>12, <1>13
  <2>4. Pushed(d, x, pushed) /\ Len(stack) > 0  BY <1>3, <1>13, <2>2, <2>3 DEF Pushed
  <2>5. \E V2, W2 : TextHolds(d, stack2, count + 1, V2, W2)
    BY <1>1, <1>7, <1>14, <2>1, <2>4, TextGoesOn
  <2> QED BY <2>5 DEF TextWalks
<1> QED BY <1>6, <1>9, <1>14, <1>15 DEF stack2, pushed, frame, kids

\* WalkObject's refusal, and what it leaves when it goes on.
ObjectStops(d, stack, top, count) ==
  top.next = 0 /\ (Stops(d, top, count + 1) \/ top.node \in {stack[i].node : i \in 1..(Len(stack) - 1)})
NextCount(top, count) == IF top.next = 0 THEN count + 1 ELSE count
NextStack(d, stack, top) ==
  LET kids == d.kids[top.node]
      below == SubSeq(stack, 1, Len(stack) - 1)
  IN IF top.next = Len(kids) THEN below
     ELSE Append(Append(below, [top EXCEPT !.next = @ + 1]),
                 [node |-> kids[top.next + 1], depth |-> top.depth + 1, next |-> 0])

LEMMA ObjectStep ==
  ASSUME NEW d, SourceOf(d), NEW stack, stack # <<>>, NEW count, ObjectWalks(d, stack, count),
         NEW top, top = stack[Len(stack)]
  PROVE  /\ ObjectStops(d, stack, top, count) => ~WellBounded(d)
         /\ ~ObjectStops(d, stack, top, count) =>
              /\ NextStack(d, stack, top) \in Seq(Frames) /\ NextCount(top, count) \in Nat
              /\ ObjectWalks(d, NextStack(d, stack, top), NextCount(top, count))
<1> DEFINE count2 == NextCount(top, count)
<1>0. count2 = IF top.next = 0 THEN count + 1 ELSE count  BY DEF NextCount
<1> HIDE DEF count2
<1>1. PICK V, W : ObjectHolds(d, stack, count, V, W)  BY DEF ObjectWalks
<1>2. PathHolds(d, stack, W) /\ Seen(d, V, count)  BY <1>1 DEF ObjectHolds
<1>3. Parallel(d, stack, W)  BY <1>2 DEF PathHolds
<1> DEFINE L == Len(stack)
           x == W[L]
           kids == d.kids[top.node]
           below == SubSeq(stack, 1, Len(stack) - 1)
           again == top.node \in {stack[i].node : i \in 1..(L - 1)}
<1>4. stack \in Seq(Frames) /\ W \in Seq(Places(d)) /\ Len(W) = L /\ L \in Nat /\ L > 0 /\ L \in 1..L  BY <1>3 DEF Parallel
<1>5. x \in Places(d)  BY <1>4
<1>6. top.node = x[2] /\ top.depth = Len(x[1])  BY <1>3, <1>4 DEF Parallel
<1>7. count \in Nat /\ count + 1 \in Nat /\ count2 \in Nat  BY <1>0, <1>2 DEF Seen
<1>8. x = W[Len(W)] /\ top = stack[Len(W)] /\ Len(W) > 0 /\ Len(W) \in 1..Len(W)  BY <1>4
<1>9. top \in Frames /\ top.node \in Nat /\ top.depth \in Nat /\ top.next \in Nat  BY <1>4, FramesAre
<1> HIDE DEF x
<1>10. Stops(d, top, count + 1) <=> ~(count + 1 <= MaxJsonNodes /\ Within(d, x))  BY <1>5, <1>6, <1>7, StopsIs
<1>11. ASSUME top.next = 0, Stops(d, top, count + 1) PROVE ~WellBounded(d)
  <2>1. x \notin V
    <3>1. ~(stack[Len(W)].next > 0)  BY <1>8, <1>11
    <3> QED BY <1>1, <1>8, <3>1 DEF ObjectHolds
  <2>2. count + 1 > MaxJsonNodes \/ ~Within(d, x)  BY <1>7, <1>10, <1>11, PricedAssumption
  <2> QED BY <1>2, <1>5, <2>1, <2>2, OutsideIsNot
<1>12. ASSUME again PROVE ~WellBounded(d)
  <2>1. PICK a \in 1..(L - 1) : top.node = stack[a].node  BY <1>12
  <2>2. a \in 1..(Len(W) - 1) /\ a \in 1..Len(stack)  BY <1>4
  <2>3. stack[a].node = W[a][2]  BY <1>3, <2>2 DEF Parallel
  <2>4. W[a][2] = W[Len(W)][2]  BY <1>6, <1>8, <2>1, <2>3
  <2> QED BY <1>2, <2>2, <2>4, AgainIsNot
<1>13. below \in Seq(Frames) /\ Len(below) = L - 1 /\ \A i \in 1..(L - 1) : below[i] = stack[i]  BY <1>4, ButLast
<1>14. ASSUME ~(top.next = 0 /\ Stops(d, top, count + 1)) PROVE Entered(d, stack, count2, V \cup {x}, W)
  <2>1. IF stack[Len(W)].next = 0 THEN count2 = count + 1 /\ count2 <= MaxJsonNodes /\ Within(d, x) ELSE count2 = count
    BY <1>0, <1>8, <1>10, <1>14
  <2> QED BY <1>1, <1>7, <1>8, <2>1, Enters
<1>15. kids = d.kids[x[2]] /\ kids \in Seq(Nat) /\ DOMAIN kids = 1..Len(kids) /\ Len(kids) \in Nat
  <2>1. d.kids[x[2]] \in Seq(Nat) /\ DOMAIN d.kids[x[2]] = 1..Len(d.kids[x[2]]) /\ Len(d.kids[x[2]]) \in Nat  BY <1>5, KidsAre
  <2> QED BY <1>6, <2>1
<1>16. ASSUME ~(top.next = 0 /\ Stops(d, top, count + 1)), top.next = Len(kids)
       PROVE  below \in Seq(Frames) /\ ObjectWalks(d, below, count2)
  <2>1. stack[Len(W)].next = Len(d.kids[W[Len(W)][2]])  BY <1>8, <1>15, <1>16
  <2>2. ObjectHolds(d, SubSeq(stack, 1, Len(stack) - 1), count2, V \cup {x}, SubSeq(W, 1, Len(W) - 1))
    BY <1>8, <1>14, <1>16, <2>1, Leaves
  <2> QED BY <1>13, <2>2 DEF ObjectWalks
<1>17. ASSUME ~(top.next = 0 /\ Stops(d, top, count + 1)), top.next # Len(kids)
       PROVE  LET f == [top EXCEPT !.next = @ + 1]
                  g == [node |-> kids[top.next + 1], depth |-> top.depth + 1, next |-> 0]
              IN Append(Append(below, f), g) \in Seq(Frames) /\ ObjectWalks(d, Append(Append(below, f), g), count2)
  <2> DEFINE f == [top EXCEPT !.next = @ + 1]
             g == [node |-> kids[top.next + 1], depth |-> top.depth + 1, next |-> 0]
             stack2 == Append(Append(below, f), g)
  <2>1. f \in Frames /\ f.node = top.node /\ f.depth = top.depth /\ f.next = top.next + 1  BY <1>9 DEF Frames
  <2>2. top.next + 1 \in 1..Len(kids)
    <3>1. stack[L].next \in 0..Len(d.kids[W[L][2]])  BY <1>2, <1>4 DEF PathHolds
    <3> DEFINE n == Len(kids)
    <3>2. top.next \in 0..n /\ n \in Nat /\ top.next # n  BY <1>4, <1>8, <1>15, <1>17, <3>1
    <3> HIDE DEF n
    <3>3. top.next + 1 \in 1..n  BY <3>2
    <3> QED BY <3>3 DEF n
  <2>3. kids[top.next + 1] \in Nat /\ top.depth + 1 \in Nat
    <3>0. kids \in Seq(Nat)  BY <1>15
    <3> HIDE DEF kids
    <3>1. kids[top.next + 1] \in Nat  BY <2>2, <3>0
    <3>2. top.depth + 1 \in Nat  BY <1>9
    <3> QED BY <3>1, <3>2
  <2>4. g \in Frames /\ g.node = kids[top.next + 1] /\ g.depth = top.depth + 1 /\ g.next = 0  BY <2>3 DEF Frames
  <2> HIDE DEF f, g, below, kids
  <2>5. /\ stack2 \in Seq(Frames) /\ Len(stack2) = Len(W) + 1 /\ stack2[Len(W)] = f /\ stack2[Len(W) + 1] = g
        /\ \A i \in 1..(Len(W) - 1) : stack2[i] = stack[i]
    BY <1>4, <1>13, <2>1, <2>4
  <2> HIDE DEF stack2
  <2>6. /\ f.node = stack[Len(W)].node /\ f.depth = stack[Len(W)].depth /\ f.next = stack[Len(W)].next + 1
        /\ g.node = d.kids[x[2]][stack[Len(W)].next + 1] /\ g.depth = stack[Len(W)].depth + 1
        /\ stack[Len(W)].next # Len(d.kids[x[2]])
    BY <1>8, <1>15, <1>17, <2>1, <2>4
  <2>7. Entered(d, stack, count2, V \cup {x}, W)  BY <1>14, <1>17
  <2>8. Descends(d, stack, W, x, stack2, f, g)  BY <2>1, <2>4, <2>5, <2>6 DEF Descends
  <2>9. \E W2 : ObjectHolds(d, stack2, count2, V \cup {x}, W2)  BY <1>8, <2>7, <2>8, GoesDown
  <2> QED BY <2>5, <2>9 DEF ObjectWalks, stack2, f, g
<1>18. ~(top.next = 0 /\ Stops(d, top, count + 1)) => NextStack(d, stack, top) \in Seq(Frames) /\ ObjectWalks(d, NextStack(d, stack, top), count2)
  BY <1>16, <1>17 DEF NextStack
<1> QED BY <1>7, <1>11, <1>12, <1>18 DEF ObjectStops, count2

\* What the load keeps: a walk in progress has its places, and a verdict is the value's.
SourceForm ==
  [step : {"none", "walk", "loaded", "indexed"}, text : BOOLEAN, data : PriceSources \cup {<<>>}, stack : Seq(Frames),
   count : Nat, verdict : {"none", "accepted", "refused"}]
LoadSound(s) ==
  /\ s \in SourceForm
  /\ s.step = "none" => s.count = 0
  /\ s.step = "walk" => /\ s.data \in PriceSources
                        /\ s.text => TextWalks(s.data, s.stack, s.count)
                        /\ ~s.text => ObjectWalks(s.data, s.stack, s.count)
  /\ s.step = "loaded" => (s.verdict = "accepted" <=> WellBounded(s.data))

LEMMA NoSourceSound == LoadSound(NoSource) /\ LoadSound([NoSource EXCEPT !.step = "indexed"])
<1> DEFINE s == NoSource
           t == [NoSource EXCEPT !.step = "indexed"]
<1>1. <<>> \in Seq(Frames)  OBVIOUS
<1>2. s \in SourceForm /\ s.step = "none" /\ s.count = 0  BY <1>1 DEF NoSource, SourceForm
<1>3. t \in SourceForm /\ t.step = "indexed"  BY <1>1 DEF NoSource, SourceForm
<1> HIDE DEF s, t
<1>4. LoadSound(s)  BY <1>2 DEF LoadSound
<1>5. LoadSound(t)  BY <1>3 DEF LoadSound
<1> QED BY <1>4, <1>5 DEF s, t

\* A walk that ends with the value's verdict.
LEMMA EndSound ==
  ASSUME NEW s, LoadSound(s), NEW verdict \in {"accepted", "refused"}, verdict = "accepted" <=> WellBounded(s.data),
         NEW t, t = [s EXCEPT !.step = "loaded", !.verdict = verdict, !.stack = <<>>, !.count = 0]
  PROVE  LoadSound(t)
<1>1. <<>> \in Seq(Frames)  OBVIOUS
<1>2. s \in SourceForm  BY DEF LoadSound
<1>3. t \in SourceForm /\ t.step = "loaded" /\ t.verdict = verdict /\ t.data = s.data  BY <1>1, <1>2 DEF SourceForm
<1> QED BY <1>3 DEF LoadSound

\* A walk that goes on.
LEMMA OnSound ==
  ASSUME NEW s, LoadSound(s), s.step = "walk", NEW stack \in Seq(Frames), NEW count \in Nat,
         s.text => TextWalks(s.data, stack, count), ~s.text => ObjectWalks(s.data, stack, count),
         NEW t, t = [s EXCEPT !.count = count, !.stack = stack]
  PROVE  LoadSound(t)
<1>1. s \in SourceForm /\ s.data \in PriceSources  BY DEF LoadSound
<1>2. t \in SourceForm /\ t.step = "walk" /\ t.data = s.data /\ t.text = s.text /\ t.stack = stack /\ t.count = count
  BY <1>1 DEF SourceForm
<1> QED BY <1>1, <1>2 DEF LoadSound

LEMMA LoadBegins ==
  ASSUME LoadSound(source), NEW d \in PriceSources, NEW text \in BOOLEAN, LoadSource(d, text)
  PROVE  LoadSound(source')
<1>1. source \in SourceForm /\ source.step = "none" /\ source.count = 0  BY DEF LoadSound, LoadSource
<1>2. SourceOf(d) /\ d.large \in BOOLEAN  BY SourcesAre
<1>3. CASE text /\ d.large
  <2> DEFINE t == [source EXCEPT !.step = "loaded", !.text = text, !.data = d, !.verdict = "refused"]
  <2>1. source' = t  BY <1>3 DEF LoadSource
  <2>2. t \in SourceForm /\ t.step = "loaded" /\ t.data = d /\ t.verdict = "refused"  BY <1>1 DEF SourceForm
  <2> HIDE DEF t
  <2>3. ~WellBounded(d)  BY <1>3 DEF WellBounded
  <2>4. LoadSound(t)  BY <2>2, <2>3 DEF LoadSound
  <2> QED BY <2>1, <2>4
<1>4. CASE ~(text /\ d.large)
  <2> DEFINE f == [node |-> 1, depth |-> 0, next |-> 0]
             stack == <<f>>
             t == [source EXCEPT !.step = "walk", !.text = text, !.data = d, !.stack = stack]
  <2>1. source' = t  BY <1>4 DEF LoadSource
  <2>2. f \in Frames /\ f.node = 1 /\ f.depth = 0 /\ f.next = 0  BY DEF Frames
  <2> HIDE DEF f
  <2>3. stack \in Seq(Frames)  BY <2>2
  <2>4. (~d.large => TextWalks(d, stack, 0)) /\ ObjectWalks(d, stack, 0)  BY <1>2, <2>2, WalkStarts
  <2> HIDE DEF stack
  <2>5. t \in SourceForm /\ t.step = "walk" /\ t.data = d /\ t.text = text /\ t.stack = stack /\ t.count = 0
    BY <1>1, <2>3 DEF SourceForm
  <2> HIDE DEF t
  <2>6. LoadSound(t)  BY <1>4, <2>4, <2>5 DEF LoadSound
  <2> QED BY <2>1, <2>6
<1> QED BY <1>3, <1>4

LEMMA TextKept ==
  ASSUME LoadSound(source), WalkText
  PROVE  LoadSound(source')
<1> DEFINE d == source.data
           stack == source.stack
           count == source.count
<1>1. source.step = "walk" /\ source.text  BY DEF WalkText
<1>2. d \in PriceSources /\ TextWalks(d, stack, count) /\ source \in SourceForm  BY <1>1 DEF LoadSound
<1>3. SourceOf(d)  BY <1>2, SourcesAre
<1>4. CASE stack = <<>>
  <2>1. source' = [source EXCEPT !.step = "loaded", !.verdict = "accepted", !.stack = <<>>, !.count = 0]
    BY <1>4 DEF WalkText, WalkEnds
  <2>2. WellBounded(d)
    <3>1. TextWalks(d, <<>>, count)  BY <1>2, <1>4
    <3> QED BY <1>3, <3>1, TextEnds
  <2>3. "accepted" = "accepted" <=> WellBounded(source.data)  BY <2>2
  <2> QED BY <2>1, <2>3, EndSound
<1>5. CASE stack # <<>>
  <2> DEFINE top == stack[Len(stack)]
             kids == d.kids[top.node]
             pushed == [i \in DOMAIN kids |-> [node |-> kids[i], depth |-> top.depth + 1, next |-> 0]]
             stack2 == SubSeq(stack, 1, Len(stack) - 1) \o pushed
  <2>1. Refused(Top, count + 1) <=> Stops(d, top, count + 1)  BY SMTT(30) DEF Refused, Top, Stops
  <2>2. /\ Stops(d, top, count + 1) => ~WellBounded(d)
        /\ ~Stops(d, top, count + 1) => stack2 \in Seq(Frames) /\ count + 1 \in Nat /\ TextWalks(d, stack2, count + 1)
    BY <1>2, <1>3, <1>5, TextStep
  <2>3. CASE Stops(d, top, count + 1)
    <3>1. source' = [source EXCEPT !.step = "loaded", !.verdict = "refused", !.stack = <<>>, !.count = 0]
      BY <1>5, <2>1, <2>3, SMTT(30) DEF WalkText, WalkEnds
    <3>2. "refused" = "accepted" <=> WellBounded(source.data)  BY <2>2, <2>3
    <3> QED BY <3>1, <3>2, EndSound
  <2>4. CASE ~Stops(d, top, count + 1)
    <3>1. source' = [source EXCEPT !.count = source.count + 1, !.stack = stack2]
      BY <1>5, <2>1, <2>4, SMTT(30) DEF WalkText, Top, Below
    <3>2. stack2 \in Seq(Frames) /\ source.count + 1 \in Nat /\ TextWalks(source.data, stack2, source.count + 1)  BY <2>2, <2>4
    <3> HIDE DEF stack2
    <3> QED BY <1>1, <3>1, <3>2, OnSound
  <2> QED BY <2>3, <2>4
<1> QED BY <1>4, <1>5

LEMMA ObjectKept ==
  ASSUME LoadSound(source), WalkObject
  PROVE  LoadSound(source')
<1> DEFINE d == source.data
           stack == source.stack
           count == source.count
<1>1. source.step = "walk" /\ ~source.text  BY DEF WalkObject
<1>2. d \in PriceSources /\ ObjectWalks(d, stack, count) /\ source \in SourceForm  BY <1>1 DEF LoadSound
<1>3. SourceOf(d) /\ d.large \in BOOLEAN  BY <1>2, SourcesAre
<1>4. CASE stack = <<>>
  <2> DEFINE verdict == IF d.large THEN "refused" ELSE "accepted"
  <2>1. source' = [source EXCEPT !.step = "loaded", !.verdict = verdict, !.stack = <<>>, !.count = 0]
    BY <1>4 DEF WalkObject, WalkEnds
  <2>2. WellBounded(d) <=> ~d.large
    <3>1. ObjectWalks(d, <<>>, count)  BY <1>2, <1>4
    <3> QED BY <1>3, <3>1, ObjectEnds
  <2>3. verdict \in {"accepted", "refused"} /\ (verdict = "accepted" <=> WellBounded(source.data))  BY <1>3, <2>2
  <2> HIDE DEF verdict
  <2> QED BY <2>1, <2>3, EndSound
<1>5. CASE stack # <<>>
  <2> DEFINE top == stack[Len(stack)]
             stops == ObjectStops(d, stack, top, count)
             count2 == NextCount(top, count)
             stack2 == NextStack(d, stack, top)
  <2>1. top.next = 0 /\ (Refused(Top, count + 1) \/ Top.node \in Ancestors) <=> stops
    BY Zenon DEF Refused, Top, Stops, Ancestors, ObjectStops
  <2>2. /\ stops => ~WellBounded(d)
        /\ ~stops => stack2 \in Seq(Frames) /\ count2 \in Nat /\ ObjectWalks(d, stack2, count2)
    BY <1>2, <1>3, <1>5, ObjectStep
  <2>3. top = Top  BY DEF Top
  <2> HIDE DEF stops
  <2>4. CASE stops
    <3>1. source' = [source EXCEPT !.step = "loaded", !.verdict = "refused", !.stack = <<>>, !.count = 0]
      BY <1>5, <2>1, <2>3, <2>4 DEF WalkObject, WalkEnds
    <3>2. "refused" = "accepted" <=> WellBounded(source.data)  BY <2>2, <2>4
    <3> QED BY <3>1, <3>2, EndSound
  <2>5. CASE ~stops
    <3>1. source' = [source EXCEPT !.count = count2, !.stack = stack2]
      BY <1>5, <2>1, <2>3, <2>5 DEF WalkObject, Top, Below, NextCount, NextStack
    <3>2. stack2 \in Seq(Frames) /\ count2 \in Nat /\ ObjectWalks(source.data, stack2, count2)  BY <2>2, <2>5
    <3> HIDE DEF stack2, count2
    <3> QED BY <1>1, <3>1, <3>2, OnSound
  <2> QED BY <2>4, <2>5
<1> QED BY <1>4, <1>5

LEMMA LoadStep == LoadSound(source) /\ [PricedNext]_pricedVars => LoadSound(source')
<1> SUFFICES ASSUME LoadSound(source), [PricedNext]_pricedVars PROVE LoadSound(source')  OBVIOUS
<1>1. ASSUME NEW d \in PriceSources, NEW text \in BOOLEAN, LoadSource(d, text) PROVE LoadSound(source')
  BY <1>1, LoadBegins
<1>2. CASE WalkText  BY <1>2, TextKept
<1>3. CASE WalkObject  BY <1>3, ObjectKept
<1>4. ASSUME NEW entries \in Catalogues, IndexCatalogue(entries) PROVE LoadSound(source')
  BY <1>4, NoSourceSound DEF IndexCatalogue
<1>5. CASE UNCHANGED source  BY <1>5
<1>6. ASSUME NEW model \in PricedRequests, BeginCall(model) PROVE UNCHANGED source  BY <1>6 DEF BeginCall
<1>7. CASE GatewayAttemptFails  BY <1>5, <1>7 DEF GatewayAttemptFails
<1>8. ASSUME NEW usage \in Usages, NEW clock \in GatewayClock, GatewayAnswers(usage, clock) PROVE UNCHANGED source
  BY <1>8 DEF GatewayAnswers
<1>9. ASSUME NEW price, NativeCall(price) PROVE UNCHANGED source  BY <1>9 DEF NativeCall
<1>10. CASE UNCHANGED pricedVars  BY <1>5, <1>10 DEF pricedVars
<1> QED BY <1>1, <1>2, <1>3, <1>4, <1>5, <1>6, <1>7, <1>8, <1>9, <1>10, Zenon DEF PricedNext

\* LiteLlmPricingCatalog admits exactly the sources whose value is within its limits, counting a
\* shared part once per place and never one that contains itself, by assertBoundedParsedJson's stack
\* as by canonicalizeBoundedJson's recursion.  Whatever is then asked and answered, an estimate of
\* BifrostModelGateway.execute is the price of what was used, from the one entry that names the model
\* most closely, and aggregateCostRecords never launders an unknown cost into a known one, in
\* whatever parts a run is added up.
THEOREM CostsHold == PricedSpec => []CostIsHonest
<1>1. PricedInit => PricedInv /\ LoadSound(source)  BY PricedStart, NoSourceSound DEF PricedInit
<1>2. PricedInv /\ LoadSound(source) /\ [PricedNext]_pricedVars => PricedInv' /\ LoadSound(source)'
  BY PricedStep, LoadStep
<1>3. PricedInv /\ LoadSound(source) => CostIsHonest
  <2>1. LoadSound(source) => WalksAdmitTheBounded  BY DEF LoadSound, WalksAdmitTheBounded
  <2> QED BY <2>1, PricedInvSound DEF CostIsHonest
<1> QED BY <1>1, <1>2, <1>3, PTL DEF PricedSpec
=============================================================================
