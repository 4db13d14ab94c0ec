---------------------------- MODULE DiscoveryProofs ----------------------------
(***************************************************************************)
(* Proofs about what the code reads out of a candidate's changes: the      *)
(* evidence for the flow concerns, for any files, languages, names and     *)
(* statements, and what concern discovery concludes, for any kinds of      *)
(* file, any lines and a patch of any size; what the readers of a patch    *)
(* make of it, for any files and a patch of any length; the literal diff   *)
(* of a captured file, for any two texts; and the answer of a semantic     *)
(* index, for any index, queries and bounds.                               *)
(***************************************************************************)
EXTENDS FlowEvidence, ScopeDiscovery, PatchText, LineDiff, ScipQuery, FiniteSetTheorems, SequenceTheorems,
        WellFoundedInduction, TLAPS

(* What a recursive function computes. *)

\* Induction over the numbers up to n, for a set of numbers: what is at 0 and passes from each to
\* the next is everywhere.
LEMMA UpTo ==
  ASSUME NEW n \in Nat, NEW G, 0 \in G, \A i \in 0..(n - 1) : i \in G => i + 1 \in G
  PROVE  \A i \in 0..n : i \in G
<1> DEFINE Bad == {i \in 0..n : i \notin G}
<1> SUFFICES ASSUME Bad # {} PROVE FALSE  OBVIOUS
<1>1. PICK R : IsWellFoundedOn(R, Nat) /\ \A x, y \in Nat : y < x => <<y, x>> \in R
  <2>1. \A x, y \in Nat : y < x => <<y, x>> \in OpToRel(<, Nat)
    BY DEF OpToRel
  <2> QED BY <2>1, NatLessThanWellFounded
<1>2. PICK x \in Bad : \A y \in Bad : ~(<<y, x>> \in R)
  <2>1. Bad \subseteq Nat  OBVIOUS
  <2> HIDE DEF Bad
  <2> QED BY <1>1, <2>1, WFMin
<1>3. x \in 0..n /\ x \notin G /\ x # 0  BY <1>2
<1>4. x - 1 \in 0..(n - 1) /\ x - 1 \in Nat /\ x \in Nat /\ x - 1 < x /\ (x - 1) + 1 = x  BY <1>3
<1>5. <<x - 1, x>> \in R  BY <1>1, <1>4
<1>6. x - 1 \in G  BY <1>2, <1>4, <1>5
<1> QED BY <1>3, <1>4, <1>6

\* What a recursive function over the numbers up to n prescribes, some function does.
Recursion(n, S, z, step) == n \in Nat /\ z \in S /\ step \in [(1..n) \X S -> S]
Follows(f, n, z, step) == f[0] = z /\ \A i \in 1..n : f[i] = step[<<i, f[i - 1]>>]

LEMMA RecursionHas ==
  ASSUME NEW n, NEW S, NEW z, NEW step, Recursion(n, S, z, step)
  PROVE  \E f \in [0..n -> S] : Follows(f, n, z, step)
<1> USE DEF Recursion, Follows
<1> DEFINE Fits(f, k) == Follows(f, k, z, step)
           G == {k \in 0..n : \E f \in [0..k -> S] : Fits(f, k)}
<1>1. 0 \in G
  <2> DEFINE f == [i \in 0..0 |-> z]
  <2>1. f \in [0..0 -> S] /\ f[0] = z /\ 0 \in 0..n /\ \A i \in 1..0 : FALSE  OBVIOUS
  <2> HIDE DEF f
  <2> QED BY <2>1
<1>2. ASSUME NEW k \in 0..(n - 1), k \in G PROVE k + 1 \in G
  <2>1. PICK f \in [0..k -> S] : Fits(f, k)  BY <1>2
  <2> DEFINE v == step[<<k + 1, f[k]>>]
             g == [i \in 0..(k + 1) |-> IF i <= k THEN f[i] ELSE v]
  <2>2. v \in S
    <3>1. k + 1 \in 1..n /\ f[k] \in S  OBVIOUS
    <3>2. <<k + 1, f[k]>> \in (1..n) \X S  BY <3>1
    <3> QED BY <3>2
  <2> HIDE DEF v
  <2>3. g \in [0..(k + 1) -> S]  BY <2>2
  <2>4. g[k + 1] = v /\ (\A i \in 0..k : g[i] = f[i])  OBVIOUS
  <2> HIDE DEF g
  <2>5. ASSUME NEW i \in 1..(k + 1) PROVE g[i] = step[<<i, g[i - 1]>>]
    <3>1. CASE i \in 1..k
      <4>1. i \in 0..k /\ i - 1 \in 0..k  BY <3>1
      <4> QED BY <2>1, <2>4, <3>1, <4>1
    <3>2. CASE i = k + 1
      <4>1. i - 1 = k /\ k \in 0..k  BY <3>2
      <4>2. g[i - 1] = f[k]  BY <2>4, <4>1
      <4>3. g[i] = step[<<i, f[k]>>]  BY <2>4, <3>2 DEF v
      <4> QED BY <4>2, <4>3
    <3> QED BY <3>1, <3>2
  <2>6. g[0] = z
    <3>1. 0 \in 0..k  OBVIOUS
    <3> QED BY <2>1, <2>4, <3>1
  <2>7. k + 1 \in 0..n  OBVIOUS
  <2> QED BY <2>3, <2>5, <2>6, <2>7
<1> HIDE DEF G
<1>3. n \in G
  <2>1. \A i \in 0..n : i \in G  BY <1>1, <1>2, UpTo
  <2> QED BY <2>1
<1> QED BY <1>3 DEF G

\* What is defined by a recursion over a set follows it and stays in the set.
LEMMA RecursionStays ==
  ASSUME NEW n, NEW S, NEW z, NEW step, Recursion(n, S, z, step), NEW c,
         c[0] = z, \A i \in 1..n : c[i - 1] \in S => c[i] = step[<<i, c[i - 1]>>]
  PROVE  (\A i \in 0..n : c[i] \in S) /\ Follows(c, n, z, step)
<1> USE DEF Recursion
<1> DEFINE H == {j \in 0..n : c[j] \in S}
<1>1. 0 \in H  OBVIOUS
<1>2. ASSUME NEW i \in 0..(n - 1), i \in H PROVE i + 1 \in H
  <2>1. i + 1 \in 1..n /\ (i + 1) - 1 = i /\ i + 1 \in 0..n  OBVIOUS
  <2>2. c[i] \in S  BY <1>2
  <2>3. c[i + 1] = step[<<i + 1, c[i]>>]  BY <2>1, <2>2
  <2>4. <<i + 1, c[i]>> \in (1..n) \X S  BY <2>1, <2>2
  <2>5. c[i + 1] \in S  BY <2>3, <2>4
  <2> QED BY <2>1, <2>5
<1>3. \A i \in 0..n : c[i] \in S
  <2> HIDE DEF H
  <2>1. \A i \in 0..n : i \in H  BY <1>1, <1>2, UpTo
  <2> QED BY <2>1 DEF H
<1>4. \A i \in 1..n : i - 1 \in 0..n  OBVIOUS
<1> QED BY <1>3, <1>4 DEF Follows

-----------------------------------------------------------------------------
(* FlowEvidence. *)

Tuples == [names : SUBSET FlowNames, origins : Nat, bound : Nat, uses : Nat, classified : Nat, reasons : Nat]

\* What a statement with no new reason did to the names: it lost none, followed a copy and bound
\* a source; and no known name escaped in it.
Followed(old, new, s) ==
  /\ old \subseteq new
  /\ s.form # "composed"
  /\ s.form \in {"alias", "split"} /\ s.reads \in old => s.binds \in new
  /\ s.form \in Sources => s.binds \in new
  /\ s.form \in Skipped \/ \A n \in old : Occurs(s, n) => ClassifyUse(s, n) # "escape"

LEMMA UsesAre ==
  ASSUME NEW t \in Tuples, NEW s \in Statement
  PROVE  /\ Uses(t, s) \in Tuples
         /\ Uses(t, s).reasons >= t.reasons
         /\ t.names \subseteq Uses(t, s).names
         /\ Uses(t, s).reasons = t.reasons =>
              \A n \in t.names : Occurs(s, n) => ClassifyUse(s, n) # "escape"
         /\ s.form \in {"alias", "split"} /\ s.reads \in t.names => s.binds \in Uses(t, s).names
<1> DEFINE used == Used(t, s)
           escapes == {n \in used : ClassifyUse(s, n) = "escape"}
           copies == {n \in used : ClassifyUse(s, n) = "copy"}
           cu == Cardinality(used)
           ce == Cardinality(escapes)
           cl == Cardinality(used \ escapes)
           more == {s.binds : n \in copies}
<1>1. used \subseteq FlowNames /\ IsFiniteSet(FlowNames) /\ used \subseteq t.names
  BY FlowAssumption DEF Used, Tuples
<1>2. IsFiniteSet(used) /\ IsFiniteSet(escapes) /\ IsFiniteSet(used \ escapes)
  <2>1. escapes \subseteq FlowNames /\ used \ escapes \subseteq FlowNames  BY <1>1
  <2> QED BY <1>1, <2>1, FS_Subset
<1>3. cu \in Nat /\ ce \in Nat /\ cl \in Nat /\ (ce = 0 <=> escapes = {})
  BY <1>2, FS_CardinalityType, FS_EmptySet
<1>4. more \subseteq FlowNames  BY DEF Statement
<1>5. \A n \in t.names : Occurs(s, n) => n \in used  BY DEF Used
<1>6. s.form \in {"alias", "split"} /\ s.reads \in t.names => s.binds \in more
  <2> SUFFICES ASSUME s.form \in {"alias", "split"}, s.reads \in t.names PROVE s.binds \in more  OBVIOUS
  <2>1. s.reads \in used  BY DEF Used, Occurs, Sources
  <2>2. ClassifyUse(s, s.reads) = "copy"  BY DEF ClassifyUse
  <2> QED BY <2>1, <2>2
<1>7. \A n \in t.names : Occurs(s, n) /\ ClassifyUse(s, n) = "escape" => n \in escapes  BY <1>5
<1>8. Uses(t, s) = [t EXCEPT !.uses = @ + cu, !.classified = @ + cl, !.reasons = @ + ce, !.names = @ \cup more]
  BY DEF Uses
<1> HIDE DEF used, escapes, copies, cu, ce, cl, more
<1>9. /\ Uses(t, s) \in Tuples
      /\ Uses(t, s).reasons = t.reasons + ce /\ t.reasons \in Nat
      /\ Uses(t, s).names = t.names \cup more
  <2> DEFINE t1 == [t EXCEPT !.uses = t.uses + cu]
             t2 == [t1 EXCEPT !.classified = t.classified + cl]
             t3 == [t2 EXCEPT !.reasons = t.reasons + ce]
             t4 == [t3 EXCEPT !.names = t.names \cup more]
  <2>0. t.reasons \in Nat /\ t.uses \in Nat /\ t.classified \in Nat /\ t.names \subseteq FlowNames  BY DEF Tuples
  <2>1. Uses(t, s) = t4  BY <1>8
  <2>2. t1 \in Tuples  BY <1>3, <2>0 DEF Tuples
  <2> HIDE DEF t1
  <2>3. t2 \in Tuples  BY <1>3, <2>0, <2>2 DEF Tuples
  <2> HIDE DEF t2
  <2>4. t3 \in Tuples /\ t3.reasons = t.reasons + ce  BY <1>3, <2>0, <2>3 DEF Tuples
  <2> HIDE DEF t3
  <2>5. t4 \in Tuples /\ t4.reasons = t3.reasons /\ t4.names = t.names \cup more  BY <1>4, <2>0, <2>4 DEF Tuples
  <2> HIDE DEF t4
  <2> QED BY <2>0, <2>1, <2>4, <2>5
<1> QED BY <1>3, <1>6, <1>7, <1>9

\* One statement: the tuple keeps its shape, and a reason that was recorded stays.
LEMMA EnumerateIs ==
  ASSUME NEW t \in Tuples, NEW s \in Statement
  PROVE  /\ Enumerate(t, s) \in Tuples
         /\ Enumerate(t, s).reasons >= t.reasons
         /\ Enumerate(t, s).reasons = t.reasons => Followed(t.names, Enumerate(t, s).names, s)
<1>1. CASE s.form \in Skipped
  BY <1>1 DEF Enumerate, Followed, Tuples, Sources, Skipped
<1>2. CASE s.form \notin Skipped
  <2> DEFINE v == [t EXCEPT !.reasons = @ + (IF s.form = "unbalanced" THEN 1 ELSE 0)]
             u == Uses(v, s)
  <2>1. v \in Tuples /\ v.names = t.names /\ v.reasons >= t.reasons
    BY DEF Tuples
  <2> HIDE DEF v
  <2>2. /\ u \in Tuples
        /\ u.reasons >= v.reasons
        /\ v.names \subseteq u.names
        /\ u.reasons = v.reasons => \A n \in v.names : Occurs(s, n) => ClassifyUse(s, n) # "escape"
        /\ s.form \in {"alias", "split"} /\ s.reads \in v.names => s.binds \in u.names
    BY <2>1, UsesAre
  <2>3. t.reasons \in Nat /\ v.reasons \in Nat /\ u.reasons \in Nat  BY <2>1, <2>2 DEF Tuples
  <2>4. Enumerate(t, s) =
          IF ~Origin(s) THEN u
          ELSE IF s.form = "composed" THEN [u EXCEPT !.origins = @ + 1, !.reasons = @ + 1]
          ELSE [u EXCEPT !.origins = @ + 1, !.bound = @ + 1, !.names = @ \cup {s.binds}]
    BY <1>2 DEF Enumerate, v
  <2> HIDE DEF u
  <2>5. CASE ~Origin(s)
    <3>1. Enumerate(t, s) = u /\ s.form # "composed" /\ s.form \notin Sources  BY <2>4, <2>5 DEF Origin
    <3> QED BY <2>1, <2>2, <2>3, <3>1 DEF Followed
  <2>6. CASE s.form = "composed"
    <3>1. Enumerate(t, s) = [u EXCEPT !.origins = @ + 1, !.reasons = @ + 1]  BY <2>4, <2>6 DEF Origin
    <3>2. Enumerate(t, s) \in Tuples /\ Enumerate(t, s).reasons = u.reasons + 1
      <4> DEFINE u1 == [u EXCEPT !.origins = u.origins + 1]
                 u2 == [u1 EXCEPT !.reasons = u.reasons + 1]
      <4>1. Enumerate(t, s) = u2  BY <3>1
      <4>2. u1 \in Tuples /\ u.reasons + 1 \in Nat  BY <2>2 DEF Tuples
      <4> HIDE DEF u1
      <4>3. u2 \in Tuples /\ u2.reasons = u.reasons + 1  BY <4>2 DEF Tuples
      <4> HIDE DEF u2
      <4> QED BY <4>1, <4>3
    <3> QED BY <2>1, <2>2, <2>3, <3>2
  <2>7. CASE Origin(s) /\ s.form # "composed"
    <3>1. Enumerate(t, s) = [u EXCEPT !.origins = @ + 1, !.bound = @ + 1, !.names = @ \cup {s.binds}]
      BY <2>4, <2>7
    <3>2. s.binds \in FlowNames  BY DEF Statement
    <3>3. /\ Enumerate(t, s) \in Tuples /\ Enumerate(t, s).reasons = u.reasons
          /\ Enumerate(t, s).names = u.names \cup {s.binds}
      <4> DEFINE u1 == [u EXCEPT !.origins = u.origins + 1]
                 u2 == [u1 EXCEPT !.bound = u.bound + 1]
                 u3 == [u2 EXCEPT !.names = u.names \cup {s.binds}]
      <4>1. Enumerate(t, s) = u3  BY <3>1
      <4>2. u1 \in Tuples /\ u1.reasons = u.reasons /\ u.bound + 1 \in Nat /\ u.names \cup {s.binds} \subseteq FlowNames
        BY <2>2, <3>2 DEF Tuples
      <4> HIDE DEF u1
      <4>3. u2 \in Tuples /\ u2.reasons = u1.reasons  BY <4>2 DEF Tuples
      <4> HIDE DEF u2
      <4>4. u3 \in Tuples /\ u3.reasons = u2.reasons /\ u3.names = u.names \cup {s.binds}  BY <4>2, <4>3 DEF Tuples
      <4> HIDE DEF u3
      <4> QED BY <4>1, <4>2, <4>3, <4>4
    <3> QED BY <2>1, <2>2, <2>3, <2>7, <3>3 DEF Followed
  <2> QED BY <2>5, <2>6, <2>7
<1> QED BY <1>1, <1>2

\* The tuple after each statement of a file.
LEMMA EnumeratedAre ==
  ASSUME NEW start \in Tuples, NEW q \in Seq(Statement)
  PROVE  /\ \A i \in 0..Len(q) : Enumerated(start, q)[i] \in Tuples
         /\ Enumerated(start, q)[0] = start
         /\ \A i \in 1..Len(q) : Enumerated(start, q)[i] = Enumerate(Enumerated(start, q)[i - 1], q[i])
<1> DEFINE n == Len(q)
           S == Tuples
           z == start
           step == [x \in (1..n) \X S |-> Enumerate(x[2], q[x[1]])]
           P(g) == g = [i \in 0..n |-> IF i = 0 THEN z ELSE Enumerate(g[i - 1], q[i])]
           c == Enumerated(start, q)
<1>1. n \in Nat /\ z \in S /\ \A i \in 1..n : q[i] \in Statement  OBVIOUS
<1>2. \A i \in 1..n, v \in S : Enumerate(v, q[i]) \in S  BY <1>1, EnumerateIs
<1>3. \A i \in 1..n, v \in S : step[<<i, v>>] = Enumerate(v, q[i])  OBVIOUS
<1>4. step \in [(1..n) \X S -> S]
  <2>1. \A x \in (1..n) \X S : x[1] \in 1..n /\ x[2] \in S  OBVIOUS
  <2>2. \A x \in (1..n) \X S : Enumerate(x[2], q[x[1]]) \in S  BY <1>2, <2>1
  <2> HIDE DEF S, n
  <2> QED BY <2>2
<1>5. c = CHOOSE g : P(g)  BY DEF Enumerated
<1> HIDE DEF step, S, z, n
<1>6. Recursion(n, S, z, step)  BY <1>1, <1>4 DEF Recursion
<1>7. PICK f \in [0..n -> S] : Follows(f, n, z, step)  BY <1>6, RecursionHas
<1>8. P(f)
  <2>1. \A i \in 0..n : f[i] = IF i = 0 THEN z ELSE Enumerate(f[i - 1], q[i])
    <3> TAKE i \in 0..n
    <3>1. CASE i = 0  BY <1>7, <3>1 DEF Follows
    <3>2. CASE i # 0
      <4>1. i \in 1..n /\ i - 1 \in 0..n  BY <1>1, <3>2
      <4>2. f[i] = step[<<i, f[i - 1]>>] /\ f[i - 1] \in S  BY <1>7, <4>1 DEF Follows
      <4>3. f[i] = Enumerate(f[i - 1], q[i])  BY <1>3, <4>1, <4>2
      <4> QED BY <3>2, <4>3
    <3> QED BY <3>1, <3>2
  <2>2. f = [i \in 0..n |-> f[i]]  OBVIOUS
  <2> QED BY <2>1, <2>2
<1>9. P(c)
  <2> HIDE DEF P, c
  <2> QED BY <1>5, <1>8
<1> HIDE DEF c
<1>10. \A i \in 0..n : c[i] = IF i = 0 THEN z ELSE Enumerate(c[i - 1], q[i])  BY <1>9, Zenon
<1>11. c[0] = z /\ \A i \in 1..n : c[i] = Enumerate(c[i - 1], q[i])
  <2>1. 0 \in 0..n /\ \A i \in 1..n : i \in 0..n /\ i # 0  BY <1>1
  <2> QED BY <1>10, <2>1
<1>12. \A i \in 1..n : c[i - 1] \in S => c[i] = step[<<i, c[i - 1]>>]
  BY <1>3, <1>11
<1>13. \A i \in 0..n : c[i] \in S  BY <1>6, <1>11, <1>12, RecursionStays, SMTT(30)
<1> QED BY <1>11, <1>13 DEF c, S, z, n

FlowStates == [hot : SUBSET FlowNames, left : BOOLEAN, sunk : BOOLEAN]
NoFlow == [hot |-> {}, left |-> FALSE, sunk |-> FALSE]

LEMMA HotIs ==
  ASSUME NEW t \in FlowStates, NEW h \in SUBSET FlowNames, NEW r, r = [t EXCEPT !.hot = h]
  PROVE  r \in FlowStates /\ r.hot = h /\ r.left = t.left /\ r.sunk = t.sunk
BY DEF FlowStates

\* One statement moves values between names of the patch, or lets one leave.
Moved(t, s, forms, carriers, r) ==
  /\ r.hot \subseteq t.hot \cup {s.binds}
  /\ s.binds \in r.hot =>
       \/ s.form \in carriers /\ Binds(s) /\ ~Origin(s) /\ s.reads \in t.hot
       \/ Origin(s) /\ s.form \in forms
       \/ s.binds \in t.hot
  /\ r.left => \/ t.left
               \/ s.reads \in t.hot /\ s.form \in Leaving \cup {"mutate", "masked"}
  /\ r.sunk => \/ t.sunk
               \/ s.reads \in t.hot /\ s.form = "sink"

LEMMA FlowIs ==
  ASSUME NEW t \in FlowStates, NEW s \in Statement, NEW forms, NEW carriers
  PROVE  Flow(t, s, forms, carriers) \in FlowStates /\ Moved(t, s, forms, carriers, Flow(t, s, forms, carriers))
<1> DEFINE hot == s.reads \in t.hot
           h == IF Origin(s) THEN (IF s.form \in forms THEN t.hot \cup {s.binds} ELSE t.hot)
                ELSE IF hot /\ s.form \in carriers THEN t.hot \cup {s.binds} ELSE t.hot \ {s.binds}
           a == t.sunk \/ (hot /\ s.form = "sink")
           b == t.left \/ (hot /\ s.form \in Leaving \cup {"mutate", "masked"})
           r == Flow(t, s, forms, carriers)
<1>1. t.hot \subseteq FlowNames /\ s.binds \in FlowNames  BY DEF FlowStates, Statement
<1> SUFFICES r \in FlowStates /\ Moved(t, s, forms, carriers, r)  OBVIOUS
<1>2. CASE Origin(s) \/ Binds(s)
  <2>1. r = [t EXCEPT !.hot = h]  BY <1>2 DEF Flow
  <2>2. h \in SUBSET FlowNames  BY <1>1
  <2>3. r \in FlowStates /\ r.hot = h /\ r.left = t.left /\ r.sunk = t.sunk
    <3> HIDE DEF h, r
    <3> QED BY <2>1, <2>2, HotIs
  <2> HIDE DEF r
  <2>4. /\ s.binds \in h => \/ s.form \in carriers /\ Binds(s) /\ ~Origin(s) /\ s.reads \in t.hot
                            \/ Origin(s) /\ s.form \in forms
                            \/ s.binds \in t.hot
        /\ h \subseteq t.hot \cup {s.binds}
    BY <1>2
  <2> HIDE DEF h
  <2> QED BY <2>3, <2>4, Zenon DEF Moved
<1>3. CASE ~(Origin(s) \/ Binds(s))
  <2>1. r = [t EXCEPT !.sunk = a, !.left = b]  BY <1>3 DEF Flow
  <2>2. a \in BOOLEAN /\ b \in BOOLEAN  BY Zenon
  <2>3. r \in FlowStates /\ r.hot = t.hot /\ r.left = b /\ r.sunk = a
    <3> HIDE DEF a, b, r, hot
    <3> DEFINE r1 == [t EXCEPT !.sunk = a]
    <3>1. r1 \in FlowStates /\ r1.hot = t.hot /\ r1.sunk = a  BY <2>2 DEF FlowStates
    <3>2. r = [r1 EXCEPT !.left = b]  BY <2>1
    <3> HIDE DEF r1
    <3> QED BY <2>2, <3>1, <3>2 DEF FlowStates
  <2> HIDE DEF r
  <2>5. r.hot \subseteq t.hot \cup {s.binds} /\ (s.binds \in r.hot => s.binds \in t.hot)  BY <2>3
  <2> QED BY <2>3, <2>5, Zenon DEF Moved
<1> QED BY <1>2, <1>3

\* The flow of values after each statement of a file.
LEMMA FlowsAre ==
  ASSUME NEW q \in Seq(Statement), NEW forms, NEW carriers
  PROVE  /\ \A i \in 0..Len(q) : Flows(q, forms, carriers)[i] \in FlowStates
         /\ Flows(q, forms, carriers)[0] = NoFlow
         /\ \A i \in 1..Len(q) : Flows(q, forms, carriers)[i] = Flow(Flows(q, forms, carriers)[i - 1], q[i], forms, carriers)
<1> DEFINE n == Len(q)
           S == FlowStates
           z == NoFlow
           step == [x \in (1..n) \X S |-> Flow(x[2], q[x[1]], forms, carriers)]
           P(g) == g = [i \in 0..n |-> IF i = 0 THEN z ELSE Flow(g[i - 1], q[i], forms, carriers)]
           c == Flows(q, forms, carriers)
<1>1. n \in Nat /\ z \in S /\ \A i \in 1..n : q[i] \in Statement  BY DEF NoFlow, FlowStates
<1>2. \A i \in 1..n, v \in S : Flow(v, q[i], forms, carriers) \in S  BY <1>1, FlowIs
<1>3. \A i \in 1..n, v \in S : step[<<i, v>>] = Flow(v, q[i], forms, carriers)  OBVIOUS
<1>4. step \in [(1..n) \X S -> S]
  <2>1. \A x \in (1..n) \X S : x[1] \in 1..n /\ x[2] \in S  OBVIOUS
  <2>2. \A x \in (1..n) \X S : Flow(x[2], q[x[1]], forms, carriers) \in S  BY <1>2, <2>1
  <2> HIDE DEF S, n
  <2> QED BY <2>2
<1>5. c = CHOOSE g : P(g)  BY DEF Flows, NoFlow
<1> HIDE DEF step, S, z, n
<1>6. Recursion(n, S, z, step)  BY <1>1, <1>4 DEF Recursion
<1>7. PICK f \in [0..n -> S] : Follows(f, n, z, step)  BY <1>6, RecursionHas
<1>8. P(f)
  <2>1. \A i \in 0..n : f[i] = IF i = 0 THEN z ELSE Flow(f[i - 1], q[i], forms, carriers)
    <3> TAKE i \in 0..n
    <3>1. CASE i = 0  BY <1>7, <3>1 DEF Follows
    <3>2. CASE i # 0
      <4>1. i \in 1..n /\ i - 1 \in 0..n  BY <1>1, <3>2
      <4>2. f[i] = step[<<i, f[i - 1]>>] /\ f[i - 1] \in S  BY <1>7, <4>1 DEF Follows
      <4>3. f[i] = Flow(f[i - 1], q[i], forms, carriers)  BY <1>3, <4>1, <4>2
      <4> QED BY <3>2, <4>3
    <3> QED BY <3>1, <3>2
  <2>2. f = [i \in 0..n |-> f[i]]  OBVIOUS
  <2> QED BY <2>1, <2>2
<1>9. P(c)
  <2> HIDE DEF P, c
  <2> QED BY <1>5, <1>8
<1> HIDE DEF c
<1>10. \A i \in 0..n : c[i] = IF i = 0 THEN z ELSE Flow(c[i - 1], q[i], forms, carriers)  BY <1>9, Zenon
<1>11. c[0] = z /\ \A i \in 1..n : c[i] = Flow(c[i - 1], q[i], forms, carriers)
  <2>1. 0 \in 0..n /\ \A i \in 1..n : i \in 0..n /\ i # 0  BY <1>1
  <2> QED BY <1>10, <2>1
<1>12. \A i \in 1..n : c[i - 1] \in S => c[i] = step[<<i, c[i - 1]>>]
  BY <1>3, <1>11
<1>13. \A i \in 0..n : c[i] \in S  BY <1>6, <1>11, <1>12, RecursionStays
<1> QED BY <1>11, <1>13 DEF c, S, z, n

Rebind(v, s) == IF s.form \in {"alias", "derive", "expression"} /\ s.reads \in v THEN v \cup {s.binds} ELSE v

\* The names known to be sensitive after each line of a pass.
LEMMA ReboundAre ==
  ASSUME NEW names \in SUBSET FlowNames, NEW q \in Seq(Statement)
  PROVE  /\ \A i \in 0..Len(q) : Rebound(names, q)[i] \in (SUBSET FlowNames)
         /\ Rebound(names, q)[0] = names
         /\ \A i \in 1..Len(q) : Rebound(names, q)[i] = Rebind(Rebound(names, q)[i - 1], q[i])
<1> DEFINE n == Len(q)
           S == (SUBSET FlowNames)
           z == names
           step == [x \in (1..n) \X S |-> Rebind(x[2], q[x[1]])]
           P(g) == g = [i \in 0..n |-> IF i = 0 THEN z ELSE Rebind(g[i - 1], q[i])]
           c == Rebound(names, q)
<1>1. n \in Nat /\ z \in S /\ \A i \in 1..n : q[i] \in Statement  OBVIOUS
<1>2. \A i \in 1..n, v \in S : Rebind(v, q[i]) \in S  BY <1>1 DEF Rebind, Statement
<1>3. \A i \in 1..n, v \in S : step[<<i, v>>] = Rebind(v, q[i])  OBVIOUS
<1>4. step \in [(1..n) \X S -> S]
  <2>1. \A x \in (1..n) \X S : x[1] \in 1..n /\ x[2] \in S  OBVIOUS
  <2>2. \A x \in (1..n) \X S : Rebind(x[2], q[x[1]]) \in S  BY <1>2, <2>1
  <2> HIDE DEF S, n
  <2> QED BY <2>2
<1>5. c = CHOOSE g : P(g)  BY DEF Rebound, Rebind
<1> HIDE DEF step, S, z, n
<1>6. Recursion(n, S, z, step)  BY <1>1, <1>4 DEF Recursion
<1>7. PICK f \in [0..n -> S] : Follows(f, n, z, step)  BY <1>6, RecursionHas
<1>8. P(f)
  <2>1. \A i \in 0..n : f[i] = IF i = 0 THEN z ELSE Rebind(f[i - 1], q[i])
    <3> TAKE i \in 0..n
    <3>1. CASE i = 0  BY <1>7, <3>1 DEF Follows
    <3>2. CASE i # 0
      <4>1. i \in 1..n /\ i - 1 \in 0..n  BY <1>1, <3>2
      <4>2. f[i] = step[<<i, f[i - 1]>>] /\ f[i - 1] \in S  BY <1>7, <4>1 DEF Follows
      <4>3. f[i] = Rebind(f[i - 1], q[i])  BY <1>3, <4>1, <4>2
      <4> QED BY <3>2, <4>3
    <3> QED BY <3>1, <3>2
  <2>2. f = [i \in 0..n |-> f[i]]  OBVIOUS
  <2> QED BY <2>1, <2>2
<1>9. P(c)
  <2> HIDE DEF P, c
  <2> QED BY <1>5, <1>8
<1> HIDE DEF c
<1>10. \A i \in 0..n : c[i] = IF i = 0 THEN z ELSE Rebind(c[i - 1], q[i])  BY <1>9, Zenon
<1>11. c[0] = z /\ \A i \in 1..n : c[i] = Rebind(c[i - 1], q[i])
  <2>1. 0 \in 0..n /\ \A i \in 1..n : i \in 0..n /\ i # 0  BY <1>1
  <2> QED BY <1>10, <2>1
<1>12. \A i \in 1..n : c[i - 1] \in S => c[i] = step[<<i, c[i - 1]>>]
  BY <1>3, <1>11
<1>13. \A i \in 0..n : c[i] \in S  BY <1>6, <1>11, <1>12, RecursionStays, SMTT(30)
<1> QED BY <1>11, <1>13 DEF c, S, z, n

NoTuple == [names |-> {}, origins |-> 0, bound |-> 0, uses |-> 0, classified |-> 0, reasons |-> 0]
Fresh(t) == [t EXCEPT !.names = {}]
AllAdded == [FlowFiles -> Seq(Statement)]

LEMMA FreshIs ==
  ASSUME NEW t \in Tuples
  PROVE  Fresh(t) \in Tuples /\ Fresh(t).names = {} /\ Fresh(t).reasons = t.reasons
BY DEF Fresh, Tuples

LEMMA LanguagesAre ==
  Len(Languages) \in Nat /\ FlowFiles = 1..Len(Languages)
BY FlowAssumption DEF FlowFiles

\* The tuple after each file.
LEMMA WalkedAre ==
  ASSUME NEW files \in AllAdded
  PROVE  /\ \A i \in 0..Len(Languages) : Walked(files)[i] \in Tuples
         /\ Walked(files)[0] = NoTuple
         /\ \A i \in 1..Len(Languages) : Walked(files)[i] = Enumerated(Fresh(Walked(files)[i - 1]), files[i])[Len(files[i])]
<1> DEFINE n == Len(Languages)
           S == Tuples
           z == NoTuple
           step == [x \in (1..n) \X S |-> Enumerated(Fresh(x[2]), files[x[1]])[Len(files[x[1]])]]
           P(g) == g = [i \in 0..n |-> IF i = 0 THEN z ELSE Enumerated(Fresh(g[i - 1]), files[i])[Len(files[i])]]
           c == Walked(files)
<1>1. n \in Nat /\ z \in S /\ \A i \in 1..n : files[i] \in Seq(Statement)
  BY LanguagesAre DEF NoTuple, Tuples, AllAdded
<1>2. \A i \in 1..n, v \in S : Enumerated(Fresh(v), files[i])[Len(files[i])] \in S
  <2> TAKE i \in 1..n, v \in S
  <2>1. files[i] \in Seq(Statement) /\ Fresh(v) \in Tuples  BY <1>1, FreshIs
  <2>2. \A j \in 0..Len(files[i]) : Enumerated(Fresh(v), files[i])[j] \in Tuples  BY <2>1, EnumeratedAre
  <2>3. Len(files[i]) \in 0..Len(files[i])  BY <2>1
  <2> QED BY <2>2, <2>3
<1>3. \A i \in 1..n, v \in S : step[<<i, v>>] = Enumerated(Fresh(v), files[i])[Len(files[i])]  OBVIOUS
<1>4. step \in [(1..n) \X S -> S]
  <2>1. \A x \in (1..n) \X S : x[1] \in 1..n /\ x[2] \in S  OBVIOUS
  <2>2. \A x \in (1..n) \X S : Enumerated(Fresh(x[2]), files[x[1]])[Len(files[x[1]])] \in S  BY <1>2, <2>1
  <2> HIDE DEF S, n
  <2> QED BY <2>2
<1>5. c = CHOOSE g : P(g)  BY DEF Walked, Fresh, NoTuple
<1> HIDE DEF step, S, z, n
<1>6. Recursion(n, S, z, step)  BY <1>1, <1>4 DEF Recursion
<1>7. PICK f \in [0..n -> S] : Follows(f, n, z, step)  BY <1>6, RecursionHas
<1>8. P(f)
  <2>1. \A i \in 0..n : f[i] = IF i = 0 THEN z ELSE Enumerated(Fresh(f[i - 1]), files[i])[Len(files[i])]
    <3> TAKE i \in 0..n
    <3>1. CASE i = 0  BY <1>7, <3>1 DEF Follows
    <3>2. CASE i # 0
      <4>1. i \in 1..n /\ i - 1 \in 0..n  BY <1>1, <3>2
      <4>2. f[i] = step[<<i, f[i - 1]>>] /\ f[i - 1] \in S  BY <1>7, <4>1 DEF Follows
      <4>3. f[i] = Enumerated(Fresh(f[i - 1]), files[i])[Len(files[i])]  BY <1>3, <4>1, <4>2
      <4> QED BY <3>2, <4>3
    <3> QED BY <3>1, <3>2
  <2>2. f = [i \in 0..n |-> f[i]]  OBVIOUS
  <2> QED BY <2>1, <2>2
<1>9. P(c)
  <2> HIDE DEF P, c
  <2> QED BY <1>5, <1>8
<1> HIDE DEF c
<1>10. \A i \in 0..n : c[i] = IF i = 0 THEN z ELSE Enumerated(Fresh(c[i - 1]), files[i])[Len(files[i])]  BY <1>9, Zenon
<1>11. c[0] = z /\ \A i \in 1..n : c[i] = Enumerated(Fresh(c[i - 1]), files[i])[Len(files[i])]
  <2>1. 0 \in 0..n /\ \A i \in 1..n : i \in 0..n /\ i # 0  BY <1>1
  <2> QED BY <1>10, <2>1
<1>12. \A i \in 1..n : c[i - 1] \in S => c[i] = step[<<i, c[i - 1]>>]
  BY <1>3, <1>11
<1>13. \A i \in 0..n : c[i] \in S  BY <1>6, <1>11, <1>12, RecursionStays
<1> QED BY <1>11, <1>13 DEF c, S, z, n

\* What never shrinks from one place to the next is at its largest at the last.
LEMMA LastIsLargest ==
  ASSUME NEW n \in Nat, NEW r, \A i \in 0..n : r[i] \in Nat, \A i \in 1..n : r[i - 1] <= r[i]
  PROVE  \A i \in 0..n : r[i] <= r[n]
<1> DEFINE G == {k \in 0..n : \A i \in 0..k : r[i] <= r[k]}
<1>1. 0 \in G  OBVIOUS
<1>2. ASSUME NEW k \in 0..(n - 1), k \in G PROVE k + 1 \in G
  <2>1. k + 1 \in 1..n /\ (k + 1) - 1 = k /\ k + 1 \in 0..n /\ k \in 0..n  OBVIOUS
  <2>2. r[k] <= r[k + 1] /\ r[k] \in Nat /\ r[k + 1] \in Nat  BY <2>1
  <2>3. ASSUME NEW i \in 0..(k + 1) PROVE r[i] <= r[k + 1]
    <3>1. i \in 0..n /\ (i \in 0..k \/ i = k + 1)  OBVIOUS
    <3>2. CASE i \in 0..k
      <4>1. r[i] <= r[k] /\ r[i] \in Nat  BY <1>2, <3>1, <3>2
      <4> QED BY <2>2, <4>1
    <3>3. CASE i = k + 1  BY <2>2, <3>3
    <3> QED BY <3>1, <3>2, <3>3
  <2> QED BY <2>1, <2>3
<1> HIDE DEF G
<1>3. \A k \in 0..n : k \in G  BY <1>1, <1>2, UpTo
<1>4. n \in G  BY <1>3
<1> QED BY <1>4 DEF G

\* A reason recorded anywhere in a file is there at its end.
LEMMA ReasonsStay ==
  ASSUME NEW start \in Tuples, NEW q \in Seq(Statement)
  PROVE  /\ start.reasons <= Enumerated(start, q)[Len(q)].reasons
         /\ Enumerated(start, q)[Len(q)].reasons = 0 =>
              \A i \in 0..Len(q) : Enumerated(start, q)[i].reasons = 0
<1> DEFINE n == Len(q)
           e == Enumerated(start, q)
           r == [i \in 0..n |-> e[i].reasons]
<1>1. n \in Nat /\ \A i \in 1..n : q[i] \in Statement  OBVIOUS
<1>2. /\ \A i \in 0..n : e[i] \in Tuples
      /\ e[0] = start
      /\ \A i \in 1..n : e[i] = Enumerate(e[i - 1], q[i])
  BY EnumeratedAre
<1> HIDE DEF e, n
<1>3. \A i \in 0..n : r[i] = e[i].reasons /\ r[i] \in Nat  BY <1>2 DEF Tuples
<1>4. ASSUME NEW i \in 1..n PROVE r[i - 1] <= r[i]
  <2>1. i - 1 \in 0..n /\ i \in 0..n /\ q[i] \in Statement  BY <1>1
  <2>2. e[i - 1] \in Tuples /\ e[i] = Enumerate(e[i - 1], q[i])  BY <1>2, <2>1
  <2>3. e[i].reasons >= e[i - 1].reasons  BY <2>1, <2>2, EnumerateIs
  <2> QED BY <1>3, <2>1, <2>3
<1> HIDE DEF r
<1>5. \A i \in 0..n : r[i] <= r[n]  BY <1>1, <1>3, <1>4, LastIsLargest
<1>6. 0 \in 0..n /\ n \in 0..n  BY <1>1
<1>7. start.reasons <= e[n].reasons  BY <1>2, <1>3, <1>5, <1>6
<1>8. e[n].reasons = 0 => \A i \in 0..n : e[i].reasons = 0
  <2> SUFFICES ASSUME e[n].reasons = 0, NEW i \in 0..n PROVE e[i].reasons = 0  OBVIOUS
  <2> QED BY <1>3, <1>5, <1>6
<1> QED BY <1>7, <1>8 DEF e, n

AllOrigins == Sources \cup {"composed"}

\* One statement with no new reason keeps what is sensitive among the names, and nothing leaves.
LEMMA FollowedHolds ==
  ASSUME NEW s \in Statement, NEW old, NEW new, Followed(old, new, s),
         NEW t \in FlowStates, NEW r \in FlowStates, Moved(t, s, AllOrigins, Carrying, r),
         t.hot \subseteq old, ~t.left, s.form # "masked"
  PROVE  r.hot \subseteq new /\ ~r.left
<1>1. s.reads \in t.hot => s.form \notin Leaving \cup {"mutate", "expression", "embedded"}
  <2> SUFFICES ASSUME s.reads \in t.hot, s.form \in Leaving \cup {"mutate", "expression", "embedded"} PROVE FALSE
    OBVIOUS
  <2>1. s.form \notin Sources \cup {"composed", "overwrite", "alias", "split"} \cup Skipped \cup Observing
    BY DEF Leaving, Sources, Observing, Skipped
  <2>2. Occurs(s, s.reads) /\ ClassifyUse(s, s.reads) = "escape"  BY <2>1 DEF Occurs, ClassifyUse
  <2> QED BY <2>1, <2>2 DEF Followed
<1>2. s.binds \in r.hot => s.binds \in new
  <2> SUFFICES ASSUME s.binds \in r.hot PROVE s.binds \in new  OBVIOUS
  <2>1. CASE s.form \in Carrying /\ s.reads \in t.hot  BY <1>1, <2>1 DEF Followed, Carrying
  <2>2. CASE Origin(s)  BY <2>2 DEF Origin, Followed
  <2>3. CASE s.binds \in t.hot  BY <2>3 DEF Followed
  <2> QED BY <2>1, <2>2, <2>3 DEF Moved
<1>3. r.hot \subseteq new  BY <1>2 DEF Moved, Followed
<1>4. ~r.left  BY <1>1 DEF Moved
<1> QED BY <1>3, <1>4

\* In a file whose enumeration found no reason, no sensitive value leaves.
LEMMA CleanFileKeeps ==
  ASSUME NEW start \in Tuples, NEW q \in Seq(Statement), Enumerated(start, q)[Len(q)].reasons = 0,
         \A j \in 1..Len(q) : q[j].form # "masked"
  PROVE  ~Flows(q, AllOrigins, Carrying)[Len(q)].left
<1> DEFINE n == Len(q)
           e == Enumerated(start, q)
           w == Flows(q, AllOrigins, Carrying)
           G == {i \in 0..n : w[i].hot \subseteq e[i].names /\ ~w[i].left}
<1>1. n \in Nat /\ \A i \in 1..n : q[i] \in Statement /\ q[i].form # "masked"  OBVIOUS
<1>2. /\ \A i \in 0..n : e[i] \in Tuples
      /\ \A i \in 1..n : e[i] = Enumerate(e[i - 1], q[i])
  BY EnumeratedAre
<1>3. \A i \in 0..n : e[i].reasons = 0  BY ReasonsStay
<1>4. /\ \A i \in 0..n : w[i] \in FlowStates
      /\ w[0] = NoFlow
      /\ \A i \in 1..n : w[i] = Flow(w[i - 1], q[i], AllOrigins, Carrying)
  BY FlowsAre
<1> HIDE DEF e, n, w
<1>5. 0 \in G  BY <1>1, <1>4 DEF NoFlow
<1>6. ASSUME NEW k \in 0..(n - 1), k \in G PROVE k + 1 \in G
  <2>1. k + 1 \in 1..n /\ (k + 1) - 1 = k /\ k + 1 \in 0..n /\ k \in 0..n  BY <1>1
  <2> DEFINE i == k + 1
  <2>2. /\ q[i] \in Statement /\ e[k] \in Tuples /\ e[i] = Enumerate(e[k], q[i])
        /\ e[k].reasons = 0 /\ e[i].reasons = 0
        /\ w[k] \in FlowStates /\ w[i] \in FlowStates /\ w[i] = Flow(w[k], q[i], AllOrigins, Carrying)
        /\ w[k].hot \subseteq e[k].names /\ ~w[k].left /\ q[i].form # "masked"
    BY <1>1, <1>2, <1>3, <1>4, <1>6, <2>1
  <2> HIDE DEF i
  <2>3. Followed(e[k].names, e[i].names, q[i])  BY <2>2, EnumerateIs
  <2>4. Moved(w[k], q[i], AllOrigins, Carrying, w[i])  BY <2>2, FlowIs
  <2>5. w[i].hot \subseteq e[i].names /\ ~w[i].left  BY <2>2, <2>3, <2>4, FollowedHolds
  <2>6. i \in 0..n  BY <2>1 DEF i
  <2>7. i \in G  BY <2>5, <2>6
  <2> QED BY <2>7 DEF i
<1> HIDE DEF G
<1>7. \A i \in 0..n : i \in G  BY <1>1, <1>5, <1>6, UpTo
<1>8. n \in G  BY <1>1, <1>7
<1> QED BY <1>8 DEF G, w, n

\* A walk over all files without a reason had none in any file.
LEMMA CleanWalkKeeps ==
  ASSUME NEW files \in AllAdded, Walked(files)[Len(Languages)].reasons = 0, NEW f \in FlowFiles,
         \A j \in 1..Len(files[f]) : files[f][j].form # "masked"
  PROVE  ~Flows(files[f], AllOrigins, Carrying)[Len(files[f])].left
<1> DEFINE n == Len(Languages)
           w == Walked(files)
           r == [i \in 0..n |-> w[i].reasons]
           end(i) == Enumerated(Fresh(w[i - 1]), files[i])[Len(files[i])]
<1>1. n \in Nat /\ f \in 1..n /\ \A i \in 1..n : files[i] \in Seq(Statement)
  BY LanguagesAre DEF AllAdded
<1>2. /\ \A i \in 0..n : w[i] \in Tuples
      /\ \A i \in 1..n : w[i] = end(i)
  BY WalkedAre
<1>3. w[n].reasons = 0  OBVIOUS
<1> HIDE DEF w, n
<1>4. \A i \in 0..n : r[i] = w[i].reasons /\ r[i] \in Nat  BY <1>2 DEF Tuples
<1>5. ASSUME NEW i \in 1..n PROVE r[i - 1] <= r[i]
  <2>1. i - 1 \in 0..n /\ i \in 0..n /\ files[i] \in Seq(Statement)  BY <1>1
  <2>2. w[i - 1] \in Tuples /\ w[i] = end(i)  BY <1>2, <2>1
  <2>3. Fresh(w[i - 1]) \in Tuples /\ Fresh(w[i - 1]).reasons = w[i - 1].reasons  BY <2>2, FreshIs
  <2>4. Fresh(w[i - 1]).reasons <= end(i).reasons  BY <2>1, <2>3, ReasonsStay
  <2>5. w[i - 1].reasons <= w[i].reasons  BY <2>2, <2>3, <2>4
  <2> QED BY <1>4, <2>1, <2>5
<1> HIDE DEF r
<1>6. \A i \in 0..n : r[i] <= r[n]  BY <1>1, <1>4, <1>5, LastIsLargest
<1>7. f \in 0..n /\ n \in 0..n /\ f - 1 \in 0..n  BY <1>1
<1>8. w[f].reasons = 0
  <2>1. r[f] <= r[n] /\ r[n] = 0 /\ r[f] \in Nat  BY <1>3, <1>4, <1>6, <1>7
  <2> QED BY <1>4, <1>7, <2>1
<1>9. end(f).reasons = 0  BY <1>1, <1>2, <1>8
<1>10. Fresh(w[f - 1]) \in Tuples  BY <1>2, <1>7, FreshIs
<1>11. files[f] \in Seq(Statement) /\ \A j \in 1..Len(files[f]) : files[f][j].form # "masked"  BY <1>1
<1> QED BY <1>9, <1>10, <1>11, CleanFileKeeps

\* A pass over the lines only adds names.
LEMMA RoundGrows ==
  ASSUME NEW names \in SUBSET FlowNames, NEW q \in Seq(Statement)
  PROVE  /\ Rebound(names, q)[Len(q)] \in SUBSET FlowNames
         /\ \A i \in 0..Len(q) : Rebound(names, q)[i] \subseteq Rebound(names, q)[Len(q)]
         /\ names \subseteq Rebound(names, q)[Len(q)]
         /\ \A i \in 0..Len(q) : names \subseteq Rebound(names, q)[i]
<1> DEFINE n == Len(q)
           e == Rebound(names, q)
           G == {k \in 0..n : \A i \in 0..k : names \subseteq e[i] /\ e[i] \subseteq e[k]}
<1>1. n \in Nat  OBVIOUS
<1>2. /\ \A i \in 0..n : e[i] \in SUBSET FlowNames
      /\ e[0] = names
      /\ \A i \in 1..n : e[i] = Rebind(e[i - 1], q[i])
  BY ReboundAre
<1> HIDE DEF e, n
<1>3. 0 \in G
  <2>1. \A i \in 0..0 : i = 0  OBVIOUS
  <2> QED BY <1>1, <1>2, <2>1
<1>4. ASSUME NEW k \in 0..(n - 1), k \in G PROVE k + 1 \in G
  <2>1. k + 1 \in 1..n /\ (k + 1) - 1 = k /\ k + 1 \in 0..n /\ k \in 0..k  BY <1>1
  <2>2. e[k + 1] = Rebind(e[k], q[k + 1])  BY <1>2, <2>1
  <2>3. e[k] \subseteq e[k + 1]  BY <2>2 DEF Rebind
  <2>4. \A i \in 0..k : names \subseteq e[i] /\ e[i] \subseteq e[k]  BY <1>4
  <2>5. ASSUME NEW i \in 0..(k + 1) PROVE names \subseteq e[i] /\ e[i] \subseteq e[k + 1]
    <3>1. i \in 0..k \/ i = k + 1  OBVIOUS
    <3>2. names \subseteq e[k]  BY <2>1, <2>4
    <3> QED BY <2>3, <2>4, <3>1, <3>2
  <2> QED BY <2>1, <2>5
<1> HIDE DEF G
<1>5. \A k \in 0..n : k \in G  BY <1>1, <1>3, <1>4, UpTo
<1>6. n \in G /\ n \in 0..n /\ 0 \in 0..n  BY <1>1, <1>5
<1>7. \A i \in 0..n : names \subseteq e[i] /\ e[i] \subseteq e[n]  BY <1>6 DEF G
<1> QED BY <1>2, <1>6, <1>7 DEF e, n

Direct == {"alias", "expression"}
SinkOf(q, names) == \E j \in 1..Len(q) : q[j].form = "sink" /\ q[j].reads \in names

\* What a hidden prompt returned, when it reaches a sink, does so under a name the first pass
\* over the file finds.
LEMMA FirstPassFinds ==
  ASSUME NEW q \in Seq(Statement), NEW names \in SUBSET FlowNames,
         \A j \in 1..Len(q) : q[j].form = "concealed" => q[j].binds \in names,
         Flows(q, {"concealed"}, Direct)[Len(q)].sunk
  PROVE  SinkOf(q, Rebound(names, q)[Len(q)])
<1> DEFINE n == Len(q)
           e == Rebound(names, q)
           w == Flows(q, {"concealed"}, Direct)
           sinks == {j \in 1..n : q[j].form = "sink" /\ q[j].reads \in e[n]}
           G == {i \in 0..n : w[i].hot \subseteq e[i] /\ (w[i].sunk => sinks # {})}
<1>1. n \in Nat /\ \A i \in 1..n : q[i] \in Statement  OBVIOUS
<1>2. /\ \A i \in 0..n : e[i] \in SUBSET FlowNames
      /\ \A i \in 1..n : e[i] = Rebind(e[i - 1], q[i])
  BY ReboundAre
<1>3. /\ \A i \in 0..n : w[i] \in FlowStates
      /\ w[0] = NoFlow
      /\ \A i \in 1..n : w[i] = Flow(w[i - 1], q[i], {"concealed"}, Direct)
  BY FlowsAre
<1>4. \A i \in 0..n : e[i] \subseteq e[n] /\ names \subseteq e[i]  BY RoundGrows
<1>5. \A j \in 1..n : q[j].form = "concealed" => q[j].binds \in names  OBVIOUS
<1>6. w[n].sunk  OBVIOUS
<1> HIDE DEF e, n, w
<1>7. 0 \in G  BY <1>1, <1>3 DEF NoFlow
<1>8. ASSUME NEW k \in 0..(n - 1), k \in G PROVE k + 1 \in G
  <2> DEFINE i == k + 1
  <2>1. i \in 1..n /\ i - 1 = k /\ i \in 0..n /\ k \in 0..n  BY <1>1
  <2>2. /\ q[i] \in Statement /\ w[k] \in FlowStates /\ w[i] = Flow(w[k], q[i], {"concealed"}, Direct)
        /\ w[k].hot \subseteq e[k] /\ (w[k].sunk => sinks # {})
        /\ e[i] = Rebind(e[k], q[i]) /\ names \subseteq e[i] /\ e[k] \subseteq e[n]
    BY <1>1, <1>2, <1>3, <1>4, <1>8, <2>1
  <2>3. Moved(w[k], q[i], {"concealed"}, Direct, w[i])  BY <2>2, FlowIs
  <2>4. i \in 0..n /\ i \in 1..n  BY <2>1
  <2> HIDE DEF i, sinks
  <2>5. e[k] \subseteq e[i]  BY <2>2 DEF Rebind
  <2>6. q[i].binds \in w[i].hot => q[i].binds \in e[i]
    <3> SUFFICES ASSUME q[i].binds \in w[i].hot PROVE q[i].binds \in e[i]  OBVIOUS
    <3>1. CASE q[i].form \in Direct /\ q[i].reads \in w[k].hot  BY <2>2, <3>1 DEF Rebind, Direct
    <3>2. CASE q[i].form \in {"concealed"}  BY <1>5, <2>2, <2>4, <3>2
    <3>3. CASE q[i].binds \in w[k].hot  BY <2>2, <2>5, <3>3
    <3> QED BY <2>3, <3>1, <3>2, <3>3 DEF Moved
  <2>7. w[i].hot \subseteq e[i]  BY <2>2, <2>3, <2>5, <2>6 DEF Moved
  <2>8. w[i].sunk => sinks # {}
    <3>1. q[i].reads \in w[k].hot /\ q[i].form = "sink" => i \in sinks  BY <2>2, <2>4 DEF sinks
    <3> QED BY <2>2, <2>3, <3>1 DEF Moved
  <2>9. i \in G  BY <2>4, <2>7, <2>8
  <2> QED BY <2>9 DEF i
<1> HIDE DEF G
<1>9. \A i \in 0..n : i \in G  BY <1>1, <1>7, <1>8, UpTo
<1>10. n \in G  BY <1>1, <1>9
<1>11. sinks # {}  BY <1>6, <1>10 DEF G
<1> QED BY <1>11 DEF SinkOf, sinks, e, n

FlowTypeOK == added \in AllAdded

LEMMA FlowTyped == FlowSpec => []FlowTypeOK
<1>1. FlowInit => FlowTypeOK  BY DEF FlowInit, FlowTypeOK, AllAdded
<1>2. FlowTypeOK /\ [FlowNext]_flowVars => FlowTypeOK'
  <2> SUFFICES ASSUME FlowTypeOK, FlowNext PROVE FlowTypeOK'
    BY DEF FlowTypeOK, flowVars
  <2>1. PICK f \in FlowFiles, k \in FlowForms, b \in FlowNames, r \in FlowNames :
          added' = [added EXCEPT ![f] = Append(@, [form |-> k, binds |-> b, reads |-> r])]
    BY DEF FlowNext
  <2> DEFINE s == [form |-> k, binds |-> b, reads |-> r]
  <2>2. s \in Statement  BY DEF Statement
  <2> HIDE DEF s
  <2>3. added' = [added EXCEPT ![f] = Append(@, s)]  BY <2>1 DEF s
  <2>4. added[f] \in Seq(Statement)  BY DEF FlowTypeOK, AllAdded
  <2>5. Append(added[f], s) \in Seq(Statement)  BY <2>2, <2>4
  <2> QED BY <2>3, <2>5 DEF FlowTypeOK, AllAdded
<1> QED BY <1>1, <1>2, PTL DEF FlowSpec

LEMMA PassIsLocal ==
  ASSUME FlowTypeOK
  PROVE  FlowPassIsLocal
<1> SUFFICES ASSUME FlowOutcome = "PASS", NEW f \in FlowFiles
             PROVE  (~Masked(f) => ~LeftFile(f)) /\ (f \in Scanned => LanguageOf(f) = "FULL")
  BY DEF FlowPassIsLocal
<1>1. LocalUseComplete /\ CombineCoverage \in {"FULL", "NOT_APPLICABLE"}  BY DEF FlowOutcome
<1>2. ASSUME ~Masked(f) PROVE ~LeftFile(f)
  <2>1. Walked(added)[Len(Languages)].reasons = 0  BY <1>1 DEF LocalUseComplete, Tuple
  <2>2. added[f] \in Seq(Statement)  BY DEF FlowTypeOK, AllAdded
  <2>3. \A j \in 1..Len(added[f]) : added[f][j].form # "masked"  BY <1>2, <2>2 DEF Masked, Of
  <2>4. ~Flows(added[f], AllOrigins, Carrying)[Len(added[f])].left
    BY <2>1, <2>3, CleanWalkKeeps DEF FlowTypeOK
  <2> QED BY <2>4 DEF LeftFile, Flowing, Of, AllOrigins
<1>3. ASSUME f \in Scanned PROVE LanguageOf(f) = "FULL"
  <2>1. LanguageOf(f) \in {"FULL", "PARTIAL", "UNSUPPORTED", "NONE"}
    BY FlowAssumption DEF LanguageOf, FlowFiles
  <2>2. LanguageOf(f) # "NONE"  BY <1>3 DEF Scanned
  <2>3. LanguageOf(f) \in {LanguageOf(g) : g \in Scanned}  BY <1>3
  <2> QED BY <1>1, <2>1, <2>2, <2>3 DEF CombineCoverage
<1> QED BY <1>2, <1>3

LEMMA SinksAreFlagged ==
  ASSUME FlowTypeOK
  PROVE  SinkIsFlagged
<1> SUFFICES ASSUME NEW f \in Scanned, Flowing(f, {"concealed"}, Direct).sunk
             PROVE  FlowOutcome = "WARN"
  BY DEF SinkIsFlagged, Direct
<1> DEFINE q == Of(f)
           s0 == SensitiveNames(f)
           s1 == Round(f, s0)
           s2 == Round(f, s1)
           s3 == Round(f, s2)
<1>1. f \in FlowFiles /\ q \in Seq(Statement)
  BY DEF Scanned, FlowTypeOK, AllAdded, Of
<1>2. \A j \in 1..Len(q) : j \in DOMAIN q /\ q[j] \in Statement  BY <1>1
<1>3. DOMAIN q = 1..Len(q)  BY <1>1
<1>4. s0 \in SUBSET FlowNames /\ \A j \in 1..Len(q) : q[j].form = "concealed" => q[j].binds \in s0
  BY <1>2, <1>3 DEF SensitiveNames, Statement
<1>5. Flows(q, {"concealed"}, Direct)[Len(q)].sunk  BY DEF Flowing
<1> HIDE DEF s0
<1>6. SinkOf(q, s1)
  <2> HIDE DEF q
  <2>1. SinkOf(q, Rebound(s0, q)[Len(q)])  BY <1>1, <1>4, <1>5, FirstPassFinds
  <2> QED BY <2>1 DEF Round, q
<1>7. /\ s1 \in SUBSET FlowNames
      /\ s2 \in SUBSET FlowNames /\ s1 \subseteq s2
      /\ s3 \in SUBSET FlowNames /\ s2 \subseteq s3
  <2>1. \A s \in SUBSET FlowNames : Round(f, s) \in SUBSET FlowNames /\ s \subseteq Round(f, s)
    BY <1>1, RoundGrows DEF Round
  <2> HIDE DEF q
  <2> QED BY <1>4, <2>1
<1>8. PICK j \in 1..Len(q) : q[j].form = "sink" /\ q[j].reads \in s1  BY <1>6 DEF SinkOf
<1>9. Propagated(f) = s3  BY DEF Propagated, s0
<1>10. <<f, q[j].reads>> \in ExposurePairs
  <2>1. q[j].reads \in FlowNames /\ q[j].reads \in s3 /\ j \in DOMAIN q  BY <1>2, <1>7, <1>8
  <2> DEFINE m == q[j].reads
             p == <<f, m>>
  <2>2. q[j].form = "sink" /\ q[j].reads = m  BY <1>8
  <2> HIDE DEF m
  <2>3. p \in Scanned \X FlowNames /\ p[1] = f /\ p[2] = m  BY <2>1, <2>2
  <2> HIDE DEF p
  <2>4. p[2] \in Propagated(p[1])  BY <1>9, <2>1, <2>2, <2>3
  <2>5. \E i \in DOMAIN Of(p[1]) : Of(p[1])[i].form = "sink" /\ Of(p[1])[i].reads = p[2]
    BY <2>1, <2>2, <2>3
  <2>6. p \in ExposurePairs  BY <2>3, <2>4, <2>5 DEF ExposurePairs
  <2> QED BY <2>2, <2>6 DEF p
<1> QED BY <1>10 DEF FlowOutcome

\* Flow evidence (deriveConcernEvidence, deriveSemanticSensitivity) is neither a false all-clear
\* nor silent about a sink, for any number of files, names and statements.
THEOREM FlowHolds == FlowSpec => []FlowEvidenceIsSound
<1>1. FlowTypeOK => FlowEvidenceIsSound  BY PassIsLocal, SinksAreFlagged DEF FlowEvidenceIsSound
<1> QED BY <1>1, FlowTyped, PTL

-----------------------------------------------------------------------------
(* ScopeDiscovery: the lexical states of a file's patch. *)

ScopePatches == [kind : ScopeFiles, boundary : BOOLEAN, lines : Seq(ScopeLines)]
LexicalStates == {"UNKNOWN", "CODE", "JS_TEMPLATE", "BLOCK_COMMENT"}
Lexed(f, side, m, v) == IF m \in Seen(f, side) THEN NextLexical(v, f.lines[m].has) ELSE v
Parsed(f, side, m, v) == IF m \in Seen(f, side) THEN TrueNext(v, f.lines[m].has) ELSE v

\* The classifier's state after each line.
LEMMA StatesAre ==
  ASSUME NEW f \in ScopePatches, NEW side
  PROVE  /\ \A i \in 0..Len(f.lines) : StatesOf(f, side)[i] \in LexicalStates
         /\ StatesOf(f, side)[0] = StartState(f)
         /\ \A i \in 1..Len(f.lines) : StatesOf(f, side)[i] = Lexed(f, side, i, StatesOf(f, side)[i - 1])
<1> DEFINE n == Len(f.lines)
           S == LexicalStates
           z == StartState(f)
           step == [x \in (1..n) \X S |-> Lexed(f, side, x[1], x[2])]
           P(g) == g = [i \in 0..n |-> IF i = 0 THEN z ELSE Lexed(f, side, i, g[i - 1])]
           c == StatesOf(f, side)
<1>1. n \in Nat /\ z \in S  BY DEF StartState, LexicalStates, ScopePatches
<1>2. \A i \in 1..n, v \in S : Lexed(f, side, i, v) \in S  BY DEF Lexed, NextLexical, LexicalStates
<1>3. \A i \in 1..n, v \in S : step[<<i, v>>] = Lexed(f, side, i, v)  OBVIOUS
<1>4. step \in [(1..n) \X S -> S]
  <2>1. \A x \in (1..n) \X S : x[1] \in 1..n /\ x[2] \in S  OBVIOUS
  <2>2. \A x \in (1..n) \X S : Lexed(f, side, x[1], x[2]) \in S  BY <1>2, <2>1
  <2> HIDE DEF S, n
  <2> QED BY <2>2
<1>5. c = CHOOSE g : P(g)  BY DEF StatesOf, Lexed
<1> HIDE DEF step, S, z, n
<1>6. Recursion(n, S, z, step)  BY <1>1, <1>4 DEF Recursion
<1>7. PICK h \in [0..n -> S] : Follows(h, n, z, step)  BY <1>6, RecursionHas
<1>8. P(h)
  <2>1. \A i \in 0..n : h[i] = IF i = 0 THEN z ELSE Lexed(f, side, i, h[i - 1])
    <3> TAKE i \in 0..n
    <3>1. CASE i = 0  BY <1>7, <3>1 DEF Follows
    <3>2. CASE i # 0
      <4>1. i \in 1..n /\ i - 1 \in 0..n  BY <1>1, <3>2
      <4>2. h[i] = step[<<i, h[i - 1]>>] /\ h[i - 1] \in S  BY <1>7, <4>1 DEF Follows
      <4>3. h[i] = Lexed(f, side, i, h[i - 1])  BY <1>3, <4>1, <4>2
      <4> QED BY <3>2, <4>3
    <3> QED BY <3>1, <3>2
  <2>2. h = [i \in 0..n |-> h[i]]  OBVIOUS
  <2> QED BY <2>1, <2>2
<1>9. P(c)
  <2> HIDE DEF P, c
  <2> QED BY <1>5, <1>8
<1> HIDE DEF c
<1>10. \A i \in 0..n : c[i] = IF i = 0 THEN z ELSE Lexed(f, side, i, c[i - 1])  BY <1>9, Zenon
<1>11. c[0] = z /\ \A i \in 1..n : c[i] = Lexed(f, side, i, c[i - 1])
  <2>1. 0 \in 0..n /\ \A i \in 1..n : i \in 0..n /\ i # 0  BY <1>1
  <2> QED BY <1>10, <2>1
<1>12. \A i \in 1..n : c[i - 1] \in S => c[i] = step[<<i, c[i - 1]>>]
  BY <1>3, <1>11
<1>13. \A i \in 0..n : c[i] \in S  BY <1>6, <1>11, <1>12, RecursionStays
<1> QED BY <1>11, <1>13 DEF c, S, z, n

\* The language's state after each line.
LEMMA TrueStatesAre ==
  ASSUME NEW f \in ScopePatches, NEW side, NEW start \in LexicalStates
  PROVE  /\ \A i \in 0..Len(f.lines) : TrueStates(f, side, start)[i] \in LexicalStates
         /\ TrueStates(f, side, start)[0] = start
         /\ \A i \in 1..Len(f.lines) : TrueStates(f, side, start)[i] = Parsed(f, side, i, TrueStates(f, side, start)[i - 1])
<1> DEFINE n == Len(f.lines)
           S == LexicalStates
           z == start
           step == [x \in (1..n) \X S |-> Parsed(f, side, x[1], x[2])]
           P(g) == g = [i \in 0..n |-> IF i = 0 THEN z ELSE Parsed(f, side, i, g[i - 1])]
           c == TrueStates(f, side, start)
<1>1. n \in Nat /\ z \in S  BY DEF ScopePatches
<1>2. \A i \in 1..n, v \in S : Parsed(f, side, i, v) \in S  BY DEF Parsed, TrueNext, LexicalStates
<1>3. \A i \in 1..n, v \in S : step[<<i, v>>] = Parsed(f, side, i, v)  OBVIOUS
<1>4. step \in [(1..n) \X S -> S]
  <2>1. \A x \in (1..n) \X S : x[1] \in 1..n /\ x[2] \in S  OBVIOUS
  <2>2. \A x \in (1..n) \X S : Parsed(f, side, x[1], x[2]) \in S  BY <1>2, <2>1
  <2> HIDE DEF S, n
  <2> QED BY <2>2
<1>5. c = CHOOSE g : P(g)  BY DEF TrueStates, Parsed
<1> HIDE DEF step, S, z, n
<1>6. Recursion(n, S, z, step)  BY <1>1, <1>4 DEF Recursion
<1>7. PICK h \in [0..n -> S] : Follows(h, n, z, step)  BY <1>6, RecursionHas
<1>8. P(h)
  <2>1. \A i \in 0..n : h[i] = IF i = 0 THEN z ELSE Parsed(f, side, i, h[i - 1])
    <3> TAKE i \in 0..n
    <3>1. CASE i = 0  BY <1>7, <3>1 DEF Follows
    <3>2. CASE i # 0
      <4>1. i \in 1..n /\ i - 1 \in 0..n  BY <1>1, <3>2
      <4>2. h[i] = step[<<i, h[i - 1]>>] /\ h[i - 1] \in S  BY <1>7, <4>1 DEF Follows
      <4>3. h[i] = Parsed(f, side, i, h[i - 1])  BY <1>3, <4>1, <4>2
      <4> QED BY <3>2, <4>3
    <3> QED BY <3>1, <3>2
  <2>2. h = [i \in 0..n |-> h[i]]  OBVIOUS
  <2> QED BY <2>1, <2>2
<1>9. P(c)
  <2> HIDE DEF P, c
  <2> QED BY <1>5, <1>8
<1> HIDE DEF c
<1>10. \A i \in 0..n : c[i] = IF i = 0 THEN z ELSE Parsed(f, side, i, c[i - 1])  BY <1>9, Zenon
<1>11. c[0] = z /\ \A i \in 1..n : c[i] = Parsed(f, side, i, c[i - 1])
  <2>1. 0 \in 0..n /\ \A i \in 1..n : i \in 0..n /\ i # 0  BY <1>1
  <2> QED BY <1>10, <2>1
<1>12. \A i \in 1..n : c[i - 1] \in S => c[i] = step[<<i, c[i - 1]>>]
  BY <1>3, <1>11
<1>13. \A i \in 0..n : c[i] \in S  BY <1>6, <1>11, <1>12, RecursionStays
<1> QED BY <1>11, <1>13 DEF c, S, z, n

LEMMA LinesAre ==
  ASSUME NEW f \in ScopePatches
  PROVE  /\ Len(f.lines) \in Nat /\ DOMAIN f.lines = 1..Len(f.lines)
         /\ \A i \in 1..Len(f.lines) : f.lines[i] \in ScopeLines
BY DEF ScopePatches

\* Where nothing misleads it, and from a boundary, the classifier is where the language is.
LEMMA ClassifierIsRight ==
  ASSUME NEW f \in ScopePatches, NEW side, f.boundary, ~Misled(f)
  PROVE  \A m \in 0..Len(f.lines) :
           StatesOf(f, side)[m] = TrueStates(f, side, "CODE")[m] /\ StatesOf(f, side)[m] # "UNKNOWN"
<1> DEFINE n == Len(f.lines)
           a == StatesOf(f, side)
           b == TrueStates(f, side, "CODE")
           G == {m \in 0..n : a[m] = b[m] /\ a[m] # "UNKNOWN"}
<1>1. n \in Nat /\ DOMAIN f.lines = 1..n  BY LinesAre
<1>2. /\ \A i \in 0..n : a[i] \in LexicalStates
      /\ a[0] = StartState(f)
      /\ \A i \in 1..n : a[i] = Lexed(f, side, i, a[i - 1])
  BY StatesAre
<1>3. /\ b[0] = "CODE"
      /\ \A i \in 1..n : b[i] = Parsed(f, side, i, b[i - 1])
  <2>1. "CODE" \in LexicalStates  BY DEF LexicalStates
  <2> QED BY <2>1, TrueStatesAre
<1> HIDE DEF n, a, b
<1>4. 0 \in G  BY <1>1, <1>2, <1>3 DEF StartState
<1>5. ASSUME NEW k \in 0..(n - 1), k \in G PROVE k + 1 \in G
  <2> DEFINE i == k + 1
             has == f.lines[i].has
  <2>1. i \in 1..n /\ i - 1 = k /\ i \in 0..n /\ k \in 0..n  BY <1>1
  <2>2. a[i] = Lexed(f, side, i, a[k]) /\ b[i] = Parsed(f, side, i, a[k]) /\ a[k] \in LexicalStates \ {"UNKNOWN"}
    BY <1>2, <1>3, <1>5, <2>1
  <2>3. "quoted tick" \notin has /\ "opens late" \notin has  BY <1>1, <2>1 DEF Misled
  <2>4. has \cap {"tick", "quoted tick"} # {} <=> "tick" \in has  BY <2>3
  <2>5. NextLexical(a[k], has) = TrueNext(a[k], has) /\ NextLexical(a[k], has) # "UNKNOWN"
    <3> HIDE DEF has
    <3> QED BY <2>2, <2>3, <2>4 DEF NextLexical, TrueNext, LexicalStates
  <2>6. a[i] = b[i] /\ a[i] # "UNKNOWN"
    BY <2>2, <2>5 DEF Lexed, Parsed
  <2>7. i \in G
    <3> HIDE DEF i
    <3> QED BY <2>1, <2>6
  <2> QED BY <2>7
<1> HIDE DEF G
<1>6. \A m \in 0..n : m \in G  BY <1>1, <1>4, <1>5, UpTo
<1> QED BY <1>6 DEF G, a, b, n

\* In the middle of nobody knows what, the classifier stays silent.
LEMMA UnknownStays ==
  ASSUME NEW f \in ScopePatches, NEW side, ~f.boundary
  PROVE  \A m \in 0..Len(f.lines) : StatesOf(f, side)[m] = "UNKNOWN"
<1> DEFINE n == Len(f.lines)
           a == StatesOf(f, side)
           G == {m \in 0..n : a[m] = "UNKNOWN"}
<1>1. n \in Nat  BY LinesAre
<1>2. a[0] = StartState(f) /\ \A i \in 1..n : a[i] = Lexed(f, side, i, a[i - 1])  BY StatesAre
<1> HIDE DEF n, a
<1>3. 0 \in G  BY <1>1, <1>2 DEF StartState
<1>4. ASSUME NEW k \in 0..(n - 1), k \in G PROVE k + 1 \in G
  <2>1. k + 1 \in 1..n /\ (k + 1) - 1 = k /\ k + 1 \in 0..n  BY <1>1
  <2>2. a[k + 1] = Lexed(f, side, k + 1, "UNKNOWN")  BY <1>2, <1>4, <2>1
  <2> QED BY <2>1, <2>2 DEF Lexed, NextLexical
<1> HIDE DEF G
<1>5. \A m \in 0..n : m \in G  BY <1>1, <1>3, <1>4, UpTo
<1> QED BY <1>5 DEF G, a, n

\* What is proven irrelevant is inert by the language's own rules.
LEMMA IrrelevantIsInert ==
  ASSUME NEW f \in ScopePatches, ~Misled(f), NEW side, NEW i \in Irrelevant(f, side)
  PROVE  TrulyInert(f, i)
<1> DEFINE has == f.lines[i].has
           v == StatesOf(f, side)[i - 1]
<1>1. i \in 1..Len(f.lines) /\ f.lines[i].side = side /\ ProvenIn(v, has)
  BY LinesAre DEF Irrelevant
<1>2. i - 1 \in 0..Len(f.lines) /\ f.lines[i] \in ScopeLines  BY <1>1, LinesAre
<1>3. f.boundary
  <2> SUFFICES ASSUME ~f.boundary PROVE FALSE  OBVIOUS
  <2>1. v = "UNKNOWN"  BY <1>2, UnknownStays
  <2> QED BY <1>1, <2>1 DEF ProvenIn
<1>4. v = TrueStates(f, side, "CODE")[i - 1]  BY <1>2, <1>3, ClassifierIsRight
<1>5. \/ v = "CODE" /\ has \cap {"comment", "opens"} # {}
      \/ v = "BLOCK_COMMENT" /\ ("closes" \in has => "rest" \notin has)
  <2> HIDE DEF v, has
  <2> QED BY <1>1 DEF ProvenIn
<1>6. TrueStarts(f) = {"CODE"}  BY <1>3 DEF TrueStarts
<1> HIDE DEF v
<1> QED BY <1>1, <1>4, <1>5, <1>6 DEF TrulyInert

\* The statement that line e ends is accounted for as a whole.
AccountedAt(f, e) ==
  \/ "type import" \in Says(f, e)
  \/ f.lines[e].side = "ADDED" /\ "scalar" \in Says(f, e)
  \/ {a.full : a \in {b \in Attributions(f) : b.at = e}} = {TRUE}

AccountedLine(f, i) ==
  \/ f.kind \in {"prose", "mdx"} /\ "prose" \in f.lines[i].has
  \/ f.kind = "svg" /\ "markup" \notin f.lines[i].has
  \/ TrulyInert(f, i)
  \/ /\ f.kind \notin {"prose", "config"} \cup Hybrid
     /\ \E e \in DOMAIN f.lines : i \in StatementLines(f, e) /\ AccountedAt(f, e)

AccountedIn(f) ==
  /\ f.kind \notin {"opaque", "dependency", "data"}
  /\ ~Misled(f) => \A i \in Changed(f) : AccountedLine(f, i)

LEMMA LeastIn ==
  ASSUME NEW n \in Nat, NEW T \in SUBSET (1..n), T # {}
  PROVE  \E j \in T : \A k \in T : j <= k
<1> DEFINE G == {m \in 0..n : (\E x \in T : x <= m) => \E j \in T : \A k \in T : j <= k}
<1>1. 0 \in G  OBVIOUS
<1>2. ASSUME NEW k \in 0..(n - 1), k \in G PROVE k + 1 \in G
  <2>1. k + 1 \in 0..n  OBVIOUS
  <2>2. CASE \E x \in T : x <= k  BY <1>2, <2>1, <2>2
  <2>3. CASE \A x \in T : x > k
    <3>1. \A x \in T : x <= k + 1 => \A y \in T : x <= y  BY <2>3
    <3> QED BY <2>1, <3>1
  <2> QED BY <2>2, <2>3
<1> HIDE DEF G
<1>3. \A k \in 0..n : k \in G  BY <1>1, <1>2, UpTo
<1>4. n \in G  BY <1>3
<1>5. \E x \in T : x <= n
  <2>1. PICK x \in T : TRUE  OBVIOUS
  <2> QED BY <2>1
<1> QED BY <1>4, <1>5 DEF G

LEMMA RemainingAre ==
  ASSUME NEW f \in ScopePatches, NEW side
  PROVE  /\ Remaining(f, side) \in SUBSET (1..Len(f.lines))
         /\ \A i \in Remaining(f, side) : f.lines[i].side = side
BY LinesAre DEF Remaining

\* A line that stays in the analysis is part of a statement.
LEMMA EveryLineEnds ==
  ASSUME NEW f \in ScopePatches, NEW side, NEW i \in Remaining(f, side)
  PROVE  \E e \in Statements(f, side) : i \in StatementLines(f, e)
<1> DEFINE n == Len(f.lines)
           K == Remaining(f, side)
           ends(x) == \E e \in Statements(f, side) : x \in StatementLines(f, e)
           G == {d \in 0..n : \A x \in K : x > n - d => ends(x)}
<1>1. n \in Nat /\ K \in SUBSET (1..n) /\ \A x \in K : f.lines[x].side = side  BY LinesAre, RemainingAre
<1>2. \A x \in K : \A j : j \in StatementLines(f, x) <=> j \in K /\ j <= x /\ \A m \in K : j <= m /\ m < x => JoinsNext(f, m)
  BY <1>1 DEF StatementLines
<1>3. \A x : x \in Statements(f, side) <=> x \in K /\ ~(JoinsNext(f, x) /\ \E j \in K : x < j)
  BY DEF Statements
<1> HIDE DEF n, K
<1>4. 0 \in G
  <2>1. \A x \in K : ~(x > n - 0)  BY <1>1
  <2> QED BY <1>1, <2>1
<1>5. ASSUME NEW d \in 0..(n - 1), d \in G PROVE d + 1 \in G
  <2>1. d + 1 \in 0..n  BY <1>1
  <2>2. ASSUME NEW x \in K, x > n - (d + 1) PROVE ends(x)
    <3>1. CASE x > n - d  BY <1>5, <3>1
    <3>2. CASE ~(JoinsNext(f, x) /\ \E j \in K : x < j)
      <4>1. x \in Statements(f, side)  BY <1>3, <3>2
      <4>2. x \in StatementLines(f, x)  BY <1>1, <1>2
      <4> QED BY <4>1, <4>2
    <3>3. CASE x <= n - d /\ JoinsNext(f, x) /\ \E j \in K : x < j
      <4> DEFINE T == {j \in K : x < j}
      <4>1. T \in SUBSET (1..n) /\ T # {}  BY <1>1, <3>3
      <4>2. PICK j \in T : \A k \in T : j <= k  BY <1>1, <4>1, LeastIn
      <4>3. j \in K /\ x < j /\ j > n - d  BY <1>1, <2>2, <3>3, <4>2
      <4>4. PICK e \in Statements(f, side) : j \in StatementLines(f, e)  BY <1>5, <4>3
      <4>5. e \in K /\ j <= e /\ \A m \in K : j <= m /\ m < e => JoinsNext(f, m)  BY <1>2, <1>3, <4>4
      <4>6. x <= e  BY <1>1, <4>3, <4>5
      <4>7. ASSUME NEW m \in K, x <= m, m < e PROVE JoinsNext(f, m)
        <5>1. m = x \/ m \in T  BY <1>1, <4>7
        <5>2. CASE m = x  BY <3>3, <5>2
        <5>3. CASE m \in T  BY <4>2, <4>5, <4>7, <5>3
        <5> QED BY <5>1, <5>2, <5>3
      <4>8. x \in StatementLines(f, e)  BY <1>2, <4>5, <4>6, <4>7
      <4> QED BY <4>4, <4>8
    <3> QED BY <1>1, <3>1, <3>2, <3>3
  <2> QED BY <2>1, <2>2
<1> HIDE DEF G
<1>6. \A d \in 0..n : d \in G  BY <1>1, <1>4, <1>5, UpTo
<1>7. n \in G  BY <1>1, <1>6
<1>8. i \in K /\ i > n - n  BY <1>1 DEF K
<1> QED BY <1>7, <1>8 DEF G

LEMMA AttributionsAre ==
  ASSUME NEW f, NEW i
  PROVE  /\ Covered(Attributions(f), i)
              <=> i \in FullyAt(f, Statements(f, "ADDED")) /\ i \notin PartlyAt(f, Statements(f, "ADDED"))
         /\ Covered(Attributions(f), i) => {a.full : a \in {b \in Attributions(f) : b.at = i}} = {TRUE}
<1> DEFINE s == Statements(f, "ADDED")
           P == FullyAt(f, s)
           Q == PartlyAt(f, s)
           A == [at : P, full : {TRUE}] \cup [at : Q, full : {FALSE}]
<1>1. Attributions(f) = A  BY DEF Attributions
<1> HIDE DEF s, P, Q
<1>2. \A a \in A : \/ a.at \in P /\ a.full = TRUE
                   \/ a.at \in Q /\ a.full = FALSE
  OBVIOUS
<1>3. i \in P => \E a \in A : a.at = i /\ a.full = TRUE
  <2> SUFFICES ASSUME i \in P PROVE \E a \in A : a.at = i /\ a.full = TRUE  OBVIOUS
  <2> WITNESS [at |-> i, full |-> TRUE] \in A
  <2> QED OBVIOUS
<1>4. i \in Q => \E a \in A : a.at = i /\ a.full = FALSE
  <2> SUFFICES ASSUME i \in Q PROVE \E a \in A : a.at = i /\ a.full = FALSE  OBVIOUS
  <2> WITNESS [at |-> i, full |-> FALSE] \in A
  <2> QED OBVIOUS
<1> HIDE DEF A
<1>5. Covered(A, i) <=> i \in P /\ i \notin Q
  <2>1. ASSUME Covered(A, i) PROVE i \in P /\ i \notin Q  BY <1>2, <1>4, <2>1 DEF Covered
  <2>2. ASSUME i \in P, i \notin Q PROVE Covered(A, i)  BY <1>2, <1>3, <2>2 DEF Covered
  <2> QED BY <2>1, <2>2
<1>6. ASSUME Covered(A, i) PROVE {a.full : a \in {b \in A : b.at = i}} = {TRUE}
  <2>1. PICK x \in A : x.at = i /\ x.full = TRUE  BY <1>3, <1>5, <1>6
  <2>2. \A a \in A : a.at = i => a.full = TRUE  BY <1>2, <1>5, <1>6
  <2> DEFINE B == {b \in A : b.at = i}
  <2>3. x \in B /\ \A a \in B : a.full = TRUE  BY <2>1, <2>2
  <2> HIDE DEF B
  <2>4. {a.full : a \in B} = {TRUE}  BY <2>1, <2>3
  <2> QED BY <2>4 DEF B
<1> QED BY <1>1, <1>5, <1>6 DEF P, Q, s

LEMMA CompleteIsAccounted ==
  ASSUME NEW f \in ScopePatches, Residual(f) = {}, ~Opaque(f)
  PROVE  AccountedIn(f)
<1>1. f.kind \notin {"opaque", "dependency", "data"} /\ (f.kind = "prose" => PositivelyInert(f))  BY DEF Opaque
<1> SUFFICES ASSUME ~Misled(f), NEW i \in Changed(f) PROVE AccountedLine(f, i)
  BY <1>1 DEF AccountedIn
<1>2. CASE PositivelyInert(f)
  BY <1>2 DEF PositivelyInert, PlainProse, AccountedLine, Hybrid
<1>3. CASE ~PositivelyInert(f)
  <2>1. Analyzed(f) /\ f.kind # "prose"  BY <1>1, <1>3 DEF Analyzed
  <2>2. CASE i \in Irrelevant(f, "ADDED") \cup Irrelevant(f, "REMOVED")
    BY <2>2, IrrelevantIsInert DEF AccountedLine
  <2>3. CASE i \notin Irrelevant(f, "ADDED") \cup Irrelevant(f, "REMOVED")
    <3>1. PICK side \in {"ADDED", "REMOVED"} : i \in Remaining(f, side)
      <4>1. i \in DOMAIN f.lines /\ f.lines[i].side \in {"ADDED", "REMOVED"}
        <5>1. i \in DOMAIN f.lines /\ f.lines[i].side # "CONTEXT"  BY DEF Changed
        <5>2. f.lines[i] \in ScopeLines  BY <5>1, LinesAre
        <5> QED BY <5>1, <5>2, ScopeAssumption DEF PatchLines, Sides
      <4> QED BY <2>3, <4>1 DEF Remaining
    <3>2. PICK e \in Statements(f, side) : i \in StatementLines(f, e)  BY <3>1, EveryLineEnds
    <3>3. e \in FileUnits(f) /\ e \in DOMAIN f.lines  BY <2>1, <3>2 DEF FileUnits, Statements, Remaining
    <3>4. f.kind \notin Hybrid \cup {"config"}
      <4> SUFFICES ASSUME f.kind \in Hybrid \cup {"config"} PROVE FALSE  OBVIOUS
      <4>1. FileCoverage(f) = "UNSUPPORTED"  BY DEF FileCoverage
      <4>2. Residual(f) = FileUnits(f)  BY <3>3, <4>1 DEF Residual
      <4> QED BY <3>3, <4>2
    <3>5. FileCoverage(f) # "UNSUPPORTED"  BY <3>4 DEF FileCoverage
    <3>6. Residual(f) = {j \in FileUnits(f) : ~Covered(Attributions(f), j) /\ ~EstablishesAbsence(f, j)}
      BY <3>4, <3>5 DEF Residual
    <3>7. Covered(Attributions(f), e) \/ EstablishesAbsence(f, e)  BY <3>3, <3>6
    <3>8. CASE EstablishesAbsence(f, e)
      <4>1. AccountedAt(f, e)  BY <3>8 DEF EstablishesAbsence, AccountedAt
      <4> QED BY <2>1, <3>2, <3>3, <3>4, <4>1 DEF AccountedLine
    <3>9. CASE Covered(Attributions(f), e)
      <4>1. {a.full : a \in {b \in Attributions(f) : b.at = e}} = {TRUE}  BY <3>9, AttributionsAre
      <4>2. AccountedAt(f, e)  BY <4>1 DEF AccountedAt
      <4> QED BY <2>1, <3>2, <3>3, <3>4, <4>2 DEF AccountedLine
    <3> QED BY <3>7, <3>8, <3>9
  <2> QED BY <2>2, <2>3
<1> QED BY <1>2, <1>3

-----------------------------------------------------------------------------
(* ScopeDiscovery: a file's patch that grew by a line. *)

Grown(f, g, n) ==
  /\ f \in ScopePatches /\ g \in ScopePatches
  /\ n \in Nat /\ Len(f.lines) = n /\ Len(g.lines) = n + 1
  /\ f.kind = g.kind /\ f.boundary = g.boundary
  /\ \A i \in 1..n : g.lines[i] = f.lines[i]

\* Of the places up to n the two sets hold the same.
Agree(s, u, n) == s \subseteq 1..n /\ u \subseteq 1..(n + 1) /\ \A i \in 1..n : i \in s <=> i \in u

LEMMA SameStates ==
  ASSUME NEW f, NEW g, NEW n, Grown(f, g, n), NEW side
  PROVE  \A m \in 0..n : StatesOf(g, side)[m] = StatesOf(f, side)[m]
<1> DEFINE a == StatesOf(f, side)
           b == StatesOf(g, side)
           G == {m \in 0..n : b[m] = a[m]}
<1>1. n \in Nat /\ DOMAIN f.lines = 1..n /\ DOMAIN g.lines = 1..(n + 1) /\ Len(f.lines) = n /\ Len(g.lines) = n + 1
  BY LinesAre DEF Grown
<1>2. a[0] = StartState(f) /\ \A i \in 1..n : a[i] = Lexed(f, side, i, a[i - 1])
  BY <1>1, StatesAre DEF Grown
<1>3. b[0] = StartState(g) /\ \A i \in 1..(n + 1) : b[i] = Lexed(g, side, i, b[i - 1])
  BY <1>1, StatesAre DEF Grown
<1> HIDE DEF a, b
<1>4. 0 \in G  BY <1>1, <1>2, <1>3 DEF StartState, Grown
<1>5. ASSUME NEW k \in 0..(n - 1), k \in G PROVE k + 1 \in G
  <2> DEFINE i == k + 1
  <2>1. i \in 1..n /\ i \in 1..(n + 1) /\ i - 1 = k /\ i \in 0..n  BY <1>1
  <2>2. a[i] = Lexed(f, side, i, a[k]) /\ b[i] = Lexed(g, side, i, a[k])  BY <1>2, <1>3, <1>5, <2>1
  <2>3. g.lines[i] = f.lines[i]  BY <2>1 DEF Grown
  <2> HIDE DEF i
  <2>4. i \in Seen(f, side) <=> i \in Seen(g, side)  BY <1>1, <2>1, <2>3 DEF Seen
  <2>5. b[i] = a[i]  BY <2>2, <2>3, <2>4 DEF Lexed
  <2>6. i \in G  BY <2>1, <2>5
  <2> QED BY <2>6 DEF i
<1> HIDE DEF G
<1>6. \A m \in 0..n : m \in G  BY <1>1, <1>4, <1>5, UpTo
<1> QED BY <1>6 DEF G, a, b

LEMMA SameIrrelevant ==
  ASSUME NEW f, NEW g, NEW n, Grown(f, g, n), NEW side
  PROVE  Agree(Irrelevant(f, side), Irrelevant(g, side), n)
<1>1. n \in Nat /\ DOMAIN f.lines = 1..n /\ DOMAIN g.lines = 1..(n + 1)
  BY LinesAre DEF Grown
<1>2. ASSUME NEW i \in 1..n PROVE i \in Irrelevant(f, side) <=> i \in Irrelevant(g, side)
  <2>1. i - 1 \in 0..n /\ i \in 1..(n + 1)  BY <1>1
  <2>2. \A m \in 0..n : StatesOf(g, side)[m] = StatesOf(f, side)[m]  BY SameStates
  <2>3. StatesOf(g, side)[i - 1] = StatesOf(f, side)[i - 1] /\ g.lines[i] = f.lines[i]
    BY <2>1, <2>2 DEF Grown
  <2> QED BY <1>1, <2>1, <2>3 DEF Irrelevant
<1> QED BY <1>1, <1>2 DEF Agree, Irrelevant

LEMMA SameRemaining ==
  ASSUME NEW f, NEW g, NEW n, Grown(f, g, n), NEW side
  PROVE  Agree(Remaining(f, side), Remaining(g, side), n)
<1>1. n \in Nat /\ DOMAIN f.lines = 1..n /\ DOMAIN g.lines = 1..(n + 1) /\ \A i \in 1..n : i \in 1..(n + 1)
  BY LinesAre DEF Grown
<1>2. Agree(Irrelevant(f, side), Irrelevant(g, side), n)  BY SameIrrelevant
<1>3. \A i \in 1..n : g.lines[i] = f.lines[i]  BY DEF Grown
<1> QED BY <1>1, <1>2, <1>3 DEF Agree, Remaining

\* What the lines above end is not changed by a line below.
LEMMA SaysStays ==
  ASSUME NEW f, NEW g, NEW n, Grown(f, g, n), NEW i \in 1..n
  PROVE  Says(g, i) = Says(f, i)
<1> DEFINE K == Remaining(f, f.lines[i].side)
           Q == Remaining(g, g.lines[i].side)
<1>1. n \in Nat /\ g.lines[i] = f.lines[i] /\ \A j \in 1..n : g.lines[j] = f.lines[j]  BY DEF Grown
<1>2. Agree(K, Q, n)  BY <1>1, SameRemaining
<1>3. StatementLines(f, i) = {j \in K : j <= i /\ \A m \in K : j <= m /\ m < i => JoinsNext(f, m)}  BY DEF StatementLines
<1>4. StatementLines(g, i) = {j \in Q : j <= i /\ \A m \in Q : j <= m /\ m < i => JoinsNext(g, m)}  BY DEF StatementLines
<1> HIDE DEF K, Q
<1>5. \A j \in 1..n : JoinsNext(g, j) <=> JoinsNext(f, j)  BY <1>1 DEF JoinsNext
<1>6. \A j \in Q : j <= i => j \in 1..n /\ j \in K  BY <1>1, <1>2 DEF Agree
<1>7. \A j \in K : j \in 1..n /\ j \in Q  BY <1>2 DEF Agree
<1>8. StatementLines(g, i) = StatementLines(f, i) /\ StatementLines(f, i) \subseteq 1..n
  <2>1. ASSUME NEW j \in StatementLines(f, i) PROVE j \in StatementLines(g, i) /\ j \in 1..n
    <3>1. j \in K /\ j <= i /\ \A m \in K : j <= m /\ m < i => JoinsNext(f, m)  BY <1>3, <2>1
    <3>2. ASSUME NEW m \in Q, j <= m, m < i PROVE JoinsNext(g, m)
      <4>1. m <= i
        <5>1. m \in 1..(n + 1)  BY <1>2 DEF Agree
        <5> QED BY <1>1, <3>2, <5>1
      <4>2. m \in 1..n /\ m \in K  BY <1>6, <4>1
      <4> QED BY <1>5, <3>1, <3>2, <4>2
    <3> QED BY <1>4, <1>7, <3>1, <3>2
  <2>2. ASSUME NEW j \in StatementLines(g, i) PROVE j \in StatementLines(f, i)
    <3>1. j \in Q /\ j <= i /\ \A m \in Q : j <= m /\ m < i => JoinsNext(g, m)  BY <1>4, <2>2
    <3>2. ASSUME NEW m \in K, j <= m, m < i PROVE JoinsNext(f, m)
      <4>1. m \in 1..n /\ m \in Q  BY <1>7
      <4> QED BY <1>5, <3>1, <3>2, <4>1
    <3> QED BY <1>3, <1>6, <3>1, <3>2
  <2> QED BY <2>1, <2>2
<1> DEFINE P == StatementLines(f, i)
           x == Detected \cap UNION {f.lines[j].has : j \in P}
           y == Detected \cap UNION {g.lines[j].has : j \in P}
<1>9. x = y
  <2>1. \A j \in P : g.lines[j] = f.lines[j]  BY <1>1, <1>8
  <2> HIDE DEF P
  <2> QED BY <2>1
<1> HIDE DEF P
<1>10. Says(f, i) = IF P \subseteq {i} THEN f.lines[i].has
                   ELSE x \cup (IF "environment" \in x THEN f.lines[i].joined \ {"scalar"} ELSE f.lines[i].joined)
  BY DEF Says, P
<1>11. Says(g, i) = IF P \subseteq {i} THEN g.lines[i].has
                   ELSE y \cup (IF "environment" \in y THEN g.lines[i].joined \ {"scalar"} ELSE g.lines[i].joined)
  BY <1>8 DEF Says, P
<1> HIDE DEF x, y
<1> QED BY <1>1, <1>9, <1>10, <1>11

\* Line i goes on with a statement begun above it.
Extends(g, i) == i \in Remaining(g, g.lines[i].side) /\ StatementLines(g, i) # {i}

LEMMA SameStatements ==
  ASSUME NEW f, NEW g, NEW n, Grown(f, g, n), ~Extends(g, n + 1), NEW side
  PROVE  Agree(Statements(f, side), Statements(g, side), n)
<1> DEFINE K == Remaining(f, side)
           Q == Remaining(g, side)
<1>1. n \in Nat /\ \A j \in 1..n : g.lines[j] = f.lines[j]  BY DEF Grown
<1>2. Agree(K, Q, n)  BY SameRemaining
<1>3. /\ Statements(f, side) = {i \in K : ~(JoinsNext(f, i) /\ \E j \in K : i < j)}
      /\ Statements(g, side) = {i \in Q : ~(JoinsNext(g, i) /\ \E j \in Q : i < j)}
  BY DEF Statements
<1>4. n + 1 \in Q => g.lines[n + 1].side = side  BY DEF Remaining
<1>5. n + 1 \in Q => \A j \in Q : j <= n + 1 /\ (\A m \in Q : j <= m /\ m < n + 1 => JoinsNext(g, m)) => j = n + 1
  <2> SUFFICES ASSUME n + 1 \in Q, NEW j \in Q, j <= n + 1, \A m \in Q : j <= m /\ m < n + 1 => JoinsNext(g, m)
               PROVE  j = n + 1
    OBVIOUS
  <2>1. j \in StatementLines(g, n + 1)  BY <1>4 DEF StatementLines
  <2>2. StatementLines(g, n + 1) = {n + 1}  BY <1>4 DEF Extends
  <2> QED BY <2>1, <2>2
<1> HIDE DEF K, Q
<1>6. \A j \in 1..n : JoinsNext(g, j) <=> JoinsNext(f, j)  BY <1>1 DEF JoinsNext
<1>7. ASSUME NEW i \in 1..n PROVE i \in Statements(f, side) <=> i \in Statements(g, side)
  <2>1. i \in K <=> i \in Q  BY <1>2 DEF Agree
  <2>2. ASSUME i \in Statements(g, side) PROVE i \in Statements(f, side)
    <3>1. \A j \in K : j \in Q  BY <1>2 DEF Agree
    <3> QED BY <1>3, <1>6, <2>1, <2>2, <3>1
  <2>3. ASSUME i \in Statements(f, side), JoinsNext(g, i), NEW j \in Q, i < j PROVE FALSE
    <3>1. i \in K /\ \A k \in K : ~(i < k)  BY <1>3, <1>6, <2>3
    <3>2. j \notin K  BY <2>3, <3>1
    <3>3. j = n + 1  BY <1>1, <1>2, <3>2 DEF Agree
    <3>4. ASSUME NEW m \in Q, i <= m, m < n + 1 PROVE JoinsNext(g, m)
      <4>1. m \in 1..n /\ m \in K  BY <1>1, <1>2, <3>4 DEF Agree
      <4>2. m = i  BY <3>1, <3>4, <4>1
      <4> QED BY <2>3, <4>2
    <3>5. i = n + 1  BY <1>1, <1>5, <2>1, <3>1, <3>3, <3>4
    <3> QED BY <1>1, <3>5
  <2> QED BY <1>3, <2>1, <2>2, <2>3
<1> QED BY <1>2, <1>3, <1>7 DEF Agree

LEMMA SameChanged ==
  ASSUME NEW f, NEW g, NEW n, Grown(f, g, n)
  PROVE  Agree(Changed(f), Changed(g), n)
<1>1. n \in Nat /\ DOMAIN f.lines = 1..n /\ DOMAIN g.lines = 1..(n + 1) /\ \A i \in 1..n : i \in 1..(n + 1)
  BY LinesAre DEF Grown
<1>2. \A i \in 1..n : g.lines[i] = f.lines[i]  BY DEF Grown
<1> QED BY <1>1, <1>2 DEF Agree, Changed

LEMMA WindowGrows ==
  ASSUME NEW n \in Nat, NEW s, NEW u, Agree(s, u, n), NEW i \in s
  PROVE  Window(s, i) \subseteq Window(u, i)
<1> SUFFICES ASSUME NEW j \in s, i <= j, Cardinality({m \in s : i <= m /\ m < j}) <= 2
             PROVE  j \in Window(u, i)
  BY DEF Window
<1>1. {m \in s : i <= m /\ m < j} = {m \in u : i <= m /\ m < j}
  <2>1. ASSUME NEW m \in u, m < j PROVE m \in s  BY <2>1 DEF Agree
  <2>2. s \subseteq u  BY DEF Agree
  <2> QED BY <2>1, <2>2
<1>2. j \in u  BY DEF Agree
<1> QED BY <1>1, <1>2 DEF Window

\* The statements say the same in both.
SameSays(f, g, s) == \A i \in s : Says(g, i) = Says(f, i)

LEMMA GrowingKeeps ==
  ASSUME NEW f, NEW g, NEW n \in Nat, NEW s, NEW u, Agree(s, u, n), SameSays(f, g, s)
  PROVE  /\ \A i \in s : \A shapes : Near(f, s, i, shapes) \subseteq Near(g, u, i, shapes)
         /\ \A i \in s : Raised(f, s, i) => Raised(g, u, i)
         /\ \A i \in s : BoundBefore(f, s, i) => BoundBefore(g, u, i)
<1>1. ASSUME NEW i \in s, NEW shapes PROVE Near(f, s, i, shapes) \subseteq Near(g, u, i, shapes)
  <2>1. Window(s, i) \subseteq Window(u, i) /\ Window(s, i) \subseteq s  BY WindowGrows DEF Window
  <2> QED BY <2>1 DEF Near, SameSays
<1>2. ASSUME NEW i \in s, Raised(f, s, i) PROVE Raised(g, u, i)
  BY <1>1, <1>2 DEF Raised, SameSays
<1>3. ASSUME NEW i \in s, BoundBefore(f, s, i) PROVE BoundBefore(g, u, i)
  <2>1. PICK j \in s : j < i /\ \/ "origin" \in Says(f, j)
                                \/ Raised(f, s, j) /\ "type import" \notin Says(f, j)
    BY <1>3 DEF BoundBefore
  <2>2. j \in u /\ Says(g, j) = Says(f, j)  BY DEF Agree, SameSays
  <2> QED BY <1>2, <2>1, <2>2 DEF BoundBefore
<1> QED BY <1>1, <1>2, <1>3

\* What is partly covered stays so.
LEMMA PartlyStays ==
  ASSUME NEW f, NEW g, NEW n \in Nat, NEW s, NEW u, Agree(s, u, n), SameSays(f, g, s)
  PROVE  PartlyAt(f, s) \subseteq PartlyAt(g, u)
<1> DEFINE reachF(is) == is \cup UNION {Near(f, s, i, {"sink"}) : i \in is}
           reachG(is) == is \cup UNION {Near(g, u, i, {"sink"}) : i \in is}
           cf == With(f, s, "command")
           cg == With(g, u, "command")
<1>1. /\ \A i \in s : \A shapes : Near(f, s, i, shapes) \subseteq Near(g, u, i, shapes)
      /\ \A i \in s : Raised(f, s, i) => Raised(g, u, i)
      /\ \A i \in s : BoundBefore(f, s, i) => BoundBefore(g, u, i)
  BY GrowingKeeps
<1>2. s \subseteq u /\ \A i \in s : Says(g, i) = Says(f, i)  BY DEF Agree, SameSays
<1>3. \A shape : With(f, s, shape) \subseteq With(g, u, shape) /\ With(f, s, shape) \subseteq s  BY <1>2 DEF With
<1>4. \A a, b : a \subseteq b /\ a \subseteq s => reachF(a) \subseteq reachG(b)
  <2> TAKE a, b
  <2> SUFFICES ASSUME a \subseteq b, a \subseteq s, NEW x \in reachF(a) PROVE x \in reachG(b)  OBVIOUS
  <2>1. CASE x \in a  BY <2>1
  <2>2. CASE x \in UNION {Near(f, s, i, {"sink"}) : i \in a}
    <3>1. PICK i \in a : x \in Near(f, s, i, {"sink"})  BY <2>2
    <3>2. x \in Near(g, u, i, {"sink"}) /\ i \in b  BY <1>1, <3>1
    <3> QED BY <3>2
  <2> QED BY <2>1, <2>2
<1> DEFINE P1f == With(f, s, "literal")
           P1g == With(g, u, "literal")
           P2f == {i \in With(f, s, "use") : BoundBefore(f, s, i)}
           P2g == {i \in With(g, u, "use") : BoundBefore(g, u, i)}
           Af == {i \in With(f, s, "credential") : Near(f, s, i, {"sink"}) # {}}
           Ag == {i \in With(g, u, "credential") : Near(g, u, i, {"sink"}) # {}}
           Bf == {i \in s : Raised(f, s, i)}
           Bg == {i \in u : Raised(g, u, i)}
           P5f == With(f, s, "decision") \ With(f, s, "pure")
           P5g == With(g, u, "decision") \ With(g, u, "pure")
           P7f == With(f, s, "origin") \ With(f, s, "whole origin")
           P7g == With(g, u, "origin") \ With(g, u, "whole origin")
           P6f == {i \in cf : \E j \in cf : (\A k \in cf : j <= k) /\ Says(f, i) = Says(f, j)}
           P6g == {i \in cg : \E j \in cg : (\A k \in cg : j <= k) /\ Says(g, i) = Says(g, j)}
<1>5. P1f \subseteq P1g  BY <1>3
<1>6. P2f \subseteq P2g  BY <1>1, <1>3
<1>7. Af \subseteq Ag /\ Af \subseteq s
  <2>1. Af \subseteq s  BY <1>3
  <2> SUFFICES ASSUME NEW i \in Af PROVE i \in Ag  BY <2>1
  <2>2. Near(f, s, i, {"sink"}) # {} /\ i \in s /\ i \in With(g, u, "credential")  BY <1>3
  <2>3. Near(f, s, i, {"sink"}) \subseteq Near(g, u, i, {"sink"})  BY <1>1, <2>2
  <2> QED BY <2>2, <2>3
<1>8. Bf \subseteq Bg /\ Bf \subseteq s  BY <1>1, <1>2
<1>9. P5f \subseteq P5g /\ P7f \subseteq P7g
  <2>1. \A shape : \A i \in s : i \in With(g, u, shape) <=> i \in With(f, s, shape)  BY <1>2 DEF With
  <2> QED BY <1>3, <2>1
<1>10. P6f \subseteq P6g
  <2> SUFFICES ASSUME NEW i \in P6f PROVE i \in P6g  OBVIOUS
  <2>1. i \in cf /\ i \in cg /\ i \in s  BY <1>3
  <2>2. PICK j \in cf : (\A k \in cf : j <= k) /\ Says(f, i) = Says(f, j)  OBVIOUS
  <2>3. j \in cg /\ j \in s  BY <1>3
  <2>4. ASSUME NEW k \in cg PROVE j <= k
    <3>1. j \in 1..n /\ k \in 1..(n + 1) /\ k \in u /\ "command" \in Says(g, k)  BY <2>3 DEF Agree, With
    <3>2. CASE k \in 1..n
      <4>1. k \in s  BY <3>1, <3>2 DEF Agree
      <4>2. k \in cf  BY <1>2, <3>1, <4>1 DEF With
      <4> QED BY <2>2, <4>2
    <3>3. CASE k = n + 1  BY <3>1, <3>3
    <3> QED BY <3>1, <3>2, <3>3
  <2>5. Says(g, i) = Says(g, j)  BY <1>2, <2>1, <2>2, <2>3
  <2> QED BY <2>1, <2>3, <2>4, <2>5
<1>11. PartlyAt(f, s) = UNION {P1f, P7f, P2f, reachF(Af), reachF(Bf), P5f, P6f, Paired(f, s)}  BY DEF PartlyAt
<1>12. PartlyAt(g, u) = UNION {P1g, P7g, P2g, reachG(Ag), reachG(Bg), P5g, P6g, Paired(g, u)}  BY DEF PartlyAt
<1> HIDE DEF P1f, P2f, Af, Bf, P5f, P6f, P7f, P1g, P2g, Ag, Bg, P5g, P6g, P7g
<1>13. reachF(Af) \subseteq reachG(Ag) /\ reachF(Bf) \subseteq reachG(Bg)  BY <1>4, <1>7, <1>8
<1>14. Paired(f, s) \subseteq Paired(g, u)
  <2> DEFINE nf == UNION {With(f, s, shape) : shape \in {"hidden", "use", "whole use"}}
             ng == UNION {With(g, u, shape) : shape \in {"hidden", "use", "whole use"}}
  <2>1. nf \subseteq ng  BY <1>3
  <2>2. Paired(f, s) = {i \in nf : With(f, s, "hidden") # {} /\ nf \cap With(f, s, "sink") # {}}  BY DEF Paired
  <2>3. Paired(g, u) = {i \in ng : With(g, u, "hidden") # {} /\ ng \cap With(g, u, "sink") # {}}  BY DEF Paired
  <2> HIDE DEF nf, ng
  <2> QED BY <1>3, <2>1, <2>2, <2>3
<1> HIDE DEF reachF, reachG
<1> QED BY <1>5, <1>6, <1>9, <1>10, <1>11, <1>12, <1>13, <1>14

\* A statement that a later line makes fully covered has an environment read above it, now raised,
\* that bound its name.
LEMMA NewlyFull ==
  ASSUME NEW f, NEW g, NEW n \in Nat, NEW s, NEW u, Agree(s, u, n), SameSays(f, g, s),
         NEW i \in FullyAt(g, u), i \in 1..n, i \notin FullyAt(f, s)
  PROVE  \E j \in s : Raised(g, u, j) /\ "type import" \notin Says(g, j)
<1>1. s \subseteq u /\ (\A k \in s : Says(g, k) = Says(f, k)) /\ \A k \in u : k \in 1..n => k \in s
  BY DEF Agree, SameSays
<1>2. i \in u  BY DEF FullyAt, With
<1>3. i \in s  BY <1>1, <1>2
<1>4. ASSUME NEW p \in s, Whole(g, u, p), ~Whole(f, s, p)
      PROVE  \E j \in s : Raised(g, u, j) /\ "type import" \notin Says(g, j)
  <2>1. BoundBefore(g, u, p) /\ ~BoundBefore(f, s, p)  BY <1>1, <1>4 DEF Whole
  <2>2. PICK j \in u : j < p /\ \/ "origin" \in Says(g, j)
                                \/ Raised(g, u, j) /\ "type import" \notin Says(g, j)
    BY <2>1 DEF BoundBefore
  <2>3. p \in 1..n /\ j \in 1..(n + 1)  BY DEF Agree
  <2>4. j \in 1..n
    <3>1. j < p  BY <2>2
    <3> QED BY <2>3, <3>1
  <2>5. j \in s  BY <1>1, <2>4
  <2>6. "origin" \notin Says(g, j)  BY <1>1, <2>1, <2>2, <2>5 DEF BoundBefore
  <2> QED BY <2>2, <2>5, <2>6
<1>5. \A shape : i \in With(g, u, shape) <=> i \in With(f, s, shape)  BY <1>1, <1>3 DEF With
<1> DEFINE bracesOf(h, t) ==
             {k \in With(h, t, "brace") : \E p \in With(h, t, "condition") : p < k /\ Whole(h, t, p) /\ \A m \in t : ~(p < m /\ m < k)}
<1>6. \/ i \in u /\ Whole(g, u, i)
      \/ i \in bracesOf(g, u)
  <2>1. i \notin With(g, u, "fixed literal") /\ i \notin With(g, u, "origin") \cap With(g, u, "whole origin")
    BY <1>5 DEF FullyAt
  <2>2. i \notin With(g, u, "decision") \cap With(g, u, "pure")  BY <1>5 DEF FullyAt
  <2> QED BY <2>1, <2>2 DEF FullyAt
<1>7. CASE Whole(g, u, i)
  <2>1. ~Whole(f, s, i)  BY <1>3 DEF FullyAt
  <2> QED BY <1>3, <1>4, <1>7, <2>1
<1>8. CASE i \in bracesOf(g, u)
  <2>1. PICK p \in With(g, u, "condition") : p < i /\ Whole(g, u, p) /\ \A m \in u : ~(p < m /\ m < i)  BY <1>8
  <2>2. p \in u /\ p \in 1..(n + 1) /\ i \in 1..n  BY DEF Agree, With
  <2>3. p \in 1..n  BY <2>1, <2>2
  <2>4. p \in s /\ p \in With(f, s, "condition") /\ \A m \in s : ~(p < m /\ m < i)
    BY <1>1, <2>1, <2>2, <2>3 DEF With
  <2>5. i \in With(f, s, "brace")  BY <1>5, <1>8
  <2>6. i \notin bracesOf(f, s)  BY DEF FullyAt
  <2>7. ~Whole(f, s, p)  BY <2>1, <2>4, <2>5, <2>6
  <2> QED BY <1>4, <2>1, <2>4, <2>7
<1> QED BY <1>6, <1>7, <1>8

\* A statement that reads the environment declares no plain number.
LEMMA NoScalarRead ==
  ASSUME NEW g, NEW j, g.lines[j] \in ScopeLines, "environment" \in Says(g, j)
  PROVE  "scalar" \notin Says(g, j)
<1> DEFINE x == Detected \cap UNION {g.lines[k].has : k \in StatementLines(g, j)}
<1>1. Says(g, j) = IF StatementLines(g, j) \subseteq {j} THEN g.lines[j].has
                  ELSE x \cup (IF "environment" \in x THEN g.lines[j].joined \ {"scalar"} ELSE g.lines[j].joined)
  BY DEF Says
<1>2. "scalar" \notin x  BY DEF Detected
<1> HIDE DEF x
<1>3. "environment" \notin g.lines[j].joined  BY ScopeAssumption DEF PatchLines, Formed
<1>4. "environment" \in g.lines[j].has => "scalar" \notin g.lines[j].has  BY ScopeAssumption
<1> QED BY <1>1, <1>2, <1>3, <1>4

\* A file with a gap: something in it is unaccounted for, or it cannot be inspected.
Gap(f) == Residual(f) # {} \/ Opaque(f)

\* A gap stays when the file grows by a line that begins a statement.
LEMMA GapStays ==
  ASSUME NEW f, NEW g, NEW n, Grown(f, g, n), ~Extends(g, n + 1), Gap(f)
  PROVE  Gap(g)
<1> DEFINE s == Statements(f, "ADDED")
           u == Statements(g, "ADDED")
           Uf == Statements(f, "ADDED") \cup Statements(f, "REMOVED")
           Ug == Statements(g, "ADDED") \cup Statements(g, "REMOVED")
<1>1. n \in Nat /\ DOMAIN f.lines = 1..n /\ DOMAIN g.lines = 1..(n + 1) /\ f.kind = g.kind
  BY LinesAre DEF Grown
<1>2. Agree(s, u, n) /\ Agree(Changed(f), Changed(g), n) /\ Uf \subseteq Ug /\ Uf \subseteq 1..n
  <2>1. Agree(s, u, n) /\ Agree(Statements(f, "REMOVED"), Statements(g, "REMOVED"), n)  BY SameStatements
  <2>2. Agree(Changed(f), Changed(g), n)  BY SameChanged
  <2> HIDE DEF s, u
  <2> QED BY <2>1, <2>2 DEF Agree, s, u
<1>3. \A i \in 1..n : g.lines[i] = f.lines[i]  BY DEF Grown
<1>4. PositivelyInert(g) => PositivelyInert(f)
  BY <1>1, <1>2, <1>3 DEF PositivelyInert, PlainProse, Agree
<1>5. SUFFICES ASSUME ~Opaque(g) PROVE Residual(g) # {}  BY DEF Gap
<1>6. ~Opaque(f) /\ Residual(f) # {}
  <2>1. ~Opaque(f)  BY <1>1, <1>4, <1>5 DEF Opaque
  <2> QED BY <2>1 DEF Gap
<1>7. Analyzed(f) /\ Analyzed(g)
  <2>1. Analyzed(f)
    <3> SUFFICES ASSUME ~Analyzed(f) PROVE FALSE  OBVIOUS
    <3>1. FileUnits(f) = {}  BY DEF FileUnits
    <3>2. Residual(f) \subseteq FileUnits(f)  BY <1>6 DEF Residual
    <3> QED BY <1>6, <3>1, <3>2
  <2> QED BY <1>4, <1>5, <2>1 DEF Analyzed
<1>8. FileUnits(f) = Uf /\ FileUnits(g) = Ug  BY <1>7 DEF FileUnits
<1> HIDE DEF Uf, Ug
<1>9. CASE f.kind \in Hybrid \cup {"config"}
  <2>1. FileCoverage(f) = "UNSUPPORTED" /\ FileCoverage(g) = "UNSUPPORTED"  BY <1>1, <1>9 DEF FileCoverage
  <2>2. CASE Ug # {}
    <3>1. Residual(g) = Ug  BY <1>5, <1>8, <2>1, <2>2 DEF Residual
    <3> QED BY <2>2, <3>1
  <2>3. CASE Ug = {}
    <3>1. Uf = {}  BY <1>2, <2>3
    <3>2. f.kind \in Hybrid  BY <1>6, <1>8, <2>1, <3>1 DEF Residual
    <3>3. Residual(g) = {0}  BY <1>1, <1>5, <1>7, <1>8, <2>3, <3>2 DEF Residual
    <3> QED BY <3>3
  <2> QED BY <2>2, <2>3
<1>10. CASE f.kind \notin Hybrid \cup {"config"}
  <2>1. FileCoverage(f) # "UNSUPPORTED" /\ FileCoverage(g) # "UNSUPPORTED"
    BY <1>1, <1>5, <1>6, <1>10 DEF FileCoverage
  <2>2. Residual(f) = {i \in Uf : ~Covered(Attributions(f), i) /\ ~EstablishesAbsence(f, i)}
    BY <1>6, <1>8, <1>10, <2>1 DEF Residual
  <2>3. Residual(g) = {i \in Ug : ~Covered(Attributions(g), i) /\ ~EstablishesAbsence(g, i)}
    BY <1>1, <1>5, <1>8, <1>10, <2>1 DEF Residual
  <2>4. PICK i \in Uf : ~Covered(Attributions(f), i) /\ ~EstablishesAbsence(f, i)  BY <1>6, <2>2
  <2>5. i \in Ug /\ i \in 1..n  BY <1>2, <2>4
  <2>6. ~EstablishesAbsence(g, i)
    <3>1. Says(g, i) = Says(f, i) /\ g.lines[i] = f.lines[i]  BY <1>3, <2>5, SaysStays
    <3> QED BY <2>4, <3>1 DEF EstablishesAbsence
  <2>7. CASE ~Covered(Attributions(g), i)  BY <2>3, <2>5, <2>6, <2>7
  <2>8. CASE Covered(Attributions(g), i)
    <3>1. i \in FullyAt(g, u) /\ i \notin PartlyAt(g, u)  BY <2>8, AttributionsAre
    <3>2. ~(i \in FullyAt(f, s) /\ i \notin PartlyAt(f, s))  BY <2>4, AttributionsAre
    <3>3. SameSays(f, g, s)  BY <1>2, SaysStays DEF SameSays, Agree
    <3> HIDE DEF s, u
    <3>4. PartlyAt(f, s) \subseteq PartlyAt(g, u)  BY <1>1, <1>2, <3>3, PartlyStays
    <3>5. i \notin FullyAt(f, s)  BY <3>1, <3>2, <3>4
    <3>6. PICK j \in s : Raised(g, u, j) /\ "type import" \notin Says(g, j)
      BY <1>1, <1>2, <2>5, <3>1, <3>3, <3>5, NewlyFull
    <3>7. j \in u /\ j \in 1..n  BY <1>2 DEF Agree
    <3>9. j \in Ug /\ j \in DOMAIN g.lines
      <4>1. j \in Statements(g, "ADDED")  BY <3>7 DEF u
      <4> QED BY <4>1 DEF Ug, Statements, Remaining
    <3>10. j \in PartlyAt(g, u)
      <4>1. j \in {k \in u : Raised(g, u, k)}  BY <3>6, <3>7
      <4> QED BY <4>1 DEF PartlyAt
    <3>11. ~Covered(Attributions(g), j)  BY <3>10, AttributionsAre DEF u
    <3>12. ~EstablishesAbsence(g, j)
      <4>1. g.lines[j] \in ScopeLines
        <5>1. g \in ScopePatches  BY DEF Grown
        <5> QED BY <3>9, <5>1, LinesAre
      <4>2. "environment" \in Says(g, j)  BY <3>6 DEF Raised
      <4>3. "scalar" \notin Says(g, j)  BY <4>1, <4>2, NoScalarRead
      <4> QED BY <3>6, <4>3 DEF EstablishesAbsence
    <3> QED BY <2>3, <3>9, <3>11, <3>12
  <2> QED BY <2>7, <2>8
<1> QED BY <1>9, <1>10

ScopeInv == patch \in Seq(ScopePatches)
PatchAccounted == AccountedIsAccounted(patch)

Gaps(files) == \E k \in DOMAIN files : Gap(files[k])

LEMMA IncompleteIsGap ==
  ASSUME NEW files
  PROVE  AdequacyConclusion(files) = "INCOMPLETE" <=> Gaps(files)
BY DEF AdequacyConclusion, ScopeComplete, AtomsOpen, Gaps, Gap

LEMMA LinesGrow ==
  ASSUME NEW f \in ScopePatches, NEW l \in ScopeLines, NEW g, g = [f EXCEPT !.lines = Append(@, l)]
  PROVE  g \in ScopePatches /\ Grown(f, g, Len(f.lines))
<1> DEFINE q == f.lines
           r == Append(q, l)
<1>1. q \in Seq(ScopeLines)  BY DEF ScopePatches
<1>2. /\ r \in Seq(ScopeLines) /\ Len(r) = Len(q) + 1 /\ Len(q) \in Nat
      /\ \A i \in 1..Len(q) : r[i] = q[i]
  BY <1>1
<1> HIDE DEF r
<1>3. g = [f EXCEPT !.lines = r]  BY DEF r
<1>4. g \in ScopePatches /\ g.lines = r /\ g.kind = f.kind /\ g.boundary = f.boundary  BY <1>2, <1>3 DEF ScopePatches
<1> QED BY <1>2, <1>4 DEF Grown

\* A touched file leaves the others as they are; the last one may grow by a line.
PatchGrew(old, new) ==
  /\ DOMAIN old \subseteq DOMAIN new
  /\ \A k \in DOMAIN old : new[k] = old[k] \/ (k = Len(new) /\ \E n : Grown(old[k], new[k], n))

\* Where the patch does not go on with a statement, neither does the line its last file grew by.
LEMMA NewStatement ==
  ASSUME NEW files \in Seq(ScopePatches), NEW f, NEW n, files # <<>>, Grown(f, files[Len(files)], n), ~GoesOn(files)
  PROVE  ~Extends(files[Len(files)], n + 1)
<1> DEFINE g == files[Len(files)]
<1>1. Last(files) = g  BY DEF Last
<1>2. n \in Nat /\ g.lines \in Seq(ScopeLines) /\ Len(g.lines) = n + 1  BY DEF Grown, ScopePatches
<1>3. g.lines # <<>>  BY <1>2
<1> HIDE DEF g
<1>4. ~(n + 1 \in Remaining(g, g.lines[n + 1].side) /\ StatementLines(g, n + 1) # {n + 1})  BY <1>1, <1>2, <1>3 DEF GoesOn
<1> QED BY <1>4 DEF Extends, g

LEMMA ScopeStep ==
  ASSUME patch \in Seq(ScopePatches), ScopeNext
  PROVE  patch' \in Seq(ScopePatches) /\ PatchGrew(patch, patch')
<1>1. ASSUME NEW kind \in ScopeFiles, NEW boundary \in BOOLEAN, NEW lines \in Seq(ScopeLines),
             TouchFile(kind, boundary, lines)
      PROVE  patch' \in Seq(ScopePatches) /\ PatchGrew(patch, patch')
  <2> DEFINE f == [kind |-> kind, boundary |-> boundary, lines |-> lines]
  <2>1. f \in ScopePatches  BY DEF ScopePatches
  <2>2. patch' = Append(patch, f)  BY <1>1 DEF TouchFile
  <2> HIDE DEF f
  <2>3. /\ Append(patch, f) \in Seq(ScopePatches)
        /\ DOMAIN patch \subseteq DOMAIN Append(patch, f)
        /\ \A k \in DOMAIN patch : Append(patch, f)[k] = patch[k]
    BY <2>1
  <2> QED BY <2>2, <2>3 DEF PatchGrew
<1>2. ASSUME NEW l \in ScopeLines, GrowFile(l)
      PROVE  patch' \in Seq(ScopePatches) /\ PatchGrew(patch, patch')
  <2> DEFINE z == Len(patch)
             f == patch[z]
             g == [f EXCEPT !.lines = Append(@, l)]
  <2>1. patch # <<>> /\ patch' = [patch EXCEPT ![z].lines = Append(@, l)]
    BY <1>2 DEF GrowFile
  <2>2. z \in DOMAIN patch /\ DOMAIN patch = 1..z /\ f \in ScopePatches  BY <2>1
  <2>3. patch' = [patch EXCEPT ![z] = g]  BY <2>1
  <2>4. g \in ScopePatches /\ Grown(f, g, Len(f.lines))  BY <2>2, LinesGrow
  <2> HIDE DEF g, f, z
  <2>5. DOMAIN patch' = DOMAIN patch /\ patch'[z] = g /\ \A k \in DOMAIN patch : k # z => patch'[k] = patch[k]
    BY <2>2, <2>3
  <2>6. patch' \in Seq(ScopePatches)  BY <2>2, <2>3, <2>4
  <2>7. PatchGrew(patch, patch')
    <3>1. ASSUME NEW k \in DOMAIN patch PROVE patch'[k] = patch[k] \/ (k = Len(patch') /\ \E n : Grown(patch[k], patch'[k], n))
      <4>1. CASE k = z
        <5>1. Len(patch') = z  BY <2>2, <2>5, <2>6
        <5>2. Grown(patch[k], patch'[k], Len(f.lines))  BY <2>4, <2>5, <4>1 DEF f
        <5> QED BY <4>1, <5>1, <5>2
      <4>2. CASE k # z  BY <2>5, <4>2
      <4> QED BY <4>1, <4>2
    <3> QED BY <2>5, <3>1 DEF PatchGrew
  <2> QED BY <2>1, <2>6, <2>7
<1>3. <<>> \in Seq(ScopeLines) /\ \A l \in ScopeLines : <<l>> \in Seq(ScopeLines)  OBVIOUS
<1> QED BY <1>1, <1>2, <1>3 DEF ScopeNext

\* What concern discovery concludes (discoverConcerns) is sound for any kinds of file, any lines
\* and a patch of any size: what is declared accounted for is, in every file that does not mislead the
\* classifier of comments, and no change closes a gap unless it is the rest of a statement cut short.
THEOREM ScopeHolds == ScopeSpec => ScopeIsSound
<1>1. ScopeInit => ScopeInv  BY DEF ScopeInit, ScopeInv
<1>2. ScopeInv /\ [ScopeNext]_scopeVars => ScopeInv'
  <2>1. ASSUME ScopeInv, ScopeNext PROVE ScopeInv'  BY <2>1, ScopeStep DEF ScopeInv
  <2>2. ASSUME ScopeInv, UNCHANGED scopeVars PROVE ScopeInv'  BY <2>2 DEF ScopeInv, scopeVars
  <2> QED BY <2>1, <2>2
<1>3. ScopeInv => PatchAccounted
  <2> SUFFICES ASSUME ScopeInv, AdequacyConclusion(patch) # "INCOMPLETE", NEW k \in DOMAIN patch PROVE AccountedIn(patch[k])
    BY DEF PatchAccounted, AccountedIsAccounted, AccountedIn, AccountedLine, AccountedAt
  <2>1. ~Gap(patch[k]) /\ patch[k] \in ScopePatches  BY IncompleteIsGap DEF ScopeInv, Gaps
  <2> QED BY <2>1, CompleteIsAccounted DEF Gap
<1>4. ScopeInv /\ ScopeInv' /\ [ScopeNext]_scopeVars => UNCHANGED scopeVars \/ GapsStay(patch, patch')
  <2> SUFFICES ASSUME ScopeInv, ScopeInv', ScopeNext, AdequacyConclusion(patch) = "INCOMPLETE", ~GoesOn(patch')
               PROVE  AdequacyConclusion(patch') = "INCOMPLETE"
    BY DEF GapsStay
  <2>1. PatchGrew(patch, patch')  BY ScopeStep DEF ScopeInv
  <2>2. PICK k \in DOMAIN patch : Gap(patch[k])  BY IncompleteIsGap DEF ScopeInv, Gaps
  <2>3. k \in DOMAIN patch' /\ Gap(patch'[k])
    <3>1. k \in DOMAIN patch' /\ (patch'[k] = patch[k] \/ (k = Len(patch') /\ \E n : Grown(patch[k], patch'[k], n)))
      BY <2>1 DEF PatchGrew
    <3>2. CASE patch'[k] = patch[k]  BY <2>2, <3>1, <3>2
    <3>3. CASE k = Len(patch') /\ \E n : Grown(patch[k], patch'[k], n)
      <4>1. PICK n : Grown(patch[k], patch'[k], n)  BY <3>3
      <4>2. patch' \in Seq(ScopePatches) /\ patch' # <<>>  BY <3>1 DEF ScopeInv
      <4>3. ~Extends(patch'[k], n + 1)  BY <3>3, <4>1, <4>2, NewStatement
      <4> QED BY <2>2, <3>1, <4>1, <4>3, GapStays
    <3> QED BY <3>1, <3>2, <3>3
  <2>4. Gaps(patch')  BY <2>3 DEF Gaps
  <2> QED BY <2>4, IncompleteIsGap
<1>5. PatchAccounted' /\ (UNCHANGED scopeVars \/ GapsStay(patch, patch'))
        => [UNCHANGED scopeVars \/ (AccountedIsAccounted(patch') /\ GapsStay(patch, patch'))]_scopeVars
  BY DEF PatchAccounted
<1> QED BY <1>1, <1>2, <1>3, <1>4, <1>5, PTL DEF ScopeSpec, ScopeIsSound

-----------------------------------------------------------------------------
(* PatchText. *)

LineKinds == {"diff", "mode", "binary", "minus", "plus", "added", "removed", "look-alike", "plus-alike", "body"}
HunkKinds == {"plus", "added", "removed", "look-alike", "plus-alike"}
Names == PatchFiles \cup {None}
PatchLine == [k : LineKinds, file : Names, has : Holds]
Entry == [file : PatchFiles, added : Seq(Holds), removed : Nat, reasons : SUBSET {"MODE_CHANGE", "BINARY"}]
ReadStates == {s \in [files : Seq(Entry), open : BOOLEAN, diff : Names, minus : Names,
                      pending : SUBSET {"MODE_CHANGE", "BINARY"}] : s.open => Len(s.files) > 0}

\* Writing the open entry back changes the last one and no other.
LEMMA OnLastIs ==
  ASSUME NEW files \in Seq(Entry), Len(files) > 0, NEW e \in Entry
  PROVE  /\ OnLast(files, e) \in Seq(Entry) /\ Len(OnLast(files, e)) = Len(files)
         /\ Last(files) \in Entry
         /\ \A j \in 1..Len(files) : OnLast(files, e)[j] = IF j = Len(files) THEN e ELSE files[j]
BY DEF OnLast, Last

\* A marked entry has the reason besides those it had.
LEMMA AddReason ==
  ASSUME NEW e \in Entry, NEW r \in {"MODE_CHANGE", "BINARY"}
  PROVE  /\ Marked(e, r) \in Entry /\ Marked(e, r).file = e.file /\ Marked(e, r).added = e.added
         /\ Marked(e, r).removed = e.removed /\ Marked(e, r).reasons = e.reasons \cup {r}
BY DEF Entry, Marked

\* A changed line counts once, as added or as removed.
LEMMA CountIs ==
  ASSUME NEW e \in Entry, NEW l \in PatchLine
  PROVE  /\ CountLine(e, l) \in Entry /\ CountLine(e, l).file = e.file
         /\ CountLine(e, l).reasons = e.reasons
         /\ l.k = "added" => CountLine(e, l).added = Append(e.added, l.has) /\ CountLine(e, l).removed = e.removed
         /\ l.k # "added" => CountLine(e, l).added = e.added /\ CountLine(e, l).removed = e.removed + 1
<1>1. Append(e.added, l.has) \in Seq(Holds) /\ e.removed + 1 \in Nat  BY DEF Entry, PatchLine
<1> QED BY <1>1 DEF Entry, PatchLine, CountLine

\* An entry opens with no line counted.
LEMMA FreshEntry ==
  ASSUME NEW f \in PatchFiles, NEW p \in SUBSET {"MODE_CHANGE", "BINARY"}
  PROVE  /\ EmptyEntry(f, p) \in Entry /\ EmptyEntry(f, p).file = f /\ EmptyEntry(f, p).added = <<>>
         /\ EmptyEntry(f, p).removed = 0 /\ EmptyEntry(f, p).reasons = p
<1>1. <<>> \in Seq(Holds)  OBVIOUS
<1> QED BY <1>1 DEF EmptyEntry, Entry

\* A mode line or a binary marker: the entry of the section, new or not, has one more reason.
MarkedInto(s, r, t) ==
  /\ t \in ReadStates
  /\ t.diff = s.diff /\ t.minus = s.minus
  /\ ~s.open /\ s.diff = None => t.files = s.files /\ t.open = FALSE
  /\ s.open => t.open = TRUE /\ t.files = OnLast(s.files, Marked(Last(s.files), r))
  /\ ~s.open /\ s.diff # None =>
       t.open = TRUE /\ t.files = OnLast(Append(s.files, EmptyEntry(s.diff, {})), Marked(EmptyEntry(s.diff, {}), r))

\* What markUninspectable leaves: the open entry marked, one opened for the section if there was none.
LEMMA MarkIs ==
  ASSUME NEW s \in ReadStates, NEW r \in {"MODE_CHANGE", "BINARY"}, NEW t, t = Mark(s, r)
  PROVE  MarkedInto(s, r, t)
<1> USE DEF MarkedInto
<1>0. /\ s.files \in Seq(Entry) /\ s.open \in BOOLEAN /\ s.diff \in Names /\ s.minus \in Names
      /\ s.pending \cup {r} \in SUBSET {"MODE_CHANGE", "BINARY"} /\ (s.open => Len(s.files) > 0)
  BY DEF ReadStates
<1>1. CASE ~s.open /\ s.diff = None
  <2>1. t = State(s.files, FALSE, s.diff, s.minus, s.pending \cup {r})
    BY <1>1 DEF Mark
  <2>2. /\ t \in ReadStates /\ t.files = s.files /\ t.open = FALSE /\ t.diff = s.diff /\ t.minus = s.minus
    BY <1>0, <2>1 DEF State, ReadStates
  <2> QED BY <1>1, <2>2
<1>2. CASE s.open
  <2> DEFINE q == OnLast(s.files, Marked(Last(s.files), r))
  <2>1. t = State(q, TRUE, s.diff, s.minus, s.pending \cup {r})
    BY <1>2 DEF Mark
  <2>2. Last(s.files) \in Entry  BY <1>0, <1>2 DEF Last
  <2>4. q \in Seq(Entry) /\ Len(q) > 0  BY <1>0, <1>2, <2>2, OnLastIs, AddReason
  <2> HIDE DEF q
  <2>5. /\ t \in ReadStates /\ t.files = q /\ t.open = TRUE /\ t.diff = s.diff /\ t.minus = s.minus
    BY <1>0, <2>1, <2>4 DEF State, ReadStates
  <2> QED BY <1>2, <2>5 DEF q
<1>3. CASE ~s.open /\ s.diff # None
  <2> DEFINE new == Append(s.files, EmptyEntry(s.diff, {}))
             q == OnLast(new, Marked(EmptyEntry(s.diff, {}), r))
  <2>0. s.diff \in PatchFiles  BY <1>0, <1>3 DEF Names
  <2>1. EmptyEntry(s.diff, {}) \in Entry  BY <2>0, FreshEntry
  <2>2. new \in Seq(Entry) /\ Len(new) > 0 /\ Last(new) = EmptyEntry(s.diff, {})
    <3> HIDE DEF q
    <3> QED BY <1>0, <2>1 DEF Last
  <2>3. t = State(OnLast(new, Marked(Last(new), r)), TRUE, s.diff, s.minus, s.pending \cup {r})
    BY <1>3 DEF Mark
  <2> HIDE DEF new
  <2>6. t = State(q, TRUE, s.diff, s.minus, s.pending \cup {r})  BY <2>2, <2>3
  <2>7. q \in Seq(Entry) /\ Len(q) > 0  BY <2>1, <2>2, OnLastIs, AddReason
  <2> HIDE DEF q
  <2>8. /\ t \in ReadStates /\ t.files = q /\ t.open = TRUE /\ t.diff = s.diff /\ t.minus = s.minus
    BY <1>0, <2>6, <2>7 DEF State, ReadStates
  <2> QED BY <1>3, <2>8 DEF q, new
<1> QED BY <1>0, <1>1, <1>2, <1>3

\* A "+++" line opens the entry of its file unless it is open.
PlusFile(s, f) == IF f # None THEN f ELSE s.minus

\* A "+++" line leaves the parser in a state it can be in.
LEMMA PlusTyped ==
  ASSUME NEW s \in ReadStates, NEW f \in Names, NEW t, t = PlusHeader(s, f)
  PROVE  /\ t \in ReadStates /\ t.diff = s.diff /\ t.minus = s.minus /\ t.pending = s.pending
<1> DEFINE file == PlusFile(s, f)
<1>0. /\ s.files \in Seq(Entry) /\ s.open \in BOOLEAN /\ s.diff \in Names /\ s.minus \in Names
      /\ s.pending \in SUBSET {"MODE_CHANGE", "BINARY"} /\ (s.open => Len(s.files) > 0)
  BY DEF ReadStates
<1>1. CASE file = None
  <2>1. t = [s EXCEPT !.open = FALSE]  BY <1>1 DEF PlusHeader, PlusFile
  <2>2. /\ t \in ReadStates /\ t.diff = s.diff /\ t.minus = s.minus /\ t.pending = s.pending /\ t.files = s.files
    BY <2>1 DEF ReadStates
  <2> QED BY <1>1, <2>2
<1>2. CASE file # None /\ s.open /\ Last(s.files).file = file
  <2>1. t = s  BY <1>2 DEF PlusHeader, PlusFile
  <2> QED BY <1>2, <2>1
<1>3. CASE file # None /\ ~(s.open /\ Last(s.files).file = file)
  <2> DEFINE q == Append(s.files, EmptyEntry(file, s.pending))
  <2>1. t = State(q, TRUE, s.diff, s.minus, s.pending)  BY <1>3 DEF PlusHeader, PlusFile
  <2>2. file \in PatchFiles  BY <1>0, <1>3 DEF Names, PlusFile
  <2>3. EmptyEntry(file, s.pending) \in Entry  BY <1>0, <2>2, FreshEntry
  <2>4. q \in Seq(Entry) /\ Len(q) > 0  BY <1>0, <2>3
  <2> HIDE DEF q
  <2>5. /\ t \in ReadStates /\ t.files = q /\ t.open = TRUE /\ t.diff = s.diff /\ t.minus = s.minus /\ t.pending = s.pending
    BY <1>0, <2>1, <2>4 DEF State, ReadStates
  <2> QED BY <1>3, <2>5 DEF q
<1> QED BY <1>1, <1>2, <1>3

\* What a "+++" line opens.
LEMMA PlusIs ==
  ASSUME NEW s \in ReadStates, NEW f \in Names, NEW t, t = PlusHeader(s, f)
  PROVE  /\ PlusFile(s, f) # None /\ s.open /\ Last(s.files).file = PlusFile(s, f) => t = s
         /\ PlusFile(s, f) # None /\ ~s.open =>
              t.open = TRUE /\ t.files = Append(s.files, EmptyEntry(PlusFile(s, f), s.pending))
BY DEF PlusHeader, PlusFile, State

\* What one line does to the parser.
ParsedInto(s, l, t) ==
  /\ t \in ReadStates
  /\ l.k = "diff" => t.files = s.files /\ t.open = FALSE /\ t.diff = l.file /\ t.minus = None /\ t.pending = {}
  /\ l.k # "diff" => t.diff = s.diff
  /\ l.k = "mode" => t = Mark(s, "MODE_CHANGE")
  /\ l.k = "binary" => t = Mark(s, "BINARY")
  /\ l.k \in {"plus", "plus-alike"} => t = PlusHeader(s, l.file)
  /\ l.k \in {"minus", "look-alike"} => t.files = s.files /\ t.open = s.open /\ t.pending = s.pending /\ t.minus = l.file
  /\ l.k \in {"added", "removed"} /\ s.open =>
       t.open = s.open /\ t.pending = s.pending /\ t.files = OnLast(s.files, CountLine(Last(s.files), l))
  /\ l.k = "body" => t = s

\* What each kind of line does to the parser.
LEMMA ParseIs ==
  ASSUME NEW s \in ReadStates, NEW l \in PatchLine, NEW t, t = ParseLine(s, l)
  PROVE  ParsedInto(s, l, t)
<1> USE DEF ParsedInto
<1>0. /\ s.files \in Seq(Entry) /\ s.open \in BOOLEAN /\ s.diff \in Names /\ s.minus \in Names
      /\ s.pending \in SUBSET {"MODE_CHANGE", "BINARY"} /\ (s.open => Len(s.files) > 0)
  BY DEF ReadStates
<1>00. l.k \in LineKinds /\ l.file \in Names /\ None \in Names  BY DEF PatchLine, Names
<1>1. CASE l.k = "diff"
  <2>1. t = State(s.files, FALSE, l.file, None, {})  BY <1>1 DEF ParseLine
  <2> QED BY <1>0, <1>00, <1>1, <2>1 DEF State, ReadStates
<1>2. CASE l.k = "mode"
  <2>1. t = Mark(s, "MODE_CHANGE")  BY <1>2 DEF ParseLine
  <2>2. t \in ReadStates /\ t.diff = s.diff  BY <2>1, MarkIs DEF MarkedInto
  <2> QED BY <1>2, <2>1, <2>2
<1>3. CASE l.k = "binary"
  <2>1. t = Mark(s, "BINARY")  BY <1>3 DEF ParseLine
  <2>2. t \in ReadStates /\ t.diff = s.diff  BY <2>1, MarkIs DEF MarkedInto
  <2> QED BY <1>3, <2>1, <2>2
<1>4. CASE l.k \in {"plus", "plus-alike"}
  <2>1. t = PlusHeader(s, l.file)  BY <1>4 DEF ParseLine
  <2>2. t \in ReadStates /\ t.diff = s.diff  BY <1>00, <2>1, PlusTyped
  <2> QED BY <1>4, <2>1, <2>2
<1>5. CASE l.k \in {"minus", "look-alike"}
  <2>1. t = [s EXCEPT !.minus = l.file]  BY <1>5 DEF ParseLine
  <2> QED BY <1>0, <1>00, <1>5, <2>1 DEF ReadStates
<1>6. CASE l.k \in {"added", "removed"} /\ s.open
  <2> DEFINE q == OnLast(s.files, CountLine(Last(s.files), l))
  <2>1. t = [s EXCEPT !.files = q]  BY <1>6 DEF ParseLine
  <2>2. Last(s.files) \in Entry  BY <1>0, <1>6 DEF Last
  <2>3. q \in Seq(Entry) /\ Len(q) > 0  BY <1>0, <1>6, <2>2, CountIs, OnLastIs
  <2> HIDE DEF q
  <2>4. t \in ReadStates /\ t.open = s.open /\ t.pending = s.pending /\ t.diff = s.diff /\ t.files = q
    BY <2>1, <2>3 DEF ReadStates
  <2> QED BY <1>6, <2>4 DEF q
<1>7. CASE l.k = "body" \/ (l.k \in {"added", "removed"} /\ ~s.open)
  <2>1. t = s  BY <1>7 DEF ParseLine
  <2> QED BY <1>7, <2>1
<1> QED BY <1>00, <1>1, <1>2, <1>3, <1>4, <1>5, <1>6, <1>7 DEF LineKinds

\* The loop of the parser, line by line.
LEMMA ReadingIs ==
  ASSUME NEW q \in Seq(PatchLine)
  PROVE  /\ \A i \in 0..Len(q) : Reading(q)[i] \in ReadStates
         /\ Reading(q)[0] = Unread
         /\ \A i \in 1..Len(q) : Reading(q)[i] = ParseLine(Reading(q)[i - 1], q[i])
<1> DEFINE n == Len(q)
           S == ReadStates
           z == Unread
           step == [x \in (1..n) \X S |-> ParseLine(x[2], q[x[1]])]
           P(g) == g = [i \in 0..n |-> IF i = 0 THEN z ELSE ParseLine(g[i - 1], q[i])]
           c == Reading(q)
<1>1. n \in Nat /\ z \in S /\ \A i \in 1..n : q[i] \in PatchLine
  <2>1. <<>> \in Seq(Entry) /\ None \in Names  BY DEF Names
  <2>2. Unread \in ReadStates  BY <2>1 DEF Unread, State, ReadStates
  <2> QED BY <2>2
<1>2. \A i \in 1..n, v \in S : ParseLine(v, q[i]) \in S  BY <1>1, ParseIs DEF ParsedInto
<1>3. \A i \in 1..n, v \in S : step[<<i, v>>] = ParseLine(v, q[i])  OBVIOUS
<1>4. step \in [(1..n) \X S -> S]
  <2>1. \A x \in (1..n) \X S : x[1] \in 1..n /\ x[2] \in S  OBVIOUS
  <2>2. \A x \in (1..n) \X S : ParseLine(x[2], q[x[1]]) \in S  BY <1>2, <2>1
  <2> HIDE DEF S, n
  <2> QED BY <2>2
<1>5. c = CHOOSE g : P(g)  BY DEF Reading
<1> HIDE DEF step, S, z, n
<1>6. Recursion(n, S, z, step)  BY <1>1, <1>4 DEF Recursion
<1>7. PICK h \in [0..n -> S] : Follows(h, n, z, step)  BY <1>6, RecursionHas
<1>8. P(h)
  <2>1. \A i \in 0..n : h[i] = IF i = 0 THEN z ELSE ParseLine(h[i - 1], q[i])
    <3> TAKE i \in 0..n
    <3>1. CASE i = 0  BY <1>7, <3>1 DEF Follows
    <3>2. CASE i # 0
      <4>1. i \in 1..n /\ i - 1 \in 0..n  BY <1>1, <3>2
      <4>2. h[i] = step[<<i, h[i - 1]>>] /\ h[i - 1] \in S  BY <1>7, <4>1 DEF Follows
      <4>3. h[i] = ParseLine(h[i - 1], q[i])  BY <1>3, <4>1, <4>2
      <4> QED BY <3>2, <4>3
    <3> QED BY <3>1, <3>2
  <2>2. h = [i \in 0..n |-> h[i]]  OBVIOUS
  <2> QED BY <2>1, <2>2
<1>9. P(c)
  <2> HIDE DEF P, c
  <2> QED BY <1>5, <1>8
<1> HIDE DEF c
<1>10. \A i \in 0..n : c[i] = IF i = 0 THEN z ELSE ParseLine(c[i - 1], q[i])  BY <1>9, Zenon
<1>11. c[0] = z /\ \A i \in 1..n : c[i] = ParseLine(c[i - 1], q[i])
  <2>1. 0 \in 0..n /\ \A i \in 1..n : i \in 0..n /\ i # 0  BY <1>1
  <2> QED BY <1>10, <2>1
<1>12. \A i \in 1..n : c[i - 1] \in S => c[i] = step[<<i, c[i - 1]>>]
  BY <1>3, <1>11
<1>13. \A i \in 0..n : c[i] \in S  BY <1>6, <1>11, <1>12, RecursionStays
<1> QED BY <1>11, <1>13 DEF c, S, z, n

\* One line more is one step more of the parser.
LEMMA ReadOn ==
  ASSUME NEW q \in Seq(PatchLine), NEW l \in PatchLine
  PROVE  /\ Append(q, l) \in Seq(PatchLine) /\ Len(Append(q, l)) = Len(q) + 1
         /\ Reading(Append(q, l))[Len(q) + 1] = ParseLine(Reading(q)[Len(q)], l)
<1> DEFINE p == Append(q, l)
           n == Len(q)
           G == {i \in 0..n : Reading(p)[i] = Reading(q)[i]}
<1>1. /\ p \in Seq(PatchLine) /\ Len(p) = n + 1 /\ p[n + 1] = l /\ n \in Nat
      /\ \A i \in 1..n : p[i] = q[i] /\ i \in 1..(n + 1)
  OBVIOUS
<1> HIDE DEF p
<1>2. /\ Reading(p)[0] = Unread
      /\ \A i \in 1..(n + 1) : Reading(p)[i] = ParseLine(Reading(p)[i - 1], p[i])
  BY <1>1, ReadingIs
<1>3. /\ Reading(q)[0] = Unread
      /\ \A i \in 1..n : Reading(q)[i] = ParseLine(Reading(q)[i - 1], q[i])
  BY ReadingIs
<1> HIDE DEF n
<1>4. 0 \in G  BY <1>1, <1>2, <1>3
<1>5. ASSUME NEW i \in 0..(n - 1), i \in G PROVE i + 1 \in G
  <2>1. i + 1 \in 1..n /\ (i + 1) - 1 = i /\ i + 1 \in 0..n /\ i + 1 \in 1..(n + 1)  BY <1>1
  <2>2. Reading(p)[i + 1] = ParseLine(Reading(p)[i], p[i + 1])  BY <1>2, <2>1
  <2>3. Reading(q)[i + 1] = ParseLine(Reading(q)[i], q[i + 1])  BY <1>3, <2>1
  <2> QED BY <1>1, <1>5, <2>1, <2>2, <2>3
<1>6. n \in G
  <2> HIDE DEF G
  <2>1. \A i \in 0..n : i \in G  BY <1>1, <1>4, <1>5, UpTo
  <2> QED BY <1>1, <2>1
<1>7. n + 1 \in 1..(n + 1) /\ (n + 1) - 1 = n  BY <1>1
<1>8. Reading(p)[n + 1] = ParseLine(Reading(p)[n], p[n + 1])  BY <1>2, <1>7
<1> QED BY <1>1, <1>6, <1>8 DEF p, n

\* How Git writes a patch: which lines may stand before a line of each kind in its section, and
\* which ones a section that ends with such a line may hold.
Before(k) ==
  IF k = "mode" THEN {"diff"} ELSE IF k \in {"binary", "minus"} THEN {"diff", "mode"}
  ELSE IF k = "plus" THEN {"minus"} ELSE IF k = "body" THEN {"binary", "body"} ELSE HunkKinds
Within(k) ==
  IF k = "diff" THEN {"diff"} ELSE IF k = "mode" THEN {"diff", "mode"}
  ELSE IF k = "minus" THEN {"diff", "mode", "minus"}
  ELSE IF k \in {"binary", "body"} THEN {"diff", "mode", "binary", "body"}
  ELSE LineKinds \ {"binary", "body"}

Fits(q, o, n) ==
  IF q[n].k = "diff" THEN q[n].file = o[n]
  ELSE /\ n > 1 /\ o[n - 1] = o[n] /\ q[n - 1].k \in Before(q[n].k)
       /\ q[n].k \in {"minus", "plus"} => q[n].file \in {o[n], None}
       /\ q[n].k = "plus" => q[n].file # None \/ q[n - 1].file # None

Grammar(q, o) ==
  /\ q \in Seq(PatchLine) /\ o \in Seq(PatchFiles) /\ Len(o) = Len(q)
  /\ \A n \in 1..Len(q) : Fits(q, o, n)
  /\ \A i \in 1..Len(q) : o[i] = o[Len(q)] => q[i].k \in Within(q[Len(q)].k)
  /\ \A i, j \in 1..Len(q) : o[i] = o[j] /\ q[i].k = "binary" => q[j].k \in {"diff", "mode", "binary", "body"}

\* Line l, of the section of f, may come next.
Grows(q, o, l, f) ==
  /\ l \in PatchLine /\ f \in PatchFiles
  /\ IF l.k = "diff" THEN l.file = f /\ \A i \in 1..Len(q) : o[i] # f
     ELSE /\ Len(q) > 0 /\ o[Len(q)] = f /\ q[Len(q)].k \in Before(l.k)
          /\ l.k \in {"minus", "plus"} => l.file \in {f, None}
          /\ l.k = "plus" => l.file # None \/ q[Len(q)].file # None

Longer(q, o, l, f, p, u) == Grammar(q, o) /\ Grows(q, o, l, f) /\ p = Append(q, l) /\ u = Append(o, f)

\* The lines and the owners of a patch after one line more.
LEMMA Appended ==
  ASSUME NEW q, NEW o, NEW l, NEW f, NEW p, NEW u, Longer(q, o, l, f, p, u)
  PROVE  /\ q \in Seq(PatchLine) /\ p \in Seq(PatchLine) /\ u \in Seq(PatchFiles) /\ Len(q) \in Nat
         /\ Len(p) = Len(q) + 1 /\ Len(u) = Len(q) + 1 /\ Len(o) = Len(q)
         /\ p[Len(q) + 1] = l /\ u[Len(q) + 1] = f
         /\ \A i \in 1..Len(q) : p[i] = q[i] /\ u[i] = o[i] /\ q[i] \in PatchLine /\ o[i] \in PatchFiles
BY DEF Grammar, Grows, Longer

\* A line that fits keeps the patch one that Git may write.
LEMMA GrammarGrows ==
  ASSUME NEW q, NEW o, NEW l, NEW f, NEW p, NEW u, Longer(q, o, l, f, p, u)
  PROVE  Grammar(p, u)
<1> DEFINE n == Len(q)
<1>1. /\ p \in Seq(PatchLine) /\ u \in Seq(PatchFiles) /\ n \in Nat
      /\ Len(p) = n + 1 /\ Len(u) = n + 1 /\ Len(o) = n
      /\ p[n + 1] = l /\ u[n + 1] = f
      /\ \A i \in 1..n : p[i] = q[i] /\ u[i] = o[i] /\ q[i] \in PatchLine
  <2>1. p \in Seq(PatchLine) /\ u \in Seq(PatchFiles)  BY DEF Grammar, Grows, Longer
  <2>2. n \in Nat /\ Len(p) = n + 1 /\ Len(u) = n + 1 /\ Len(o) = n  BY Appended
  <2>3. p[n + 1] = l /\ u[n + 1] = f  BY Appended
  <2>4. \A i \in 1..n : p[i] = q[i] /\ u[i] = o[i] /\ q[i] \in PatchLine  BY Appended
  <2> QED BY <2>1, <2>2, <2>3, <2>4
<1>2. /\ \A i \in 1..n : Fits(q, o, i)
      /\ \A i \in 1..n : o[i] = o[n] => q[i].k \in Within(q[n].k)
      /\ \A i, j \in 1..n : o[i] = o[j] /\ q[i].k = "binary" => q[j].k \in {"diff", "mode", "binary", "body"}
  BY DEF Grammar, Longer
<1>3. /\ l \in PatchLine /\ l.k \in LineKinds
      /\ IF l.k = "diff" THEN l.file = f /\ \A i \in 1..n : o[i] # f
         ELSE /\ n > 0 /\ o[n] = f /\ q[n].k \in Before(l.k)
              /\ l.k \in {"minus", "plus"} => l.file \in {f, None}
              /\ l.k = "plus" => l.file # None \/ q[n].file # None
  BY DEF Grows, PatchLine, Longer
<1> HIDE DEF n
<1>4. \A i \in 1..(n + 1) : Fits(p, u, i)
  <2>1. ASSUME NEW i \in 1..n PROVE Fits(p, u, i)
    <3>1. CASE q[i].k = "diff"  BY <1>1, <1>2, <3>1 DEF Fits
    <3>2. CASE q[i].k # "diff"
      <4>1. i > 1  BY <1>2, <3>2 DEF Fits
      <4>2. i - 1 \in 1..n  BY <1>1, <4>1
      <4> QED BY <1>1, <1>2, <3>2, <4>2 DEF Fits
    <3> QED BY <3>1, <3>2
  <2>2. Fits(p, u, n + 1)
    <3>1. CASE l.k = "diff"  BY <1>1, <1>3, <3>1 DEF Fits
    <3>2. CASE l.k # "diff"
      <4>1. n \in 1..n /\ n + 1 > 1 /\ (n + 1) - 1 = n  BY <1>1, <1>3, <3>2
      <4> QED BY <1>1, <1>3, <3>2, <4>1 DEF Fits
    <3> QED BY <3>1, <3>2
  <2> QED BY <1>1, <2>1, <2>2
<1>5. ASSUME NEW i \in 1..(n + 1), u[i] = f PROVE p[i].k \in Within(l.k)
  <2>1. CASE i = n + 1  BY <1>1, <1>3, <2>1 DEF Within, LineKinds
  <2>2. CASE i \in 1..n
    <3>1. l.k # "diff" /\ o[n] = f /\ q[n].k \in Before(l.k) /\ q[i].k \in Within(q[n].k)
      BY <1>1, <1>2, <1>3, <1>5, <2>2
    <3>2. q[i].k \in Within(l.k)  BY <1>3, <3>1 DEF Within, Before, LineKinds, HunkKinds
    <3> QED BY <1>1, <2>2, <3>2
  <2> QED BY <1>1, <2>1, <2>2
<1>6. ASSUME NEW i \in 1..(n + 1), NEW j \in 1..(n + 1), u[i] = u[j], p[i].k = "binary"
      PROVE  p[j].k \in {"diff", "mode", "binary", "body"}
  <2>1. CASE i \in 1..n /\ j \in 1..n  BY <1>1, <1>2, <1>6, <2>1
  <2>2. CASE i = n + 1 \/ j = n + 1
    <3>1. u[i] = f /\ u[j] = f  BY <1>1, <1>6, <2>2
    <3>2. "binary" \in Within(l.k) /\ p[j].k \in Within(l.k)  BY <1>5, <1>6, <3>1
    <3> QED BY <1>3, <3>2 DEF Within, LineKinds
  <2> QED BY <1>1, <2>1, <2>2
<1> QED BY <1>1, <1>4, <1>5, <1>6 DEF Grammar

\* The lines of one kind in the section of a file.
At(q, o, f, k) == {i \in 1..Len(q) : q[i].k = k /\ o[i] = f}

\* The places of the lines of a kind and a file, after one line more.
LEMMA AtGrows ==
  ASSUME NEW q, NEW o, NEW l, NEW f, NEW p, NEW u, Longer(q, o, l, f, p, u), NEW g, NEW k
  PROVE  /\ IsFiniteSet(At(q, o, g, k)) /\ Cardinality(At(q, o, g, k)) \in Nat
         /\ g # f \/ l.k # k => At(p, u, g, k) = At(q, o, g, k)
         /\ g = f /\ l.k = k =>
              /\ At(p, u, g, k) = At(q, o, g, k) \cup {Len(q) + 1}
              /\ Cardinality(At(p, u, g, k)) = Cardinality(At(q, o, g, k)) + 1
<1> DEFINE n == Len(q)
<1>1. /\ n \in Nat /\ Len(p) = n + 1 /\ p[n + 1] = l /\ u[n + 1] = f
      /\ \A i \in 1..n : p[i] = q[i] /\ u[i] = o[i]
  BY Appended
<1> HIDE DEF n
<1>2. At(q, o, g, k) = {i \in 1..n : q[i].k = k /\ o[i] = g} /\ At(p, u, g, k) = {i \in 1..(n + 1) : p[i].k = k /\ u[i] = g}
  BY <1>1 DEF At, n
<1>3. IsFiniteSet(At(q, o, g, k))
  <2>1. IsFiniteSet(1..n)
    <3>1. 1 \in Int /\ n \in Int  BY <1>1
    <3> QED BY ONLY <3>1, FS_Interval
  <2>2. At(q, o, g, k) \subseteq 1..n  BY <1>2
  <2> QED BY <2>1, <2>2, FS_Subset
<1>4. Cardinality(At(q, o, g, k)) \in Nat  BY <1>3, FS_CardinalityType
<1>9. 1..(n + 1) = (1..n) \cup {n + 1} /\ n + 1 \notin 1..n  BY <1>1
<1>10. \A i : i \in At(p, u, g, k) <=> i \in At(q, o, g, k) \/ (i = n + 1 /\ g = f /\ l.k = k)
  BY <1>1, <1>2, <1>9
<1>5. g # f \/ l.k # k => At(p, u, g, k) = At(q, o, g, k)
  BY <1>10
<1>6. g = f /\ l.k = k => At(p, u, g, k) = At(q, o, g, k) \cup {n + 1}
  BY <1>10
<1>7. n + 1 \notin At(q, o, g, k)  BY <1>1, <1>2
<1>8. Cardinality(At(q, o, g, k) \cup {n + 1}) = Cardinality(At(q, o, g, k)) + 1
  BY <1>3, <1>7, FS_AddElement
<1> QED BY <1>3, <1>4, <1>5, <1>6, <1>8 DEF n

\* What the parser's entry says of the section of its file.
EntryIs(q, o, e) ==
  /\ Len(e.added) = Cardinality(At(q, o, e.file, "added"))
  /\ e.removed = Cardinality(At(q, o, e.file, "removed"))
  /\ "BINARY" \in e.reasons <=> At(q, o, e.file, "binary") # {}
  /\ "MODE_CHANGE" \in e.reasons <=> At(q, o, e.file, "mode") # {}
  /\ {e.added[j] : j \in 1..Len(e.added)} = {q[i].has : i \in At(q, o, e.file, "added")}

\* A line that the parser does not count, or of another section, leaves an entry true.
LEMMA EntryStays ==
  ASSUME NEW q, NEW o, NEW l, NEW f, NEW p, NEW u, Longer(q, o, l, f, p, u),
         NEW e \in Entry, EntryIs(q, o, e), e.file # f \/ l.k \notin {"added", "removed", "mode", "binary"}
  PROVE  EntryIs(p, u, e)
<1>1. \A k \in {"added", "removed", "mode", "binary"} : At(p, u, e.file, k) = At(q, o, e.file, k)
  BY AtGrows
<1>2. \A i \in At(q, o, e.file, "added") : p[i] = q[i]
  <2>1. \A i \in 1..Len(q) : p[i] = q[i]  BY Appended
  <2> QED BY <2>1 DEF At
<1>3. {p[i].has : i \in At(p, u, e.file, "added")} = {q[i].has : i \in At(q, o, e.file, "added")}
  BY <1>1, <1>2
<1> QED BY <1>1, <1>3 DEF EntryIs

\* A mode or binary line leaves the marked entry true.
LEMMA EntryMarked ==
  ASSUME NEW q, NEW o, NEW l, NEW f, NEW p, NEW u, Longer(q, o, l, f, p, u),
         NEW e \in Entry, EntryIs(q, o, e), e.file = f, l.k \in {"mode", "binary"},
         NEW r, r = IF l.k = "mode" THEN "MODE_CHANGE" ELSE "BINARY"
  PROVE  EntryIs(p, u, Marked(e, r))
<1> DEFINE m == Marked(e, r)
<1>1. \A k \in {"added", "removed", "mode", "binary"} : k # l.k => At(p, u, f, k) = At(q, o, f, k)
  BY AtGrows
<1>2. At(p, u, f, l.k) # {}
  <2>1. At(p, u, f, l.k) = At(q, o, f, l.k) \cup {Len(q) + 1}  BY AtGrows
  <2> QED BY <2>1
<1>3. \A i \in At(q, o, f, "added") : p[i] = q[i]
  <2>1. \A i \in 1..Len(q) : p[i] = q[i]  BY Appended
  <2> QED BY <2>1 DEF At
<1>4. {p[i].has : i \in At(p, u, f, "added")} = {q[i].has : i \in At(q, o, f, "added")}
  BY <1>1, <1>3
<1>5. m.file = f /\ m.added = e.added /\ m.removed = e.removed /\ m.reasons = e.reasons \cup {r}
  BY AddReason
<1> HIDE DEF m
<1>6. /\ Len(e.added) = Cardinality(At(p, u, f, "added")) /\ e.removed = Cardinality(At(p, u, f, "removed"))
      /\ {e.added[j] : j \in 1..Len(e.added)} = {p[i].has : i \in At(p, u, f, "added")}
  BY <1>1, <1>4 DEF EntryIs
<1>7. /\ "BINARY" \in m.reasons <=> At(p, u, f, "binary") # {}
      /\ "MODE_CHANGE" \in m.reasons <=> At(p, u, f, "mode") # {}
  BY <1>1, <1>2, <1>5 DEF EntryIs
<1>8. /\ Len(m.added) = Cardinality(At(p, u, m.file, "added")) /\ m.removed = Cardinality(At(p, u, m.file, "removed"))
      /\ {m.added[j] : j \in 1..Len(m.added)} = {p[i].has : i \in At(p, u, m.file, "added")}
  BY ONLY <1>5, <1>6, Zenon
<1>9. /\ "BINARY" \in m.reasons <=> At(p, u, m.file, "binary") # {}
      /\ "MODE_CHANGE" \in m.reasons <=> At(p, u, m.file, "mode") # {}
  BY ONLY <1>5, <1>7, Zenon
<1>10. EntryIs(p, u, m)  BY ONLY <1>8, <1>9, Zenon DEF EntryIs
<1> QED BY <1>10 DEF m

\* A changed line leaves the entry that counts it true.
LEMMA EntryCounts ==
  ASSUME NEW q, NEW o, NEW l, NEW f, NEW p, NEW u, Longer(q, o, l, f, p, u),
         NEW e \in Entry, EntryIs(q, o, e), e.file = f, l.k \in {"added", "removed"}
  PROVE  EntryIs(p, u, CountLine(e, l))
<1> DEFINE m == CountLine(e, l)
           n == Len(q)
           a == At(q, o, f, "added")
           b == At(p, u, f, "added")
<1>0. l \in PatchLine  BY DEF Grows, Longer
<1>1. \A k \in {"added", "removed", "mode", "binary"} : k # l.k => At(p, u, f, k) = At(q, o, f, k)
  BY AtGrows
<1>2. Cardinality(At(p, u, f, l.k)) = Cardinality(At(q, o, f, l.k)) + 1  BY AtGrows
<1>3. /\ \A i \in a : p[i] = q[i]
      /\ p[n + 1] = l
  <2>1. (\A i \in 1..Len(q) : p[i] = q[i]) /\ p[n + 1] = l  BY Appended
  <2> QED BY <2>1 DEF At
<1>4. l.k = "added" => b = a \cup {n + 1}  BY AtGrows
<1>5. /\ m.file = f /\ m.reasons = e.reasons
      /\ l.k = "added" => m.added = Append(e.added, l.has) /\ m.removed = e.removed
      /\ l.k # "added" => m.added = e.added /\ m.removed = e.removed + 1
  BY <1>0, CountIs
<1>6. e.added \in Seq(Holds) /\ l.has \in Holds  BY <1>0 DEF Entry, PatchLine
<1>7. /\ Len(e.added) = Cardinality(a) /\ e.removed = Cardinality(At(q, o, f, "removed"))
      /\ "BINARY" \in e.reasons <=> At(q, o, f, "binary") # {}
      /\ "MODE_CHANGE" \in e.reasons <=> At(q, o, f, "mode") # {}
      /\ {e.added[j] : j \in 1..Len(e.added)} = {q[i].has : i \in a}
  BY DEF EntryIs
<1> HIDE DEF m, a, b, n
<1>8. CASE l.k = "added"
  <2>1. Len(m.added) = Len(e.added) + 1 /\ m.added[Len(e.added) + 1] = l.has /\ \A j \in 1..Len(e.added) : m.added[j] = e.added[j]
    BY <1>5, <1>6, <1>8
  <2>2. Len(m.added) = Cardinality(b)  BY <1>2, <1>7, <1>8, <2>1 DEF a, b
  <2>3. {m.added[j] : j \in 1..Len(m.added)} = {e.added[j] : j \in 1..Len(e.added)} \cup {l.has}
    <3> DEFINE k == Len(e.added)
    <3>1. k \in Nat /\ 1..(k + 1) = (1..k) \cup {k + 1}  BY <1>6
    <3> HIDE DEF k
    <3>2. {m.added[j] : j \in 1..(k + 1)} = {m.added[j] : j \in 1..k} \cup {m.added[k + 1]}  BY <3>1
    <3>3. {m.added[j] : j \in 1..k} = {e.added[j] : j \in 1..k}  BY <2>1 DEF k
    <3> QED BY <2>1, <3>2, <3>3 DEF k
  <2>4. {p[i].has : i \in b} = {q[i].has : i \in a} \cup {l.has}  BY <1>3, <1>4, <1>8
  <2>5. {m.added[j] : j \in 1..Len(m.added)} = {p[i].has : i \in b}  BY <1>7, <2>3, <2>4
  <2>6. /\ m.removed = Cardinality(At(p, u, f, "removed"))
        /\ "BINARY" \in m.reasons <=> At(p, u, f, "binary") # {}
        /\ "MODE_CHANGE" \in m.reasons <=> At(p, u, f, "mode") # {}
    BY <1>1, <1>5, <1>7, <1>8
  <2> QED BY <1>5, <2>2, <2>5, <2>6 DEF EntryIs, m, b
<1>9. CASE l.k = "removed"
  <2>1. b = a  BY <1>1, <1>9 DEF a, b
  <2>2. {p[i].has : i \in b} = {q[i].has : i \in a}  BY <1>3, <2>1
  <2>3. Len(m.added) = Cardinality(b) /\ m.removed = Cardinality(At(p, u, f, "removed"))
    BY <1>2, <1>5, <1>7, <1>9, <2>1
  <2>4. /\ "BINARY" \in m.reasons <=> At(p, u, f, "binary") # {}
        /\ "MODE_CHANGE" \in m.reasons <=> At(p, u, f, "mode") # {}
    BY <1>1, <1>5, <1>7, <1>9
  <2>5. {m.added[j] : j \in 1..Len(m.added)} = {p[i].has : i \in b}
    BY <1>5, <1>7, <1>9, <2>2
  <2>6. EntryIs(p, u, m)  BY <1>5, <2>3, <2>4, <2>5 DEF EntryIs, b
  <2> QED BY <2>6 DEF m
<1> QED BY <1>8, <1>9

\* The entry of a section that has only begun.
LEMMA EntryBegins ==
  ASSUME NEW q, NEW o, NEW f \in PatchFiles, \A i \in 1..Len(q) : o[i] = f => q[i].k \in {"diff", "minus"}
  PROVE  EmptyEntry(f, {}) \in Entry /\ EmptyEntry(f, {}).file = f /\ EntryIs(q, o, EmptyEntry(f, {}))
<1> DEFINE e == EmptyEntry(f, {})
<1>1. e \in Entry /\ e.file = f /\ e.added = <<>> /\ e.removed = 0 /\ e.reasons = {}  BY FreshEntry
<1> HIDE DEF e
<1>2. \A k \in {"added", "removed", "mode", "binary"} : At(q, o, f, k) = {}  BY DEF At
<1>3. Cardinality({}) = 0  BY FS_EmptySet
<1>4. Len(e.added) = 0 /\ {e.added[j] : j \in 1..Len(e.added)} = {}  BY <1>1
<1> QED BY <1>1, <1>2, <1>3, <1>4 DEF EntryIs, e

FilesAre(q, o, files) ==
  /\ \A j, k \in 1..Len(files) : files[j].file = files[k].file => j = k
  /\ \A k \in 1..Len(files) : EntryIs(q, o, files[k])
  /\ \A k \in 1..Len(files) : \E i \in 1..Len(q) : o[i] = files[k].file /\ q[i].k \in {"plus", "mode", "binary"}
  /\ \A i \in 1..Len(q) : q[i].k \notin {"diff", "minus"} => \E k \in 1..Len(files) : files[k].file = o[i]

\* A line that changes no entry.
LEMMA FilesStay ==
  ASSUME NEW q, NEW o, NEW l, NEW f, NEW p, NEW u, Longer(q, o, l, f, p, u),
         NEW files \in Seq(Entry), FilesAre(q, o, files), l.k \notin {"added", "removed", "mode", "binary"},
         l.k \in {"diff", "minus"} \/ \E k \in 1..Len(files) : files[k].file = f
  PROVE  FilesAre(p, u, files)
<1> DEFINE n == Len(q)
<1>1. /\ n \in Nat /\ Len(p) = n + 1 /\ p[n + 1] = l /\ u[n + 1] = f
      /\ \A i \in 1..n : p[i] = q[i] /\ u[i] = o[i]
  BY ONLY Longer(q, o, l, f, p, u), Appended
<1>2. /\ \A j, k \in 1..Len(files) : files[j].file = files[k].file => j = k
      /\ \A k \in 1..Len(files) : EntryIs(q, o, files[k])
      /\ \A k \in 1..Len(files) : \E i \in 1..n : o[i] = files[k].file /\ q[i].k \in {"plus", "mode", "binary"}
      /\ \A i \in 1..n : q[i].k \notin {"diff", "minus"} => \E k \in 1..Len(files) : files[k].file = o[i]
  BY DEF FilesAre
<1>3. \A k \in 1..Len(files) : EntryIs(p, u, files[k])
  <2> TAKE k \in 1..Len(files)
  <2>1. files[k] \in Entry  OBVIOUS
  <2> QED BY <1>2, <2>1, EntryStays
<1> HIDE DEF n
<1>4. \A k \in 1..Len(files) : \E i \in 1..(n + 1) : u[i] = files[k].file /\ p[i].k \in {"plus", "mode", "binary"}
  <2> TAKE k \in 1..Len(files)
  <2>1. PICK i \in 1..n : o[i] = files[k].file /\ q[i].k \in {"plus", "mode", "binary"}  BY <1>2
  <2>2. i \in 1..(n + 1)  BY <1>1
  <2> QED BY <1>1, <2>1, <2>2
<1>5. \A i \in 1..(n + 1) : p[i].k \notin {"diff", "minus"} => \E k \in 1..Len(files) : files[k].file = u[i]
  <2> TAKE i \in 1..(n + 1)
  <2>1. CASE i \in 1..n  BY <1>1, <1>2, <2>1
  <2>2. CASE i = n + 1  BY <1>1, <2>2
  <2> QED BY <1>1, <2>1, <2>2
<1> QED BY <1>1, <1>2, <1>3, <1>4, <1>5 DEF FilesAre

\* A line that changes the entry of the open section.
LEMMA FilesCount ==
  ASSUME NEW q, NEW o, NEW l, NEW f, NEW p, NEW u, Longer(q, o, l, f, p, u),
         NEW files \in Seq(Entry), FilesAre(q, o, files), Len(files) > 0, Last(files).file = f,
         NEW e \in Entry, e.file = f, EntryIs(p, u, e)
  PROVE  FilesAre(p, u, OnLast(files, e))
<1> DEFINE n == Len(q)
           m == Len(files)
           new == OnLast(files, e)
<1>1. /\ n \in Nat /\ Len(p) = n + 1 /\ p[n + 1] = l /\ u[n + 1] = f
      /\ \A i \in 1..n : p[i] = q[i] /\ u[i] = o[i]
  BY ONLY Longer(q, o, l, f, p, u), Appended
<1>2. /\ \A j, k \in 1..m : files[j].file = files[k].file => j = k
      /\ \A k \in 1..m : EntryIs(q, o, files[k])
      /\ \A k \in 1..m : \E i \in 1..n : o[i] = files[k].file /\ q[i].k \in {"plus", "mode", "binary"}
      /\ \A i \in 1..n : q[i].k \notin {"diff", "minus"} => \E k \in 1..m : files[k].file = o[i]
  BY DEF FilesAre
<1>3. /\ Len(new) = m /\ m \in Nat /\ m \in 1..m /\ files[m].file = f /\ new \in Seq(Entry)
      /\ \A j \in 1..m : new[j] = IF j = m THEN e ELSE files[j]
      /\ \A j \in 1..m : files[j] \in Entry
  <2>1. m \in Nat /\ m \in 1..m /\ files[m].file = f /\ \A j \in 1..m : files[j] \in Entry  BY DEF Last
  <2>2. Len(new) = m /\ \A j \in 1..m : new[j] = IF j = m THEN e ELSE files[j]  BY OnLastIs
  <2>3. new \in Seq(Entry)  BY OnLastIs
  <2> QED BY <2>1, <2>2, <2>3
<1> HIDE DEF n, m, new
<1>4. \A j \in 1..m : new[j].file = files[j].file  BY <1>3
<1>5. \A k \in 1..m : EntryIs(p, u, new[k])
  <2> TAKE k \in 1..m
  <2>1. CASE k = m  BY <1>3, <2>1
  <2>2. CASE k # m
    <3>0. m \in 1..m /\ files[m].file = f /\ new[k] = files[k] /\ files[k] \in Entry
      BY ONLY <1>3, <2>2, k \in 1..m
    <3>1. files[k].file # f  BY ONLY <1>2, <2>2, <3>0, k \in 1..m, ZenonT(30)
    <3>2. EntryIs(p, u, files[k])  BY <1>2, <3>0, <3>1, EntryStays
    <3> QED BY <3>0, <3>2
  <2> QED BY <2>1, <2>2
<1>6. \A k \in 1..m : \E i \in 1..(n + 1) : u[i] = new[k].file /\ p[i].k \in {"plus", "mode", "binary"}
  <2> TAKE k \in 1..m
  <2>1. PICK i \in 1..n : o[i] = files[k].file /\ q[i].k \in {"plus", "mode", "binary"}  BY <1>2
  <2>2. i \in 1..(n + 1)  BY <1>1
  <2> QED BY <1>1, <1>4, <2>1, <2>2
<1>7. \A i \in 1..(n + 1) : p[i].k \notin {"diff", "minus"} => \E k \in 1..m : new[k].file = u[i]
  <2> TAKE i \in 1..(n + 1)
  <2>1. CASE i \in 1..n  BY <1>1, <1>2, <1>4, <2>1
  <2>2. CASE i = n + 1  BY <1>1, <1>3, <1>4, <2>2
  <2> QED BY <1>1, <2>1, <2>2
<1>8. \A j, k \in 1..m : new[j].file = new[k].file => j = k  BY <1>2, <1>4
<1>9. FilesAre(p, u, new)  BY <1>1, <1>3, <1>5, <1>6, <1>7, <1>8 DEF FilesAre
<1> QED BY <1>9 DEF new

\* A line that opens the entry of its section.
LEMMA FilesOpen ==
  ASSUME NEW q, NEW o, NEW l, NEW f, NEW p, NEW u, Longer(q, o, l, f, p, u),
         NEW files \in Seq(Entry), FilesAre(q, o, files), l.k \in {"plus", "mode", "binary"},
         \A i \in 1..Len(q) : o[i] = f => q[i].k \in {"diff", "minus"},
         NEW e \in Entry, e.file = f, EntryIs(p, u, e)
  PROVE  FilesAre(p, u, Append(files, e))
<1> DEFINE n == Len(q)
           m == Len(files)
           new == Append(files, e)
<1>1. /\ n \in Nat /\ Len(p) = n + 1 /\ p[n + 1] = l /\ u[n + 1] = f
      /\ \A i \in 1..n : p[i] = q[i] /\ u[i] = o[i]
  BY Appended
<1>2. /\ \A j, k \in 1..m : files[j].file = files[k].file => j = k
      /\ \A k \in 1..m : EntryIs(q, o, files[k])
      /\ \A k \in 1..m : \E i \in 1..n : o[i] = files[k].file /\ q[i].k \in {"plus", "mode", "binary"}
      /\ \A i \in 1..n : q[i].k \notin {"diff", "minus"} => \E k \in 1..m : files[k].file = o[i]
  BY DEF FilesAre
<1>3. /\ Len(new) = m + 1 /\ m \in Nat /\ new[m + 1] = e
      /\ \A j \in 1..m : new[j] = files[j] /\ files[j] \in Entry
  OBVIOUS
<1>10. \A i \in 1..n : o[i] = f => q[i].k \in {"diff", "minus"}  OBVIOUS
<1> HIDE DEF n, m, new
<1>4. \A j \in 1..m : files[j].file # f
  <2> TAKE j \in 1..m
  <2>1. PICK i \in 1..n : o[i] = files[j].file /\ q[i].k \in {"plus", "mode", "binary"}  BY <1>2
  <2> QED BY <1>10, <2>1
<1>5. \A k \in 1..(m + 1) : EntryIs(p, u, new[k])
  <2> TAKE k \in 1..(m + 1)
  <2>1. CASE k = m + 1  BY <1>3, <2>1
  <2>2. CASE k \in 1..m
    <3>1. files[k].file # f /\ new[k] = files[k] /\ files[k] \in Entry  BY <1>3, <1>4, <2>2
    <3>2. EntryIs(p, u, files[k])  BY <1>2, <2>2, <3>1, EntryStays
    <3> QED BY <3>1, <3>2
  <2> QED BY <1>3, <2>1, <2>2
<1>6. \A k \in 1..(m + 1) : \E i \in 1..(n + 1) : u[i] = new[k].file /\ p[i].k \in {"plus", "mode", "binary"}
  <2> TAKE k \in 1..(m + 1)
  <2>1. CASE k \in 1..m
    <3>1. PICK i \in 1..n : o[i] = files[k].file /\ q[i].k \in {"plus", "mode", "binary"}  BY <1>2, <2>1
    <3>2. i \in 1..(n + 1)  BY <1>1
    <3> QED BY <1>1, <1>3, <2>1, <3>1, <3>2
  <2>2. CASE k = m + 1
    <3>1. n + 1 \in 1..(n + 1)  BY <1>1
    <3> QED BY <1>1, <1>3, <2>2, <3>1
  <2> QED BY <1>3, <2>1, <2>2
<1>7. \A i \in 1..(n + 1) : p[i].k \notin {"diff", "minus"} => \E k \in 1..(m + 1) : new[k].file = u[i]
  <2> TAKE i \in 1..(n + 1)
  <2>0. m + 1 \in 1..(m + 1) /\ \A k \in 1..m : k \in 1..(m + 1)  BY <1>3
  <2>1. CASE i \in 1..n
    <3>1. SUFFICES ASSUME q[i].k \notin {"diff", "minus"} PROVE \E k \in 1..(m + 1) : new[k].file = u[i]  BY <1>1, <2>1
    <3>2. PICK k \in 1..m : files[k].file = o[i]  BY <1>2, <2>1, <3>1
    <3> QED BY <1>1, <1>3, <2>0, <2>1, <3>2
  <2>2. CASE i = n + 1  BY <1>1, <1>3, <2>0, <2>2
  <2> QED BY <1>1, <2>1, <2>2
<1>8. \A j, k \in 1..(m + 1) : new[j].file = new[k].file => j = k
  <2> TAKE j, k \in 1..(m + 1)
  <2>1. (j \in 1..m \/ j = m + 1) /\ (k \in 1..m \/ k = m + 1)  BY <1>3
  <2> QED BY <1>2, <1>3, <1>4, <2>1
<1>9. FilesAre(p, u, new)  BY <1>1, <1>3, <1>5, <1>6, <1>7, <1>8 DEF FilesAre
<1> QED BY <1>9 DEF new

\* What the parser knows of the section it is in.
OpenAs(q, o, s) ==
  /\ Len(q) = 0 => ~s.open
  /\ Len(q) > 0 => s.diff = o[Len(q)]
  /\ s.open => Last(s.files).file = s.diff
  /\ ~s.open => s.pending = {} /\ \A i \in 1..Len(q) : o[i] = o[Len(q)] => q[i].k \in {"diff", "minus"}
  /\ Len(q) > 0 /\ q[Len(q)].k = "minus" => s.minus = q[Len(q)].file

Reads(q, o, s) == s \in ReadStates /\ FilesAre(q, o, s.files) /\ OpenAs(q, o, s)

\* Below its name lines a section has an open entry, that of its file.
LEMMA OpenBelow ==
  ASSUME NEW q, NEW o, NEW l, NEW f, NEW p, NEW u, Longer(q, o, l, f, p, u), NEW s, Reads(q, o, s), l.k # "diff"
  PROVE  /\ Len(q) \in 1..Len(q) /\ o[Len(q)] = f /\ s.diff = f /\ f \in PatchFiles /\ f # None
         /\ s.open => Len(s.files) > 0 /\ Last(s.files) \in Entry /\ Last(s.files).file = f
                      /\ \E k \in 1..Len(s.files) : s.files[k].file = f
         /\ ~s.open => s.pending = {} /\ \A i \in 1..Len(q) : o[i] = f => q[i].k \in {"diff", "minus"}
         /\ ~s.open => l.k \in {"mode", "binary", "minus", "plus"}
<1>1. Len(q) \in Nat /\ \A i \in 1..Len(q) : q[i] \in PatchLine  BY Appended
<1>2. /\ Len(q) > 0 /\ o[Len(q)] = f /\ q[Len(q)].k \in Before(l.k) /\ f \in PatchFiles /\ f # None
  BY PatchAssumption DEF Grows, Longer
<1>3. s.diff = f /\ s \in ReadStates /\ (s.open => Last(s.files).file = f)
  BY <1>2 DEF Reads, OpenAs
<1>4. ~s.open => s.pending = {} /\ \A i \in 1..Len(q) : o[i] = f => q[i].k \in {"diff", "minus"}
  BY <1>2 DEF Reads, OpenAs
<1>5. Len(q) \in 1..Len(q)  BY <1>1, <1>2
<1>6. ~s.open => l.k \in {"mode", "binary", "minus", "plus"}
  BY <1>2, <1>4, <1>5 DEF Before, HunkKinds
<1>7. s.open => Len(s.files) > 0 /\ s.files \in Seq(Entry)  BY <1>3 DEF ReadStates
<1>8. s.open => Last(s.files) \in Entry /\ Len(s.files) \in 1..Len(s.files) /\ s.files[Len(s.files)].file = f
  BY <1>3, <1>7 DEF Last
<1> QED BY <1>2, <1>3, <1>4, <1>5, <1>6, <1>7, <1>8

\* The state of the parser after one line more, given its entries.
LEMMA ReadsOn ==
  ASSUME NEW q, NEW o, NEW l, NEW f, NEW p, NEW u, Longer(q, o, l, f, p, u), NEW t \in ReadStates,
         FilesAre(p, u, t.files), t.diff = f, t.open => Last(t.files).file = f,
         ~t.open => t.pending = {} /\ l.k \in {"diff", "minus"} /\ \A i \in 1..Len(q) : o[i] = f => q[i].k \in {"diff", "minus"},
         l.k = "minus" => t.minus = l.file
  PROVE  Reads(p, u, t)
<1> DEFINE n == Len(q)
<1>1. /\ n \in Nat /\ Len(p) = n + 1 /\ p[n + 1] = l /\ u[n + 1] = f
      /\ \A i \in 1..n : p[i] = q[i] /\ u[i] = o[i]
  BY ONLY Longer(q, o, l, f, p, u), Appended
<1> HIDE DEF n
<1>2. ~t.open => \A i \in 1..(n + 1) : u[i] = f => p[i].k \in {"diff", "minus"}
  <2>1. \A i \in 1..(n + 1) : i \in 1..n \/ i = n + 1  BY <1>1
  <2> QED BY <1>1, <2>1 DEF n
<1>3. n + 1 > 0 /\ n + 1 # 0  BY <1>1
<1> QED BY <1>1, <1>2, <1>3 DEF Reads, OpenAs

\* Appending an entry and then changing it is appending the changed one.
LEMMA OpenedLast ==
  ASSUME NEW files \in Seq(Entry), NEW e \in Entry, NEW m \in Entry
  PROVE  /\ OnLast(Append(files, e), m) = Append(files, m)
         /\ Append(files, m) \in Seq(Entry) /\ Last(Append(files, m)) = m
<1> DEFINE a == Append(files, e)
           b == Append(files, m)
           n == Len(files) + 1
<1>1. /\ a \in Seq(Entry) /\ b \in Seq(Entry) /\ Len(a) = n /\ Len(b) = n /\ n \in 1..n /\ b[n] = m
      /\ \A i \in 1..n : i # n => a[i] = files[i] /\ b[i] = files[i]
  OBVIOUS
<1> HIDE DEF a, b, n
<1>2. /\ OnLast(a, m) \in Seq(Entry) /\ Len(OnLast(a, m)) = n /\ \A i \in 1..n : OnLast(a, m)[i] = IF i = n THEN m ELSE a[i]
  BY <1>1 DEF OnLast
<1>3. \A i \in 1..n : OnLast(a, m)[i] = b[i]  BY <1>1, <1>2
<1>4. OnLast(a, m) = b  BY <1>1, <1>2, <1>3, SeqEqual
<1> QED BY <1>1, <1>4 DEF a, b, Last

\* One line more: the entries still say what the sections hold.
LEMMA ParseStep ==
  ASSUME NEW q, NEW o, NEW l, NEW f, NEW p, NEW u, Longer(q, o, l, f, p, u), NEW s, Reads(q, o, s),
         NEW t, t = ParseLine(s, l), l.k # "plus-alike"
  PROVE  Reads(p, u, t)
<1>0. /\ l \in PatchLine /\ l.k \in LineKinds /\ l.file \in Names /\ f \in PatchFiles /\ s \in ReadStates /\ s.files \in Seq(Entry)
      /\ s.open \in BOOLEAN /\ s.pending \in SUBSET {"MODE_CHANGE", "BINARY"}
      /\ FilesAre(q, o, s.files)
  BY DEF Longer, Grows, PatchLine, Reads, ReadStates
<1>11. ParsedInto(s, l, t)  BY <1>0, ParseIs
<1>1. /\ t \in ReadStates
      /\ l.k = "diff" => t.files = s.files /\ t.open = FALSE /\ t.diff = l.file /\ t.minus = None /\ t.pending = {}
      /\ l.k # "diff" => t.diff = s.diff
  BY <1>11 DEF ParsedInto
<1>2. /\ l.k = "mode" => t = Mark(s, "MODE_CHANGE")
      /\ l.k = "binary" => t = Mark(s, "BINARY")
      /\ l.k = "plus" => t = PlusHeader(s, l.file)
  BY <1>11 DEF ParsedInto
<1>3. /\ l.k \in {"minus", "look-alike"} => t.files = s.files /\ t.open = s.open /\ t.pending = s.pending /\ t.minus = l.file
      /\ l.k \in {"added", "removed"} /\ s.open =>
           t.open = s.open /\ t.pending = s.pending /\ t.files = OnLast(s.files, CountLine(Last(s.files), l))
      /\ l.k = "body" => t = s
  BY <1>11 DEF ParsedInto
<1>4. ASSUME l.k # "diff"
      PROVE  /\ Len(q) \in 1..Len(q) /\ o[Len(q)] = f /\ s.diff = f /\ f # None
             /\ s.open => Len(s.files) > 0 /\ Last(s.files) \in Entry /\ Last(s.files).file = f
                          /\ \E k \in 1..Len(s.files) : s.files[k].file = f
             /\ ~s.open => s.pending = {} /\ \A i \in 1..Len(q) : o[i] = f => q[i].k \in {"diff", "minus"}
             /\ ~s.open => l.k \in {"mode", "binary", "minus", "plus"}
  BY <1>4, OpenBelow
<1>5. CASE l.k = "diff"
  <2>1. l.file = f /\ \A i \in 1..Len(q) : o[i] # f  BY <1>5 DEF Longer, Grows
  <2>2. FilesAre(p, u, s.files)  BY <1>0, <1>5, FilesStay
  <2>3. Reads(p, u, t)  BY <1>1, <1>5, <2>1, <2>2, ReadsOn
  <2> QED BY <2>3
<1>6. CASE l.k = "minus"
  <2>2. FilesAre(p, u, s.files)  BY <1>0, <1>6, FilesStay
  <2>3. Reads(p, u, t)  BY <1>1, <1>3, <1>4, <1>6, <2>2, ReadsOn
  <2> QED BY <2>3
<1>7. CASE l.k \in {"look-alike", "body"}
  <2>1. s.open  BY <1>4, <1>7
  <2>2. FilesAre(p, u, s.files)  BY <1>0, <1>4, <1>7, <2>1, FilesStay
  <2>3. t.files = s.files /\ t.open  BY <1>3, <1>7, <2>1
  <2>4. Reads(p, u, t)  BY <1>1, <1>4, <1>7, <2>1, <2>2, <2>3, ReadsOn
  <2> QED BY <2>4
<1>8. CASE l.k \in {"added", "removed"}
  <2> DEFINE e == Last(s.files)
             m == CountLine(e, l)
  <2>1. s.open  BY <1>4, <1>8
  <2>2. e \in Entry /\ e.file = f /\ Len(s.files) > 0  BY <1>4, <1>8, <2>1
  <2>3. EntryIs(q, o, e)
    <3>1. Len(s.files) \in 1..Len(s.files)  BY <1>0, <2>2
    <3> QED BY <1>0, <3>1 DEF FilesAre, Last
  <2>4. m \in Entry /\ m.file = f  BY <1>0, <2>2, CountIs
  <2>5. EntryIs(p, u, m)  BY <1>8, <2>2, <2>3, EntryCounts
  <2>6. FilesAre(p, u, OnLast(s.files, m))  BY <1>0, <2>2, <2>4, <2>5, FilesCount
  <2>7. t.files = OnLast(s.files, m) /\ t.open  BY <1>3, <1>8, <2>1
  <2> HIDE DEF m
  <2>8. Last(t.files) = m  BY <1>0, <2>2, <2>4, <2>7 DEF OnLast, Last
  <2>9. Reads(p, u, t)  BY <1>1, <1>4, <1>8, <2>4, <2>6, <2>7, <2>8, ReadsOn
  <2> QED BY <2>9
<1>9. CASE l.k \in {"mode", "binary"}
  <2> DEFINE r == IF l.k = "mode" THEN "MODE_CHANGE" ELSE "BINARY"
  <2>0. r \in {"MODE_CHANGE", "BINARY"} /\ t = Mark(s, r)  BY <1>2, <1>9
  <2>00. r = IF l.k = "mode" THEN "MODE_CHANGE" ELSE "BINARY"  OBVIOUS
  <2> HIDE DEF r
  <2>3. MarkedInto(s, r, t)  BY <1>0, <2>0, MarkIs
  <2>1. CASE s.open
    <3> DEFINE e == Last(s.files)
               m == Marked(e, r)
    <3>2. e \in Entry /\ e.file = f /\ Len(s.files) > 0  BY <1>4, <1>9, <2>1
    <3>3. EntryIs(q, o, e)
      <4>1. Len(s.files) \in 1..Len(s.files)  BY <1>0, <3>2
      <4> QED BY <1>0, <4>1 DEF FilesAre, Last
    <3>4. m \in Entry /\ m.file = f  BY <2>0, <3>2, AddReason
    <3>5. EntryIs(p, u, m)  BY <1>9, <2>00, <3>2, <3>3, EntryMarked
    <3>6. FilesAre(p, u, OnLast(s.files, m))  BY <1>0, <3>2, <3>4, <3>5, FilesCount
    <3>7. t.files = OnLast(s.files, m) /\ t.open  BY <2>1, <2>3 DEF MarkedInto
    <3> HIDE DEF m
    <3>8. Last(t.files) = m  BY <1>0, <3>2, <3>4, <3>7 DEF OnLast, Last
    <3>9. Reads(p, u, t)  BY <1>1, <1>4, <1>9, <3>4, <3>6, <3>7, <3>8, ReadsOn
    <3> QED BY <3>9
  <2>2. CASE ~s.open
    <3> DEFINE e == EmptyEntry(f, {})
               m == Marked(e, r)
    <3>1. \A i \in 1..Len(q) : o[i] = f => q[i].k \in {"diff", "minus"}  BY <1>4, <1>9, <2>2
    <3>2. e \in Entry /\ e.file = f /\ EntryIs(q, o, e)  BY <1>0, <3>1, EntryBegins
    <3> HIDE DEF e
    <3>4. m \in Entry /\ m.file = f  BY <2>0, <3>2, AddReason
    <3>5. EntryIs(p, u, m)  BY <1>9, <2>00, <3>2, EntryMarked
    <3>6. FilesAre(p, u, Append(s.files, m))  BY <1>0, <1>9, <3>1, <3>4, <3>5, FilesOpen
    <3>7. s.diff = f /\ s.diff # None  BY <1>4, <1>9
    <3>8. t.files = OnLast(Append(s.files, e), m) /\ t.open  BY <2>2, <2>3, <3>7 DEF MarkedInto, e
    <3> HIDE DEF m
    <3>9. t.files = Append(s.files, m) /\ Last(t.files) = m  
      <4>1. OnLast(Append(s.files, e), m) = Append(s.files, m) /\ Last(Append(s.files, m)) = m
        BY <1>0, <3>2, <3>4, OpenedLast
      <4> QED BY <3>8, <4>1
    <3>10. Reads(p, u, t)  BY <1>1, <1>4, <1>9, <3>4, <3>6, <3>8, <3>9, ReadsOn
    <3> QED BY <3>10
  <2> QED BY <2>1, <2>2
<1>10. CASE l.k = "plus"
  <2>1. PlusFile(s, l.file) = f /\ f # None
    <3>1. l.file \in {f, None} /\ (l.file # None \/ q[Len(q)].file # None) /\ q[Len(q)].k = "minus"
      BY <1>10 DEF Longer, Grows, Before
    <3>2. s.minus = q[Len(q)].file  BY <1>4, <1>10, <3>1 DEF Reads, OpenAs
    <3>3. q[Len(q)].file \in {f, None}
      <4>1. Fits(q, o, Len(q))  BY <1>4, <1>10 DEF Longer, Grammar
      <4> QED BY <1>4, <1>10, <3>1, <4>1 DEF Fits
    <3> QED BY <1>4, <1>10, <3>1, <3>2, <3>3 DEF PlusFile
  <2>2. CASE s.open
    <3>1. t = s  BY <1>0, <1>2, <1>4, <1>10, <2>1, <2>2, PlusIs
    <3>2. FilesAre(p, u, s.files)  BY <1>0, <1>4, <1>10, <2>2, FilesStay
    <3>3. Reads(p, u, t)  BY <1>1, <1>4, <1>10, <2>2, <3>1, <3>2, ReadsOn
    <3> QED BY <3>3
  <2>3. CASE ~s.open
    <3> DEFINE e == EmptyEntry(f, {})
    <3>1. s.pending = {} /\ \A i \in 1..Len(q) : o[i] = f => q[i].k \in {"diff", "minus"}  BY <1>4, <1>10, <2>3
    <3>2. e \in Entry /\ e.file = f /\ EntryIs(q, o, e)  BY <1>0, <3>1, EntryBegins
    <3>3. t.open = TRUE /\ t.files = Append(s.files, e)
      <4>1. PICK x \in Names : x = l.file  BY <1>0
      <4>2. t = PlusHeader(s, x) /\ PlusFile(s, x) = f  BY <1>2, <1>10, <2>1, <4>1
      <4>3. t.open = TRUE /\ t.files = Append(s.files, EmptyEntry(PlusFile(s, x), s.pending))
        BY <1>0, <2>1, <2>3, <4>2, PlusIs
      <4> QED BY <3>1, <4>2, <4>3
    <3> HIDE DEF e
    <3>4. EntryIs(p, u, e)  BY <1>10, <3>2, EntryStays
    <3>5. FilesAre(p, u, t.files)  BY <1>0, <1>10, <3>1, <3>2, <3>3, <3>4, FilesOpen
    <3>6. Last(t.files) = e  BY <1>0, <3>2, <3>3, OpenedLast
    <3>7. Reads(p, u, t)  BY <1>1, <1>4, <1>10, <3>2, <3>3, <3>5, <3>6, ReadsOn
    <3> QED BY <3>7
  <2> QED BY <2>2, <2>3
<1> QED BY <1>0, <1>5, <1>6, <1>7, <1>8, <1>9, <1>10 DEF LineKinds

\* Entries are only added to.
EntryGrew(a, b) ==
  /\ b.file = a.file /\ a.reasons \subseteq b.reasons /\ Len(a.added) <= Len(b.added)
  /\ \A i \in 1..Len(a.added) : b.added[i] = a.added[i]
FilesGrew(a, b) == Len(a) <= Len(b) /\ \A k \in 1..Len(a) : EntryGrew(a[k], b[k])

\* Marking an entry, or counting a line into it, takes nothing out of it.
LEMMA EntriesGrow ==
  ASSUME NEW e \in Entry, NEW l \in PatchLine, NEW r \in {"MODE_CHANGE", "BINARY"}
  PROVE  EntryGrew(e, e) /\ EntryGrew(e, Marked(e, r)) /\ EntryGrew(e, CountLine(e, l))
<1>1. e.added \in Seq(Holds) /\ l.has \in Holds /\ Len(e.added) \in Nat  BY DEF Entry, PatchLine
<1>2. EntryGrew(e, e)  BY <1>1 DEF EntryGrew
<1>3. EntryGrew(e, Marked(e, r))
  <2>1. Marked(e, r).file = e.file /\ Marked(e, r).added = e.added /\ Marked(e, r).reasons = e.reasons \cup {r}  BY AddReason
  <2> QED BY <1>1, <2>1 DEF EntryGrew
<1>4. EntryGrew(e, CountLine(e, l))
  <2> DEFINE m == CountLine(e, l)
  <2>1. m.file = e.file /\ m.reasons = e.reasons /\ (m.added = e.added \/ m.added = Append(e.added, l.has))  BY CountIs
  <2> HIDE DEF m
  <2>2. Len(e.added) <= Len(m.added) /\ \A i \in 1..Len(e.added) : m.added[i] = e.added[i]  BY <1>1, <2>1
  <2>3. EntryGrew(e, m)  BY <2>1, <2>2 DEF EntryGrew
  <2> QED BY <2>3 DEF m
<1> QED BY <1>2, <1>3, <1>4

\* Opening one more entry takes nothing out of the others.
LEMMA GrowSame ==
  ASSUME NEW a \in Seq(Entry), NEW e \in Entry
  PROVE  FilesGrew(a, a) /\ FilesGrew(a, Append(a, e))
<1>0. \A x \in Entry : EntryGrew(x, x)
  <2> TAKE x \in Entry
  <2>1. x.added \in Seq(Holds)  BY DEF Entry
  <2> QED BY <2>1 DEF EntryGrew
<1>1. Len(a) \in Nat /\ \A k \in 1..Len(a) : a[k] \in Entry  OBVIOUS
<1>2. FilesGrew(a, a)  BY <1>0, <1>1 DEF FilesGrew
<1>3. Len(Append(a, e)) = Len(a) + 1 /\ \A k \in 1..Len(a) : Append(a, e)[k] = a[k]  OBVIOUS
<1>4. Len(a) <= Len(a) + 1  BY <1>1
<1>5. FilesGrew(a, Append(a, e))  BY <1>0, <1>1, <1>3, <1>4 DEF FilesGrew
<1> QED BY <1>2, <1>5

\* Changing the last entry to one that has grown.
LEMMA GrowLast ==
  ASSUME NEW a \in Seq(Entry), Len(a) > 0, NEW e \in Entry, EntryGrew(Last(a), e)
  PROVE  FilesGrew(a, OnLast(a, e))
<1>0. \A x \in Entry : EntryGrew(x, x)
  <2> TAKE x \in Entry
  <2>1. x.added \in Seq(Holds)  BY DEF Entry
  <2> QED BY <2>1 DEF EntryGrew
<1>1. Len(a) \in Nat /\ \A k \in 1..Len(a) : a[k] \in Entry  OBVIOUS
<1> DEFINE b == OnLast(a, e)
<1>2. Len(b) = Len(a) /\ \A k \in 1..Len(a) : b[k] = IF k = Len(a) THEN e ELSE a[k]  BY OnLastIs
<1> HIDE DEF b
<1>3. \A k \in 1..Len(a) : EntryGrew(a[k], b[k])  BY <1>0, <1>1, <1>2 DEF Last
<1>4. FilesGrew(a, b)  BY <1>1, <1>2, <1>3 DEF FilesGrew
<1> QED BY <1>4 DEF b

\* No line takes anything out of an entry.
LEMMA ParseGrows ==
  ASSUME NEW s \in ReadStates, NEW l \in PatchLine, NEW t, t = ParseLine(s, l)
  PROVE  FilesGrew(s.files, t.files)
<1>0. /\ s.files \in Seq(Entry) /\ s.open \in BOOLEAN /\ (s.open => Len(s.files) > 0)
      /\ s.diff \in Names /\ s.minus \in Names /\ s.pending \in SUBSET {"MODE_CHANGE", "BINARY"}
      /\ l.k \in LineKinds /\ l.file \in Names
  BY DEF ReadStates, PatchLine
<1>00. FilesGrew(s.files, s.files) /\ \A e \in Entry : FilesGrew(s.files, Append(s.files, e))
  <2>2. \A e \in Entry : FilesGrew(s.files, Append(s.files, e))  BY <1>0, GrowSame
  <2>3. FilesGrew(s.files, s.files)
    <3>1. \A x \in Entry : EntryGrew(x, x)
      <4> TAKE x \in Entry
      <4>1. x.added \in Seq(Holds)  BY DEF Entry
      <4> QED BY <4>1 DEF EntryGrew
    <3>2. Len(s.files) \in Nat /\ \A k \in 1..Len(s.files) : s.files[k] \in Entry  BY <1>0
    <3> QED BY <3>1, <3>2 DEF FilesGrew
  <2> QED BY <2>2, <2>3
<1>1. ParsedInto(s, l, t)  BY ParseIs
<1>2. CASE l.k \in {"diff", "minus", "look-alike", "body"}
  <2>1. t.files = s.files  BY <1>1, <1>2 DEF ParsedInto
  <2> QED BY <1>00, <2>1
<1>3. CASE l.k \in {"added", "removed"}
  <2>1. CASE s.open
    <3>1. t.files = OnLast(s.files, CountLine(Last(s.files), l))  BY <1>1, <1>3, <2>1 DEF ParsedInto
    <3>2. Last(s.files) \in Entry /\ Len(s.files) > 0  BY <1>0, <2>1 DEF Last
    <3>3. CountLine(Last(s.files), l) \in Entry /\ EntryGrew(Last(s.files), CountLine(Last(s.files), l))
      BY <3>2, CountIs, EntriesGrow
    <3> QED BY <1>0, <3>1, <3>2, <3>3, GrowLast
  <2>2. CASE ~s.open
    <3>1. t = s  BY <1>3, <2>2 DEF ParseLine
    <3> QED BY <1>00, <3>1
  <2> QED BY <2>1, <2>2
<1>4. CASE l.k \in {"mode", "binary"}
  <2> DEFINE r == IF l.k = "mode" THEN "MODE_CHANGE" ELSE "BINARY"
  <2>0. r \in {"MODE_CHANGE", "BINARY"} /\ t = Mark(s, r)  BY <1>1, <1>4 DEF ParsedInto
  <2> HIDE DEF r
  <2>00. MarkedInto(s, r, t)  BY <2>0, MarkIs
  <2>1. CASE s.open
    <3>1. t.files = OnLast(s.files, Marked(Last(s.files), r))  BY <2>00, <2>1 DEF MarkedInto
    <3>2. Last(s.files) \in Entry /\ Len(s.files) > 0  BY <1>0, <2>1 DEF Last
    <3>3. Marked(Last(s.files), r) \in Entry /\ EntryGrew(Last(s.files), Marked(Last(s.files), r))
      BY <2>0, <3>2, AddReason, EntriesGrow
    <3> QED BY <1>0, <3>1, <3>2, <3>3, GrowLast
  <2>2. CASE ~s.open /\ s.diff = None
    <3>1. t.files = s.files  BY <2>00, <2>2 DEF MarkedInto
    <3> QED BY <1>00, <3>1
  <2>3. CASE ~s.open /\ s.diff # None
    <3> DEFINE e == EmptyEntry(s.diff, {})
               m == Marked(e, r)
    <3>1. s.diff \in PatchFiles  BY <1>0, <2>3 DEF Names
    <3>2. e \in Entry  BY <3>1, FreshEntry
    <3>3. t.files = OnLast(Append(s.files, e), m)  BY <2>00, <2>3 DEF MarkedInto
    <3> HIDE DEF e
    <3>4. m \in Entry  BY <2>0, <3>2, AddReason
    <3> HIDE DEF m
    <3>5. OnLast(Append(s.files, e), m) = Append(s.files, m)  BY <1>0, <3>2, <3>4, OpenedLast
    <3> QED BY <1>00, <3>3, <3>4, <3>5
  <2> QED BY <2>1, <2>2, <2>3
<1>5. CASE l.k \in {"plus", "plus-alike"}
  <2> DEFINE file == PlusFile(s, l.file)
  <2>0. t = PlusHeader(s, l.file)  BY <1>1, <1>5 DEF ParsedInto
  <2>1. t.files = s.files \/ (file # None /\ t.files = Append(s.files, EmptyEntry(file, s.pending)))
    BY <2>0 DEF PlusHeader, PlusFile, State, ReadStates
  <2>2. file # None => file \in PatchFiles  BY <1>0 DEF Names, PlusFile
  <2> HIDE DEF file
  <2>3. file # None => EmptyEntry(file, s.pending) \in Entry  BY <1>0, <2>2, FreshEntry
  <2> QED BY <1>00, <2>1, <2>3
<1> QED BY <1>0, <1>2, <1>3, <1>4, <1>5 DEF LineKinds

\* What was found in less is found in more, and the posture is no better.
LEMMA PostureGrows ==
  ASSUME NEW a \in Seq(Entry), NEW b \in Seq(Entry), FilesGrew(a, b)
  PROVE  Worse[Posture(a)] <= Worse[Posture(b)]
<1>0. /\ Len(a) \in Nat /\ Len(b) \in Nat /\ DOMAIN a = 1..Len(a) /\ DOMAIN b = 1..Len(b)
      /\ \A k \in 1..Len(a) : a[k] \in Entry
      /\ \A k \in 1..Len(b) : b[k] \in Entry
  OBVIOUS
<1>1. \A k \in DOMAIN a : k \in DOMAIN b /\ EntryGrew(a[k], b[k])
  BY <1>0 DEF FilesGrew
<1>2. \A k \in DOMAIN a : /\ b[k].file = a[k].file /\ a[k].reasons \subseteq b[k].reasons
                          /\ \A i \in DOMAIN a[k].added : i \in DOMAIN b[k].added /\ b[k].added[i] = a[k].added[i]
  <2> TAKE k \in DOMAIN a
  <2>1. a[k] \in Entry /\ b[k] \in Entry /\ EntryGrew(a[k], b[k])  BY <1>0, <1>1
  <2>2. a[k].added \in Seq(Holds) /\ b[k].added \in Seq(Holds)  BY <2>1 DEF Entry
  <2>3. /\ DOMAIN a[k].added = 1..Len(a[k].added) /\ DOMAIN b[k].added = 1..Len(b[k].added)
        /\ Len(a[k].added) \in Nat /\ Len(b[k].added) \in Nat
    BY <2>2
  <2> QED BY <2>1, <2>3 DEF EntryGrew
<1>3. \A tests \in BOOLEAN : \A shapes : FoundIn(a, tests, shapes) => FoundIn(b, tests, shapes)
  BY <1>1, <1>2 DEF FoundIn
<1>4. (\E k \in DOMAIN a : a[k].reasons # {}) => \E k \in DOMAIN b : b[k].reasons # {}
  BY <1>1, <1>2
<1> DEFINE fa == FoundIn(a, FALSE, {"structured"})
           fb == FoundIn(b, FALSE, {"structured"})
           ua == \E k \in DOMAIN a : a[k].reasons # {}
           ub == \E k \in DOMAIN b : b[k].reasons # {}
           wa == FoundIn(a, TRUE, {"structured"}) \/ FoundIn(a, FALSE, Literals)
           wb == FoundIn(b, TRUE, {"structured"}) \/ FoundIn(b, FALSE, Literals)
<1>5. (fa => fb) /\ (ua => ub) /\ (wa => wb)  BY <1>3, <1>4
<1>6. Posture(a) = IF fa THEN "FAIL" ELSE IF ua THEN "NOT_CHECKED" ELSE IF wa THEN "WARN" ELSE "PASS"  BY DEF Posture
<1>7. Posture(b) = IF fb THEN "FAIL" ELSE IF ub THEN "NOT_CHECKED" ELSE IF wb THEN "WARN" ELSE "PASS"  BY DEF Posture
<1> HIDE DEF fa, fb, ua, ub, wa, wb
<1>8. Worse["PASS"] = 0 /\ Worse["WARN"] = 1 /\ Worse["NOT_CHECKED"] = 2 /\ Worse["FAIL"] = 3  BY DEF Worse
<1>9. /\ Posture(a) = "FAIL" => Posture(b) = "FAIL"
      /\ Posture(a) = "NOT_CHECKED" => Posture(b) \in {"NOT_CHECKED", "FAIL"}
      /\ Posture(a) = "WARN" => Posture(b) \in {"WARN", "NOT_CHECKED", "FAIL"}
      /\ {Posture(a), Posture(b)} \subseteq {"PASS", "WARN", "NOT_CHECKED", "FAIL"}
  BY <1>5, <1>6, <1>7
<1> QED BY <1>8, <1>9

\* What is read so far, and that each line made the posture no better.
ReadSoFar == Reading(raw)[Len(raw)]
PatchInv ==
  /\ Grammar(raw, owner) /\ ReadSoFar \in ReadStates /\ PostureNeverImproves
  /\ ~Impersonated => Reads(raw, owner, ReadSoFar)

\* The empty patch satisfies the invariant.
LEMMA PatchStarts == PatchInit => PatchInv
<1> SUFFICES ASSUME PatchInit PROVE PatchInv  OBVIOUS
<1>1. raw = <<>> /\ owner = <<>> /\ Len(raw) = 0 /\ Len(owner) = 0 /\ raw \in Seq(PatchLine) /\ owner \in Seq(PatchFiles)
  BY DEF PatchInit
<1>2. \A i \in 1..Len(raw) : FALSE  BY <1>1
<1>3. Grammar(raw, owner)  BY <1>1, <1>2 DEF Grammar
<1>4. ReadSoFar = Unread /\ ReadSoFar \in ReadStates
  <2>1. Reading(raw)[0] = Unread /\ \A i \in 0..Len(raw) : Reading(raw)[i] \in ReadStates  BY <1>1, ReadingIs
  <2>2. 0 \in 0..Len(raw)  BY <1>1
  <2> QED BY <1>1, <2>1, <2>2 DEF ReadSoFar
<1>5. Unread.files = <<>> /\ Unread.open = FALSE /\ Unread.pending = {}  BY DEF Unread, State
<1>6. \A k \in 1..Len(Unread.files) : FALSE  BY <1>5
<1>7. FilesAre(raw, owner, Unread.files)  BY <1>2, <1>6 DEF FilesAre
<1>8. OpenAs(raw, owner, Unread)  BY <1>1, <1>2, <1>5 DEF OpenAs
<1>9. PostureNeverImproves  BY <1>1 DEF PostureNeverImproves
<1> QED BY <1>3, <1>4, <1>7, <1>8, <1>9 DEF PatchInv, Reads

\* Every line that Git may write next fits.
LEMMA PatchGrows ==
  ASSUME Grammar(raw, owner), PatchNext
  PROVE  \E l \in PatchLine, f \in PatchFiles : Longer(raw, owner, l, f, raw', owner')
<1> DEFINE n == Len(raw)
           last == owner[n]
<1>0. raw \in Seq(PatchLine) /\ owner \in Seq(PatchFiles) /\ Len(owner) = n /\ n \in Nat  BY DEF Grammar
<1>1. LastLine # "none" => n > 0 /\ LastLine = raw[n].k /\ Last(owner) = last /\ last \in PatchFiles /\ Last(raw) = raw[n]
  BY <1>0 DEF LastLine, Last
<1>2. \A k \in LineKinds, f \in Names, h \in Holds :
        L(k, f, h) \in PatchLine /\ L(k, f, h).k = k /\ L(k, f, h).file = f /\ L(k, f, h).has = h
  BY DEF L, PatchLine
<1>3. "plain" \in Holds /\ None \in Names /\ \A f \in PatchFiles : f \in Names /\ f # None
  BY PatchAssumption DEF Holds, Names
<1> HIDE DEF n, last
<1>4. ASSUME NEW k \in LineKinds, NEW f \in Names, NEW h \in Holds, k # "diff", LastLine # "none",
             LastLine \in Before(k), Write(L(k, f, h), Last(owner)), k \in {"minus", "plus"} => f \in {last, None},
             k = "plus" => f # None \/ Last(raw).file # None
      PROVE  \E l \in PatchLine, g \in PatchFiles : Longer(raw, owner, l, g, raw', owner')
  <2> DEFINE l == L(k, f, h)
  <2>1. l \in PatchLine /\ l.k = k /\ l.file = f  BY <1>2
  <2>2. raw' = Append(raw, l) /\ owner' = Append(owner, last)  BY <1>1, <1>4 DEF Write
  <2> HIDE DEF l
  <2>3. Grows(raw, owner, l, last)  BY <1>0, <1>1, <1>4, <2>1 DEF Grows, n, last
  <2>4. Longer(raw, owner, l, last, raw', owner')  BY <2>2, <2>3 DEF Longer
  <2> QED BY <1>1, <1>4, <2>1, <2>4
<1>5. CASE \E f \in PatchFiles : LastLine # "minus" /\ f \notin ToSet(owner) /\ Write(L("diff", f, "plain"), f)
  <2>1. PICK f \in PatchFiles : f \notin ToSet(owner) /\ Write(L("diff", f, "plain"), f)  BY <1>5
  <2> DEFINE l == L("diff", f, "plain")
  <2>2. l \in PatchLine /\ l.k = "diff" /\ l.file = f  BY <1>2, <1>3 DEF LineKinds
  <2>3. raw' = Append(raw, l) /\ owner' = Append(owner, f)  BY <2>1 DEF Write
  <2>4. \A i \in 1..n : owner[i] # f  BY <1>0, <2>1 DEF ToSet
  <2> HIDE DEF l
  <2>5. Longer(raw, owner, l, f, raw', owner')  BY <2>2, <2>3, <2>4 DEF Longer, Grows, n
  <2> QED BY <2>2, <2>5
<1>6. CASE LastLine = "diff" /\ Write(L("mode", None, "plain"), Last(owner))
  <2>1. LastLine \in Before("mode") /\ "mode" \in LineKinds  BY <1>6 DEF Before, LineKinds
  <2> QED BY <1>3, <1>4, <1>6, <2>1
<1>7. CASE LastLine \in {"diff", "mode"} /\ Write(L("binary", None, "plain"), Last(owner))
  <2>1. LastLine \in Before("binary") /\ "binary" \in LineKinds  BY <1>7 DEF Before, LineKinds
  <2> QED BY <1>3, <1>4, <1>7, <2>1
<1>8. CASE LastLine \in {"diff", "mode"} /\ \E f \in {Last(owner), None} : Write(L("minus", f, "plain"), Last(owner))
  <2>1. LastLine \in Before("minus") /\ "minus" \in LineKinds  BY <1>8 DEF Before, LineKinds
  <2>2. PICK f \in {Last(owner), None} : Write(L("minus", f, "plain"), Last(owner))  BY <1>8
  <2>3. f \in Names /\ f \in {last, None}  BY <1>1, <1>3, <1>8
  <2> QED BY <1>3, <1>4, <1>8, <2>1, <2>2, <2>3
<1>9. CASE LastLine = "minus" /\ \E f \in {Last(owner), None} :
             ~(f = None /\ Last(raw).file = None) /\ Write(L("plus", f, "plain"), Last(owner))
  <2>1. LastLine \in Before("plus") /\ "plus" \in LineKinds  BY <1>9 DEF Before, LineKinds
  <2>2. PICK f \in {Last(owner), None} : ~(f = None /\ Last(raw).file = None) /\ Write(L("plus", f, "plain"), Last(owner))
    BY <1>9
  <2>3. f \in Names /\ f \in {last, None}  BY <1>1, <1>3, <1>9
  <2> QED BY <1>3, <1>4, <1>9, <2>1, <2>2, <2>3
<1>10. CASE InHunk /\ HasSide("plus") /\ \E h \in Holds : Write(L("added", None, h), Last(owner))
  <2>1. LastLine \in Before("added") /\ "added" \in LineKinds /\ LastLine # "none"
    BY <1>10 DEF Before, LineKinds, InHunk, HunkKinds
  <2> QED BY <1>3, <1>4, <1>10, <2>1
<1>11. CASE InHunk /\ HasSide("minus") /\ Write(L("removed", None, "plain"), Last(owner))
  <2>1. LastLine \in Before("removed") /\ "removed" \in LineKinds /\ LastLine # "none"
    BY <1>11 DEF Before, LineKinds, InHunk, HunkKinds
  <2> QED BY <1>3, <1>4, <1>11, <2>1
<1>13. CASE InHunk /\ (\/ HasSide("minus") /\ \E f \in PatchFiles \cup {None} : Write(L("look-alike", f, "plain"), Last(owner))
                       \/ HasSide("plus") /\ \E f \in PatchFiles \cup {None} : Write(L("plus-alike", f, "plain"), Last(owner)))
  <2>1. PICK k \in {"look-alike", "plus-alike"}, f \in Names : Write(L(k, f, "plain"), Last(owner))
    BY <1>13 DEF Names
  <2>2. LastLine \in Before(k) /\ k \in LineKinds /\ LastLine # "none"
    BY <1>13 DEF Before, LineKinds, InHunk, HunkKinds
  <2> QED BY <1>3, <1>4, <2>1, <2>2
<1>12. CASE LastLine \in {"binary", "body"} /\ Write(L("body", None, "plain"), Last(owner))
  <2>1. LastLine \in Before("body") /\ "body" \in LineKinds  BY <1>12 DEF Before, LineKinds
  <2> QED BY <1>3, <1>4, <1>12, <2>1
<1> QED BY <1>5, <1>6, <1>7, <1>8, <1>9, <1>10, <1>11, <1>12, <1>13 DEF PatchNext

\* The inductive step.
LEMMA PatchSteps == PatchInv /\ [PatchNext]_patchVars => PatchInv'
<1> SUFFICES ASSUME PatchInv, [PatchNext]_patchVars PROVE PatchInv'  OBVIOUS
<1>1. CASE UNCHANGED patchVars
  BY <1>1 DEF PatchInv, patchVars, ReadSoFar, PostureNeverImproves, Impersonated
<1>2. CASE PatchNext
  <2>0. Grammar(raw, owner) /\ ReadSoFar \in ReadStates  BY DEF PatchInv
  <2>1. PICK l \in PatchLine, f \in PatchFiles : Longer(raw, owner, l, f, raw', owner')  BY <1>2, <2>0, PatchGrows
  <2>2. Grammar(raw', owner')  BY <2>1, GrammarGrows
  <2>3. /\ raw \in Seq(PatchLine) /\ raw' = Append(raw, l) /\ Len(raw) \in Nat /\ Len(raw') = Len(raw) + 1
        /\ raw' \in Seq(PatchLine) /\ ReadSoFar' = ParseLine(ReadSoFar, l)
    <3>1. raw \in Seq(PatchLine) /\ raw' = Append(raw, l)  BY <2>1 DEF Longer, Grammar
    <3>2. /\ Append(raw, l) \in Seq(PatchLine) /\ Len(Append(raw, l)) = Len(raw) + 1
          /\ Reading(Append(raw, l))[Len(raw) + 1] = ParseLine(Reading(raw)[Len(raw)], l)
      BY <3>1, ReadOn
    <3>3. Len(raw) \in Nat  BY <3>1
    <3> QED BY <3>1, <3>2, <3>3 DEF ReadSoFar
  <2>6. ReadSoFar' \in ReadStates  BY <2>0, <2>3, ParseIs DEF ParsedInto
  <2>4. ~Impersonated' => Reads(raw', owner', ReadSoFar')
    <3>1. SUFFICES ASSUME ~Impersonated' PROVE Reads(raw', owner', ReadSoFar')
      OBVIOUS
    <3>2. \A i \in 1..(Len(raw) + 1) : raw'[i].k # "plus-alike"  BY <2>3, <3>1 DEF Impersonated
    <3>3. /\ Len(raw) + 1 \in 1..(Len(raw) + 1) /\ raw'[Len(raw) + 1] = l
          /\ \A i \in 1..Len(raw) : i \in 1..(Len(raw) + 1) /\ raw'[i] = raw[i]
      BY <2>3
    <3>4. l.k # "plus-alike" /\ \A i \in 1..Len(raw) : raw[i].k # "plus-alike"  BY <3>2, <3>3
    <3>5. ~Impersonated  BY <2>3, <3>4 DEF Impersonated
    <3>6. Reads(raw, owner, ReadSoFar)  BY <3>5 DEF PatchInv
    <3> QED BY <2>1, <2>3, <3>4, <3>6, ParseStep
  <2>5. PostureNeverImproves'
    <3>1. Front(raw') = raw
      <4>1. Len(raw') - 1 = Len(raw)  BY <2>3
      <4>2. SubSeq(Append(raw, l), 1, Len(raw)) = raw  BY <2>3
      <4> QED BY <2>3, <4>1, <4>2 DEF Front
    <3>2. ReadSoFar \in ReadStates /\ ReadSoFar' \in ReadStates  BY <2>0, <2>6
    <3>3. ReadSoFar.files \in Seq(Entry) /\ ReadSoFar'.files \in Seq(Entry)  BY <3>2 DEF ReadStates
    <3>4. FilesGrew(ReadSoFar.files, ReadSoFar'.files)  BY <2>3, <3>2, ParseGrows
    <3>5. Worse[Posture(ReadSoFar.files)] <= Worse[Posture(ReadSoFar'.files)]  BY <3>3, <3>4, PostureGrows
    <3>6. ParseFilePatches(Front(raw')) = ReadSoFar.files /\ ParseFilePatches(raw') = ReadSoFar'.files
      BY <3>1 DEF ParseFilePatches, ReadSoFar
    <3> QED BY <3>5, <3>6 DEF PostureNeverImproves
  <2> QED BY <2>2, <2>4, <2>5, <2>6 DEF PatchInv
<1> QED BY <1>1, <1>2

\* What follows from an account of every entry.
LEMMA InvMeans ==
  ASSUME PatchInv, ~Impersonated
  PROVE  /\ ParseFilePatches(raw) = ReadSoFar.files /\ ReadSoFar.files \in Seq(Entry)
         /\ DOMAIN ReadSoFar.files = 1..Len(ReadSoFar.files)
         /\ FilesAre(raw, owner, ReadSoFar.files) /\ DOMAIN raw = 1..Len(raw) /\ Grammar(raw, owner)
         /\ \A i \in 1..Len(raw) : raw[i] \in PatchLine /\ owner[i] \in PatchFiles
         /\ \A f, k : LinesOf(f, k) = At(raw, owner, f, k)
<1>1. ReadSoFar \in ReadStates /\ FilesAre(raw, owner, ReadSoFar.files) /\ Grammar(raw, owner)  BY DEF PatchInv, Reads
<1>2. ReadSoFar.files \in Seq(Entry)  BY <1>1 DEF ReadStates
<1>3. raw \in Seq(PatchLine) /\ owner \in Seq(PatchFiles) /\ Len(owner) = Len(raw)  BY <1>1 DEF Grammar
<1>4. DOMAIN raw = 1..Len(raw) /\ \A i \in 1..Len(raw) : raw[i] \in PatchLine /\ owner[i] \in PatchFiles  BY <1>3
<1>5. \A f, k : LinesOf(f, k) = At(raw, owner, f, k)  BY <1>4 DEF LinesOf, At
<1>6. DOMAIN ReadSoFar.files = 1..Len(ReadSoFar.files)  BY <1>2
<1> QED BY <1>1, <1>2, <1>4, <1>5, <1>6 DEF ParseFilePatches, ReadSoFar

\* The invariant accounts for every changed line.
LEMMA OwnersAreRead == PatchInv => ParsedByOwner
<1> SUFFICES ASSUME PatchInv, ~Impersonated PROVE ParsedByOwner  BY DEF ParsedByOwner
<1> DEFINE files == ReadSoFar.files
<1>1. /\ ParseFilePatches(raw) = files /\ files \in Seq(Entry) /\ DOMAIN files = 1..Len(files)
      /\ FilesAre(raw, owner, files) /\ \A f, k : LinesOf(f, k) = At(raw, owner, f, k)
  BY InvMeans
<1> HIDE DEF files
<1>2. ASSUME NEW f \in PatchFiles PROVE Cardinality(EntriesOf(files, f)) = IF Announced(f) THEN 1 ELSE 0
  <2>1. CASE Announced(f)
    <3>1. PICK k \in {"plus", "mode", "binary"} : At(raw, owner, f, k) # {}  BY <1>1, <2>1 DEF Announced
    <3>2. PICK i \in 1..Len(raw) : raw[i].k = k /\ owner[i] = f  BY <3>1 DEF At
    <3>3. PICK j \in 1..Len(files) : files[j].file = f  BY <1>1, <3>2 DEF FilesAre
    <3>4. EntriesOf(files, f) = {j}  BY <1>1, <3>3 DEF EntriesOf, FilesAre
    <3>5. Cardinality({j}) = 1  BY FS_Singleton
    <3> QED BY <2>1, <3>4, <3>5
  <2>2. CASE ~Announced(f)
    <3>1. EntriesOf(files, f) = {}
      <4> SUFFICES ASSUME NEW j \in EntriesOf(files, f) PROVE FALSE  OBVIOUS
      <4>1. j \in 1..Len(files) /\ files[j].file = f  BY <1>1 DEF EntriesOf
      <4>2. PICK i \in 1..Len(raw) : owner[i] = f /\ raw[i].k \in {"plus", "mode", "binary"}  BY <1>1, <4>1 DEF FilesAre
      <4>3. i \in At(raw, owner, f, raw[i].k)  BY <4>2 DEF At
      <4> QED BY <1>1, <2>2, <4>2, <4>3 DEF Announced
    <3>2. Cardinality({}) = 0  BY FS_EmptySet
    <3> QED BY <2>2, <3>1, <3>2
  <2> QED BY <2>1, <2>2
<1>3. ASSUME NEW f \in PatchFiles, NEW k \in EntriesOf(files, f)
      PROVE  /\ Len(files[k].added) = Cardinality(LinesOf(f, "added"))
             /\ files[k].removed = Cardinality(LinesOf(f, "removed"))
             /\ "BINARY" \in files[k].reasons <=> LinesOf(f, "binary") # {}
  <2>1. k \in 1..Len(files) /\ files[k].file = f  BY <1>1, <1>3 DEF EntriesOf
  <2>2. EntryIs(raw, owner, files[k])  BY <1>1, <2>1 DEF FilesAre
  <2> QED BY <1>1, <2>1, <2>2 DEF EntryIs
<1> QED BY <1>1, <1>2, <1>3 DEF ParsedByOwner

\* Every added line is in the entry of its owner, and every reason.
LEMMA InEntry ==
  ASSUME PatchInv, ~Impersonated, NEW i \in 1..Len(raw), raw[i].k \in {"added", "mode", "binary"}
  PROVE  \E k \in 1..Len(ReadSoFar.files) :
           /\ ReadSoFar.files[k].file = owner[i]
           /\ raw[i].k = "added" => \E j \in DOMAIN ReadSoFar.files[k].added : ReadSoFar.files[k].added[j] = raw[i].has
           /\ raw[i].k # "added" => ReadSoFar.files[k].reasons # {}
<1> DEFINE files == ReadSoFar.files
<1>1. files \in Seq(Entry) /\ FilesAre(raw, owner, files)  BY InvMeans
<1> HIDE DEF files
<1>2. PICK k \in 1..Len(files) : files[k].file = owner[i]  BY <1>1 DEF FilesAre
<1>3. EntryIs(raw, owner, files[k]) /\ files[k] \in Entry  BY <1>1 DEF FilesAre
<1>4. i \in At(raw, owner, files[k].file, raw[i].k)  BY <1>2 DEF At
<1>5. raw[i].k = "added" => raw[i].has \in {files[k].added[j] : j \in 1..Len(files[k].added)}
  BY <1>3, <1>4 DEF EntryIs
<1>6. raw[i].k # "added" => files[k].reasons # {}  BY <1>3, <1>4 DEF EntryIs
<1>7. DOMAIN files[k].added = 1..Len(files[k].added)
  <2>1. files[k].added \in Seq(Holds)  BY <1>3 DEF Entry
  <2> QED BY <2>1
<1> QED BY <1>2, <1>5, <1>6, <1>7 DEF files

\* The invariant makes a clean literal record one about every assignment.
LEMMA LiteralsAreWhole == PatchInv => LiteralPassIsWhole
<1> SUFFICES ASSUME PatchInv, ~Impersonated, LiteralOutcome(ParseFilePatches(raw)) = "PASS"
             PROVE  /\ \A i \in DOMAIN raw : raw[i].k \notin {"mode", "binary"}
                    /\ \A i \in DOMAIN raw : raw[i].k = "added" =>
                         raw[i].has \in {"plain", "placeholder"} \/ (owner[i] \in TestFiles /\ raw[i].has # "interpolated")
  BY DEF LiteralPassIsWhole
<1> DEFINE files == ReadSoFar.files
<1>1. /\ ParseFilePatches(raw) = files /\ DOMAIN files = 1..Len(files) /\ DOMAIN raw = 1..Len(raw)
      /\ \A i \in 1..Len(raw) : raw[i] \in PatchLine
  BY InvMeans
<1>2. ASSUME NEW i \in 1..Len(raw), raw[i].k \in {"added", "mode", "binary"}
      PROVE  \E k \in DOMAIN files :
               /\ files[k].file = owner[i]
               /\ raw[i].k = "added" => \E j \in DOMAIN files[k].added : files[k].added[j] = raw[i].has
               /\ raw[i].k # "added" => files[k].reasons # {}
  BY <1>1, <1>2, InEntry
<1> HIDE DEF files
<1>3. /\ Posture(files) # "FAIL" /\ "FLAGGED_LITERAL" \notin Decisions(files)
      /\ Posture(files) # "NOT_CHECKED" /\ "UNDECIDED" \notin Decisions(files)
  BY <1>1 DEF LiteralOutcome
<1>4. ~FoundIn(files, FALSE, {"structured"}) /\ \A k \in DOMAIN files : files[k].reasons = {}
  BY <1>3 DEF Posture
<1>5. \A k \in DOMAIN files : \A j \in DOMAIN files[k].added :
        files[k].added[j] \in Literals \cup {"placeholder"} => Decision(files[k].file, files[k].added[j]) \in Decisions(files)
  BY DEF Decisions
<1>6. \A i \in DOMAIN raw : raw[i].k \notin {"mode", "binary"}  BY <1>1, <1>2, <1>4
<1>7. ASSUME NEW i \in DOMAIN raw, raw[i].k = "added"
      PROVE  raw[i].has \in {"plain", "placeholder"} \/ (owner[i] \in TestFiles /\ raw[i].has # "interpolated")
  <2>1. PICK k \in DOMAIN files : files[k].file = owner[i] /\ \E j \in DOMAIN files[k].added : files[k].added[j] = raw[i].has
    BY <1>1, <1>2, <1>7
  <2>2. PICK j \in DOMAIN files[k].added : files[k].added[j] = raw[i].has  BY <2>1
  <2>3. raw[i].has \in Holds  BY <1>1, <1>7 DEF PatchLine
  <2>4. raw[i].has = "structured" => owner[i] \in TestFiles  BY <1>4, <2>1, <2>2 DEF FoundIn
  <2>5. raw[i].has # "interpolated"  BY <1>3, <1>5, <2>2 DEF Literals, Decision
  <2>6. raw[i].has = "literal" => owner[i] \in TestFiles  BY <1>3, <1>5, <2>1, <2>2 DEF Literals, Decision
  <2> QED BY <2>3, <2>4, <2>5, <2>6 DEF Holds
<1> QED BY <1>6, <1>7

Walkers == [minus : Names, suppress : BOOLEAN, binary : BOOLEAN, shown : BOOLEAN]

\* What the preview does with one line.
RedactedTo(w, l, leaky, binary, v) ==
  /\ v \in Walkers
  /\ l.k = "diff" => v.binary = (l.file \in binary) /\ v.shown = TRUE
  /\ l.k = "minus" => v.minus = l.file /\ v.binary = FALSE /\ v.shown = TRUE
  /\ l.k \in {"plus", "plus-alike"} =>
                     LET file == IF l.file # None THEN l.file ELSE w.minus
                     IN  v.suppress = (file \in leaky) /\ v.binary = (file \in binary) /\ v.shown = TRUE
  /\ l.k = "binary" => v.binary = TRUE /\ v.shown = FALSE
  /\ l.k \in {"mode", "added", "removed", "body"} =>
       v.suppress = w.suppress /\ v.binary = w.binary /\ v.shown = (~w.binary /\ ~(w.suppress /\ l.k = "added"))

\* What each kind of line does to the walk of the preview.
LEMMA RedactIs ==
  ASSUME NEW w \in Walkers, NEW l \in PatchLine, NEW leaky, NEW binary, NEW v, v = RedactLine(w, l, leaky, binary)
  PROVE  RedactedTo(w, l, leaky, binary, v)
<1>0. /\ w.minus \in Names /\ w.suppress \in BOOLEAN /\ w.binary \in BOOLEAN /\ l.file \in Names /\ None \in Names
      /\ l.k \in LineKinds
  BY DEF Walkers, PatchLine, Names
<1>1. CASE l.k = "diff"
  <2>1. v = Walker(None, FALSE, l.file \in binary, TRUE)  BY <1>1 DEF RedactLine
  <2> QED BY <1>0, <1>1, <2>1 DEF Walker, Walkers, RedactedTo
<1>2. CASE l.k \in {"minus", "look-alike"}
  <2>1. v = Walker(l.file, FALSE, FALSE, TRUE)  BY <1>2 DEF RedactLine
  <2>2. v \in Walkers /\ v.minus = l.file /\ v.binary = FALSE /\ v.shown = TRUE  BY <1>0, <2>1 DEF Walker, Walkers
  <2> QED BY <1>2, <2>2 DEF RedactedTo
<1>3. CASE l.k \in {"plus", "plus-alike"}
  <2> DEFINE file == IF l.file # None THEN l.file ELSE w.minus
  <2>1. v = Walker(w.minus, file \in leaky, file \in binary, TRUE)  BY <1>3 DEF RedactLine
  <2>2. /\ v \in Walkers /\ v.suppress = (file \in leaky) /\ v.binary = (file \in binary)
        /\ v.shown = TRUE
    BY <1>0, <2>1 DEF Walker, Walkers
  <2> QED BY <1>3, <2>2 DEF RedactedTo
<1>4. CASE l.k = "binary"
  <2>1. v = Walker(w.minus, w.suppress, TRUE, FALSE)  BY <1>4 DEF RedactLine
  <2> QED BY <1>0, <1>4, <2>1 DEF Walker, Walkers, RedactedTo
<1>5. CASE l.k \in {"mode", "added", "removed", "body"}
  <2>1. v = Walker(w.minus, w.suppress, w.binary, ~w.binary /\ ~(w.suppress /\ l.k = "added"))  BY <1>5 DEF RedactLine
  <2> QED BY <1>0, <1>5, <2>1 DEF Walker, Walkers, RedactedTo
<1> QED BY <1>0, <1>1, <1>2, <1>3, <1>4, <1>5 DEF LineKinds

\* The loop of the preview, line by line.
LEMMA RedactionIs ==
  ASSUME NEW q \in Seq(PatchLine), NEW leaky, NEW binary
  PROVE  /\ \A i \in 0..Len(q) : Redaction(q, leaky, binary)[i] \in Walkers
         /\ Redaction(q, leaky, binary)[0] = Unwalked
         /\ \A i \in 1..Len(q) : Redaction(q, leaky, binary)[i] = RedactLine(Redaction(q, leaky, binary)[i - 1], q[i], leaky, binary)
<1> DEFINE n == Len(q)
           S == Walkers
           z == Unwalked
           step == [x \in (1..n) \X S |-> RedactLine(x[2], q[x[1]], leaky, binary)]
           P(g) == g = [i \in 0..n |-> IF i = 0 THEN z ELSE RedactLine(g[i - 1], q[i], leaky, binary)]
           c == Redaction(q, leaky, binary)
<1>1. n \in Nat /\ z \in S /\ \A i \in 1..n : q[i] \in PatchLine
  <2>1. None \in Names  BY DEF Names
  <2>2. Unwalked \in Walkers  BY <2>1 DEF Unwalked, Walker, Walkers
  <2> QED BY <2>2
<1>2. \A i \in 1..n, v \in S : RedactLine(v, q[i], leaky, binary) \in S
  <2> TAKE i \in 1..n, v \in S
  <2>1. PICK l \in PatchLine : l = q[i]  BY <1>1
  <2>2. RedactedTo(v, l, leaky, binary, RedactLine(v, l, leaky, binary))  BY RedactIs
  <2> QED BY <2>1, <2>2 DEF RedactedTo
<1>3. \A i \in 1..n, v \in S : step[<<i, v>>] = RedactLine(v, q[i], leaky, binary)  OBVIOUS
<1>4. step \in [(1..n) \X S -> S]
  <2>1. \A x \in (1..n) \X S : x[1] \in 1..n /\ x[2] \in S  OBVIOUS
  <2>2. \A x \in (1..n) \X S : RedactLine(x[2], q[x[1]], leaky, binary) \in S  BY <1>2, <2>1
  <2> HIDE DEF S, n
  <2> QED BY <2>2
<1>5. c = CHOOSE g : P(g)  BY DEF Redaction
<1> HIDE DEF step, S, z, n
<1>6. Recursion(n, S, z, step)  BY <1>1, <1>4 DEF Recursion
<1>7. PICK h \in [0..n -> S] : Follows(h, n, z, step)  BY <1>6, RecursionHas
<1>8. P(h)
  <2>1. \A i \in 0..n : h[i] = IF i = 0 THEN z ELSE RedactLine(h[i - 1], q[i], leaky, binary)
    <3> TAKE i \in 0..n
    <3>1. CASE i = 0  BY <1>7, <3>1 DEF Follows
    <3>2. CASE i # 0
      <4>1. i \in 1..n /\ i - 1 \in 0..n  BY <1>1, <3>2
      <4>2. h[i] = step[<<i, h[i - 1]>>] /\ h[i - 1] \in S  BY <1>7, <4>1 DEF Follows
      <4>3. h[i] = RedactLine(h[i - 1], q[i], leaky, binary)  BY <1>3, <4>1, <4>2
      <4> QED BY <3>2, <4>3
    <3> QED BY <3>1, <3>2
  <2>2. h = [i \in 0..n |-> h[i]]  OBVIOUS
  <2> QED BY <2>1, <2>2
<1>9. P(c)
  <2> HIDE DEF P, c
  <2> QED BY <1>5, <1>8
<1> HIDE DEF c
<1>10. \A i \in 0..n : c[i] = IF i = 0 THEN z ELSE RedactLine(c[i - 1], q[i], leaky, binary)  BY <1>9, Zenon
<1>11. c[0] = z /\ \A i \in 1..n : c[i] = RedactLine(c[i - 1], q[i], leaky, binary)
  <2>1. 0 \in 0..n /\ \A i \in 1..n : i \in 0..n /\ i # 0  BY <1>1
  <2> QED BY <1>10, <2>1
<1>12. \A i \in 1..n : c[i - 1] \in S => c[i] = step[<<i, c[i - 1]>>]
  BY <1>3, <1>11
<1>13. \A i \in 0..n : c[i] \in S  BY <1>6, <1>11, <1>12, RecursionStays
<1> QED BY <1>11, <1>13 DEF c, S, z, n

Alike == {"look-alike", "plus-alike"}

\* Where the walk stands after line i, and what it has done with it.
WalkAt(q, o, leaky, binary, i, w) ==
  /\ w \in Walkers
  /\ q[i].k \in {"diff", "mode"} => w.binary = (o[i] \in binary)
  /\ q[i].k = "minus" => w.minus = q[i].file /\ w.binary = FALSE
  /\ q[i].k \in {"plus", "added", "removed"} => w.suppress = (o[i] \in leaky) /\ w.binary = FALSE
  /\ q[i].k \in {"binary", "body"} => w.binary = TRUE /\ o[i] \in binary
  /\ w.shown = ((q[i].k # "diff" => o[i] \notin binary) /\ (q[i].k = "added" => o[i] \notin leaky))

\* A binary file's section, and no other, has a binary marker.
BinaryIn(q, o, binary) ==
  /\ \A i \in 1..Len(q) : q[i].k = "binary" => o[i] \in binary
  /\ \A i \in 1..Len(q) : q[i].k \in {"minus", "plus", "added", "removed"} => o[i] \notin binary

\* The walk of the preview is where the section of the line is, after one line more.
LEMMA WalkStep ==
  ASSUME NEW q, NEW o, Grammar(q, o), NEW leaky, NEW binary, BinaryIn(q, o, binary),
         NEW i \in 1..Len(q), q[i].k \notin Alike, NEW w \in Walkers,
         i > 1 => WalkAt(q, o, leaky, binary, i - 1, w) /\ q[i - 1].k \notin Alike,
         NEW v, RedactedTo(w, q[i], leaky, binary, v)
  PROVE  WalkAt(q, o, leaky, binary, i, v)
<1>0. /\ q[i] \in PatchLine /\ q[i].k \in LineKinds /\ o[i] \in PatchFiles /\ o[i] # None /\ v \in Walkers
  <2>1. q \in Seq(PatchLine) /\ o \in Seq(PatchFiles) /\ Len(o) = Len(q)  BY DEF Grammar
  <2>2. q[i] \in PatchLine /\ o[i] \in PatchFiles  BY <2>1
  <2> QED BY <2>2, PatchAssumption DEF PatchLine, RedactedTo
<1>1. Fits(q, o, i)  BY DEF Grammar
<1>2. CASE q[i].k = "diff"
  <2>1. v.binary = (q[i].file \in binary) /\ v.shown = TRUE  BY <1>2 DEF RedactedTo
  <2>2. q[i].file = o[i]  BY <1>1, <1>2 DEF Fits
  <2> QED BY <1>0, <1>2, <2>1, <2>2 DEF WalkAt
<1>3. ASSUME q[i].k # "diff"
      PROVE  /\ i > 1 /\ i - 1 \in 1..Len(q) /\ o[i - 1] = o[i] /\ q[i - 1].k \in Before(q[i].k) /\ q[i - 1].k \notin Alike
             /\ WalkAt(q, o, leaky, binary, i - 1, w)
  <2>1. i > 1 /\ o[i - 1] = o[i] /\ q[i - 1].k \in Before(q[i].k)  BY <1>1, <1>3 DEF Fits
  <2>2. i - 1 \in 1..Len(q)
    <3>1. Len(q) \in Nat  BY DEF Grammar
    <3> QED BY <2>1, <3>1
  <2> QED BY <2>1, <2>2
<1>4. CASE q[i].k = "mode"
  <2>1. q[i - 1].k = "diff" /\ o[i - 1] = o[i] /\ WalkAt(q, o, leaky, binary, i - 1, w)  BY <1>3, <1>4 DEF Before
  <2>2. w.binary = (o[i] \in binary)  BY <2>1 DEF WalkAt
  <2>3. v.binary = w.binary /\ v.shown = (~w.binary /\ ~(w.suppress /\ q[i].k = "added"))  BY <1>4 DEF RedactedTo
  <2> QED BY <1>0, <1>4, <2>2, <2>3 DEF WalkAt
<1>5. CASE q[i].k = "minus"
  <2>1. o[i] \notin binary  BY <1>5 DEF BinaryIn
  <2>2. v.minus = q[i].file /\ v.binary = FALSE /\ v.shown = TRUE  BY <1>5 DEF RedactedTo
  <2> QED BY <1>0, <1>5, <2>1, <2>2 DEF WalkAt
<1>6. CASE q[i].k = "plus"
  <2>1. q[i - 1].k = "minus" /\ o[i - 1] = o[i] /\ WalkAt(q, o, leaky, binary, i - 1, w) /\ i - 1 \in 1..Len(q)
    BY <1>3, <1>6 DEF Before
  <2>2. w.minus = q[i - 1].file  BY <2>1 DEF WalkAt
  <2>3. q[i - 1].file \in {o[i], None}
    <3>1. Fits(q, o, i - 1)  BY <2>1 DEF Grammar
    <3> QED BY <2>1, <3>1 DEF Fits
  <2>4. q[i].file \in {o[i], None} /\ (q[i].file # None \/ q[i - 1].file # None)  BY <1>1, <1>6 DEF Fits
  <2>5. (IF q[i].file # None THEN q[i].file ELSE w.minus) = o[i]  BY <1>0, <2>2, <2>3, <2>4
  <2>7. o[i] \notin binary  BY <1>6 DEF BinaryIn
  <2>6. v.suppress = (o[i] \in leaky) /\ v.shown = TRUE
    BY <1>6, <2>5 DEF RedactedTo
  <2>8. v.binary = FALSE
    <3>1. v.binary <=> o[i] \in binary  BY <1>6, <2>5 DEF RedactedTo
    <3>2. v.binary \in BOOLEAN  BY <1>0 DEF Walkers
    <3> QED BY <2>7, <3>1, <3>2
  <2>9. v.shown = ((q[i].k # "diff" => o[i] \notin binary) /\ (q[i].k = "added" => o[i] \notin leaky))
    BY <1>6, <2>6, <2>7
  <2> QED BY <1>0, <1>6, <2>6, <2>8, <2>9 DEF WalkAt
<1>7. CASE q[i].k \in {"added", "removed"}
  <2>1. q[i - 1].k \in {"plus", "added", "removed"} /\ o[i - 1] = o[i] /\ WalkAt(q, o, leaky, binary, i - 1, w)
    BY <1>3, <1>7 DEF Before, HunkKinds, Alike
  <2>2. w.suppress = (o[i] \in leaky) /\ w.binary = FALSE  BY <2>1 DEF WalkAt
  <2>3. v.suppress = w.suppress /\ v.binary = w.binary /\ v.shown = (~w.binary /\ ~(w.suppress /\ q[i].k = "added"))
    BY <1>7 DEF RedactedTo
  <2>4. o[i] \notin binary  BY <1>7 DEF BinaryIn
  <2> QED BY <1>0, <1>7, <2>2, <2>3, <2>4 DEF WalkAt
<1>8. CASE q[i].k = "binary"
  <2>1. o[i] \in binary  BY <1>8 DEF BinaryIn
  <2>2. v.binary = TRUE /\ v.shown = FALSE  BY <1>8 DEF RedactedTo
  <2> QED BY <1>0, <1>8, <2>1, <2>2 DEF WalkAt
<1>9. CASE q[i].k = "body"
  <2>1. q[i - 1].k \in {"binary", "body"} /\ o[i - 1] = o[i] /\ WalkAt(q, o, leaky, binary, i - 1, w)
    BY <1>3, <1>9 DEF Before
  <2>2. w.binary = TRUE /\ o[i] \in binary  BY <2>1 DEF WalkAt
  <2>3. v.binary = w.binary /\ v.shown = (~w.binary /\ ~(w.suppress /\ q[i].k = "added"))  BY <1>9 DEF RedactedTo
  <2> QED BY <1>0, <1>9, <2>2, <2>3 DEF WalkAt
<1> QED BY <1>0, <1>2, <1>4, <1>5, <1>6, <1>7, <1>8, <1>9 DEF LineKinds, Alike

\* The walk of the preview at every line of a patch.
LEMMA WalkEverywhere ==
  ASSUME NEW q, NEW o, Grammar(q, o), NEW leaky, NEW binary, BinaryIn(q, o, binary),
         \A i \in 1..Len(q) : q[i].k \notin Alike
  PROVE  \A i \in 1..Len(q) : WalkAt(q, o, leaky, binary, i, Redaction(q, leaky, binary)[i])
<1> DEFINE w == Redaction(q, leaky, binary)
           n == Len(q)
           G == {i \in 0..n : i = 0 \/ WalkAt(q, o, leaky, binary, i, w[i])}
<1>1. q \in Seq(PatchLine) /\ n \in Nat /\ \A i \in 1..n : q[i] \in PatchLine  BY DEF Grammar
<1>2. /\ \A i \in 0..n : w[i] \in Walkers
      /\ \A i \in 1..n : w[i] = RedactLine(w[i - 1], q[i], leaky, binary)
  BY <1>1, RedactionIs
<1>3. 0 \in G  BY <1>1
<1>4. ASSUME NEW i \in 0..(n - 1), i \in G PROVE i + 1 \in G
  <2>1. i + 1 \in 1..n /\ i + 1 \in 0..n /\ (i + 1) - 1 = i /\ i \in 0..n /\ (i + 1 > 1 => i \in 1..n /\ i # 0)  BY <1>1
  <2>2. w[i + 1] = RedactLine(w[i], q[i + 1], leaky, binary) /\ w[i] \in Walkers  BY <1>2, <2>1
  <2>3. RedactedTo(w[i], q[i + 1], leaky, binary, w[i + 1])
    <3> HIDE DEF w, n
    <3> QED BY <1>1, <2>1, <2>2, RedactIs
  <2>4. i + 1 > 1 => WalkAt(q, o, leaky, binary, i, w[i]) /\ q[i].k \notin Alike  BY <1>4, <2>1
  <2>5. q[i + 1].k \notin Alike  BY <2>1
  <2>6. PICK x : x = w[i]  OBVIOUS
  <2>7. PICK y : y = w[i + 1]  OBVIOUS
  <2>8. PICK j \in 1..Len(q) : j = i + 1  BY <2>1
  <2>9. /\ x \in Walkers /\ RedactedTo(x, q[j], leaky, binary, y) /\ q[j].k \notin Alike
        /\ j > 1 => WalkAt(q, o, leaky, binary, j - 1, x) /\ q[j - 1].k \notin Alike
    BY <2>1, <2>2, <2>3, <2>4, <2>5, <2>6, <2>7, <2>8
  <2>10. WalkAt(q, o, leaky, binary, j, y)
    <3> HIDE DEF w, n, G
    <3> QED BY <2>9, WalkStep
  <2> QED BY <2>1, <2>7, <2>8, <2>10
<1>5. \A i \in 0..n : i \in G
  <2> HIDE DEF G
  <2> QED BY <1>1, <1>3, <1>4, UpTo
<1>6. \A i \in 1..n : i \in 0..n /\ i # 0  BY <1>1
<1> QED BY <1>5, <1>6

\* The files that the preview hides are those whose section holds what is to be hidden.
LEMMA HiddenFiles ==
  ASSUME PatchInv, ~Impersonated
  PROVE  /\ \A f \in PatchFiles : f \in LeakyFiles(ReadSoFar.files) <=> Leaks(f)
         /\ \A f \in PatchFiles : f \in BinaryFiles(ReadSoFar.files) <=> LinesOf(f, "binary") # {}
<1> DEFINE files == ReadSoFar.files
<1>1. /\ files \in Seq(Entry) /\ DOMAIN files = 1..Len(files)
      /\ FilesAre(raw, owner, files) /\ \A f, k : LinesOf(f, k) = At(raw, owner, f, k)
  BY InvMeans
<1>2. \A k \in DOMAIN files : /\ EntryIs(raw, owner, files[k])
                              /\ DOMAIN files[k].added = 1..Len(files[k].added)
  <2> TAKE k \in DOMAIN files
  <2>1. files[k] \in Entry  BY <1>1
  <2>2. files[k].added \in Seq(Holds)  BY <2>1 DEF Entry
  <2> QED BY <1>1, <2>2 DEF FilesAre
<1>3. \A i \in 1..Len(raw) : raw[i].k \in {"added", "binary"} => \E k \in DOMAIN files : files[k].file = owner[i]
  BY <1>1 DEF FilesAre
<1> HIDE DEF files
<1>4. ASSUME NEW f \in PatchFiles PROVE f \in LeakyFiles(files) <=> Leaks(f)
  <2>1. ASSUME f \in LeakyFiles(files) PROVE Leaks(f)
    <3>1. PICK k \in DOMAIN files : files[k].file = f /\ \E j \in DOMAIN files[k].added : CredentialContent(files[k].added[j])
      BY <2>1 DEF LeakyFiles
    <3>2. PICK j \in DOMAIN files[k].added : CredentialContent(files[k].added[j])  BY <3>1
    <3>3. files[k].added[j] \in {raw[i].has : i \in At(raw, owner, f, "added")}
      BY <1>2, <3>1, <3>2 DEF EntryIs
    <3> QED BY <1>1, <3>2, <3>3 DEF Leaks
  <2>2. ASSUME Leaks(f) PROVE f \in LeakyFiles(files)
    <3>1. PICK i \in At(raw, owner, f, "added") : CredentialContent(raw[i].has)  BY <1>1, <2>2 DEF Leaks
    <3>2. i \in 1..Len(raw) /\ raw[i].k = "added" /\ owner[i] = f  BY <3>1 DEF At
    <3>3. PICK k \in DOMAIN files : files[k].file = f  BY <1>3, <3>2
    <3>4. raw[i].has \in {files[k].added[j] : j \in DOMAIN files[k].added}  BY <1>2, <3>1, <3>3 DEF EntryIs
    <3> QED BY <3>1, <3>3, <3>4 DEF LeakyFiles
  <2> QED BY <2>1, <2>2
<1>5. ASSUME NEW f \in PatchFiles PROVE f \in BinaryFiles(files) <=> LinesOf(f, "binary") # {}
  <2>1. ASSUME f \in BinaryFiles(files) PROVE LinesOf(f, "binary") # {}
    <3>1. PICK k \in DOMAIN files : files[k].file = f /\ "BINARY" \in files[k].reasons  BY <2>1 DEF BinaryFiles
    <3> QED BY <1>1, <1>2, <3>1 DEF EntryIs
  <2>2. ASSUME LinesOf(f, "binary") # {} PROVE f \in BinaryFiles(files)
    <3>1. PICK i \in At(raw, owner, f, "binary") : TRUE  BY <1>1, <2>2
    <3>2. i \in 1..Len(raw) /\ raw[i].k = "binary" /\ owner[i] = f  BY <3>1 DEF At
    <3>3. PICK k \in DOMAIN files : files[k].file = f  BY <1>3, <3>2
    <3>4. "BINARY" \in files[k].reasons  BY <1>2, <3>1, <3>3 DEF EntryIs
    <3> QED BY <3>3, <3>4 DEF BinaryFiles
  <2> QED BY <2>1, <2>2
<1> QED BY <1>4, <1>5 DEF files

\* The invariant makes the preview show what it may and nothing else.
LEMMA PreviewIsSafe == PatchInv => PreviewHides
<1> SUFFICES ASSUME PatchInv, ~LooksLikeHeader
             PROVE  Preview(raw) = {i \in DOMAIN raw : /\ raw[i].k # "diff" => LinesOf(owner[i], "binary") = {}
                                                       /\ raw[i].k = "added" => ~Leaks(owner[i])}
  BY DEF PreviewHides
<1>0. ~Impersonated  BY DEF LooksLikeHeader, Impersonated
<1> DEFINE leaky == LeakyFiles(ReadSoFar.files)
           binary == BinaryFiles(ReadSoFar.files)
           w == Redaction(raw, leaky, binary)
<1>1. /\ ParseFilePatches(raw) = ReadSoFar.files /\ DOMAIN raw = 1..Len(raw) /\ Grammar(raw, owner)
      /\ \A i \in 1..Len(raw) : raw[i] \in PatchLine /\ owner[i] \in PatchFiles
      /\ \A f, k : LinesOf(f, k) = At(raw, owner, f, k)
  BY <1>0, InvMeans
<1>2. Preview(raw) = {i \in DOMAIN raw : w[i].shown}  BY <1>1 DEF Preview
<1>3. /\ \A f \in PatchFiles : f \in leaky <=> Leaks(f)
      /\ \A f \in PatchFiles : f \in binary <=> LinesOf(f, "binary") # {}
  BY <1>0, HiddenFiles
<1> HIDE DEF leaky, binary
<1>4. BinaryIn(raw, owner, binary)
  <2>1. ASSUME NEW i \in 1..Len(raw), raw[i].k = "binary" PROVE owner[i] \in binary
    <3>1. i \in At(raw, owner, owner[i], "binary")  BY <2>1 DEF At
    <3> QED BY <1>1, <1>3, <3>1
  <2>2. ASSUME NEW i \in 1..Len(raw), raw[i].k \in {"minus", "plus", "added", "removed"}, owner[i] \in binary PROVE FALSE
    <3>1. PICK j \in At(raw, owner, owner[i], "binary") : TRUE  BY <1>1, <1>3, <2>2
    <3>2. j \in 1..Len(raw) /\ raw[j].k = "binary" /\ owner[j] = owner[i]  BY <3>1 DEF At
    <3> QED BY <1>1, <2>2, <3>2 DEF Grammar
  <2> QED BY <2>1, <2>2 DEF BinaryIn
<1>5. \A i \in 1..Len(raw) : raw[i].k \notin Alike  BY <1>1 DEF LooksLikeHeader, Alike
<1>6. \A i \in 1..Len(raw) : WalkAt(raw, owner, leaky, binary, i, w[i])  BY <1>1, <1>4, <1>5, WalkEverywhere
<1> HIDE DEF w
<1>7. \A i \in 1..Len(raw) : w[i].shown = ((raw[i].k # "diff" => owner[i] \notin binary) /\ (raw[i].k = "added" => owner[i] \notin leaky))
  BY <1>6 DEF WalkAt
<1>8. \A i \in DOMAIN raw : w[i].shown <=> /\ raw[i].k # "diff" => LinesOf(owner[i], "binary") = {}
                                           /\ raw[i].k = "added" => ~Leaks(owner[i])
  BY <1>1, <1>3, <1>7
<1> QED BY <1>2, <1>8

\* Parser, preview, literal scan and posture (parseFilePatches, redactPatchPreview,
\* deriveConcernEvidence, deriveSecurityPosture) read a patch alike, for any files, any of them
\* tests, and a patch of any length that Git may write, where no added line reads like a name line.
THEOREM PatchHolds == PatchSpec => []PatchReadingIsSound
<1>1. PatchInv => PatchReadingIsSound
  BY OwnersAreRead, LiteralsAreWhole, PreviewIsSafe DEF PatchReadingIsSound, PatchInv
<1> QED BY <1>1, PatchStarts, PatchSteps, PTL DEF PatchSpec

-----------------------------------------------------------------------------
(* LineDiff. *)

Operations == [kind : {"EQUAL", "DELETE", "INSERT"}, line : DiffLines]

\* A set of numbers up to some number that has a member has a last one.
LEMMA LastOf ==
  ASSUME NEW n \in Nat, NEW S, S \subseteq 0..n, S # {}
  PROVE  Max(S) \in S /\ \A x \in S : x <= Max(S)
<1> DEFINE G == {m \in 0..n : (\E x \in S : x <= m) => \E y \in S : y <= m /\ \A x \in S : x <= m => x <= y}
<1>1. 0 \in G
  <2>1. \A x \in S : x <= 0 => x = 0  OBVIOUS
  <2> QED BY <2>1
<1>2. ASSUME NEW i \in 0..(n - 1), i \in G PROVE i + 1 \in G
  <2>1. i + 1 \in 0..n /\ \A x \in S : x <= i + 1 => x <= i \/ x = i + 1  OBVIOUS
  <2>2. CASE i + 1 \in S
    <3>1. i + 1 \in S /\ i + 1 <= i + 1 /\ \A x \in S : x <= i + 1 => x <= i + 1  BY <2>2
    <3> QED BY <2>1, <3>1
  <2>3. CASE i + 1 \notin S
    <3>1. \A x \in S : x <= i + 1 <=> x <= i
      <4>1. \A x \in S : x # i + 1  BY <2>3
      <4> QED BY <4>1
    <3> QED BY <1>2, <2>1, <3>1
  <2> QED BY <2>2, <2>3
<1>3. \A i \in 0..n : i \in G
  <2> HIDE DEF G
  <2> QED BY <1>1, <1>2, UpTo
<1>4. n \in G /\ \A x \in S : x <= n  BY <1>3
<1>5. \E y \in S : \A x \in S : x <= y  BY <1>4
<1>6. \E y \in S : \A x \in S : y >= x
  <2>1. \A x, y \in S : x <= y <=> y >= x  OBVIOUS
  <2> QED BY <1>5, <2>1
<1>7. Max(S) \in S /\ \A x \in S : Max(S) >= x  BY <1>6, Zenon DEF Max
<1> QED BY <1>7

\* And a first one.
LEMMA FirstOne ==
  ASSUME NEW n \in Nat, NEW S, S \subseteq 0..n, S # {}
  PROVE  Min(S) \in S /\ \A x \in S : Min(S) <= x
<1> DEFINE R == {n - x : x \in S}
<1>1. R \subseteq 0..n /\ R # {}
  <2>1. \A x \in S : x \in 0..n  OBVIOUS
  <2>2. \A x \in S : n - x \in 0..n  BY <2>1
  <2>3. R \subseteq 0..n  BY <2>2
  <2>4. PICK x : x \in S  OBVIOUS
  <2>5. n - x \in R  BY <2>4
  <2> QED BY <2>3, <2>5
<1>2. Max(R) \in R /\ \A x \in R : x <= Max(R)
  <2> HIDE DEF R
  <2> QED BY <1>1, LastOf
<1>3. PICK y \in S : Max(R) = n - y  BY <1>2
<1>4. \A x \in S : y <= x
  <2> TAKE x \in S
  <2>1. n - x \in R  OBVIOUS
  <2>2. n - x <= n - y  BY <1>2, <1>3, <2>1
  <2> QED BY <2>2
<1>5. \E z \in S : \A x \in S : z <= x  BY <1>4
<1> QED BY <1>5, Zenon DEF Min

\* The loop behind Kept, operation by operation.
LEMMA KeepingIs ==
  ASSUME NEW q \in Seq(Operations), NEW kinds
  PROVE  /\ \A i \in 0..Len(q) : Keeping(q, kinds)[i] \in Seq(DiffLines)
         /\ Keeping(q, kinds)[0] = <<>>
         /\ \A i \in 1..Len(q) : Keeping(q, kinds)[i] = KeepOne(Keeping(q, kinds)[i - 1], q[i], kinds)
<1> DEFINE n == Len(q)
           S == Seq(DiffLines)
           z == <<>>
           step == [x \in (1..n) \X S |-> KeepOne(x[2], q[x[1]], kinds)]
           P(g) == g = [i \in 0..n |-> IF i = 0 THEN z ELSE KeepOne(g[i - 1], q[i], kinds)]
           c == Keeping(q, kinds)
<1>1. n \in Nat /\ z \in S /\ \A i \in 1..n : q[i].line \in DiffLines
  <2>1. \A i \in 1..n : q[i] \in Operations  OBVIOUS
  <2>2. \A o \in Operations : o.line \in DiffLines  BY DEF Operations
  <2>3. n \in Nat /\ z \in S  OBVIOUS
  <2> QED BY <2>1, <2>2, <2>3
<1>2. \A i \in 1..n, v \in S : KeepOne(v, q[i], kinds) \in S  BY <1>1 DEF KeepOne
<1>3. \A i \in 1..n, v \in S : step[<<i, v>>] = KeepOne(v, q[i], kinds)  OBVIOUS
<1>4. step \in [(1..n) \X S -> S]
  <2>1. \A x \in (1..n) \X S : x[1] \in 1..n /\ x[2] \in S  OBVIOUS
  <2>2. \A x \in (1..n) \X S : KeepOne(x[2], q[x[1]], kinds) \in S  BY <1>2, <2>1
  <2> HIDE DEF S, n
  <2> QED BY <2>2
<1>5. c = CHOOSE g : P(g)  BY DEF Keeping
<1> HIDE DEF step, S, z, n
<1>6. Recursion(n, S, z, step)  BY <1>1, <1>4 DEF Recursion
<1>7. PICK h \in [0..n -> S] : Follows(h, n, z, step)  BY <1>6, RecursionHas
<1>8. P(h)
  <2>1. \A i \in 0..n : h[i] = IF i = 0 THEN z ELSE KeepOne(h[i - 1], q[i], kinds)
    <3> TAKE i \in 0..n
    <3>1. CASE i = 0  BY <1>7, <3>1 DEF Follows
    <3>2. CASE i # 0
      <4>1. i \in 1..n /\ i - 1 \in 0..n  BY <1>1, <3>2
      <4>2. h[i] = step[<<i, h[i - 1]>>] /\ h[i - 1] \in S  BY <1>7, <4>1 DEF Follows
      <4>3. h[i] = KeepOne(h[i - 1], q[i], kinds)  BY <1>3, <4>1, <4>2
      <4> QED BY <3>2, <4>3
    <3> QED BY <3>1, <3>2
  <2>2. h = [i \in 0..n |-> h[i]]  OBVIOUS
  <2> QED BY <2>1, <2>2
<1>9. P(c)
  <2> HIDE DEF P, c
  <2> QED BY <1>5, <1>8
<1> HIDE DEF c
<1>10. \A i \in 0..n : c[i] = IF i = 0 THEN z ELSE KeepOne(c[i - 1], q[i], kinds)  BY <1>9, Zenon
<1>11. c[0] = z /\ \A i \in 1..n : c[i] = KeepOne(c[i - 1], q[i], kinds)
  <2>1. 0 \in 0..n /\ \A i \in 1..n : i \in 0..n /\ i # 0  BY <1>1
  <2> QED BY <1>10, <2>1
<1>12. \A i \in 1..n : c[i - 1] \in S => c[i] = step[<<i, c[i - 1]>>]
  BY <1>3, <1>11
<1>13. \A i \in 0..n : c[i] \in S  BY <1>6, <1>11, <1>12, RecursionStays
<1> QED BY <1>11, <1>13 DEF c, S, z, n

\* What is kept of one list followed by another is what is kept of the one followed by what is
\* kept of the other.
LEMMA KeptCat ==
  ASSUME NEW q \in Seq(Operations), NEW r \in Seq(Operations), NEW kinds
  PROVE  /\ Kept(q, kinds) \in Seq(DiffLines)
         /\ q \o r \in Seq(Operations)
         /\ Kept(q \o r, kinds) = Kept(q, kinds) \o Kept(r, kinds)
<1> DEFINE p == q \o r
           n == Len(q)
           m == Len(r)
           c == Keeping(q, kinds)
           d == Keeping(r, kinds)
           e == Keeping(p, kinds)
           G == {i \in 0..n : e[i] = c[i]}
           H == {i \in 0..m : e[n + i] = c[n] \o d[i]}
<1>1. /\ p \in Seq(Operations) /\ Len(p) = n + m /\ n \in Nat /\ m \in Nat
      /\ (\A i \in 1..n : p[i] = q[i]) /\ (\A i \in 1..m : p[n + i] = r[i])
  OBVIOUS
<1>2. /\ \A i \in 0..n : c[i] \in Seq(DiffLines)
      /\ c[0] = <<>> /\ \A i \in 1..n : c[i] = KeepOne(c[i - 1], q[i], kinds)
  BY KeepingIs
<1>3. /\ \A i \in 0..m : d[i] \in Seq(DiffLines)
      /\ d[0] = <<>> /\ \A i \in 1..m : d[i] = KeepOne(d[i - 1], r[i], kinds)
  BY KeepingIs
<1> HIDE DEF p
<1>4. e[0] = <<>> /\ \A i \in 1..(n + m) : e[i] = KeepOne(e[i - 1], p[i], kinds)
  BY <1>1, KeepingIs
<1>5. \A i \in 1..m : r[i].line \in DiffLines
  <2>1. \A i \in 1..m : r[i] \in Operations  OBVIOUS
  <2>2. \A o \in Operations : o.line \in DiffLines  BY DEF Operations
  <2> QED BY <2>1, <2>2
<1> HIDE DEF n, m, c, d, e
<1>0. n \in Nat /\ m \in Nat  BY <1>1
<1>6. n \in G
  <2>1. 0 \in G  BY <1>1, <1>2, <1>4
  <2>2. ASSUME NEW i \in 0..(n - 1), i \in G PROVE i + 1 \in G
    <3>1. i + 1 \in 1..n /\ (i + 1) - 1 = i /\ i + 1 \in 0..n /\ i + 1 \in 1..(n + m)  BY <1>0
    <3>2. e[i + 1] = KeepOne(e[i], p[i + 1], kinds)  BY <1>4, <3>1
    <3>3. c[i + 1] = KeepOne(c[i], q[i + 1], kinds)  BY <1>2, <3>1
    <3> QED BY <1>1, <2>2, <3>1, <3>2, <3>3
  <2> HIDE DEF G
  <2>3. \A i \in 0..n : i \in G  BY <1>1, <2>1, <2>2, UpTo
  <2> QED BY <1>1, <2>3
<1>7. c[n] \in Seq(DiffLines)  BY <1>1, <1>2
<1>8. m \in H
  <2>1. 0 \in H
    <3>1. c[n] \o <<>> = c[n]  BY <1>7
    <3>2. e[n + 0] = c[n]
      <4>1. n + 0 = n  BY <1>0
      <4> QED BY <1>6, <4>1
    <3>3. e[n + 0] = c[n] \o d[0]  BY <1>3, <3>1, <3>2
    <3>4. 0 \in 0..m  BY <1>0
    <3> QED BY <3>3, <3>4, Zenon
  <2>2. ASSUME NEW i \in 0..(m - 1), i \in H PROVE i + 1 \in H
    <3>1. /\ i + 1 \in 1..m /\ (i + 1) - 1 = i /\ i + 1 \in 0..m /\ i \in 0..m /\ n + (i + 1) \in 1..(n + m)
          /\ (n + (i + 1)) - 1 = n + i
      BY <1>0
    <3>2. e[n + (i + 1)] = KeepOne(e[n + i], p[n + (i + 1)], kinds)  BY <1>4, <3>1
    <3>3. d[i + 1] = KeepOne(d[i], r[i + 1], kinds)  BY <1>3, <3>1
    <3>4. p[n + (i + 1)] = r[i + 1]  BY <1>1, <3>1
    <3>5. e[n + (i + 1)] = KeepOne(c[n] \o d[i], r[i + 1], kinds)  BY <2>2, <3>2, <3>4
    <3>6. d[i] \in Seq(DiffLines) /\ r[i + 1].line \in DiffLines  BY <1>3, <1>5, <3>1
    <3>7. c[n] \o Append(d[i], r[i + 1].line) = Append(c[n] \o d[i], r[i + 1].line)
      <4>1. \A s, u \in Seq(DiffLines), l \in DiffLines : s \o Append(u, l) = Append(s \o u, l)  OBVIOUS
      <4> QED BY <1>7, <3>6, <4>1
    <3>8. e[n + (i + 1)] = c[n] \o d[i + 1]  BY <3>3, <3>5, <3>7 DEF KeepOne
    <3> QED BY <3>1, <3>8
  <2> HIDE DEF H
  <2>3. \A i \in 0..m : i \in H  BY <1>1, <2>1, <2>2, UpTo
  <2> QED BY <1>1, <2>3
<1>9. e[n + m] = c[n] \o d[m]  BY <1>8
<1> QED BY <1>1, <1>7, <1>9 DEF Kept, p, n, m, c, d, e

\* What is kept of two sequences of operations, one after the other, and of three.
Joins(q, r, kinds) ==
  /\ Kept(q, kinds) \in Seq(DiffLines)
  /\ q \o r \in Seq(Operations)
  /\ Kept(q \o r, kinds) = Kept(q, kinds) \o Kept(r, kinds)
JoinsThree(x, y, z, kinds) ==
  /\ (x \o y) \o z \in Seq(Operations)
  /\ Kept((x \o y) \o z, kinds) = (Kept(x, kinds) \o Kept(y, kinds)) \o Kept(z, kinds)
  /\ Kept(x, kinds) \in Seq(DiffLines) /\ Kept(y, kinds) \in Seq(DiffLines) /\ Kept(z, kinds) \in Seq(DiffLines)

\* KeptCat in that form.
LEMMA KeptJoins ==
  ASSUME NEW q \in Seq(Operations), NEW r \in Seq(Operations), NEW kinds
  PROVE  Joins(q, r, kinds)
BY KeptCat DEF Joins

\* The same of three.
LEMMA KeptThree ==
  ASSUME NEW x \in Seq(Operations), NEW y \in Seq(Operations), NEW z \in Seq(Operations), NEW kinds
  PROVE  JoinsThree(x, y, z, kinds)
<1>1. Joins(x, y, kinds)  BY KeptJoins
<1>2. Joins(y, z, kinds)  BY KeptJoins
<1>3. Joins(z, z, kinds)  BY KeptJoins
<1>4. Joins(x \o y, z, kinds)
  <2> DEFINE w == x \o y
  <2>1. w \in Seq(Operations)  BY ONLY <1>1, Zenon DEF Joins
  <2> HIDE DEF w
  <2>2. Joins(w, z, kinds)  BY <2>1, KeptJoins
  <2> QED BY ONLY <2>2, Zenon DEF w
<1> QED BY ONLY <1>1, <1>2, <1>3, <1>4, Zenon DEF Joins, JoinsThree

\* One operation more.
LEMMA KeptOn ==
  ASSUME NEW q \in Seq(Operations), NEW o \in Operations, NEW kinds
  PROVE  /\ Append(q, o) \in Seq(Operations)
         /\ Kept(Append(q, o), kinds) = KeepOne(Kept(q, kinds), o, kinds)
<1> DEFINE r == <<o>>
<1>1. r \in Seq(Operations) /\ Append(q, o) = q \o r /\ Len(r) = 1 /\ r[1] = o  OBVIOUS
<1> HIDE DEF r
<1>2. Kept(q, kinds) \in Seq(DiffLines) /\ Kept(q \o r, kinds) = Kept(q, kinds) \o Kept(r, kinds) /\ q \o r \in Seq(Operations)
  BY <1>1, KeptCat
<1>3. Kept(r, kinds) = KeepOne(<<>>, o, kinds)
  <2>1. Keeping(r, kinds)[0] = <<>> /\ \A i \in 1..1 : Keeping(r, kinds)[i] = KeepOne(Keeping(r, kinds)[i - 1], r[i], kinds)
    BY <1>1, KeepingIs
  <2>2. Keeping(r, kinds)[1] = KeepOne(<<>>, o, kinds)
    <3>1. 1 \in 1..1 /\ 1 - 1 = 0  OBVIOUS
    <3> QED BY <1>1, <2>1, <3>1
  <2> QED BY <1>1, <2>2 DEF Kept
<1>4. o.line \in DiffLines  BY DEF Operations
<1> HIDE DEF Kept
<1>5. CASE o.kind \in kinds
  <2>1. Kept(r, kinds) = <<o.line>>
    <3>1. Append(<<>>, o.line) = <<o.line>>  OBVIOUS
    <3> QED BY <1>3, <1>5, <3>1 DEF KeepOne
  <2>2. Kept(q, kinds) \o <<o.line>> = Append(Kept(q, kinds), o.line)  BY <1>2, <1>4
  <2> QED BY <1>1, <1>2, <1>5, <2>1, <2>2 DEF KeepOne
<1>6. CASE o.kind \notin kinds
  <2>1. Kept(r, kinds) = <<>>  BY <1>3, <1>6 DEF KeepOne
  <2>2. Kept(q, kinds) \o <<>> = Kept(q, kinds)  BY <1>2
  <2> QED BY <1>1, <1>2, <1>6, <2>1, <2>2 DEF KeepOne
<1> QED BY <1>5, <1>6

\* Operations of one kind are all kept or none.
LEMMA KeptEach ==
  ASSUME NEW s \in Seq(DiffLines), NEW kind \in {"EQUAL", "DELETE", "INSERT"}, NEW kinds
  PROVE  /\ Each(kind, s) \in Seq(Operations) /\ Len(Each(kind, s)) = Len(s)
         /\ Kept(Each(kind, s), kinds) = IF kind \in kinds THEN s ELSE <<>>
<1> DEFINE q == Each(kind, s)
           n == Len(s)
           c == Keeping(q, kinds)
           G == {i \in 0..n : c[i] = IF kind \in kinds THEN SubSeq(s, 1, i) ELSE <<>>}
<1>1. \A i \in 1..Len(s) : Operation(kind, s[i]) \in Operations /\ Operation(kind, s[i]).kind = kind /\ Operation(kind, s[i]).line = s[i]
  BY DEF Operation, Operations
<1>2. q \in Seq(Operations) /\ Len(q) = n /\ (\A i \in 1..n : q[i] = Operation(kind, s[i])) /\ n \in Nat
  <2>1. DOMAIN s = 1..Len(s)  OBVIOUS
  <2> QED BY <1>1, <2>1 DEF Each
<1> HIDE DEF q
<1>3. c[0] = <<>> /\ \A i \in 1..n : c[i] = KeepOne(c[i - 1], q[i], kinds)  BY <1>2, KeepingIs
<1>4. 0 \in G
  <2>1. SubSeq(s, 1, 0) = <<>>  OBVIOUS
  <2>2. 0 \in 0..n  BY <1>2
  <2> HIDE DEF c
  <2> QED BY <1>3, <2>1, <2>2
<1> HIDE DEF c
<1>5. ASSUME NEW i \in 0..(n - 1), i \in G PROVE i + 1 \in G
  <2>1. i + 1 \in 1..n /\ (i + 1) - 1 = i /\ i + 1 \in 0..n  BY <1>2
  <2>2. c[i + 1] = KeepOne(c[i], Operation(kind, s[i + 1]), kinds)  BY <1>2, <1>3, <2>1
  <2>3. SubSeq(s, 1, i + 1) = Append(SubSeq(s, 1, i), s[i + 1])
    <3>1. i \in 0..Len(s) /\ i + 1 \in 1..Len(s)  BY <2>1
    <3> HIDE DEF n
    <3> QED BY <3>1
  <2>4. Operation(kind, s[i + 1]).kind = kind /\ Operation(kind, s[i + 1]).line = s[i + 1]  BY <1>1, <2>1
  <2>5. c[i + 1] = IF kind \in kinds THEN Append(c[i], s[i + 1]) ELSE c[i]  BY <2>2, <2>4 DEF KeepOne
  <2>6. CASE kind \in kinds  BY <1>5, <2>1, <2>3, <2>5, <2>6
  <2>7. CASE kind \notin kinds  BY <1>5, <2>1, <2>5, <2>7
  <2> QED BY <2>6, <2>7
<1>6. n \in G
  <2> HIDE DEF G, n
  <2>1. \A i \in 0..n : i \in G  BY <1>2, <1>4, <1>5, UpTo
  <2> QED BY <1>2, <2>1
<1>7. SubSeq(s, 1, n) = s  OBVIOUS
<1> QED BY <1>2, <1>6, <1>7 DEF Kept, q, c

\* Of two numbers the smaller one.
LEMMA MinOfTwo ==
  ASSUME NEW x \in Nat, NEW y \in Nat
  PROVE  Min({x, y}) \in Nat /\ Min({x, y}) <= x /\ Min({x, y}) <= y /\ Min({x, y}) \in {x, y}
<1>1. \E z \in {x, y} : \A v \in {x, y} : z <= v
  <2>1. x <= y \/ y <= x  OBVIOUS
  <2>2. x <= x /\ y <= y  OBVIOUS
  <2> QED BY <2>1, <2>2
<1>2. Min({x, y}) \in {x, y} /\ \A v \in {x, y} : Min({x, y}) <= v  BY <1>1, Zenon DEF Min
<1> HIDE DEF Min
<1> QED BY <1>2

\* What Trim finds: two texts that begin and end alike, apart from the rest.
CutAt(o, w, p, s) ==
  /\ p \in Nat /\ s \in Nat /\ p + s <= Len(o) /\ p + s <= Len(w)
  /\ SubSeq(o, 1, p) = SubSeq(w, 1, p)
  /\ SubSeq(o, Len(o) - s + 1, Len(o)) = SubSeq(w, Len(w) - s + 1, Len(w))

TextsOK(t) == t \in [old : Seq(DiffLines), new : Seq(DiffLines)]

\* The prefix and the suffix that Trim takes are such a cut.
LEMMA CutIs ==
  ASSUME TextsOK(texts)
  PROVE  CutAt(Old, New, Prefix, Suffix(Prefix))
<1> DEFINE o == Old
           w == New
           h == Shorter
           A == {n \in 0..h : SubSeq(o, 1, n) = SubSeq(w, 1, n)}
           p == Prefix
           B == {n \in 0..(h - p) : SubSeq(o, Len(o) - n + 1, Len(o)) = SubSeq(w, Len(w) - n + 1, Len(w))}
           s == Suffix(p)
<1>1. o \in Seq(DiffLines) /\ w \in Seq(DiffLines)  BY DEF TextsOK, Old, New
<1>2. Len(o) \in Nat /\ Len(w) \in Nat  BY <1>1
<1>3. p = Max(A) /\ s = Max(B)  BY DEF Prefix, Suffix
<1>4. h = Min({Len(o), Len(w)})  BY DEF Shorter
<1> HIDE DEF o, w, h, p, s
<1>5. h \in Nat /\ h <= Len(o) /\ h <= Len(w)  BY <1>2, <1>4, MinOfTwo
<1>6. 0 \in A
  <2>1. SubSeq(o, 1, 0) = <<>> /\ SubSeq(w, 1, 0) = <<>>  BY <1>1
  <2> QED BY <1>5, <2>1
<1>7. p \in A
  <2>1. A \subseteq 0..h /\ A # {}  BY <1>6
  <2> HIDE DEF A
  <2> QED BY <1>3, <1>5, <2>1, LastOf
<1>8. p \in Nat /\ p <= h /\ h - p \in Nat /\ SubSeq(o, 1, p) = SubSeq(w, 1, p)  BY <1>5, <1>7
<1>9. 0 \in B
  <2>1. SubSeq(o, Len(o) - 0 + 1, Len(o)) = <<>> /\ SubSeq(w, Len(w) - 0 + 1, Len(w)) = <<>>  BY <1>1, <1>2
  <2>2. 0 \in 0..(h - p)  BY <1>8
  <2> QED BY <2>1, <2>2
<1>10. s \in B
  <2>1. B \subseteq 0..(h - p) /\ B # {}  BY <1>9
  <2> HIDE DEF B
  <2> QED BY <1>3, <1>8, <2>1, LastOf
<1>11. /\ s \in 0..(h - p)
       /\ SubSeq(o, Len(o) - s + 1, Len(o)) = SubSeq(w, Len(w) - s + 1, Len(w))
  BY <1>10
<1>12. s \in Nat /\ p + s <= Len(o) /\ p + s <= Len(w)  BY <1>2, <1>5, <1>8, <1>11
<1>13. CutAt(o, w, p, s)  BY <1>8, <1>11, <1>12 DEF CutAt
<1> QED BY <1>13 DEF o, w, p, s

\* The lengths of the beginning, the middle and the end of a text.
LEMMA InThree ==
  ASSUME NEW S, NEW o \in Seq(S), NEW p \in Nat, NEW s \in Nat, p + s <= Len(o)
  PROVE  /\ SubSeq(o, 1, p) \in Seq(S) /\ Len(SubSeq(o, 1, p)) = p
         /\ SubSeq(o, p + 1, Len(o) - s) \in Seq(S) /\ Len(SubSeq(o, p + 1, Len(o) - s)) = Len(o) - s - p
         /\ SubSeq(o, Len(o) - s + 1, Len(o)) \in Seq(S) /\ Len(SubSeq(o, Len(o) - s + 1, Len(o))) = s
         /\ \A k \in 1..(Len(o) - s - p) : SubSeq(o, p + 1, Len(o) - s)[k] = o[p + k]
<1> DEFINE n == Len(o)
           a == SubSeq(o, 1, p)
           b == SubSeq(o, p + 1, n - s)
           c == SubSeq(o, n - s + 1, n)
<1>0. n \in Nat /\ p <= n - s /\ n - s <= n /\ p <= n  OBVIOUS
<1>1. a \in Seq(S) /\ Len(a) = p  BY <1>0
<1>2. b \in Seq(S) /\ Len(b) = n - s - p /\ \A k \in 1..(n - s - p) : b[k] = o[p + k]  BY <1>0
<1>3. c \in Seq(S) /\ Len(c) = s  BY <1>0
<1> QED BY <1>1, <1>2, <1>3

\* A text is its beginning, its middle and its end.
LEMMA WholeIs ==
  ASSUME NEW S, NEW o \in Seq(S), NEW p \in Nat, NEW s \in Nat, p + s <= Len(o)
  PROVE  o = (SubSeq(o, 1, p) \o SubSeq(o, p + 1, Len(o) - s)) \o SubSeq(o, Len(o) - s + 1, Len(o))
<1> DEFINE n == Len(o)
<1>1. n \in Nat /\ p <= n - s /\ n - s <= n /\ p <= n  OBVIOUS
<1> HIDE DEF n
<1>2. 1 \in 1..(n + 1) /\ p \in (1 - 1)..n /\ n - s \in p..n /\ n - s \in (1 - 1)..n /\ n \in (n - s)..n
  BY <1>1
<1>3. \A k \in (1 - 1)..n : \A i \in k..n : SubSeq(o, 1, k) \o SubSeq(o, k + 1, i) = SubSeq(o, 1, i)
  BY <1>2, ConcatAdjacentSubSeq DEF n
<1>4. SubSeq(o, 1, p) \o SubSeq(o, p + 1, n - s) = SubSeq(o, 1, n - s)  BY <1>2, <1>3
<1>5. SubSeq(o, 1, n - s) \o SubSeq(o, n - s + 1, n) = SubSeq(o, 1, n)  BY <1>2, <1>3
<1>6. SubSeq(o, 1, n) = o  BY DEF n
<1> QED BY ONLY <1>4, <1>5, <1>6, Zenon DEF n

\* A row of the table, cell by cell.
LEMMA CellsAre ==
  ASSUME NEW b \in Seq(DiffLines), NEW l, NEW below \in [1..(Len(b) + 1) -> Nat]
  PROVE  /\ \A k \in 0..Len(b) : Cells(l, b, below)[k] \in Nat
         /\ Cells(l, b, below)[0] = 0
         /\ \A k \in 1..Len(b) : Cells(l, b, below)[k] =
              CellOf(l, b[Len(b) + 1 - k], below[Len(b) + 2 - k], below[Len(b) + 1 - k], Cells(l, b, below)[k - 1])
<1> DEFINE n == Len(b)
           To(v, k) == CellOf(l, b[n + 1 - k], below[n + 2 - k], below[n + 1 - k], v)
           step == [x \in (1..n) \X Nat |-> To(x[2], x[1])]
           P(g) == g = [k \in 0..n |-> IF k = 0 THEN 0 ELSE To(g[k - 1], k)]
           c == Cells(l, b, below)
<1>1. n \in Nat  OBVIOUS
<1>5. c = CHOOSE g : P(g)  BY DEF Cells
<1> HIDE DEF n
<1>2. \A k \in 1..n, v \in Nat : To(v, k) \in Nat
  <2> TAKE k \in 1..n, v \in Nat
  <2>1. n + 2 - k \in 1..(n + 1) /\ n + 1 - k \in 1..(n + 1)  BY <1>1
  <2>2. below[n + 2 - k] \in Nat /\ below[n + 1 - k] \in Nat  BY <2>1 DEF n
  <2> QED BY <2>2 DEF CellOf
<1> HIDE DEF To
<1>3. \A k \in 1..n, v \in Nat : step[<<k, v>>] = To(v, k)  OBVIOUS
<1>4. step \in [(1..n) \X Nat -> Nat]
  <2>1. \A x \in (1..n) \X Nat : x[1] \in 1..n /\ x[2] \in Nat  OBVIOUS
  <2>2. \A x \in (1..n) \X Nat : To(x[2], x[1]) \in Nat  BY <1>2, <2>1
  <2> QED BY <2>2
<1> HIDE DEF step
<1>6. Recursion(n, Nat, 0, step)  BY <1>1, <1>4 DEF Recursion
<1>7. PICK h \in [0..n -> Nat] : Follows(h, n, 0, step)  BY <1>6, RecursionHas
<1>8. P(h)
  <2>1. \A k \in 0..n : h[k] = IF k = 0 THEN 0 ELSE To(h[k - 1], k)
    <3> TAKE k \in 0..n
    <3>1. CASE k = 0  BY <1>7, <3>1 DEF Follows
    <3>2. CASE k # 0
      <4>1. k \in 1..n /\ k - 1 \in 0..n  BY <1>1, <3>2
      <4>2. h[k] = step[<<k, h[k - 1]>>] /\ h[k - 1] \in Nat  BY <1>7, <4>1 DEF Follows
      <4>3. h[k] = To(h[k - 1], k)  BY <1>3, <4>1, <4>2
      <4> QED BY <3>2, <4>3
    <3> QED BY <3>1, <3>2
  <2>2. h = [k \in 0..n |-> h[k]]  OBVIOUS
  <2> QED BY <2>1, <2>2
<1>9. P(c)
  <2> HIDE DEF P, c
  <2> QED BY <1>5, <1>8
<1> HIDE DEF c
<1>10. \A k \in 0..n : c[k] = IF k = 0 THEN 0 ELSE To(c[k - 1], k)  BY <1>9, Zenon
<1>11. c[0] = 0 /\ \A k \in 1..n : c[k] = To(c[k - 1], k)
  <2>1. 0 \in 0..n /\ \A k \in 1..n : k \in 0..n /\ k # 0  BY <1>1
  <2> QED BY <1>10, <2>1
<1>12. \A k \in 1..n : c[k - 1] \in Nat => c[k] = step[<<k, c[k - 1]>>]
  BY <1>3, <1>11
<1>13. \A k \in 0..n : c[k] \in Nat
  <2> DEFINE S == Nat
             z == 0
  <2>1. Recursion(n, S, z, step) /\ c[0] = z /\ \A k \in 1..n : c[k - 1] \in S => c[k] = step[<<k, c[k - 1]>>]
    BY <1>6, <1>11, <1>12
  <2> HIDE DEF S, z
  <2>2. \A k \in 0..n : c[k] \in S  BY <2>1, RecursionStays
  <2> QED BY <2>2 DEF S
<1> QED BY <1>11, <1>13 DEF c, n, To

\* A row: nothing behind the last line, and every other cell by the rule of CellOf.
LEMMA RowIs ==
  ASSUME NEW b \in Seq(DiffLines), NEW l, NEW below \in [1..(Len(b) + 1) -> Nat]
  PROVE  /\ Row(l, b, below) \in [1..(Len(b) + 1) -> Nat]
         /\ Row(l, b, below)[Len(b) + 1] = 0
         /\ \A j \in 1..Len(b) : Row(l, b, below)[j] = CellOf(l, b[j], below[j + 1], below[j], Row(l, b, below)[j + 1])
<1> DEFINE n == Len(b)
           c == Cells(l, b, below)
           r == Row(l, b, below)
<1>1. n \in Nat  OBVIOUS
<1>2. /\ \A k \in 0..n : c[k] \in Nat
      /\ c[0] = 0
      /\ \A k \in 1..n : c[k] = CellOf(l, b[n + 1 - k], below[n + 2 - k], below[n + 1 - k], c[k - 1])
  BY CellsAre
<1>3. r = [j \in 1..(n + 1) |-> c[n + 1 - j]]  BY DEF Row
<1> HIDE DEF n, c, r
<1>4. \A j \in 1..(n + 1) : n + 1 - j \in 0..n /\ r[j] = c[n + 1 - j]  BY <1>1, <1>3
<1>5. r \in [1..(n + 1) -> Nat]  BY <1>2, <1>3, <1>4
<1>6. r[n + 1] = 0
  <2> DEFINE e == n + 1
  <2>1. e \in 1..(n + 1) /\ n + 1 - e = 0  BY <1>1
  <2> HIDE DEF e
  <2>2. r[e] = c[n + 1 - e]  BY <1>4, <2>1
  <2>3. r[e] = 0  BY <1>2, <2>1, <2>2
  <2> QED BY <2>3 DEF e
<1>7. ASSUME NEW j \in 1..n PROVE r[j] = CellOf(l, b[j], below[j + 1], below[j], r[j + 1])
  <2> DEFINE k == n + 1 - j
  <2>1. k \in 1..n /\ n + 1 - k = j /\ n + 2 - k = j + 1 /\ k - 1 = n + 1 - (j + 1) /\ j \in 1..(n + 1) /\ j + 1 \in 1..(n + 1)
    BY <1>1
  <2>2. r[j] = c[k] /\ r[j + 1] = c[k - 1]  BY <1>4, <2>1
  <2> HIDE DEF k
  <2>3. c[k] = CellOf(l, b[n + 1 - k], below[n + 2 - k], below[n + 1 - k], c[k - 1])  BY <1>2, <2>1
  <2> QED BY <2>1, <2>2, <2>3
<1> QED BY <1>5, <1>6, <1>7 DEF r, n

\* The table of the lines of a that have been reached, from the last one back: each cell comes from
\* its neighbours, and the last row and column are empty.
TableOf(T, a, b) ==
  /\ T \in Seq([1..(Len(b) + 1) -> Nat])
  /\ 1 <= Len(T) /\ Len(T) <= Len(a) + 1
  /\ \A k \in 1..Len(T) : T[k][Len(b) + 1] = 0
  /\ \A j \in 1..(Len(b) + 1) : T[Len(T)][j] = 0
  /\ \A k \in 1..(Len(T) - 1) : \A j \in 1..Len(b) :
       T[k][j] = CellOf(a[Len(a) + 1 - Len(T) + k], b[j], T[k + 1][j + 1], T[k + 1][j], T[k][j + 1])

\* The table starts with a row of zeroes,
LEMMA TableStarts ==
  ASSUME NEW a \in Seq(DiffLines), NEW b \in Seq(DiffLines)
  PROVE  TableOf(<<[j \in 1..(Len(b) + 1) |-> 0]>>, a, b)
<1> DEFINE z == [j \in 1..(Len(b) + 1) |-> 0]
<1>1. z \in [1..(Len(b) + 1) -> Nat] /\ (\A j \in 1..(Len(b) + 1) : z[j] = 0) /\ Len(b) \in Nat /\ Len(a) \in Nat  OBVIOUS
<1>2. Len(b) + 1 \in 1..(Len(b) + 1)  BY <1>1
<1> HIDE DEF z
<1>3. <<z>> \in Seq([1..(Len(b) + 1) -> Nat]) /\ Len(<<z>>) = 1 /\ <<z>>[1] = z  BY <1>1
<1>4. TableOf(<<z>>, a, b)  BY <1>1, <1>2, <1>3 DEF TableOf
<1> QED BY <1>4 DEF z

\* and a row above its first one keeps it a table.
LEMMA TableGrows ==
  ASSUME NEW a \in Seq(DiffLines), NEW b \in Seq(DiffLines), NEW T, TableOf(T, a, b), Len(T) <= Len(a)
  PROVE  TableOf(<<Row(a[Len(a) + 1 - Len(T)], b, T[1])>> \o T, a, b)
<1> DEFINE l == a[Len(a) + 1 - Len(T)]
           X == [1..(Len(b) + 1) -> Nat]
           r == Row(l, b, T[1])
           U == <<r>> \o T
           t == Len(T)
           m == Len(a)
           n == Len(b)
<1>1. T \in Seq(X) /\ 1 <= t /\ t \in Nat /\ m \in Nat /\ n \in Nat /\ t <= m
  BY DEF TableOf
<1>2. T[1] \in X
  <2>1. 1 \in 1..t  BY <1>1
  <2> QED BY <1>1, <2>1
<1>3. /\ r \in X /\ r[n + 1] = 0
      /\ \A j \in 1..n : r[j] = CellOf(l, b[j], T[1][j + 1], T[1][j], r[j + 1])
  BY <1>2, RowIs
<1>4. /\ \A k \in 1..t : T[k][n + 1] = 0
      /\ \A j \in 1..(n + 1) : T[t][j] = 0
      /\ \A k \in 1..(t - 1) : \A j \in 1..n : T[k][j] = CellOf(a[m + 1 - t + k], b[j], T[k + 1][j + 1], T[k + 1][j], T[k][j + 1])
  BY DEF TableOf
<1> HIDE DEF r, X
<1>5. U \in Seq(X) /\ Len(U) = t + 1 /\ U[1] = r /\ \A k \in 1..t : U[k + 1] = T[k]
  BY <1>1, <1>3
<1> HIDE DEF U, l, m, n, t
<1>6. ASSUME NEW k \in 1..(t + 1) PROVE U[k][n + 1] = 0
  <2>1. CASE k = 1  BY <1>3, <1>5, <2>1
  <2>2. CASE k # 1
    <3>1. k - 1 \in 1..t /\ (k - 1) + 1 = k  BY <1>1, <2>2
    <3> QED BY <1>4, <1>5, <3>1
  <2> QED BY <2>1, <2>2
<1>7. \A j \in 1..(n + 1) : U[t + 1][j] = 0
  <2>1. t \in 1..t  BY <1>1
  <2> QED BY <1>4, <1>5, <2>1
<1>8. ASSUME NEW k \in 1..t, NEW j \in 1..n
      PROVE  U[k][j] = CellOf(a[m + 1 - (t + 1) + k], b[j], U[k + 1][j + 1], U[k + 1][j], U[k][j + 1])
  <2>1. U[k + 1] = T[k]  BY <1>5
  <2>2. CASE k = 1
    <3>1. m + 1 - (t + 1) + k = m + 1 - t  BY <1>1, <2>2
    <3>2. l = a[m + 1 - t]  BY DEF l, m, t
    <3> QED BY <1>3, <1>5, <2>1, <2>2, <3>1, <3>2
  <2>3. CASE k # 1
    <3>1. k - 1 \in 1..t /\ k - 1 \in 1..(t - 1) /\ (k - 1) + 1 = k /\ m + 1 - (t + 1) + k = m + 1 - t + (k - 1)
      BY <1>1, <2>3
    <3>2. U[k] = T[k - 1]  BY <1>5, <3>1
    <3>3. T[k - 1][j] = CellOf(a[m + 1 - t + (k - 1)], b[j], T[(k - 1) + 1][j + 1], T[(k - 1) + 1][j], T[k - 1][j + 1])
      BY <1>4, <3>1
    <3> QED BY <2>1, <3>1, <3>2, <3>3
  <2> QED BY <2>2, <2>3
<1>9. 1 <= t + 1 /\ t + 1 <= m + 1 /\ (t + 1) - 1 = t  BY <1>1
<1>10. TableOf(U, a, b)
  BY <1>5, <1>6, <1>7, <1>8, <1>9 DEF TableOf, X, m, n
<1> QED BY <1>10 DEF U, r, l

\* Lines c of a from i on and of b from j on that are the same, in order.
Aligned(f, g, a, b, i, j, c) ==
  /\ c \in Nat /\ f \in [1..c -> Nat] /\ g \in [1..c -> Nat]
  /\ \A k \in 1..c : i <= f[k] /\ f[k] <= Len(a) /\ j <= g[k] /\ g[k] <= Len(b)
  /\ \A k, m \in 1..c : k < m => f[k] < f[m] /\ g[k] < g[m]
  /\ \A k \in 1..c : a[f[k]] = b[g[k]]

\* Without its first line an alignment starts a line later in both, and where they begin differently
\* it starts a line later in one.
LEMMA AlignedOn ==
  ASSUME NEW a \in Seq(DiffLines), NEW b \in Seq(DiffLines), NEW i \in Nat, NEW j \in Nat,
         NEW f, NEW g, NEW c, Aligned(f, g, a, b, i, j, c), c > 0
  PROVE  /\ \E u, v : Aligned(u, v, a, b, i + 1, j + 1, c - 1)
         /\ f[1] # i => Aligned(f, g, a, b, i + 1, j, c)
         /\ g[1] # j => Aligned(f, g, a, b, i, j + 1, c)
<1>0. c \in Nat /\ Len(a) \in Nat /\ Len(b) \in Nat /\ f \in [1..c -> Nat] /\ g \in [1..c -> Nat]  BY DEF Aligned
<1>1. 1 \in 1..c /\ i <= f[1] /\ j <= g[1] /\ a[f[1]] = b[g[1]] /\ f[1] \in Nat /\ g[1] \in Nat
  <2>1. 1 \in 1..c  BY <1>0
  <2> QED BY <1>0, <2>1 DEF Aligned
<1>2. ASSUME NEW k \in 1..c, k # 1 PROVE i + 1 <= f[k] /\ j + 1 <= g[k] /\ f[1] < f[k] /\ g[1] < g[k]
  <2>1. 1 < k /\ f[k] \in Nat /\ g[k] \in Nat  BY <1>0, <1>2
  <2>2. f[1] < f[k] /\ g[1] < g[k]  BY <1>1, <2>1 DEF Aligned
  <2> QED BY <1>1, <2>1, <2>2
<1>3. \E u, v : Aligned(u, v, a, b, i + 1, j + 1, c - 1)
  <2> DEFINE u == [k \in 1..(c - 1) |-> f[k + 1]]
             v == [k \in 1..(c - 1) |-> g[k + 1]]
  <2>1. c - 1 \in Nat /\ \A k \in 1..(c - 1) : k + 1 \in 1..c /\ k + 1 # 1  BY <1>0
  <2>2. \A k \in 1..(c - 1) : u[k] = f[k + 1] /\ v[k] = g[k + 1]  OBVIOUS
  <2>3. u \in [1..(c - 1) -> Nat] /\ v \in [1..(c - 1) -> Nat]  BY <1>0, <2>1
  <2> HIDE DEF u, v
  <2>4. \A k \in 1..(c - 1) : i + 1 <= u[k] /\ u[k] <= Len(a) /\ j + 1 <= v[k] /\ v[k] <= Len(b)
    BY <1>2, <2>1, <2>2 DEF Aligned
  <2>5. ASSUME NEW k \in 1..(c - 1), NEW m \in 1..(c - 1), k < m PROVE u[k] < u[m] /\ v[k] < v[m]
    <3>1. k + 1 \in 1..c /\ m + 1 \in 1..c /\ k + 1 < m + 1  BY <1>0, <2>5
    <3>2. f[k + 1] < f[m + 1] /\ g[k + 1] < g[m + 1]  BY <3>1 DEF Aligned
    <3> QED BY <2>2, <3>2
  <2>6. \A k \in 1..(c - 1) : a[u[k]] = b[v[k]]  BY <2>1, <2>2 DEF Aligned
  <2>7. Aligned(u, v, a, b, i + 1, j + 1, c - 1)  BY <2>1, <2>3, <2>4, <2>5, <2>6 DEF Aligned
  <2> QED BY <2>7
<1>4. ASSUME f[1] # i PROVE Aligned(f, g, a, b, i + 1, j, c)
  <2>1. i + 1 <= f[1]  BY <1>1, <1>4
  <2>2. \A k \in 1..c : i + 1 <= f[k]  BY <1>2, <2>1
  <2> QED BY <2>2 DEF Aligned
<1>5. ASSUME g[1] # j PROVE Aligned(f, g, a, b, i, j + 1, c)
  <2>1. j + 1 <= g[1]  BY <1>1, <1>5
  <2>2. \A k \in 1..c : j + 1 <= g[k]  BY <1>2, <2>1
  <2> QED BY <2>2 DEF Aligned
<1> QED BY <1>1, <1>3, <1>4, <1>5

\* A cell of a whole table is the most that the rest of the two texts can have in common.
Bounded(T, a, b, i, j) == \A c, f, g : Aligned(f, g, a, b, i, j, c) => c <= T[i][j]

\* One cell bounds what is left if the three cells it is made of do.
LEMMA CellBounds ==
  ASSUME NEW a \in Seq(DiffLines), NEW b \in Seq(DiffLines), NEW T, TableOf(T, a, b), Len(T) = Len(a) + 1,
         NEW i \in 1..(Len(a) + 1), NEW j \in 1..(Len(b) + 1),
         i <= Len(a) /\ j <= Len(b) =>
           Bounded(T, a, b, i + 1, j + 1) /\ Bounded(T, a, b, i + 1, j) /\ Bounded(T, a, b, i, j + 1)
  PROVE  Bounded(T, a, b, i, j)
<1> SUFFICES ASSUME NEW c, NEW f, NEW g, Aligned(f, g, a, b, i, j, c) PROVE c <= T[i][j]  BY DEF Bounded
<1>0. Len(a) \in Nat /\ Len(b) \in Nat /\ i \in Nat /\ j \in Nat /\ c \in Nat  BY DEF Aligned
<1>1. \A x \in 1..(Len(a) + 1), y \in 1..(Len(b) + 1) : T[x][y] \in Nat
  <2>1. T \in Seq([1..(Len(b) + 1) -> Nat])  BY DEF TableOf
  <2>2. \A x \in 1..(Len(a) + 1) : T[x] \in [1..(Len(b) + 1) -> Nat]  BY <2>1
  <2> QED BY <2>2
<1>2. T[i][j] \in Nat  BY <1>1
<1>3. CASE c = 0  BY <1>2, <1>3
<1>4. CASE c > 0
  <2>1. 1 \in 1..c /\ f[1] \in Nat /\ g[1] \in Nat /\ i <= f[1] /\ f[1] <= Len(a) /\ j <= g[1] /\ g[1] <= Len(b)
    <3>1. 1 \in 1..c  BY <1>0, <1>4
    <3> QED BY <3>1 DEF Aligned
  <2>2. i <= Len(a) /\ j <= Len(b) /\ i \in 1..Len(a) /\ j \in 1..Len(b)  BY <1>0, <2>1
  <2>3. T[i][j] = CellOf(a[i], b[j], T[i + 1][j + 1], T[i + 1][j], T[i][j + 1])
    <3>1. i \in 1..(Len(T) - 1) /\ Len(a) + 1 - Len(T) + i = i  BY <1>0, <2>2
    <3>2. T[i][j] = CellOf(a[Len(a) + 1 - Len(T) + i], b[j], T[i + 1][j + 1], T[i + 1][j], T[i][j + 1])
      BY <2>2, <3>1 DEF TableOf
    <3> QED BY <3>1, <3>2
  <2>4. T[i + 1][j + 1] \in Nat /\ T[i + 1][j] \in Nat /\ T[i][j + 1] \in Nat
    <3>1. i + 1 \in 1..(Len(a) + 1) /\ j + 1 \in 1..(Len(b) + 1)  BY <1>0, <2>2
    <3> QED BY <1>1, <3>1
  <2>5. c - 1 <= T[i + 1][j + 1]
    <3>1. \E u, v : Aligned(u, v, a, b, i + 1, j + 1, c - 1)  BY <1>0, <1>4, AlignedOn
    <3> QED BY <2>2, <3>1 DEF Bounded
  <2>6. f[1] # i => c <= T[i + 1][j]
    <3>1. f[1] # i => Aligned(f, g, a, b, i + 1, j, c)  BY <1>0, <1>4, AlignedOn
    <3> QED BY <2>2, <3>1 DEF Bounded
  <2>7. g[1] # j => c <= T[i][j + 1]
    <3>1. g[1] # j => Aligned(f, g, a, b, i, j + 1, c)  BY <1>0, <1>4, AlignedOn
    <3> QED BY <2>2, <3>1 DEF Bounded
  <2>8. f[1] = i /\ g[1] = j => a[i] = b[j]  BY <2>1 DEF Aligned
  <2>9. CASE a[i] = b[j]
    <3>1. T[i][j] = T[i + 1][j + 1] + 1  BY <2>3, <2>9 DEF CellOf
    <3>2. \A x, y \in Nat : x - 1 <= y => x <= y + 1  OBVIOUS
    <3>3. c \in Nat  BY <1>0
    <3> QED BY ONLY <2>4, <2>5, <3>1, <3>2, <3>3, Zenon
  <2>10. CASE a[i] # b[j]
    <3>1. T[i][j] >= T[i + 1][j] /\ T[i][j] >= T[i][j + 1]
      <4>1. \A x, y \in Nat : LET m == IF x >= y THEN x ELSE y IN m >= x /\ m >= y  OBVIOUS
      <4>2. T[i][j] = IF T[i + 1][j] >= T[i][j + 1] THEN T[i + 1][j] ELSE T[i][j + 1]
        BY ONLY <2>3, <2>10, Zenon DEF CellOf
      <4>3. T[i + 1][j] \in Nat /\ T[i][j + 1] \in Nat  BY ONLY <2>4, Zenon
      <4> QED BY ONLY <4>1, <4>2, <4>3, Zenon
    <3>2. c <= T[i + 1][j] \/ c <= T[i][j + 1]  BY ONLY <2>6, <2>7, <2>8, <2>10, Zenon
    <3>3. \A x, y, z \in Nat : y >= x /\ z <= x => z <= y  OBVIOUS
    <3>4. c \in Nat  BY <1>0
    <3>5. T[i][j] \in Nat /\ T[i + 1][j] \in Nat /\ T[i][j + 1] \in Nat  BY ONLY <1>2, <2>4, Zenon
    <3> QED BY ONLY <3>1, <3>2, <3>3, <3>4, <3>5, Zenon
  <2> QED BY <2>9, <2>10
<1> QED BY <1>0, <1>3, <1>4

\* Every cell of a whole table bounds what is left, by induction over what is left of both texts.
LEMMA TableBounds ==
  ASSUME NEW a \in Seq(DiffLines), NEW b \in Seq(DiffLines), NEW T, TableOf(T, a, b), Len(T) = Len(a) + 1
  PROVE  \A i \in 1..(Len(a) + 1), j \in 1..(Len(b) + 1) : Bounded(T, a, b, i, j)
<1> DEFINE m == Len(a)
           n == Len(b)
           Left(i, j) == (m + 1 - i) + (n + 1 - j)
           G == {d \in 0..(m + n) : \A i \in 1..(m + 1), j \in 1..(n + 1) : Left(i, j) <= d => Bounded(T, a, b, i, j)}
<1>1. m \in Nat /\ n \in Nat /\ m + n \in Nat  OBVIOUS
<1>2. ASSUME NEW i \in 1..(m + 1), NEW j \in 1..(n + 1),
             i <= m /\ j <= n => Bounded(T, a, b, i + 1, j + 1) /\ Bounded(T, a, b, i + 1, j) /\ Bounded(T, a, b, i, j + 1)
      PROVE  Bounded(T, a, b, i, j)
  BY <1>2, CellBounds
<1> HIDE DEF m, n
<1>3. 0 \in G
  <2>1. ASSUME NEW i \in 1..(m + 1), NEW j \in 1..(n + 1), Left(i, j) <= 0 PROVE Bounded(T, a, b, i, j)
    <3>1. ~(i <= m /\ j <= n)  BY <1>1, <2>1
    <3> QED BY <1>2, <3>1
  <2>2. 0 \in 0..(m + n)  BY <1>1
  <2> QED BY <2>1, <2>2
<1>4. ASSUME NEW d \in 0..((m + n) - 1), d \in G PROVE d + 1 \in G
  <2>1. ASSUME NEW i \in 1..(m + 1), NEW j \in 1..(n + 1), Left(i, j) <= d + 1 PROVE Bounded(T, a, b, i, j)
    <3>1. ASSUME i <= m, j <= n
          PROVE  Bounded(T, a, b, i + 1, j + 1) /\ Bounded(T, a, b, i + 1, j) /\ Bounded(T, a, b, i, j + 1)
      <4>1. i + 1 \in 1..(m + 1) /\ j + 1 \in 1..(n + 1)  BY <1>1, <3>1
      <4>2. Left(i + 1, j + 1) <= d /\ Left(i + 1, j) <= d /\ Left(i, j + 1) <= d  BY <1>1, <2>1, <3>1
      <4> HIDE DEF Left
      <4> QED BY <1>4, <4>1, <4>2
    <3> QED BY <1>2, <3>1
  <2>2. d + 1 \in 0..(m + n)  BY <1>1
  <2> QED BY <2>1, <2>2
<1>5. \A d \in 0..(m + n) : d \in G
  <2> HIDE DEF G
  <2> QED BY <1>1, <1>3, <1>4, UpTo
<1>6. ASSUME NEW i \in 1..(m + 1), NEW j \in 1..(n + 1) PROVE Bounded(T, a, b, i, j)
  <2>1. Left(i, j) <= m + n /\ m + n \in 0..(m + n)  BY <1>1
  <2> HIDE DEF Left
  <2> QED BY <1>5, <2>1
<1> QED BY <1>6 DEF m, n

\* The walk at i and j: what has been written is both texts so far, and what it has kept together
\* with what can still be kept is all that can be kept.
OldKinds == {"EQUAL", "DELETE"}
NewKinds == {"EQUAL", "INSERT"}
WalkedAt(T, a, b, ops, i, j) ==
  /\ Len(T) = Len(a) + 1 /\ i \in 1..(Len(a) + 1) /\ j \in 1..(Len(b) + 1) /\ ops \in Seq(Operations)
  /\ Kept(ops, OldKinds) = SubSeq(a, 1, i - 1)
  /\ Kept(ops, NewKinds) = SubSeq(b, 1, j - 1)
  /\ Len(Kept(ops, {"EQUAL"})) + T[i][j] = T[1][1]

\* The cells of a whole table.
LEMMA CellIs ==
  ASSUME NEW a \in Seq(DiffLines), NEW b \in Seq(DiffLines), NEW T, TableOf(T, a, b), Len(T) = Len(a) + 1
  PROVE  /\ \A i \in 1..(Len(a) + 1), j \in 1..(Len(b) + 1) : T[i][j] \in Nat
         /\ \A i \in 1..Len(a), j \in 1..Len(b) : T[i][j] = CellOf(a[i], b[j], T[i + 1][j + 1], T[i + 1][j], T[i][j + 1])
         /\ \A i \in 1..(Len(a) + 1) : T[i][Len(b) + 1] = 0
         /\ \A j \in 1..(Len(b) + 1) : T[Len(a) + 1][j] = 0
<1>0. Len(a) \in Nat /\ Len(b) \in Nat  OBVIOUS
<1>1. \A x \in 1..(Len(a) + 1), y \in 1..(Len(b) + 1) : T[x][y] \in Nat
  <2>1. T \in Seq([1..(Len(b) + 1) -> Nat])  BY DEF TableOf
  <2>2. \A x \in 1..(Len(a) + 1) : T[x] \in [1..(Len(b) + 1) -> Nat]  BY <2>1
  <2> QED BY <2>2
<1>2. ASSUME NEW i \in 1..Len(a), NEW j \in 1..Len(b)
      PROVE  T[i][j] = CellOf(a[i], b[j], T[i + 1][j + 1], T[i + 1][j], T[i][j + 1])
  <2>1. i \in 1..(Len(T) - 1) /\ Len(a) + 1 - Len(T) + i = i  BY <1>0
  <2>2. T[i][j] = CellOf(a[Len(a) + 1 - Len(T) + i], b[j], T[i + 1][j + 1], T[i + 1][j], T[i][j + 1])
    BY <2>1 DEF TableOf
  <2> QED BY <2>1, <2>2
<1> QED BY <1>1, <1>2 DEF TableOf

\* One more line of a text that has been walked.
LEMMA OneMore ==
  ASSUME NEW s \in Seq(DiffLines), NEW i \in 1..Len(s)
  PROVE  s[i] \in DiffLines /\ SubSeq(s, 1, (i + 1) - 1) = Append(SubSeq(s, 1, i - 1), s[i])
OBVIOUS

\* What an operation adds to each side.
LEMMA KeepsWhat ==
  ASSUME NEW s, NEW l
  PROVE  /\ KeepOne(s, Operation("EQUAL", l), OldKinds) = Append(s, l)
         /\ KeepOne(s, Operation("EQUAL", l), NewKinds) = Append(s, l)
         /\ KeepOne(s, Operation("EQUAL", l), {"EQUAL"}) = Append(s, l)
         /\ KeepOne(s, Operation("DELETE", l), OldKinds) = Append(s, l)
         /\ KeepOne(s, Operation("DELETE", l), NewKinds) = s
         /\ KeepOne(s, Operation("DELETE", l), {"EQUAL"}) = s
         /\ KeepOne(s, Operation("INSERT", l), OldKinds) = s
         /\ KeepOne(s, Operation("INSERT", l), NewKinds) = Append(s, l)
         /\ KeepOne(s, Operation("INSERT", l), {"EQUAL"}) = s
BY DEF KeepOne, Operation, OldKinds, NewKinds

\* The walk over a line both texts have,
LEMMA WalkEqual ==
  ASSUME NEW a \in Seq(DiffLines), NEW b \in Seq(DiffLines), NEW T, TableOf(T, a, b), NEW ops, NEW i, NEW j,
         WalkedAt(T, a, b, ops, i, j), i <= Len(a), j <= Len(b), a[i] = b[j]
  PROVE  WalkedAt(T, a, b, Append(ops, Operation("EQUAL", a[i])), i + 1, j + 1)
<1> DEFINE o == Operation("EQUAL", a[i])
           q == Append(ops, o)
           c == Kept(ops, {"EQUAL"})
<1>1. /\ Len(T) = Len(a) + 1 /\ i \in 1..Len(a) /\ j \in 1..Len(b) /\ ops \in Seq(Operations)
      /\ Len(a) \in Nat /\ Len(b) \in Nat
  BY DEF WalkedAt
<1>2. a[i] \in DiffLines /\ SubSeq(a, 1, (i + 1) - 1) = Append(SubSeq(a, 1, i - 1), a[i])  BY <1>1, OneMore
<1>3. SubSeq(b, 1, (j + 1) - 1) = Append(SubSeq(b, 1, j - 1), a[i])  BY <1>1, OneMore
<1>4. o \in Operations  BY <1>2 DEF Operation, Operations
<1> HIDE DEF o
<1>5. q \in Seq(Operations) /\ \A kinds : Kept(q, kinds) = KeepOne(Kept(ops, kinds), o, kinds)  BY <1>1, <1>4, KeptOn
<1> HIDE DEF q
<1>6. Kept(q, OldKinds) = SubSeq(a, 1, (i + 1) - 1)
  <2>1. Kept(q, OldKinds) = Append(Kept(ops, OldKinds), a[i])  BY <1>5, KeepsWhat DEF o
  <2> QED BY <1>2, <2>1 DEF WalkedAt
<1>7. Kept(q, NewKinds) = SubSeq(b, 1, (j + 1) - 1)
  <2>1. Kept(q, NewKinds) = Append(Kept(ops, NewKinds), a[i])  BY <1>5, KeepsWhat DEF o
  <2> QED BY <1>3, <2>1 DEF WalkedAt
<1>8. Len(Kept(q, {"EQUAL"})) = Len(c) + 1 /\ Len(c) \in Nat
  <2>1. Kept(q, {"EQUAL"}) = Append(c, a[i])  BY <1>5, KeepsWhat DEF o
  <2>2. c \in Seq(DiffLines)  BY <1>1, KeptCat
  <2> HIDE DEF c
  <2> QED BY <1>2, <2>1, <2>2
<1>9. T[i][j] = T[i + 1][j + 1] + 1 /\ T[i + 1][j + 1] \in Nat
  <2>1. T[i][j] = CellOf(a[i], b[j], T[i + 1][j + 1], T[i + 1][j], T[i][j + 1])  BY <1>1, CellIs
  <2>2. i + 1 \in 1..(Len(a) + 1) /\ j + 1 \in 1..(Len(b) + 1)  BY <1>1
  <2>3. T[i + 1][j + 1] \in Nat  BY <1>1, <2>2, CellIs
  <2> QED BY <2>1, <2>3 DEF CellOf
<1>10. Len(c) + T[i][j] = T[1][1]  BY DEF WalkedAt
<1> HIDE DEF c
<1>11. Len(Kept(q, {"EQUAL"})) + T[i + 1][j + 1] = T[1][1]
  <2>1. \A x, y \in Nat : x + (y + 1) = (x + 1) + y  OBVIOUS
  <2>2. Len(c) + (T[i + 1][j + 1] + 1) = (Len(c) + 1) + T[i + 1][j + 1]  BY ONLY <1>8, <1>9, <2>1, Zenon
  <2>3. Len(c) + (T[i + 1][j + 1] + 1) = T[1][1]  BY ONLY <1>9, <1>10, Zenon
  <2> QED BY ONLY <1>8, <2>2, <2>3, Zenon
<1>12. i + 1 \in 1..(Len(a) + 1) /\ j + 1 \in 1..(Len(b) + 1)  BY <1>1
<1>13. WalkedAt(T, a, b, q, i + 1, j + 1)  BY <1>1, <1>5, <1>6, <1>7, <1>11, <1>12 DEF WalkedAt
<1> QED BY <1>13 DEF q, o

\* over a line of the old text only,
LEMMA WalkDelete ==
  ASSUME NEW a \in Seq(DiffLines), NEW b \in Seq(DiffLines), NEW T, TableOf(T, a, b), NEW ops, NEW i, NEW j,
         WalkedAt(T, a, b, ops, i, j), i <= Len(a), ~(j <= Len(b) /\ a[i] = b[j]),
         j > Len(b) \/ T[i + 1][j] >= T[i][j + 1]
  PROVE  WalkedAt(T, a, b, Append(ops, Operation("DELETE", a[i])), i + 1, j)
<1> DEFINE o == Operation("DELETE", a[i])
           q == Append(ops, o)
           c == Kept(ops, {"EQUAL"})
<1>1. /\ Len(T) = Len(a) + 1 /\ i \in 1..Len(a) /\ j \in 1..(Len(b) + 1) /\ ops \in Seq(Operations)
      /\ Len(a) \in Nat /\ Len(b) \in Nat
  BY DEF WalkedAt
<1>2. a[i] \in DiffLines /\ SubSeq(a, 1, (i + 1) - 1) = Append(SubSeq(a, 1, i - 1), a[i])  BY <1>1, OneMore
<1>4. o \in Operations  BY <1>2 DEF Operation, Operations
<1> HIDE DEF o
<1>5. q \in Seq(Operations) /\ \A kinds : Kept(q, kinds) = KeepOne(Kept(ops, kinds), o, kinds)  BY <1>1, <1>4, KeptOn
<1> HIDE DEF q
<1>6. Kept(q, OldKinds) = SubSeq(a, 1, (i + 1) - 1)
  <2>1. Kept(q, OldKinds) = Append(Kept(ops, OldKinds), a[i])  BY <1>5, KeepsWhat DEF o
  <2> QED BY <1>2, <2>1 DEF WalkedAt
<1>7. Kept(q, NewKinds) = SubSeq(b, 1, j - 1)
  <2>1. Kept(q, NewKinds) = Kept(ops, NewKinds)  BY <1>5, KeepsWhat DEF o
  <2> QED BY <2>1 DEF WalkedAt
<1>8. Kept(q, {"EQUAL"}) = c  BY <1>5, KeepsWhat DEF o
<1>9. T[i][j] = T[i + 1][j]
  <2>0. i + 1 \in 1..(Len(a) + 1) /\ i \in 1..(Len(a) + 1)  BY <1>1
  <2>1. CASE j <= Len(b)
    <3>1. j \in 1..Len(b) /\ j + 1 \in 1..(Len(b) + 1)  BY <1>1, <2>1
    <3>2. T[i][j] = CellOf(a[i], b[j], T[i + 1][j + 1], T[i + 1][j], T[i][j + 1])  BY <1>1, <3>1, CellIs
    <3>3. T[i + 1][j] >= T[i][j + 1]  BY <1>1, <2>1
    <3> QED BY <2>1, <3>2, <3>3 DEF CellOf
  <2>2. CASE ~(j <= Len(b))
    <3>1. j = Len(b) + 1  BY <1>1, <2>2
    <3>2. T[i][Len(b) + 1] = 0 /\ T[i + 1][Len(b) + 1] = 0  BY <1>1, <2>0, CellIs
    <3> QED BY <3>1, <3>2
  <2> QED BY <2>1, <2>2
<1>10. Len(c) + T[i][j] = T[1][1]  BY DEF WalkedAt
<1>12. i + 1 \in 1..(Len(a) + 1)  BY <1>1
<1>13. WalkedAt(T, a, b, q, i + 1, j)  BY <1>1, <1>5, <1>6, <1>7, <1>8, <1>9, <1>10, <1>12 DEF WalkedAt
<1> QED BY <1>13 DEF q, o

\* and over a line of the new text only.
LEMMA WalkInsert ==
  ASSUME NEW a \in Seq(DiffLines), NEW b \in Seq(DiffLines), NEW T, TableOf(T, a, b), NEW ops, NEW i, NEW j,
         WalkedAt(T, a, b, ops, i, j), j <= Len(b), ~(i <= Len(a) /\ a[i] = b[j]),
         i > Len(a) \/ ~(T[i + 1][j] >= T[i][j + 1])
  PROVE  WalkedAt(T, a, b, Append(ops, Operation("INSERT", b[j])), i, j + 1)
<1> DEFINE o == Operation("INSERT", b[j])
           q == Append(ops, o)
           c == Kept(ops, {"EQUAL"})
<1>1. /\ Len(T) = Len(a) + 1 /\ i \in 1..(Len(a) + 1) /\ j \in 1..Len(b) /\ ops \in Seq(Operations)
      /\ Len(a) \in Nat /\ Len(b) \in Nat
  BY DEF WalkedAt
<1>2. b[j] \in DiffLines /\ SubSeq(b, 1, (j + 1) - 1) = Append(SubSeq(b, 1, j - 1), b[j])  BY <1>1, OneMore
<1>4. o \in Operations  BY <1>2 DEF Operation, Operations
<1> HIDE DEF o
<1>5. q \in Seq(Operations) /\ \A kinds : Kept(q, kinds) = KeepOne(Kept(ops, kinds), o, kinds)  BY <1>1, <1>4, KeptOn
<1> HIDE DEF q
<1>6. Kept(q, OldKinds) = SubSeq(a, 1, i - 1)
  <2>1. Kept(q, OldKinds) = Kept(ops, OldKinds)  BY <1>5, KeepsWhat DEF o
  <2> QED BY <2>1 DEF WalkedAt
<1>7. Kept(q, NewKinds) = SubSeq(b, 1, (j + 1) - 1)
  <2>1. Kept(q, NewKinds) = Append(Kept(ops, NewKinds), b[j])  BY <1>5, KeepsWhat DEF o
  <2> QED BY <1>2, <2>1 DEF WalkedAt
<1>8. Kept(q, {"EQUAL"}) = c  BY <1>5, KeepsWhat DEF o
<1>9. T[i][j] = T[i][j + 1]
  <2>0. j + 1 \in 1..(Len(b) + 1) /\ j \in 1..(Len(b) + 1)  BY <1>1
  <2>1. CASE i <= Len(a)
    <3>1. i \in 1..Len(a) /\ i + 1 \in 1..(Len(a) + 1)  BY <1>1, <2>1
    <3>2. T[i][j] = CellOf(a[i], b[j], T[i + 1][j + 1], T[i + 1][j], T[i][j + 1])
      <4>1. a \in Seq(DiffLines) /\ b \in Seq(DiffLines) /\ TableOf(T, a, b) /\ Len(T) = Len(a) + 1  BY <1>1
      <4>2. \A x \in 1..Len(a), y \in 1..Len(b) : T[x][y] = CellOf(a[x], b[y], T[x + 1][y + 1], T[x + 1][y], T[x][y + 1])
        BY ONLY <4>1, CellIs
      <4> QED BY ONLY <1>1, <3>1, <4>2, Zenon
    <3>3. ~(T[i + 1][j] >= T[i][j + 1])  BY <1>1, <2>1
    <3> QED BY <2>1, <3>2, <3>3 DEF CellOf
  <2>2. CASE ~(i <= Len(a))
    <3>1. i = Len(a) + 1  BY <1>1, <2>2
    <3>2. T[Len(a) + 1][j] = 0 /\ T[Len(a) + 1][j + 1] = 0  BY <1>1, <2>0, CellIs
    <3> QED BY <3>1, <3>2
  <2> QED BY <2>1, <2>2
<1>10. Len(c) + T[i][j] = T[1][1]  BY DEF WalkedAt
<1>12. j + 1 \in 1..(Len(b) + 1)  BY <1>1
<1>13. WalkedAt(T, a, b, q, i, j + 1)  BY <1>1, <1>5, <1>6, <1>7, <1>8, <1>9, <1>10, <1>12 DEF WalkedAt
<1> QED BY <1>13 DEF q, o

\* Where the work on two texts stands.
WorkOK(w) ==
  w \in [step : {"old", "new", "table", "walk", "done"}, a : Seq(DiffLines), b : Seq(DiffLines), prefix : Nat,
         suffix : Nat, table : Seq(Seq(Nat)), i : Nat, j : Nat, ops : Seq(Operations)]

MiddleOf(s, w) == SubSeq(s, w.prefix + 1, Len(s) - w.suffix)
Tabled(t, w) ==
  /\ CutAt(t.old, t.new, w.prefix, w.suffix) /\ TableOf(w.table, w.a, w.b)
  /\ w.a = MiddleOf(t.old, w) /\ w.b = MiddleOf(t.new, w)

Writing(w) == w.step \in {"old", "new"} /\ w.table = <<>> /\ w.ops = <<>> /\ w.i = 1 /\ w.j = 1
Filling(t, w) == w.step = "table" /\ Tabled(t, w) /\ w.ops = <<>> /\ w.i = 1 /\ w.j = 1
Walking(t, w) == w.step = "walk" /\ Tabled(t, w) /\ WalkedAt(w.table, w.a, w.b, w.ops, w.i, w.j)
WalkDone(t, w) ==
  /\ w.step = "done" /\ Tabled(t, w) /\ WalkedAt(w.table, w.a, w.b, w.ops, w.i, w.j)
  /\ w.i > Len(w.a) /\ w.j > Len(w.b)
Replaced(t, w) ==
  /\ w.step = "done" /\ w.table = <<>> /\ CutAt(t.old, t.new, w.prefix, w.suffix)
  /\ Kept(w.ops, OldKinds) = MiddleOf(t.old, w) /\ Kept(w.ops, NewKinds) = MiddleOf(t.new, w)

DiffInvOf(t, w) ==
  /\ TextsOK(t) /\ WorkOK(w)
  /\ Writing(w) \/ Filling(t, w) \/ Walking(t, w) \/ WalkDone(t, w) \/ Replaced(t, w)

DiffInv == DiffInvOf(texts, work)

\* Two empty texts satisfy the invariant.
LEMMA DiffStarts == DiffInit => DiffInv
<1> SUFFICES ASSUME DiffInit PROVE DiffInvOf(texts, work)  BY DEF DiffInv
<1>1. <<>> \in Seq(DiffLines) /\ <<>> \in Seq(Seq(Nat)) /\ <<>> \in Seq(Operations)  OBVIOUS
<1>2. TextsOK(texts)  BY <1>1 DEF DiffInit, TextsOK
<1>3. WorkOK(work) /\ Writing(work)  BY <1>1 DEF DiffInit, WorkOK, Writing
<1> QED BY <1>2, <1>3 DEF DiffInvOf

\* A text gets another line, or is done.
LEMMA DiffWrites == DiffInv /\ (OtherText \/ \E l \in DiffLines : AppendLine(l)) => DiffInv'
<1>1. ASSUME DiffInv, OtherText PROVE DiffInvOf(texts', work')
  <2>1. TextsOK(texts) /\ WorkOK(work) /\ work.step = "old"  BY <1>1 DEF DiffInv, DiffInvOf, OtherText
  <2>2. Writing(work)
    BY <1>1, <2>1 DEF DiffInv, DiffInvOf, Filling, Walking, WalkDone, Replaced
  <2>3. work' = [work EXCEPT !.step = "new"] /\ texts' = texts  BY <1>1 DEF OtherText
  <2>4. WorkOK(work')  BY <2>1, <2>3 DEF WorkOK
  <2>5. Writing(work')  BY <2>1, <2>2, <2>3 DEF WorkOK, Writing
  <2> QED BY <2>1, <2>3, <2>4, <2>5 DEF DiffInvOf
<1>2. ASSUME DiffInv, NEW l \in DiffLines, AppendLine(l) PROVE DiffInvOf(texts', work')
  <2>1. TextsOK(texts) /\ WorkOK(work) /\ work.step \in {"old", "new"} /\ work' = work
    BY <1>2 DEF DiffInv, DiffInvOf, AppendLine
  <2>2. Writing(work)
    BY <1>2, <2>1 DEF DiffInv, DiffInvOf, Filling, Walking, WalkDone, Replaced
  <2>3. texts' = [texts EXCEPT ![work.step] = Append(texts[work.step], l)]  BY <1>2 DEF AppendLine
  <2>4. texts.old \in Seq(DiffLines) /\ texts.new \in Seq(DiffLines)  BY <2>1 DEF TextsOK
  <2>5. TextsOK(texts')
    <3>1. CASE work.step = "old"
      <4>1. Append(texts.old, l) \in Seq(DiffLines)  BY <2>4
      <4>2. texts' = [texts EXCEPT !.old = Append(texts.old, l)]  BY <2>3, <3>1
      <4> QED BY <2>1, <4>1, <4>2 DEF TextsOK
    <3>2. CASE work.step = "new"
      <4>1. Append(texts.new, l) \in Seq(DiffLines)  BY <2>4
      <4>2. texts' = [texts EXCEPT !.new = Append(texts.new, l)]  BY <2>3, <3>2
      <4> QED BY <2>1, <4>1, <4>2 DEF TextsOK
    <3> QED BY <2>1, <3>1, <3>2
  <2> QED BY <2>1, <2>2, <2>5 DEF DiffInvOf
<1> QED BY <1>1, <1>2 DEF DiffInv

\* Trim leaves the first row of a table, or both middles as a whole.
LEMMA DiffTrims == DiffInv /\ Trim => DiffInv'
<1> SUFFICES ASSUME DiffInv, Trim PROVE DiffInvOf(texts', work')  BY DEF DiffInv
<1> DEFINE o == texts.old
           n == texts.new
           p == Prefix
           s == Suffix(p)
           a == SubSeq(o, p + 1, Len(o) - s)
           b == SubSeq(n, p + 1, Len(n) - s)
           z == [j \in 1..(Len(b) + 1) |-> 0]
           r == Each("DELETE", a) \o Each("INSERT", b)
<1>1. TextsOK(texts) /\ WorkOK(work) /\ work.step = "new" /\ texts' = texts  BY DEF DiffInv, DiffInvOf, Trim
<1>2. Writing(work)
  BY <1>1 DEF DiffInv, DiffInvOf, Filling, Walking, WalkDone, Replaced
<1>3. work' = IF (Len(a) + 1) * (Len(b) + 1) > MaxTable
              THEN [work EXCEPT !.step = "done", !.prefix = p, !.suffix = s, !.ops = r]
              ELSE [work EXCEPT !.step = "table", !.a = a, !.b = b, !.prefix = p, !.suffix = s, !.table = <<z>>]
  BY DEF Trim, Old, New
<1>4. CutAt(o, n, p, s)  BY <1>1, CutIs DEF Old, New
<1>5. o \in Seq(DiffLines) /\ n \in Seq(DiffLines)  BY <1>1 DEF TextsOK
<1> HIDE DEF o, n, p, s
<1>6. p \in Nat /\ s \in Nat /\ p + s <= Len(o) /\ p + s <= Len(n)  BY <1>4 DEF CutAt
<1>7. a \in Seq(DiffLines) /\ b \in Seq(DiffLines)  BY <1>5, <1>6, InThree
<1>8. TableOf(<<z>>, a, b)
  <2> HIDE DEF a, b
  <2> QED BY <1>7, TableStarts
<1>9. <<z>> \in Seq(Seq(Nat))
  <2> HIDE DEF b
  <2>1. z \in Seq(Nat)  BY <1>7
  <2> HIDE DEF z
  <2> QED BY <2>1
<1> HIDE DEF a, b
<1>10. r \in Seq(Operations) /\ Kept(r, OldKinds) = a /\ Kept(r, NewKinds) = b
  <2>1. /\ Each("DELETE", a) \in Seq(Operations) /\ Each("INSERT", b) \in Seq(Operations)
        /\ Kept(Each("DELETE", a), OldKinds) = a /\ Kept(Each("DELETE", a), NewKinds) = <<>>
        /\ Kept(Each("INSERT", b), OldKinds) = <<>> /\ Kept(Each("INSERT", b), NewKinds) = b
    <3>1. "DELETE" \in OldKinds /\ "DELETE" \notin NewKinds /\ "INSERT" \notin OldKinds /\ "INSERT" \in NewKinds
      BY DEF OldKinds, NewKinds
    <3> QED BY <1>7, <3>1, KeptEach
  <2>2. r \in Seq(Operations) /\ \A k : Kept(r, k) = Kept(Each("DELETE", a), k) \o Kept(Each("INSERT", b), k)
    BY <2>1, KeptCat, SMTT(30)
  <2>3. a \o <<>> = a /\ <<>> \o b = b  BY <1>7
  <2> HIDE DEF r
  <2> QED BY <2>1, <2>2, <2>3
<1> HIDE DEF r, z
<1>11. CASE (Len(a) + 1) * (Len(b) + 1) > MaxTable
  <2>1. work' = [work EXCEPT !.step = "done", !.prefix = p, !.suffix = s, !.ops = r]  BY <1>3, <1>11
  <2>2. WorkOK(work')  BY <1>1, <1>6, <1>10, <2>1 DEF WorkOK
  <2>3. work'.step = "done" /\ work'.prefix = p /\ work'.suffix = s /\ work'.ops = r /\ work'.table = <<>>
    BY <1>1, <1>2, <2>1 DEF WorkOK, Writing
  <2>4. MiddleOf(o, work') = a /\ MiddleOf(n, work') = b  BY <2>3 DEF MiddleOf, a, b
  <2>5. Replaced(texts', work')  BY <1>1, <1>4, <1>10, <2>3, <2>4 DEF Replaced, o, n
  <2> QED BY <1>1, <2>2, <2>5 DEF DiffInvOf
<1>12. CASE ~((Len(a) + 1) * (Len(b) + 1) > MaxTable)
  <2>1. work' = [work EXCEPT !.step = "table", !.a = a, !.b = b, !.prefix = p, !.suffix = s, !.table = <<z>>]
    BY <1>3, <1>12
  <2>2. WorkOK(work')  BY <1>1, <1>6, <1>7, <1>9, <2>1 DEF WorkOK
  <2>3. /\ work'.step = "table" /\ work'.prefix = p /\ work'.suffix = s /\ work'.a = a /\ work'.b = b
        /\ work'.table = <<z>> /\ work'.ops = <<>> /\ work'.i = 1 /\ work'.j = 1
    BY <1>1, <1>2, <2>1 DEF WorkOK, Writing
  <2>4. MiddleOf(o, work') = a /\ MiddleOf(n, work') = b  BY <2>3 DEF MiddleOf, a, b
  <2>5. Tabled(texts', work')  BY <1>1, <1>4, <1>8, <2>3, <2>4 DEF Tabled, o, n
  <2>6. Filling(texts', work')  BY <2>3, <2>5 DEF Filling
  <2> QED BY <1>1, <2>2, <2>6 DEF DiffInvOf
<1> QED BY <1>11, <1>12

\* Nothing has been kept of no operations.
LEMMA KeptNothing ==
  ASSUME NEW kinds
  PROVE  Kept(<<>>, kinds) = <<>>
<1> DEFINE q == <<>>
<1>1. q \in Seq(Operations) /\ Len(q) = 0  OBVIOUS
<1> HIDE DEF q
<1>2. Keeping(q, kinds)[0] = <<>>  BY <1>1, KeepingIs
<1>3. Kept(q, kinds) = <<>>  BY <1>1, <1>2 DEF Kept
<1> QED BY <1>3 DEF q

\* A row more, or the table is whole and the walk begins.
LEMMA DiffFills == DiffInv /\ FillRow => DiffInv'
<1> SUFFICES ASSUME DiffInv, FillRow PROVE DiffInvOf(texts', work')  BY DEF DiffInv
<1> DEFINE a == work.a
           b == work.b
           T == work.table
           row == Row(a[Len(a) + 1 - Len(T)], b, T[1])
<1>1. TextsOK(texts) /\ WorkOK(work) /\ work.step = "table" /\ texts' = texts  BY DEF DiffInv, DiffInvOf, FillRow
<1>2. Tabled(texts, work) /\ work.ops = <<>> /\ work.i = 1 /\ work.j = 1
  BY <1>1 DEF DiffInv, DiffInvOf, Writing, Filling, Walking, WalkDone, Replaced
<1>3. work' = IF Len(T) > Len(a) THEN [work EXCEPT !.step = "walk"] ELSE [work EXCEPT !.table = <<row>> \o T]
  BY DEF FillRow
<1>4. a \in Seq(DiffLines) /\ b \in Seq(DiffLines) /\ T \in Seq(Seq(Nat)) /\ Len(a) \in Nat /\ Len(b) \in Nat
  BY <1>1 DEF WorkOK
<1>5. TableOf(T, a, b)  BY <1>2 DEF Tabled
<1>6. CASE Len(T) > Len(a)
  <2>1. work' = [work EXCEPT !.step = "walk"]  BY <1>3, <1>6
  <2>2. WorkOK(work')  BY <1>1, <2>1 DEF WorkOK
  <2>3. /\ work'.step = "walk" /\ work'.a = a /\ work'.b = b /\ work'.table = T /\ work'.ops = <<>> /\ work'.i = 1 /\ work'.j = 1
        /\ work'.prefix = work.prefix /\ work'.suffix = work.suffix
    BY <1>1, <1>2, <2>1 DEF WorkOK
  <2>4. Tabled(texts', work')  BY <1>1, <1>2, <2>3 DEF Tabled, MiddleOf
  <2>5. WalkedAt(T, a, b, <<>>, 1, 1)
    <3> HIDE DEF a, b, T
    <3>1. Len(T) = Len(a) + 1  BY <1>4, <1>5, <1>6 DEF TableOf
    <3>2. 1 \in 1..(Len(a) + 1) /\ 1 \in 1..(Len(b) + 1)  BY <1>4
    <3>3. T[1][1] \in Nat  BY <1>4, <1>5, <3>1, <3>2, CellIs
    <3>4. \A k : Kept(<<>>, k) = <<>>  BY KeptNothing
    <3>5. SubSeq(a, 1, 1 - 1) = <<>> /\ SubSeq(b, 1, 1 - 1) = <<>> /\ <<>> \in Seq(Operations) /\ Len(<<>>) = 0  BY <1>4
    <3>6. 0 + T[1][1] = T[1][1]  BY <3>3
    <3>7. Len(Kept(<<>>, {"EQUAL"})) + T[1][1] = T[1][1]  BY <3>4, <3>5, <3>6
    <3> QED BY <3>1, <3>2, <3>4, <3>5, <3>7 DEF WalkedAt
  <2>6. Walking(texts', work')  BY <2>3, <2>4, <2>5 DEF Walking
  <2> QED BY <1>1, <2>2, <2>6 DEF DiffInvOf
<1>7. CASE ~(Len(T) > Len(a))
  <2> DEFINE U == <<row>> \o T
  <2>1. work' = [work EXCEPT !.table = U]  BY <1>3, <1>7
  <2>2. TableOf(U, a, b)
    <3> HIDE DEF a, b, T
    <3>1. Len(T) <= Len(a)  BY <1>4, <1>7
    <3> QED BY <1>4, <1>5, <3>1, TableGrows
  <2>3. U \in Seq(Seq(Nat))
    <3> HIDE DEF a, b, T
    <3>1. T[1] \in [1..(Len(b) + 1) -> Nat]
      <4>1. T \in Seq([1..(Len(b) + 1) -> Nat]) /\ 1 \in 1..Len(T)  BY <1>4, <1>5 DEF TableOf
      <4> QED BY <4>1
    <3>2. row \in [1..(Len(b) + 1) -> Nat]  BY <1>4, <3>1, RowIs
    <3> HIDE DEF row
    <3>3. Len(b) + 1 \in Nat  BY <1>4
    <3>4. row \in Seq(Nat)  BY <3>2, <3>3
    <3> QED BY <1>4, <3>4
  <2> HIDE DEF U
  <2>4. WorkOK(work')  BY <1>1, <2>1, <2>3 DEF WorkOK
  <2>5. /\ work'.step = "table" /\ work'.a = a /\ work'.b = b /\ work'.table = U /\ work'.ops = <<>> /\ work'.i = 1 /\ work'.j = 1
        /\ work'.prefix = work.prefix /\ work'.suffix = work.suffix
    BY <1>1, <1>2, <2>1 DEF WorkOK
  <2>6. Tabled(texts', work')  BY <1>1, <1>2, <2>2, <2>5 DEF Tabled, MiddleOf
  <2>7. Filling(texts', work')  BY <2>5, <2>6 DEF Filling
  <2> QED BY <1>1, <2>4, <2>7 DEF DiffInvOf
<1> QED BY <1>6, <1>7

\* The walk writes an operation or is at the end of both texts.
LEMMA DiffWalks == DiffInv /\ Walk => DiffInv'
<1> SUFFICES ASSUME DiffInv, Walk PROVE DiffInvOf(texts', work')  BY DEF DiffInv
<1> DEFINE a == work.a
           b == work.b
           T == work.table
           i == work.i
           j == work.j
           ops == work.ops
           E == [work EXCEPT !.ops = Append(ops, Operation("EQUAL", a[i])), !.i = i + 1, !.j = j + 1]
           D == [work EXCEPT !.ops = Append(ops, Operation("DELETE", a[i])), !.i = i + 1]
           I == [work EXCEPT !.ops = Append(ops, Operation("INSERT", b[j])), !.j = j + 1]
<1>1. TextsOK(texts) /\ WorkOK(work) /\ work.step = "walk" /\ texts' = texts  BY DEF DiffInv, DiffInvOf, Walk
<1>2. Tabled(texts, work) /\ WalkedAt(T, a, b, ops, i, j)
  BY <1>1 DEF DiffInv, DiffInvOf, Writing, Filling, Walking, WalkDone, Replaced
<1>3. work' = IF ~(i <= Len(a)) /\ j > Len(b) THEN [work EXCEPT !.step = "done"]
              ELSE IF (i <= Len(a) /\ j <= Len(b)) /\ a[i] = b[j] THEN E
              ELSE IF i <= Len(a) /\ DeleteFirst THEN D
              ELSE IF j <= Len(b) THEN I
              ELSE [work EXCEPT !.step = "threw"]
  BY DEF Walk
<1>4. DeleteFirst <=> (j > Len(b) \/ T[i + 1][j] >= T[i][j + 1])  BY DEF DeleteFirst
<1>5. /\ a \in Seq(DiffLines) /\ b \in Seq(DiffLines) /\ ops \in Seq(Operations) /\ i \in Nat /\ j \in Nat
      /\ Len(a) \in Nat /\ Len(b) \in Nat
  BY <1>1 DEF WorkOK
<1>6. TableOf(T, a, b)  BY <1>2 DEF Tabled
\* A step of the walk changes the operations and the two places.
<1>7. ASSUME NEW q, NEW x \in Nat, NEW y \in Nat, WalkedAt(T, a, b, q, x, y), work' = [work EXCEPT !.ops = q, !.i = x, !.j = y]
      PROVE  DiffInvOf(texts', work')
  <2>1. q \in Seq(Operations)  BY <1>7 DEF WalkedAt
  <2>2. WorkOK(work')  BY <1>1, <1>7, <2>1 DEF WorkOK
  <2>3. /\ work'.step = "walk" /\ work'.a = a /\ work'.b = b /\ work'.table = T /\ work'.ops = q /\ work'.i = x /\ work'.j = y
        /\ work'.prefix = work.prefix /\ work'.suffix = work.suffix
    BY <1>1, <1>7 DEF WorkOK
  <2>4. Tabled(texts', work')  BY <1>1, <1>2, <2>3 DEF Tabled, MiddleOf
  <2>5. Walking(texts', work')  BY <1>7, <2>3, <2>4 DEF Walking
  <2> QED BY <1>1, <2>2, <2>5 DEF DiffInvOf
<1>8. CASE ~(i <= Len(a)) /\ j > Len(b)
  <2>1. work' = [work EXCEPT !.step = "done"]  BY <1>3, <1>8
  <2>2. WorkOK(work')  BY <1>1, <2>1 DEF WorkOK
  <2>3. /\ work'.step = "done" /\ work'.a = a /\ work'.b = b /\ work'.table = T /\ work'.ops = ops /\ work'.i = i /\ work'.j = j
        /\ work'.prefix = work.prefix /\ work'.suffix = work.suffix
    BY <1>1, <2>1 DEF WorkOK
  <2>4. Tabled(texts', work')  BY <1>1, <1>2, <2>3 DEF Tabled, MiddleOf
  <2>5. i > Len(a)  BY <1>5, <1>8
  <2>6. WalkDone(texts', work')  BY <1>2, <1>8, <2>3, <2>4, <2>5 DEF WalkDone
  <2> QED BY <1>1, <2>2, <2>6 DEF DiffInvOf
<1>9. CASE i <= Len(a) /\ j <= Len(b) /\ a[i] = b[j]
  <2>1. work' = E
    <3>1. ~(~(i <= Len(a)) /\ j > Len(b))  BY <1>9
    <3> HIDE DEF E, D, I, a, b, i, j
    <3> QED BY <1>3, <1>9, <3>1
  <2>2. WalkedAt(T, a, b, Append(ops, Operation("EQUAL", a[i])), i + 1, j + 1)
    <3> HIDE DEF a, b, i, j, T, ops
    <3> QED BY <1>2, <1>5, <1>6, <1>9, WalkEqual
  <2>3. i + 1 \in Nat /\ j + 1 \in Nat  BY <1>5
  <2> QED BY <1>7, <2>1, <2>2, <2>3
<1>10. CASE i <= Len(a) /\ ~(j <= Len(b) /\ a[i] = b[j]) /\ DeleteFirst
  <2>1. work' = D
    <3> HIDE DEF E, D, I, a, b, i, j
    <3> QED BY <1>3, <1>10
  <2>2. WalkedAt(T, a, b, Append(ops, Operation("DELETE", a[i])), i + 1, j)
    <3> HIDE DEF a, b, i, j, T, ops
    <3> QED BY <1>2, <1>4, <1>5, <1>6, <1>10, WalkDelete
  <2>3. i + 1 \in Nat  BY <1>5
  <2>4. D = [work EXCEPT !.ops = Append(ops, Operation("DELETE", a[i])), !.i = i + 1, !.j = j]  BY <1>1 DEF WorkOK
  <2> QED BY <1>5, <1>7, <2>1, <2>2, <2>3, <2>4
<1>11. CASE j <= Len(b) /\ ~(i <= Len(a) /\ a[i] = b[j]) /\ ~(i <= Len(a) /\ DeleteFirst)
  <2>1. work' = I
    <3>1. ~(j > Len(b))  BY <1>5, <1>11
    <3> HIDE DEF E, D, I, a, b, i, j
    <3> QED BY <1>3, <1>11, <3>1
  <2>2. WalkedAt(T, a, b, Append(ops, Operation("INSERT", b[j])), i, j + 1)
    <3> HIDE DEF a, b, i, j, T, ops
    <3>1. i > Len(a) \/ ~(T[i + 1][j] >= T[i][j + 1])  BY <1>4, <1>5, <1>11
    <3> QED BY <1>2, <1>5, <1>6, <1>11, <3>1, WalkInsert
  <2>3. j + 1 \in Nat  BY <1>5
  <2>4. I = [work EXCEPT !.ops = Append(ops, Operation("INSERT", b[j])), !.i = i, !.j = j + 1]  BY <1>1 DEF WorkOK
  <2> QED BY <1>5, <1>7, <2>1, <2>2, <2>3, <2>4
<1>12. j > Len(b) => DeleteFirst  BY <1>4
<1>13. j <= Len(b) \/ j > Len(b)
  <2> HIDE DEF j, b
  <2> QED BY <1>5
<1> QED BY <1>8, <1>9, <1>10, <1>11, <1>12, <1>13

\* The inductive step.
LEMMA DiffSteps == DiffInv /\ [DiffNext]_diffVars => DiffInv'
<1>1. ASSUME DiffInv, UNCHANGED diffVars PROVE DiffInv'  BY <1>1 DEF DiffInv, diffVars
<1> QED BY <1>1, DiffWrites, DiffTrims, DiffFills, DiffWalks DEF DiffNext

\* What has been written once the diff is done.
DoneWith(o, n, w) ==
  /\ o \in Seq(DiffLines) /\ n \in Seq(DiffLines) /\ w.ops \in Seq(Operations) /\ CutAt(o, n, w.prefix, w.suffix)
  /\ Kept(w.ops, OldKinds) = MiddleOf(o, w) /\ Kept(w.ops, NewKinds) = MiddleOf(n, w)

\* A finished diff, by either way, has written both middles.
LEMMA DoneIs == DiffInv /\ work.step = "done" => DoneWith(Old, New, work)
<1> SUFFICES ASSUME DiffInv, work.step = "done" PROVE DoneWith(Old, New, work)  OBVIOUS
<1>1. TextsOK(texts) /\ WorkOK(work)  BY DEF DiffInv, DiffInvOf
<1>2. Old \in Seq(DiffLines) /\ New \in Seq(DiffLines) /\ work.ops \in Seq(Operations)  BY <1>1 DEF TextsOK, WorkOK, Old, New
<1>3. WalkDone(texts, work) \/ Replaced(texts, work)
  BY DEF DiffInv, DiffInvOf, Writing, Filling, Walking
<1>4. CASE Replaced(texts, work)  BY <1>2, <1>4 DEF Replaced, DoneWith, Old, New
<1>5. CASE WalkDone(texts, work)
  <2> DEFINE a == work.a
             b == work.b
             i == work.i
             j == work.j
  <2>1. a \in Seq(DiffLines) /\ b \in Seq(DiffLines) /\ Len(a) \in Nat /\ Len(b) \in Nat  BY <1>1 DEF WorkOK
  <2>2. /\ CutAt(Old, New, work.prefix, work.suffix) /\ a = MiddleOf(Old, work) /\ b = MiddleOf(New, work)
        /\ WalkedAt(work.table, a, b, work.ops, i, j) /\ i > Len(a) /\ j > Len(b)
    BY <1>5 DEF WalkDone, Tabled, Old, New
  <2> HIDE DEF a, b, i, j
  <2>3. i \in 1..(Len(a) + 1) /\ j \in 1..(Len(b) + 1)
        /\ Kept(work.ops, OldKinds) = SubSeq(a, 1, i - 1) /\ Kept(work.ops, NewKinds) = SubSeq(b, 1, j - 1)
    BY <2>2 DEF WalkedAt
  <2>4. i - 1 = Len(a) /\ j - 1 = Len(b)  BY <2>1, <2>2, <2>3
  <2>5. SubSeq(a, 1, Len(a)) = a /\ SubSeq(b, 1, Len(b)) = b  BY <2>1
  <2> QED BY <1>2, <2>2, <2>3, <2>4, <2>5 DEF DoneWith
<1> QED BY <1>3, <1>4, <1>5

\* The operations of a finished diff, by the kinds that are looked at.
LEMMA LineOperationsAre ==
  ASSUME DoneWith(Old, New, work), NEW kinds
  PROVE  /\ LineOperations \in Seq(Operations)
         /\ "EQUAL" \in kinds =>
              Kept(LineOperations, kinds) = (SubSeq(Old, 1, work.prefix) \o Kept(work.ops, kinds))
                                              \o SubSeq(Old, Len(Old) - work.suffix + 1, Len(Old))
<1> DEFINE p == SubSeq(Old, 1, work.prefix)
           s == SubSeq(Old, Len(Old) - work.suffix + 1, Len(Old))
           e == Each("EQUAL", p)
           f == Each("EQUAL", s)
           ops == work.ops
<1>1. p \in Seq(DiffLines) /\ s \in Seq(DiffLines) /\ ops \in Seq(Operations)
  <2>1. Old \in Seq(DiffLines) /\ ops \in Seq(Operations)  BY DEF DoneWith
  <2>2. work.prefix \in Nat /\ work.suffix \in Nat /\ work.prefix + work.suffix <= Len(Old)  BY DEF DoneWith, CutAt
  <2> QED BY <2>1, <2>2, InThree
<1>2. LineOperations = (e \o ops) \o f  BY DEF LineOperations
<1> HIDE DEF p, s, ops
<1>3. e \in Seq(Operations) /\ f \in Seq(Operations)  BY <1>1, KeptEach
<1>4. "EQUAL" \in kinds => Kept(e, kinds) = p /\ Kept(f, kinds) = s  BY <1>1, KeptEach
<1> HIDE DEF e, f
<1>5. JoinsThree(e, ops, f, kinds)  BY <1>1, <1>3, KeptThree
<1>6. LineOperations \in Seq(Operations) /\ Kept(LineOperations, kinds) = (Kept(e, kinds) \o Kept(ops, kinds)) \o Kept(f, kinds)
  BY ONLY <1>2, <1>5, Zenon DEF JoinsThree
<1> QED BY ONLY <1>4, <1>6, Zenon DEF p, s, ops

\* The operations are the two texts.
LEMMA SidesAre ==
  ASSUME DoneWith(Old, New, work)
  PROVE  LineOperations \in Seq(Operations) /\ OldSide(LineOperations) = Old /\ NewSide(LineOperations) = New
<1>1. /\ Old \in Seq(DiffLines) /\ New \in Seq(DiffLines) /\ CutAt(Old, New, work.prefix, work.suffix)
      /\ Kept(work.ops, OldKinds) = MiddleOf(Old, work) /\ Kept(work.ops, NewKinds) = MiddleOf(New, work)
  BY DEF DoneWith
<1>2. work.prefix \in Nat /\ work.suffix \in Nat /\ work.prefix + work.suffix <= Len(Old) /\ work.prefix + work.suffix <= Len(New)
  BY <1>1 DEF CutAt
<1>3. "EQUAL" \in OldKinds /\ "EQUAL" \in NewKinds  BY DEF OldKinds, NewKinds
<1>4. Old = (SubSeq(Old, 1, work.prefix) \o MiddleOf(Old, work)) \o SubSeq(Old, Len(Old) - work.suffix + 1, Len(Old))
  <2> DEFINE o == Old
             p == work.prefix
             s == work.suffix
  <2>1. o \in Seq(DiffLines) /\ p \in Nat /\ s \in Nat /\ p + s <= Len(o)  BY <1>1, <1>2
  <2> HIDE DEF o, p, s
  <2>2. o = (SubSeq(o, 1, p) \o SubSeq(o, p + 1, Len(o) - s)) \o SubSeq(o, Len(o) - s + 1, Len(o))  BY ONLY <2>1, WholeIs, Zenon
  <2> QED BY ONLY <2>2, Zenon DEF MiddleOf, o, p, s
<1>5. New = (SubSeq(New, 1, work.prefix) \o MiddleOf(New, work)) \o SubSeq(New, Len(New) - work.suffix + 1, Len(New))
  <2> DEFINE o == New
             p == work.prefix
             s == work.suffix
  <2>1. o \in Seq(DiffLines) /\ p \in Nat /\ s \in Nat /\ p + s <= Len(o)  BY <1>1, <1>2
  <2> HIDE DEF o, p, s
  <2>2. o = (SubSeq(o, 1, p) \o SubSeq(o, p + 1, Len(o) - s)) \o SubSeq(o, Len(o) - s + 1, Len(o))  BY ONLY <2>1, WholeIs, Zenon
  <2> QED BY ONLY <2>2, Zenon DEF MiddleOf, o, p, s
<1>6. /\ SubSeq(Old, 1, work.prefix) = SubSeq(New, 1, work.prefix)
      /\ SubSeq(Old, Len(Old) - work.suffix + 1, Len(Old)) = SubSeq(New, Len(New) - work.suffix + 1, Len(New))
  BY <1>1 DEF CutAt
<1>7. /\ LineOperations \in Seq(Operations)
      /\ Kept(LineOperations, OldKinds) = (SubSeq(Old, 1, work.prefix) \o Kept(work.ops, OldKinds))
                                            \o SubSeq(Old, Len(Old) - work.suffix + 1, Len(Old))
      /\ Kept(LineOperations, NewKinds) = (SubSeq(Old, 1, work.prefix) \o Kept(work.ops, NewKinds))
                                            \o SubSeq(Old, Len(Old) - work.suffix + 1, Len(Old))
  BY <1>3, LineOperationsAre
<1>8. OldSide(LineOperations) = Kept(LineOperations, OldKinds) /\ NewSide(LineOperations) = Kept(LineOperations, NewKinds)
  BY DEF OldSide, NewSide, OldKinds, NewKinds
<1>9. OldSide(LineOperations) = Old  BY ONLY <1>1, <1>4, <1>7, <1>8, Zenon
<1>10. NewSide(LineOperations) = New  BY ONLY <1>1, <1>5, <1>6, <1>7, <1>8, Zenon
<1> QED BY <1>7, <1>9, <1>10

\* The first part of DiffIsExact.
LEMMA Reproduces == DiffInv => DiffReproduces
<1>1. DiffInv => work.step # "threw"  BY DEF DiffInv, DiffInvOf, WorkOK
<1> QED BY <1>1, DoneIs, SidesAre DEF DiffReproduces

\* The places of an ascending choice leave room before and behind.
LEMMA Ascending ==
  ASSUME NEW N \in Nat, NEW c \in Nat, NEW f \in [1..c -> 1..N], \A k, m \in 1..c : k < m => f[k] < f[m]
  PROVE  \A k \in 1..c : k <= f[k] /\ f[k] <= N - (c - k)
<1> DEFINE G == {k \in 0..c : k > 0 => k <= f[k]}
           H == {k \in 0..c : k < c => f[c - k] <= N - k}
<1>1. 0 \in G /\ 0 \in H
  <2>1. 0 \in G  OBVIOUS
  <2>2. 0 < c => c \in 1..c /\ c - 0 = c  OBVIOUS
  <2> QED BY <2>1, <2>2
<1>2. ASSUME NEW i \in 0..(c - 1), i \in G PROVE i + 1 \in G
  <2>1. i + 1 \in 1..c /\ i + 1 \in 0..c /\ f[i + 1] \in 1..N  OBVIOUS
  <2>2. CASE i = 0  BY <2>1, <2>2
  <2>3. CASE i > 0
    <3>1. i \in 1..c /\ i < i + 1 /\ f[i] \in 1..N /\ i <= f[i]  BY <1>2, <2>3
    <3>2. f[i] < f[i + 1]  BY <2>1, <3>1
    <3>3. i + 1 <= f[i + 1]  BY <2>1, <3>1, <3>2
    <3> QED BY <2>1, <3>3
  <2> QED BY <2>2, <2>3
<1>3. ASSUME NEW i \in 0..(c - 1), i \in H PROVE i + 1 \in H
  <2>1. i + 1 \in 0..c  OBVIOUS
  <2>2. CASE i + 1 < c
    <3>1. c - (i + 1) \in 1..c /\ c - i \in 1..c /\ c - (i + 1) < c - i  BY <2>2
    <3>2. f[c - (i + 1)] < f[c - i] /\ f[c - i] <= N - i  BY <1>3, <2>2, <3>1
    <3>3. f[c - (i + 1)] \in 1..N /\ f[c - i] \in 1..N  BY <3>1
    <3>4. f[c - (i + 1)] <= N - (i + 1)  BY <3>2, <3>3
    <3> QED BY <2>1, <3>4
  <2>3. CASE ~(i + 1 < c)  BY <2>1, <2>3
  <2> QED BY <2>2, <2>3
<1>4. \A k \in 0..c : k \in G
  <2> HIDE DEF G
  <2> QED BY <1>1, <1>2, UpTo
<1>5. \A k \in 0..c : k \in H
  <2> HIDE DEF H
  <2> QED BY <1>1, <1>3, UpTo
<1>6. ASSUME NEW k \in 1..c PROVE k <= f[k] /\ f[k] <= N - (c - k)
  <2>1. k \in 0..c /\ k > 0 /\ c - k \in 0..c /\ c - k < c /\ c - (c - k) = k  OBVIOUS
  <2>2. k <= f[k]  BY <1>4, <2>1
  <2>3. f[c - (c - k)] <= N - (c - k)  BY <1>5, <2>1
  <2> QED BY <2>1, <2>2, <2>3
<1> QED BY <1>6

\* What two texts have in common, without as much at both ends as was cut off, is common to the
\* middles.
LEMMA CommonMiddle ==
  ASSUME NEW o \in Seq(DiffLines), NEW n \in Seq(DiffLines), NEW p, NEW s, CutAt(o, n, p, s), NEW c \in Nat, p + s <= c,
         NEW f, NEW g, Aligned(f, g, o, n, 1, 1, c)
  PROVE  \E u, v : Aligned(u, v, SubSeq(o, p + 1, Len(o) - s), SubSeq(n, p + 1, Len(n) - s), 1, 1, c - (p + s))
<1> DEFINE a == SubSeq(o, p + 1, Len(o) - s)
           b == SubSeq(n, p + 1, Len(n) - s)
           d == c - (p + s)
           u == [k \in 1..d |-> f[p + k] - p]
           v == [k \in 1..d |-> g[p + k] - p]
<1>1. p \in Nat /\ s \in Nat /\ p + s <= Len(o) /\ p + s <= Len(n) /\ Len(o) \in Nat /\ Len(n) \in Nat /\ d \in Nat
  BY DEF CutAt
<1>2. /\ a \in Seq(DiffLines) /\ Len(a) = Len(o) - s - p /\ \A k \in 1..(Len(o) - s - p) : a[k] = o[p + k]
  BY <1>1, InThree
<1>3. /\ b \in Seq(DiffLines) /\ Len(b) = Len(n) - s - p /\ \A k \in 1..(Len(n) - s - p) : b[k] = n[p + k]
  BY <1>1, InThree
<1> HIDE DEF a, b
<1>4. f \in [1..c -> 1..Len(o)] /\ g \in [1..c -> 1..Len(n)] /\ \A k, m \in 1..c : k < m => f[k] < f[m] /\ g[k] < g[m]
  <2>1. f \in [1..c -> Nat] /\ g \in [1..c -> Nat] /\ \A k \in 1..c : 1 <= f[k] /\ f[k] <= Len(o) /\ 1 <= g[k] /\ g[k] <= Len(n)
    BY DEF Aligned
  <2>2. \A k \in 1..c : f[k] \in 1..Len(o) /\ g[k] \in 1..Len(n)  BY <1>1, <2>1
  <2>3. f \in [1..c -> 1..Len(o)] /\ g \in [1..c -> 1..Len(n)]  BY <2>1, <2>2
  <2> QED BY <2>3 DEF Aligned
<1>5. \A k \in 1..c : k <= f[k] /\ f[k] <= Len(o) - (c - k)  BY <1>1, <1>4, Ascending
<1>6. \A k \in 1..c : k <= g[k] /\ g[k] <= Len(n) - (c - k)  BY <1>1, <1>4, Ascending
<1>7. \A k \in 1..d : p + k \in 1..c /\ c - (p + k) >= s  BY <1>1
<1> HIDE DEF d
<1>8. ASSUME NEW k \in 1..d
      PROVE  /\ u[k] = f[p + k] - p /\ v[k] = g[p + k] - p /\ u[k] \in Nat /\ v[k] \in Nat
             /\ 1 <= u[k] /\ u[k] <= Len(a) /\ 1 <= v[k] /\ v[k] <= Len(b)
             /\ a[u[k]] = o[f[p + k]] /\ b[v[k]] = n[g[p + k]]
  <2>1. p + k \in 1..c /\ c - (p + k) >= s  BY <1>7
  <2>2. f[p + k] \in 1..Len(o) /\ g[p + k] \in 1..Len(n)  BY <1>4, <2>1
  <2>3. p + k <= f[p + k] /\ f[p + k] <= Len(o) - (c - (p + k))  BY <1>5, <2>1
  <2>4. p + k <= g[p + k] /\ g[p + k] <= Len(n) - (c - (p + k))  BY <1>6, <2>1
  <2> DEFINE x == f[p + k]
             y == g[p + k]
  <2>5. u[k] = x - p /\ v[k] = y - p  OBVIOUS
  <2>6. x \in Nat /\ y \in Nat /\ p + k <= x /\ p + k <= y /\ x <= Len(o) - (c - (p + k)) /\ y <= Len(n) - (c - (p + k))
    BY <1>1, <2>2, <2>3, <2>4
  <2> HIDE DEF x, y, u, v
  <2>7. x - p \in Nat /\ y - p \in Nat /\ 1 <= x - p /\ 1 <= y - p /\ x - p <= Len(o) - s - p /\ y - p <= Len(n) - s - p
    BY <1>1, <2>1, <2>6
  <2>8. x - p \in 1..(Len(o) - s - p) /\ y - p \in 1..(Len(n) - s - p) /\ p + (x - p) = x /\ p + (y - p) = y
    BY <1>1, <2>6, <2>7
  <2>9. a[x - p] = o[x] /\ b[y - p] = n[y]  BY <1>2, <1>3, <2>8
  <2> QED BY <1>2, <1>3, <2>5, <2>7, <2>9 DEF x, y
<1>9. u \in [1..d -> Nat] /\ v \in [1..d -> Nat]
  <2>1. u = [k \in 1..d |-> u[k]] /\ v = [k \in 1..d |-> v[k]]  OBVIOUS
  <2> HIDE DEF u, v
  <2> QED BY <1>8, <2>1
<1> HIDE DEF u, v
<1>10. ASSUME NEW k \in 1..d, NEW m \in 1..d, k < m PROVE u[k] < u[m] /\ v[k] < v[m]
  <2>1. p + k \in 1..c /\ p + m \in 1..c /\ p + k < p + m  BY <1>1, <1>7, <1>10
  <2>2. f[p + k] < f[p + m] /\ g[p + k] < g[p + m]  BY <1>4, <2>1
  <2>3. f[p + k] \in Nat /\ f[p + m] \in Nat /\ g[p + k] \in Nat /\ g[p + m] \in Nat  BY <1>1, <1>4, <2>1
  <2>4. f[p + k] - p < f[p + m] - p /\ g[p + k] - p < g[p + m] - p
    <3>1. \A x, y \in Nat : x < y => x - p < y - p  BY <1>1
    <3> QED BY ONLY <2>2, <2>3, <3>1, Zenon
  <2> QED BY <1>8, <2>4
<1>11. \A k \in 1..d : a[u[k]] = b[v[k]]
  <2>1. \A k \in 1..c : o[f[k]] = n[g[k]]  BY DEF Aligned
  <2> QED BY <1>7, <1>8, <2>1
<1>12. d \in Nat  BY <1>1 DEF d
<1>13. Aligned(u, v, a, b, 1, 1, d)  BY <1>8, <1>9, <1>10, <1>11, <1>12 DEF Aligned
<1> QED BY <1>13 DEF a, b, d

\* No common subsequence is longer than what the diff keeps.
LEMMA Shortest == DiffInv => DiffIsShortest
<1> SUFFICES ASSUME DiffInv, work.step = "done", work.table # <<>>,
                    NEW t \in Subsequences(Old, Len(Kept(LineOperations, {"EQUAL"})) + 1),
                    t \in Subsequences(New, Len(Kept(LineOperations, {"EQUAL"})) + 1)
             PROVE  FALSE
  BY DEF DiffIsShortest
<1> DEFINE o == Old
           n == New
           p == work.prefix
           s == work.suffix
           a == work.a
           b == work.b
           T == work.table
           kept == Kept(work.ops, {"EQUAL"})
           c == Len(Kept(LineOperations, {"EQUAL"})) + 1
<1>1. DoneWith(o, n, work)  BY DoneIs
<1>2. o \in Seq(DiffLines) /\ n \in Seq(DiffLines) /\ CutAt(o, n, p, s) /\ work.ops \in Seq(Operations)  BY <1>1 DEF DoneWith
<1>3. p \in Nat /\ s \in Nat /\ p + s <= Len(o) /\ p + s <= Len(n)  BY <1>2 DEF CutAt
<1>4. WalkDone(texts, work) /\ WorkOK(work)
  BY DEF DiffInv, DiffInvOf, Writing, Filling, Walking, Replaced
<1>5. /\ a \in Seq(DiffLines) /\ b \in Seq(DiffLines) /\ TableOf(T, a, b) /\ Len(T) = Len(a) + 1
      /\ a = SubSeq(o, p + 1, Len(o) - s) /\ b = SubSeq(n, p + 1, Len(n) - s)
      /\ Len(kept) + T[work.i][work.j] = T[1][1]
      /\ work.i \in 1..(Len(a) + 1) /\ work.j \in 1..(Len(b) + 1) /\ work.i > Len(a)
  BY <1>4 DEF WalkDone, Tabled, WorkOK, WalkedAt, MiddleOf, Old, New
<1>6. Kept(LineOperations, {"EQUAL"}) = (SubSeq(o, 1, p) \o kept) \o SubSeq(o, Len(o) - s + 1, Len(o))
  BY <1>1, LineOperationsAre
<1>7. kept \in Seq(DiffLines)  BY <1>2, KeptCat
<1> HIDE DEF o, n, p, s, a, b, T, kept
<1>17. Len(a) \in Nat /\ Len(b) \in Nat
  <2>1. a \in Seq(DiffLines) /\ b \in Seq(DiffLines)  BY <1>5
  <2> QED BY <2>1
<1>8. Len(kept) = T[1][1] /\ Len(kept) \in Nat
  <2>0. work.i \in 1..(Len(a) + 1) /\ work.i > Len(a) /\ work.j \in 1..(Len(b) + 1)  BY <1>5
  <2>1. work.i = Len(a) + 1  BY <1>17, <2>0
  <2>2. T[work.i][work.j] = 0
    <3>0. a \in Seq(DiffLines) /\ b \in Seq(DiffLines) /\ TableOf(T, a, b) /\ Len(T) = Len(a) + 1  BY <1>5
    <3>1. \A j \in 1..(Len(b) + 1) : T[Len(a) + 1][j] = 0  BY ONLY <3>0, CellIs
    <3> QED BY <2>0, <2>1, <3>1
  <2>3. Len(kept) \in Nat  BY <1>7
  <2>4. Len(kept) + 0 = Len(kept)  BY <2>3
  <2> QED BY <1>5, <2>2, <2>3, <2>4
<1>9. c = p + Len(kept) + s + 1
  <2> DEFINE x == SubSeq(o, 1, p)
             y == SubSeq(o, Len(o) - s + 1, Len(o))
  <2>1. x \in Seq(DiffLines) /\ Len(x) = p /\ y \in Seq(DiffLines) /\ Len(y) = s  BY <1>2, <1>3, InThree
  <2>2. Kept(LineOperations, {"EQUAL"}) = (x \o kept) \o y  BY <1>6
  <2> HIDE DEF x, y
  <2>3. Len((x \o kept) \o y) = p + Len(kept) + s
    <3> DEFINE w == x \o kept
    <3>1. w \in Seq(DiffLines) /\ Len(w) = p + Len(kept)  BY <1>7, <2>1
    <3> HIDE DEF w
    <3>2. Len(w \o y) = Len(w) + Len(y)
      <4>1. w \in Seq(DiffLines) /\ y \in Seq(DiffLines)  BY <2>1, <3>1
      <4> QED BY ONLY <4>1
    <3> QED BY ONLY <2>1, <3>1, <3>2, Zenon DEF w
  <2> QED BY <2>2, <2>3
<1> HIDE DEF c
<1>10. c \in Nat /\ p + s <= c /\ c - (p + s) = T[1][1] + 1 /\ T[1][1] \in Nat
  <2> DEFINE k == Len(kept)
  <2>1. k \in Nat /\ c = p + k + s + 1  BY <1>8, <1>9
  <2>2. k = T[1][1]  BY <1>8
  <2> HIDE DEF k
  <2>3. c \in Nat /\ p + s <= c /\ c - (p + s) = k + 1  BY <1>3, <2>1
  <2> QED BY <2>1, <2>2, <2>3
<1>11. t \in Subsequences(o, c) /\ t \in Subsequences(n, c)  BY DEF o, n, c
<1>12. PICK f \in Ascents(o, c) : t = [k \in 1..c |-> o[f[k]]]  BY <1>11 DEF Subsequences
<1>13. PICK g \in Ascents(n, c) : t = [k \in 1..c |-> n[g[k]]]  BY <1>11 DEF Subsequences
<1>14. Aligned(f, g, o, n, 1, 1, c)
  <2>1. DOMAIN o = 1..Len(o) /\ DOMAIN n = 1..Len(n) /\ Len(o) \in Nat /\ Len(n) \in Nat  BY <1>2
  <2>2. f \in [1..c -> 1..Len(o)] /\ \A k, m \in 1..c : k < m => f[k] < f[m]  BY <2>1 DEF Ascents
  <2>3. g \in [1..c -> 1..Len(n)] /\ \A k, m \in 1..c : k < m => g[k] < g[m]  BY <2>1 DEF Ascents
  <2>4. \A k \in 1..c : o[f[k]] = n[g[k]]
    <3> TAKE k \in 1..c
    <3>1. t[k] = o[f[k]]  BY <1>12
    <3>2. t[k] = n[g[k]]  BY <1>13
    <3> QED BY <3>1, <3>2
  <2>5. f \in [1..c -> Nat] /\ g \in [1..c -> Nat]  BY <2>1, <2>2, <2>3
  <2>6. \A k \in 1..c : 1 <= f[k] /\ f[k] <= Len(o) /\ 1 <= g[k] /\ g[k] <= Len(n)  BY <2>1, <2>2, <2>3
  <2> QED BY <1>10, <2>2, <2>3, <2>4, <2>5, <2>6 DEF Aligned
<1>15. PICK u, v : Aligned(u, v, a, b, 1, 1, c - (p + s))  BY <1>2, <1>5, <1>10, <1>14, CommonMiddle
<1>16. c - (p + s) <= T[1][1]
  <2>1. 1 \in 1..(Len(a) + 1) /\ 1 \in 1..(Len(b) + 1)  BY <1>17
  <2>2. Bounded(T, a, b, 1, 1)  BY <1>5, <2>1, TableBounds
  <2> QED BY <1>15, <2>2 DEF Bounded
<1> QED BY <1>10, <1>16

\* Operations that change nothing are the same on both sides.
LEMMA SameSides ==
  ASSUME NEW q \in Seq(Operations), \A k \in 1..Len(q) : q[k].kind = "EQUAL"
  PROVE  Kept(q, OldKinds) = Kept(q, NewKinds)
<1> DEFINE n == Len(q)
           c == Keeping(q, OldKinds)
           d == Keeping(q, NewKinds)
           G == {k \in 0..n : c[k] = d[k]}
<1>1. n \in Nat /\ \A k \in 1..n : q[k].kind \in OldKinds /\ q[k].kind \in NewKinds  BY DEF OldKinds, NewKinds
<1>2. c[0] = <<>> /\ \A k \in 1..n : c[k] = KeepOne(c[k - 1], q[k], OldKinds)  BY KeepingIs
<1>3. d[0] = <<>> /\ \A k \in 1..n : d[k] = KeepOne(d[k - 1], q[k], NewKinds)  BY KeepingIs
<1> HIDE DEF n, c, d
<1>4. 0 \in G  BY <1>1, <1>2, <1>3
<1>5. ASSUME NEW i \in 0..(n - 1), i \in G PROVE i + 1 \in G
  <2>0. n \in Nat  BY <1>1
  <2>1. i + 1 \in 1..n /\ (i + 1) - 1 = i /\ i + 1 \in 0..n  BY <2>0
  <2>2. c[i + 1] = KeepOne(c[i], q[i + 1], OldKinds) /\ d[i + 1] = KeepOne(d[i], q[i + 1], NewKinds)  BY <1>2, <1>3, <2>1
  <2>3. c[i + 1] = Append(c[i], q[i + 1].line) /\ d[i + 1] = Append(d[i], q[i + 1].line)  BY <1>1, <2>1, <2>2 DEF KeepOne
  <2> QED BY <1>5, <2>1, <2>3
<1>6. \A k \in 0..n : k \in G
  <2> HIDE DEF G
  <2> QED BY <1>1, <1>4, <1>5, UpTo
<1>7. n \in 0..n  BY <1>1
<1>8. c[n] = d[n]  BY <1>6, <1>7
<1> QED BY <1>8 DEF Kept, c, d, n

\* Of two integers the larger and the smaller one.
LEMMA MaxOfTwo ==
  ASSUME NEW x \in Int, NEW y \in Int
  PROVE  Max({x, y}) \in {x, y} /\ Max({x, y}) >= x /\ Max({x, y}) >= y
<1>1. \E z \in {x, y} : \A v \in {x, y} : z >= v
  <2>1. x >= y \/ y >= x  OBVIOUS
  <2>2. x >= x /\ y >= y  OBVIOUS
  <2> QED BY <2>1, <2>2
<1>2. Max({x, y}) \in {x, y} /\ \A v \in {x, y} : Max({x, y}) >= v  BY <1>1, Zenon DEF Max
<1> HIDE DEF Max
<1> QED BY <1>2

\* The pieces of three texts put together.
LEMMA Pieces ==
  ASSUME NEW A \in Seq(DiffLines), NEW B \in Seq(DiffLines), NEW C \in Seq(DiffLines)
  PROVE  /\ Len((A \o B) \o C) = Len(A) + Len(B) + Len(C)
         /\ SubSeq((A \o B) \o C, 1, Len(A)) = A
         /\ SubSeq((A \o B) \o C, Len(A) + 1, Len(A) + Len(B)) = B
         /\ SubSeq((A \o B) \o C, Len(A) + Len(B) + 1, Len(A) + Len(B) + Len(C)) = C
<1> DEFINE x == (A \o B) \o C
           a == Len(A)
           b == Len(B)
           c == Len(C)
<1>1. /\ x \in Seq(DiffLines) /\ Len(x) = a + b + c /\ a \in Nat /\ b \in Nat /\ c \in Nat
      /\ \A k \in 1..a : x[k] = A[k]
      /\ \A k \in 1..b : x[a + k] = B[k]
      /\ \A k \in 1..c : x[a + b + k] = C[k]
  OBVIOUS
<1>2. A = [k \in 1..a |-> A[k]] /\ B = [k \in 1..b |-> B[k]] /\ C = [k \in 1..c |-> C[k]]  OBVIOUS
<1> HIDE DEF x, a, b, c
<1>3. \A m, n \in Nat : SubSeq(x, m + 1, n) = [k \in 1..(n - m) |-> x[m + k]]
  <2> TAKE m, n \in Nat
  <2>1. SubSeq(x, m + 1, n) = [k \in 1..(1 + n - (m + 1)) |-> x[(m + 1) + k - 1]]  BY <1>1
  <2>2. 1 + n - (m + 1) = n - m /\ \A k \in 1..(n - m) : (m + 1) + k - 1 = m + k  OBVIOUS
  <2> QED BY <2>1, <2>2
<1>4. SubSeq(x, 1, a) = A
  <2>1. SubSeq(x, 0 + 1, a) = [k \in 1..(a - 0) |-> x[0 + k]]  BY <1>1, <1>3
  <2>2. 0 + 1 = 1 /\ a - 0 = a /\ \A k \in 1..a : 0 + k = k  BY <1>1
  <2> QED BY <1>1, <1>2, <2>1, <2>2
<1>5. SubSeq(x, a + 1, a + b) = B
  <2>1. SubSeq(x, a + 1, a + b) = [k \in 1..((a + b) - a) |-> x[a + k]]
    <3>1. a + b \in Nat  BY <1>1
    <3> QED BY <1>1, <1>3, <3>1
  <2>2. (a + b) - a = b  BY <1>1
  <2> QED BY <1>1, <1>2, <2>1, <2>2
<1>6. SubSeq(x, a + b + 1, a + b + c) = C
  <2>1. SubSeq(x, (a + b) + 1, a + b + c) = [k \in 1..((a + b + c) - (a + b)) |-> x[(a + b) + k]]
    <3>1. a + b \in Nat /\ a + b + c \in Nat  BY <1>1
    <3> QED BY <1>1, <1>3, <3>1
  <2>2. (a + b + c) - (a + b) = c  BY <1>1
  <2> QED BY <1>1, <1>2, <2>1, <2>2
<1> QED BY <1>1, <1>4, <1>5, <1>6 DEF x, a, b, c

\* Where a side of the hunk stands: what its header says comes to the place behind the lines before.
LEMMA HeaderIs ==
  ASSUME NEW x \in Nat, NEW c \in Nat
  PROVE  HunkBegins(Range0(1 + x, c), c) = x + 1
BY DEF HunkBegins, Range0

\* The hunk of a finished diff: between it and the two ends nothing changes.
HunkAt(ops, s, e) ==
  /\ s \in Nat /\ e \in Nat /\ s <= e /\ e <= Len(ops)
  /\ \A k \in 1..Len(ops) : k <= s \/ k > e => ops[k].kind = "EQUAL"

\* The part that is rendered is such a hunk.
LEMMA HunkIs ==
  ASSUME NEW ops \in Seq(Operations), NEW changed, changed = {k \in DOMAIN ops : ops[k].kind # "EQUAL"}, changed # {}
  PROVE  HunkAt(ops, Max({0, Min(changed) - 1 - Around}), Min({Len(ops), Max(changed) + Around}))
<1> DEFINE n == Len(ops)
           lo == Min(changed)
           hi == Max(changed)
           s == Max({0, lo - 1 - Around})
           e == Min({n, hi + Around})
<1>1. n \in Nat /\ DOMAIN ops = 1..n  OBVIOUS
<1>2. changed \subseteq 1..n /\ changed \subseteq 0..n  BY <1>1
<1>3. lo \in changed /\ \A x \in changed : lo <= x  BY <1>1, <1>2, FirstOne
<1>4. hi \in changed /\ \A x \in changed : x <= hi  BY <1>1, <1>2, LastOf
<1>5. \A k \in 1..n : ops[k].kind # "EQUAL" => k \in changed  BY <1>1
<1> HIDE DEF n, lo, hi
<1>6. lo \in 1..n /\ hi \in 1..n /\ lo <= hi  BY <1>2, <1>3, <1>4
<1>7. Around \in Nat  BY DiffAssumption
<1>8. lo - 1 - Around \in Int /\ hi + Around \in Nat  BY <1>1, <1>6, <1>7
<1>9. s \in {0, lo - 1 - Around} /\ s >= 0
  <2>1. 0 \in Int  OBVIOUS
  <2> QED BY <1>8, <2>1, MaxOfTwo
<1>10. e \in Nat /\ e \in {n, hi + Around} /\ e <= n  BY <1>1, <1>8, MinOfTwo
<1> HIDE DEF s, e
<1>11. s \in Nat /\ s < lo  BY <1>1, <1>6, <1>7, <1>9
<1>12. hi <= e  BY <1>1, <1>6, <1>7, <1>10
<1>13. s <= e  BY <1>1, <1>6, <1>10, <1>11, <1>12
<1>14. ASSUME NEW k \in 1..n, k <= s \/ k > e PROVE ops[k].kind = "EQUAL"
  <2>1. k \notin changed
    <3> SUFFICES ASSUME k \in changed PROVE FALSE  OBVIOUS
    <3>1. lo <= k /\ k <= hi  BY <1>3, <1>4
    <3> QED BY <1>1, <1>6, <1>10, <1>11, <1>12, <1>14, <3>1
  <2> QED BY <1>5, <2>1
<1>15. HunkAt(ops, s, e)  BY <1>10, <1>11, <1>13, <1>14 DEF HunkAt, n
<1> QED BY <1>15 DEF s, e, lo, hi, n

\* The two texts, as what stands before the hunk, in it and behind it.
PartsAt(ops, s, e, C) ==
  /\ C \in Seq(DiffLines)
  /\ OldSide(SubSeq(ops, 1, s)) \in Seq(DiffLines) /\ NewSide(SubSeq(ops, 1, s)) = OldSide(SubSeq(ops, 1, s))
  /\ OldSide(SubSeq(ops, s + 1, e)) \in Seq(DiffLines) /\ NewSide(SubSeq(ops, s + 1, e)) \in Seq(DiffLines)
  /\ OldSide(ops) = (OldSide(SubSeq(ops, 1, s)) \o OldSide(SubSeq(ops, s + 1, e))) \o C
  /\ NewSide(ops) = (OldSide(SubSeq(ops, 1, s)) \o NewSide(SubSeq(ops, s + 1, e))) \o C

\* The two texts fall into those parts.
LEMMA HunkParts ==
  ASSUME NEW ops \in Seq(Operations), NEW s, NEW e, HunkAt(ops, s, e)
  PROVE  \E C : PartsAt(ops, s, e, C)
<1> DEFINE n == Len(ops)
           d == n - e
           x == SubSeq(ops, 1, s)
           y == SubSeq(ops, s + 1, e)
           z == SubSeq(ops, e + 1, n)
<1>1. n \in Nat /\ s \in Nat /\ e \in Nat /\ s <= e /\ e <= n  BY DEF HunkAt
<1>2. d \in Nat /\ s + d <= n /\ n - d = e /\ n - d + 1 = e + 1  BY <1>1
<1>3. ops = (x \o y) \o z
  <2>1. ops = (SubSeq(ops, 1, s) \o SubSeq(ops, s + 1, Len(ops) - d)) \o SubSeq(ops, Len(ops) - d + 1, Len(ops))
    <3> HIDE DEF d
    <3>1. s \in Nat /\ d \in Nat /\ s + d <= Len(ops)  BY <1>1, <1>2 DEF n
    <3> QED BY ONLY <3>1, ops \in Seq(Operations), WholeIs, Zenon
  <2> QED BY ONLY <1>2, <2>1, Zenon DEF n, x, y, z
<1>4. x \in Seq(Operations) /\ y \in Seq(Operations) /\ z \in Seq(Operations)
  BY <1>1
<1>5. Len(x) = s /\ \A k \in 1..s : x[k] = ops[k]  BY <1>1
<1>6. Len(z) = d /\ \A k \in 1..d : z[k] = ops[e + k]  BY <1>1
<1>7. \A k \in 1..Len(x) : x[k].kind = "EQUAL"
  <2>1. \A k \in 1..s : k \in 1..n /\ k <= s  BY <1>1
  <2>2. \A k \in 1..s : ops[k].kind = "EQUAL"  BY <2>1 DEF HunkAt
  <2> HIDE DEF x
  <2> QED BY <1>5, <2>2
<1>8. \A k \in 1..Len(z) : z[k].kind = "EQUAL"
  <2>1. \A k \in 1..d : e + k \in 1..n /\ e + k > e  BY <1>1
  <2>2. \A k \in 1..d : ops[e + k].kind = "EQUAL"  BY <2>1 DEF HunkAt
  <2> HIDE DEF z
  <2> QED BY <1>6, <2>2
<1> HIDE DEF x, y, z, d
<1>9. Kept(x, OldKinds) = Kept(x, NewKinds) /\ Kept(z, OldKinds) = Kept(z, NewKinds)  BY <1>4, <1>7, <1>8, SameSides
<1>10. \A k : /\ Kept(ops, k) = (Kept(x, k) \o Kept(y, k)) \o Kept(z, k)
              /\ Kept(x, k) \in Seq(DiffLines) /\ Kept(y, k) \in Seq(DiffLines) /\ Kept(z, k) \in Seq(DiffLines)
  <2> TAKE k
  <2>1. x \in Seq(Operations) /\ y \in Seq(Operations) /\ z \in Seq(Operations)  BY <1>4
  <2>2. JoinsThree(x, y, z, k)  BY <2>1, KeptThree
  <2> QED BY ONLY <1>3, <2>2, Zenon DEF JoinsThree
<1>11. \A q : OldSide(q) = Kept(q, OldKinds) /\ NewSide(q) = Kept(q, NewKinds)  BY DEF OldSide, NewSide, OldKinds, NewKinds
<1>12. PartsAt(ops, s, e, Kept(z, OldKinds))  BY ONLY <1>9, <1>10, <1>11, Zenon DEF PartsAt, x, y
<1> QED BY ONLY <1>12, Zenon

\* A hunk with sides b and d at line f, applied to the text o, gives the text n.
Applied(o, n, b, d, f) ==
  /\ f + Len(b) - 1 <= Len(o)
  /\ SubSeq(o, f, f + Len(b) - 1) = b
  /\ SubSeq(n, f, f + Len(d) - 1) = d
  /\ SubSeq(o, 1, f - 1) \o d \o SubSeq(o, f + Len(b), Len(o)) = n

\* Two texts that differ in their middle: the middles, put where they start, make one of the other.
LEMMA MiddleApplies ==
  ASSUME NEW A \in Seq(DiffLines), NEW B \in Seq(DiffLines), NEW D \in Seq(DiffLines), NEW C \in Seq(DiffLines)
  PROVE  Applied((A \o B) \o C, (A \o D) \o C, B, D, Len(A) + 1)
<1> DEFINE o == (A \o B) \o C
           n == (A \o D) \o C
           a == Len(A)
           b == Len(B)
           c == Len(C)
           d == Len(D)
<1>1. /\ Len(o) = a + b + c
      /\ SubSeq(o, 1, a) = A
      /\ SubSeq(o, a + 1, a + b) = B
      /\ SubSeq(o, a + b + 1, a + b + c) = C
  BY Pieces
<1>2. SubSeq(n, a + 1, a + d) = D  BY Pieces
<1>3. a \in Nat /\ b \in Nat /\ c \in Nat /\ d \in Nat  OBVIOUS
<1>4. n = (A \o D) \o C  OBVIOUS
<1> HIDE DEF o, n, a, b, c, d
<1>5. (a + 1) + b - 1 = a + b /\ (a + 1) + d - 1 = a + d /\ (a + 1) - 1 = a /\ (a + 1) + b = a + b + 1 /\ a + b <= a + b + c
  BY <1>3
<1>6. Applied(o, n, B, D, a + 1)
  <2>1. (a + 1) + Len(B) - 1 <= Len(o)  BY <1>1, <1>5 DEF b
  <2>2. SubSeq(o, a + 1, (a + 1) + Len(B) - 1) = B  BY ONLY <1>1, <1>5, Zenon DEF b
  <2>3. SubSeq(n, a + 1, (a + 1) + Len(D) - 1) = D  BY ONLY <1>2, <1>5, Zenon DEF d
  <2>4. SubSeq(o, 1, (a + 1) - 1) = A /\ SubSeq(o, (a + 1) + Len(B), Len(o)) = C
    BY ONLY <1>1, <1>5, Zenon DEF b
  <2>5. SubSeq(o, 1, (a + 1) - 1) \o D \o SubSeq(o, (a + 1) + Len(B), Len(o)) = n
    BY ONLY <1>4, <2>4, Zenon
  <2> QED BY ONLY <2>1, <2>2, <2>3, <2>5, Zenon DEF Applied
<1> QED BY ONLY <1>6, Zenon DEF o, n, a

\* The hunk of a finished diff turns the old text into the new one, where its header says.
LEMMA HunkRight == DiffInv => HunkApplies
<1> SUFFICES ASSUME DiffInv, work.step = "done", Old # New
             PROVE  LET h == Hunk
                        from == HunkBegins(h.oldStart, h.oldCount)
                        to == HunkBegins(h.newStart, h.newCount)
                    IN  /\ from + h.oldCount - 1 <= Len(Old)
                        /\ SubSeq(Old, from, from + h.oldCount - 1) = OldSide(h.ops)
                        /\ SubSeq(New, to, to + h.newCount - 1) = NewSide(h.ops)
                        /\ SubSeq(Old, 1, from - 1) \o NewSide(h.ops) \o SubSeq(Old, from + h.oldCount, Len(Old)) = New
  BY DEF HunkApplies
<1> DEFINE ops == LineOperations
           changed == {k \in DOMAIN ops : ops[k].kind # "EQUAL"}
           s == Max({0, Min(changed) - 1 - Around})
           e == Min({Len(ops), Max(changed) + Around})
           x == SubSeq(ops, 1, s)
           y == SubSeq(ops, s + 1, e)
           h == [ops |-> y, oldCount |-> Len(OldSide(y)), newCount |-> Len(NewSide(y)),
                 oldStart |-> Range0(1 + Len(OldSide(x)), Len(OldSide(y))),
                 newStart |-> Range0(1 + Len(NewSide(x)), Len(NewSide(y)))]
<1>1. ops \in Seq(Operations) /\ OldSide(ops) = Old /\ NewSide(ops) = New
  <2>1. DoneWith(Old, New, work)  BY DoneIs
  <2> QED BY <2>1, SidesAre
<1>2. Hunk = h  BY DEF Hunk
<1> HIDE DEF ops
<1>3. changed # {}
  <2> SUFFICES ASSUME changed = {} PROVE FALSE  OBVIOUS
  <2>1. DOMAIN ops = 1..Len(ops)  BY <1>1
  <2>2. \A k \in 1..Len(ops) : ops[k].kind = "EQUAL"  BY <2>1
  <2>3. Kept(ops, OldKinds) = Kept(ops, NewKinds)  BY <1>1, <2>2, SameSides
  <2> QED BY <1>1, <2>3 DEF OldSide, NewSide, OldKinds, NewKinds
<1>4. HunkAt(ops, s, e)
  <2> DEFINE ch == changed
  <2>1. ch = {k \in DOMAIN ops : ops[k].kind # "EQUAL"} /\ ch # {}  BY <1>3
  <2> HIDE DEF ch
  <2>2. HunkAt(ops, Max({0, Min(ch) - 1 - Around}), Min({Len(ops), Max(ch) + Around}))  BY <1>1, <2>1, HunkIs
  <2> QED BY <2>2 DEF ch
<1> HIDE DEF s, e
<1>5. PICK C : PartsAt(ops, s, e, C)  BY <1>1, <1>4, HunkParts
<1> DEFINE A == OldSide(x)
           B == OldSide(y)
           D == NewSide(y)
<1>6. /\ C \in Seq(DiffLines) /\ A \in Seq(DiffLines) /\ B \in Seq(DiffLines) /\ D \in Seq(DiffLines)
      /\ NewSide(x) = A /\ Old = (A \o B) \o C /\ New = (A \o D) \o C
  BY ONLY <1>1, <1>5, Zenon DEF PartsAt
<1> HIDE DEF x, y, A, B, D
<1>7. Applied(Old, New, B, D, Len(A) + 1)
  <2>1. Applied((A \o B) \o C, (A \o D) \o C, B, D, Len(A) + 1)  BY <1>6, MiddleApplies
  <2> QED BY ONLY <1>6, <2>1, Zenon
<1>8. HunkBegins(Range0(1 + Len(A), Len(B)), Len(B)) = Len(A) + 1 /\ HunkBegins(Range0(1 + Len(A), Len(D)), Len(D)) = Len(A) + 1
  <2> DEFINE la == Len(A)
             lb == Len(B)
             ld == Len(D)
  <2>1. la \in Nat /\ lb \in Nat /\ ld \in Nat  BY <1>6
  <2> HIDE DEF la, lb, ld
  <2> QED BY <2>1, HeaderIs DEF la, lb, ld
<1>9. /\ h.ops = y /\ h.oldCount = Len(B) /\ h.newCount = Len(D)
      /\ h.oldStart = Range0(1 + Len(A), Len(B)) /\ h.newStart = Range0(1 + Len(A), Len(D))
  <2>1. h = [ops |-> y, oldCount |-> Len(B), newCount |-> Len(D),
             oldStart |-> Range0(1 + Len(A), Len(B)), newStart |-> Range0(1 + Len(A), Len(D))]
    BY ONLY <1>6, Zenon DEF A, B, D
  <2> HIDE DEF h
  <2> QED BY ONLY <2>1, Zenon
<1> HIDE DEF h
<1>10. HunkBegins(h.oldStart, h.oldCount) = Len(A) + 1 /\ HunkBegins(h.newStart, h.newCount) = Len(A) + 1
  BY ONLY <1>8, <1>9, Zenon
<1>11. OldSide(h.ops) = B /\ NewSide(h.ops) = D  BY ONLY <1>9, Zenon DEF B, D
<1> QED BY ONLY <1>2, <1>7, <1>9, <1>10, <1>11, Zenon DEF Applied

\* The literal diff of the captured file is exact, for any two texts, any bound on the table and
\* any amount of context: its operations are the two texts; within the bound no longer common
\* subsequence exists; and the hunk that is rendered, applied where its header says, gives the
\* new text.
THEOREM DiffHolds == DiffSpec => []DiffIsExact
<1>1. DiffInv => DiffIsExact  BY Reproduces, Shortest, HunkRight DEF DiffIsExact
<1> QED BY <1>1, DiffStarts, DiffSteps, PTL DEF DiffSpec

-----------------------------------------------------------------------------
(* ScipQuery: varints. *)

\* The powers of two, as they are computed.
LEMMA PowersAre ==
  ASSUME NEW n \in Nat
  PROVE  /\ \A k \in 0..n : Powers(n)[k] \in Nat
         /\ Powers(n)[0] = 1
         /\ \A k \in 1..n : Powers(n)[k] = 2 * Powers(n)[k - 1]
<1> DEFINE step == [x \in (1..n) \X Nat |-> 2 * x[2]]
           P(g) == g = [i \in 0..n |-> IF i = 0 THEN 1 ELSE 2 * g[i - 1]]
           c == Powers(n)
<1>3. \A i \in 1..n, v \in Nat : step[<<i, v>>] = 2 * v  OBVIOUS
<1>4. step \in [(1..n) \X Nat -> Nat]
  <2>1. \A x \in (1..n) \X Nat : 2 * x[2] \in Nat  OBVIOUS
  <2> QED BY <2>1
<1>5. c = CHOOSE g : P(g)  BY DEF Powers
<1> HIDE DEF step
<1>6. Recursion(n, Nat, 1, step)  BY <1>4 DEF Recursion
<1>7. PICK h \in [0..n -> Nat] : Follows(h, n, 1, step)  BY <1>6, RecursionHas
<1>8. P(h)
  <2>1. \A i \in 0..n : h[i] = IF i = 0 THEN 1 ELSE 2 * h[i - 1]
    <3> TAKE i \in 0..n
    <3>1. CASE i = 0  BY <1>7, <3>1 DEF Follows
    <3>2. CASE i # 0
      <4>1. i \in 1..n /\ i - 1 \in 0..n  BY <3>2
      <4>2. h[i] = step[<<i, h[i - 1]>>] /\ h[i - 1] \in Nat  BY <1>7, <4>1 DEF Follows
      <4>3. h[i] = 2 * h[i - 1]  BY <1>3, <4>1, <4>2
      <4> QED BY <3>2, <4>3
    <3> QED BY <3>1, <3>2
  <2>2. h = [i \in 0..n |-> h[i]]  OBVIOUS
  <2> QED BY <2>1, <2>2
<1>9. P(c)
  <2> HIDE DEF P, c
  <2> QED BY <1>5, <1>8
<1> HIDE DEF c
<1>10. \A i \in 0..n : c[i] = IF i = 0 THEN 1 ELSE 2 * c[i - 1]  BY <1>9, Zenon
<1>11. c[0] = 1 /\ \A i \in 1..n : c[i] = 2 * c[i - 1]
  <2>1. 0 \in 0..n /\ \A i \in 1..n : i \in 0..n /\ i # 0  OBVIOUS
  <2> QED BY <1>10, <2>1
<1>12. \A i \in 1..n : c[i - 1] \in Nat => c[i] = step[<<i, c[i - 1]>>]  BY <1>3, <1>11
<1>13. \A i \in 0..n : c[i] \in Nat
  <2> DEFINE S == Nat
             z == 1
  <2>1. Recursion(n, S, z, step) /\ c[0] = z /\ \A i \in 1..n : c[i - 1] \in S => c[i] = step[<<i, c[i - 1]>>]
    BY <1>6, <1>11, <1>12
  <2> HIDE DEF S, z
  <2>2. \A i \in 0..n : c[i] \in S  BY ONLY <2>1, RecursionStays
  <2> QED BY <2>2 DEF S
<1> QED BY <1>11, <1>13 DEF c

\* Powers up to different bounds agree, so each is twice the one before.
LEMMA TwoToIs ==
  /\ TwoTo(0) = 1
  /\ \A n \in Nat : TwoTo(n) \in Nat /\ TwoTo(n) > 0 /\ TwoTo(n + 1) = 2 * TwoTo(n)
<1>1. TwoTo(0) = 1
  <2>1. 0 \in Nat  OBVIOUS
  <2> QED BY <2>1, PowersAre DEF TwoTo
<1>2. ASSUME NEW n \in Nat PROVE TwoTo(n) \in Nat /\ TwoTo(n) > 0 /\ TwoTo(n + 1) = 2 * TwoTo(n)
  <2> DEFINE c == Powers(n)
             d == Powers(n + 1)
             G == {k \in 0..n : c[k] = d[k] /\ c[k] > 0}
  <2>1. (\A k \in 0..n : c[k] \in Nat) /\ c[0] = 1 /\ \A k \in 1..n : c[k] = 2 * c[k - 1]  BY PowersAre
  <2>2. (\A k \in 0..(n + 1) : d[k] \in Nat) /\ d[0] = 1 /\ \A k \in 1..(n + 1) : d[k] = 2 * d[k - 1]
    <3>1. n + 1 \in Nat  OBVIOUS
    <3> QED BY <3>1, PowersAre
  <2> HIDE DEF c, d
  <2>3. 0 \in G  BY <2>1, <2>2
  <2>4. ASSUME NEW i \in 0..(n - 1), i \in G PROVE i + 1 \in G
    <3>1. i + 1 \in 1..n /\ i + 1 \in 1..(n + 1) /\ (i + 1) - 1 = i /\ i \in 0..n  OBVIOUS
    <3>2. c[i + 1] = 2 * c[i] /\ d[i + 1] = 2 * d[i]  BY <2>1, <2>2, <3>1
    <3>3. c[i] = d[i] /\ c[i] \in Nat /\ c[i] > 0  BY <2>1, <2>4, <3>1
    <3> QED BY <3>1, <3>2, <3>3
  <2>5. \A k \in 0..n : k \in G
    <3> HIDE DEF G
    <3> QED BY <2>3, <2>4, UpTo
  <2>6. n \in 0..n /\ n + 1 \in 1..(n + 1) /\ (n + 1) - 1 = n  OBVIOUS
  <2>7. c[n] = d[n] /\ c[n] > 0 /\ c[n] \in Nat  BY <2>1, <2>5, <2>6
  <2>8. d[n + 1] = 2 * d[n]  BY <2>2, <2>6
  <2> QED BY <2>7, <2>8 DEF TwoTo, c, d
<1> QED BY <1>1, <1>2

\* The product of two powers of two, and their order.
LEMMA TwoToSums ==
  ASSUME NEW m \in Nat, NEW n \in Nat
  PROVE  TwoTo(m + n) = TwoTo(m) * TwoTo(n)
<1> DEFINE G == {k \in 0..n : TwoTo(m + k) = TwoTo(m) * TwoTo(k)}
<1>1. 0 \in G
  <2>1. m + 0 = m /\ TwoTo(m) \in Nat /\ TwoTo(0) = 1  BY TwoToIs
  <2>2. TwoTo(m) * 1 = TwoTo(m)  BY <2>1
  <2> QED BY <2>1, <2>2
<1>2. ASSUME NEW k \in 0..(n - 1), k \in G PROVE k + 1 \in G
  <2>1. k \in Nat /\ m + k \in Nat /\ k + 1 \in 0..n /\ m + (k + 1) = (m + k) + 1  OBVIOUS
  <2>2. TwoTo(k + 1) = 2 * TwoTo(k) /\ TwoTo((m + k) + 1) = 2 * TwoTo(m + k) /\ TwoTo(k) \in Nat /\ TwoTo(m) \in Nat
    BY <2>1, TwoToIs
  <2>3. TwoTo(m + k) = TwoTo(m) * TwoTo(k)  BY <1>2
  <2>4. \A x, y \in Nat : 2 * (x * y) = x * (2 * y)  OBVIOUS
  <2>5. TwoTo(m + (k + 1)) = TwoTo(m) * TwoTo(k + 1)  BY ONLY <2>1, <2>2, <2>3, <2>4, ZenonT(30)
  <2> QED BY <2>1, <2>5
<1>3. \A k \in 0..n : k \in G
  <2> HIDE DEF G
  <2> QED BY <1>1, <1>2, UpTo
<1>4. n \in 0..n  OBVIOUS
<1> QED BY <1>3, <1>4

\* A larger exponent, a power at least as large.
LEMMA TwoToGrows ==
  ASSUME NEW m \in Nat, NEW n \in Nat
  PROVE  TwoTo(m) <= TwoTo(m + n)
<1> DEFINE x == TwoTo(m)
           y == TwoTo(n)
<1>1. x \in Nat /\ y \in Nat /\ y > 0  BY TwoToIs
<1>2. TwoTo(m + n) = x * y  BY TwoToSums
<1> HIDE DEF x, y
<1>3. \A v, w \in Nat : w > 0 => v <= v * w
  <2> SUFFICES ASSUME NEW v \in Nat, NEW w \in Nat, w > 0 PROVE v <= v * w  OBVIOUS
  <2>1. w - 1 \in Nat /\ w = 1 + (w - 1)  OBVIOUS
  <2>2. v * (w - 1) \in Nat  BY <2>1
  <2>3. v * w = v + v * (w - 1)  BY <2>1
  <2> QED BY <2>2, <2>3
<1>4. x <= x * y  BY ONLY <1>1, <1>3, Zenon
<1> QED BY ONLY <1>2, <1>4, Zenon DEF x

\* What a byte adds.
LEMMA PayloadIs ==
  ASSUME NEW b \in Nat
  PROVE  Payload(b) \in Nat /\ Payload(b) < TwoTo(PayloadBits) /\ Payload(b) <= b
<1> DEFINE y == TwoTo(PayloadBits)
<1>1. PayloadBits \in Nat  BY ScipAssumption
<1>2. y \in Nat /\ y > 0  BY <1>1, TwoToIs
<1>3. Payload(b) = b % y  BY DEF Payload
<1> HIDE DEF y
<1>4. b % y \in Nat /\ b % y < y /\ b % y <= b
  <2>1. b % y \in Nat /\ b % y < y  BY <1>2
  <2>2. b < y => b % y = b  BY <1>2
  <2> QED BY <1>2, <2>1, <2>2
<1> QED BY <1>3, <1>4 DEF y

\* The partial sums of the digits, as they are computed.
LEMMA DigitsAre ==
  ASSUME NEW bytes \in Seq(Nat)
  PROVE  /\ \A k \in 0..Len(bytes) : Digits(bytes)[k] \in Nat
         /\ Digits(bytes)[0] = 0
         /\ \A k \in 1..Len(bytes) : Digits(bytes)[k] = Digits(bytes)[k - 1] + Payload(bytes[k]) * TwoTo(PayloadBits * (k - 1))
<1> DEFINE n == Len(bytes)
           t(i) == Payload(bytes[i]) * TwoTo(PayloadBits * (i - 1))
           step == [x \in (1..n) \X Nat |-> x[2] + t(x[1])]
           P(g) == g = [i \in 0..n |-> IF i = 0 THEN 0 ELSE g[i - 1] + t(i)]
           c == Digits(bytes)
<1>1. \A i \in 1..n : t(i) \in Nat
  <2> TAKE i \in 1..n
  <2>1. i - 1 \in Nat /\ PayloadBits \in Nat /\ bytes[i] \in Nat  BY ScipAssumption
  <2>2. \A x, y \in Nat : x * y \in Nat  OBVIOUS
  <2>3. PayloadBits * (i - 1) \in Nat  BY ONLY <2>1, <2>2, Zenon
  <2>4. TwoTo(PayloadBits * (i - 1)) \in Nat  BY <2>3, TwoToIs
  <2>5. Payload(bytes[i]) \in Nat  BY <2>1, PayloadIs
  <2> QED BY ONLY <2>2, <2>4, <2>5, Zenon
<1>2. n \in Nat  OBVIOUS
<1>5. c = CHOOSE g : P(g)  BY DEF Digits
<1> HIDE DEF n, t
<1>3. \A i \in 1..n, v \in Nat : step[<<i, v>>] = v + t(i)  OBVIOUS
<1>4. step \in [(1..n) \X Nat -> Nat]
  <2>1. \A x \in (1..n) \X Nat : x[2] + t(x[1]) \in Nat  BY <1>1
  <2> QED BY <2>1
<1> HIDE DEF step
<1>6. Recursion(n, Nat, 0, step)  BY <1>2, <1>4 DEF Recursion
<1>7. PICK h \in [0..n -> Nat] : Follows(h, n, 0, step)  BY <1>6, RecursionHas
<1>8. P(h)
  <2>1. \A i \in 0..n : h[i] = IF i = 0 THEN 0 ELSE h[i - 1] + t(i)
    <3> TAKE i \in 0..n
    <3>1. CASE i = 0  BY <1>7, <3>1 DEF Follows
    <3>2. CASE i # 0
      <4>1. i \in 1..n /\ i - 1 \in 0..n  BY <1>2, <3>2
      <4>2. h[i] = step[<<i, h[i - 1]>>] /\ h[i - 1] \in Nat  BY <1>7, <4>1 DEF Follows
      <4>3. h[i] = h[i - 1] + t(i)  BY <1>3, <4>1, <4>2
      <4> QED BY <3>2, <4>3
    <3> QED BY <3>1, <3>2
  <2>2. h = [i \in 0..n |-> h[i]]  OBVIOUS
  <2> QED BY <2>1, <2>2
<1>9. P(c)
  <2> HIDE DEF P, c
  <2> QED BY <1>5, <1>8
<1> HIDE DEF c
<1>10. \A i \in 0..n : c[i] = IF i = 0 THEN 0 ELSE c[i - 1] + t(i)  BY <1>9, Zenon
<1>11. c[0] = 0 /\ \A i \in 1..n : c[i] = c[i - 1] + t(i)
  <2>1. 0 \in 0..n /\ \A i \in 1..n : i \in 0..n /\ i # 0  BY <1>2
  <2> QED BY <1>10, <2>1
<1>12. \A i \in 1..n : c[i - 1] \in Nat => c[i] = step[<<i, c[i - 1]>>]  BY <1>3, <1>11
<1>13. \A i \in 0..n : c[i] \in Nat
  <2> DEFINE S == Nat
             z == 0
  <2>1. Recursion(n, S, z, step) /\ c[0] = z /\ \A i \in 1..n : c[i - 1] \in S => c[i] = step[<<i, c[i - 1]>>]
    BY <1>6, <1>11, <1>12
  <2> HIDE DEF S, z
  <2>2. \A i \in 0..n : c[i] \in S  BY ONLY <2>1, RecursionStays
  <2> QED BY <2>2 DEF S
<1> QED BY <1>11, <1>13 DEF c, n, t

\* One byte more is one digit more.
LEMMA NumberGrows ==
  ASSUME NEW bytes \in Seq(Nat), NEW b \in Nat
  PROVE  /\ NumberOf(<<>>) = 0 /\ NumberOf(bytes) \in Nat
         /\ NumberOf(Append(bytes, b)) = NumberOf(bytes) + Payload(b) * TwoTo(PayloadBits * Len(bytes))
<1> DEFINE n == Len(bytes)
           more == Append(bytes, b)
           c == Digits(bytes)
           d == Digits(more)
           t(i) == Payload(bytes[i]) * TwoTo(PayloadBits * (i - 1))
           u(i) == Payload(more[i]) * TwoTo(PayloadBits * (i - 1))
           G == {k \in 0..n : c[k] = d[k]}
<1>1. n \in Nat /\ more \in Seq(Nat) /\ Len(more) = n + 1 /\ more[n + 1] = b /\ \A i \in 1..n : more[i] = bytes[i]  OBVIOUS
<1>2. (\A k \in 0..n : c[k] \in Nat) /\ c[0] = 0 /\ \A k \in 1..n : c[k] = c[k - 1] + t(k)
  <2> HIDE DEF c
  <2> QED BY DigitsAre DEF c
<1>3. (\A k \in 0..(n + 1) : d[k] \in Nat) /\ d[0] = 0 /\ \A k \in 1..(n + 1) : d[k] = d[k - 1] + u(k)
  <2> HIDE DEF d, more
  <2> QED BY <1>1, DigitsAre DEF d
<1>4. \A i \in 1..n : t(i) = u(i)
  <2> HIDE DEF more
  <2> QED BY <1>1
<1>5. (n + 1) - 1 = n  BY <1>1
<1>6. u(n + 1) = Payload(b) * TwoTo(PayloadBits * n)
  <2> HIDE DEF more, n
  <2> QED BY <1>1, <1>5
<1>7. NumberOf(bytes) = c[n] /\ NumberOf(more) = d[n + 1]  BY <1>1 DEF NumberOf
<1>8. NumberOf(<<>>) = 0
  <2>1. <<>> \in Seq(Nat) /\ Len(<<>>) = 0  OBVIOUS
  <2> DEFINE e == <<>>
  <2>2. e \in Seq(Nat) /\ Len(e) = 0  BY <2>1
  <2> HIDE DEF e
  <2>3. Digits(e)[0] = 0  BY <2>2, DigitsAre
  <2>4. NumberOf(e) = 0  BY <2>2, <2>3 DEF NumberOf
  <2> QED BY <2>4 DEF e
<1> HIDE DEF c, d, t, u
<1>9. 0 \in G  BY <1>1, <1>2, <1>3
<1>10. ASSUME NEW i \in 0..(n - 1), i \in G PROVE i + 1 \in G
  <2> HIDE DEF n
  <2>1. i + 1 \in 1..n /\ i + 1 \in 1..(n + 1) /\ (i + 1) - 1 = i /\ i + 1 \in 0..n  BY <1>1
  <2>2. c[i + 1] = c[i] + t(i + 1) /\ d[i + 1] = d[i] + u(i + 1)  BY <1>2, <1>3, <2>1
  <2>3. c[i] = d[i] /\ t(i + 1) = u(i + 1)  BY <1>4, <1>10, <2>1
  <2> QED BY <2>1, <2>2, <2>3
<1> HIDE DEF n
<1>11. \A k \in 0..n : k \in G
  <2> HIDE DEF G
  <2> QED BY <1>1, <1>9, <1>10, UpTo
<1>12. c[n] = d[n] /\ c[n] \in Nat
  <2>1. n \in 0..n  BY <1>1
  <2> QED BY <1>2, <1>11, <2>1
<1>13. d[n + 1] = d[n] + u(n + 1)
  <2>1. n + 1 \in 1..(n + 1)  BY <1>1
  <2> QED BY <1>3, <1>5, <2>1
<1>14. NumberOf(bytes) \in Nat /\ NumberOf(more) = NumberOf(bytes) + u(n + 1)  BY <1>7, <1>12, <1>13
<1> QED BY <1>6, <1>8, <1>14 DEF n, more

\* What is true of a varint while it is read, and once it is.
WireInv(w) ==
  /\ w \in [bytes : Seq(Nat), value : Nat, shift : Nat, status : {"reading", "done", "error"}]
  /\ w.shift = PayloadBits * Len(w.bytes) /\ w.value = NumberOf(w.bytes)
  /\ w.status = "reading" => w.value < TwoTo(w.shift) /\ w.shift <= Width - 1
  /\ w.status = "done" => w.value < TwoTo(Width)

\* The shift meets the last one exactly, or a whole payload before it.
LEMMA ShiftSteps ==
  ASSUME NEW n \in Nat, PayloadBits * n <= Width - 1, PayloadBits * n # Width - 1
  PROVE  PayloadBits * n + PayloadBits <= Width - 1
<1>1. PICK k \in 1..Width : Width = k * PayloadBits + 1  BY ScipAssumption
<1>2. PayloadBits \in Nat /\ Width \in Nat /\ k \in Nat  BY <1>1, ScipAssumption
<1> DEFINE P == PayloadBits
<1>3. P \in Nat /\ P * n < k * P  
  <2>1. \A x, y \in Nat : x * y \in Nat  OBVIOUS
  <2>2. P * n \in Nat /\ k * P \in Nat  BY ONLY <1>2, <2>1, n \in Nat, Zenon
  <2> DEFINE a == P * n
             c == k * P
  <2>3. a \in Nat /\ c \in Nat /\ Width = c + 1 /\ a <= Width - 1 /\ a # Width - 1  BY <1>1, <2>2
  <2> HIDE DEF a, c
  <2>4. a < c  BY ONLY <2>3
  <2> QED BY <1>2, <2>4 DEF a, c
<1>4. n < k
  <2> SUFFICES ASSUME n >= k PROVE FALSE  BY <1>2
  <2>1. n - k \in Nat /\ n = k + (n - k)  BY <1>2
  <2>2. \A x, y, z, w \in Nat : w = y + z => x * w = y * x + x * z /\ x * z \in Nat /\ y * x \in Nat  OBVIOUS
  <2>3. P * n = k * P + P * (n - k) /\ P * (n - k) \in Nat /\ k * P \in Nat  BY ONLY <1>2, <1>3, <2>1, <2>2, n \in Nat, Zenon
  <2> QED BY <1>3, <2>3
<1>5. (k - n) - 1 \in Nat /\ k = n + (1 + ((k - n) - 1))  BY <1>2, <1>4
<1>6. \A x, y, z, w \in Nat : w = y + (1 + z) => w * x = (x * y + x) + x * z /\ x * z \in Nat /\ x * y + x \in Nat  OBVIOUS
<1>7. k * P = (P * n + P) + P * ((k - n) - 1) /\ P * ((k - n) - 1) \in Nat /\ P * n + P \in Nat
  BY ONLY <1>2, <1>3, <1>5, <1>6, n \in Nat, Zenon
<1>8. P * n + P <= k * P  BY ONLY <1>7
<1>9. Width - 1 = k * P
  <2>1. k * P \in Nat
     <3>1. \A x, y \in Nat : x * y \in Nat  OBVIOUS
     <3> QED BY ONLY <1>2, <3>1, Zenon
  <2> HIDE DEF P
  <2> QED BY ONLY <1>1, <2>1 DEF P
<1> QED BY ONLY <1>8, <1>9 DEF P

\* A byte keeps it.
LEMMA WireKeeps ==
  ASSUME WireInv(wire), NEW b \in 0..(2 * TwoTo(PayloadBits) - 1), ReadByte(b)
  PROVE  WireInv(wire')
<1> DEFINE n == Len(wire.bytes)
           S == wire.shift
           X == TwoTo(S)
           Y == TwoTo(PayloadBits)
           v == wire.value
           p == Payload(b)
<1>1. wire.status = "reading" /\ n \in Nat /\ S \in Nat /\ v \in Nat /\ v < X /\ S <= Width - 1 /\ S = PayloadBits * n
      /\ v = NumberOf(wire.bytes) /\ wire.bytes \in Seq(Nat)
  BY DEF WireInv, ReadByte
<1>2. PayloadBits \in Nat /\ PayloadBits > 0 /\ Width \in Nat  BY ScipAssumption
<1>3. X \in Nat /\ X > 0 /\ Y \in Nat /\ Y > 0 /\ TwoTo(S + 1) = 2 * X /\ TwoTo(S + PayloadBits) = X * Y
  BY <1>1, <1>2, TwoToIs, TwoToSums
<1>4. b \in Nat  BY <1>3
<1>5. p \in Nat /\ p < Y /\ p <= b  BY <1>4, PayloadIs
<1> HIDE DEF X, Y, v, p
<1> DEFINE nv == v + p * X
<1>6. nv \in Nat /\ nv < X * Y
  <2>1. \A a, x, y, q \in Nat : a < x /\ q < y => a + q * x \in Nat /\ a + q * x < x * y
    <3> SUFFICES ASSUME NEW a \in Nat, NEW x \in Nat, NEW y \in Nat, NEW q \in Nat, a < x, q < y
                 PROVE  a + q * x \in Nat /\ a + q * x < x * y
      OBVIOUS
    <3>4. (y - q) - 1 \in Nat /\ y = q + (1 + ((y - q) - 1))  OBVIOUS
    <3>1. PICK z \in Nat : y = q + (1 + z)  BY ONLY <3>4, Zenon
    <3>2. \A r, s, e, w \in Nat : w = s + (1 + e) => r * w = (s * r + r) + r * e /\ r * e \in Nat /\ s * r \in Nat  OBVIOUS
    <3>3. x * y = (q * x + x) + x * z /\ x * z \in Nat /\ q * x \in Nat
      <4>1. \A w \in Nat : w = q + (1 + z) => x * w = (q * x + x) + x * z /\ x * z \in Nat /\ q * x \in Nat  BY <3>2
      <4> QED BY <3>1, <4>1
    <3> QED BY <3>3
  <2> QED BY ONLY <1>1, <1>3, <1>5, <2>1, Zenon
<1>7. p <= 1 => nv < 2 * X
  <2>1. \A a, x, q \in Nat : a < x /\ q <= 1 => a + q * x < 2 * x
    <3> SUFFICES ASSUME NEW a \in Nat, NEW x \in Nat, NEW q \in Nat, a < x, q <= 1 PROVE a + q * x < 2 * x  OBVIOUS
    <3>1. CASE q = 0  BY <3>1
    <3>2. CASE q = 1  BY <3>2
    <3> QED BY <3>1, <3>2
  <2> QED BY ONLY <1>1, <1>3, <1>5, <2>1, Zenon
<1>8. wire' = [bytes |-> Append(wire.bytes, b), shift |-> S + PayloadBits, value |-> nv,
               status |-> IF TooWide(b) THEN "error" ELSE IF b < Y THEN "done"
                          ELSE IF S + PayloadBits >= Width + PayloadBits - 1 THEN "error" ELSE "reading"]
  BY DEF ReadByte, v, p, X, Y
<1>9. Append(wire.bytes, b) \in Seq(Nat) /\ Len(Append(wire.bytes, b)) = n + 1  BY <1>1, <1>4
<1>10. nv = NumberOf(Append(wire.bytes, b))
  <2>1. NumberOf(Append(wire.bytes, b)) = NumberOf(wire.bytes) + Payload(b) * TwoTo(PayloadBits * Len(wire.bytes))
    BY <1>1, <1>4, NumberGrows
  <2> QED BY <1>1, <2>1 DEF v, p, X
<1>11. S + PayloadBits = PayloadBits * (n + 1)
  <2>1. \A x, y \in Nat : x * y + x = x * (y + 1)  OBVIOUS
  <2> QED BY ONLY <1>1, <1>2, <2>1, Zenon
<1>12. S # Width - 1 => S + PayloadBits <= Width - 1
  BY ONLY <1>1, ShiftSteps
<1>13. S # Width - 1 => nv < TwoTo(Width)
  <2> SUFFICES ASSUME S # Width - 1 PROVE nv < TwoTo(Width)  OBVIOUS
  <2>1. Width - (S + PayloadBits) \in Nat /\ S + PayloadBits \in Nat /\ Width = (S + PayloadBits) + (Width - (S + PayloadBits))
    <3>1. S \in Nat /\ PayloadBits \in Nat /\ Width \in Nat /\ S + PayloadBits <= Width - 1  BY <1>1, <1>2, <1>12
    <3> HIDE DEF S
    <3> QED BY ONLY <3>1
  <2>2. TwoTo(S + PayloadBits) <= TwoTo(Width)  BY ONLY <2>1, TwoToGrows
  <2>3. TwoTo(Width) \in Nat  BY <1>2, TwoToIs
  <2>4. X * Y \in Nat
    <3>1. \A x, y \in Nat : x * y \in Nat  OBVIOUS
    <3> QED BY ONLY <1>3, <3>1, Zenon
  <2>5. X * Y <= TwoTo(Width)  BY ONLY <1>3, <2>2
  <2> HIDE DEF nv
  <2> DEFINE xy == X * Y
             w == TwoTo(Width)
  <2>6. nv \in Nat /\ xy \in Nat /\ w \in Nat /\ nv < xy /\ xy <= w  BY <1>6, <2>3, <2>4, <2>5
  <2> HIDE DEF xy, w
  <2>7. nv < w  BY ONLY <2>6
  <2> QED BY <2>7 DEF w
<1>14. S = Width - 1 /\ b <= 1 => nv < TwoTo(Width)
  <2> SUFFICES ASSUME S = Width - 1, b <= 1 PROVE nv < TwoTo(Width)  OBVIOUS
  <2>1. S + 1 = Width  BY <1>2
  <2>2. TwoTo(Width) = 2 * X  BY <1>3, <2>1
  <2>3. p <= 1  BY <1>4, <1>5
  <2> QED BY <1>7, <2>2, <2>3
<1> DEFINE st == wire'.status
<1>15. wire'.bytes = Append(wire.bytes, b) /\ wire'.shift = S + PayloadBits /\ wire'.value = nv
       /\ st \in {"reading", "done", "error"} /\ wire' \in [bytes : Seq(Nat), value : Nat, shift : Nat, status : {"reading", "done", "error"}]
  <2> HIDE DEF nv, S
  <2> QED BY <1>1, <1>2, <1>6, <1>8, <1>9
<1>16. st = "reading" => S + PayloadBits <= Width - 1
  <2>1. st = "reading" => ~(S + PayloadBits >= Width + PayloadBits - 1)  BY <1>8
  <2>2. st = "reading" => S # Width - 1
    <3> HIDE DEF S, st
    <3> QED BY <1>1, <1>2, <2>1
  <2> QED BY <1>12, <2>2
<1>17. st = "done" => nv < TwoTo(Width)
  <2>1. st = "done" => ~(S = Width - 1 /\ b > 1)  BY <1>8 DEF TooWide
  <2> HIDE DEF nv, S, st
  <2> QED BY <1>4, <1>13, <1>14, <2>1
<1>18. nv < TwoTo(S + PayloadBits)  BY ONLY <1>3, <1>6
<1> HIDE DEF nv, S
<1> QED BY <1>9, <1>10, <1>11, <1>15, <1>16, <1>17, <1>18 DEF WireInv

-----------------------------------------------------------------------------
(* ScipQuery: the heap of BoundedLocationCollector. *)

Child(p, c) == c = 2 * p \/ c = 2 * p + 1
EachOnce(h) == h \in Seq(Int) /\ \A i, j \in 1..Len(h) : h[i] = h[j] => i = j
Ordered(h) == \A p, c \in 1..Len(h) : Child(p, c) => h[p] >= h[c]

\* The order while one element rises, and while one sinks.
RisingAt(h, i) ==
  /\ i \in 1..Len(h)
  /\ \A p, c \in 1..Len(h) : Child(p, c) /\ c # i => h[p] >= h[c]
  /\ \A p, c \in 1..Len(h) : Child(p, i) /\ Child(i, c) => h[p] >= h[c]
SinkingAt(h, i) ==
  /\ i \in 1..Len(h)
  /\ \A p, c \in 1..Len(h) : Child(p, c) /\ p # i => h[p] >= h[c]
  /\ \A p, c \in 1..Len(h) : Child(p, i) /\ Child(i, c) => h[p] >= h[c]

\* g is h with two elements exchanged.
Exchanged(h, g, i, j) ==
  /\ Len(g) = Len(h) /\ i \in 1..Len(h) /\ j \in 1..Len(h) /\ i # j
  /\ g[i] = h[j] /\ g[j] = h[i] /\ \A k \in 1..Len(h) : k # i /\ k # j => g[k] = h[k]

LargestChild(h, i, j) == j \in 1..Len(h) /\ Child(i, j) /\ \A c \in 1..Len(h) : Child(i, c) => h[j] >= h[c]

\* The root is the largest.
LEMMA RootIsLargest ==
  ASSUME NEW h, EachOnce(h), Ordered(h), NEW k \in 1..Len(h)
  PROVE  h[1] >= h[k]
<1> DEFINE n == Len(h)
           G == {m \in 0..n : \A j \in 1..m : h[1] >= h[j]}
<1>1. n \in Nat /\ 1 \in 1..n /\ \A j \in 1..n : h[j] \in Int  BY DEF EachOnce
<1>2. \A p, c \in 1..n : Child(p, c) => h[p] >= h[c]  BY DEF Ordered
<1> HIDE DEF n
<1>3. 0 \in G  BY <1>1
<1>4. ASSUME NEW m \in 0..(n - 1), m \in G PROVE m + 1 \in G
  <2>1. m + 1 \in 1..n /\ \A j \in 1..(m + 1) : j \in 1..m \/ j = m + 1  BY <1>1
  <2>2. \A j \in 1..m : h[1] >= h[j]  BY <1>4
  <2>3. h[1] >= h[m + 1]
    <3>1. CASE m = 0  BY <1>1, <3>1
    <3>2. CASE m # 0
      <4>1. PICK p \in 1..m : Child(p, m + 1)
        <5>1. (m + 1) \div 2 \in 1..m /\ (m + 1 = 2 * ((m + 1) \div 2) \/ m + 1 = 2 * ((m + 1) \div 2) + 1)  BY <1>1, <3>2
        <5> QED BY <5>1 DEF Child
      <4>2. p \in 1..n /\ h[1] >= h[p] /\ h[p] >= h[m + 1]  BY <1>1, <1>2, <2>1, <2>2, <4>1
      <4> QED BY <1>1, <2>1, <4>2
    <3> QED BY <3>1, <3>2
  <2> QED BY <1>1, <2>1, <2>2, <2>3
<1>5. \A m \in 0..n : m \in G
  <2> HIDE DEF G
  <2> QED BY <1>1, <1>3, <1>4, UpTo
<1>6. n \in 0..n /\ k \in 1..n  BY <1>1 DEF n
<1> QED BY <1>5, <1>6

\* An exchange keeps the elements, and each of them once.
LEMMA ExchangeKeeps ==
  ASSUME NEW h, NEW g, NEW i, NEW j, EachOnce(h), Exchanged(h, g, i, j), g \in Seq(Int)
  PROVE  EachOnce(g) /\ ToSet(g) = ToSet(h) /\ Len(g) = Len(h)
<1>1. Len(g) = Len(h) /\ DOMAIN g = 1..Len(h) /\ DOMAIN h = 1..Len(h)  BY DEF Exchanged, EachOnce
<1>2. EachOnce(g)
  <2> SUFFICES ASSUME NEW a \in 1..Len(h), NEW b \in 1..Len(h), g[a] = g[b] PROVE a = b  BY <1>1 DEF EachOnce
  <2>1. \A x, y \in 1..Len(h) : h[x] = h[y] => x = y  BY DEF EachOnce
  <2> QED BY <2>1 DEF Exchanged
<1>3. ToSet(g) = ToSet(h)
  <2>1. \A k \in 1..Len(h) : \E m \in 1..Len(h) : g[k] = h[m]  BY DEF Exchanged
  <2>2. \A k \in 1..Len(h) : \E m \in 1..Len(h) : h[k] = g[m]  BY DEF Exchanged
  <2>3. ToSet(g) = {g[k] : k \in 1..Len(h)} /\ ToSet(h) = {h[k] : k \in 1..Len(h)}  BY <1>1 DEF ToSet
  <2>4. ASSUME NEW v PROVE (v \in ToSet(g)) <=> (v \in ToSet(h))
    <3>1. v \in ToSet(g) <=> \E k \in 1..Len(h) : v = g[k]  BY <2>3
    <3>2. v \in ToSet(h) <=> \E k \in 1..Len(h) : v = h[k]  BY <2>3
    <3> QED BY <2>1, <2>2, <3>1, <3>2
  <2> QED BY <2>4
<1> QED BY <1>1, <1>2, <1>3

\* One exchange upwards, and when there is none to make.
LEMMA Rises ==
  ASSUME NEW h, NEW i, EachOnce(h), RisingAt(h, i)
  PROVE  /\ i = 1 => Ordered(h)
         /\ \A p \in 1..Len(h) : Child(p, i) /\ h[p] >= h[i] => Ordered(h)
         /\ \A p \in 1..Len(h) : \A g : Child(p, i) /\ h[p] < h[i] /\ Exchanged(h, g, i, p) => RisingAt(g, p)
<1> DEFINE n == Len(h)
<1>1. n \in Nat /\ i \in 1..n /\ \A k \in 1..n : h[k] \in Int  BY DEF EachOnce, RisingAt
<1>2. \A p, c \in 1..n : Child(p, c) /\ c # i => h[p] >= h[c]  BY DEF RisingAt
<1>3. \A p, c \in 1..n : Child(p, i) /\ Child(i, c) => h[p] >= h[c]  BY DEF RisingAt
<1>4. ASSUME NEW p \in 1..n, NEW q \in 1..n, NEW c \in 1..n, Child(p, c), Child(q, c) PROVE p = q
  BY <1>1, <1>4 DEF Child
<1>5. \A p, c \in 1..n : Child(p, c) => p # c  BY <1>1 DEF Child
<1>6. i = 1 => Ordered(h)
  <2>1. \A p \in 1..n : ~Child(p, 1)  BY <1>1 DEF Child
  <2> QED BY <1>2, <2>1 DEF Ordered
<1>7. ASSUME NEW p \in 1..n, Child(p, i), h[p] >= h[i] PROVE Ordered(h)
  BY <1>1, <1>2, <1>4, <1>7 DEF Ordered
<1>8. ASSUME NEW p \in 1..n, NEW g, Child(p, i), h[p] < h[i], Exchanged(h, g, i, p) PROVE RisingAt(g, p)
  <2>1. Len(g) = n /\ g[i] = h[p] /\ g[p] = h[i] /\ \A k \in 1..n : k # i /\ k # p => g[k] = h[k]  BY <1>8 DEF Exchanged
  <2> HIDE DEF n
  <2>2. ASSUME NEW q \in 1..n, NEW c \in 1..n, Child(q, c), c # p PROVE g[q] >= g[c]
    <3>1. CASE c = i
      <4>1. q = p  BY <1>1, <1>4, <1>8, <2>2, <3>1
      <4> QED BY <1>1, <1>8, <2>1, <3>1, <4>1
    <3>2. CASE c # i /\ q = p
      <4>1. h[p] >= h[c]  BY <1>2, <2>2, <3>2
      <4> QED BY <1>1, <1>8, <2>1, <2>2, <3>2, <4>1
    <3>3. CASE c # i /\ q = i
      <4>1. h[p] >= h[c]  BY <1>3, <1>8, <2>2, <3>3
      <4> QED BY <2>1, <2>2, <3>3, <4>1
    <3>4. CASE c # i /\ q # i /\ q # p  BY <1>2, <2>1, <2>2, <3>4
    <3> QED BY <3>1, <3>2, <3>3, <3>4
  <2>3. ASSUME NEW q \in 1..n, NEW c \in 1..n, Child(q, p), Child(p, c) PROVE g[q] >= g[c]
    <3>1. p # i /\ q # p  BY <1>1, <1>5, <1>8, <2>3
    <3>2. h[q] >= h[p]  BY <1>2, <2>3, <3>1
    <3>3. q # i
      <4> SUFFICES ASSUME q = i PROVE FALSE  OBVIOUS
      <4> QED BY <1>1, <1>8, <2>3 DEF Child
    <3>4. c # p  BY <1>5, <2>3
    <3>5. CASE c = i  BY <1>1, <2>1, <3>1, <3>2, <3>3, <3>5
    <3>6. CASE c # i
      <4>1. h[p] >= h[c]  BY <1>2, <2>3, <3>6
      <4> QED BY <1>1, <2>1, <3>1, <3>2, <3>3, <3>4, <3>6, <4>1
    <3> QED BY <3>5, <3>6
  <2> QED BY <1>8, <2>1, <2>2, <2>3 DEF RisingAt
<1> QED BY <1>6, <1>7, <1>8

\* One exchange downwards with the larger child, and when there is none to make.
LEMMA Sinks ==
  ASSUME NEW h, NEW i, EachOnce(h), SinkingAt(h, i)
  PROVE  /\ 2 * i > Len(h) => Ordered(h)
         /\ \A j : LargestChild(h, i, j) /\ h[i] >= h[j] => Ordered(h)
         /\ \A j, g : LargestChild(h, i, j) /\ h[i] < h[j] /\ Exchanged(h, g, i, j) => SinkingAt(g, j)
<1> DEFINE n == Len(h)
<1>1. n \in Nat /\ i \in 1..n /\ \A k \in 1..n : h[k] \in Int  BY DEF EachOnce, SinkingAt
<1>2. \A p, c \in 1..n : Child(p, c) /\ p # i => h[p] >= h[c]  BY DEF SinkingAt
<1>3. \A p, c \in 1..n : Child(p, i) /\ Child(i, c) => h[p] >= h[c]  BY DEF SinkingAt
<1>4. ASSUME NEW p \in 1..n, NEW q \in 1..n, NEW c \in 1..n, Child(p, c), Child(q, c) PROVE p = q
  BY <1>1, <1>4 DEF Child
<1>5. \A p, c \in 1..n : Child(p, c) => p # c  BY <1>1 DEF Child
<1>6. 2 * i > n => Ordered(h)
  <2>1. 2 * i > n => \A c \in 1..n : ~Child(i, c)  BY <1>1 DEF Child
  <2> QED BY <1>2, <2>1 DEF Ordered
<1>7. ASSUME NEW j, LargestChild(h, i, j), h[i] >= h[j] PROVE Ordered(h)
  <2>1. \A c \in 1..n : Child(i, c) => h[i] >= h[c]  BY <1>1, <1>7 DEF LargestChild
  <2> QED BY <1>2, <2>1 DEF Ordered
<1>8. ASSUME NEW j, NEW g, LargestChild(h, i, j), h[i] < h[j], Exchanged(h, g, i, j) PROVE SinkingAt(g, j)
  <2>4. j \in 1..n /\ Child(i, j) /\ \A c \in 1..n : Child(i, c) => h[j] >= h[c]  BY <1>8 DEF LargestChild
  <2>1. Len(g) = n /\ g[i] = h[j] /\ g[j] = h[i] /\ \A k \in 1..n : k # i /\ k # j => g[k] = h[k]  BY <1>8 DEF Exchanged
  <2> HIDE DEF n
  <2>2. ASSUME NEW q \in 1..n, NEW c \in 1..n, Child(q, c), q # j PROVE g[q] >= g[c]
    <3>1. CASE c = j
      <4>1. q = i  BY <1>1, <1>4, <2>2, <2>4, <3>1
      <4> QED BY <1>1, <1>8, <2>4, <2>1, <3>1, <4>1
    <3>2. CASE c # j /\ q = i
      <4>1. h[j] >= h[c] /\ c # i  BY <1>5, <1>8, <2>4, <2>2, <3>2
      <4> QED BY <2>1, <2>2, <3>2, <4>1
    <3>3. CASE c = i
      <4>1. h[q] >= h[j] /\ q # i  BY <1>3, <1>5, <1>8, <2>4, <2>2, <3>3
      <4> QED BY <2>1, <2>2, <3>3, <4>1
    <3>4. CASE c # i /\ c # j /\ q # i  BY <1>2, <2>1, <2>2, <3>4
    <3> QED BY <3>1, <3>2, <3>3, <3>4
  <2>3. ASSUME NEW q \in 1..n, NEW c \in 1..n, Child(q, j), Child(j, c) PROVE g[q] >= g[c]
    <3>4. q = i  BY <1>1, <1>4, <2>3, <2>4
    <3>1. q = i /\ j # i /\ c # j  BY <1>1, <1>5, <2>3, <2>4, <3>4
    <3>2. c # i
      <4> SUFFICES ASSUME c = i PROVE FALSE  OBVIOUS
      <4> QED BY <1>1, <1>8, <2>4, <2>3 DEF Child
    <3>3. h[j] >= h[c]  BY <1>2, <2>3, <2>4, <3>1
    <3> QED BY <2>1, <3>1, <3>2, <3>3
  <2> QED BY <2>1, <2>2, <2>3, <2>4 DEF SinkingAt
<1> QED BY <1>6, <1>7, <1>8

\* What an element appended adds.
LEMMA AppendedSet ==
  ASSUME NEW S, NEW s \in Seq(S), NEW e
  PROVE  ToSet(Append(s, e)) = ToSet(s) \cup {e}
<1> DEFINE g == Append(s, e)
           n == Len(s)
<1>1. n \in Nat /\ DOMAIN s = 1..n /\ DOMAIN g = 1..(n + 1) /\ g[n + 1] = e /\ \A k \in 1..n : g[k] = s[k]  OBVIOUS
<1> HIDE DEF g, n
<1>2. ToSet(g) = {g[k] : k \in 1..(n + 1)} /\ ToSet(s) = {s[k] : k \in 1..n}  BY <1>1 DEF ToSet
<1>3. \A k \in 1..(n + 1) : k \in 1..n \/ k = n + 1  BY <1>1
<1>4. \A k \in 1..n : k \in 1..(n + 1)  BY <1>1
<1>5. n + 1 \in 1..(n + 1)  BY <1>1
<1>6. ASSUME NEW v PROVE (v \in ToSet(g)) <=> (v \in ToSet(s) \/ v = e)
  <2>1. v \in ToSet(g) <=> \E k \in 1..(n + 1) : v = g[k]  BY <1>2
  <2>2. v \in ToSet(s) <=> \E k \in 1..n : v = s[k]  BY <1>2
  <2> QED BY <1>1, <1>3, <1>4, <1>5, <2>1, <2>2
<1> QED BY <1>6 DEF g

\* A new element is put last, and rises from there.
LEMMA PutLast ==
  ASSUME NEW h, EachOnce(h), Ordered(h), NEW r \in Int, r \notin ToSet(h)
  PROVE  EachOnce(Append(h, r)) /\ Len(Append(h, r)) = Len(h) + 1 /\ RisingAt(Append(h, r), Len(h) + 1)
<1> DEFINE g == Append(h, r)
           n == Len(h)
<1>1. n \in Nat /\ g \in Seq(Int) /\ Len(g) = n + 1 /\ g[n + 1] = r /\ \A k \in 1..n : g[k] = h[k]  BY DEF EachOnce
<1>2. \A k \in 1..n : h[k] # r  BY DEF ToSet, EachOnce
<1>3. \A i, j \in 1..n : h[i] = h[j] => i = j  BY DEF EachOnce
<1>4. \A p, c \in 1..n : Child(p, c) => h[p] >= h[c]  BY DEF Ordered
<1> HIDE DEF g, n
<1>5. \A k \in 1..(n + 1) : k \in 1..n \/ k = n + 1  BY <1>1
<1>6. EachOnce(g)
  <2> SUFFICES ASSUME NEW i \in 1..(n + 1), NEW j \in 1..(n + 1), g[i] = g[j] PROVE i = j  BY <1>1 DEF EachOnce
  <2> QED BY <1>1, <1>2, <1>3, <1>5
<1>7. \A p, c \in 1..(n + 1) : Child(p, c) => p # n + 1  BY <1>1 DEF Child
<1>8. \A p, c \in 1..(n + 1) : Child(p, c) /\ c # n + 1 => g[p] >= g[c]
  <2> SUFFICES ASSUME NEW p \in 1..(n + 1), NEW c \in 1..(n + 1), Child(p, c), c # n + 1 PROVE g[p] >= g[c]  OBVIOUS
  <2>1. p \in 1..n /\ c \in 1..n  BY <1>5, <1>7
  <2> QED BY <1>1, <1>4, <2>1
<1>9. n + 1 \in 1..(n + 1)  BY <1>1
<1>10. RisingAt(g, n + 1)  BY <1>1, <1>7, <1>8, <1>9 DEF RisingAt
<1> QED BY <1>1, <1>6, <1>10 DEF g, n

\* A new element takes the root's place, and sinks from there.
LEMMA PutFirst ==
  ASSUME NEW h, EachOnce(h), Ordered(h), 1 <= Len(h), NEW r \in Int, r \notin ToSet(h), NEW g, g = [h EXCEPT ![1] = r]
  PROVE  EachOnce(g) /\ Len(g) = Len(h) /\ SinkingAt(g, 1) /\ ToSet(g) = (ToSet(h) \ {h[1]}) \cup {r}
<1> DEFINE n == Len(h)
<1>1. n \in Nat /\ 1 \in 1..n /\ h \in Seq(Int) /\ DOMAIN h = 1..n  BY DEF EachOnce
<1>2. g \in Seq(Int) /\ Len(g) = n /\ DOMAIN g = 1..n /\ g[1] = r /\ \A k \in 1..n : k # 1 => g[k] = h[k]  BY <1>1
<1>3. \A k \in 1..n : h[k] # r  BY <1>1 DEF ToSet
<1>4. \A i, j \in 1..n : h[i] = h[j] => i = j  BY DEF EachOnce
<1>5. \A p, c \in 1..n : Child(p, c) => h[p] >= h[c]  BY DEF Ordered
<1> HIDE DEF n
<1>6. EachOnce(g)
  <2> SUFFICES ASSUME NEW i \in 1..n, NEW j \in 1..n, g[i] = g[j] PROVE i = j  BY <1>2 DEF EachOnce
  <2> QED BY <1>1, <1>2, <1>3, <1>4
<1>7. \A p, c \in 1..n : Child(p, c) => c # 1  BY <1>1 DEF Child
<1>8. \A p, c \in 1..n : Child(p, c) /\ p # 1 => g[p] >= g[c]  BY <1>2, <1>5, <1>7
<1>9. SinkingAt(g, 1)  BY <1>1, <1>2, <1>7, <1>8 DEF SinkingAt
<1>10. ToSet(g) = {g[k] : k \in 1..n} /\ ToSet(h) = {h[k] : k \in 1..n}  BY <1>1, <1>2 DEF ToSet
<1>11. ASSUME NEW v PROVE (v \in ToSet(g)) <=> (v \in (ToSet(h) \ {h[1]}) \cup {r})
  <2>1. v \in ToSet(g) <=> \E k \in 1..n : v = g[k]  BY <1>10
  <2>2. v \in ToSet(h) <=> \E k \in 1..n : v = h[k]  BY <1>10
  <2>3. ASSUME v \in ToSet(g), v # r PROVE v \in ToSet(h) /\ v # h[1]
    <3>1. PICK k \in 1..n : v = g[k]  BY <2>1, <2>3
    <3>2. k # 1 /\ v = h[k]  BY <1>2, <2>3, <3>1
    <3> QED BY <1>1, <1>4, <2>2, <3>2
  <2>4. ASSUME v \in ToSet(h), v # h[1] PROVE v \in ToSet(g)
    <3>1. PICK k \in 1..n : v = h[k]  BY <2>2, <2>4
    <3>2. k # 1  BY <2>4, <3>1
    <3> QED BY <1>2, <2>1, <3>1, <3>2
  <2>5. r \in ToSet(g)  BY <1>1, <1>2, <1>10
  <2> QED BY <2>3, <2>4, <2>5
<1> QED BY <1>2, <1>6, <1>9, <1>11 DEF n

-----------------------------------------------------------------------------
(* ScipQuery: what is selected. *)

\* Everything was parsed.
WholeRead(a) == a.parsed \in Seq(Occurrences) /\ ToSet(a.parsed) = Occurrences /\ a.infos = SymbolInfos

\* The symbols a query may be anchored at, and that there is one.
AnchorsOf(q) == {WholeKey(o) : o \in {p \in Occurrences : p.doc = q.doc /\ p.line = q.line /\ Described(WholeKey(p))}}
OneAnchor(q) == q.op # "FIND_SYMBOL" => \E K : AnchorsOf(q) = {K}

\* When everything was parsed, the anchors found are all there are.
LEMMA AnchorsAre ==
  ASSUME WholeRead(ask)
  PROVE  AnchorKeys = AnchorsOf(Query) /\ IsFiniteSet(AnchorKeys)
<1> DEFINE n == Len(ask.parsed)
           Good(o) == o.doc = Query.doc /\ o.line = Query.line /\ Described(WholeKey(o))
           I == {i \in 1..n : Good(ask.parsed[i])}
           f == [i \in I |-> WholeKey(ask.parsed[i])]
<1>1. \A x : KeyOf(x) = WholeKey(x)  BY DEF KeyOf, SymbolKey, WholeKey
<1>2. \A k : Named(k) <=> Described(k)  BY <1>1 DEF Named, Described, WholeRead
<1>3. AnchorKeys = {WholeKey(o) : o \in {p \in Occurrences : Good(p)}}  BY <1>1, <1>2 DEF AnchorKeys, WholeRead
<1>4. n \in Nat /\ \A o : o \in Occurrences <=> \E i \in 1..n : ask.parsed[i] = o
  BY DEF WholeRead, ToSet
<1>5. AnchorsOf(Query) = {WholeKey(o) : o \in {p \in Occurrences : Good(p)}}  BY DEF AnchorsOf
<1> HIDE DEF Good, n
<1>6. IsFiniteSet(AnchorKeys)
  <2>1. IsFiniteSet(I)
    <3>1. IsFiniteSet(1..n)  BY <1>4, FS_Interval
    <3> QED BY <3>1, FS_Subset
  <2>2. f \in [I -> AnchorKeys]
    <3>1. \A i \in I : WholeKey(ask.parsed[i]) \in AnchorKeys  BY <1>3, <1>4
    <3> QED BY <3>1
  <2>3. \A t \in AnchorKeys : \E i \in I : f[i] = t
    <3> SUFFICES ASSUME NEW t \in AnchorKeys PROVE \E i \in I : f[i] = t  OBVIOUS
    <3>1. PICK o \in Occurrences : Good(o) /\ t = WholeKey(o)  BY <1>3
    <3>2. PICK i \in 1..n : ask.parsed[i] = o  BY <1>4
    <3>3. i \in I  BY <3>1, <3>2
    <3> QED BY <3>1, <3>2, <3>3
  <2> HIDE DEF I, f
  <2>4. f \in Surjection(I, AnchorKeys)  BY <2>2, <2>3 DEF Surjection
  <2> QED BY <2>1, <2>4, FS_Surjection
<1> QED BY <1>3, <1>5, <1>6

\* One anchor is the anchor.
LEMMA AnchorIs ==
  ASSUME WholeRead(ask), NEW K, AnchorsOf(Query) = {K}
  PROVE  Anchor = WholeAnchor(Query)
<1> DEFINE Good(o) == o.doc = Query.doc /\ o.line = Query.line /\ Described(WholeKey(o))
           c == CHOOSE x \in Occurrences : Good(x)
<1>1. AnchorsOf(Query) = {WholeKey(o) : o \in {p \in Occurrences : Good(p)}}  BY DEF AnchorsOf
<1>2. Anchor = K  BY AnchorsAre DEF Anchor
<1>3. WholeAnchor(Query) = WholeKey(c)  BY DEF WholeAnchor
<1> HIDE DEF Good
<1>4. PICK o \in Occurrences : Good(o)  BY <1>1
<1>5. c \in Occurrences /\ Good(c)  BY <1>4
<1> HIDE DEF c
<1>6. WholeKey(c) = K  BY <1>1, <1>5
<1> QED BY <1>2, <1>3, <1>6

\* And what is wanted is what the whole index says is wanted.
LEMMA WantsAre ==
  ASSUME WholeRead(ask), OneAnchor(Query), Query \in ScipAsks, NEW o \in Occurrences
  PROVE  Wants(o) <=> WholeWants(Query, o)
<1> DEFINE q == Query
           k == WholeKey(o)
           A == WholeAnchor(q)
<1>1. \A x : KeyOf(x) = WholeKey(x)  BY DEF KeyOf, SymbolKey, WholeKey
<1>2. \A x : Named(x) <=> Described(x)  BY <1>1 DEF Named, Described, WholeRead
<1>3. q.op # "FIND_SYMBOL" => Anchor = A
  <2> SUFFICES ASSUME q.op # "FIND_SYMBOL" PROVE Anchor = A  OBVIOUS
  <2>1. PICK K : AnchorsOf(q) = {K}  BY DEF OneAnchor
  <2> QED BY <2>1, AnchorIs
<1>4. ASSUME NEW a, NEW b, NEW kind
      PROVE  (\E r \in Relations : r.from = a /\ r.to = b /\ r.kind = kind) <=> WholeRelated(a, b, kind)
  <2>1. \A x, d : SymbolKey(x, d) = WholeKey([sym |-> x, doc |-> d])  BY DEF SymbolKey, WholeKey
  <2> DEFINE rel(i, s) == [from |-> KeyOf(i), to |-> SymbolKey(s.to, i.doc), kind |-> s.kind]
  <2>2. \A r : r \in Relations <=> \E i \in SymbolInfos : \E s \in ToSet(i.rels) : r = rel(i, s)
    BY DEF Relations, WholeRead
  <2>3. \A i, s : rel(i, s).from = WholeKey(i) /\ rel(i, s).to = WholeKey([sym |-> s.to, doc |-> i.doc]) /\ rel(i, s).kind = s.kind
    BY <1>1, <2>1
  <2> HIDE DEF rel
  <2>4. (\E r \in Relations : r.from = a /\ r.to = b /\ r.kind = kind)
        <=> \E i \in SymbolInfos : \E s \in ToSet(i.rels) : rel(i, s).from = a /\ rel(i, s).to = b /\ rel(i, s).kind = kind
    BY <2>2
  <2> DEFINE to(i, s) == WholeKey([sym |-> s.to, doc |-> i.doc])
  <2>5. WholeRelated(a, b, kind) <=> \E i \in SymbolInfos : WholeKey(i) = a /\ \E s \in ToSet(i.rels) : to(i, s) = b /\ s.kind = kind
    BY Zenon DEF WholeRelated
  <2>6. \A i, s : rel(i, s).from = WholeKey(i) /\ rel(i, s).to = to(i, s) /\ rel(i, s).kind = s.kind  BY <2>3
  <2> HIDE DEF to
  <2> QED BY ONLY <2>4, <2>5, <2>6, ZenonT(30)
<1>5. KeyOf(o) = k  BY <1>1
<1> HIDE DEF k
<1>6. Described(k) => (k \in Targets <=> WholeTarget(q, k))
  <2> SUFFICES ASSUME Described(k) PROVE k \in Targets <=> WholeTarget(q, k)  OBVIOUS
  <2>1. CASE q.op = "FIND_SYMBOL"
    <3>1. Targets = {KeyOf(i) : i \in {x \in SymbolInfos : x.sym = q.line}}  BY <2>1 DEF Targets, WholeRead
    <3>2. WholeTarget(q, k) <=> k[1] = q.line  BY <2>1 DEF WholeTarget
    <3>3. \A x : WholeKey(x)[1] = x.sym  BY DEF WholeKey
    <3>4. PICK i \in SymbolInfos : WholeKey(i) = k  BY DEF Described
    <3>5. k \in Targets <=> \E x \in SymbolInfos : x.sym = q.line /\ WholeKey(x) = k  BY <1>1, <3>1
    <3> QED BY <3>2, <3>3, <3>4, <3>5
  <2>2. CASE q.op = "FIND_DEFINITION"
    <3>1. Targets = {Anchor} \cup {r.to : r \in {x \in Relations : x.from = Anchor /\ x.kind = "definition"}}  BY <2>2 DEF Targets
    <3>2. WholeTarget(q, k) <=> k = A \/ WholeRelated(A, k, "definition")  BY <2>2 DEF WholeTarget
    <3>3. Anchor = A  BY <1>3, <2>2
    <3>4. WholeRelated(A, k, "definition") <=> \E r \in Relations : r.from = A /\ r.to = k /\ r.kind = "definition"  BY <1>4
    <3> HIDE DEF A
    <3> QED BY <3>1, <3>2, <3>3, <3>4
  <2>3. CASE q.op = "FIND_REFERENCES"
    <3>1. Targets = {Anchor} \cup {r.to : r \in {x \in Relations : x.from = Anchor /\ x.kind = "reference"}}
                             \cup {r.from : r \in {x \in Relations : x.to = Anchor /\ x.kind = "reference"}}  BY <2>3 DEF Targets
    <3>2. WholeTarget(q, k) <=> k = A \/ WholeRelated(A, k, "reference") \/ WholeRelated(k, A, "reference")  BY <2>3 DEF WholeTarget
    <3>3. Anchor = A  BY <1>3, <2>3
    <3>4. WholeRelated(A, k, "reference") <=> \E r \in Relations : r.from = A /\ r.to = k /\ r.kind = "reference"  BY <1>4
    <3>5. WholeRelated(k, A, "reference") <=> \E r \in Relations : r.from = k /\ r.to = A /\ r.kind = "reference"  BY <1>4
    <3> HIDE DEF A
    <3> QED BY <3>1, <3>2, <3>3, <3>4, <3>5
  <2>4. CASE q.op = "FIND_IMPLEMENTATIONS"
    <3>1. Targets = {r.from : r \in {x \in Relations : x.to = Anchor /\ x.kind = "implementation"}}  BY <2>4 DEF Targets
    <3>2. WholeTarget(q, k) <=> WholeRelated(k, A, "implementation")  BY <2>4 DEF WholeTarget
    <3>3. Anchor = A  BY <1>3, <2>4
    <3>4. WholeRelated(k, A, "implementation") <=> \E r \in Relations : r.from = k /\ r.to = A /\ r.kind = "implementation"  BY <1>4
    <3> HIDE DEF A
    <3> QED BY <3>1, <3>2, <3>3, <3>4
  <2>5. q.op \in {"FIND_SYMBOL", "FIND_DEFINITION", "FIND_REFERENCES", "FIND_IMPLEMENTATIONS"}  BY ScipAssumption
  <2> QED BY <2>1, <2>2, <2>3, <2>4, <2>5
<1>7. Wants(o) <=> (o.def = (q.op # "FIND_REFERENCES") /\ k \in Targets /\ Named(k))  BY <1>5 DEF Wants
<1>8. WholeWants(q, o) <=> (o.def = (q.op # "FIND_REFERENCES") /\ Described(k) /\ WholeTarget(q, k))  BY DEF WholeWants, k
<1> QED BY <1>2, <1>6, <1>7, <1>8

-----------------------------------------------------------------------------
(* ScipQuery: what is true of a query at each of its steps. *)

\* The fields of a query in flight.
AskForm(a) ==
  a \in [step : {"idle", "preopen", "opening", "postopen", "reading", "parsing", "selecting", "siftUp", "siftDown", "revalidating", "ended"},
         query : {a.query}, pre : {a.pre}, handle : {a.handle}, pending : {a.pending}, open : {a.open}, document : {a.document},
         seen : {a.seen}, read : {a.read}, parsed : {a.parsed}, infos : {a.infos}, semantic : {a.semantic}, occ : {a.occ},
         truncated : BOOLEAN, heap : {a.heap}, at : {a.at}, overflowed : BOOLEAN, next : {a.next}, checked : {a.checked}, status : {a.status}]

\* A descriptor is open only between the opening and the reading, and is counted.
Held(a) ==
  /\ a.handle \in Int /\ a.open = IF a.handle = -1 THEN 0 ELSE 1
  /\ a.step \notin {"postopen", "reading"} => a.handle = -1

Asked(a) == a.step \notin {"idle", "ended"} => a.query[1] \in ScipAsks

\* Nothing is parsed before the index is read.
NothingParsed(a) ==
  a.step \in {"idle", "preopen", "opening", "postopen", "reading"} =>
    /\ a.document = 0 /\ a.seen = {} /\ a.read = {} /\ a.parsed = <<>> /\ a.infos = {} /\ a.semantic = 0 /\ a.occ = 0
    /\ ~a.truncated /\ a.heap = <<>> /\ ~a.overflowed /\ a.next = 1

\* Unless a bound was met, what was read was kept, and all of a document before the next.
Parsing(a) ==
  a.step = "parsing" =>
    /\ a.heap = <<>> /\ ~a.overflowed /\ a.next = 1 /\ a.parsed \in Seq(Occurrences) /\ a.semantic \in Nat /\ a.occ \in Nat
    /\ ~a.truncated => /\ ToSet(a.parsed) = {o \in Occurrences : o \in a.read}
                       /\ a.infos = {i \in SymbolInfos : i \in a.read}
                       /\ \A d \in a.seen : d = a.document \/ PartsOf(d) \subseteq a.read

\* The locations of the answer among the first occurrences, and what the heap holds of those.
Offered(a) == {Rank(a.parsed[i]) : i \in {j \in 1..(a.next - 1) : WholeWants(a.query[1], a.parsed[j])}}
Collected(a, W) ==
  /\ ToSet(a.heap) \subseteq W /\ (~a.overflowed => ToSet(a.heap) = W)
  /\ a.overflowed => Len(a.heap) = MaxResults /\ \A r \in W \ ToSet(a.heap), k \in ToSet(a.heap) : k < r

Selecting(a) ==
  a.step \in {"selecting", "siftUp", "siftDown"} /\ ~a.truncated =>
    /\ WholeRead(a) /\ OneAnchor(a.query[1]) /\ a.next \in 1..(Len(a.parsed) + 1)
    /\ EachOnce(a.heap) /\ Len(a.heap) <= MaxResults /\ Collected(a, Offered(a))
    /\ (a.step = "selecting" => Ordered(a.heap))
    /\ (a.step = "siftUp" => RisingAt(a.heap, a.at))
    /\ (a.step = "siftDown" => SinkingAt(a.heap, a.at))

\* What was selected is what is answered.
Answering(a) ==
  /\ a.step = "revalidating" \/ (a.step = "ended" /\ a.status \in {"COMPLETED", "PARTIAL"})
       => (~a.truncated => Collected(a, WholeAnswer(a.query[1])))
  /\ a.step = "ended" /\ a.status = "COMPLETED" => ~a.truncated /\ ~a.overflowed /\ a.query[1].completeness = "COMPLETE"

AskInv(a) == AskForm(a) /\ Held(a) /\ Asked(a) /\ NothingParsed(a) /\ Parsing(a) /\ Selecting(a) /\ Answering(a)

\* The file under the index's path.
FilesForm(f) == f \in [inode : Nat, docs : {f.docs}, changes : {f.changes}]

\* A failure leaves nothing behind.
LEMMA FailsKeeps ==
  ASSUME AskInv(ask), NEW s, s \notin {"COMPLETED", "PARTIAL"}, Fails(s)
  PROVE  AskInv(ask')
<1>1. Closed.open = 0  BY DEF AskInv, AskForm, Held, Closed
<1>2. ask' = [step |-> "ended", query |-> <<>>, pre |-> 0, handle |-> -1, pending |-> ask.pending, open |-> 0,
              document |-> 0, seen |-> {}, read |-> {}, parsed |-> <<>>, infos |-> {}, semantic |-> 0, occ |-> 0,
              truncated |-> FALSE, heap |-> <<>>, at |-> 0, overflowed |-> FALSE, next |-> 1, checked |-> {}, status |-> s]
  BY <1>1, ZenonT(60) DEF Fails, NoAsk
<1>3. AskForm(ask')  BY <1>2 DEF AskForm
<1>4. ask'.step = "ended" /\ ask'.handle = -1 /\ ask'.open = 0 /\ ask'.status = s  BY <1>2
<1> QED BY <1>3, <1>4 DEF AskInv, Held, Asked, NothingParsed, Parsing, Selecting, Answering

\* Up to the reading of the index.
LEMMA OpeningKeeps ==
  ASSUME AskInv(ask), FilesForm(indexFiles),
         \/ \E q \in ScipAsks : AskIndex(q)
         \/ PreOpen \/ Opened \/ OpenedLate \/ PostOpen \/ ReadIndex
  PROVE  AskInv(ask')
<1> USE DEF AskInv
<1>1. ASSUME NEW q \in ScipAsks, AskIndex(q) PROVE AskInv(ask')
  <2>1. ask.step = "idle" /\ ask' = [ask EXCEPT !.step = "preopen", !.query = <<q>>]  BY <1>1 DEF AskIndex
  <2>2. AskForm(ask') /\ ask'.step = "preopen" /\ ask'.query = <<q>> /\ ask'.handle = ask.handle /\ ask'.open = ask.open
    BY <2>1 DEF AskForm
  <2>3. NothingParsed(ask')  BY <2>1 DEF AskForm, NothingParsed
  <2> QED BY <2>1, <2>2, <2>3 DEF Held, Asked, Parsing, Selecting, Answering
<1>2. ASSUME PreOpen PROVE AskInv(ask')
  <2>1. ask.step = "preopen" /\ ask' = [ask EXCEPT !.step = "opening", !.pre = indexFiles.inode, !.pending = TRUE]  BY <1>2 DEF PreOpen
  <2>2. AskForm(ask') /\ ask'.step = "opening" /\ ask'.query = ask.query /\ ask'.handle = ask.handle /\ ask'.open = ask.open
    BY <2>1 DEF AskForm
  <2>3. NothingParsed(ask')  BY <2>1 DEF AskForm, NothingParsed
  <2> QED BY <2>1, <2>2, <2>3 DEF Held, Asked, Parsing, Selecting, Answering
<1>3. ASSUME Opened PROVE AskInv(ask')
  <2>1. ask.step = "opening" /\ ask' = [ask EXCEPT !.step = "postopen", !.pending = FALSE, !.handle = indexFiles.inode, !.open = @ + 1]
    BY <1>3 DEF Opened
  <2>2. indexFiles.inode \in Nat  BY DEF FilesForm
  <2>3. AskForm(ask') /\ ask'.step = "postopen" /\ ask'.query = ask.query /\ ask'.handle = indexFiles.inode /\ ask'.open = ask.open + 1
    BY <2>1, <2>2 DEF AskForm
  <2>4. NothingParsed(ask')  BY <2>1 DEF AskForm, NothingParsed
  <2> QED BY <2>1, <2>2, <2>3, <2>4 DEF Held, Asked, Parsing, Selecting, Answering
<1>4. ASSUME OpenedLate PROVE AskInv(ask')
  <2>1. ask.step = "ended" /\ ask' = [ask EXCEPT !.pending = FALSE]  BY <1>4 DEF OpenedLate
  <2>2. AskForm(ask') /\ ask'.step = "ended" /\ ask'.query = ask.query /\ ask'.handle = ask.handle /\ ask'.open = ask.open
        /\ ask'.status = ask.status /\ ask'.heap = ask.heap /\ ask'.truncated = ask.truncated /\ ask'.overflowed = ask.overflowed
    BY <2>1 DEF AskForm
  <2> QED BY <2>1, <2>2 DEF Held, Asked, NothingParsed, Parsing, Selecting, Answering, Collected
<1>5. ASSUME PostOpen PROVE AskInv(ask')
  <2>1. CASE Fails("UNAVAILABLE")  BY <2>1, FailsKeeps
  <2>2. CASE ask.step = "postopen" /\ ask' = [ask EXCEPT !.step = "reading"]
    <3>1. AskForm(ask') /\ ask'.step = "reading" /\ ask'.query = ask.query /\ ask'.handle = ask.handle /\ ask'.open = ask.open
      BY <2>2 DEF AskForm
    <3>2. NothingParsed(ask')  BY <2>2 DEF AskForm, NothingParsed
    <3> QED BY <2>2, <3>1, <3>2 DEF Held, Asked, Parsing, Selecting, Answering
  <2> QED BY <1>5, <2>1, <2>2 DEF PostOpen
<1>6. ASSUME ReadIndex PROVE AskInv(ask')
  <2>1. CASE Fails("STALE")  BY <2>1, FailsKeeps
  <2>2. CASE ask.step = "reading" /\ ask' = [Closed EXCEPT !.step = "parsing"]
    <3>1. Closed.open = 0 /\ Closed = [ask EXCEPT !.open = 0, !.handle = -1]  BY DEF AskForm, Held, Closed
    <3>2. ask' = [ask EXCEPT !.open = 0, !.handle = -1, !.step = "parsing"]  BY <2>2, <3>1 DEF AskForm
    <3>3. AskForm(ask') /\ ask'.step = "parsing" /\ ask'.query = ask.query /\ ask'.handle = -1 /\ ask'.open = 0
      BY <3>2 DEF AskForm
    <3>4. /\ ask'.heap = <<>> /\ ~ask'.overflowed /\ ask'.next = 1 /\ ask'.parsed = <<>> /\ ask'.semantic = 0 /\ ask'.occ = 0
          /\ ask'.read = {} /\ ask'.infos = {} /\ ask'.seen = {}
      BY <2>2, <3>2 DEF AskForm, NothingParsed
    <3>5. ToSet(ask'.parsed) = {} /\ ask'.parsed \in Seq(Occurrences)  BY <3>4 DEF ToSet
    <3>6. Parsing(ask')  BY <3>4, <3>5 DEF Parsing
    <3> QED BY <2>2, <3>3, <3>6 DEF Held, Asked, NothingParsed, Selecting, Answering
  <2> QED BY <1>6, <2>1, <2>2 DEF ReadIndex
<1> QED BY <1>1, <1>2, <1>3, <1>4, <1>5, <1>6

\* An occurrence is no symbol's description.
LEMMA PartsApart == \A i \in SymbolInfos : i \notin Occurrences
<1> SUFFICES ASSUME NEW i \in SymbolInfos, i \in Occurrences PROVE FALSE  OBVIOUS
<1>1. "line" \in DOMAIN i
  <2>1. i \in [doc : Docs, line : 0..(LineSpan - 1), sym : ScipSymbols, def : BOOLEAN]  BY ScipAssumption
  <2> QED BY <2>1
<1>2. "line" \notin DOMAIN i
  <2>1. i \in [doc : Docs, sym : ScipSymbols, rels : Seq([to : ScipSymbols, kind : STRING])]  BY ScipAssumption
  <2> QED BY <2>1
<1> QED BY <1>1, <1>2

\* With room for all its relationships, a description is kept whole.
LEMMA WholeRels ==
  ASSUME NEW i \in SymbolInfos, NEW room \in Int, room >= Len(i.rels)
  PROVE  [i EXCEPT !.rels = SubSeq(@, 1, Min({room, Len(@)}))] = i
<1>1. i \in [doc : Docs, sym : ScipSymbols, rels : Seq([to : ScipSymbols, kind : STRING])]  BY ScipAssumption
<1> DEFINE s == i.rels
           n == Len(s)
<1>2. s \in Seq([to : ScipSymbols, kind : STRING]) /\ n \in Nat  BY <1>1
<1>3. Min({room, n}) = n
  <2> HIDE DEF n, s
  <2>1. n \in {room, n} /\ \A v \in {room, n} : n <= v  BY <1>2 DEF n, s
  <2>2. \A x \in {room, n} : (\A v \in {room, n} : x <= v) => x = n  BY <1>2, <2>1
  <2> QED BY <2>1, <2>2, Zenon DEF Min
<1>4. SubSeq(s, 1, n) = s  BY <1>2
<1>5. [i EXCEPT !.rels = SubSeq(@, 1, Min({room, Len(@)}))] = [i EXCEPT !.rels = SubSeq(s, 1, Min({room, n}))]  OBVIOUS
<1>6. [i EXCEPT !.rels = SubSeq(s, 1, Min({room, n}))] = [i EXCEPT !.rels = i.rels]  BY <1>3, <1>4
<1>7. [i EXCEPT !.rels = i.rels] = i  BY <1>1
<1> QED BY <1>5, <1>6, <1>7

\* Reading the documents, their occurrences and their symbols.
LEMMA ParsingKeeps ==
  ASSUME AskInv(ask),
         \/ \E d \in Docs : NextDocument(d)
         \/ \E o \in Occurrences : ParseOccurrence(o)
         \/ \E i \in SymbolInfos : ParseSymbol(i)
  PROVE  AskInv(ask')
<1>0. AskForm(ask) /\ Held(ask) /\ Asked(ask) /\ Parsing(ask)  BY DEF AskInv
<1>1. ASSUME NEW d \in Docs, NextDocument(d) PROVE AskInv(ask')
  <2>1. ask.step = "parsing" /\ PartsOf(ask.document) \subseteq ask.read
        /\ \/ ask' = [ask EXCEPT !.seen = @ \cup {d}, !.document = d]
           \/ ask' = [ask EXCEPT !.seen = @ \cup {d}, !.truncated = TRUE]
    BY <1>1 DEF NextDocument
  <2>2. AskForm(ask') /\ ask'.step = "parsing" /\ ask'.query = ask.query /\ ask'.handle = ask.handle /\ ask'.open = ask.open
    BY <1>0, <2>1, ZenonT(60) DEF AskForm
  <2>3. /\ ask'.heap = ask.heap /\ ask'.overflowed = ask.overflowed /\ ask'.next = ask.next /\ ask'.parsed = ask.parsed
        /\ ask'.semantic = ask.semantic /\ ask'.occ = ask.occ /\ ask'.read = ask.read /\ ask'.infos = ask.infos
    BY <1>0, <2>1, ZenonT(60) DEF AskForm
  <2>4. ~ask'.truncated => ~ask.truncated /\ ask'.seen = ask.seen \cup {d} /\ ask'.document = d
    BY <1>0, <2>1, ZenonT(60) DEF AskForm
  <2>5. Parsing(ask')  BY <1>0, <2>1, <2>2, <2>3, <2>4 DEF Parsing
  <2> QED BY <1>0, <2>1, <2>2, <2>5, SMTT(30) DEF AskInv, Held, Asked, NothingParsed, Selecting, Answering
<1>2. ASSUME NEW o \in Occurrences, ParseOccurrence(o) PROVE AskInv(ask')
  <2> DEFINE fits == ask.occ < Query.bounds.occurrences
             over == ask.truncated \/ ask.occ >= Query.bounds.occurrences
             no == ask.occ + 1
             np == IF fits THEN Append(ask.parsed, o) ELSE ask.parsed
  <2>1. ask.step = "parsing"
        /\ ask' = [ask EXCEPT !.read = @ \cup {o}, !.occ = no, !.parsed = np, !.truncated = over]
    BY <1>0, <1>2 DEF ParseOccurrence, KeepOccurrence, AskForm
  <2>2. over \in BOOLEAN  OBVIOUS
  <2>3. Query.bounds.occurrences \in Nat /\ ask.occ \in Nat
    <3>1. Query \in ScipAsks  BY <1>0, <2>1 DEF Asked, Query
    <3> QED BY <1>0, <2>1, <3>1, ScipAssumption DEF Parsing
  <2>4. ~over => fits  BY <2>3
  <2> HIDE DEF fits, over, no, np
  <2>5. AskForm(ask') /\ ask'.step = "parsing" /\ ask'.query = ask.query /\ ask'.handle = ask.handle /\ ask'.open = ask.open
    BY <1>0, <2>1, <2>2, ZenonT(60) DEF AskForm
  <2>6. /\ ask'.heap = ask.heap /\ ask'.overflowed = ask.overflowed /\ ask'.next = ask.next /\ ask'.semantic = ask.semantic
        /\ ask'.occ = no /\ ask'.read = ask.read \cup {o} /\ ask'.infos = ask.infos
        /\ ask'.seen = ask.seen /\ ask'.document = ask.document /\ ask'.parsed = np
        /\ (ask'.truncated <=> over)
    BY <1>0, <2>1, <2>2, ZenonT(60) DEF AskForm
  <2>7. ask.parsed \in Seq(Occurrences) /\ ask'.parsed \in Seq(Occurrences) /\ ask'.occ \in Nat
    BY <1>0, <2>1, <2>3, <2>6 DEF Parsing, no, np
  <2>8. ~ask'.truncated => ~ask.truncated /\ ToSet(ask'.parsed) = ToSet(ask.parsed) \cup {o}
    <3> SUFFICES ASSUME ~ask'.truncated PROVE ~ask.truncated /\ ToSet(ask'.parsed) = ToSet(ask.parsed) \cup {o}  OBVIOUS
    <3>1. ~over /\ fits  BY <2>4, <2>6
    <3>2. ask'.parsed = Append(ask.parsed, o)  BY <2>6, <3>1 DEF np
    <3>3. ToSet(Append(ask.parsed, o)) = ToSet(ask.parsed) \cup {o}  BY <2>7, AppendedSet
    <3> QED BY <3>1, <3>2, <3>3 DEF over
  <2>9. Parsing(ask')
    <3>1. \A i \in SymbolInfos : i # o  BY PartsApart
    <3>2. ~ask'.truncated =>
            /\ ToSet(ask.parsed) = {x \in Occurrences : x \in ask.read} /\ ask.infos = {i \in SymbolInfos : i \in ask.read}
            /\ \A d \in ask.seen : d = ask.document \/ PartsOf(d) \subseteq ask.read
      BY <1>0, <2>1, <2>8 DEF Parsing
    <3>3. ~ask'.truncated => ToSet(ask'.parsed) = {x \in Occurrences : x \in ask'.read}  BY <2>6, <2>8, <3>2
    <3>4. ~ask'.truncated => ask'.infos = {i \in SymbolInfos : i \in ask'.read}  BY <2>6, <3>1, <3>2
    <3>5. ~ask'.truncated => \A d \in ask'.seen : d = ask'.document \/ PartsOf(d) \subseteq ask'.read  BY <2>6, <3>2
    <3>6. ask'.heap = <<>> /\ ~ask'.overflowed /\ ask'.next = 1 /\ ask'.semantic \in Nat  BY <1>0, <2>1, <2>6 DEF Parsing
    <3> QED BY <2>7, <3>3, <3>4, <3>5, <3>6 DEF Parsing
  <2> QED BY <1>0, <2>1, <2>5, <2>9 DEF AskInv, Held, Asked, NothingParsed, Selecting, Answering
<1>3. ASSUME NEW i \in SymbolInfos, ParseSymbol(i) PROVE AskInv(ask')
  <2> DEFINE room == Query.bounds.semantic - ask.semantic - 1
             more == 1 + (IF room >= 0 THEN Len(i.rels) ELSE 0)
             cut == [i EXCEPT !.rels = SubSeq(@, 1, Min({room, Len(@)}))]
             over == ask.truncated \/ room < Len(i.rels)
             ni == IF room >= 0 THEN ask.infos \cup {cut} ELSE ask.infos
             ns == ask.semantic + more
  <2>1. ask.step = "parsing" /\ ask' = [ask EXCEPT !.read = @ \cup {i}, !.semantic = ns, !.infos = ni, !.truncated = over]
    <3>1. ask.step = "parsing"
          /\ ask' = [ask EXCEPT !.read = @ \cup {i},
                                !.semantic = @ + 1 + (IF room >= 0 THEN Len(i.rels) ELSE 0),
                                !.infos = IF room >= 0 THEN @ \cup {cut} ELSE @,
                                !.truncated = @ \/ room < Len(i.rels)]
      BY <1>3 DEF ParseSymbol
    <3>2. Query \in ScipAsks /\ ask.semantic \in Nat  BY <1>0, <3>1 DEF Asked, Query, Parsing
    <3>3. Len(i.rels) \in Nat  BY ScipAssumption
    <3>4. ask.semantic + 1 + (IF room >= 0 THEN Len(i.rels) ELSE 0) = ns  BY <3>2, <3>3
    <3> HIDE DEF room, cut
    <3> QED BY <1>0, <3>1, <3>4 DEF AskForm
  <2>2. over \in BOOLEAN  OBVIOUS
  <2>3. room \in Int /\ Len(i.rels) \in Nat /\ ns \in Nat
    <3>1. Query \in ScipAsks /\ ask.semantic \in Nat  BY <1>0, <2>1 DEF Asked, Query, Parsing
    <3>2. Len(i.rels) \in Nat  BY ScipAssumption
    <3>3. Query.bounds.semantic \in Nat  BY <3>1, ScipAssumption
    <3> QED BY <3>1, <3>2, <3>3
  <2> HIDE DEF room, cut
  <2>4. ~over => room >= 0 /\ cut = i /\ ~ask.truncated
    <3>1. ~over => room >= Len(i.rels) /\ room >= 0 /\ ~ask.truncated  BY <2>3
    <3>2. room >= Len(i.rels) => cut = i  BY <2>3, WholeRels DEF cut
    <3> QED BY <3>1, <3>2
  <2> HIDE DEF over, more, ns
  <2>5. AskForm(ask') /\ ask'.step = "parsing" /\ ask'.query = ask.query /\ ask'.handle = ask.handle /\ ask'.open = ask.open
    <3> HIDE DEF ni
    <3> QED BY <1>0, <2>1, <2>2, ZenonT(60) DEF AskForm
  <2>6. /\ ask'.heap = ask.heap /\ ask'.overflowed = ask.overflowed /\ ask'.next = ask.next /\ ask'.semantic = ns
        /\ ask'.occ = ask.occ /\ ask'.read = ask.read \cup {i} /\ ask'.infos = ni
        /\ ask'.seen = ask.seen /\ ask'.document = ask.document /\ ask'.parsed = ask.parsed
        /\ (ask'.truncated <=> over)
    <3> HIDE DEF ni
    <3> QED BY <1>0, <2>1, <2>2, ZenonT(60) DEF AskForm
  <2>7. Parsing(ask')
    <3>1. \A o \in Occurrences : i # o  BY PartsApart
    <3>2. ~ask'.truncated =>
            /\ ToSet(ask.parsed) = {x \in Occurrences : x \in ask.read} /\ ask.infos = {x \in SymbolInfos : x \in ask.read}
            /\ \A d \in ask.seen : d = ask.document \/ PartsOf(d) \subseteq ask.read
      BY <1>0, <2>1, <2>4, <2>6 DEF Parsing
    <3>3. ~ask'.truncated => ToSet(ask'.parsed) = {x \in Occurrences : x \in ask'.read}  BY <2>6, <3>1, <3>2
    <3>4. ~ask'.truncated => ask'.infos = {x \in SymbolInfos : x \in ask'.read}
      <4>1. ~ask'.truncated => ask'.infos = ask.infos \cup {i}  BY <2>4, <2>6
      <4> QED BY <2>6, <3>2, <4>1
    <3>5. ~ask'.truncated => \A d \in ask'.seen : d = ask'.document \/ PartsOf(d) \subseteq ask'.read  BY <2>6, <3>2
    <3>6. ask'.heap = <<>> /\ ~ask'.overflowed /\ ask'.next = 1 /\ ask'.semantic \in Nat /\ ask'.occ \in Nat
          /\ ask'.parsed \in Seq(Occurrences)
      BY <1>0, <2>1, <2>3, <2>6 DEF Parsing
    <3> QED BY <3>3, <3>4, <3>5, <3>6 DEF Parsing
  <2> QED BY <1>0, <2>1, <2>5, <2>7 DEF AskInv, Held, Asked, NothingParsed, Selecting, Answering
<1> QED BY <1>1, <1>2, <1>3

\* When the documents are read, everything was, or a bound was met.
LEMMA EndParseKeeps ==
  ASSUME AskInv(ask), EndParse
  PROVE  AskInv(ask')
<1>0. AskForm(ask) /\ Held(ask) /\ Asked(ask) /\ Parsing(ask)  BY DEF AskInv
<1>1. CASE Fails("STALE")  BY <1>1, FailsKeeps
<1>2. CASE Fails("UNAVAILABLE")  BY <1>2, FailsKeeps
<1>3. CASE /\ ~(Anchored /\ Cardinality(AnchorKeys) # 1)
           /\ ask' = [ask EXCEPT !.step = "selecting", !.seen = {}, !.read = {}, !.document = 0]
  <2>1. ask.step = "parsing" /\ ask.seen = Docs /\ PartsOf(ask.document) \subseteq ask.read  BY DEF EndParse
  <2>2. AskForm(ask') /\ ask'.step = "selecting" /\ ask'.query = ask.query /\ ask'.handle = ask.handle /\ ask'.open = ask.open
    BY <1>0, <1>3, ZenonT(60) DEF AskForm
  <2>3. /\ ask'.heap = ask.heap /\ ask'.overflowed = ask.overflowed /\ ask'.next = ask.next /\ ask'.infos = ask.infos
        /\ ask'.parsed = ask.parsed /\ ask'.truncated = ask.truncated
    BY <1>0, <1>3, ZenonT(60) DEF AskForm
  <2>4. ask.heap = <<>> /\ ~ask.overflowed /\ ask.next = 1 /\ ask.parsed \in Seq(Occurrences)  BY <1>0, <2>1 DEF Parsing
  <2>5. ASSUME ~ask.truncated PROVE WholeRead(ask) /\ OneAnchor(ask.query[1])
    <3>1. \A d \in Docs : PartsOf(d) \subseteq ask.read  BY <1>0, <2>1, <2>5 DEF Parsing
    <3>2. ToSet(ask.parsed) = Occurrences
      <4>1. \A o \in Occurrences : o.doc \in Docs /\ o \in PartsOf(o.doc)  BY ScipAssumption DEF PartsOf
      <4> QED BY <1>0, <2>1, <2>5, <3>1, <4>1 DEF Parsing
    <3>3. ask.infos = SymbolInfos
      <4>1. \A i \in SymbolInfos : i.doc \in Docs /\ i \in PartsOf(i.doc)  BY ScipAssumption DEF PartsOf
      <4> QED BY <1>0, <2>1, <2>5, <3>1, <4>1 DEF Parsing
    <3>4. WholeRead(ask)  BY <2>4, <3>2, <3>3 DEF WholeRead
    <3>5. Anchored => \E K : AnchorsOf(Query) = {K}  BY <1>3, <3>4, AnchorsAre, FS_Singleton
    <3> QED BY <3>4, <3>5 DEF OneAnchor, Anchored, Query
  <2>6. Selecting(ask')
    <3> SUFFICES ASSUME ~ask'.truncated
                 PROVE  /\ WholeRead(ask') /\ OneAnchor(ask'.query[1]) /\ ask'.next \in 1..(Len(ask'.parsed) + 1)
                        /\ EachOnce(ask'.heap) /\ Len(ask'.heap) <= MaxResults /\ Collected(ask', Offered(ask')) /\ Ordered(ask'.heap)
      BY <2>2 DEF Selecting
    <3>1. WholeRead(ask') /\ OneAnchor(ask'.query[1])  BY <2>2, <2>3, <2>5 DEF WholeRead
    <3>2. ask'.next \in 1..(Len(ask'.parsed) + 1)  BY <2>3, <2>4
    <3>3. EachOnce(ask'.heap) /\ Len(ask'.heap) <= MaxResults /\ Ordered(ask'.heap) /\ ToSet(ask'.heap) = {}
      <4>1. ask'.heap = <<>> /\ MaxResults \in Nat  BY <2>3, <2>4, ScipAssumption
      <4> QED BY <4>1 DEF EachOnce, Ordered, ToSet
    <3>4. Offered(ask') = {}  BY <2>3, <2>4 DEF Offered
    <3>5. ~ask'.overflowed  BY <2>3, <2>4
    <3> QED BY <3>1, <3>2, <3>3, <3>4, <3>5 DEF Collected
  <2> QED BY <1>0, <2>1, <2>2, <2>6 DEF AskInv, Held, Asked, NothingParsed, Parsing, Answering
<1> QED BY <1>1, <1>2, <1>3 DEF EndParse

\* A rank is a number.
LEMMA RankIs == \A o \in Occurrences : Rank(o) \in Int
<1> SUFFICES ASSUME NEW o \in Occurrences PROVE Rank(o) \in Int  OBVIOUS
<1>1. o \in [doc : Docs, line : 0..(LineSpan - 1), sym : ScipSymbols, def : BOOLEAN] /\ LineSpan \in Nat /\ Docs \subseteq Nat
  BY ScipAssumption
<1>2. o.doc \in Nat /\ o.line \in Int
  <2>1. o.doc \in Docs /\ o.line \in 0..(LineSpan - 1)  BY <1>1
  <2>2. o.doc \in Nat  BY <1>1, <2>1
  <2>3. \A x \in 0..(LineSpan - 1) : x \in Int  OBVIOUS
  <2>4. o.line \in Int  BY ONLY <2>1, <2>3, Zenon
  <2> QED BY <2>2, <2>4
<1>3. \A x, y \in Nat : x * y \in Int  OBVIOUS
<1>4. LineSpan * o.doc \in Int  BY ONLY <1>1, <1>2, <1>3, Zenon
<1> QED BY <1>2, <1>4 DEF Rank

\* What one occurrence more offers.
LEMMA OneMoreOffered ==
  ASSUME NEW a, NEW b, b.parsed = a.parsed, b.query = a.query, b.next = a.next + 1, a.next \in Nat, a.next # 0
  PROVE  /\ WholeWants(a.query[1], a.parsed[a.next]) => Offered(b) = Offered(a) \cup {Rank(a.parsed[a.next])}
         /\ ~WholeWants(a.query[1], a.parsed[a.next]) => Offered(b) = Offered(a)
<1> DEFINE n == a.next
           w(j) == WholeWants(a.query[1], a.parsed[j])
           v(j) == Rank(a.parsed[j])
<1>1. Offered(a) = {v(i) : i \in {j \in 1..(n - 1) : w(j)}}  BY DEF Offered
<1>2. Offered(b) = {v(i) : i \in {j \in 1..n : w(j)}}
  <2>1. (a.next + 1) - 1 = n  OBVIOUS
  <2> QED BY <2>1 DEF Offered
<1>3. n \in 1..n /\ \A j : j \in 1..n <=> (j \in 1..(n - 1) \/ j = n)  OBVIOUS
<1> HIDE DEF n, w, v
<1>4. w(n) => Offered(b) = Offered(a) \cup {v(n)}  BY <1>1, <1>2, <1>3
<1>5. ~w(n) => Offered(b) = Offered(a)  BY <1>1, <1>2, <1>3
<1> QED BY <1>4, <1>5 DEF n, w, v

\* What is offered are numbers.
LEMMA OfferedAre ==
  ASSUME NEW a, a.parsed \in Seq(Occurrences), a.next \in 1..(Len(a.parsed) + 1), NEW e \in Offered(a)
  PROVE  e \in Int
<1>1. PICK i \in 1..(a.next - 1) : e = Rank(a.parsed[i])  BY DEF Offered
<1>2. i \in 1..Len(a.parsed)  BY <1>1
<1>3. a.parsed[i] \in Occurrences  BY <1>2
<1> QED BY <1>1, <1>3, RankIs

\* An offer keeps the heap and what it holds, unless a bound was met before.
LEMMA OfferKeeps ==
  ASSUME AskInv(ask), Offer
  PROVE  AskInv(ask')
<1>0. AskForm(ask) /\ Held(ask) /\ Asked(ask) /\ Selecting(ask)  BY DEF AskInv
<1> DEFINE o == ask.parsed[ask.next]
           r == Rank(o)
           h == ask.heap
           q == ask.query[1]
           n == ask.next + 1
           W == Offered(ask)
           V == Offered(ask')
           skip == ask' = [ask EXCEPT !.next = n]
           last == ask' = [ask EXCEPT !.next = n, !.heap = Append(h, r), !.step = "siftUp", !.at = Len(h) + 1]
           past == ask' = [ask EXCEPT !.next = n, !.overflowed = TRUE]
           first == ask' = [ask EXCEPT !.next = n, !.overflowed = TRUE, !.heap = [h EXCEPT ![1] = r], !.step = "siftDown", !.at = 1]
<1>1. ask.step = "selecting" /\ ask.next <= Len(ask.parsed)  BY DEF Offer
<1>2. \/ skip /\ (~Wants(o) \/ r \in ToSet(h))
      \/ Wants(o) /\ r \notin ToSet(h) /\ Len(h) < MaxResults /\ last
      \/ Wants(o) /\ r \notin ToSet(h) /\ ~(Len(h) < MaxResults) /\ r >= h[1] /\ past
      \/ Wants(o) /\ r \notin ToSet(h) /\ ~(Len(h) < MaxResults) /\ ~(r >= h[1]) /\ first
  BY <1>0 DEF Offer, AskForm
<1> HIDE DEF n
<1>3. /\ AskForm(ask') /\ ask'.step \in {"selecting", "siftUp", "siftDown"}
      /\ ask'.query = ask.query /\ ask'.handle = ask.handle /\ ask'.open = ask.open /\ ask'.parsed = ask.parsed
      /\ ask'.infos = ask.infos /\ ask'.truncated = ask.truncated /\ ask'.next = n
  <2>1. CASE skip  BY <1>0, <1>1, <2>1, ZenonT(60) DEF AskForm
  <2>2. CASE last
    <3> DEFINE x == Append(h, r)
               y == Len(h) + 1
    <3>1. ask' = [ask EXCEPT !.next = n, !.heap = x, !.step = "siftUp", !.at = y]  BY <2>2
    <3> HIDE DEF x, y
    <3> QED BY <1>0, <3>1, ZenonT(60) DEF AskForm
  <2>3. CASE past  BY <1>0, <1>1, <2>3, ZenonT(60) DEF AskForm
  <2>4. CASE first
    <3> DEFINE x == [h EXCEPT ![1] = r]
               y == 1
    <3>1. ask' = [ask EXCEPT !.next = n, !.overflowed = TRUE, !.heap = x, !.step = "siftDown", !.at = y]  BY <2>4
    <3> HIDE DEF x, y, h, r, o, q, W, V, skip, last, past, first
    <3>2. AskForm(ask)  BY <1>0
    <3> DEFINE b == [ask EXCEPT !.next = n, !.heap = x, !.at = y]
    <3>6. AskForm(b)  BY ONLY <3>2 DEF AskForm
    <3>7. ask' = [b EXCEPT !.overflowed = TRUE, !.step = "siftDown"]  BY ONLY <3>1, <3>2 DEF AskForm
    <3> HIDE DEF b
    <3>3. AskForm(ask') /\ ask'.step \in {"selecting", "siftUp", "siftDown"}  BY ONLY <3>6, <3>7, ZenonT(60) DEF AskForm
    <3>4. ask'.query = ask.query /\ ask'.handle = ask.handle /\ ask'.open = ask.open /\ ask'.parsed = ask.parsed
      BY ONLY <3>1, <3>2 DEF AskForm
    <3>5. ask'.infos = ask.infos /\ ask'.truncated = ask.truncated /\ ask'.next = n  BY ONLY <3>1, <3>2 DEF AskForm
    <3> QED BY <3>3, <3>4, <3>5
  <2> HIDE DEF skip, last, past, first
  <2> QED BY <1>2, <2>1, <2>2, <2>3, <2>4
<1>4. /\ ask'.query = ask.query /\ ask'.handle = ask.handle /\ ask'.open = ask.open /\ ask'.parsed = ask.parsed
      /\ ask'.infos = ask.infos /\ ask'.truncated = ask.truncated /\ ask'.next = n
  BY <1>3
<1>5. ASSUME ~ask.truncated PROVE Selecting(ask')
  <2>1. /\ WholeRead(ask) /\ OneAnchor(q) /\ ask.next \in 1..(Len(ask.parsed) + 1)
        /\ EachOnce(h) /\ Len(h) <= MaxResults /\ Collected(ask, W) /\ Ordered(h)
    BY <1>0, <1>1, <1>5 DEF Selecting
  <2>2. ask.next \in Nat /\ ask.next # 0 /\ o \in Occurrences /\ n \in 1..(Len(ask'.parsed) + 1)
    BY <1>1, <1>4, <2>1 DEF WholeRead, n
  <2>3. r \in Int  BY <2>2, RankIs
  <2>4. Wants(o) <=> WholeWants(q, o)  BY <1>0, <1>1, <2>1, <2>2, WantsAre DEF Asked, Query
  <2>5. (Wants(o) => V = W \cup {r}) /\ (~Wants(o) => V = W)
    BY <1>4, <2>2, <2>4, OneMoreOffered DEF n
  <2>6. WholeRead(ask') /\ OneAnchor(ask'.query[1]) /\ ask'.next \in 1..(Len(ask'.parsed) + 1)
    BY <1>4, <2>1, <2>2 DEF WholeRead
  <2>7. MaxResults \in Nat /\ MaxResults > 0 /\ Len(h) \in Nat  BY <2>1, ScipAssumption DEF EachOnce
  <2>8. \A k \in ToSet(h) : k \in Int /\ h[1] >= k /\ h[1] \in Int
    <3> SUFFICES ASSUME NEW k \in ToSet(h) PROVE k \in Int /\ h[1] >= k /\ h[1] \in Int  OBVIOUS
    <3>1. PICK i \in 1..Len(h) : k = h[i]  BY <2>1, SMTT(30) DEF ToSet, EachOnce
    <3>2. h[1] >= h[i]  BY <2>1, RootIsLargest
    <3> QED BY <2>1, <2>7, <3>1, <3>2 DEF EachOnce
  <2>9. ToSet(h) \subseteq W /\ (~ask.overflowed => ToSet(h) = W)
        /\ (ask.overflowed => Len(h) = MaxResults /\ \A e \in W \ ToSet(h), k \in ToSet(h) : k < e)
    BY <2>1 DEF Collected
  <2> HIDE DEF h, r, o, W, V
  <2>10. ASSUME skip, ~Wants(o) \/ r \in ToSet(h) PROVE Selecting(ask')
    <3>1. ask'.step = "selecting" /\ ask'.heap = h /\ ask'.overflowed = ask.overflowed  BY <1>0, <1>1, <2>10 DEF AskForm, h
    <3>2. V = W  BY <2>5, <2>9, <2>10
    <3>3. Collected(ask', V)  BY <2>9, <3>1, <3>2 DEF Collected
    <3> QED BY <2>1, <2>6, <3>1, <3>3 DEF Selecting, V
  <2>11. ASSUME Wants(o), r \notin ToSet(h), Len(h) < MaxResults, last PROVE Selecting(ask')
    <3> DEFINE x == Append(h, r)
               y == Len(h) + 1
    <3>1. ask' = [ask EXCEPT !.next = n, !.heap = x, !.step = "siftUp", !.at = y]  BY <2>11
    <3>2. EachOnce(x) /\ Len(x) = y /\ RisingAt(x, y)  BY <2>1, <2>3, <2>11, PutLast
    <3>3. ToSet(x) = ToSet(h) \cup {r}  BY <2>1, AppendedSet DEF EachOnce
    <3>4. y <= MaxResults  BY <2>7, <2>11
    <3> HIDE DEF x, y
    <3>5. ask'.step = "siftUp" /\ ask'.heap = x /\ ask'.at = y /\ ask'.overflowed = ask.overflowed  BY <1>0, <3>1 DEF AskForm
    <3>6. ~ask.overflowed  BY <2>7, <2>9, <2>11
    <3>7. Collected(ask', V)  BY <2>5, <2>9, <2>11, <3>3, <3>5, <3>6 DEF Collected
    <3> QED BY <2>6, <3>2, <3>4, <3>5, <3>7 DEF Selecting, V
  <2>12. ASSUME Wants(o), r \notin ToSet(h), ~(Len(h) < MaxResults), r >= h[1], past PROVE Selecting(ask')
    <3>1. ask'.step = "selecting" /\ ask'.heap = h /\ ask'.overflowed  BY <1>0, <1>1, <2>12 DEF AskForm, h
    <3>2. Len(h) = MaxResults  BY <2>1, <2>7, <2>12 DEF h
    <3>3. \A k \in ToSet(h) : k < r  BY <2>3, <2>8, <2>12
    <3>4. \A e \in V \ ToSet(h), k \in ToSet(h) : k < e  BY <2>5, <2>9, <2>12, <3>3
    <3>5. Collected(ask', V)  BY <2>5, <2>9, <2>12, <3>1, <3>2, <3>4 DEF Collected
    <3> QED BY <2>1, <2>6, <3>1, <3>5 DEF Selecting, V
  <2>13. ASSUME Wants(o), r \notin ToSet(h), ~(Len(h) < MaxResults), ~(r >= h[1]), first PROVE Selecting(ask')
    <3> DEFINE x == [h EXCEPT ![1] = r]
    <3>1. ask' = [ask EXCEPT !.next = n, !.overflowed = TRUE, !.heap = x, !.step = "siftDown", !.at = 1]  BY <2>13
    <3>2. Len(h) = MaxResults /\ 1 <= Len(h)  BY <2>1, <2>7, <2>13 DEF h
    <3>3. EachOnce(x) /\ Len(x) = Len(h) /\ SinkingAt(x, 1) /\ ToSet(x) = (ToSet(h) \ {h[1]}) \cup {r}
      BY <2>1, <2>3, <2>13, <3>2, PutFirst
    <3> HIDE DEF x
    <3>4. ask'.step = "siftDown" /\ ask'.heap = x /\ ask'.at = 1 /\ ask'.overflowed  BY <1>0, <3>1 DEF AskForm
    <3>5. h[1] \in ToSet(h) /\ h[1] \in Int
      <4>1. 1 \in 1..Len(h) /\ DOMAIN h = 1..Len(h) /\ h \in Seq(Int)  BY <2>1, <2>7, <3>2 DEF EachOnce
      <4> QED BY <4>1 DEF ToSet
    <3>6. r < h[1]  BY <2>3, <2>13, <3>5
    <3>7. \A k \in ToSet(x) : k < h[1] /\ k \in Int  BY <2>3, <2>8, <3>3, <3>5, <3>6
    <3>8. ToSet(x) \subseteq V  BY <2>5, <2>9, <2>13, <3>3
    <3>9. ASSUME NEW e \in V \ ToSet(x), NEW k \in ToSet(x) PROVE k < e
      <4>1. CASE e = h[1]  BY <3>7, <4>1
      <4>2. CASE e # h[1]
        <5>1. e \in W /\ e \notin ToSet(h)  BY <2>5, <2>13, <3>3, <3>9, <4>2
        <5>2. ask.overflowed  BY <2>9, <5>1
        <5>3. h[1] < e  BY <2>9, <3>5, <5>1, <5>2
        <5>4. \A i \in ToSet(h) : i < e  BY <2>9, <5>1, <5>2
        <5>5. k \in ToSet(h) \/ k = r  BY <3>3
        <5>6. e \in Int  BY <2>1, <5>1, OfferedAre DEF W, WholeRead
        <5> QED BY <2>3, <3>5, <3>6, <5>3, <5>4, <5>5, <5>6
      <4> QED BY <4>1, <4>2
    <3>10. Collected(ask', V)  BY <3>2, <3>3, <3>4, <3>8, <3>9 DEF Collected
    <3>11. Len(x) <= MaxResults  BY <2>7, <3>2, <3>3
    <3> QED BY <2>6, <3>3, <3>4, <3>10, <3>11 DEF Selecting, V
  <2> HIDE DEF skip, last, past, first
  <2> QED BY <1>2, <2>10, <2>11, <2>12, <2>13 DEF h, r, o
<1>6. Selecting(ask')  BY <1>4, <1>5 DEF Selecting
<1> QED BY <1>0, <1>1, <1>3, <1>4, <1>6 DEF AskInv, Held, Asked, NothingParsed, Parsing, Answering

\* Two places exchanged in a sequence.
LEMMA ExchangeIs ==
  ASSUME NEW h, EachOnce(h), NEW i \in 1..Len(h), NEW j \in 1..Len(h), i # j, NEW g, g = [h EXCEPT ![i] = h[j], ![j] = h[i]]
  PROVE  g \in Seq(Int) /\ Exchanged(h, g, i, j)
<1> DEFINE n == Len(h)
<1>1. n \in Nat /\ h \in Seq(Int) /\ DOMAIN h = 1..n /\ h[i] \in Int /\ h[j] \in Int  BY DEF EachOnce
<1>2. g \in Seq(Int) /\ Len(g) = n  BY <1>1
<1>3. g[i] = h[j] /\ g[j] = h[i] /\ \A k \in 1..n : k # i /\ k # j => g[k] = h[k]  BY <1>1
<1> QED BY <1>2, <1>3 DEF Exchanged

\* Settling the heap leaves what it holds; exchanging does too.
LEMMA SiftingKeeps ==
  ASSUME AskInv(ask), ask.step \in {"siftUp", "siftDown"},
         \/ ask' = SettleHeap /\ (~ask.truncated => Ordered(ask.heap))
         \/ \E j : /\ ask' = Exchange(ask.at, j)
                   /\ ~ask.truncated => \E g : /\ ask.at \in 1..Len(ask.heap) /\ j \in 1..Len(ask.heap) /\ ask.at # j
                                               /\ g = [ask.heap EXCEPT ![ask.at] = ask.heap[j], ![j] = ask.heap[ask.at]]
                                               /\ (ask.step = "siftUp" => RisingAt(g, j)) /\ (ask.step = "siftDown" => SinkingAt(g, j))
  PROVE  AskInv(ask')
<1>0. AskForm(ask) /\ Held(ask) /\ Asked(ask) /\ Selecting(ask)  BY DEF AskInv
<1>1. ASSUME ~ask.truncated
      PROVE  /\ WholeRead(ask) /\ OneAnchor(ask.query[1]) /\ ask.next \in 1..(Len(ask.parsed) + 1)
             /\ EachOnce(ask.heap) /\ Len(ask.heap) <= MaxResults /\ Collected(ask, Offered(ask))
  BY <1>0, <1>1 DEF Selecting
<1>2. CASE ask' = SettleHeap /\ (~ask.truncated => Ordered(ask.heap))
  <2> DEFINE z == 0
  <2>1. ask' = [ask EXCEPT !.step = "selecting", !.at = z]  BY <1>2 DEF SettleHeap
  <2> HIDE DEF z
  <2>2. AskForm(ask') /\ ask'.step = "selecting"  BY <1>0, <2>1 DEF AskForm
  <2>3. /\ ask'.query = ask.query /\ ask'.handle = ask.handle /\ ask'.open = ask.open /\ ask'.parsed = ask.parsed
        /\ ask'.infos = ask.infos /\ ask'.truncated = ask.truncated /\ ask'.next = ask.next /\ ask'.heap = ask.heap
        /\ ask'.overflowed = ask.overflowed
    BY <1>0, <2>1 DEF AskForm
  <2>4. Offered(ask') = Offered(ask)  BY <2>3 DEF Offered
  <2>5. Selecting(ask')
    <3> SUFFICES ASSUME ~ask.truncated
                 PROVE  /\ WholeRead(ask') /\ OneAnchor(ask'.query[1]) /\ ask'.next \in 1..(Len(ask'.parsed) + 1)
                        /\ EachOnce(ask'.heap) /\ Len(ask'.heap) <= MaxResults /\ Collected(ask', Offered(ask')) /\ Ordered(ask'.heap)
      BY <2>2, <2>3 DEF Selecting
    <3> QED BY <1>1, <1>2, <2>3, <2>4 DEF WholeRead, Collected
  <2> QED BY <1>0, <2>2, <2>3, <2>5 DEF AskInv, Held, Asked, NothingParsed, Parsing, Answering
<1>3. ASSUME NEW j, ask' = Exchange(ask.at, j),
             ~ask.truncated => \E g : /\ ask.at \in 1..Len(ask.heap) /\ j \in 1..Len(ask.heap) /\ ask.at # j
                                      /\ g = [ask.heap EXCEPT ![ask.at] = ask.heap[j], ![j] = ask.heap[ask.at]]
                                      /\ (ask.step = "siftUp" => RisingAt(g, j)) /\ (ask.step = "siftDown" => SinkingAt(g, j))
      PROVE  AskInv(ask')
  <2> DEFINE x == [ask.heap EXCEPT ![ask.at] = ask.heap[j], ![j] = ask.heap[ask.at]]
  <2>1. ask' = [ask EXCEPT !.heap = x, !.at = j]  BY <1>0, <1>3 DEF Exchange, AskForm
  <2>2. ~ask.truncated => /\ ask.at \in 1..Len(ask.heap) /\ j \in 1..Len(ask.heap) /\ ask.at # j
                          /\ (ask.step = "siftUp" => RisingAt(x, j)) /\ (ask.step = "siftDown" => SinkingAt(x, j))
    BY <1>3
  <2>3. ~ask.truncated => EachOnce(x) /\ ToSet(x) = ToSet(ask.heap) /\ Len(x) = Len(ask.heap)
    <3> SUFFICES ASSUME ~ask.truncated PROVE EachOnce(x) /\ ToSet(x) = ToSet(ask.heap) /\ Len(x) = Len(ask.heap)  OBVIOUS
    <3>1. x \in Seq(Int) /\ Exchanged(ask.heap, x, ask.at, j)  BY <1>1, <2>2, ExchangeIs
    <3> HIDE DEF x
    <3> QED BY <1>1, <3>1, ExchangeKeeps
  <2> HIDE DEF x
  <2>4. AskForm(ask') /\ ask'.step = ask.step /\ ask'.heap = x /\ ask'.at = j  BY <1>0, <2>1 DEF AskForm
  <2>5. /\ ask'.query = ask.query /\ ask'.handle = ask.handle /\ ask'.open = ask.open /\ ask'.parsed = ask.parsed
        /\ ask'.infos = ask.infos /\ ask'.truncated = ask.truncated /\ ask'.next = ask.next
        /\ ask'.overflowed = ask.overflowed
    BY <1>0, <2>1 DEF AskForm
  <2>6. Offered(ask') = Offered(ask)  BY <2>5 DEF Offered
  <2>7. Selecting(ask')
    <3> SUFFICES ASSUME ~ask.truncated
                 PROVE  /\ WholeRead(ask') /\ OneAnchor(ask'.query[1]) /\ ask'.next \in 1..(Len(ask'.parsed) + 1)
                        /\ EachOnce(ask'.heap) /\ Len(ask'.heap) <= MaxResults /\ Collected(ask', Offered(ask'))
                        /\ (ask.step = "siftUp" => RisingAt(ask'.heap, ask'.at)) /\ (ask.step = "siftDown" => SinkingAt(ask'.heap, ask'.at))
      BY <2>4, <2>5 DEF Selecting
    <3> QED BY <1>1, <2>2, <2>3, <2>4, <2>5, <2>6 DEF WholeRead, Collected
  <2> QED BY <1>0, <2>4, <2>5, <2>7 DEF AskInv, Held, Asked, NothingParsed, Parsing, Answering
<1> QED BY <1>2, <1>3

\* A step of siftUp.
LEMMA SiftUpKeeps ==
  ASSUME AskInv(ask), SiftUp
  PROVE  AskInv(ask')
<1> DEFINE h == ask.heap
           i == ask.at
           p == i \div 2
           b == IF p = 0 THEN 1 ELSE p
<1>1. ask.step = "siftUp" /\ (~ask.truncated => EachOnce(h) /\ RisingAt(h, i))  BY DEF AskInv, Selecting, SiftUp
<1>2. ask' = IF i = 1 \/ h[b] >= h[i] THEN SettleHeap ELSE Exchange(i, p)  BY DEF SiftUp
<1>3. ~ask.truncated => i \in 1..Len(h) /\ Len(h) \in Nat  BY <1>1 DEF RisingAt, EachOnce
<1>4. ~ask.truncated /\ i # 1 => p \in 1..Len(h) /\ Child(p, i) /\ b = p /\ i # p
  <2> SUFFICES ASSUME ~ask.truncated, i # 1 PROVE p \in 1..Len(h) /\ Child(p, i) /\ b = p /\ i # p  OBVIOUS
  <2>1. i \in Nat /\ i > 1 /\ i <= Len(h) /\ Len(h) \in Nat  BY <1>3
  <2> HIDE DEF i, h
  <2>2. p \in Nat /\ 1 <= p /\ p < i /\ (i = 2 * p \/ i = 2 * p + 1)  BY <2>1
  <2> QED BY <2>1, <2>2 DEF Child
<1> HIDE DEF p
<1>5. CASE i = 1 \/ h[b] >= h[i]
  <2>1. ~ask.truncated => Ordered(h)
    <3> SUFFICES ASSUME ~ask.truncated PROVE Ordered(h)  OBVIOUS
    <3>1. CASE i = 1  BY <1>1, <3>1, Rises
    <3>2. CASE i # 1
      <4>1. p \in 1..Len(h) /\ Child(p, i) /\ h[p] >= h[i]  BY <1>4, <1>5, <3>2
      <4> QED BY <1>1, <4>1, Rises
    <3> QED BY <3>1, <3>2
  <2>2. ask' = SettleHeap  BY <1>2, <1>5
  <2> QED BY <1>1, <2>1, <2>2, SiftingKeeps
<1>6. CASE ~(i = 1 \/ h[b] >= h[i])
  <2> DEFINE g == [h EXCEPT ![i] = h[p], ![p] = h[i]]
  <2>1. ~ask.truncated => i \in 1..Len(h) /\ p \in 1..Len(h) /\ i # p /\ RisingAt(g, p)
    <3> SUFFICES ASSUME ~ask.truncated PROVE i \in 1..Len(h) /\ p \in 1..Len(h) /\ i # p /\ RisingAt(g, p)  OBVIOUS
    <3>1. i \in 1..Len(h) /\ p \in 1..Len(h) /\ Child(p, i) /\ b = p /\ i # p  BY <1>3, <1>4, <1>6
    <3>2. h[p] \in Int /\ h[i] \in Int  BY <1>1, <3>1 DEF EachOnce
    <3>3. h[p] < h[i]  BY <1>6, <3>1, <3>2
    <3>4. Exchanged(h, g, i, p)  BY <1>1, <3>1, ExchangeIs
    <3> HIDE DEF g
    <3> QED BY <1>1, <3>1, <3>3, <3>4, Rises
  <2>2. ask' = Exchange(i, p)  BY <1>2, <1>6
  <2>3. ask.step # "siftDown"  BY <1>1
  <2> QED BY <1>1, <2>1, <2>2, <2>3, SiftingKeeps
<1> QED BY <1>5, <1>6

\* A step of siftDown.
LEMMA SiftDownKeeps ==
  ASSUME AskInv(ask), SiftDown
  PROVE  AskInv(ask')
<1> DEFINE h == ask.heap
           i == ask.at
           n == Len(h)
           j == Larger(i)
<1>1. ask.step = "siftDown" /\ (~ask.truncated => EachOnce(h) /\ SinkingAt(h, i))  BY DEF AskInv, Selecting, SiftDown
<1>2. ask' = IF 2 * i > n THEN SettleHeap ELSE IF h[i] >= h[j] THEN SettleHeap ELSE Exchange(i, j)  BY DEF SiftDown
<1>3. ~ask.truncated => i \in 1..n /\ n \in Nat /\ \A k \in 1..n : h[k] \in Int  BY <1>1 DEF SinkingAt, EachOnce
<1>4. ~ask.truncated /\ ~(2 * i > n) => LargestChild(h, i, j) /\ i # j
  <2> SUFFICES ASSUME ~ask.truncated, ~(2 * i > n) PROVE LargestChild(h, i, j) /\ i # j  OBVIOUS
  <2>1. i \in Nat /\ i >= 1 /\ 2 * i \in 1..n /\ n \in Nat /\ \A k \in 1..n : h[k] \in Int  BY <1>3
  <2>2. 2 * i + 1 <= n => Min({2 * i + 1, n}) = 2 * i + 1
    <3> DEFINE m == 2 * i + 1
    <3> HIDE DEF n
    <3> SUFFICES ASSUME m <= n PROVE Min({m, n}) = m  OBVIOUS
    <3>1. m \in Int /\ n \in Int  BY <2>1
    <3> HIDE DEF m
    <3>2. m \in {m, n} /\ \A v \in {m, n} : m <= v  BY <3>1
    <3>3. \A x \in {m, n} : (\A v \in {m, n} : x <= v) => x = m  BY <3>1, <3>2
    <3> QED BY <3>2, <3>3, Zenon DEF Min
  <2>3. j = IF 2 * i + 1 <= n /\ h[Min({2 * i + 1, n})] > h[2 * i] THEN 2 * i + 1 ELSE 2 * i  BY DEF Larger
  <2>4. (2 * i + 1 <= n /\ h[2 * i + 1] > h[2 * i] /\ j = 2 * i + 1)
        \/ (~(2 * i + 1 <= n /\ h[2 * i + 1] > h[2 * i]) /\ j = 2 * i)
    <3> HIDE DEF n, j, h
    <3> QED BY <2>2, <2>3
  <2> HIDE DEF h, i, j, n
  <2>5. j \in 1..n /\ Child(i, j) /\ i # j  BY <2>1, <2>4 DEF Child
  <2>6. \A c \in 1..n : Child(i, c) => h[j] >= h[c]
    <3> SUFFICES ASSUME NEW c \in 1..n, Child(i, c) PROVE h[j] >= h[c]  OBVIOUS
    <3>1. h[j] \in Int /\ h[c] \in Int  BY <2>1, <2>5
    <3>2. CASE c = 2 * i  BY <2>1, <2>4, <3>1, <3>2
    <3>3. CASE c = 2 * i + 1  BY <2>1, <2>4, <3>1, <3>3
    <3> QED BY <3>2, <3>3 DEF Child
  <2> QED BY <2>5, <2>6 DEF LargestChild, n
<1> HIDE DEF j
<1>5. CASE 2 * i > n \/ h[i] >= h[j]
  <2>1. ~ask.truncated => Ordered(h)
    <3> SUFFICES ASSUME ~ask.truncated PROVE Ordered(h)  OBVIOUS
    <3>1. CASE 2 * i > n  BY <1>1, <3>1, Sinks
    <3>2. CASE ~(2 * i > n)
      <4>1. LargestChild(h, i, j) /\ h[i] >= h[j]  BY <1>4, <1>5, <3>2
      <4> QED BY <1>1, <4>1, Sinks
    <3> QED BY <3>1, <3>2
  <2>2. ask' = SettleHeap  BY <1>2, <1>5
  <2> QED BY <1>1, <2>1, <2>2, SiftingKeeps
<1>6. CASE ~(2 * i > n) /\ ~(h[i] >= h[j])
  <2> DEFINE g == [h EXCEPT ![i] = h[j], ![j] = h[i]]
  <2>1. ~ask.truncated => i \in 1..Len(h) /\ j \in 1..Len(h) /\ i # j /\ SinkingAt(g, j)
    <3> SUFFICES ASSUME ~ask.truncated PROVE i \in 1..Len(h) /\ j \in 1..Len(h) /\ i # j /\ SinkingAt(g, j)  OBVIOUS
    <3>1. i \in 1..Len(h) /\ LargestChild(h, i, j) /\ i # j  BY <1>3, <1>4, <1>6
    <3>2. j \in 1..Len(h)  BY <3>1 DEF LargestChild
    <3>3. h[j] \in Int /\ h[i] \in Int  BY <1>1, <3>1, <3>2 DEF EachOnce
    <3>4. h[i] < h[j]  BY <1>6, <3>3
    <3>5. Exchanged(h, g, i, j)  BY <1>1, <3>1, <3>2, ExchangeIs
    <3> HIDE DEF g
    <3> QED BY <1>1, <3>1, <3>2, <3>4, <3>5, Sinks
  <2>2. ask' = Exchange(i, j)  BY <1>2, <1>6
  <2>3. ask.step # "siftUp"  BY <1>1
  <2> QED BY <1>1, <2>1, <2>2, <2>3, SiftingKeeps
<1> QED BY <1>5, <1>6

\* The end of the selection, the documents read again, and the answer.
LEMMA AnsweringKeeps ==
  ASSUME AskInv(ask), EndSelect \/ Revalidate \/ Answer
  PROVE  AskInv(ask')
<1>0. AskForm(ask) /\ Held(ask) /\ Asked(ask) /\ Selecting(ask) /\ Answering(ask)  BY DEF AskInv
<1>1. ASSUME EndSelect PROVE AskInv(ask')
  <2> DEFINE e == <<>>
             y == 1
  <2>1. ask.step = "selecting" /\ ask.next > Len(ask.parsed)
        /\ ask' = [ask EXCEPT !.step = "revalidating", !.parsed = e, !.next = y]
    BY <1>1 DEF EndSelect
  <2> HIDE DEF e, y
  <2>2. /\ AskForm(ask') /\ ask'.step = "revalidating" /\ ask'.query = ask.query /\ ask'.handle = ask.handle /\ ask'.open = ask.open
        /\ ask'.heap = ask.heap /\ ask'.truncated = ask.truncated /\ ask'.overflowed = ask.overflowed
    BY <1>0, <2>1 DEF AskForm
  <2>3. ASSUME ~ask.truncated PROVE Collected(ask', WholeAnswer(ask'.query[1]))
    <3>1. WholeRead(ask) /\ ask.next \in 1..(Len(ask.parsed) + 1) /\ Collected(ask, Offered(ask))  BY <1>0, <2>1, <2>3 DEF Selecting
    <3>2. ask.next - 1 = Len(ask.parsed)  BY <2>1, <3>1 DEF WholeRead
    <3> DEFINE n == Len(ask.parsed)
               w(o) == WholeWants(ask.query[1], o)
    <3>3. Offered(ask) = {Rank(ask.parsed[i]) : i \in {j \in 1..n : w(ask.parsed[j])}}  BY <3>2 DEF Offered
    <3>4. WholeAnswer(ask.query[1]) = {Rank(o) : o \in {p \in Occurrences : w(p)}}  BY DEF WholeAnswer
    <3>5. \A o : o \in Occurrences <=> \E i \in 1..n : ask.parsed[i] = o  BY <3>1 DEF WholeRead, ToSet
    <3> HIDE DEF n, w
    <3>6. Offered(ask) = WholeAnswer(ask.query[1])
      <4>1. \A v : v \in Offered(ask) <=> \E i \in 1..n : w(ask.parsed[i]) /\ v = Rank(ask.parsed[i])  BY <3>3
      <4>2. \A v : v \in WholeAnswer(ask.query[1]) <=> \E o \in Occurrences : w(o) /\ v = Rank(o)  BY <3>4
      <4>3. \A v : v \in Offered(ask) <=> v \in WholeAnswer(ask.query[1])  BY ONLY <3>5, <4>1, <4>2, Zenon
      <4> QED BY <4>3
    <3> QED BY <2>2, <3>1, <3>6 DEF Collected
  <2> QED BY <1>0, <2>1, <2>2, <2>3 DEF AskInv, Held, Asked, NothingParsed, Parsing, Selecting, Answering
<1>2. ASSUME Revalidate PROVE AskInv(ask')
  <2>1. CASE Fails("STALE")  BY <2>1, FailsKeeps
  <2>2. CASE ~Fails("STALE")
    <3> DEFINE c == ask.checked \cup {Min(ToCheck)}
    <3>1. ask.step = "revalidating" /\ ask' = [ask EXCEPT !.checked = c]  BY <1>0, <1>2, <2>2 DEF Revalidate, AskForm
    <3> HIDE DEF c
    <3>2. /\ AskForm(ask') /\ ask'.step = "revalidating" /\ ask'.query = ask.query /\ ask'.handle = ask.handle /\ ask'.open = ask.open
          /\ ask'.heap = ask.heap /\ ask'.truncated = ask.truncated /\ ask'.overflowed = ask.overflowed
      BY <1>0, <3>1 DEF AskForm
    <3> QED BY <1>0, <3>1, <3>2 DEF AskInv, Held, Asked, NothingParsed, Parsing, Selecting, Answering, Collected
  <2> QED BY <2>1, <2>2
<1>3. ASSUME Answer PROVE AskInv(ask')
  <2> DEFINE s == IF Truncated \/ Completeness # "COMPLETE" THEN "PARTIAL" ELSE "COMPLETED"
  <2>1. ask.step = "revalidating" /\ ask' = [ask EXCEPT !.step = "ended", !.status = s]  BY <1>3 DEF Answer
  <2>2. s = "COMPLETED" => ~ask.truncated /\ ~ask.overflowed /\ ask.query[1].completeness = "COMPLETE"
    BY DEF Truncated, Completeness, Query
  <2> HIDE DEF s
  <2>4. /\ AskForm(ask') /\ ask'.step = "ended" /\ ask'.query = ask.query /\ ask'.handle = ask.handle /\ ask'.open = ask.open
        /\ ask'.heap = ask.heap /\ ask'.truncated = ask.truncated /\ ask'.overflowed = ask.overflowed /\ ask'.status = s
    BY <1>0, <2>1 DEF AskForm
  <2> QED BY <1>0, <2>1, <2>2, <2>4 DEF AskInv, Held, Asked, NothingParsed, Parsing, Selecting, Answering, Collected
<1> QED BY <1>1, <1>2, <1>3

\* The inductive invariant of a query and of the numbers in its index.
ScipInv == AskInv(ask) /\ FilesForm(indexFiles) /\ WireInv(wire)

\* It holds before a query is asked and before a byte is read.
LEMMA ScipInitially ==
  ASSUME ScipInit
  PROVE  ScipInv
<1>1. AskForm(ask)  BY DEF ScipInit, NoAsk, AskForm
<1>2. AskInv(ask)
  <2>1. ask.step = "idle" /\ ask.handle = -1 /\ ask.open = 0  BY DEF ScipInit, NoAsk
  <2>2. NothingParsed(ask)  BY DEF ScipInit, NoAsk, NothingParsed
  <2> QED BY <1>1, <2>1, <2>2 DEF AskInv, Held, Asked, Parsing, Selecting, Answering
<1>3. FilesForm(indexFiles)  BY DEF ScipInit, FilesForm
<1>4. WireInv(wire)
  <2>1. wire = [bytes |-> <<>>, value |-> 0, shift |-> 0, status |-> "reading"]  BY DEF ScipInit
  <2>2. TwoTo(0) = 1 /\ NumberOf(<<>>) = 0
    <3>1. <<>> \in Seq(Nat) /\ 0 \in Nat  OBVIOUS
    <3> QED BY <3>1, TwoToIs, NumberGrows
  <2>3. PayloadBits * 0 = 0 /\ 0 <= Width - 1
    <3>1. PayloadBits \in Nat /\ Width \in Nat  BY ScipAssumption
    <3>2. Width >= 1
      <4>1. PICK k \in 1..Width : Width = k * PayloadBits + 1  BY ScipAssumption
      <4> QED BY <3>1, <4>1
    <3> QED BY <3>1, <3>2
  <2>4. wire.bytes = <<>> /\ wire.value = 0 /\ wire.shift = 0 /\ wire.status = "reading" /\ Len(wire.bytes) = 0
        /\ wire \in [bytes : Seq(Nat), value : Nat, shift : Nat, status : {"reading", "done", "error"}]
    BY <2>1
  <2>5. wire.shift = PayloadBits * Len(wire.bytes) /\ wire.value = NumberOf(wire.bytes)  BY <2>2, <2>3, <2>4
  <2>6. wire.value < TwoTo(wire.shift) /\ wire.shift <= Width - 1  BY <2>2, <2>3, <2>4
  <2> QED BY <2>4, <2>5, <2>6 DEF WireInv
<1> QED BY <1>2, <1>3, <1>4 DEF ScipInv

\* Every step keeps it.
LEMMA ScipStep ==
  ASSUME ScipInv, [ScipNext]_scipVars
  PROVE  ScipInv'
<1>0. AskInv(ask) /\ FilesForm(indexFiles) /\ WireInv(wire)  BY DEF ScipInv
<1>1. CASE UNCHANGED scipVars
  <2>1. ask' = ask /\ indexFiles' = indexFiles /\ wire' = wire  BY <1>1 DEF scipVars
  <2> QED BY <1>0, <2>1 DEF ScipInv
<1>2. CASE SwapIndex \/ \E d \in Docs : EditDocument(d)
  <2>1. ask' = ask /\ wire' = wire  BY <1>2 DEF SwapIndex, EditDocument
  <2>2. FilesForm(indexFiles')
    <3>1. CASE SwapIndex
      <4> DEFINE c == indexFiles.changes + 1
                 i == indexFiles.inode + 1
      <4>1. indexFiles' = [indexFiles EXCEPT !.inode = i, !.changes = c]  BY <3>1 DEF SwapIndex
      <4>2. i \in Nat  BY <1>0 DEF FilesForm
      <4> HIDE DEF c, i
      <4> QED BY <1>0, <4>1, <4>2 DEF FilesForm
    <3>2. ASSUME NEW d \in Docs, EditDocument(d) PROVE FilesForm(indexFiles')
      <4> DEFINE c == indexFiles.changes + 1
                 ds == [indexFiles.docs EXCEPT ![d] = 1]
      <4>1. indexFiles' = [indexFiles EXCEPT !.docs = ds, !.changes = c]  BY <1>0, <3>2 DEF EditDocument, FilesForm
      <4> HIDE DEF c, ds
      <4> QED BY <1>0, <4>1 DEF FilesForm
    <3> QED BY <1>2, <3>1, <3>2
  <2> QED BY <1>0, <2>1, <2>2 DEF ScipInv
<1>3. ASSUME NEW s \in {"MALFORMED", "STALE", "UNSUPPORTED", "VERSION_MISMATCH", "UNAVAILABLE", "TIMEOUT"},
             Fails(s), UNCHANGED <<indexFiles, wire>>
      PROVE  ScipInv'
  BY <1>0, <1>3, FailsKeeps DEF ScipInv
<1>4. ASSUME \/ \E q \in ScipAsks : AskIndex(q)
             \/ PreOpen \/ Opened \/ OpenedLate \/ PostOpen \/ ReadIndex
      PROVE  ScipInv'
  <2>1. AskInv(ask')  BY <1>0, <1>4, OpeningKeeps
  <2>2. UNCHANGED <<indexFiles, wire>>  BY <1>4 DEF AskIndex, PreOpen, Opened, OpenedLate, PostOpen, ReadIndex
  <2> QED BY <1>0, <2>1, <2>2 DEF ScipInv
<1>5. ASSUME (\E d \in Docs : NextDocument(d)) \/ (\E o \in Occurrences : ParseOccurrence(o)) \/ (\E i \in SymbolInfos : ParseSymbol(i))
      PROVE  ScipInv'
  <2>1. AskInv(ask')  BY <1>0, <1>5, ParsingKeeps, ZenonT(30)
  <2>2. UNCHANGED <<indexFiles, wire>>  BY <1>5 DEF NextDocument, ParseOccurrence, ParseSymbol
  <2> QED BY <1>0, <2>1, <2>2 DEF ScipInv
<1>6. ASSUME EndParse \/ Offer \/ SiftUp \/ SiftDown \/ EndSelect \/ Revalidate \/ Answer PROVE ScipInv'
  <2>1. AskInv(ask')  BY <1>0, <1>6, EndParseKeeps, OfferKeeps, SiftUpKeeps, SiftDownKeeps, AnsweringKeeps
  <2>2. UNCHANGED <<indexFiles, wire>>  BY <1>6 DEF EndParse, Offer, SiftUp, SiftDown, EndSelect, Revalidate, Answer
  <2> QED BY <1>0, <2>1, <2>2 DEF ScipInv
<1>7. ASSUME NEW b \in 0..(2 * TwoTo(PayloadBits) - 1), ReadByte(b) PROVE ScipInv'
  <2>1. WireInv(wire')  BY <1>0, <1>7, WireKeeps
  <2>2. UNCHANGED <<indexFiles, ask>>  BY <1>7 DEF ReadByte
  <2> QED BY <1>0, <2>1, <2>2 DEF ScipInv
<1>8. CASE \E s \in {"MALFORMED", "STALE", "UNSUPPORTED", "VERSION_MISMATCH"} : RefuseAsk(s)  BY <1>3, <1>8 DEF RefuseAsk
<1>9. CASE Unreadable  BY <1>3, <1>9 DEF Unreadable
<1>10. CASE InterruptQuery  BY <1>3, <1>10 DEF InterruptQuery
<1>11. CASE \E s \in {"MALFORMED", "VERSION_MISMATCH"} : Malformed(s)  BY <1>3, <1>11 DEF Malformed
<1> QED BY <1>1, <1>2, <1>4, <1>5, <1>6, <1>7, <1>8, <1>9, <1>10, <1>11 DEF ScipNext

\* A query of the index is answered soundly: no descriptor stays open; an answer that does not say it
\* was cut is all of the answer, whatever the bounds and the order of the index; one cut by the result
\* limit holds the first results; COMPLETED is said of a complete index alone; and a varint is read to
\* its value.
THEOREM ScipHolds == ScipSpec => []ScipAnswerIsSound
<1>1. ScipInit => ScipInv  BY ScipInitially
<1>2. ScipInv /\ [ScipNext]_scipVars => ScipInv'  BY ScipStep
<1>3. ScipInv => ScipAnswerIsSound
  <2> SUFFICES ASSUME ScipInv PROVE ScipAnswerIsSound  OBVIOUS
  <2>1. AskForm(ask) /\ Held(ask) /\ Answering(ask) /\ WireInv(wire)  BY DEF ScipInv, AskInv
  <2>2. NoHandleLeaks  BY <2>1 DEF NoHandleLeaks, Held
  <2>3. CompletedIsWhole  BY <2>1 DEF CompletedIsWhole, Answered, Truncated, Answering, Collected, Query
  <2>4. FirstResultsKept  BY <2>1 DEF FirstResultsKept, Answered, Answering, Collected, Query
  <2>5. VarintExact  BY <2>1 DEF VarintExact, WireInv
  <2> QED BY <2>2, <2>3, <2>4, <2>5 DEF ScipAnswerIsSound
<1> QED BY <1>1, <1>2, <1>3, PTL DEF ScipSpec
=============================================================================
