-------------------------- MODULE Recursion_proofs --------------------------
(***************************************************************************)
(* Induction up to a number, what a recursive function on numbers is worth *)
(* (it exists, and stays in a set its steps stay in), and what follows for *)
(* the groups of Grouping, where each place is in the group of its key,    *)
(* once, and for sequences that are flattened.                             *)
(***************************************************************************)
EXTENDS Grouping, Sums, SequencesExt, WellFoundedInduction, SequenceTheorems, TLAPS

(* A nonempty set of numbers has a least member.                           *)
LEMMA Least ==
    ASSUME NEW T \in SUBSET Nat, T # {}
    PROVE  \E n \in T : \A m \in T : n <= m
<1>1. \E n \in T : \A m \in T : <<m, n>> \notin OpToRel(<, Nat)
  BY NatLessThanWellFounded, WFMin
<1>2. \A m, n \in T : ~(m < n) => n <= m
  OBVIOUS
<1> QED
  BY <1>1, <1>2 DEF OpToRel

(* Induction up to N, over a set instead of a predicate.                   *)
LEMMA Induction ==
    ASSUME NEW N \in Nat, NEW S, 0 \in S,
           \A n \in 0..N : n \in S /\ n < N => n + 1 \in S
    PROVE  \A n \in 0..N : n \in S
<1> SUFFICES ASSUME NEW k \in 0..N, k \notin S PROVE FALSE
  OBVIOUS
<1> DEFINE T == {n \in 0..N : n \notin S}
<1>1. T \in SUBSET Nat /\ T # {}
  OBVIOUS
<1>2. PICK n \in T : \A m \in T : n <= m
  BY <1>1, Least
<1>3. n # 0 /\ n - 1 \in 0..N /\ n - 1 < N /\ ~(n <= n - 1)
  BY <1>2
<1>4. n - 1 \in S
  BY <1>2, <1>3
<1> QED
  BY <1>2, <1>3, <1>4

(* f starts at first, and step n takes its value at n - 1, if that is in D, *)
(* to the one at n.                                                        *)
Recurs(f, N, D, first, step) ==
    /\ f = [n \in 0..N |-> f[n]] /\ f[0] = first
    /\ \A n \in 1..N : f[n - 1] \in D => f[n] = step[n][f[n - 1]]

(* The function of a recursive definition exists.                          *)
LEMMA RecursionExists ==
    ASSUME NEW N \in Nat, NEW D, NEW first \in D, NEW step \in [1..N -> [D -> D]]
    PROVE  \E f : Recurs(f, N, D, first, step)
<1> DEFINE Upto(m, f) == f[0] = first /\ \A n \in 1..m : f[n] = step[n][f[n - 1]]
           S == {m \in 0..N : \E f \in [0..m -> D] : Upto(m, f)}
<1>1. 0 \in S
  <2>1. [n \in 0..0 |-> first] \in [0..0 -> D] /\ Upto(0, [n \in 0..0 |-> first])
    OBVIOUS
  <2>2. \E f \in [0..0 -> D] : Upto(0, f)
    BY <2>1
  <2>3. 0 \in 0..N
    OBVIOUS
  <2> QED
    BY <2>2, <2>3, Zenon
<1>2. ASSUME NEW m \in 0..N, m \in S, m < N PROVE m + 1 \in S
  <2>1. PICK f \in [0..m -> D] : Upto(m, f)
    BY <1>2
  <2> DEFINE g == [n \in 0..(m + 1) |-> IF n = m + 1 THEN step[m + 1][f[m]] ELSE f[n]]
  <2>2. m + 1 \in 1..N /\ m \in 0..m /\ m + 1 \in 0..N
    BY <1>2
  <2>3. step[m + 1][f[m]] \in D
    <3>1. step[m + 1] \in [D -> D] /\ f[m] \in D
      BY <2>2
    <3> QED
      BY <3>1
  <2>4. g \in [0..(m + 1) -> D]
    <3>1. \A n \in 0..(m + 1) : n = m + 1 \/ n \in 0..m
      OBVIOUS
    <3>2. \A n \in 0..m : f[n] \in D
      OBVIOUS
    <3> QED
      BY <2>3, <3>1, <3>2
  <2>5. Upto(m + 1, g)
    <3>1. g[0] = first
      BY <2>1
    <3>2. ASSUME NEW n \in 1..(m + 1) PROVE g[n] = step[n][g[n - 1]]
      <4>1. n - 1 \in 0..(m + 1) /\ n \in 0..(m + 1) /\ n - 1 # m + 1
        OBVIOUS
      <4>2. g[n - 1] = f[n - 1]
        BY <4>1
      <4>3. CASE n = m + 1
        <5>1. g[n] = step[n][f[n - 1]]
          BY <4>1, <4>3
        <5> HIDE DEF g
        <5> QED
          BY <4>2, <5>1
      <4>4. CASE n # m + 1
        <5>1. n \in 1..m
          BY <4>4
        <5>2. g[n] = f[n] /\ f[n] = step[n][f[n - 1]]
          BY <2>1, <4>1, <4>4, <5>1
        <5> HIDE DEF g
        <5> QED
          BY <4>2, <5>2
      <4> QED
        BY <4>3, <4>4
    <3> QED
      BY <3>1, <3>2
  <2> HIDE DEF g
  <2>6. \E h \in [0..(m + 1) -> D] : Upto(m + 1, h)
    BY <2>4, <2>5
  <2> QED
    BY <2>2, <2>6, Zenon
<1> HIDE DEF S
<1>3. \A n \in 0..N : n \in S /\ n < N => n + 1 \in S
  BY <1>2
<1>4. \A n \in 0..N : n \in S
  BY <1>1, <1>3, Induction
<1>5. N \in S
  BY <1>4
<1>6. PICK f \in [0..N -> D] : Upto(N, f)
  BY <1>5, Zenon DEF S
<1>7. Recurs(f, N, D, first, step)
  BY <1>6 DEF Recurs
<1> QED
  BY <1>7
----------------------------------------------------------------------------
(* A function whose value at n comes from its value at n - 1 by a step of  *)
(* one set into itself stays in that set.                                  *)
LEMMA RecursionType ==
    ASSUME NEW N \in Nat, NEW D, NEW first \in D, NEW step \in [1..N -> [D -> D]],
           NEW f, Recurs(f, N, D, first, step)
    PROVE  f \in [0..N -> D]
<1> DEFINE S == {n \in 0..N : f[n] \in D}
<1>1. 0 \in S
  BY DEF Recurs
<1>2. ASSUME NEW n \in 0..N, n \in S, n < N PROVE n + 1 \in S
  <2>1. n + 1 \in 1..N /\ n + 1 \in 0..N /\ (n + 1) - 1 = n
    BY <1>2
  <2>2. f[n] \in D
    BY <1>2
  <2>3. f[n + 1] = step[n + 1][f[n]]
    BY <2>1, <2>2 DEF Recurs
  <2>4. step[n + 1] \in [D -> D]
    BY <2>1
  <2> QED
    BY <2>1, <2>2, <2>3, <2>4
<1>3. \A n \in 0..N : n \in S /\ n < N => n + 1 \in S
  BY <1>2
<1>4. \A n \in 0..N : n \in S
  <2> HIDE DEF S
  <2> QED
    BY <1>1, <1>3, Induction
<1>5. \A n \in 0..N : f[n] \in D
  BY <1>4
<1> QED
  BY <1>5 DEF Recurs

(* The recursive definition of TotalUpTo, unfolded; D is a set of numbers  *)
(* that is closed under sums.                                              *)
LEMMA TotalUpToValues ==
    ASSUME NEW D, 0 \in D, \A a, b \in D : a + b \in D,
           NEW N \in Nat, NEW sizes, Len(sizes) = N, \A n \in 1..N : sizes[n] \in D
    PROVE  LET total == TotalUpTo(sizes)
           IN  /\ total \in [0..N -> D]
               /\ total[0] = 0
               /\ \A n \in 1..N : total[n] = total[n - 1] + sizes[n]
<1> DEFINE Value(f, n) == IF n = 0 THEN 0 ELSE f[n - 1] + sizes[n]
           step == [n \in 1..N |-> [q \in D |-> q + sizes[n]]]
<1>1. step \in [1..N -> [D -> D]]
  <2>1. \A n \in 1..N : step[n] \in [D -> D]
    OBVIOUS
  <2> QED
    BY <2>1
<1>2. \A n \in 1..N : \A q \in D : step[n][q] = q + sizes[n]
  OBVIOUS
<1> HIDE DEF step
<1> DEFINE Unfolded(f) == Recurs(f, N, D, 0, step)
<1>3. PICK f : Unfolded(f)
  BY <1>1, RecursionExists
<1>4. ASSUME NEW g, Unfolded(g) PROVE g \in [0..N -> D]
  BY <1>1, <1>4, RecursionType
<1>5. f = [n \in 0..N |-> Value(f, n)]
  <2>1. f = [n \in 0..N |-> f[n]] /\ f[0] = 0
    BY <1>3 DEF Recurs
  <2>2. f \in [0..N -> D]
    BY <1>3, <1>4
  <2>3. ASSUME NEW n \in 0..N PROVE f[n] = Value(f, n)
    <3>1. CASE n = 0
      BY <2>1, <3>1
    <3>2. CASE n # 0
      <4>1. n \in 1..N /\ n - 1 \in 0..N
        BY <3>2
      <4>2. f[n - 1] \in D /\ f[n] = step[n][f[n - 1]]
        BY <1>3, <2>2, <4>1 DEF Recurs
      <4> QED
        BY <1>2, <3>2, <4>1, <4>2
    <3> QED
      BY <3>1, <3>2
  <2> QED
    BY <2>1, <2>3
<1> DEFINE total == TotalUpTo(sizes)
<1>6. total = [n \in 0..N |-> Value(total, n)]
  <2>1. total = CHOOSE g : g = [n \in 0..N |-> Value(g, n)]
    BY DEF TotalUpTo
  <2> HIDE DEF Value, total
  <2> QED
    BY <1>5, <2>1
<1> HIDE DEF total
<1>7. \A n \in 0..N : total[n] = Value(total, n)
  <2> HIDE DEF Value
  <2> QED
    BY <1>6
<1>8. total = [n \in 0..N |-> total[n]]
  BY <1>6
<1>9. total[0] = 0
  BY <1>7
<1>10. \A n \in 1..N : total[n] = total[n - 1] + sizes[n]
  BY <1>7
<1>11. \A n \in 1..N : total[n - 1] \in D => total[n] = step[n][total[n - 1]]
  BY <1>2, <1>10
<1>12. total \in [0..N -> D]
  <2>1. Unfolded(total)
    BY <1>8, <1>9, <1>11 DEF Recurs
  <2> QED
    BY <1>4, <2>1
<1> QED
  BY <1>9, <1>10, <1>12 DEF total

(* Sums of natural numbers.                                                *)
LEMMA NaturalTotals ==
    ASSUME NEW N \in Nat, NEW sizes, Len(sizes) = N, \A n \in 1..N : sizes[n] \in Nat
    PROVE  /\ TotalUpTo(sizes) \in [0..N -> Nat]
           /\ TotalUpTo(sizes)[0] = 0
           /\ \A n \in 1..N : TotalUpTo(sizes)[n] = TotalUpTo(sizes)[n - 1] + sizes[n]
<1> DEFINE D == Nat
<1>1. 0 \in D /\ (\A a, b \in D : a + b \in D) /\ \A n \in 1..N : sizes[n] \in D
  OBVIOUS
<1>2. /\ TotalUpTo(sizes) \in [0..N -> D]
      /\ TotalUpTo(sizes)[0] = 0
      /\ \A n \in 1..N : TotalUpTo(sizes)[n] = TotalUpTo(sizes)[n - 1] + sizes[n]
  <2> HIDE DEF D
  <2> QED
    BY <1>1, TotalUpToValues
<1> QED
  BY <1>2

(* The recursive definition of PlacesUpTo, unfolded.                       *)
LEMMA PlacesUpToValues ==
    ASSUME NEW N \in Nat, NEW keys, Len(keys) = N, NEW key
    PROVE  LET p == PlacesUpTo(key, keys)
           IN  /\ p \in [0..N -> Seq(1..N)]
               /\ p[0] = <<>>
               /\ \A n \in 1..N : p[n] = IF keys[n] = key THEN Append(p[n - 1], n)
                                         ELSE p[n - 1]
<1> DEFINE D == Seq(1..N)
           Value(f, n) == IF n = 0 THEN <<>>
                          ELSE IF keys[n] = key THEN Append(f[n - 1], n) ELSE f[n - 1]
           step == [n \in 1..N |-> [q \in D |-> IF keys[n] = key THEN Append(q, n) ELSE q]]
<1>1. <<>> \in D
  OBVIOUS
<1>2. \A n \in 1..N : \A q \in D : Append(q, n) \in D
  OBVIOUS
<1> HIDE DEF D
<1>3. step \in [1..N -> [D -> D]]
  <2>1. \A n \in 1..N : step[n] \in [D -> D]
    BY <1>2
  <2> QED
    BY <2>1
<1>4. \A n \in 1..N : \A q \in D :
         step[n][q] = IF keys[n] = key THEN Append(q, n) ELSE q
  OBVIOUS
<1> HIDE DEF step
<1> DEFINE none == <<>>
           Unfolded(f) == Recurs(f, N, D, none, step)
<1> HIDE DEF none
<1>5. none \in D
  BY <1>1 DEF none
<1>6. PICK f : Unfolded(f)
  BY <1>3, <1>5, RecursionExists
<1>7. ASSUME NEW g, Unfolded(g) PROVE g \in [0..N -> D]
  BY <1>3, <1>5, <1>7, RecursionType
<1>8. f = [n \in 0..N |-> Value(f, n)]
  <2>1. f = [n \in 0..N |-> f[n]] /\ f[0] = <<>>
    BY <1>6 DEF Recurs, none
  <2>3. f \in [0..N -> D]
    BY <1>6, <1>7
  <2>2. ASSUME NEW n \in 0..N PROVE f[n] = Value(f, n)
    <3>1. CASE n = 0
      BY <2>1, <3>1
    <3>2. CASE n # 0
      <4>1. n \in 1..N /\ n - 1 \in 0..N
        BY <3>2
      <4>2. f[n - 1] \in D /\ f[n] = step[n][f[n - 1]]
        BY <1>6, <2>3, <4>1 DEF Recurs
      <4> QED
        BY <1>4, <3>2, <4>1, <4>2
    <3> QED
      BY <3>1, <3>2
  <2> QED
    BY <2>1, <2>2
<1> DEFINE p == PlacesUpTo(key, keys)
<1>9. p = [n \in 0..N |-> Value(p, n)]
  <2>1. p = CHOOSE g : g = [n \in 0..N |-> Value(g, n)]
    BY DEF PlacesUpTo
  <2> HIDE DEF Value, p
  <2> QED
    BY <1>8, <2>1
<1> HIDE DEF p
<1>10. \A n \in 0..N : p[n] = Value(p, n)
  <2> HIDE DEF Value
  <2> QED
    BY <1>9
<1>11. p = [n \in 0..N |-> p[n]]
  BY <1>9
<1>12. p[0] = <<>>
  BY <1>10
<1>13. \A n \in 1..N : p[n] = IF keys[n] = key THEN Append(p[n - 1], n) ELSE p[n - 1]
  BY <1>10
<1>14. \A n \in 1..N : p[n - 1] \in D => p[n] = step[n][p[n - 1]]
  BY <1>4, <1>13
<1>15. p \in [0..N -> D]
  <2>1. Unfolded(p)
    BY <1>11, <1>12, <1>14 DEF Recurs, none
  <2> QED
    BY <1>7, <2>1
<1> QED
  BY <1>12, <1>13, <1>15 DEF p, D
----------------------------------------------------------------------------
(* The places under a key: of the records with that key, and each one once. *)
LEMMA PlacesUnderKey ==
    ASSUME NEW N \in Nat, NEW keys, Len(keys) = N, NEW key
    PROVE  LET s == PlacesOf(key, keys)
           IN  /\ s \in Seq(1..N)
               /\ \A i \in 1..Len(s) : keys[s[i]] = key
               /\ \A k \in 1..N : keys[k] = key => \E i \in 1..Len(s) : s[i] = k
               /\ \A i, j \in 1..Len(s) : s[i] = s[j] => i = j
<1> DEFINE p == PlacesUpTo(key, keys)
           Sound(n)  == \A i \in 1..Len(p[n]) : p[n][i] \in 1..n /\ keys[p[n][i]] = key
           Whole(n)  == \A k \in 1..n : keys[k] = key => \E i \in 1..Len(p[n]) : p[n][i] = k
           Single(n) == \A i, j \in 1..Len(p[n]) : p[n][i] = p[n][j] => i = j
           S == {n \in 0..N : Sound(n) /\ Whole(n) /\ Single(n)}
<1>1. /\ p \in [0..N -> Seq(1..N)]
      /\ p[0] = <<>>
      /\ \A n \in 1..N : p[n] = IF keys[n] = key THEN Append(p[n - 1], n) ELSE p[n - 1]
  BY PlacesUpToValues
<1> HIDE DEF p
<1>2. 0 \in S
  BY <1>1
<1>3. ASSUME NEW n \in 0..N, n \in S, n < N PROVE n + 1 \in S
  <2>1. n + 1 \in 1..N /\ n + 1 \in 0..N /\ (n + 1) - 1 = n
    BY <1>3
  <2>2. p[n + 1] = IF keys[n + 1] = key THEN Append(p[n], n + 1) ELSE p[n]
    BY <1>1, <2>1
  <2>3. Sound(n) /\ Whole(n) /\ Single(n)
    BY <1>3
  <2>4. p[n] \in Seq(1..N)
    BY <1>1
  <2>5. CASE keys[n + 1] = key
    <3> DEFINE q == p[n]
               r == p[n + 1]
    <3>1. r = Append(q, n + 1) /\ Len(q) \in Nat /\ Len(r) = Len(q) + 1
      BY <2>2, <2>4, <2>5
    <3>2. r[Len(q) + 1] = n + 1 /\ \A i \in 1..Len(q) : r[i] = q[i]
      BY <2>4, <3>1
    <3>3. \A i \in 1..Len(r) : i \in 1..Len(q) \/ i = Len(q) + 1
      BY <3>1
    <3>4. \A i \in 1..Len(q) : q[i] \in 1..n /\ keys[q[i]] = key
      BY <2>3
    <3>5. \A k \in 1..n : keys[k] = key => \E i \in 1..Len(q) : q[i] = k
      BY <2>3
    <3>6. \A i, j \in 1..Len(q) : q[i] = q[j] => i = j
      BY <2>3
    <3> HIDE DEF q, r
    <3>7. \A i \in 1..Len(r) : r[i] \in 1..(n + 1) /\ keys[r[i]] = key
      BY <2>5, <3>2, <3>3, <3>4
    <3>8. \A k \in 1..(n + 1) : keys[k] = key => \E i \in 1..Len(r) : r[i] = k
      <4> SUFFICES ASSUME NEW k \in 1..(n + 1), keys[k] = key
                   PROVE  \E i \in 1..Len(r) : r[i] = k
        OBVIOUS
      <4>1. CASE k = n + 1
        <5>1. Len(q) + 1 \in 1..Len(r)
          BY <3>1
        <5> QED
          BY <3>2, <4>1, <5>1
      <4>2. CASE k # n + 1
        <5>1. PICK i \in 1..Len(q) : q[i] = k
          BY <3>5, <4>2
        <5>2. i \in 1..Len(r)
          BY <3>1
        <5> QED
          BY <3>2, <5>1, <5>2
      <4> QED
        BY <4>1, <4>2
    <3>9. \A i, j \in 1..Len(r) : r[i] = r[j] => i = j
      BY <3>2, <3>3, <3>4, <3>6
    <3> QED
      BY <2>1, <3>7, <3>8, <3>9 DEF r
  <2>6. CASE keys[n + 1] # key
    <3>1. p[n + 1] = p[n]
      BY <2>2, <2>6
    <3>2. Sound(n + 1) /\ Single(n + 1)
      BY <2>3, <3>1
    <3>3. Whole(n + 1)
      <4>1. \A k \in 1..(n + 1) : keys[k] = key => k \in 1..n
        BY <2>6
      <4> QED
        BY <2>3, <3>1, <4>1
    <3> QED
      BY <2>1, <3>2, <3>3
  <2> QED
    BY <2>5, <2>6
<1>4. \A n \in 0..N : n \in S /\ n < N => n + 1 \in S
  BY <1>3
<1>5. N \in S
  <2> HIDE DEF S
  <2>1. \A n \in 0..N : n \in S
    BY <1>2, <1>4, Induction
  <2> QED
    BY <2>1
<1>6. p[N] \in Seq(1..N)
  BY <1>1
<1> QED
  BY <1>5, <1>6 DEF p, PlacesOf

(* A sequence is what it begins with and the rest of it.                   *)
LEMMA Divided ==
    ASSUME NEW S, NEW t \in Seq(S), NEW e \in 0..Len(t)
    PROVE  LET a == SubSeq(t, 1, e)
               b == SubSeq(t, e + 1, Len(t))
           IN  /\ a \in Seq(S) /\ Len(a) = e /\ \A i \in 1..e : a[i] = t[i]
               /\ b \in Seq(S) /\ Len(b) = Len(t) - e
               /\ \A i \in 1..Len(b) : b[i] = t[e + i]
               /\ a \o b = t
<1> DEFINE a == SubSeq(t, 1, e)
           b == SubSeq(t, e + 1, Len(t))
<1>1. a \in Seq(S) /\ Len(a) = e /\ \A i \in 1..e : a[i] = t[i]
  OBVIOUS
<1>2. b \in Seq(S) /\ Len(b) = Len(t) - e /\ \A i \in 1..Len(b) : b[i] = t[e + i]
  OBVIOUS
<1> HIDE DEF a, b
<1>3. a \o b = SubSeq(t, 1, Len(t))
  <2>1. 1 \in 1..(Len(t) + 1) /\ e \in (1 - 1)..Len(t) /\ Len(t) \in e..Len(t)
    OBVIOUS
  <2> QED
    BY <2>1, ConcatAdjacentSubSeq DEF a, b
<1>4. SubSeq(t, 1, Len(t)) = t
  BY SubSeqFull
<1> QED
  BY <1>1, <1>2, <1>3, <1>4 DEF a, b
-----------------------------------------------------------------------------
(* FlattenSeq, of the community modules.                                    *)

(* Two sequences together have the values of each.                          *)
LEMMA ConcatRange ==
    ASSUME NEW S
    PROVE  \A a, b \in Seq(S) : \A x : x \in Range(a \o b) <=> x \in Range(a) \/ x \in Range(b)
<1> TAKE a, b \in Seq(S)
<1> TAKE x
<1>1. /\ DOMAIN (a \o b) = 1..(Len(a) + Len(b)) /\ DOMAIN a = 1..Len(a) /\ DOMAIN b = 1..Len(b)
      /\ Len(a) \in Nat /\ Len(b) \in Nat
  OBVIOUS
<1>2. \A i \in 1..(Len(a) + Len(b)) : (a \o b)[i] = IF i <= Len(a) THEN a[i] ELSE b[i - Len(a)]
  BY ConcatProperties
<1>3. ASSUME x \in Range(a \o b) PROVE x \in Range(a) \/ x \in Range(b)
  <2>1. PICK i \in 1..(Len(a) + Len(b)) : x = (a \o b)[i]
    BY <1>1, <1>3 DEF Range
  <2>2. CASE i <= Len(a)
    <3>1. i \in 1..Len(a) /\ x = a[i]
      BY <1>1, <1>2, <2>1, <2>2
    <3> QED
      BY <1>1, <3>1 DEF Range
  <2>3. CASE ~(i <= Len(a))
    <3>1. i - Len(a) \in 1..Len(b) /\ x = b[i - Len(a)]
      BY <1>1, <1>2, <2>1, <2>3
    <3> QED
      BY <1>1, <3>1 DEF Range
  <2> QED
    BY <2>2, <2>3
<1>4. ASSUME x \in Range(a) PROVE x \in Range(a \o b)
  <2>1. PICK i \in 1..Len(a) : x = a[i]
    BY <1>1, <1>4 DEF Range
  <2>2. i \in 1..(Len(a) + Len(b)) /\ (a \o b)[i] = a[i]
    BY <1>1, <1>2
  <2> QED
    BY <1>1, <2>1, <2>2 DEF Range
<1>5. ASSUME x \in Range(b) PROVE x \in Range(a \o b)
  <2>1. PICK i \in 1..Len(b) : x = b[i]
    BY <1>1, <1>5 DEF Range
  <2> DEFINE k == Len(a) + i
  <2>2. k \in 1..(Len(a) + Len(b)) /\ ~(k <= Len(a)) /\ k - Len(a) = i
    BY <1>1
  <2>3. (a \o b)[k] = b[i]
    BY <1>2, <2>2
  <2> QED
    BY <1>1, <2>1, <2>2, <2>3 DEF Range
<1> QED
  BY <1>3, <1>4, <1>5

(* How FlattenSeq comes by its value: the sequences one behind the other.   *)
Steps(seqs, flat) ==
    /\ flat[1] = seqs[1]
    /\ \A i \in 1..(Len(seqs) - 1) : flat[i + 1] = flat[i] \o seqs[i + 1]
LEMMA FlattenedSteps ==
    ASSUME NEW S, NEW seqs \in Seq(Seq(S)), Len(seqs) # 0
    PROVE  \E flat \in [1..Len(seqs) -> Seq(S)] :
              Steps(seqs, flat) /\ FlattenSeq(seqs) = flat[Len(seqs)]
<1> DEFINE N == Len(seqs)
           D == Seq(S)
           Value(f, i) == IF i = 1 THEN seqs[i] ELSE f[i - 1] \o seqs[i]
           step == [n \in 1..(N - 1) |-> [q \in D |-> q \o seqs[n + 1]]]
           first == seqs[1]
<1>1. N \in Nat /\ N >= 1 /\ \A n \in 1..N : seqs[n] \in D
  OBVIOUS
<1>2. FlattenSeq(seqs) = (CHOOSE f : f = [i \in 1..N |-> Value(f, i)])[N]
  BY DEF FlattenSeq
<1>3. \A n \in 1..(N - 1) : \A q \in D : q \o seqs[n + 1] \in D
  <2> TAKE n \in 1..(N - 1)
  <2> TAKE q \in D
  <2>1. n + 1 \in 1..N
    BY <1>1
  <2>2. seqs[n + 1] \in D
    BY <1>1, <2>1
  <2> QED
    BY <2>2
<1> HIDE DEF N, D
<1>4. step \in [1..(N - 1) -> [D -> D]]
  <2>1. \A n \in 1..(N - 1) : step[n] \in [D -> D]
    BY <1>3
  <2> QED
    BY <2>1
<1>5. \A n \in 1..(N - 1) : \A q \in D : step[n][q] = q \o seqs[n + 1]
  OBVIOUS
<1>6. first \in D
  BY <1>1
<1> HIDE DEF step, first
<1>7. N - 1 \in Nat
  BY <1>1
<1> DEFINE Unfolded(f) == Recurs(f, N - 1, D, first, step)
<1>8. PICK g : Unfolded(g)
  BY <1>4, <1>6, <1>7, RecursionExists
<1>9. ASSUME NEW f, Unfolded(f) PROVE f \in [0..(N - 1) -> D]
  BY <1>4, <1>6, <1>7, <1>9, RecursionType
<1> DEFINE h == [i \in 1..N |-> g[i - 1]]
<1>10. h = [i \in 1..N |-> Value(h, i)]
  <2>1. g \in [0..(N - 1) -> D]
    BY <1>8, <1>9
  <2>2. ASSUME NEW i \in 1..N PROVE h[i] = Value(h, i)
    <3>1. CASE i = 1
      BY <1>8, <3>1 DEF Recurs, first
    <3>2. CASE i # 1
      <4> DEFINE n == i - 1
      <4>1. n \in 1..(N - 1) /\ n - 1 \in 0..(N - 1) /\ n + 1 = i /\ n \in 1..N
        BY <1>1, <3>2
      <4>2. g[n - 1] \in D
        BY <2>1, <4>1
      <4>3. g[n] = step[n][g[n - 1]]
        BY <1>8, <4>1, <4>2 DEF Recurs
      <4>4. g[n] = g[n - 1] \o seqs[i]
        BY <1>5, <4>1, <4>2, <4>3
      <4>5. h[i] = g[n] /\ h[n] = g[n - 1]
        BY <4>1
      <4> QED
        BY <3>2, <4>4, <4>5
    <3> QED
      BY <3>1, <3>2
  <2>3. h = [i \in 1..N |-> h[i]]
    OBVIOUS
  <2> QED
    BY <2>2, <2>3
<1> DEFINE flat == CHOOSE f : f = [i \in 1..N |-> Value(f, i)]
<1>11. flat = [i \in 1..N |-> Value(flat, i)]
  <2> HIDE DEF Value, h
  <2> QED
    BY <1>10
<1> HIDE DEF flat
<1>12. \A i \in 1..N : flat[i] = Value(flat, i)
  <2> HIDE DEF Value
  <2> QED
    BY <1>11
<1> DEFINE back == [n \in 0..(N - 1) |-> flat[n + 1]]
<1>13. Unfolded(back)
  <2>1. back = [n \in 0..(N - 1) |-> back[n]]
    OBVIOUS
  <2>2. back[0] = first
    <3>1. 0 \in 0..(N - 1) /\ 1 \in 1..N
      BY <1>1
    <3> QED
      BY <1>12, <3>1 DEF first
  <2>3. ASSUME NEW n \in 1..(N - 1), back[n - 1] \in D PROVE back[n] = step[n][back[n - 1]]
    <3>1. /\ n + 1 \in 1..N /\ n + 1 # 1 /\ (n + 1) - 1 = n /\ n \in 0..(N - 1)
          /\ n - 1 \in 0..(N - 1) /\ (n - 1) + 1 = n
      BY <1>1
    <3>2. flat[n + 1] = flat[n] \o seqs[n + 1]
      BY <1>12, <3>1
    <3>3. back[n] = flat[n + 1] /\ back[n - 1] = flat[n]
      BY <3>1
    <3> QED
      BY <1>5, <2>3, <3>2, <3>3
  <2> HIDE DEF back
  <2> QED
    BY <2>1, <2>2, <2>3 DEF Recurs
<1>14. back \in [0..(N - 1) -> D]
  <2> HIDE DEF back
  <2> QED
    BY <1>9, <1>13
<1>15. N - 1 \in 0..(N - 1) /\ (N - 1) + 1 = N
  BY <1>1
<1>16. flat[N] \in D
  BY <1>14, <1>15
<1>17. \A i \in 1..N : flat[i] \in D
  <2> TAKE i \in 1..N
  <2>1. i - 1 \in 0..(N - 1) /\ (i - 1) + 1 = i
    BY <1>1
  <2> QED
    BY <1>14, <2>1
<1>18. flat \in [1..N -> D]
  BY <1>11, <1>17
<1>19. Steps(seqs, flat)
  <2>1. 1 \in 1..N
    BY <1>1
  <2>2. flat[1] = seqs[1]
    BY <1>12, <2>1
  <2>3. ASSUME NEW i \in 1..(N - 1) PROVE flat[i + 1] = flat[i] \o seqs[i + 1]
    <3>1. i + 1 \in 1..N /\ i + 1 # 1 /\ (i + 1) - 1 = i
      BY <1>1
    <3> QED
      BY <1>12, <3>1
  <2> QED
    BY <2>2, <2>3 DEF Steps, N
<1>20. FlattenSeq(seqs) = flat[N]
  BY <1>2 DEF flat
<1> QED
  BY <1>18, <1>19, <1>20 DEF N, D

(* Of no sequences, nothing.                                               *)
LEMMA FlattenedNone == ASSUME NEW S, NEW seqs \in Seq(Seq(S)), Len(seqs) = 0
                       PROVE  seqs = <<>> /\ FlattenSeq(seqs) = <<>>
<1>1. seqs = <<>>
  OBVIOUS
<1> QED
  BY <1>1 DEF FlattenSeq

(* The sequences of a sequence of sequences, one behind the other, make a   *)
(* sequence.                                                                *)
LEMMA Flattened ==
    ASSUME NEW S, NEW seqs \in Seq(Seq(S))
    PROVE  FlattenSeq(seqs) \in Seq(S)
<1>1. CASE Len(seqs) = 0
  <2>1. seqs = <<>> /\ FlattenSeq(seqs) = <<>>
    BY <1>1, FlattenedNone
  <2>2. <<>> \in Seq(S)
    OBVIOUS
  <2> QED
    BY <2>1, <2>2, Zenon
<1>2. CASE Len(seqs) # 0
  <2> DEFINE D == Seq(S)
  <2>1. PICK flat \in [1..Len(seqs) -> D] : FlattenSeq(seqs) = flat[Len(seqs)]
    BY <1>2, FlattenedSteps
  <2>2. Len(seqs) \in 1..Len(seqs)
    BY <1>2
  <2> HIDE DEF D
  <2>3. FlattenSeq(seqs) \in D
    BY <2>1, <2>2
  <2> QED
    BY <2>3 DEF D
<1> QED
  BY <1>1, <1>2

(* After n steps it has the values of the first n.                          *)
RangeAfter(seqs, flat, n) ==
    \A x : x \in Range(flat[n]) <=> \E i \in 1..n : x \in Range(seqs[i])
LEMMA StepsRange ==
    ASSUME NEW S, NEW seqs \in Seq(Seq(S)), Len(seqs) # 0,
           NEW flat \in [1..Len(seqs) -> Seq(S)], Steps(seqs, flat)
    PROVE  \A n \in 1..Len(seqs) : RangeAfter(seqs, flat, n)
<1> DEFINE N == Len(seqs)
           D == Seq(S)
<1>1. flat \in [1..N -> D] /\ Steps(seqs, flat)
  OBVIOUS
<1>2. N \in Nat /\ N >= 1 /\ \A i \in 1..N : seqs[i] \in D /\ flat[i] \in D
  <2>1. N \in Nat /\ N >= 1 /\ \A i \in 1..N : seqs[i] \in D
    OBVIOUS
  <2> HIDE DEF N, D
  <2> QED
    BY <1>1, <2>1
<1>3. \A a, b \in D : \A x : x \in Range(a \o b) <=> x \in Range(a) \/ x \in Range(b)
  BY ConcatRange
<1> DEFINE Right(n) ==
              \A x : x \in Range(flat[n + 1]) <=> \E i \in 1..(n + 1) : x \in Range(seqs[i])
           T == {n \in 0..(N - 1) : Right(n)}
<1>4. 0 \in T
  <2>1. \A i \in 1..(0 + 1) : i = 1
    OBVIOUS
  <2>2. flat[0 + 1] = seqs[1] /\ 1 \in 1..(0 + 1)
    BY <1>1 DEF Steps
  <2>3. Right(0)
    BY <2>1, <2>2
  <2> HIDE DEF Right
  <2> QED
    BY <1>2, <2>3
<1>5. ASSUME NEW n \in 0..(N - 1), n \in T, n < N - 1 PROVE n + 1 \in T
  <2>1. /\ n + 1 \in 1..(N - 1) /\ n + 1 \in 1..N /\ (n + 1) + 1 \in 1..N /\ n + 1 \in 0..(N - 1)
        /\ (n + 1) + 1 \in 1..((n + 1) + 1)
        /\ \A i \in 1..(n + 1) : i \in 1..((n + 1) + 1)
        /\ \A i \in 1..((n + 1) + 1) : i \in 1..(n + 1) \/ i = (n + 1) + 1
    BY <1>2, <1>5
  <2>2. flat[(n + 1) + 1] = flat[n + 1] \o seqs[(n + 1) + 1]
    BY <1>1, <2>1 DEF Steps
  <2>3. \A x : x \in Range(flat[(n + 1) + 1])
               <=> x \in Range(flat[n + 1]) \/ x \in Range(seqs[(n + 1) + 1])
    BY <1>2, <1>3, <2>1, <2>2
  <2>4. Right(n)
    BY <1>5
  <2> HIDE DEF N, D
  <2>5. Right(n + 1)
    BY <2>1, <2>3, <2>4
  <2> HIDE DEF Right
  <2> QED
    BY <2>1, <2>5
<1>6. \A n \in 0..(N - 1) : n \in T
  <2>1. \A n \in 0..(N - 1) : n \in T /\ n < N - 1 => n + 1 \in T
    BY <1>5
  <2>2. N - 1 \in Nat
    BY <1>2
  <2> HIDE DEF T, N
  <2> QED
    BY <1>4, <2>1, <2>2, Induction
<1>7. \A n \in 1..N : n - 1 \in 0..(N - 1) /\ (n - 1) + 1 = n
  BY <1>2
<1>8. \A n \in 0..(N - 1) : Right(n)
  <2> HIDE DEF Right
  <2> QED
    BY <1>6
<1> HIDE DEF N
<1>9. ASSUME NEW n \in 1..N PROVE RangeAfter(seqs, flat, n)
  <2>1. Right(n - 1) /\ (n - 1) + 1 = n
    BY <1>7, <1>8
  <2> QED
    BY <2>1 DEF RangeAfter
<1> QED
  BY <1>9 DEF N

(* So that the whole has the values of all of them.                         *)
LEMMA FlattenedRange ==
    ASSUME NEW S, NEW seqs \in Seq(Seq(S))
    PROVE  \A x : x \in Range(FlattenSeq(seqs)) <=> \E i \in 1..Len(seqs) : x \in Range(seqs[i])
<1>1. CASE Len(seqs) = 0
  <2>1. seqs = <<>> /\ FlattenSeq(seqs) = <<>>
    BY <1>1, FlattenedNone
  <2>2. \A x : x \notin Range(<<>>)
    BY DEF Range
  <2> QED
    BY <1>1, <2>1, <2>2
<1>2. CASE Len(seqs) # 0
  <2>1. PICK flat \in [1..Len(seqs) -> Seq(S)] :
           Steps(seqs, flat) /\ FlattenSeq(seqs) = flat[Len(seqs)]
    BY <1>2, FlattenedSteps
  <2>2. Len(seqs) \in 1..Len(seqs)
    BY <1>2
  <2>3. RangeAfter(seqs, flat, Len(seqs))
    BY <1>2, <2>1, <2>2, StepsRange
  <2> QED
    BY <2>1, <2>3 DEF RangeAfter
<1> QED
  BY <1>1, <1>2

(* Two sequences that hold nothing twice, and nothing in common, hold       *)
(* nothing twice together.                                                  *)
LEMMA ConcatOnce ==
    ASSUME NEW S, NEW a \in Seq(S), NEW b \in Seq(S), IsInjective(a), IsInjective(b),
           \A x : ~(x \in Range(a) /\ x \in Range(b))
    PROVE  IsInjective(a \o b)
<1>1. /\ DOMAIN (a \o b) = 1..(Len(a) + Len(b)) /\ DOMAIN a = 1..Len(a) /\ DOMAIN b = 1..Len(b)
      /\ Len(a) \in Nat /\ Len(b) \in Nat
  OBVIOUS
<1>2. \A i \in 1..(Len(a) + Len(b)) : (a \o b)[i] = IF i <= Len(a) THEN a[i] ELSE b[i - Len(a)]
  BY ConcatProperties
<1>3. \A i \in 1..Len(a) : a[i] \in Range(a)
  BY <1>1 DEF Range
<1>4. \A i \in 1..Len(b) : b[i] \in Range(b)
  BY <1>1 DEF Range
<1>5. \A i, j \in 1..Len(a) : a[i] = a[j] => i = j
  BY <1>1 DEF IsInjective
<1>6. \A i, j \in 1..Len(b) : b[i] = b[j] => i = j
  BY <1>1 DEF IsInjective
<1>7. SUFFICES ASSUME NEW i \in 1..(Len(a) + Len(b)), NEW j \in 1..(Len(a) + Len(b)),
                      (a \o b)[i] = (a \o b)[j]
               PROVE  i = j
  BY <1>1 DEF IsInjective
<1>8. \A k \in 1..(Len(a) + Len(b)) : k <= Len(a) => k \in 1..Len(a) /\ (a \o b)[k] = a[k]
  BY <1>1, <1>2
<1>9. \A k \in 1..(Len(a) + Len(b)) : ~(k <= Len(a)) =>
         k - Len(a) \in 1..Len(b) /\ (a \o b)[k] = b[k - Len(a)]
  BY <1>1, <1>2
<1>10. CASE i <= Len(a) /\ j <= Len(a)
  BY <1>5, <1>7, <1>8, <1>10
<1>11. CASE ~(i <= Len(a)) /\ ~(j <= Len(a))
  <2>1. i - Len(a) = j - Len(a)
    BY <1>6, <1>7, <1>9, <1>11
  <2> QED
    BY <1>1, <2>1
<1>12. CASE (i <= Len(a)) # (j <= Len(a))
  BY <1>3, <1>4, <1>7, <1>8, <1>9, <1>12
<1> QED
  BY <1>10, <1>11, <1>12

Apart(seqs) ==
    /\ \A i \in 1..Len(seqs) : IsInjective(seqs[i])
    /\ \A i, j \in 1..Len(seqs) : \A x : x \in Range(seqs[i]) /\ x \in Range(seqs[j]) => i = j
(* Sequences that hold nothing twice, and nothing in common, hold nothing  *)
(* twice together.                                                         *)
LEMMA FlattenedOnce ==
    ASSUME NEW S, NEW seqs \in Seq(Seq(S)), Apart(seqs)
    PROVE  IsInjective(FlattenSeq(seqs))
<1>1. CASE Len(seqs) = 0
  <2>1. seqs = <<>> /\ FlattenSeq(seqs) = <<>>
    BY <1>1, FlattenedNone
  <2>2. IsInjective(<<>>)
    BY DEF IsInjective
  <2> QED
    BY <2>1, <2>2
<1>2. CASE Len(seqs) # 0
  <2>1. PICK flat \in [1..Len(seqs) -> Seq(S)] :
           Steps(seqs, flat) /\ FlattenSeq(seqs) = flat[Len(seqs)]
    BY <1>2, FlattenedSteps
  <2>2. \A n \in 1..Len(seqs) : RangeAfter(seqs, flat, n)
    BY <1>2, <2>1, StepsRange
  <2> DEFINE N == Len(seqs)
             D == Seq(S)
             T == {n \in 0..(N - 1) : IsInjective(flat[n + 1])}
  <2>3. N \in Nat /\ N >= 1 /\ \A i \in 1..N : seqs[i] \in D
    BY <1>2
  <2>4. flat \in [1..N -> D]
    OBVIOUS
  <2>5. \A i \in 1..N : IsInjective(seqs[i])
    BY DEF Apart
  <2>6. 0 \in T
    <3>1. flat[0 + 1] = seqs[1] /\ 1 \in 1..N /\ 0 \in 0..(N - 1)
      BY <2>1, <2>3 DEF Steps
    <3> QED
      BY <2>5, <3>1
  <2>7. \A n \in 0..(N - 1) : n \in T /\ n < N - 1 => n + 1 \in T
    <3> SUFFICES ASSUME NEW n \in 0..(N - 1), n \in T, n < N - 1 PROVE n + 1 \in T
      OBVIOUS
    <3>1. /\ n + 1 \in 1..(N - 1) /\ n + 1 \in 1..N /\ (n + 1) + 1 \in 1..N /\ n + 1 \in 0..(N - 1)
          /\ \A i \in 1..(n + 1) : i \in 1..N /\ i # (n + 1) + 1
      BY <2>3
    <3>2. flat[(n + 1) + 1] = flat[n + 1] \o seqs[(n + 1) + 1]
      BY <2>1, <3>1 DEF Steps
    <3>3. RangeAfter(seqs, flat, n + 1)
      BY <2>2, <3>1
    <3>4. \A x : ~(x \in Range(flat[n + 1]) /\ x \in Range(seqs[(n + 1) + 1]))
      BY <3>1, <3>3 DEF RangeAfter, Apart
    <3>5. IsInjective(flat[n + 1]) /\ IsInjective(seqs[(n + 1) + 1])
      BY <2>5, <3>1
    <3> HIDE DEF N
    <3>6. flat[n + 1] \in D /\ seqs[(n + 1) + 1] \in D
      BY <2>3, <2>4, <3>1
    <3>7. IsInjective(flat[n + 1] \o seqs[(n + 1) + 1])
      BY <3>4, <3>5, <3>6, ConcatOnce
    <3> QED
      BY <3>1, <3>2, <3>7
  <2>8. N - 1 \in Nat /\ N - 1 \in 0..(N - 1) /\ (N - 1) + 1 = N
    BY <2>3
  <2> HIDE DEF T
  <2>9. N - 1 \in T
    <3> HIDE DEF N
    <3>1. \A n \in 0..(N - 1) : n \in T
      BY <2>6, <2>7, <2>8, Induction
    <3> QED
      BY <2>8, <3>1
  <2>10. IsInjective(flat[N])
    <3> HIDE DEF N
    <3> QED
      BY <2>8, <2>9 DEF T
  <2> QED
    BY <2>1, <2>10
<1> QED
  BY <1>1, <1>2

(* A function on the domain of a sequence is a sequence.                   *)
LEMMA OnSequence ==
    ASSUME NEW S, NEW s \in Seq(S), NEW T, NEW g \in [DOMAIN s -> T]
    PROVE  g \in Seq(T) /\ DOMAIN g = DOMAIN s /\ Len(g) = Len(s)
  OBVIOUS

(* The places and the values of a sequence.                                *)
LEMMA InSequence ==
    ASSUME NEW S, NEW s \in Seq(S)
    PROVE  Len(s) \in Nat /\ DOMAIN s = 1..Len(s) /\ \A i \in 1..Len(s) : s[i] \in S
  OBVIOUS

(* One value alone makes a sequence.                                       *)
LEMMA SingleSequence ==
    ASSUME NEW S, NEW x \in S
    PROVE  <<x>> \in Seq(S)
  OBVIOUS
=============================================================================
