------------------------- MODULE Computations_proofs -------------------------
(***************************************************************************)
(* Proofs about the retry loop of WALBackoff, for every configured         *)
(* maximum, and about the functions of Computations, for every input that  *)
(* InputsAssumption admits: first what each function promises of one       *)
(* input, a section for each module, and then that it is an invariant.     *)
(***************************************************************************)
EXTENDS WALBackoff, Computations, Recursion_proofs, FiniteSetTheorems

(* What has been slept is the sum of the powers of two so far; the last of *)
(* them was below the maximum.                                             *)
BInv ==
    /\ maxBackoff \in Nat \ {0} /\ i \in 0..Loops
    /\ power \in Nat /\ slept \in Nat
    /\ phase \in {"retrying", "answered", "spent"}
    /\ slept = power - 1 /\ power < 2 * maxBackoff
    /\ phase = "retrying" => i < Loops
    /\ phase = "spent" => power >= maxBackoff \/ i = Loops

(* The invariant of the loop holds in every state.                         *)
LEMMA BInvInductive == Spec => []BInv
<1>1. Init => BInv
  BY BackoffAssumption, SMT DEF Init, BInv, Default, Loops
<1>2. BInv /\ [Next]_vars => BInv'
  <2> SUFFICES ASSUME BInv, [Next]_vars PROVE BInv'
    OBVIOUS
  <2> USE DEF BInv, Loops
  <2>1. CASE Answered
    BY <2>1, SMT DEF Answered
  <2>2. CASE Retry
    BY <2>2, SMT DEF Retry, Enough
  <2>3. CASE UNCHANGED vars
    BY <2>3, SMT DEF vars
  <2> QED
    BY <2>1, <2>2, <2>3 DEF Next
<1> QED
  BY <1>1, <1>2, PTL DEF Spec

(* However long the outage and whatever the configured maximum, the sleeps *)
(* on one entry add up to less than twice that maximum.                    *)
THEOREM SleepsBounded == Spec => []SleptUnderTwice
<1>1. BInv => SleptUnderTwice
  BY SMT DEF BInv, SleptUnderTwice
<1> QED
  BY BInvInductive, <1>1, PTL

(* The loop does not give an entry up while more than a second of the      *)
(* configured maximum is left, unless it has made all its turns.           *)
THEOREM NotGivenUpEarly == Spec => []NotSpentEarly
<1>1. BInv => NotSpentEarly
  BY SMT DEF BInv, NotSpentEarly
<1> QED
  BY BInvInductive, <1>1, PTL

(* Both: an entry gets the time it is configured to.                       *)
THEOREM GetsItsTime == Spec => []KeepsToMaxBackoff
<1>1. BInv => KeepsToMaxBackoff
  BY SMT DEF BInv, KeepsToMaxBackoff, SleptUnderTwice, NotSpentEarly
<1> QED
  BY BInvInductive, <1>1, PTL
-----------------------------------------------------------------------------
(* Propagator: the powers, the digits of numbers, and headers.             *)

(* The powers of base up to the Nth.                                       *)
IsPowers(p, base, N) ==
    /\ p \in [0..N -> Nat] /\ p[0] = 1
    /\ \A d \in 1..N : p[d] = base * p[d - 1]
IsTens(tens, N) == IsPowers(tens, 10, N)

(* The recursive function has the powers it is written for.                *)
LEMMA PowersAre ==
    ASSUME NEW N \in Nat, NEW base \in Nat
    PROVE  IsPowers(PowersOf(base, N), base, N)
<1> DEFINE D == Nat
           step == [d \in 1..N |-> [m \in D |-> base * m]]
           Value(f, d) == IF d = 0 THEN 1 ELSE base * f[d - 1]
           Unfolded(f) == Recurs(f, N, D, 1, step)
<1>1. 1 \in D
  OBVIOUS
<1>2. \A m \in Nat : base * m \in Nat
  OBVIOUS
<1>3. step \in [1..N -> [D -> D]]
  BY <1>2
<1>4. PICK f : Unfolded(f)
  <2> HIDE DEF step
  <2> QED
    BY <1>1, <1>3, RecursionExists
<1>5. \A d \in 1..N : d - 1 \in 0..N /\ d \in 0..N /\ d # 0
  OBVIOUS
<1>6. f \in [0..N -> D]
  <2> HIDE DEF step, D
  <2> QED
    BY <1>1, <1>3, <1>4, RecursionType
<1>7. f[0] = 1 /\ \A d \in 1..N : f[d] = base * f[d - 1]
  <2>1. \A d \in 1..N : \A m \in D : step[d][m] = base * m
    OBVIOUS
  <2>2. \A d \in 1..N : f[d - 1] \in D
    BY <1>5, <1>6
  <2> HIDE DEF step, D
  <2> QED
    BY <1>4, <2>1, <2>2 DEF Recurs
<1>8. f = [d \in 0..N |-> Value(f, d)]
  <2>1. \A d \in 0..N : d = 0 \/ d \in 1..N
    OBVIOUS
  <2>2. \A d \in 0..N : f[d] = Value(f, d)
    BY <1>7, <2>1
  <2> HIDE DEF Value
  <2> QED
    BY <1>6, <2>2
<1> DEFINE p == PowersOf(base, N)
<1>9. p = [d \in 0..N |-> Value(p, d)]
  <2>1. p = CHOOSE g : g = [d \in 0..N |-> Value(g, d)]
    BY DEF PowersOf
  <2> HIDE DEF Value, p
  <2> QED
    BY <1>8, <2>1
<1>10. p[0] = 1 /\ \A d \in 1..N : p[d] = base * p[d - 1]
  <2>1. \A d \in 0..N : p[d] = Value(p, d)
    <3> HIDE DEF Value, p
    <3> QED
      BY <1>9
  <2> HIDE DEF p
  <2> QED
    BY <1>5, <2>1
<1>11. p \in [0..N -> Nat]
  <2> HIDE DEF p
  <2> DEFINE S == {d \in 0..N : p[d] \in Nat}
  <2>1. 0 \in S
    BY <1>10
  <2>2. \A d \in 0..N : d \in S /\ d < N => d + 1 \in S
    <3> SUFFICES ASSUME NEW d \in 0..N, d \in S, d < N PROVE d + 1 \in S
      OBVIOUS
    <3>1. d + 1 \in 1..N /\ d + 1 \in 0..N /\ (d + 1) - 1 = d
      OBVIOUS
    <3>2. p[d + 1] = base * p[d]
      BY <1>10, <3>1
    <3> QED
      BY <3>1, <3>2, <1>2
  <2> HIDE DEF S
  <2>3. \A d \in 0..N : d \in S
    BY <2>1, <2>2, Induction
  <2>4. \A d \in 0..N : p[d] \in Nat
    BY <2>3 DEF S
  <2>5. p = [d \in 0..N |-> p[d]]
    <3> HIDE DEF Value
    <3>1. p = [d \in 0..N |-> Value(p, d)]
      BY <1>9
    <3> QED
      BY <3>1
  <2> QED
    BY <2>4, <2>5
<1> HIDE DEF p
<1>12. IsPowers(p, base, N)
  BY <1>10, <1>11 DEF IsPowers
<1> QED
  BY <1>12 DEF p

(* Dividing by 10 again and again.                                         *)
LEMMA QuotientsValues ==
    ASSUME NEW n \in Nat
    PROVE  LET q == Quotients(n)
           IN  /\ q \in [0..(n + 1) -> Nat]
               /\ q[0] = n /\ \A d \in 1..(n + 1) : q[d] = q[d - 1] \div 10
<1> DEFINE N == n + 1
           D == Nat
           step == [d \in 1..N |-> [m \in D |-> m \div 10]]
           Value(f, d) == IF d = 0 THEN n ELSE f[d - 1] \div 10
           Unfolded(f) == Recurs(f, N, D, n, step)
<1>1. N \in Nat /\ n \in D
  OBVIOUS
<1>2. \A m \in Nat : m \div 10 \in Nat
  OBVIOUS
<1>3. step \in [1..N -> [D -> D]]
  BY <1>2
<1>4. PICK f : Unfolded(f)
  <2> HIDE DEF step, N
  <2> QED
    BY <1>1, <1>3, RecursionExists
<1>5. \A d \in 1..N : d - 1 \in 0..N /\ d \in 0..N /\ d # 0
  OBVIOUS
<1>6. f \in [0..N -> D]
  <2> HIDE DEF step, N, D
  <2> QED
    BY <1>1, <1>3, <1>4, RecursionType
<1>7. f[0] = n /\ \A d \in 1..N : f[d] = f[d - 1] \div 10
  <2>1. \A d \in 1..N : \A m \in D : step[d][m] = m \div 10
    OBVIOUS
  <2>2. \A d \in 1..N : f[d - 1] \in D
    BY <1>5, <1>6
  <2> HIDE DEF step, N, D
  <2> QED
    BY <1>4, <2>1, <2>2 DEF Recurs
<1>8. f = [d \in 0..N |-> Value(f, d)]
  <2>1. \A d \in 0..N : d = 0 \/ d \in 1..N
    OBVIOUS
  <2>2. \A d \in 0..N : f[d] = Value(f, d)
    BY <1>7, <2>1
  <2> HIDE DEF Value, N
  <2> QED
    BY <1>6, <2>2
<1> DEFINE q == Quotients(n)
<1>9. q = [d \in 0..N |-> Value(q, d)]
  <2>1. q = CHOOSE g : g = [d \in 0..N |-> Value(g, d)]
    BY DEF Quotients
  <2> HIDE DEF Value, q, N
  <2> QED
    BY <1>8, <2>1
<1>10. q[0] = n /\ \A d \in 1..N : q[d] = q[d - 1] \div 10
  <2>1. \A d \in 0..N : q[d] = Value(q, d)
    <3> HIDE DEF Value, q, N
    <3> QED
      BY <1>9
  <2> HIDE DEF q
  <2> QED
    BY <1>5, <2>1
<1>11. q \in [0..N -> Nat]
  <2> HIDE DEF q
  <2> DEFINE S == {d \in 0..N : q[d] \in Nat}
  <2>1. 0 \in S
    BY <1>10
  <2>2. \A d \in 0..N : d \in S /\ d < N => d + 1 \in S
    <3> SUFFICES ASSUME NEW d \in 0..N, d \in S, d < N PROVE d + 1 \in S
      OBVIOUS
    <3>1. d + 1 \in 1..N /\ d + 1 \in 0..N /\ (d + 1) - 1 = d
      OBVIOUS
    <3>2. q[d + 1] = q[d] \div 10
      BY <1>10, <3>1
    <3> QED
      BY <3>1, <3>2, <1>2
  <2> HIDE DEF S
  <2>3. \A d \in 0..N : d \in S
    <3> HIDE DEF N
    <3> QED
      BY <1>1, <2>1, <2>2, Induction
  <2>4. \A d \in 0..N : q[d] \in Nat
    BY <2>3 DEF S
  <2>5. q = [d \in 0..N |-> q[d]]
    <3> HIDE DEF Value, N
    <3>1. q = [d \in 0..N |-> Value(q, d)]
      BY <1>9
    <3> QED
      BY <3>1
  <2> HIDE DEF N
  <2> QED
    BY <2>4, <2>5
<1> QED
  BY <1>10, <1>11

(* Divisions end after as many digits as there are.                        *)
LEMMA WidthKnown ==
    ASSUME NEW n \in Nat
    PROVE  LET q == Quotients(n)
               w == Width(n)
           IN  w \in 1..(n + 1) /\ q[w] = 0 /\ (w = 1 \/ q[w - 1] > 0)
<1> DEFINE q == Quotients(n)
           N == n + 1
           T == {d \in 1..N : q[d] = 0}
           S == {d \in 0..N : q[d] = 0 \/ q[d] + d <= n}
<1>1. /\ q \in [0..N -> Nat]
      /\ q[0] = n /\ \A d \in 1..N : q[d] = q[d - 1] \div 10
  BY QuotientsValues
<1> HIDE DEF q
<1>2. 0 \in S
  BY <1>1
<1>3. \A m \in Nat : m \div 10 = 0 \/ m \div 10 <= m - 1
  OBVIOUS
<1>4. \A d \in 0..N : d \in S /\ d < N => d + 1 \in S
  <2> SUFFICES ASSUME NEW d \in 0..N, d \in S, d < N PROVE d + 1 \in S
    OBVIOUS
  <2>1. d + 1 \in 1..N /\ d + 1 \in 0..N /\ (d + 1) - 1 = d
    OBVIOUS
  <2>2. q[d + 1] = q[d] \div 10 /\ q[d] \in Nat
    BY <1>1, <2>1
  <2>3. q[d + 1] = 0 \/ (q[d] # 0 /\ q[d + 1] <= q[d] - 1)
    BY <1>3, <2>2
  <2>4. q[d + 1] \in Nat
    BY <1>1, <2>1
  <2> QED
    BY <2>1, <2>2, <2>3, <2>4
<1> HIDE DEF S
<1>5. \A d \in 0..N : d \in S
  <2>1. N \in Nat
    OBVIOUS
  <2> HIDE DEF N
  <2> QED
    BY <1>2, <1>4, <2>1, Induction
<1>6. N \in 0..N /\ N \in 1..N
  OBVIOUS
<1>7. q[N] = 0
  <2>1. q[N] = 0 \/ q[N] + N <= n
    BY <1>5, <1>6 DEF S
  <2>2. q[N] \in Nat
    BY <1>1, <1>6
  <2> QED
    BY <2>1, <2>2
<1>8. PICK w \in T : \A d \in T : w <= d
  <2>1. T \in SUBSET Nat /\ T # {}
    BY <1>6, <1>7
  <2> HIDE DEF T
  <2> QED
    BY <2>1, Least
<1>9. w \in 1..N /\ q[w] = 0 /\ (w = 1 \/ q[w - 1] > 0)
  <2>1. w \in 1..N /\ q[w] = 0
    OBVIOUS
  <2>2. ASSUME w # 1 PROVE q[w - 1] > 0
    <3>1. w - 1 \in 1..N /\ w - 1 \in 0..N /\ ~(w <= w - 1)
      BY <2>1, <2>2
    <3>2. q[w - 1] # 0
      BY <1>8, <3>1
    <3>3. q[w - 1] \in Nat
      BY <1>1, <3>1
    <3> QED
      BY <3>2, <3>3
  <2> QED
    BY <2>1, <2>2
<1>10. Width(n) = CHOOSE d \in 1..N : q[d] = 0 /\ (d = 1 \/ q[d - 1] > 0)
  BY DEF Width, q
<1> HIDE DEF N, T
<1>11. Width(n) \in 1..N /\ q[Width(n)] = 0 /\ (Width(n) = 1 \/ q[Width(n) - 1] > 0)
  BY <1>9, <1>10
<1> QED
  BY <1>11 DEF q, N

(* A number below the dth power of ten is printed with at most d digits.   *)
LEMMA WidthFits ==
    ASSUME NEW N \in Nat \ {0}, NEW tens, IsTens(tens, N), NEW n \in Nat, n < tens[N]
    PROVE  Width(n) <= N
<1> DEFINE q == Quotients(n)
           M == n + 1
           Below(d) == IF d <= N THEN tens[N - d] ELSE 1
           S == {d \in 0..M : q[d] < Below(d)}
<1>1. /\ q \in [0..M -> Nat]
      /\ q[0] = n /\ \A d \in 1..M : q[d] = q[d - 1] \div 10
  BY QuotientsValues
<1>2. Width(n) \in 1..M /\ (Width(n) = 1 \/ q[Width(n) - 1] > 0)
  BY WidthKnown
<1> HIDE DEF q
<1>3. 0 \in S
  <2>1. N - 0 = N /\ 0 <= N /\ 0 \in 0..M
    OBVIOUS
  <2> QED
    BY <1>1, <2>1
<1>4. \A a, b \in Nat : a < 10 * b => a \div 10 < b
  OBVIOUS
<1>5. \A d \in 0..M : d \in S /\ d < M => d + 1 \in S
  <2> SUFFICES ASSUME NEW d \in 0..M, d \in S, d < M PROVE d + 1 \in S
    OBVIOUS
  <2>1. d + 1 \in 1..M /\ d + 1 \in 0..M /\ (d + 1) - 1 = d
    OBVIOUS
  <2>2. q[d + 1] = q[d] \div 10 /\ q[d] \in Nat /\ q[d] < Below(d)
    BY <1>1, <2>1
  <2>3. CASE d < N
    <3>1. N - d \in 1..N /\ (N - d) - 1 = N - (d + 1) /\ N - (d + 1) \in 0..N
          /\ d <= N /\ d + 1 <= N
      BY <2>3
    <3>2. tens[N - d] = 10 * tens[N - (d + 1)] /\ tens[N - (d + 1)] \in Nat
      BY <3>1 DEF IsTens, IsPowers
    <3>3. q[d] < 10 * tens[N - (d + 1)]
      BY <2>2, <3>1, <3>2
    <3>4. q[d + 1] < tens[N - (d + 1)]
      BY <1>4, <2>2, <3>2, <3>3
    <3> QED
      BY <2>1, <3>1, <3>4
  <2>4. CASE ~(d < N)
    <3>1. Below(d) = 1
      <4>1. CASE d = N
        BY <4>1 DEF IsTens, IsPowers
      <4>2. CASE d # N
        BY <2>4, <4>2
      <4> QED
        BY <4>1, <4>2
    <3>2. q[d] = 0
      BY <2>2, <3>1
    <3>3. q[d + 1] = 0 /\ ~(d + 1 <= N)
      BY <2>2, <2>4, <3>2
    <3> QED
      BY <2>1, <3>3
  <2> QED
    BY <2>3, <2>4
<1> HIDE DEF S
<1>6. \A d \in 0..M : d \in S
  <2>1. M \in Nat
    OBVIOUS
  <2> HIDE DEF M
  <2> QED
    BY <1>3, <1>5, <2>1, Induction
<1>7. \A d \in 0..M : d >= N => ~(q[d] > 0)
  <2> SUFFICES ASSUME NEW d \in 0..M, d >= N PROVE ~(q[d] > 0)
    OBVIOUS
  <2>1. q[d] < Below(d) /\ q[d] \in Nat
    BY <1>1, <1>6 DEF S
  <2>2. Below(d) = 1
    <3>1. CASE d = N
      BY <3>1 DEF IsTens, IsPowers
    <3>2. CASE d # N
      BY <3>2
    <3> QED
      BY <3>1, <3>2
  <2> QED
    BY <2>1, <2>2
<1> SUFFICES ASSUME ~(Width(n) <= N) PROVE FALSE
  OBVIOUS
<1>8. Width(n) # 1 /\ Width(n) - 1 \in 0..M /\ Width(n) - 1 >= N
  BY <1>2
<1> QED
  BY <1>2, <1>7, <1>8

(* One digit is printed of the numbers up to 9, and of no other.           *)
LEMMA OneDigit ==
    ASSUME NEW n \in Nat
    PROVE  /\ Width(n) \in Nat \ {0} /\ (Width(n) = 1 <=> n < 10)
           /\ Len(DigitsOf(n)) = Width(n) /\ (n < 10 => DigitsOf(n) = <<n>>)
<1> DEFINE q == Quotients(n)
           tens == [d \in 0..1 |-> IF d = 0 THEN 1 ELSE 10]
<1>1. /\ q \in [0..(n + 1) -> Nat]
      /\ q[0] = n /\ \A d \in 1..(n + 1) : q[d] = q[d - 1] \div 10
  BY QuotientsValues
<1>2. Width(n) \in 1..(n + 1) /\ q[Width(n)] = 0
  BY WidthKnown
<1>3. DigitsOf(n) = [k \in 1..Width(n) |-> q[Width(n) - k] % 10]
  BY DEF DigitsOf
<1> HIDE DEF q
<1>4. q[1] = n \div 10
  <2>1. 1 \in 1..(n + 1) /\ 1 - 1 = 0
    OBVIOUS
  <2> QED
    BY <1>1, <2>1
<1>5. IsTens(tens, 1) /\ tens[1] = 10
  <2>1. tens \in [0..1 -> Nat] /\ tens[0] = 1 /\ tens[1] = 10
    OBVIOUS
  <2>2. \A d \in 1..1 : d = 1 /\ d - 1 = 0
    OBVIOUS
  <2> HIDE DEF tens
  <2> QED
    BY <2>1, <2>2 DEF IsTens, IsPowers
<1> HIDE DEF tens
<1>6. n < 10 => Width(n) = 1
  <2>1. ASSUME n < 10 PROVE Width(n) <= 1
    BY <1>5, <2>1, WidthFits
  <2> QED
    BY <1>2, <2>1
<1>7. Width(n) = 1 => n < 10
  BY <1>2, <1>4
<1>8. Len(DigitsOf(n)) = Width(n)
  BY <1>2, <1>3
<1>9. ASSUME n < 10 PROVE DigitsOf(n) = <<n>>
  <2>1. Width(n) = 1
    BY <1>6, <1>9
  <2>2. DigitsOf(n) = [k \in 1..1 |-> q[1 - k] % 10]
    BY <1>3, <2>1
  <2>3. \A k \in 1..1 : k = 1 /\ q[1 - k] = n
    BY <1>1
  <2>4. n % 10 = n
    BY <1>9
  <2>5. \A k \in 1..1 : q[1 - k] % 10 = n
    BY <2>3, <2>4
  <2>6. DigitsOf(n) = [k \in 1..1 |-> n]
    BY <2>2, <2>5
  <2> QED
    BY <2>6
<1> QED
  BY <1>2, <1>6, <1>7, <1>8, <1>9
-----------------------------------------------------------------------------
(* Propagator: what is injected and extracted.                             *)

(* The flags are printed with one digit when there is one, and then odd if *)
(* they were.                                                              *)
LEMMA FlagsPrinted ==
    ASSUME NEW flags \in 0..255, Printable(flags)
    PROVE  LET flag == DigitsOf(FlagNumber(flags))
           IN  /\ Len(flag) <= 1 => /\ flag = <<FlagNumber(flags)>>
                                    /\ flags % 2 = 1 => FlagNumber(flags) # 0
               /\ flags \in {0, 1} => flag = <<flags>>
<1> DEFINE number == FlagNumber(flags)
<1>1. /\ flags \div 16 \in Nat /\ flags % 16 \in Nat
      /\ number = 10 * (flags \div 16) + (flags % 16)
  <2>1. FlagDigits(flags)[1] = flags \div 16 /\ FlagDigits(flags)[2] = flags % 16
    BY DEF FlagDigits
  <2>2. number = 10 * (flags \div 16) + (flags % 16)
    BY <2>1 DEF FlagNumber
  <2>3. flags \div 16 \in Nat /\ flags % 16 \in Nat
    OBVIOUS
  <2> QED
    BY <2>2, <2>3
<1>2. flags % 2 = 1 => flags % 16 # 0
  OBVIOUS
<1>3. flags \in {0, 1} => flags \div 16 = 0 /\ flags % 16 = flags
  OBVIOUS
<1> HIDE DEF number
<1>4. number \in Nat /\ (flags % 2 = 1 => number # 0) /\ (flags \in {0, 1} => number = flags)
  BY <1>1, <1>2, <1>3
<1>5. /\ Len(DigitsOf(number)) = Width(number) /\ Width(number) \in Nat \ {0}
      /\ (Width(number) = 1 <=> number < 10)
      /\ (number < 10 => DigitsOf(number) = <<number>>)
  BY <1>4, OneDigit
<1>6. ASSUME Len(DigitsOf(number)) <= 1 PROVE DigitsOf(number) = <<number>>
  BY <1>5, <1>6
<1>7. ASSUME flags \in {0, 1} PROVE DigitsOf(number) = <<flags>>
  <2>1. number = flags /\ number < 10
    BY <1>4, <1>7
  <2> QED
    BY <1>5, <2>1
<1> QED
  BY <1>4, <1>6, <1>7 DEF number

(* The header of a context with a span has up to maxDigits digits for it,  *)
(* and more than one unless it is below 10.                                *)
LEMMA SpanPrinted ==
    ASSUME NEW maxDigits, NEW limit, SizesFit(maxDigits, limit), NEW span \in 0..(limit - 1)
    PROVE  Len(DigitsOf(span)) \in 1..maxDigits
<1> DEFINE tens == PowersOf(10, maxDigits)
<1>1. maxDigits \in Nat \ {0} /\ limit \in Nat /\ limit <= tens[maxDigits]
  BY DEF SizesFit
<1>2. IsTens(tens, maxDigits)
  BY <1>1, PowersAre DEF IsTens
<1> HIDE DEF tens
<1>3. tens[maxDigits] \in Nat
  BY <1>1, <1>2 DEF IsTens, IsPowers
<1>4. span \in Nat /\ span < tens[maxDigits]
  BY <1>1, <1>2, <1>3
<1>5. Width(span) <= maxDigits
  BY <1>1, <1>2, <1>4, WidthFits
<1>6. Width(span) \in Nat \ {0} /\ Len(DigitsOf(span)) = Width(span)
  BY <1>4, OneDigit
<1> QED
  BY <1>2, <1>5, <1>6

(* What a header with a trace and a span, and flags of one digit, is read  *)
(* as.                                                                     *)
LEMMA HeaderRead ==
    ASSUME NEW maxDigits, NEW limit, SizesFit(maxDigits, limit), NEW ctx,
           NEW sc \in Contexts(limit), Printable(sc.flags), sc.trace # 0, sc.span # 0,
           NEW flag, flag \in {0, 1}, DigitsOf(FlagNumber(sc.flags)) = <<flag>>
    PROVE  Extract(ctx, Inject(sc), maxDigits, limit)
               = [trace |-> sc.trace, span |-> sc.span, flags |-> flag]
<1> DEFINE h == Inject(sc)
<1>1. /\ sc.trace \in Nat /\ sc.span \in 0..(limit - 1) /\ limit \in Nat
      /\ sc.span < limit
  BY DEF Contexts, SizesFit
<1>2. h = [trace |-> sc.trace, span |-> sc.span, digits |-> Len(DigitsOf(sc.span)),
           flag |-> <<flag>>]
  BY DEF Inject
<1>3. Len(DigitsOf(sc.span)) \in 1..maxDigits
  BY <1>1, SpanPrinted
<1> HIDE DEF h
<1>4. /\ h.trace = sc.trace /\ h.span = sc.span /\ h.digits \in 1..maxDigits
      /\ h.flag = <<flag>>
  BY <1>2, <1>3
<1>5. Matches(h, maxDigits) /\ ~NonRecording(h) /\ h.span < limit
  BY <1>1, <1>4 DEF Matches, NonRecording
<1>6. SampledFlag(h) = flag
  BY <1>4 DEF SampledFlag
<1>7. spanContextFromXCTCHeader(h, maxDigits, limit)
          = [trace |-> sc.trace, span |-> sc.span, flags |-> flag]
  BY <1>4, <1>5, <1>6 DEF spanContextFromXCTCHeader
<1>8. [trace |-> sc.trace, span |-> sc.span, flags |-> flag] # Invalid
  BY DEF Invalid
<1>9. h # NoHeader
  BY <1>4 DEF NoHeader
<1>10. Extract(ctx, h, maxDigits, limit) = [trace |-> sc.trace, span |-> sc.span, flags |-> flag]
  BY <1>7, <1>8, <1>9 DEF Extract
<1> QED
  BY <1>10 DEF h

(* What is extracted differs from the context there was only for a header  *)
(* that is matched, is recording and has a span that fits.                 *)
LEMMA ExtractedOnlyIfRead ==
    ASSUME NEW ctx, NEW h, NEW maxDigits, NEW limit,
           Extract(ctx, h, maxDigits, limit) # ctx
    PROVE  /\ Matches(h, maxDigits) /\ ~NonRecording(h) /\ h.span < limit
           /\ h # NoHeader
           /\ Extract(ctx, h, maxDigits, limit)
                  = [trace |-> h.trace, span |-> h.span, flags |-> SampledFlag(h)]
<1>1. h # NoHeader /\ spanContextFromXCTCHeader(h, maxDigits, limit) # Invalid
  BY DEF Extract
<1>2. Extract(ctx, h, maxDigits, limit) = spanContextFromXCTCHeader(h, maxDigits, limit)
  BY <1>1 DEF Extract
<1>3. Matches(h, maxDigits) /\ ~NonRecording(h) /\ h.span < limit
  BY <1>1 DEF spanContextFromXCTCHeader
<1> QED
  BY <1>1, <1>2, <1>3 DEF spanContextFromXCTCHeader

(* The span of the code is of 64 bits, and twenty digits are enough.       *)
SpanDigits == 20
SpanLimit == PowersOf(2, 64)[64]

(* Sixteen more bits need at most five more digits.                        *)
LEMMA SixteenBits ==
    ASSUME NEW twos, IsPowers(twos, 2, 64), NEW tens, IsTens(tens, SpanDigits),
           NEW d \in 0..48, NEW e \in 0..15, twos[d] <= tens[e]
    PROVE  twos[d + 16] <= tens[e + 5]
<1>1. \A n \in 1..64 : twos[n] = 2 * twos[n - 1]
  BY DEF IsPowers
<1>2. \A n \in 0..60 : n \in 0..64 => twos[n + 4] = 16 * twos[n]
  <2> SUFFICES ASSUME NEW n \in 0..60 PROVE twos[n + 4] = 16 * twos[n]
    OBVIOUS
  <2>1. /\ n + 1 \in 1..64 /\ (n + 1) - 1 = n /\ n + 2 \in 1..64 /\ (n + 2) - 1 = n + 1
        /\ n + 3 \in 1..64 /\ (n + 3) - 1 = n + 2 /\ n + 4 \in 1..64 /\ (n + 4) - 1 = n + 3
    OBVIOUS
  <2>2. /\ twos[n + 1] = 2 * twos[n] /\ twos[n + 2] = 2 * twos[n + 1]
        /\ twos[n + 3] = 2 * twos[n + 2] /\ twos[n + 4] = 2 * twos[n + 3]
    BY <1>1, <2>1
  <2>3. twos[n] \in Nat
    BY DEF IsPowers
  <2> QED
    BY <2>2, <2>3
<1>3. /\ d \in 0..60 /\ d + 4 \in 0..60 /\ (d + 4) + 4 = d + 8 /\ d + 8 \in 0..60
      /\ (d + 8) + 4 = d + 12 /\ d + 12 \in 0..60 /\ (d + 12) + 4 = d + 16
  OBVIOUS
<1>4. /\ twos[d + 4] = 16 * twos[d] /\ twos[d + 8] = 16 * twos[d + 4]
      /\ twos[d + 12] = 16 * twos[d + 8] /\ twos[d + 16] = 16 * twos[d + 12]
  BY <1>2, <1>3
<1>5. \A n \in 1..20 : tens[n] = 10 * tens[n - 1]
  BY DEF IsTens, IsPowers, SpanDigits
<1>6. /\ e + 1 \in 1..20 /\ (e + 1) - 1 = e /\ e + 2 \in 1..20 /\ (e + 2) - 1 = e + 1
      /\ e + 3 \in 1..20 /\ (e + 3) - 1 = e + 2 /\ e + 4 \in 1..20 /\ (e + 4) - 1 = e + 3
      /\ e + 5 \in 1..20 /\ (e + 5) - 1 = e + 4
  OBVIOUS
<1>7. /\ tens[e + 1] = 10 * tens[e] /\ tens[e + 2] = 10 * tens[e + 1]
      /\ tens[e + 3] = 10 * tens[e + 2] /\ tens[e + 4] = 10 * tens[e + 3]
      /\ tens[e + 5] = 10 * tens[e + 4]
  BY <1>5, <1>6
<1>8. twos[d] \in Nat /\ tens[e] \in Nat
  BY DEF IsTens, IsPowers, SpanDigits
<1>9. twos[d + 16] = 65536 * twos[d]
  BY <1>4, <1>8
<1>10. tens[e + 5] = 100000 * tens[e]
  BY <1>7, <1>8
<1>11. \A x, y \in Nat : x <= y => 65536 * x <= 100000 * y
  OBVIOUS
<1> QED
  BY <1>8, <1>9, <1>10, <1>11

(* The sizes of the code fit: 64 bits need no more than twenty digits.      *)
THEOREM SizesOfTheCode == SizesFit(SpanDigits, SpanLimit)
<1> DEFINE twos == PowersOf(2, 64)
           tens == PowersOf(10, SpanDigits)
<1>1. IsPowers(twos, 2, 64)
  BY PowersAre
<1>2. IsTens(tens, SpanDigits)
  BY PowersAre DEF IsTens, SpanDigits
<1> HIDE DEF twos, tens
<1>3. twos[0] <= tens[0]
  BY <1>1, <1>2 DEF IsTens, IsPowers
<1>4. twos[16] <= tens[5]
  <2>1. twos[0 + 16] <= tens[0 + 5]
    BY <1>1, <1>2, <1>3, SixteenBits
  <2> QED
    BY <2>1
<1>5. twos[32] <= tens[10]
  <2>1. twos[16 + 16] <= tens[5 + 5]
    BY <1>1, <1>2, <1>4, SixteenBits
  <2> QED
    BY <2>1
<1>6. twos[48] <= tens[15]
  <2>1. twos[32 + 16] <= tens[10 + 5]
    BY <1>1, <1>2, <1>5, SixteenBits
  <2> QED
    BY <2>1
<1>7. twos[64] <= tens[20]
  <2>1. twos[48 + 16] <= tens[15 + 5]
    BY <1>1, <1>2, <1>6, SixteenBits
  <2> QED
    BY <2>1
<1>8. twos[64] \in Nat
  BY <1>1 DEF IsPowers
<1> QED
  BY <1>7, <1>8 DEF SizesFit, SpanDigits, SpanLimit, twos, tens

(* A span context goes through the header of the propagator as Inject and  *)
(* Extract make it of the code's sizes: its trace and its span arrive, the *)
(* flags 00 and 01 as they are, and a sampled one is sampled or does not   *)
(* arrive, whatever the remote context that is there already.              *)
THEOREM ContextsSurvive ==
    ASSUME NEW maxDigits, NEW limit, SizesFit(maxDigits, limit),
           NEW sc \in Contexts(limit), NEW ctx
    PROVE  ContextSurvives(sc, ctx, maxDigits, limit)
<1> DEFINE h == Inject(sc)
           there == Extract(ctx, h, maxDigits, limit)
<1>1. /\ sc.trace \in Nat /\ sc.span \in 0..(limit - 1) /\ sc.flags \in 0..255
      /\ sc = [trace |-> sc.trace, span |-> sc.span, flags |-> sc.flags]
  BY DEF Contexts
<1>2. ASSUME there # ctx
      PROVE  /\ there.trace = sc.trace /\ there.span = sc.span
             /\ sc.flags % 2 = 1 => there.flags = 1
  <2>1. /\ Matches(h, maxDigits) /\ h # NoHeader
        /\ there = [trace |-> h.trace, span |-> h.span, flags |-> SampledFlag(h)]
    BY <1>2, ExtractedOnlyIfRead
  <2>2. Printable(sc.flags)
    BY <2>1 DEF Inject
  <2>3. h = [trace |-> sc.trace, span |-> sc.span, digits |-> Len(DigitsOf(sc.span)),
             flag |-> DigitsOf(FlagNumber(sc.flags))]
    BY <2>2 DEF Inject
  <2> HIDE DEF h, there
  <2>4. Len(DigitsOf(FlagNumber(sc.flags))) <= 1
    BY <2>1, <2>3 DEF Matches
  <2>5. /\ h.flag = <<FlagNumber(sc.flags)>>
        /\ sc.flags % 2 = 1 => FlagNumber(sc.flags) # 0
    BY <1>1, <2>2, <2>3, <2>4, FlagsPrinted
  <2>6. sc.flags % 2 = 1 => SampledFlag(h) = 1
    BY <2>5 DEF SampledFlag
  <2> QED
    BY <2>1, <2>3, <2>6
<1>3. ASSUME sc.trace # 0, sc.span # 0, sc.flags \in {0, 1} PROVE there = sc
  <2>1. Printable(sc.flags)
    <3>1. sc.flags \div 16 = 0 /\ sc.flags % 16 < 10
      BY <1>3
    <3>2. FlagDigits(sc.flags)[1] = sc.flags \div 16 /\ FlagDigits(sc.flags)[2] = sc.flags % 16
      BY DEF FlagDigits
    <3> QED
      BY <3>1, <3>2 DEF Printable
  <2>2. DigitsOf(FlagNumber(sc.flags)) = <<sc.flags>>
    BY <1>1, <1>3, <2>1, FlagsPrinted
  <2>3. there = [trace |-> sc.trace, span |-> sc.span, flags |-> sc.flags]
    BY <1>3, <2>1, <2>2, HeaderRead
  <2> QED
    BY <1>1, <2>3
<1> QED
  BY <1>2, <1>3 DEF ContextSurvives

(* What is extracted of any header, of any number of digits and flags, is  *)
(* injected as the same header but for zeros in front of the span, and for *)
(* a flag that is left out or above 1; and it is sampled only if it says   *)
(* so.                                                                     *)
THEOREM HeadersSurvive ==
    ASSUME NEW maxDigits, NEW limit, SizesFit(maxDigits, limit), NEW h \in Headers, NEW ctx
    PROVE  HeaderSurvives(h, ctx, maxDigits, limit)
<1> DEFINE sc == Extract(ctx, h, maxDigits, limit)
<1> SUFFICES ASSUME sc # ctx
             PROVE  /\ Inject(sc) # NoHeader
                    /\ Inject(sc).trace = h.trace /\ Inject(sc).span = h.span
                    /\ Len(h.flag) <= 1
                    /\ sc.flags = 1 <=> h.flag # <<>> /\ h.flag # <<0>>
                    /\ sc.span # 0 => Extract(ctx, Inject(sc), maxDigits, limit) = sc
  BY DEF HeaderSurvives
<1>1. /\ Matches(h, maxDigits) /\ ~NonRecording(h) /\ h.span < limit
      /\ sc = [trace |-> h.trace, span |-> h.span, flags |-> SampledFlag(h)]
  BY ExtractedOnlyIfRead
<1>2. h.trace \in Nat /\ h.span \in Nat /\ limit \in Nat
  BY DEF Headers, SizesFit
<1>3. SampledFlag(h) \in {0, 1} /\ (SampledFlag(h) = 1 <=> h.flag # <<>> /\ h.flag # <<0>>)
  BY DEF SampledFlag
<1>4. Len(h.flag) <= 1 /\ h.trace # 0
  BY <1>1 DEF Matches, NonRecording
<1> HIDE DEF sc
<1>5. /\ sc \in Contexts(limit)
      /\ sc.trace = h.trace /\ sc.span = h.span /\ sc.flags = SampledFlag(h)
  BY <1>1, <1>2, <1>3 DEF Contexts
<1>6. Printable(sc.flags)
  <2>1. sc.flags \div 16 = 0 /\ sc.flags % 16 < 10
    BY <1>3, <1>5
  <2>2. FlagDigits(sc.flags)[1] = sc.flags \div 16 /\ FlagDigits(sc.flags)[2] = sc.flags % 16
    BY DEF FlagDigits
  <2> QED
    BY <2>1, <2>2 DEF Printable
<1>7. /\ Inject(sc).trace = sc.trace /\ Inject(sc).span = sc.span
  BY <1>6 DEF Inject
<1>8. Inject(sc) # NoHeader
  BY <1>4, <1>5, <1>7 DEF NoHeader
<1>9. DigitsOf(FlagNumber(sc.flags)) = <<sc.flags>>
  <2>1. sc.flags \in 0..255 /\ sc.flags \in {0, 1}
    BY <1>3, <1>5
  <2> QED
    BY <1>6, <2>1, FlagsPrinted
<1>10. ASSUME sc.span # 0 PROVE Extract(ctx, Inject(sc), maxDigits, limit) = sc
  <2>1. Extract(ctx, Inject(sc), maxDigits, limit)
            = [trace |-> sc.trace, span |-> sc.span, flags |-> sc.flags]
    BY <1>3, <1>4, <1>5, <1>6, <1>9, <1>10, HeaderRead
  <2> QED
    BY <1>1, <1>5, <2>1
<1> QED
  BY <1>3, <1>4, <1>5, <1>7, <1>8, <1>10
-----------------------------------------------------------------------------
(* MonitoredResources.                                                     *)

(* The least of some places.                                               *)
LEMMA MinIs ==
    ASSUME NEW T \in SUBSET Nat, NEW m \in T, \A n \in T : m <= n
    PROVE  Min(T) = m
<1>1. Min(T) = CHOOSE x \in T : \A y \in T : x <= y
  BY DEF Min
<1> DEFINE x0 == CHOOSE x \in T : \A y \in T : x <= y
<1>2. x0 \in T /\ \A y \in T : x0 <= y
  OBVIOUS
<1> HIDE DEF x0
<1>3. m <= x0 /\ x0 <= m /\ m \in Nat /\ x0 \in Nat
  BY <1>2
<1> QED
  BY <1>1, <1>3 DEF x0

(* key is the first of some keys.                                         *)
IsFirst(key, keys) ==
    1 \in DOMAIN keys /\ DOMAIN keys \subseteq Nat \ {0} /\ keys[1] = key

(* A usable value of the first of some keys is the one that is taken.      *)
LEMMA FirstUsable ==
    ASSUME NEW attrs, NEW keys, NEW key, IsFirst(key, keys), Usable(GetString(attrs, key))
    PROVE  Coalesced(attrs, keys) = GetString(attrs, key)
<1> DEFINE usable == {n \in DOMAIN keys : Usable(GetString(attrs, keys[n]))}
<1>1. 1 \in DOMAIN keys /\ DOMAIN keys \subseteq Nat \ {0} /\ keys[1] = key
  BY DEF IsFirst
<1>2. 1 \in usable /\ usable \in SUBSET Nat /\ \A n \in usable : 1 <= n
  <2>1. 1 \in usable
    BY <1>1
  <2> QED
    BY <1>1, <2>1
<1>3. Coalesced(attrs, keys)
          = GetString(attrs, keys[IF usable = {} THEN Len(keys) ELSE Min(usable)])
  BY DEF Coalesced
<1> HIDE DEF usable
<1>4. Min(usable) = 1
  BY <1>2, MinIs
<1>5. usable # {}
  BY <1>2
<1> QED
  BY <1>1, <1>3, <1>4, <1>5

(* The keys that tell instances apart: each is the first of a label.       *)
Types == {"gce_instance", "k8s_container", "k8s_pod", "k8s_node", "k8s_cluster", "gae_instance",
          "gae_app", "aws_ec2_instance", "bms_instance", "generic_task", "generic_node"}
FirstKeyOf(key, type, label) ==
    /\ label \in DOMAIN monitoredResourceMappings[type]
    /\ IsFirst(key, monitoredResourceMappings[type][label])

(* The first key of a list of keys.                                        *)
LEMMA KeyLists ==
    ASSUME NEW a, NEW b
    PROVE  IsFirst(a, <<a>>) /\ IsFirst(a, <<a, b>>)
<1>1. DOMAIN <<a>> = 1..1 /\ <<a>>[1] = a
  OBVIOUS
<1>2. DOMAIN <<a, b>> = 1..2 /\ <<a, b>>[1] = a
  OBVIOUS
<1>3. IsFirst(a, <<a>>)
  BY <1>1 DEF IsFirst
<1>4. IsFirst(a, <<a, b>>)
  BY <1>2 DEF IsFirst
<1> QED
  BY <1>3, <1>4

(* Each key of the identity of a type is the first key of one of its       *)
(* labels.                                                                 *)
LEMMA IdentityLabels ==
    ASSUME NEW type \in Types, NEW key \in Identity(type)
    PROVE  key # "cloud.platform" /\ \E label : FirstKeyOf(key, type, label)
<1>1. CASE type = "gce_instance"
  <2>1. Identity(type) = {"host.id"}
    BY <1>1 DEF Identity
  <2>2. monitoredResourceMappings[type] = gce_instance
    BY <1>1 DEF monitoredResourceMappings
  <2>3. FirstKeyOf("host.id", type, "instance_id")
    <3>1. "instance_id" \in DOMAIN gce_instance /\ gce_instance["instance_id"] = <<"host.id">>
      BY DEF gce_instance
    <3>2. IsFirst("host.id", <<"host.id">>)
      BY KeyLists
    <3> QED
      BY <2>2, <3>1, <3>2 DEF FirstKeyOf
  <2> QED
    BY <2>1, <2>3
<1>2. CASE type = "aws_ec2_instance"
  <2>1. Identity(type) = {"host.id"}
    BY <1>2 DEF Identity
  <2>2. monitoredResourceMappings[type] = aws_ec2_instance
    BY <1>2 DEF monitoredResourceMappings
  <2>3. FirstKeyOf("host.id", type, "instance_id")
    <3>1. "instance_id" \in DOMAIN aws_ec2_instance /\ aws_ec2_instance["instance_id"] = <<"host.id">>
      BY DEF aws_ec2_instance
    <3>2. IsFirst("host.id", <<"host.id">>)
      BY KeyLists
    <3> QED
      BY <2>2, <3>1, <3>2 DEF FirstKeyOf
  <2> QED
    BY <2>1, <2>3
<1>3. CASE type = "bms_instance"
  <2>1. Identity(type) = {"host.id"}
    BY <1>3 DEF Identity
  <2>2. monitoredResourceMappings[type] = bms_instance
    BY <1>3 DEF monitoredResourceMappings
  <2>3. FirstKeyOf("host.id", type, "instance_id")
    <3>1. "instance_id" \in DOMAIN bms_instance /\ bms_instance["instance_id"] = <<"host.id">>
      BY DEF bms_instance
    <3>2. IsFirst("host.id", <<"host.id">>)
      BY KeyLists
    <3> QED
      BY <2>2, <3>1, <3>2 DEF FirstKeyOf
  <2> QED
    BY <2>1, <2>3
<1>4. CASE type = "generic_node"
  <2>1. Identity(type) = {"host.id"}
    BY <1>4 DEF Identity
  <2>2. monitoredResourceMappings[type] = generic_node
    BY <1>4 DEF monitoredResourceMappings
  <2>3. FirstKeyOf("host.id", type, "node_id")
    <3>1. "node_id" \in DOMAIN generic_node /\ generic_node["node_id"] = <<"host.id", "host.name">>
      BY DEF generic_node
    <3>2. IsFirst("host.id", <<"host.id", "host.name">>)
      BY KeyLists
    <3> QED
      BY <2>2, <3>1, <3>2 DEF FirstKeyOf
  <2> QED
    BY <2>1, <2>3
<1>5. CASE type = "k8s_container"
  <2>1. Identity(type) = {"k8s.cluster.name", "k8s.pod.name", "k8s.container.name"}
    BY <1>5 DEF Identity
  <2>2. monitoredResourceMappings[type] = k8s_container
    BY <1>5 DEF monitoredResourceMappings
  <2>3. FirstKeyOf("k8s.cluster.name", type, "cluster_name")
    <3>1. "cluster_name" \in DOMAIN k8s_container /\ k8s_container["cluster_name"] = <<"k8s.cluster.name">>
      BY DEF k8s_container
    <3>2. IsFirst("k8s.cluster.name", <<"k8s.cluster.name">>)
      BY KeyLists
    <3> QED
      BY <2>2, <3>1, <3>2 DEF FirstKeyOf
  <2>4. FirstKeyOf("k8s.pod.name", type, "pod_name")
    <3>1. "pod_name" \in DOMAIN k8s_container /\ k8s_container["pod_name"] = <<"k8s.pod.name">>
      BY DEF k8s_container
    <3>2. IsFirst("k8s.pod.name", <<"k8s.pod.name">>)
      BY KeyLists
    <3> QED
      BY <2>2, <3>1, <3>2 DEF FirstKeyOf
  <2>5. FirstKeyOf("k8s.container.name", type, "container_name")
    <3>1. "container_name" \in DOMAIN k8s_container /\ k8s_container["container_name"] = <<"k8s.container.name">>
      BY DEF k8s_container
    <3>2. IsFirst("k8s.container.name", <<"k8s.container.name">>)
      BY KeyLists
    <3> QED
      BY <2>2, <3>1, <3>2 DEF FirstKeyOf
  <2> QED
    BY <2>1, <2>3, <2>4, <2>5
<1>6. CASE type = "k8s_pod"
  <2>1. Identity(type) = {"k8s.cluster.name", "k8s.pod.name"}
    BY <1>6 DEF Identity
  <2>2. monitoredResourceMappings[type] = k8s_pod
    BY <1>6 DEF monitoredResourceMappings
  <2>3. FirstKeyOf("k8s.cluster.name", type, "cluster_name")
    <3>1. "cluster_name" \in DOMAIN k8s_pod /\ k8s_pod["cluster_name"] = <<"k8s.cluster.name">>
      BY DEF k8s_pod
    <3>2. IsFirst("k8s.cluster.name", <<"k8s.cluster.name">>)
      BY KeyLists
    <3> QED
      BY <2>2, <3>1, <3>2 DEF FirstKeyOf
  <2>4. FirstKeyOf("k8s.pod.name", type, "pod_name")
    <3>1. "pod_name" \in DOMAIN k8s_pod /\ k8s_pod["pod_name"] = <<"k8s.pod.name">>
      BY DEF k8s_pod
    <3>2. IsFirst("k8s.pod.name", <<"k8s.pod.name">>)
      BY KeyLists
    <3> QED
      BY <2>2, <3>1, <3>2 DEF FirstKeyOf
  <2> QED
    BY <2>1, <2>3, <2>4
<1>7. CASE type = "k8s_node"
  <2>1. Identity(type) = {"k8s.cluster.name", "k8s.node.name"}
    BY <1>7 DEF Identity
  <2>2. monitoredResourceMappings[type] = k8s_node
    BY <1>7 DEF monitoredResourceMappings
  <2>3. FirstKeyOf("k8s.cluster.name", type, "cluster_name")
    <3>1. "cluster_name" \in DOMAIN k8s_node /\ k8s_node["cluster_name"] = <<"k8s.cluster.name">>
      BY DEF k8s_node
    <3>2. IsFirst("k8s.cluster.name", <<"k8s.cluster.name">>)
      BY KeyLists
    <3> QED
      BY <2>2, <3>1, <3>2 DEF FirstKeyOf
  <2>4. FirstKeyOf("k8s.node.name", type, "node_name")
    <3>1. "node_name" \in DOMAIN k8s_node /\ k8s_node["node_name"] = <<"k8s.node.name">>
      BY DEF k8s_node
    <3>2. IsFirst("k8s.node.name", <<"k8s.node.name">>)
      BY KeyLists
    <3> QED
      BY <2>2, <3>1, <3>2 DEF FirstKeyOf
  <2> QED
    BY <2>1, <2>3, <2>4
<1>8. CASE type = "k8s_cluster"
  <2>1. Identity(type) = {"k8s.cluster.name"}
    BY <1>8 DEF Identity
  <2>2. monitoredResourceMappings[type] = k8s_cluster
    BY <1>8 DEF monitoredResourceMappings
  <2>3. FirstKeyOf("k8s.cluster.name", type, "cluster_name")
    <3>1. "cluster_name" \in DOMAIN k8s_cluster /\ k8s_cluster["cluster_name"] = <<"k8s.cluster.name">>
      BY DEF k8s_cluster
    <3>2. IsFirst("k8s.cluster.name", <<"k8s.cluster.name">>)
      BY KeyLists
    <3> QED
      BY <2>2, <3>1, <3>2 DEF FirstKeyOf
  <2> QED
    BY <2>1, <2>3
<1>9. CASE type = "gae_instance"
  <2>1. Identity(type) = {"faas.name", "faas.instance"}
    BY <1>9 DEF Identity
  <2>2. monitoredResourceMappings[type] = gae_instance
    BY <1>9 DEF monitoredResourceMappings
  <2>3. FirstKeyOf("faas.name", type, "module_id")
    <3>1. "module_id" \in DOMAIN gae_instance /\ gae_instance["module_id"] = <<"faas.name">>
      BY DEF gae_instance
    <3>2. IsFirst("faas.name", <<"faas.name">>)
      BY KeyLists
    <3> QED
      BY <2>2, <3>1, <3>2 DEF FirstKeyOf
  <2>4. FirstKeyOf("faas.instance", type, "instance_id")
    <3>1. "instance_id" \in DOMAIN gae_instance /\ gae_instance["instance_id"] = <<"faas.instance">>
      BY DEF gae_instance
    <3>2. IsFirst("faas.instance", <<"faas.instance">>)
      BY KeyLists
    <3> QED
      BY <2>2, <3>1, <3>2 DEF FirstKeyOf
  <2> QED
    BY <2>1, <2>3, <2>4
<1>10. CASE type = "gae_app"
  <2>1. Identity(type) = {"faas.name"}
    BY <1>10 DEF Identity
  <2>2. monitoredResourceMappings[type] = gae_app
    BY <1>10 DEF monitoredResourceMappings
  <2>3. FirstKeyOf("faas.name", type, "module_id")
    <3>1. "module_id" \in DOMAIN gae_app /\ gae_app["module_id"] = <<"faas.name">>
      BY DEF gae_app
    <3>2. IsFirst("faas.name", <<"faas.name">>)
      BY KeyLists
    <3> QED
      BY <2>2, <3>1, <3>2 DEF FirstKeyOf
  <2> QED
    BY <2>1, <2>3
<1>11. CASE type = "generic_task"
  <2>1. Identity(type) = {"service.name", "service.instance.id"}
    BY <1>11 DEF Identity
  <2>2. monitoredResourceMappings[type] = generic_task
    BY <1>11 DEF monitoredResourceMappings
  <2>3. FirstKeyOf("service.name", type, "job")
    <3>1. "job" \in DOMAIN generic_task /\ generic_task["job"] = <<"service.name", "faas.name">>
      BY DEF generic_task
    <3>2. IsFirst("service.name", <<"service.name", "faas.name">>)
      BY KeyLists
    <3> QED
      BY <2>2, <3>1, <3>2 DEF FirstKeyOf
  <2>4. FirstKeyOf("service.instance.id", type, "task_id")
    <3>1. "task_id" \in DOMAIN generic_task /\ generic_task["task_id"] = <<"service.instance.id", "faas.instance">>
      BY DEF generic_task
    <3>2. IsFirst("service.instance.id", <<"service.instance.id", "faas.instance">>)
      BY KeyLists
    <3> QED
      BY <2>2, <3>1, <3>2 DEF FirstKeyOf
  <2> QED
    BY <2>1, <2>3, <2>4
<1> QED
  BY <1>1, <1>2, <1>3, <1>4, <1>5, <1>6, <1>7, <1>8, <1>9, <1>10, <1>11 DEF Types

(* So its usable value is the label.                                       *)
LEMMA LabelIsValue ==
    ASSUME NEW attrs, NEW type, NEW key, NEW label, FirstKeyOf(key, type, label),
           Usable(GetString(attrs, key))
    PROVE  createMonitoredResource(type, attrs).labels[label] = GetString(attrs, key)
<1> DEFINE keys == monitoredResourceMappings[type][label]
           value == GetString(attrs, key)
           labels == [l \in DOMAIN monitoredResourceMappings[type] |-> LabelValue(type, l, attrs)]
<1>1. label \in DOMAIN monitoredResourceMappings[type] /\ IsFirst(key, keys)
  BY DEF FirstKeyOf
<1>2. createMonitoredResource(type, attrs).labels = labels
  BY DEF createMonitoredResource
<1>3. labels[label] = LabelValue(type, label, attrs)
  BY <1>1
<1> HIDE DEF keys, labels
<1>4. Coalesced(attrs, keys) = value
  BY <1>1, FirstUsable
<1> HIDE DEF value
<1>5. value # ""
  BY DEF Usable, value
<1>6. LabelValue(type, label, attrs) = value
  BY <1>4, <1>5, Zenon DEF LabelValue, keys
<1> QED
  BY <1>2, <1>3, <1>6 DEF value

(* The type of a resource of a cluster.                                    *)
LEMMA KubernetesTypes ==
    ASSUME NEW attrs
    PROVE  /\ Has(attrs, "k8s.container.name") => KubernetesType(attrs) = "k8s_container"
           /\ ~Has(attrs, "k8s.container.name") /\ Has(attrs, "k8s.pod.name")
                 => KubernetesType(attrs) = "k8s_pod"
           /\ ~Has(attrs, "k8s.container.name") /\ ~Has(attrs, "k8s.pod.name")
                 => KubernetesType(attrs) = IF Has(attrs, "k8s.node.name") THEN "k8s_node"
                                            ELSE "k8s_cluster"
<1>1. CASE Has(attrs, "k8s.container.name")
  BY <1>1 DEF KubernetesType
<1>2. CASE ~Has(attrs, "k8s.container.name") /\ Has(attrs, "k8s.pod.name")
  BY <1>2 DEF KubernetesType
<1>3. CASE ~Has(attrs, "k8s.container.name") /\ ~Has(attrs, "k8s.pod.name")
  BY <1>3 DEF KubernetesType
<1> QED
  BY <1>1, <1>2, <1>3

(* The type of a resource depends on the keys there are, and on the        *)
(* platform, only.                                                         *)
LEMMA TypeKept ==
    ASSUME NEW attrs, NEW changed, DOMAIN attrs = DOMAIN changed,
           GetString(attrs, "cloud.platform") = GetString(changed, "cloud.platform")
    PROVE  /\ CommonType(attrs) = CommonType(changed) /\ OnAppEngine(attrs) = OnAppEngine(changed)
           /\ CommonType(attrs) \in Types
<1>1. \A k : Has(attrs, k) <=> Has(changed, k)
  BY DEF Has
<1>2. KubernetesType(attrs) = KubernetesType(changed) /\ KubernetesType(attrs) \in Types
  <2>1. CASE Has(attrs, "k8s.container.name")
    BY <1>1, <2>1, KubernetesTypes DEF Types
  <2>2. CASE ~Has(attrs, "k8s.container.name") /\ Has(attrs, "k8s.pod.name")
    BY <1>1, <2>2, KubernetesTypes DEF Types
  <2>3. CASE ~Has(attrs, "k8s.container.name") /\ ~Has(attrs, "k8s.pod.name")
    BY <1>1, <2>3, KubernetesTypes DEF Types
  <2> QED
    BY <2>1, <2>2, <2>3
<1>3. IsTask(attrs) = IsTask(changed)
  BY <1>1, Zenon DEF IsTask
<1>4. CommonType(attrs) = CommonType(changed)
  BY <1>1, <1>2, <1>3, Zenon DEF CommonType
<1>5. CommonType(attrs) \in Types
  BY <1>2 DEF CommonType, Types
<1>6. OnAppEngine(attrs) = OnAppEngine(changed)
  BY DEF OnAppEngine
<1> QED
  BY <1>4, <1>5, <1>6

(* Two monitored resources of a type that differ in a key of its identity. *)
LEMMA CreatedApart ==
    ASSUME NEW attrs, NEW key \in DOMAIN attrs, NEW other, NEW type \in Types,
           key \in Identity(type),
           Usable(attrs[key]), Usable(other), attrs[key] # other
    PROVE  LET changed == [attrs EXCEPT ![key] = other]
           IN  createMonitoredResource(type, attrs) # createMonitoredResource(type, changed)
<1> DEFINE changed == [attrs EXCEPT ![key] = other]
<1>1. DOMAIN changed = DOMAIN attrs /\ changed[key] = other
  OBVIOUS
<1> HIDE DEF changed
<1>2. GetString(attrs, key) = attrs[key] /\ GetString(changed, key) = other
  BY <1>1 DEF GetString, Has
<1>3. PICK label : FirstKeyOf(key, type, label)
  BY IdentityLabels
<1>4. createMonitoredResource(type, attrs).labels[label] = attrs[key]
  BY <1>2, <1>3, LabelIsValue
<1>5. createMonitoredResource(type, changed).labels[label] = other
  BY <1>2, <1>3, LabelIsValue
<1>6. createMonitoredResource(type, attrs) # createMonitoredResource(type, changed)
  BY <1>4, <1>5
<1> QED
  BY <1>6 DEF changed

(* The instance of the prometheus_target is that of the pod, when no       *)
(* instance of a service was given and the name of the pod is not unknown. *)
LEMMA PodInstance ==
    ASSUME NEW attrs,
           Has(attrs, "k8s.pod.name"), attrs["k8s.pod.name"] # Unknown,
           DOMAIN attrs \cap {"instance", "service.instance.id", "faas.instance"} = {}
    PROVE  Instance(attrs) = IF Has(attrs, "k8s.container.name")
                             THEN <<attrs["k8s.pod.name"], attrs["k8s.container.name"]>>
                             ELSE <<attrs["k8s.pod.name"]>>
<1> DEFINE keys == promTargetKeys.instance
           found == {n \in DOMAIN keys : Has(attrs, keys[n]) /\ attrs[keys[n]] # Unknown}
<1>1. keys = <<"instance", "service.instance.id", "faas.instance", "k8s.pod.name", "host.id">>
  BY DEF promTargetKeys
<1>2. /\ DOMAIN keys = 1..5 /\ keys[1] = "instance" /\ keys[2] = "service.instance.id"
      /\ keys[3] = "faas.instance" /\ keys[4] = "k8s.pod.name"
  BY <1>1
<1> HIDE DEF keys
<1>3. 4 \in found
  BY <1>2
<1>4. \A n \in found : 4 <= n
  <2> SUFFICES ASSUME NEW n \in found, ~(4 <= n) PROVE FALSE
    OBVIOUS
  <2>1. n \in {1, 2, 3} /\ keys[n] \in DOMAIN attrs
    BY <1>2 DEF Has
  <2> QED
    BY <1>2, <2>1
<1>5. found \in SUBSET Nat
  BY <1>2
<1>6. FoundKey(attrs, keys) = CASE found # {} -> keys[Min(found)]
          [] found = {} /\ Contains(keys, "service.name") /\ Has(attrs, "service.name") -> "service.name"
          [] OTHER -> ""
  BY DEF FoundKey
<1> HIDE DEF found
<1>7. found # {} /\ Min(found) = 4
  BY <1>3, <1>4, <1>5, MinIs
<1>8. FoundKey(attrs, keys) = "k8s.pod.name"
  BY <1>2, <1>6, <1>7
<1>9. StringOrDefault(attrs, "", keys) = attrs["k8s.pod.name"]
  <2>1. "k8s.pod.name" # ""
    OBVIOUS
  <2> QED
    BY <1>8, <2>1, Zenon DEF StringOrDefault
<1>10. Instance(attrs) = <<attrs["k8s.pod.name"]>> \o
           IF Has(attrs, "k8s.container.name") THEN <<attrs["k8s.container.name"]>> ELSE <<>>
  BY <1>8, <1>9, Zenon DEF Instance, keys
<1>11. \A x, y : <<x>> \o <<y>> = <<x, y>> /\ <<x>> \o <<>> = <<x>>
  <2> SUFFICES ASSUME NEW x, NEW y PROVE <<x>> \o <<y>> = <<x, y>> /\ <<x>> \o <<>> = <<x>>
    OBVIOUS
  <2>1. <<x>> \in Seq({x, y}) /\ <<y>> \in Seq({x, y}) /\ <<>> \in Seq({x, y})
    OBVIOUS
  <2>2. <<x>> \o <<y>> = <<x, y>>
    <3> DEFINE c == <<x>> \o <<y>>
    <3>1. c \in Seq({x, y}) /\ Len(c) = 2 /\ c[1] = x /\ c[2] = y
      BY <2>1
    <3>2. <<x, y>> \in Seq({x, y}) /\ Len(<<x, y>>) = 2 /\ <<x, y>>[1] = x /\ <<x, y>>[2] = y
      OBVIOUS
    <3> HIDE DEF c
    <3>3. c = [n \in 1..2 |-> IF n = 1 THEN x ELSE y]
      BY <3>1
    <3>4. <<x, y>> = [n \in 1..2 |-> IF n = 1 THEN x ELSE y]
      OBVIOUS
    <3> QED
      BY <3>3, <3>4 DEF c
  <2>3. <<x>> \o <<>> = <<x>>
    BY <2>1, ConcatEmptySeq
  <2> QED
    BY <2>2, <2>3
<1> QED
  BY <1>10, <1>11

(* Two resources, of any attributes, that differ in a usable value of a    *)
(* key which tells instances apart are written to two monitored resources, *)
(* by logs, metrics and the SDK, and two containers or pods to two         *)
(* prometheus_targets; but a pod that has the name of an unknown service   *)
(* is passed over there, and an empty gcp.resource_type is the type of an  *)
(* exporter that has none.                                                 *)
THEOREM InstancesKeptApart ==
    ASSUME NEW attrs, NEW key \in DOMAIN attrs, NEW other,
           Has(attrs, "k8s.pod.name") => attrs["k8s.pod.name"] # Unknown,
           Has(attrs, "gcp.resource_type") => attrs["gcp.resource_type"] # ""
    PROVE  InstancesToldApart(attrs, key, other)
<1> SUFFICES ASSUME Usable(attrs[key]), Usable(other), attrs[key] # other
             PROVE  InstancesToldApart(attrs, key, other)
  BY Zenon DEF InstancesToldApart
<1> DEFINE changed == [attrs EXCEPT ![key] = other]
<1>1. /\ DOMAIN changed = DOMAIN attrs /\ changed[key] = other
      /\ \A k \in DOMAIN attrs : k # key => changed[k] = attrs[k]
  OBVIOUS
<1>2. ASSUME NEW type \in Types, key \in Identity(type)
      PROVE  createMonitoredResource(type, attrs) # createMonitoredResource(type, changed)
  BY <1>2, CreatedApart
<1>3. ASSUME key # "cloud.platform"
      PROVE  /\ CommonType(attrs) = CommonType(changed)
             /\ OnAppEngine(attrs) = OnAppEngine(changed)
             /\ CommonType(attrs) \in Types
  <2> HIDE DEF changed
  <2>1. GetString(attrs, "cloud.platform") = GetString(changed, "cloud.platform")
    BY <1>1, <1>3 DEF GetString, Has
  <2> QED
    BY <1>1, <2>1, TypeKept
<1> HIDE DEF changed
<1>4. \A type \in Types : key \in Identity(type) => key # "cloud.platform"
  BY IdentityLabels
<1>5. CommonType(attrs) \in Types
  BY TypeKept
<1>6. "gae_instance" \in Types /\ "gae_app" \in Types
  BY DEF Types
<1>7. \A type, x : createMonitoredResource(type, x).type = type
  BY DEF createMonitoredResource
<1>8. ASSUME key \in Identity(ForMonitoring(attrs).type)
      PROVE  ForMonitoring(attrs) # ForMonitoring(changed)
  <2> DEFINE type(x) == IF OnAppEngine(x) THEN "gae_instance" ELSE CommonType(x)
  <2>1. /\ ForMonitoring(attrs) = createMonitoredResource(type(attrs), attrs)
        /\ ForMonitoring(changed) = createMonitoredResource(type(changed), changed)
    BY DEF ForMonitoring
  <2>2. type(attrs) \in Types
    BY <1>5, <1>6
  <2>3. key \in Identity(type(attrs))
    <3> HIDE DEF type
    <3> QED
      BY <1>7, <1>8, <2>1
  <2>4. key # "cloud.platform"
    <3> HIDE DEF type
    <3> QED
      BY <1>4, <2>2, <2>3
  <2>5. type(changed) = type(attrs)
    BY <1>3, <2>4, Zenon
  <2> HIDE DEF type
  <2>6. createMonitoredResource(type(attrs), attrs) # createMonitoredResource(type(attrs), changed)
    BY <1>2, <2>2, <2>3
  <2> QED
    BY <2>1, <2>5, <2>6, Zenon
<1>9. ASSUME key \in Identity(ForLogging(attrs).type)
      PROVE  ForLogging(attrs) # ForLogging(changed)
  <2> DEFINE type(x) == IF OnAppEngine(x) THEN "gae_app" ELSE CommonType(x)
  <2>1. /\ ForLogging(attrs) = createMonitoredResource(type(attrs), attrs)
        /\ ForLogging(changed) = createMonitoredResource(type(changed), changed)
    BY DEF ForLogging
  <2>2. type(attrs) \in Types
    BY <1>5, <1>6
  <2>3. key \in Identity(type(attrs))
    <3> HIDE DEF type
    <3> QED
      BY <1>7, <1>9, <2>1
  <2>4. key # "cloud.platform"
    <3> HIDE DEF type
    <3> QED
      BY <1>4, <2>2, <2>3
  <2>5. type(changed) = type(attrs)
    BY <1>3, <2>4, Zenon
  <2> HIDE DEF type
  <2>6. createMonitoredResource(type(attrs), attrs) # createMonitoredResource(type(attrs), changed)
    BY <1>2, <2>2, <2>3
  <2> QED
    BY <2>1, <2>5, <2>6, Zenon
<1>10. ForSDK(attrs, [type |-> "", labels |-> {}]) = ForMonitoring(attrs)
  <2>1. [type |-> "", labels |-> {}].type = ""
    OBVIOUS
  <2>2. ~(Has(attrs, "gcp.resource_type") /\ attrs["gcp.resource_type"] = "")
    OBVIOUS
  <2> QED
    BY <2>1, <2>2, Zenon DEF ForSDK
<1>11. ASSUME key \in {"k8s.pod.name", "k8s.container.name"}, Has(attrs, "k8s.pod.name"),
              DOMAIN attrs \cap {"instance", "service.instance.id", "faas.instance"} = {}
       PROVE  MapToPrometheusTarget(attrs) # MapToPrometheusTarget(changed)
  <2>1. changed["k8s.pod.name"] # Unknown
    <3>1. CASE key = "k8s.pod.name"
      BY <1>1, <3>1 DEF Usable
    <3>2. CASE key # "k8s.pod.name"
      BY <1>1, <1>11, <3>2 DEF Has
    <3> QED
      BY <3>1, <3>2
  <2> DEFINE NamesOf(x) == IF Has(x, "k8s.container.name")
                         THEN <<x["k8s.pod.name"], x["k8s.container.name"]>>
                         ELSE <<x["k8s.pod.name"]>>
  <2>2. Instance(attrs) = NamesOf(attrs)
    BY <1>11, PodInstance
  <2>3. Instance(changed) = NamesOf(changed)
    <3>1. Has(changed, "k8s.pod.name")
      BY <1>1, <1>11 DEF Has
    <3> QED
      BY <1>1, <1>11, <2>1, <3>1, PodInstance
  <2>4. NamesOf(attrs) # NamesOf(changed)
    <3>1. CASE key = "k8s.pod.name"
      <4>1. NamesOf(attrs)[1] = attrs[key] /\ NamesOf(changed)[1] = other
        BY <1>1, <3>1
      <4> QED
        BY <4>1
    <3>2. CASE key = "k8s.container.name"
      <4>1. Has(attrs, "k8s.container.name") /\ Has(changed, "k8s.container.name")
        BY <1>1, <3>2 DEF Has
      <4>2. NamesOf(attrs)[2] = attrs[key] /\ NamesOf(changed)[2] = other
        BY <1>1, <3>2, <4>1
      <4> QED
        BY <4>2
    <3> QED
      BY <1>11, <3>1, <3>2
  <2> HIDE DEF Names
  <2>5. Instance(attrs) # Instance(changed)
    BY <2>2, <2>3, <2>4
  <2>6. \A x : MapToPrometheusTarget(x).labels.instance = Instance(x)
    BY DEF MapToPrometheusTarget
  <2> QED
    BY <2>5, <2>6
<1>12. ASSUME key # "gcp.resource_type"
       PROVE  LET told == [type |-> "told", labels |-> {key}] IN
              ForSDK(OfType("told", attrs), told) # ForSDK(OfType("told", changed), told)
  <2> DEFINE told == [type |-> "told", labels |-> {key}]
             one == OfType("told", attrs)
             another == OfType("told", changed)
  <2>1. /\ key \in DOMAIN one /\ key \in DOMAIN another
        /\ one[key] = attrs[key] /\ another[key] = other
        /\ Has(one, "gcp.resource_type") /\ one["gcp.resource_type"] = "told"
        /\ Has(another, "gcp.resource_type") /\ another["gcp.resource_type"] = "told"
    BY <1>1, <1>12 DEF OfType, Has
  <2>2. told.type = "told" /\ told.labels = {key}
    OBVIOUS
  <2> HIDE DEF told, one, another
  <2>3. /\ ForSDK(one, told).labels = [l \in DOMAIN one \cap {key} |-> one[l]]
        /\ ForSDK(another, told).labels = [l \in DOMAIN another \cap {key} |-> another[l]]
    BY <2>1, <2>2 DEF ForSDK
  <2>4. ForSDK(one, told).labels[key] = attrs[key] /\ ForSDK(another, told).labels[key] = other
    BY <2>1, <2>3
  <2>5. ForSDK(one, told) # ForSDK(another, told)
    BY <2>4
  <2> QED
    BY <2>5 DEF told, one, another
<1> QED
  BY <1>8, <1>9, <1>10, <1>11, <1>12 DEF InstancesToldApart, changed

(* Of two keys, the second is taken whenever the first is not usable.      *)
LEMMA CoalescedOfTwo ==
    ASSUME NEW attrs, NEW a, NEW b
    PROVE  Coalesced(attrs, <<a, b>>)
               = IF Usable(GetString(attrs, a)) THEN GetString(attrs, a) ELSE GetString(attrs, b)
<1> DEFINE keys == <<a, b>>
           usable == {n \in DOMAIN keys : Usable(GetString(attrs, keys[n]))}
<1>1. Coalesced(attrs, keys)
          = GetString(attrs, keys[IF usable = {} THEN Len(keys) ELSE Min(usable)])
  BY DEF Coalesced
<1>2. DOMAIN keys = 1..2 /\ keys[1] = a /\ keys[2] = b /\ Len(keys) = 2
  OBVIOUS
<1>3. CASE Usable(GetString(attrs, a))
  <2>1. Coalesced(attrs, keys) = GetString(attrs, a)
    BY <1>3, KeyLists, FirstUsable
  <2> QED
    BY <1>3, <2>1
<1>4. CASE ~Usable(GetString(attrs, a))
  <2>1. \A n \in usable : n = 2
    BY <1>2, <1>4
  <2>2. usable = {} \/ (2 \in usable /\ usable \in SUBSET Nat /\ \A n \in usable : 2 <= n)
    BY <2>1
  <2> HIDE DEF usable, keys
  <2>3. usable = {} \/ (usable # {} /\ Min(usable) = 2)
    BY <2>2, MinIs
  <2>4. Coalesced(attrs, keys) = GetString(attrs, b)
    BY <1>1, <1>2, <2>3
  <2> QED
    BY <1>4, <2>4 DEF keys
<1> QED
  BY <1>3, <1>4

(* The label of the job.                                                   *)
LEMMA JobLabel ==
    ASSUME NEW attrs
    PROVE  LET s == GetString(attrs, "service.name")
               f == GetString(attrs, "faas.name")
           IN  LabelValue("generic_task", "job", attrs)
                   = IF Usable(s) THEN s ELSE IF f # "" THEN f ELSE s
<1> DEFINE s == GetString(attrs, "service.name")
           f == GetString(attrs, "faas.name")
           keys == monitoredResourceMappings["generic_task"]["job"]
           coalesced == Coalesced(attrs, keys)
           named == IF coalesced = "" /\ Contains(keys, "service.name") THEN s ELSE coalesced
<1>1. keys = <<"service.name", "faas.name">>
  BY DEF monitoredResourceMappings, generic_task
<1>2. Contains(keys, "service.name")
  BY <1>1 DEF Contains
<1>3. coalesced = IF Usable(s) THEN s ELSE f
  BY <1>1, CoalescedOfTwo
<1>4. fallbackLiteral("generic_task", "job") = ""
  BY DEF fallbackLiteral
<1>5. LabelValue("generic_task", "job", attrs)
          = IF named = "" THEN fallbackLiteral("generic_task", "job") ELSE named
  BY DEF LabelValue
<1> HIDE DEF s, f, keys, coalesced
<1>6. named = IF Usable(s) THEN s ELSE IF f # "" THEN f ELSE s
  BY <1>2, <1>3, Zenon DEF Usable
<1>7. LabelValue("generic_task", "job", attrs) = named
  BY <1>4, <1>5, Zenon
<1> QED
  BY <1>6, <1>7 DEF s, f

(* The job of a prometheus_target, of resources without a job or workload. *)
LEMMA JobFound ==
    ASSUME NEW attrs,
           DOMAIN attrs \cap Range(promTargetKeys.job) \subseteq {"service.name", "faas.name"}
    PROVE  StringOrDefault(attrs, "", promTargetKeys.job)
               = IF Has(attrs, "service.name") /\ attrs["service.name"] # Unknown
                 THEN attrs["service.name"]
                 ELSE IF Has(attrs, "faas.name") /\ attrs["faas.name"] # Unknown
                 THEN attrs["faas.name"]
                 ELSE IF Has(attrs, "service.name") THEN attrs["service.name"] ELSE ""
<1> DEFINE keys == promTargetKeys.job
           found == {n \in DOMAIN keys : Has(attrs, keys[n]) /\ attrs[keys[n]] # Unknown}
           fk == FoundKey(attrs, keys)
<1>1. keys = <<"job", "service.name", "faas.name", "k8s.deployment.name", "k8s.statefulset.name",
               "k8s.daemonset.name", "k8s.job.name", "k8s.cronjob.name">>
  BY DEF promTargetKeys
<1>2. /\ DOMAIN keys = 1..8 /\ keys[1] = "job" /\ keys[2] = "service.name" /\ keys[3] = "faas.name"
      /\ keys[4] = "k8s.deployment.name" /\ keys[5] = "k8s.statefulset.name"
      /\ keys[6] = "k8s.daemonset.name" /\ keys[7] = "k8s.job.name" /\ keys[8] = "k8s.cronjob.name"
  BY <1>1
<1>3. Contains(keys, "service.name")
  <2>1. Len(keys) = 8 /\ 2 \in 1..8
    BY <1>1
  <2> HIDE DEF keys
  <2> QED
    BY <1>2, <2>1 DEF Contains
<1>4. Range(keys) = {keys[n] : n \in DOMAIN keys}
  BY DEF Range
<1>5. DOMAIN attrs \cap Range(keys) \subseteq {"service.name", "faas.name"}
  OBVIOUS
<1>6. fk = CASE found # {} -> keys[Min(found)]
          [] found = {} /\ Contains(keys, "service.name") /\ Has(attrs, "service.name") -> "service.name"
          [] OTHER -> ""
  BY DEF FoundKey
<1>7. StringOrDefault(attrs, "", keys) = IF fk = "" THEN "" ELSE attrs[fk]
  BY DEF StringOrDefault
<1> HIDE DEF keys, fk
<1>8. \A n \in found : n \in {2, 3}
  <2> SUFFICES ASSUME NEW n \in found PROVE n \in {2, 3}
    OBVIOUS
  <2>1. n \in 1..8 /\ keys[n] \in DOMAIN attrs
    BY <1>2 DEF Has
  <2>2. keys[n] \in {"service.name", "faas.name"}
    BY <1>2, <1>4, <1>5, <2>1
  <2>3. n \in {1, 2, 3, 4, 5, 6, 7, 8}
    BY <2>1
  <2> QED
    BY <1>2, <2>2, <2>3
<1>9. /\ 2 \in found <=> Has(attrs, "service.name") /\ attrs["service.name"] # Unknown
      /\ 3 \in found <=> Has(attrs, "faas.name") /\ attrs["faas.name"] # Unknown
      /\ found \in SUBSET Nat
  BY <1>2
<1> HIDE DEF found
<1>10. CASE 2 \in found
  <2>1. Min(found) = 2 /\ found # {}
    BY <1>8, <1>9, <1>10, MinIs
  <2>2. fk = "service.name"
    BY <1>2, <1>6, <2>1
  <2>3. StringOrDefault(attrs, "", keys) = attrs["service.name"]
    BY <1>7, <2>2
  <2> QED
    BY <1>9, <1>10, <2>3 DEF keys
<1>11. CASE 2 \notin found /\ 3 \in found
  <2>1. Min(found) = 3 /\ found # {}
    BY <1>8, <1>9, <1>11, MinIs
  <2>2. fk = "faas.name"
    BY <1>2, <1>6, <2>1
  <2>3. StringOrDefault(attrs, "", keys) = attrs["faas.name"]
    BY <1>7, <2>2
  <2> QED
    BY <1>9, <1>11, <2>3 DEF keys
<1>12. CASE 2 \notin found /\ 3 \notin found
  <2>1. found = {}
    BY <1>8, <1>12
  <2>2. fk = IF Has(attrs, "service.name") THEN "service.name" ELSE ""
    BY <1>3, <1>6, <2>1
  <2>3. StringOrDefault(attrs, "", keys) = IF Has(attrs, "service.name") THEN attrs["service.name"] ELSE ""
    BY <1>7, <2>2
  <2> QED
    BY <1>9, <1>12, <2>3 DEF keys
<1> QED
  BY <1>10, <1>11, <1>12

(* The name of a service, of any attributes: an unknown one gives way to   *)
(* any other name and is not lost when there is none; and the job of the   *)
(* monitored resource and that of the prometheus_target are the same, as   *)
(* long as faas.name is not that of an unknown service, which only the     *)
(* first writes.                                                           *)
THEOREM ServicesNamed ==
    ASSUME NEW attrs, GetString(attrs, "faas.name") # Unknown
    PROVE  ServiceIsNamed(attrs)
<1> DEFINE s == GetString(attrs, "service.name")
           f == GetString(attrs, "faas.name")
           known == {GetString(attrs, k) : k \in {"service.name", "faas.name"}} \ {"", Unknown}
           job == LabelValue("generic_task", "job", attrs)
<1>1. job = IF Usable(s) THEN s ELSE IF f # "" THEN f ELSE s
  BY JobLabel
<1>2. \A x : x \in known <=> (x = s \/ x = f) /\ Usable(x)
  BY DEF Usable
<1>3. /\ s = IF Has(attrs, "service.name") THEN attrs["service.name"] ELSE ""
      /\ f = IF Has(attrs, "faas.name") THEN attrs["faas.name"] ELSE ""
  BY DEF GetString
<1>4. ASSUME DOMAIN attrs \cap Range(promTargetKeys.job) \subseteq {"service.name", "faas.name"},
             "" \notin {attrs[k] : k \in DOMAIN attrs}
      PROVE  Job(attrs)[2] = job
  <2> DEFINE found == StringOrDefault(attrs, "", promTargetKeys.job)
  <2>1. Job(attrs)[2] = found
    BY DEF Job
  <2>2. found = IF Has(attrs, "service.name") /\ attrs["service.name"] # Unknown
                THEN attrs["service.name"]
                ELSE IF Has(attrs, "faas.name") /\ attrs["faas.name"] # Unknown
                THEN attrs["faas.name"]
                ELSE IF Has(attrs, "service.name") THEN attrs["service.name"] ELSE ""
    BY <1>4, JobFound
  <2>3. \A k : Has(attrs, k) => attrs[k] # ""
    BY <1>4 DEF Has
  <2> HIDE DEF found, job, s, f
  <2>4. f # Unknown
    BY DEF f
  <2>5. found = job
    <3>1. CASE Has(attrs, "service.name") /\ attrs["service.name"] # Unknown
      <4>1. s = attrs["service.name"] /\ found = attrs["service.name"]
        BY <1>3, <2>2, <3>1, Zenon
      <4>2. Usable(s)
        BY <2>3, <3>1, <4>1, Zenon DEF Usable
      <4> QED
        BY <1>1, <4>1, <4>2, Zenon
    <3>2. CASE ~(Has(attrs, "service.name") /\ attrs["service.name"] # Unknown)
      <4>1. ~Usable(s)
        BY <1>3, <3>2, Zenon DEF Usable
      <4>2. CASE Has(attrs, "faas.name")
        <5>1. f = attrs["faas.name"] /\ f # ""
          BY <1>3, <2>3, <4>2, Zenon
        <5>2. found = f
          BY <2>2, <2>4, <3>2, <4>2, <5>1, Zenon
        <5> QED
          BY <1>1, <4>1, <5>1, <5>2, Zenon
      <4>3. CASE ~Has(attrs, "faas.name")
        <5>1. f = ""
          BY <1>3, <4>3, Zenon
        <5>2. found = s
          BY <1>3, <2>2, <3>2, <4>3, Zenon
        <5> QED
          BY <1>1, <4>1, <5>1, <5>2, Zenon
      <4> QED
        BY <4>2, <4>3
    <3> QED
      BY <3>1, <3>2
  <2> QED
    BY <2>1, <2>5
<1> HIDE DEF s, f, known, job
<1>5. job \in IF known # {} THEN known ELSE {s, f}
  <2>1. CASE Usable(s)
    BY <1>1, <1>2, <2>1
  <2>2. CASE ~Usable(s) /\ Usable(f)
    <3>1. f # ""
      BY <2>2 DEF Usable
    <3> QED
      BY <1>1, <1>2, <2>2, <3>1
  <2>3. CASE ~Usable(s) /\ ~Usable(f)
    BY <1>1, <1>2, <2>3
  <2> QED
    BY <2>1, <2>2, <2>3
<1>6. s # "" => job # ""
  BY <1>1
<1> QED
  BY <1>4, <1>5, <1>6 DEF ServiceIsNamed, s, f, known, job

-----------------------------------------------------------------------------
(* LogSplit.                                                               *)

(* Division rounds down.                                                   *)
LEMMA Quotient ==
    ASSUME NEW a \in Nat, NEW s \in Nat \ {0}
    PROVE  /\ a \div s \in Nat
           /\ s * (a \div s) <= a /\ a < s * (a \div s) + s
           /\ a % s = 0 => s * (a \div s) = a
<1>1. a \div s \in Nat
  OBVIOUS
<1>2. s * (a \div s) <= a
  OBVIOUS
<1>3. a < s * (a \div s) + s
  OBVIOUS
<1>4. ASSUME a % s = 0 PROVE a <= s * (a \div s)
  BY <1>4
<1>5. s * (a \div s) \in Nat
  BY <1>1
<1> QED
  BY <1>1, <1>2, <1>3, <1>4, <1>5

(* What is below a multiple by less than its factor.                       *)
LEMMA Below ==
    ASSUME NEW s \in Nat \ {0}, NEW x \in Int, NEW y \in Int, s * x < s * y + s
    PROVE  x <= y
  OBVIOUS

(* A product, one factor more.                                             *)
LEMMA OneMore ==
    ASSUME NEW k \in Nat \ {0}, NEW n \in Nat
    PROVE  k * n \in Nat /\ (k - 1) * n \in Nat /\ k * n = (k - 1) * n + n
  OBVIOUS

(* As many pieces as the room asks for.                                    *)
LEMMA PiecesNeeded ==
    ASSUME NEW n \in Nat, NEW room \in Int, Outcome(n, room) = "split"
    PROVE  LET s == SplitsFor(n, room)
           IN  room \in Nat \ {0} /\ s \in Nat \ {0} /\ n <= s * room /\ s <= n
<1> DEFINE s == SplitsFor(n, room)
<1>1. n > 0 /\ room # 0 /\ s > 1
  <2>1. n > 0 /\ room # 0
    BY DEF Outcome
  <2>2. ~(s <= 1)
    BY <2>1 DEF Outcome
  <2>3. s \in Int
    <3>1. room > 0 => n + room - 1 \in Nat /\ room \in Nat \ {0}
      OBVIOUS
    <3> QED
      BY <3>1, Quotient DEF SplitsFor
  <2> HIDE DEF s
  <2> QED
    BY <2>1, <2>2, <2>3
<1>2. room \in Nat \ {0} /\ s = (n + room - 1) \div room
  BY <1>1 DEF SplitsFor
<1>3. n + room - 1 \in Nat
  BY <1>1, <1>2
<1>4. /\ s \in Nat /\ room * s <= n + room - 1 /\ n + room - 1 < room * s + room
  BY <1>2, <1>3, Quotient
<1> HIDE DEF s
<1>5. n <= s * room
  BY <1>2, <1>4
<1>6. room * s = room * (s - 1) + room
  BY <1>1, <1>2, <1>4
<1>7. room * (s - 1) >= s - 1
  BY <1>1, <1>2, <1>4
<1>8. s <= n
  <2> DEFINE a == room * (s - 1)
             b == room * s
  <2>1. a \in Int /\ b \in Int
    BY <1>2, <1>4
  <2> HIDE DEF a, b
  <2>2. b = a + room /\ a >= s - 1 /\ b <= n + room - 1
    BY <1>4, <1>6, <1>7 DEF a, b
  <2> QED
    BY <1>2, <1>4, <2>1, <2>2
<1> QED
  BY <1>1, <1>2, <1>4, <1>5, <1>8 DEF s

(* The exact boundaries: even pieces, but for a byte.                      *)
Exact(k, s, n) == (k * n) \div s

(* A piece with exact boundaries is of the rounded size, or a byte more,   *)
(* and fits the room; the cases say when it is which.                      *)
LEMMA ExactPieces ==
    ASSUME NEW n \in Nat, NEW s \in Nat \ {0}, NEW room \in Nat, n <= s * room,
           NEW k \in 1..s
    PROVE  LET f == n \div s
               D == Exact(k, s, n) - Exact(k - 1, s, n)
           IN  /\ Exact(k, s, n) \in Nat /\ Exact(k - 1, s, n) \in Nat
               /\ Exact(k, s, n) <= n
               /\ D <= room /\ f <= D /\ D <= f + 1
               /\ n % s = 0 => D = f
               /\ n % s # 0 /\ (k * n) % s = 0 => D = f + 1
               /\ n % s # 0 /\ ((k - 1) * n) % s = 0 => D = f
<1> DEFINE f == n \div s
           b == (k * n) \div s
           c == ((k - 1) * n) \div s
           D == b - c
           p == k * n
           q == (k - 1) * n
<1>1. p \in Nat /\ q \in Nat /\ p = q + n
  BY OneMore
<1>2. b \in Nat /\ s * b <= p /\ p < s * b + s /\ (p % s = 0 => s * b = p)
  BY <1>1, Quotient
<1>3. c \in Nat /\ s * c <= q /\ q < s * c + s /\ (q % s = 0 => s * c = q)
  BY <1>1, Quotient
<1>4. f \in Nat /\ s * f <= n /\ n < s * f + s /\ (n % s = 0 => s * f = n)
  BY Quotient
<1>5. n % s # 0 => s * f # n
  <2>1. SUFFICES ASSUME s * f = n PROVE n % s = 0
    OBVIOUS
  <2> QED
    BY <1>4, <2>1
<1>6. Exact(k, s, n) = b /\ Exact(k - 1, s, n) = c
  BY DEF Exact
<1>7. p <= s * n
  OBVIOUS
<1>8. s * D = s * b - s * c /\ D \in Int
  BY <1>2, <1>3
<1> DEFINE sb == s * b
           sc == s * c
           sf == s * f
           sD == s * D
           sr == s * room
           sn == s * n
<1>9. sb \in Int /\ sc \in Int /\ sf \in Int /\ sD \in Int /\ sr \in Int /\ sn \in Int
  BY <1>2, <1>3, <1>4, <1>8
<1>10. s * (f + 1) = sf + s /\ s * (f - 1) = sf - s /\ s * (D - 1) = sD - s /\ s * (f + 2) = sf + s + s
  BY <1>4, <1>8
<1> HIDE DEF p, q, b, c, f, D, sb, sc, sf, sD, sr, sn
<1>11. /\ sb <= p /\ p < sb + s /\ (p % s = 0 => sb = p)
       /\ sc <= q /\ q < sc + s /\ (q % s = 0 => sc = q)
       /\ sf <= n /\ n < sf + s /\ (n % s = 0 => sf = n) /\ (n % s # 0 => sf # n)
       /\ sD = sb - sc /\ p = q + n /\ n <= sr /\ p <= sn
  BY <1>1, <1>2, <1>3, <1>4, <1>5, <1>7, <1>8 DEF sb, sc, sf, sD, sr, sn
<1>12. b <= n
  <2>1. sb < sn + s
    BY <1>1, <1>9, <1>11
  <2> QED
    BY <1>2, <2>1, Below DEF sb, sn
<1>13. D <= room
  <2>1. sD < sr + s
    BY <1>1, <1>9, <1>11
  <2> QED
    BY <1>8, <2>1, Below DEF sD, sr
<1>14. f <= D
  <2>1. sf < sD + s
    BY <1>1, <1>9, <1>11
  <2> QED
    BY <1>4, <1>8, <2>1, Below DEF sD, sf
<1>15. D <= f + 1
  <2>1. sD < s * (f + 1) + s
    BY <1>1, <1>9, <1>10, <1>11
  <2> QED
    BY <1>4, <1>8, <2>1, Below DEF sD
<1>16. ASSUME n % s = 0 \/ q % s = 0 PROVE D <= f
  <2>1. sD < sf + s
    BY <1>1, <1>9, <1>11, <1>16
  <2> QED
    BY <1>4, <1>8, <2>1, Below DEF sD, sf
<1>17. ASSUME n % s # 0, p % s = 0 PROVE f + 1 <= D
  <2>1. s * (f + 1) < sD + s
    BY <1>1, <1>9, <1>10, <1>11, <1>17
  <2> QED
    BY <1>4, <1>8, <2>1, Below DEF sD
<1>18. /\ n % s = 0 => D = f
       /\ n % s # 0 /\ p % s = 0 => D = f + 1
       /\ n % s # 0 /\ q % s = 0 => D = f
  BY <1>4, <1>8, <1>14, <1>15, <1>16, <1>17
<1>19. D = b - c
  BY DEF D
<1> QED
  BY <1>2, <1>3, <1>6, <1>12, <1>13, <1>14, <1>15, <1>18, <1>19 DEF f, p, q

(* The sizes of the pieces, when a boundary in slips is one byte lower.    *)
LEMMA PieceSizes ==
    ASSUME NEW n \in Nat, NEW s \in Nat \ {0}, NEW room \in Nat, n <= s * room, s <= n,
           NEW slips \in SUBSET Inexact(n, s), NEW k \in 1..s
    PROVE  LET f == n \div s
               size == Boundary(k, s, n, slips) - Boundary(k - 1, s, n, slips)
           IN  /\ f \in Nat /\ size \in Nat /\ size <= room + 1
               /\ Boundary(k, s, n, slips) \in Int /\ Boundary(k - 1, s, n, slips) \in Int
               /\ Boundary(k, s, n, slips) <= n
               /\ n % s = 0 => f - 1 <= size /\ size <= f + 1
               /\ n % s # 0 => f <= size /\ size <= f + 1
<1> DEFINE f == n \div s
           b == Exact(k, s, n)
           c == Exact(k - 1, s, n)
           B == Boundary(k, s, n, slips)
           C == Boundary(k - 1, s, n, slips)
<1>1. /\ b \in Nat /\ c \in Nat /\ b <= n /\ b - c <= room /\ f <= b - c /\ b - c <= f + 1
      /\ n % s = 0 => b - c = f
      /\ n % s # 0 /\ (k * n) % s = 0 => b - c = f + 1
      /\ n % s # 0 /\ ((k - 1) * n) % s = 0 => b - c = f
  BY ExactPieces
<1>2. f \in Nat /\ f >= 1
  <2>1. f \in Nat /\ n < s * f + s
    BY Quotient
  <2>2. f = 0 => s * f = 0
    BY <2>1
  <2> HIDE DEF f
  <2> QED
    BY <2>1, <2>2
<1>3. B = b - (IF k \in slips THEN 1 ELSE 0) /\ C = c - (IF k - 1 \in slips THEN 1 ELSE 0)
  BY DEF Boundary, Exact
<1>4. k \in slips => (k * n) % s = 0
  BY DEF Inexact
<1>5. k - 1 \in slips => ((k - 1) * n) % s = 0
  BY DEF Inexact
<1> HIDE DEF f, b, c, B, C
<1>6. B \in Int /\ C \in Int /\ B <= n /\ B - C <= room + 1 /\ B - C >= f - 1
  BY <1>1, <1>2, <1>3
<1>7. n % s = 0 => f - 1 <= B - C /\ B - C <= f + 1
  BY <1>1, <1>2, <1>3
<1>8. ASSUME n % s # 0 PROVE f <= B - C /\ B - C <= f + 1
  <2>1. CASE k \in slips
    <3>1. b - c = f + 1
      BY <1>1, <1>4, <1>8, <2>1
    <3>2. k - 1 \notin slips
      BY <1>1, <1>2, <1>5, <1>8, <3>1
    <3> QED
      BY <1>1, <1>2, <1>3, <2>1, <3>1, <3>2
  <2>2. CASE k \notin slips /\ k - 1 \in slips
    <3>1. b - c = f
      BY <1>1, <1>5, <1>8, <2>2
    <3> QED
      BY <1>1, <1>2, <1>3, <2>2, <3>1
  <2>3. CASE k \notin slips /\ k - 1 \notin slips
    BY <1>1, <1>2, <1>3, <2>3
  <2> QED
    BY <2>1, <2>2, <2>3
<1> QED
  BY <1>2, <1>6, <1>7, <1>8 DEF f, B, C

(* The first boundary is the beginning of the text, the last its end.      *)
LEMMA Ends ==
    ASSUME NEW n \in Nat, NEW s \in Nat \ {0}, NEW slips \in SUBSET Inexact(n, s)
    PROVE  Boundary(0, s, n, slips) = 0 /\ Boundary(s, s, n, slips) = n
<1>1. 0 \notin slips /\ s \notin slips
  BY DEF Inexact
<1>2. 0 * n = 0 /\ 0 \div s = 0
  OBVIOUS
<1>3. (s * n) \div s = n
  <2> DEFINE q == (s * n) \div s
  <2>1. s * n \in Nat
    OBVIOUS
  <2>2. q \in Nat /\ s * q <= s * n /\ s * n < s * q + s
    BY <2>1, Quotient
  <2> HIDE DEF q
  <2>3. s * q < s * n + s
    BY <2>1, <2>2
  <2>4. q <= n /\ n <= q
    BY <2>2, <2>3, Below
  <2> QED
    BY <2>2, <2>4 DEF q
<1> QED
  BY <1>1, <1>2, <1>3 DEF Boundary

(* The recursive definition of Cuts, unfolded: the inner loop has nothing  *)
(* to take off a piece that fits.                                          *)
LEMMA CutsAtBoundaries ==
    ASSUME NEW n \in Nat, NEW s \in Nat \ {0}, NEW slips \in SUBSET Inexact(n, s),
           NEW maxSize \in Int,
           \A k \in 0..s : Boundary(k, s, n, slips) \in Int,
           \A k \in 1..s :
              Boundary(k, s, n, slips) - Boundary(k - 1, s, n, slips) <= maxSize
    PROVE  \A k \in 0..s : Cuts(n, s, slips, maxSize)[k] = Boundary(k, s, n, slips)
<1> DEFINE B(k) == Boundary(k, s, n, slips)
           Value(f, k) == IF k = 0 THEN 0 ELSE Fitted(f[k - 1], B(k), maxSize)
           exact == [k \in 0..s |-> B(k)]
           cuts == Cuts(n, s, slips, maxSize)
<1>1. B(0) = 0
  BY Ends
<1>2. \A k \in 1..s : Fitted(B(k - 1), B(k), maxSize) = B(k)
  <2> SUFFICES ASSUME NEW k \in 1..s PROVE Fitted(B(k - 1), B(k), maxSize) = B(k)
    OBVIOUS
  <2>1. k \in 0..s /\ k - 1 \in 0..s
    OBVIOUS
  <2>2. B(k) \in Int /\ B(k - 1) \in Int /\ B(k) - B(k - 1) <= maxSize
    BY <2>1
  <2> HIDE DEF B
  <2> QED
    BY <2>2 DEF Fitted
<1> HIDE DEF B
<1>3. exact = [k \in 0..s |-> Value(exact, k)]
  <2>1. ASSUME NEW k \in 0..s PROVE B(k) = Value(exact, k)
    <3>1. CASE k = 0
      BY <1>1, <3>1
    <3>2. CASE k # 0
      <4>1. k \in 1..s /\ k - 1 \in 0..s /\ exact[k - 1] = B(k - 1)
        BY <3>2
      <4> QED
        BY <1>2, <3>2, <4>1
    <3> QED
      BY <3>1, <3>2
  <2> QED
    BY <2>1
<1>4. cuts = [k \in 0..s |-> Value(cuts, k)]
  <2>1. cuts = CHOOSE g : g = [k \in 0..s |-> Value(g, k)]
    BY DEF Cuts, B
  <2> HIDE DEF Value, cuts
  <2> QED
    BY <1>3, <2>1
<1> HIDE DEF cuts
<1> DEFINE S == {k \in 0..s : cuts[k] = B(k)}
<1>5. \A k \in 0..s : cuts[k] = Value(cuts, k)
  <2> HIDE DEF Value
  <2> QED
    BY <1>4
<1>6. 0 \in S
  BY <1>1, <1>5
<1>7. \A k \in 0..s : k \in S /\ k < s => k + 1 \in S
  <2> SUFFICES ASSUME NEW k \in 0..s, k \in S, k < s PROVE k + 1 \in S
    OBVIOUS
  <2>1. k + 1 \in 1..s /\ k + 1 \in 0..s /\ (k + 1) - 1 = k /\ k + 1 # 0
    OBVIOUS
  <2>2. cuts[k + 1] = Fitted(B(k), B(k + 1), maxSize)
    BY <1>5, <2>1
  <2>3. Fitted(B(k), B(k + 1), maxSize) = B(k + 1)
    BY <1>2, <2>1
  <2> QED
    BY <2>1, <2>2, <2>3
<1>8. \A k \in 0..s : k \in S
  <2> HIDE DEF S
  <2> QED
    BY <1>6, <1>7, Induction
<1> QED
  BY <1>8 DEF B, cuts

(* However long a text is, and wherever float64 rounds down, the slices it *)
(* is cut into are legal, in order, and all of it; each fits its room, up  *)
(* to a byte, and no piece is more than two bytes larger than another.  An *)
(* entry has some overhead: its log name, for one.                         *)
THEOREM PiecesAreLegal ==
    ASSUME NEW n \in Nat, NEW maxSize \in Int, NEW overheadBytes \in Nat \ {0},
           NEW slips \in SUBSET Inexact(n, SplitsFor(n, Room(maxSize, overheadBytes)))
    PROVE  PiecesLegal(n, maxSize, overheadBytes, slips)
<1> DEFINE room == Room(maxSize, overheadBytes)
           s == SplitsFor(n, room)
           cuts == Cuts(n, s, slips, maxSize)
           B(k) == Boundary(k, s, n, slips)
           f == n \div s
<1>1. SUFFICES ASSUME Outcome(n, room) = "split"
               PROVE  /\ \A k \in 1..s : cuts[k - 1] <= B(k) /\ B(k) <= n
                      /\ cuts[s] = n
                      /\ \A k \in 1..s : cuts[k] - cuts[k - 1] <= room + 1
                      /\ \A j, k \in 1..s :
                            cuts[j] - cuts[j - 1] <= (cuts[k] - cuts[k - 1]) + 2
  BY DEF PiecesLegal
<1>2. room \in Int /\ room + 1 <= maxSize
  BY DEF Room
<1>3. room \in Nat \ {0} /\ s \in Nat \ {0} /\ n <= s * room /\ s <= n
  BY <1>1, <1>2, PiecesNeeded
<1>4. slips \in SUBSET Inexact(n, s)
  OBVIOUS
<1> HIDE DEF room, s
<1>5. ASSUME NEW k \in 1..s
      PROVE  /\ f \in Nat /\ B(k) - B(k - 1) \in Nat /\ B(k) - B(k - 1) <= room + 1
             /\ B(k) \in Int /\ B(k - 1) \in Int /\ B(k) <= n
             /\ n % s = 0 => f - 1 <= B(k) - B(k - 1) /\ B(k) - B(k - 1) <= f + 1
             /\ n % s # 0 => f <= B(k) - B(k - 1) /\ B(k) - B(k - 1) <= f + 1
  BY <1>3, <1>4, PieceSizes
<1>6. B(0) = 0 /\ B(s) = n
  BY <1>3, <1>4, Ends
<1> HIDE DEF B, f
<1>7. \A k \in 0..s : B(k) \in Int
  <2> SUFFICES ASSUME NEW k \in 0..s PROVE B(k) \in Int
    OBVIOUS
  <2>1. k = 0 \/ k \in 1..s
    BY <1>3
  <2> QED
    BY <1>5, <1>6, <2>1
<1>8. \A k \in 1..s : B(k) - B(k - 1) <= maxSize
  <2> SUFFICES ASSUME NEW k \in 1..s PROVE B(k) - B(k - 1) <= maxSize
    OBVIOUS
  <2>1. B(k) \in Int /\ B(k - 1) \in Int /\ B(k) - B(k - 1) <= room + 1
    BY <1>5
  <2> QED
    BY <1>2, <2>1
<1>9. \A k \in 0..s : cuts[k] = B(k)
  BY <1>3, <1>4, <1>7, <1>8, CutsAtBoundaries DEF B
<1> HIDE DEF cuts
<1>10. ASSUME NEW k \in 1..s
       PROVE  cuts[k] = B(k) /\ cuts[k - 1] = B(k - 1) /\ B(k - 1) <= B(k)
  <2>1. k \in 0..s /\ k - 1 \in 0..s
    BY <1>3
  <2>2. B(k) \in Int /\ B(k - 1) \in Int /\ B(k) - B(k - 1) \in Nat
    BY <1>5
  <2> QED
    BY <1>9, <2>1, <2>2
<1>11. cuts[s] = n
  BY <1>3, <1>6, <1>9
<1>12. ASSUME NEW j \in 1..s, NEW k \in 1..s
       PROVE  cuts[j] - cuts[j - 1] <= (cuts[k] - cuts[k - 1]) + 2
  <2> DEFINE x == B(j) - B(j - 1)
             y == B(k) - B(k - 1)
  <2>1. /\ f \in Nat /\ x \in Nat /\ y \in Nat
        /\ n % s = 0 => x <= f + 1 /\ f - 1 <= y
        /\ n % s # 0 => x <= f + 1 /\ f <= y
    BY <1>5
  <2> HIDE DEF x, y
  <2>2. x <= y + 2
    BY <2>1
  <2> QED
    BY <1>10, <2>2 DEF x, y
<1> QED
  BY <1>5, <1>10, <1>11, <1>12
-----------------------------------------------------------------------------
(* MetricMapping.                                                          *)

(* A key that has been sanitized stays as it is, and so do the labels that *)
(* every series of a scope gets.                                           *)
LEMMA SanitizedOnce == \A k : sanitizeKey(sanitizeKey(k)) = sanitizeKey(k)
  BY DEF sanitizeKey

(* The labels of attributes have the sanitized keys.                       *)
LEMMA LabelKeys ==
    \A attrs : DOMAIN attributesToLabels(attrs) = {sanitizeKey(k) : k \in DOMAIN attrs}
  BY DEF attributesToLabels

(* Merged labels: those of the second win over those of the first.         *)
LEMMA MergedKeys ==
    \A f, g : /\ DOMAIN mergeLabels(f, g) = DOMAIN f \cup DOMAIN g
              /\ \A k \in DOMAIN g : mergeLabels(f, g)[k] = g[k]
              /\ \A k \in DOMAIN f \ DOMAIN g : mergeLabels(f, g)[k] = f[k]
  BY DEF mergeLabels

(* The labels every series of a scope gets have sanitized keys.            *)
LEMMA ExtraSanitized ==
    ASSUME NEW resourceAttrs, NEW scope, NEW config
    PROVE  Sanitized(ExtraLabels(resourceAttrs, scope, config))
<1> DEFINE own == attributesToLabels(
                      filterAttributes(resourceAttrs, config.serviceLabels, config.filtered))
           ofScope == instrumentationScopeToLabels(scope, config.scopeLabels)
<1>1. Sanitized(own)
  <2>1. ASSUME NEW attrs, NEW k \in DOMAIN attributesToLabels(attrs)
        PROVE  sanitizeKey(k) = k
    <3>1. PICK key \in DOMAIN attrs : k = sanitizeKey(key)
      BY LabelKeys, ZenonT(30)
    <3> QED
      BY <3>1, SanitizedOnce
  <2> QED
    BY <2>1 DEF Sanitized
<1>2. Sanitized(ofScope)
  <2>1. DOMAIN << >> = {}
    OBVIOUS
  <2>2. ASSUME NEW k, NEW v PROVE DOMAIN NonEmptyLabel(k, v) \subseteq {k}
    <3>1. DOMAIN Label(k, v) = {k}
      BY DEF Label
    <3> QED
      BY <2>1, <3>1 DEF NonEmptyLabel
  <2>3. DOMAIN ofScope \subseteq {"instrumentation_source", "instrumentation_version"}
    <3> DEFINE source == NonEmptyLabel("instrumentation_source", scope.name)
               version == NonEmptyLabel("instrumentation_version", scope.version)
    <3>1. /\ DOMAIN source \subseteq {"instrumentation_source"}
          /\ DOMAIN version \subseteq {"instrumentation_version"}
      BY <2>2
    <3>2. ofScope = IF ~config.scopeLabels THEN << >> ELSE mergeLabels(source, version)
      BY DEF instrumentationScopeToLabels
    <3> HIDE DEF source, version, ofScope
    <3>3. DOMAIN mergeLabels(source, version) = DOMAIN source \cup DOMAIN version
      BY MergedKeys
    <3> QED
      BY <2>1, <3>1, <3>2, <3>3
  <2>4. /\ sanitizeKey("instrumentation_source") = "instrumentation_source"
        /\ sanitizeKey("instrumentation_version") = "instrumentation_version"
    BY DEF sanitizeKey
  <2> HIDE DEF ofScope
  <2> QED
    BY <2>3, <2>4 DEF Sanitized
<1> HIDE DEF own, ofScope
<1>3. Sanitized(mergeLabels(ofScope, own))
  BY <1>1, <1>2, MergedKeys DEF Sanitized
<1> QED
  BY <1>3 DEF ExtraLabels, own, ofScope

(* The series of a point, and of a metric: those of all its points.        *)
SeriesOfPoint(m, p, extra) ==
    IF Dropped(m, p) THEN {}
    ELSE IF m.type = "summary"
         THEN {TotalSeries(p, extra, "_sum"), TotalSeries(p, extra, "_count")}
                 \cup {QuantileSeries(p, extra, q) : q \in 1..p.quantiles}
         ELSE {PointSeries(m, p, extra)}

(* The series written for one point.                                       *)
LEMMA WrittenForPoint ==
    ASSUME NEW m, NEW p, p.quantiles \in Nat, NEW extra
    PROVE  /\ pointToTimeSeries(m, p, extra) \in Seq(SeriesOfPoint(m, p, extra))
           /\ Range(pointToTimeSeries(m, p, extra)) = SeriesOfPoint(m, p, extra)
<1> DEFINE s == pointToTimeSeries(m, p, extra)
           S == SeriesOfPoint(m, p, extra)
<1>1. CASE Dropped(m, p)
  <2>1. s = <<>> /\ S = {}
    BY <1>1 DEF pointToTimeSeries, SeriesOfPoint
  <2>2. <<>> \in Seq({}) /\ Range(<<>>) = {}
    BY DEF Range
  <2> HIDE DEF s, S
  <2> QED
    BY <2>1, <2>2 DEF s, S
<1>2. CASE ~Dropped(m, p) /\ m.type # "summary"
  <2> DEFINE ts == PointSeries(m, p, extra)
  <2>1. s = <<ts>> /\ S = {ts}
    BY <1>2 DEF pointToTimeSeries, SeriesOfPoint
  <2> HIDE DEF s, S, ts
  <2>2. <<ts>> \in Seq({ts}) /\ Range(<<ts>>) = {ts}
    BY DEF Range
  <2> QED
    BY <2>1, <2>2 DEF s, S
<1>3. CASE ~Dropped(m, p) /\ m.type = "summary"
  <2> DEFINE a == TotalSeries(p, extra, "_sum")
             b == TotalSeries(p, extra, "_count")
             quantiles == [q \in 1..p.quantiles |-> QuantileSeries(p, extra, q)]
  <2>1. s = <<a, b>> \o quantiles
    BY <1>3 DEF pointToTimeSeries, SummarySeries
  <2>2. S = {a, b} \cup {quantiles[q] : q \in 1..p.quantiles}
    BY <1>3 DEF SeriesOfPoint
  <2>3. quantiles \in Seq(S) /\ Len(quantiles) = p.quantiles
    <3>1. \A q \in 1..p.quantiles : quantiles[q] \in S
      BY <2>2
    <3> HIDE DEF S
    <3> QED
      BY <3>1
  <2>4. Range(quantiles) = {quantiles[q] : q \in 1..p.quantiles}
    BY DEF Range
  <2>5. a \in S /\ b \in S
    BY <2>2
  <2> HIDE DEF s, S, a, b, quantiles
  <2>6. <<a, b>> \in Seq(S) /\ Range(<<a, b>>) = {a, b}
    BY <2>5 DEF Range
  <2>7. s \in Seq(S)
    BY <2>1, <2>3, <2>6
  <2>8. Range(s) = S
    <3>1. \A x : x \in Range(<<a, b>> \o quantiles)
                    <=> x \in Range(<<a, b>>) \/ x \in Range(quantiles)
      BY <2>3, <2>6, ConcatRange
    <3>2. \A x : x \in Range(s) <=> x \in {a, b} \/ x \in {quantiles[q] : q \in 1..p.quantiles}
      BY <2>1, <2>4, <2>6, <3>1, Zenon
    <3> DEFINE Q == {quantiles[q] : q \in 1..p.quantiles}
    <3> HIDE DEF Q
    <3>3. \A x : x \in Range(s) <=> x \in {a, b} \/ x \in Q
      BY <3>2 DEF Q
    <3>4. S = {a, b} \cup Q
      BY <2>2 DEF Q
    <3> QED
      BY <3>3, <3>4
  <2> QED
    BY <2>7, <2>8 DEF s, S
<1> QED
  BY <1>1, <1>2, <1>3

(* The series of a metric are those of its points.                         *)
LEMMA WrittenForMetric ==
    ASSUME NEW Units, NEW Attributes, NEW m \in MetricsWith(Units, Attributes), NEW extra, NEW ts
    PROVE  ts \in Range(metricToTimeSeries(m, extra)) <=>
              \E n \in 1..Len(m.points) : ts \in SeriesOfPoint(m, m.points[n], extra)
<1> DEFINE N == Len(m.points)
           Of(n) == SeriesOfPoint(m, m.points[n], extra)
           All == UNION {Of(n) : n \in 1..N}
           seqs == [n \in DOMAIN m.points |-> pointToTimeSeries(m, m.points[n], extra)]
<1>1. /\ N \in Nat /\ DOMAIN m.points = 1..N
      /\ \A n \in 1..N : m.points[n] \in PointsWith(Attributes)
  <2>1. m.points \in Seq(PointsWith(Attributes))
    BY DEF MetricsWith
  <2> QED
    BY <2>1
<1>2. ASSUME NEW n \in 1..N
      PROVE  seqs[n] \in Seq(Of(n)) /\ Range(seqs[n]) = Of(n)
  <2>1. m.points[n].quantiles \in Nat /\ seqs[n] = pointToTimeSeries(m, m.points[n], extra)
    BY <1>1 DEF PointsWith
  <2> QED
    BY <2>1, WrittenForPoint
<1>3. seqs \in [1..N -> Seq(All)]
  <2>1. \A n \in 1..N : seqs[n] \in Seq(Of(n)) /\ Of(n) \subseteq All
    BY <1>2
  <2>2. \A T : T \subseteq All => Seq(T) \subseteq Seq(All)
    OBVIOUS
  <2>3. \A n \in 1..N : seqs[n] \in Seq(All)
    <3> HIDE DEF seqs, All, Of
    <3> QED
      BY <2>1, <2>2
  <2>4. DOMAIN seqs = 1..N /\ seqs = [n \in DOMAIN seqs |-> seqs[n]]
    BY <1>1
  <2> HIDE DEF seqs, All
  <2> QED
    BY <2>3, <2>4
<1>4. metricToTimeSeries(m, extra) = FlattenSeq(seqs)
  BY DEF metricToTimeSeries
<1> HIDE DEF All, seqs, N, Of
<1>5. seqs \in Seq(Seq(All)) /\ Len(seqs) = N
  BY <1>1, <1>3
<1>6. ts \in Range(FlattenSeq(seqs)) <=> \E n \in 1..Len(seqs) : ts \in Range(seqs[n])
  BY <1>5, FlattenedRange
<1>7. ts \in Range(FlattenSeq(seqs)) <=> \E n \in 1..N : ts \in Of(n)
  BY <1>2, <1>5, <1>6
<1> QED
  BY <1>4, <1>7 DEF Of, N

(* The keys of the label descriptors, however often each is listed.        *)
ListedKeys(m, extra) == ExtraKeys(extra) \cup PointKeys(m, DOMAIN m.points)
LEMMA KeysListed ==
    ASSUME NEW m, NEW extra
    PROVE  /\ DOMAIN labelDescriptors(m, extra) = ListedKeys(m, extra)
           /\ DOMAIN (labelDescriptors(m, extra) (+) SetToBag({"quantile"}))
                 = ListedKeys(m, extra) \cup {"quantile"}
           /\ m.type # "exponential" =>
                 DOMAIN SDKLabelDescriptors(m, extra) = ListedKeys(m, extra)
<1>1. \A S : DOMAIN SetToBag(S) = S
  BY DEF SetToBag
<1>2. \A a, b : DOMAIN (a (+) b) = DOMAIN a \cup DOMAIN b
  BY DEF (+)
<1> DEFINE given == ExtraKeys(extra)
           found == PointKeys(m, DOMAIN m.points)
<1>3. labelDescriptors(m, extra) = SetToBag(given) (+) SetToBag(found)
  BY DEF labelDescriptors
<1>4. m.type # "exponential" => SDKLabelDescriptors(m, extra) = SetToBag(given \cup found)
  BY DEF SDKLabelDescriptors
<1>5. ListedKeys(m, extra) = given \cup found
  BY DEF ListedKeys
<1> HIDE DEF given, found
<1>6. DOMAIN labelDescriptors(m, extra) = ListedKeys(m, extra)
  <2>1. DOMAIN labelDescriptors(m, extra) = DOMAIN SetToBag(given) \cup DOMAIN SetToBag(found)
    BY <1>2, <1>3
  <2> QED
    BY <1>1, <1>5, <2>1
<1>7. DOMAIN (labelDescriptors(m, extra) (+) SetToBag({"quantile"}))
         = ListedKeys(m, extra) \cup {"quantile"}
  BY <1>1, <1>2, <1>6, Zenon
<1>8. m.type # "exponential" => DOMAIN SDKLabelDescriptors(m, extra) = ListedKeys(m, extra)
  BY <1>1, <1>4, <1>5, Zenon
<1> QED
  BY <1>6, <1>7, <1>8

(* What is in two sets that are put together in one bag.                   *)
LEMMA TwoSetsInBag ==
    ASSUME NEW S, NEW T, NEW x \in S \cup T
    PROVE  /\ DOMAIN (SetToBag(S) (+) SetToBag(T)) = S \cup T
           /\ x \notin S => (SetToBag(S) (+) SetToBag(T))[x] = 1
<1>1. \A U : DOMAIN SetToBag(U) = U /\ \A y \in U : SetToBag(U)[y] = 1
  BY DEF SetToBag
<1>2. /\ DOMAIN (SetToBag(S) (+) SetToBag(T)) = DOMAIN SetToBag(S) \cup DOMAIN SetToBag(T)
      /\ (SetToBag(S) (+) SetToBag(T))[x]
            = (IF x \in DOMAIN SetToBag(S) THEN SetToBag(S)[x] ELSE 0)
              + (IF x \in DOMAIN SetToBag(T) THEN SetToBag(T)[x] ELSE 0)
  BY <1>1 DEF (+)
<1> QED
  BY <1>1, <1>2

(* Labels are listed once, but for those of the resource or scope, and for *)
(* the quantile of a summary.                                              *)
LEMMA EachLabelListed ==
    ASSUME NEW m, NEW extra
    PROVE  LabelsListed(m, extra)
<1> DEFINE given == ExtraKeys(extra)
           found == PointKeys(m, DOMAIN m.points)
           keys == labelDescriptors(m, extra)
           quantile == SetToBag({"quantile"})
<1>1. keys = SetToBag(given) (+) SetToBag(found)
  BY DEF labelDescriptors
<1> HIDE DEF given, found, keys
<1>2. \A x \in given \cup found : x \notin given => keys[x] = 1
  BY <1>1, TwoSetsInBag, Zenon
<1>3. DOMAIN keys = given \cup found
  BY <1>1, KeysListed, Zenon DEF ListedKeys, given, found, keys
<1>4. DOMAIN quantile = {"quantile"}
  BY DEF SetToBag
<1> HIDE DEF quantile
<1>5. /\ DOMAIN (keys (+) quantile) = DOMAIN keys \cup {"quantile"}
      /\ \A x \in DOMAIN keys \ {"quantile"} : (keys (+) quantile)[x] = keys[x] + 0
  BY <1>4 DEF (+)
<1> SUFFICES ASSUME NEW d \in metricDescriptor(m, extra), NEW key \in DOMAIN d.labels,
                    key \notin given, ~(key = "quantile" /\ m.type = "summary")
             PROVE  d.labels[key] = 1
  BY Zenon DEF LabelsListed, given
<1>6. d.labels = keys \/ (m.type = "summary" /\ d.labels = keys (+) quantile)
  BY DEF metricDescriptor, summaryMetricDescriptors, Descriptor, keys, quantile
<1>7. CASE d.labels = keys
  BY <1>2, <1>3, <1>7
<1>8. CASE m.type = "summary" /\ d.labels = keys (+) quantile
  BY <1>2, <1>3, <1>5, <1>8
<1> QED
  BY <1>6, <1>7, <1>8

(* The keys on the series of a point are keys of the descriptor.           *)
LEMMA LabelsDescribed ==
    ASSUME NEW Units, NEW Attributes, NEW m \in MetricsWith(Units, Attributes),
           NEW extra, Sanitized(extra), NEW n \in 1..Len(m.points)
    PROVE  /\ DOMAIN Labelled(m.points[n], extra) \subseteq ListedKeys(m, extra)
           /\ DOMAIN Labelled(m.points[n], extra) = DOMAIN SDKLabels(m.points[n], extra)
<1> DEFINE attrs == m.points[n].attrs
           E == {sanitizeKey(k) : k \in DOMAIN extra}
           A == {sanitizeKey(k) : k \in DOMAIN attrs}
<1>1. DOMAIN Labelled(m.points[n], extra) = A \cup DOMAIN extra
  BY LabelKeys, MergedKeys DEF Labelled
<1>2. DOMAIN SDKLabels(m.points[n], extra) = E \cup A
  <2>1. /\ DOMAIN attributesToLabels(extra) = E
        /\ DOMAIN attributesToLabels(attrs) = A
    BY LabelKeys, Zenon
  <2> HIDE DEF E, A
  <2> QED
    BY <2>1, MergedKeys, Zenon DEF SDKLabels
<1>3. E = DOMAIN extra
  BY DEF Sanitized
<1>4. A \subseteq ListedKeys(m, extra) /\ E \subseteq ListedKeys(m, extra)
  <2>1. n \in DOMAIN m.points
    BY DEF MetricsWith
  <2> QED
    BY <2>1 DEF ListedKeys, ExtraKeys, PointKeys
<1> HIDE DEF E, A
<1> QED
  BY <1>1, <1>2, <1>3, <1>4

(* What a metric that has to be described as it is written may be.         *)
Plain(m) ==
    \/ Distribution(m) \/ m.type = "summary"
    \/ /\ \A v, w \in {m.points[n].value : n \in DOMAIN m.points} : v = w
       /\ ~(m.type = "sum" /\ ~m.monotonic /\ m.unit = "{gcp.BOOL}")

(* The type of the values of a series, when it is described at all.        *)
WrittenValue(m, p) ==
    IF Distribution(m) THEN "DISTRIBUTION" ELSE numberDataPointToValue(m, SeriesKind(m), p)

(* A metric of one type of values: each point is written with the          *)
(* described one.                                                          *)
LEMMA ValuesDescribed ==
    ASSUME NEW Units, NEW Attributes, NEW m \in MetricsWith(Units, Attributes),
           m.type # "summary", Plain(m), DescribedValue(m) # "UNSPECIFIED",
           NEW n \in 1..Len(m.points)
    PROVE  WrittenValue(m, m.points[n]) = DescribedValue(m)
<1>1. CASE Distribution(m)
  BY <1>1 DEF WrittenValue, DescribedValue
<1>2. CASE ~Distribution(m)
  <2> DEFINE v == m.points[1].value
  <2>1. /\ m.type \in {"gauge", "sum"} /\ m.points # <<>> /\ n \in DOMAIN m.points
        /\ 1 \in DOMAIN m.points /\ m.points[1] \in PointsWith(Attributes)
    BY <1>2 DEF MetricsWith, Distribution
  <2>2. m.points[n].value = v /\ v \in {"int", "double", "empty"}
    BY <1>2, <2>1, ZenonT(30) DEF Plain, PointsWith
  <2>3. AsBool(m, SeriesKind(m), m.points[n])
           <=> m.type = "gauge" /\ AsBool(m, "GAUGE", m.points[1])
    BY <1>2, <2>1, <2>2 DEF Plain, AsBool, SeriesKind
  <2>4. DescribedValue(m) = IF m.type = "gauge" /\ AsBool(m, "GAUGE", m.points[1]) THEN "BOOL"
                            ELSE metricPointValueType(m.points[1])
    BY <1>2, <2>1 DEF DescribedValue
  <2>5. CASE m.type = "gauge" /\ AsBool(m, "GAUGE", m.points[1])
    <3>1. m.points[n].value = "int" /\ AsBool(m, SeriesKind(m), m.points[n])
      BY <2>2, <2>3, <2>5 DEF AsBool
    <3>2. numberDataPointToValue(m, SeriesKind(m), m.points[n]) = "BOOL"
      BY <3>1 DEF numberDataPointToValue
    <3> QED
      BY <1>2, <2>4, <2>5, <3>2 DEF WrittenValue
  <2>6. CASE ~(m.type = "gauge" /\ AsBool(m, "GAUGE", m.points[1]))
    <3>1. v = "int" \/ v = "double"
      BY <2>2, <2>4, <2>6 DEF metricPointValueType
    <3>2. metricPointValueType(m.points[1]) = IF v = "int" THEN "INT64" ELSE "DOUBLE"
      BY <3>1 DEF metricPointValueType
    <3>3. numberDataPointToValue(m, SeriesKind(m), m.points[n])
             = IF v = "int" THEN "INT64" ELSE "DOUBLE"
      BY <2>2, <2>3, <2>6, <3>1 DEF numberDataPointToValue
    <3> QED
      BY <1>2, <2>4, <2>6, <3>2, <3>3 DEF WrittenValue
  <2> QED
    BY <2>5, <2>6
<1> QED
  BY <1>1, <1>2

(* A series has a start when it is cumulative.                              *)
LEMMA StartsDescribed ==
    ASSUME NEW Units, NEW Attributes, NEW m \in MetricsWith(Units, Attributes), NEW extra,
           NEW n \in 1..Len(m.points), NEW ts \in SeriesOfPoint(m, m.points[n], extra)
    PROVE  ts.started <=> ts.kind = "CUMULATIVE"
<1> DEFINE p == m.points[n]
<1> HIDE DEF p
<1>1. CASE ts = PointSeries(m, p, extra)
  BY <1>1 DEF PointSeries
<1>2. ASSUME NEW piece, ts = TotalSeries(p, extra, piece) PROVE ts.started <=> ts.kind = "CUMULATIVE"
  BY <1>2 DEF TotalSeries
<1>3. ASSUME NEW q, ts = QuantileSeries(p, extra, q) PROVE ts.started <=> ts.kind = "CUMULATIVE"
  BY <1>3 DEF QuantileSeries
<1> QED
  BY <1>1, <1>2, <1>3 DEF SeriesOfPoint, p

(* The fields of a descriptor.                                             *)
LEMMA DescriptorFields ==
    \A a, b, v, k : /\ Descriptor(a, b, v, k).part = a /\ Descriptor(a, b, v, k).kind = b
                    /\ Descriptor(a, b, v, k).value = v /\ Descriptor(a, b, v, k).labels = k
  BY DEF Descriptor

(* The series and the descriptors of a summary.                             *)
LEMMA SummarySeriesFields ==
    ASSUME NEW m, m.type = "summary", NEW p, NEW extra, NEW ts \in SeriesOfPoint(m, p, extra)
    PROVE  \/ /\ ts.part \in {"_sum", "_count"} /\ ts.kind = "CUMULATIVE" /\ ts.value = "DOUBLE"
              /\ ts.labels = Labelled(p, extra)
           \/ /\ ts.part = "plain" /\ ts.kind = "GAUGE" /\ ts.value = "DOUBLE"
              /\ \E q : ts.labels = mergeLabels(Labelled(p, extra), Label("quantile", q))
<1>1. \/ ts = TotalSeries(p, extra, "_sum")
      \/ ts = TotalSeries(p, extra, "_count")
      \/ \E q \in 1..p.quantiles : ts = QuantileSeries(p, extra, q)
  BY DEF SeriesOfPoint
<1>2. ASSUME NEW piece \in {"_sum", "_count"}, ts = TotalSeries(p, extra, piece)
      PROVE  /\ ts.part = piece /\ ts.kind = "CUMULATIVE" /\ ts.value = "DOUBLE"
             /\ ts.labels = Labelled(p, extra)
  BY <1>2 DEF TotalSeries
<1>3. ASSUME NEW q, ts = QuantileSeries(p, extra, q)
      PROVE  /\ ts.part = "plain" /\ ts.kind = "GAUGE" /\ ts.value = "DOUBLE"
             /\ ts.labels = mergeLabels(Labelled(p, extra), Label("quantile", q))
  BY <1>3 DEF QuantileSeries
<1> QED
  BY <1>1, <1>2, <1>3

(* The descriptors of a summary.                                           *)
LEMMA SummaryDescriptorFields ==
    ASSUME NEW m, m.type = "summary", NEW extra, NEW d \in metricDescriptor(m, extra)
    PROVE  /\ d.value = "DOUBLE"
           /\ \/ /\ d.part \in {"_sum", "_count"} /\ d.kind = "CUMULATIVE"
                 /\ DOMAIN d.labels = ListedKeys(m, extra)
              \/ /\ d.part = "plain" /\ d.kind = "GAUGE"
                 /\ DOMAIN d.labels = ListedKeys(m, extra) \cup {"quantile"}
<1> DEFINE keys == labelDescriptors(m, extra)
           more == keys (+) SetToBag({"quantile"})
<1>1. m.named
  <2>1. SUFFICES ASSUME ~m.named PROVE FALSE
    OBVIOUS
  <2> QED
    BY <2>1 DEF metricDescriptor
<1>2. \/ d = Descriptor("_sum", "CUMULATIVE", "DOUBLE", keys)
      \/ d = Descriptor("_count", "CUMULATIVE", "DOUBLE", keys)
      \/ d = Descriptor("plain", "GAUGE", "DOUBLE", more)
  BY <1>1 DEF metricDescriptor, summaryMetricDescriptors
<1> HIDE DEF keys, more
<1>3. ASSUME NEW piece, d = Descriptor(piece, "CUMULATIVE", "DOUBLE", keys)
      PROVE  d.part = piece /\ d.kind = "CUMULATIVE" /\ d.value = "DOUBLE" /\ d.labels = keys
  BY <1>3, DescriptorFields
<1>4. ASSUME d = Descriptor("plain", "GAUGE", "DOUBLE", more)
      PROVE  d.part = "plain" /\ d.kind = "GAUGE" /\ d.value = "DOUBLE" /\ d.labels = more
  BY <1>4, DescriptorFields
<1>5. d.value = "DOUBLE"
  BY <1>2, <1>3, <1>4
<1>6. \/ d.part \in {"_sum", "_count"} /\ d.kind = "CUMULATIVE" /\ d.labels = keys
      \/ d.part = "plain" /\ d.kind = "GAUGE" /\ d.labels = more
  BY <1>2, <1>3, <1>4
<1> QED
  BY <1>5, <1>6, KeysListed DEF keys, more

(* A series fits the descriptors of its metric.                             *)
LEMMA SeriesDescribed ==
    ASSUME NEW Units, NEW Attributes, NEW m \in MetricsWith(Units, Attributes),
           NEW extra, Sanitized(extra), Plain(m),
           NEW n \in 1..Len(m.points), NEW ts \in SeriesOfPoint(m, m.points[n], extra),
           NEW d \in metricDescriptor(m, extra)
    PROVE  Fits(ts, d)
<1> DEFINE p == m.points[n]
           keys == ListedKeys(m, extra)
<1>1. m.named
  <2>1. SUFFICES ASSUME ~m.named PROVE FALSE
    OBVIOUS
  <2> QED
    BY <2>1 DEF metricDescriptor
<1>2. DOMAIN Labelled(p, extra) \subseteq keys
  BY LabelsDescribed
<1>3. CASE m.type = "summary"
  <2>1. ASSUME NEW q, ts.labels = mergeLabels(Labelled(p, extra), Label("quantile", q))
        PROVE  DOMAIN ts.labels = DOMAIN Labelled(p, extra) \cup {"quantile"}
    <3>1. DOMAIN Label("quantile", q) = {"quantile"}
      BY DEF Label
    <3> QED
      BY <2>1, <3>1, MergedKeys
  <2> HIDE DEF p, keys
  <2>2. \/ /\ ts.part \in {"_sum", "_count"} /\ ts.kind = "CUMULATIVE" /\ ts.value = "DOUBLE"
           /\ DOMAIN ts.labels = DOMAIN Labelled(p, extra)
        \/ /\ ts.part = "plain" /\ ts.kind = "GAUGE" /\ ts.value = "DOUBLE"
           /\ DOMAIN ts.labels = DOMAIN Labelled(p, extra) \cup {"quantile"}
    <3>1. ts \in SeriesOfPoint(m, p, extra)
      BY DEF p
    <3> QED
      BY <1>3, <2>1, <3>1, SummarySeriesFields
  <2>3. /\ d.value = "DOUBLE"
        /\ \/ d.part \in {"_sum", "_count"} /\ d.kind = "CUMULATIVE" /\ DOMAIN d.labels = keys
           \/ d.part = "plain" /\ d.kind = "GAUGE" /\ DOMAIN d.labels = keys \cup {"quantile"}
    BY <1>3, SummaryDescriptorFields DEF keys
  <2> QED
    BY <1>2, <2>2, <2>3 DEF Fits
<1>4. CASE m.type # "summary"
  <2>1. ts = PointSeries(m, p, extra)
    BY <1>4 DEF SeriesOfPoint
  <2>2. /\ DescribedValue(m) # "UNSPECIFIED"
        /\ d = Descriptor("plain", SeriesKind(m), DescribedValue(m), labelDescriptors(m, extra))
    BY <1>1, <1>4 DEF metricDescriptor
  <2>3. WrittenValue(m, p) = DescribedValue(m)
    BY <1>4, <2>2, ValuesDescribed
  <2>4. ts.kind = SeriesKind(m) /\ ts.value = WrittenValue(m, p) /\ ts.labels = Labelled(p, extra)
    BY <2>1 DEF PointSeries, WrittenValue
  <2> QED
    BY <1>2, <2>2, <2>3, <2>4, KeysListed DEF Fits, Descriptor
<1> QED
  BY <1>3, <1>4

(* A series has a descriptor.                                               *)
LEMMA PartsDescribed ==
    ASSUME NEW Units, NEW Attributes, NEW m \in MetricsWith(Units, Attributes), NEW extra,
           m.points[1].value # "empty",
           NEW n \in 1..Len(m.points), NEW ts \in SeriesOfPoint(m, m.points[n], extra)
    PROVE  \E d \in metricDescriptor(m, extra) : ts.part = d.part
<1> DEFINE p == m.points[n]
           keys == labelDescriptors(m, extra)
<1>1. m.named
  BY DEF SeriesOfPoint, Dropped
<1>2. CASE m.type = "summary"
  <2> DEFINE a == Descriptor("_sum", "CUMULATIVE", "DOUBLE", keys)
             b == Descriptor("_count", "CUMULATIVE", "DOUBLE", keys)
             c == Descriptor("plain", "GAUGE", "DOUBLE", keys (+) SetToBag({"quantile"}))
  <2>1. ts.part \in {"_sum", "_count", "plain"}
    BY <1>2, SummarySeriesFields
  <2>2. a \in metricDescriptor(m, extra) /\ b \in metricDescriptor(m, extra)
            /\ c \in metricDescriptor(m, extra)
    BY <1>1, <1>2 DEF metricDescriptor, summaryMetricDescriptors
  <2>3. a.part = "_sum" /\ b.part = "_count" /\ c.part = "plain"
    BY DescriptorFields
  <2> HIDE DEF a, b, c
  <2> QED
    BY <2>1, <2>2, <2>3
<1>3. CASE m.type # "summary"
  <2>1. ts.part = "plain"
    <3>1. ts = PointSeries(m, p, extra)
      BY <1>3 DEF SeriesOfPoint
    <3> QED
      BY <3>1 DEF PointSeries
  <2>2. DescribedValue(m) # "UNSPECIFIED"
    <3>1. m.points # <<>> /\ m.points[1].value \in {"int", "double"}
      <4>1. m.points \in Seq(PointsWith(Attributes))
        BY DEF MetricsWith
      <4>2. m.points # <<>> /\ m.points[1] \in PointsWith(Attributes)
        BY <4>1
      <4> QED
        BY <4>2 DEF PointsWith
    <3>2. metricPointValueType(m.points[1]) \in {"INT64", "DOUBLE"}
      BY <3>1 DEF metricPointValueType
    <3>3. CASE Distribution(m)
      BY <3>3 DEF DescribedValue
    <3>4. CASE ~Distribution(m)
      BY <3>1, <3>2, <3>4 DEF DescribedValue
    <3> QED
      BY <3>3, <3>4
  <2>3. metricDescriptor(m, extra)
           = {Descriptor("plain", SeriesKind(m), DescribedValue(m), labelDescriptors(m, extra))}
    BY <1>1, <1>3, <2>2 DEF metricDescriptor
  <2> QED
    BY <2>1, <2>3, DescriptorFields
<1> QED
  BY <1>2, <1>3

(* The SDK writes and describes its metrics as the collector does.         *)
LEMMA SDKDescribed ==
    ASSUME NEW Units, NEW Attributes, NEW m \in MetricsWith(Units, Attributes),
           NEW extra, Sanitized(extra), InSDK(m), m.type # "exponential"
    PROVE  /\ \A ts \in Range(recordToTspb(m, extra)) : Fits(ts, recordToMdpb(m, extra))
           /\ \A own \in metricDescriptor(m, extra) : Shape(own) = Shape(recordToMdpb(m, extra))
<1> DEFINE keys == ListedKeys(m, extra)
           listed == SDKLabelDescriptors(m, extra)
           d == recordToMdpb(m, extra)
           written == IF Distribution(m) THEN "DISTRIBUTION"
                      ELSE IF m.points # <<>> /\ m.points[1].value = "double" THEN "DOUBLE" ELSE "INT64"
<1>1. /\ m.type \in {"gauge", "sum", "histogram"} /\ m.named
      /\ m.points \in Seq(PointsWith(Attributes))
  BY DEF InSDK, MetricsWith
<1>2. recordToMdpbKindType(m) = <<SeriesKind(m), written>>
  <2>1. CASE m.type = "histogram"
    BY <2>1 DEF recordToMdpbKindType, SeriesKind, Distribution
  <2>2. CASE m.type \in {"gauge", "sum"}
    BY <2>2 DEF recordToMdpbKindType, SeriesKind, Distribution
  <2> QED
    BY <1>1, <2>1, <2>2
<1>3. DOMAIN listed = keys /\ DOMAIN labelDescriptors(m, extra) = keys
  BY KeysListed
<1> HIDE DEF keys, listed, written
<1>4. d = Descriptor("plain", SeriesKind(m), written, listed)
  BY <1>2 DEF recordToMdpb, listed
<1>5. ASSUME NEW n \in 1..Len(m.points) PROVE Fits(recordToTspb(m, extra)[n], d)
  <2> DEFINE ts == recordToTspb(m, extra)[n]
  <2>1. n \in DOMAIN m.points /\ m.points # <<>>
    BY <1>1
  <2>2. /\ ts.kind = SeriesKind(m) /\ ts.labels = SDKLabels(m.points[n], extra)
        /\ ts.value = IF Distribution(m) THEN "DISTRIBUTION"
                      ELSE IF m.points[n].value = "int" THEN "INT64" ELSE "DOUBLE"
    BY <2>1 DEF recordToTspb
  <2>3. /\ m.points[n].value \in {"int", "double"}
        /\ m.points[n].value = m.points[1].value
    BY <2>1 DEF InSDK
  <2>4. ts.value = written
    BY <2>1, <2>2, <2>3 DEF written
  <2>5. DOMAIN ts.labels \subseteq keys
    BY <2>2, LabelsDescribed DEF keys
  <2> HIDE DEF ts
  <2>6. d.kind = SeriesKind(m) /\ d.value = written /\ DOMAIN d.labels = keys
    BY <1>3, <1>4, DescriptorFields
  <2> HIDE DEF d
  <2>7. Fits(ts, d)
    BY <2>2, <2>4, <2>5, <2>6 DEF Fits
  <2> QED
    BY <2>7 DEF ts, d
<1>6. \A ts \in Range(recordToTspb(m, extra)) : Fits(ts, d)
  <2>1. DOMAIN recordToTspb(m, extra) = 1..Len(m.points)
    BY <1>1 DEF recordToTspb
  <2> HIDE DEF d
  <2> QED
    BY <1>5, <2>1 DEF Range
<1>7. \A own \in metricDescriptor(m, extra) :
         own = Descriptor("plain", SeriesKind(m), written, labelDescriptors(m, extra))
  <2>1. SUFFICES ASSUME DescribedValue(m) # "UNSPECIFIED"
                 PROVE  DescribedValue(m) = written
    <3>1. metricDescriptor(m, extra)
             = IF DescribedValue(m) = "UNSPECIFIED" THEN {}
               ELSE {Descriptor("plain", SeriesKind(m), DescribedValue(m), labelDescriptors(m, extra))}
      BY <1>1 DEF metricDescriptor
    <3> QED
      BY <3>1
  <2>2. CASE Distribution(m)
    BY <2>2 DEF DescribedValue, written
  <2>3. CASE ~Distribution(m)
    <3>1. m.points # <<>>
      BY <2>1, <2>3 DEF DescribedValue
    <3>2. 1 \in DOMAIN m.points
      BY <1>1, <3>1
    <3>3. m.points[1].value \in {"int", "double"} /\ ~AsBool(m, "GAUGE", m.points[1])
      BY <3>2 DEF InSDK, AsBool
    <3>4. DescribedValue(m) = metricPointValueType(m.points[1])
      BY <2>3, <3>1, <3>3 DEF DescribedValue
    <3>5. metricPointValueType(m.points[1])
             = IF m.points[1].value = "double" THEN "DOUBLE" ELSE "INT64"
      BY <3>3 DEF metricPointValueType
    <3> QED
      BY <2>3, <3>1, <3>4, <3>5 DEF written
  <2> QED
    BY <2>2, <2>3
<1>8. \A labels : Shape(Descriptor("plain", SeriesKind(m), written, labels))
                    = Descriptor("plain", SeriesKind(m), written, DOMAIN labels)
  BY DEF Shape, Descriptor
<1> HIDE DEF d
<1>9. \A own \in metricDescriptor(m, extra) : Shape(own) = Shape(d)
  BY <1>3, <1>4, <1>7, <1>8
<1> QED
  BY <1>6, <1>9 DEF d

(* What the collector writes of a metric, the SDK exporter writes in the   *)
(* same shape.                                                             *)
LEMMA SDKWritten ==
    ASSUME NEW Units, NEW Attributes, NEW m \in MetricsWith(Units, Attributes),
           NEW extra, Sanitized(extra), InSDK(m),
           NEW n \in 1..Len(m.points), NEW ts \in SeriesOfPoint(m, m.points[n], extra)
    PROVE  \E s \in Range(recordToTspb(m, extra)) :
              Shape(ts) = Shape(s)
<1> DEFINE p == m.points[n]
           labels == SDKLabels(p, extra)
           s == recordToTspb(m, extra)[n]
           keys == DOMAIN Labelled(p, extra)
           value == IF Distribution(m) THEN "DISTRIBUTION" ELSE IF p.value = "int" THEN "INT64" ELSE "DOUBLE"
           started == (SeriesKind(m) = "CUMULATIVE")
<1>1. n \in DOMAIN m.points
  BY DEF MetricsWith
<1>2. s = [part |-> "plain", kind |-> SeriesKind(m), value |-> value, started |-> started,
           labels |-> labels]
  BY <1>1 DEF recordToTspb
<1>3. m.points[n].value \in {"int", "double"} /\ ~AsBool(m, SeriesKind(m), p)
  BY <1>1 DEF InSDK, AsBool
<1>4. ts = [part |-> "plain", kind |-> SeriesKind(m), value |-> value, started |-> started,
            labels |-> Labelled(p, extra)]
  <2>1. ts = PointSeries(m, p, extra)
    BY DEF SeriesOfPoint, InSDK
  <2>2. ~Distribution(m) => numberDataPointToValue(m, SeriesKind(m), p) = value
    BY <1>3 DEF numberDataPointToValue
  <2>3. (IF Distribution(m) THEN "DISTRIBUTION"
         ELSE numberDataPointToValue(m, SeriesKind(m), p)) = value
    BY <2>2
  <2> QED
    BY <2>1, <2>3, Zenon DEF PointSeries
<1>5. keys = DOMAIN labels
  BY LabelsDescribed
<1>6. s \in Range(recordToTspb(m, extra))
  <2>1. n \in DOMAIN recordToTspb(m, extra)
    BY <1>1 DEF recordToTspb
  <2> QED
    BY <2>1 DEF Range
<1> HIDE DEF s, value, started, labels, p
<1>7. Shape(ts)
         = [part |-> "plain", kind |-> SeriesKind(m), value |-> value, started |-> started,
            labels |-> keys]
  BY <1>4 DEF Shape
<1>8. Shape(s)
         = [part |-> "plain", kind |-> SeriesKind(m), value |-> value, started |-> started,
            labels |-> DOMAIN labels]
  BY <1>2 DEF Shape
<1> QED
  BY <1>5, <1>6, <1>7, <1>8

(* The labels of the resource hide the attributes of a point.              *)
LEMMA ResourceLabelsKept ==
    ASSUME NEW m, NEW p, NEW extra, NEW ts \in SeriesOfPoint(m, p, extra),
           NEW k \in DOMAIN extra \ {"quantile"}
    PROVE  ts.labels[k] = extra[k]
<1>1. Labelled(p, extra)[k] = extra[k] /\ k \in DOMAIN Labelled(p, extra)
  <2> DEFINE own == attributesToLabels(p.attrs)
  <2>1. Labelled(p, extra) = mergeLabels(own, extra)
    BY DEF Labelled
  <2> HIDE DEF own
  <2>2. k \in DOMAIN mergeLabels(own, extra)
    BY MergedKeys
  <2>3. mergeLabels(own, extra)[k] = extra[k]
    BY MergedKeys
  <2> QED
    BY <2>1, <2>2, <2>3
<1>2. CASE ts.labels = Labelled(p, extra)
  BY <1>1, <1>2
<1>3. ASSUME NEW q, ts.labels = mergeLabels(Labelled(p, extra), Label("quantile", q))
      PROVE  ts.labels[k] = extra[k]
  <2>1. DOMAIN Label("quantile", q) = {"quantile"}
    BY DEF Label
  <2> QED
    BY <1>1, <1>3, <2>1, MergedKeys
<1>4. CASE m.type = "summary"
  BY <1>2, <1>3, <1>4, SummarySeriesFields
<1>5. CASE m.type # "summary"
  <2>1. ts = PointSeries(m, p, extra)
    BY <1>5 DEF SeriesOfPoint
  <2> QED
    BY <1>2, <2>1 DEF PointSeries
<1> QED
  BY <1>4, <1>5

(* Whatever a metric is and however many points it has, its series fit     *)
(* their descriptors, those of the SDK are those of the collector, and no  *)
(* attribute of a point replaces a label of its resource.                  *)
THEOREM MetricsFitDescriptors ==
    ASSUME NEW Units, NEW Attributes, NEW m \in MetricsWith(Units, Attributes),
           NEW extra, Sanitized(extra)
    PROVE  DescriptorsFitSeries(m, extra) /\ ResourceLabelsWin(m, extra)
<1> DEFINE series == Range(metricToTimeSeries(m, extra))
<1>1. Sanitized(extra)
  OBVIOUS
<1>2. \A ts \in series : \E n \in 1..Len(m.points) : ts \in SeriesOfPoint(m, m.points[n], extra)
  BY WrittenForMetric
<1>3. ASSUME NEW ts \in series
      PROVE  /\ ts.started <=> ts.kind = "CUMULATIVE"
             /\ Plain(m) => \A d \in metricDescriptor(m, extra) : Fits(ts, d)
             /\ m.points[1].value # "empty" => \E d \in metricDescriptor(m, extra) : ts.part = d.part
             /\ InSDK(m) => \E s \in Range(recordToTspb(m, extra)) :
                    Shape(ts) = Shape(s)
             /\ \A k \in DOMAIN extra \ {"quantile"} : ts.labels[k] = extra[k]
  <2>1. PICK n \in 1..Len(m.points) : ts \in SeriesOfPoint(m, m.points[n], extra)
    BY <1>2
  <2>2. ts.started <=> ts.kind = "CUMULATIVE"
    BY <2>1, StartsDescribed
  <2>3. Plain(m) => \A d \in metricDescriptor(m, extra) : Fits(ts, d)
    BY <1>1, <2>1, SeriesDescribed
  <2>4. m.points[1].value # "empty" => \E d \in metricDescriptor(m, extra) : ts.part = d.part
    BY <2>1, PartsDescribed
  <2>5. InSDK(m) => \E s \in Range(recordToTspb(m, extra)) :
            Shape(ts) = Shape(s)
    BY <1>1, <2>1, SDKWritten
  <2>6. \A k \in DOMAIN extra \ {"quantile"} : ts.labels[k] = extra[k]
    BY <2>1, ResourceLabelsKept
  <2> QED
    BY <2>2, <2>3, <2>4, <2>5, <2>6
<1>4. InSDK(m) /\ m.type # "exponential" =>
        /\ \A ts \in Range(recordToTspb(m, extra)) : Fits(ts, recordToMdpb(m, extra))
        /\ \A d \in metricDescriptor(m, extra) : Shape(d) = Shape(recordToMdpb(m, extra))
  BY <1>1, SDKDescribed
<1>5. DescriptorsFitSeries(m, extra)
  <2>1. \A ts \in series : ts.started <=> ts.kind = "CUMULATIVE"
    BY <1>3
  <2>2. Plain(m) => \A ts \in series, d \in metricDescriptor(m, extra) : Fits(ts, d)
    BY <1>3
  <2>3. series # {} /\ m.points[1].value # "empty" =>
           {ts.part : ts \in series} \subseteq {d.part : d \in metricDescriptor(m, extra)}
    <3> SUFFICES ASSUME m.points[1].value # "empty", NEW ts \in series
                 PROVE  ts.part \in {d.part : d \in metricDescriptor(m, extra)}
      OBVIOUS
    <3>1. PICK d \in metricDescriptor(m, extra) : ts.part = d.part
      BY <1>3
    <3> QED
      BY <3>1
  <2>4. InSDK(m) => \A ts \in series : \E s \in Range(recordToTspb(m, extra)) :
           Shape(ts) = Shape(s)
    BY <1>3, Zenon
  <2> QED
    BY <1>4, <2>1, <2>2, <2>3, <2>4, Zenon DEF DescriptorsFitSeries, Plain
<1>6. ResourceLabelsWin(m, extra)
  BY <1>3 DEF ResourceLabelsWin
<1> QED
  BY <1>5, <1>6

(* An interval that the SDK writes does not end before a millisecond after *)
(* its start.                                                              *)
THEOREM IntervalsLast ==
    \A start, end \in Int : IntervalsNotEmpty(start, end)
  BY DEF IntervalsNotEmpty, NonemptyEnd
-----------------------------------------------------------------------------
(* LogRecords.                                                             *)

(* Labels over others: their own values, and those of the others           *)
(* elsewhere.                                                              *)
LEMMA OverOf ==
    ASSUME NEW a, NEW b
    PROVE  /\ DOMAIN Over(a, b) = DOMAIN a \cup DOMAIN b
           /\ \A k \in DOMAIN a : Over(a, b)[k] = a[k]
           /\ \A k \in DOMAIN b \ DOMAIN a : Over(a, b)[k] = b[k]
  BY DEF Over

(* The label of an event name, if there is one.                            *)
LEMMA EventLabels ==
    ASSUME NEW e
    PROVE  /\ DOMAIN EventLabel(e) \subseteq {"event.name"}
           /\ e = "" => DOMAIN EventLabel(e) = {}
<1>1. CASE e = ""
  <2>1. DOMAIN EventLabel(e) = {}
    BY <1>1, Zenon DEF EventLabel
  <2> QED
    BY <2>1, Zenon
<1>2. CASE e # ""
  <2>1. DOMAIN EventLabel(e) = {"event.name"}
    BY <1>2, Zenon DEF EventLabel
  <2> QED
    BY <1>2, <2>1, Zenon
<1> QED
  BY <1>1, <1>2, Zenon

(* A log entry has each label of its scope and resource, and each          *)
(* attribute of its record that none of them hides; the event name hides   *)
(* both.                                                                   *)
LEMMA LabelsKept ==
    ASSUME NEW r, NEW labels
    PROVE  LabelsNotHidden(r, labels)
<1> DEFINE event == EventLabel(r.eventName)
           own   == OwnLabels(r.attributes)
           rest  == Over(labels, own)
           all   == EntryLabels(labels, r.attributes, r.eventName)
           HiddenByEvent(k) == k = "event.name" /\ r.eventName # ""
<1>1. /\ DOMAIN event \subseteq {"event.name"}
      /\ r.eventName = "" => DOMAIN event = {}
  BY EventLabels, Zenon
<1>2. \A k : k \in DOMAIN event => HiddenByEvent(k)
  BY <1>1, Zenon
<1>3. all = Over(event, rest)
  BY Zenon DEF EntryLabels
<1>4. DOMAIN own = DOMAIN r.attributes \ GcpKeys /\ \A k \in DOMAIN own : own[k] = r.attributes[k]
  BY DEF OwnLabels
<1> HIDE DEF event, own, rest, all, HiddenByEvent
<1>5. /\ DOMAIN rest = DOMAIN labels \cup DOMAIN own
      /\ \A k \in DOMAIN labels : rest[k] = labels[k]
      /\ \A k \in DOMAIN own \ DOMAIN labels : rest[k] = own[k]
  BY OverOf, Zenon DEF rest
<1>6. /\ DOMAIN all = DOMAIN event \cup DOMAIN rest
      /\ \A k \in DOMAIN rest \ DOMAIN event : all[k] = rest[k]
  <2>1. /\ DOMAIN Over(event, rest) = DOMAIN event \cup DOMAIN rest
        /\ \A k \in DOMAIN rest \ DOMAIN event : Over(event, rest)[k] = rest[k]
    BY OverOf
  <2> QED
    BY <1>3, <2>1
<1>7. \A k \in DOMAIN labels : HiddenByEvent(k) \/ all[k] = labels[k]
  BY <1>2, <1>5, <1>6
<1>8. ASSUME NEW k \in DOMAIN r.attributes \ DOMAIN labels
      PROVE  \/ k \in GcpKeys /\ k \notin DOMAIN all
             \/ k \notin GcpKeys /\ (HiddenByEvent(k) \/ all[k] = r.attributes[k])
  <2>1. CASE k \in GcpKeys
    <3>1. k # "event.name"
      BY <2>1 DEF GcpKeys
    <3>2. k \notin DOMAIN own
      BY <1>4, <2>1
    <3> QED
      BY <1>1, <1>5, <1>6, <1>8, <2>1, <3>1, <3>2
  <2>2. CASE k \notin GcpKeys
    <3>1. k \in DOMAIN own \ DOMAIN labels
      BY <1>4, <1>8, <2>2
    <3> QED
      BY <1>2, <1>4, <1>5, <1>6, <2>2, <3>1
  <2> QED
    BY <2>1, <2>2
<1> QED
  BY <1>7, <1>8, Zenon DEF LabelsNotHidden, all, HiddenByEvent

(* A quoted number that is accepted is kept as it is written, and a number *)
(* that fits its field is accepted, quoted or not.                         *)
LEMMA NumbersKept ==
    ASSUME NEW n \in Int, NEW half \in Nat \ {0}, NEW wide \in Nat, half <= wide
    PROVE  QuotedIntsAreKept(n, half, wide)
<1>1. ASSUME InBits(n, half) PROVE ParsedInt(n, half) = n
  <2> DEFINE m == 2 * half
  <2>1. n >= -half /\ n < half /\ half \in Int /\ m = half + half
    BY <1>1 DEF InBits
  <2> HIDE DEF m
  <2>2. CASE n >= 0
    <3>1. n % m = n
      BY <2>1, <2>2
    <3> QED
      BY <2>1, <3>1 DEF ParsedInt, Wrapped, m
  <2>3. CASE n < 0
    <3>1. n % m = n + m
      BY <2>1, <2>3
    <3> QED
      BY <2>1, <2>3, <3>1 DEF ParsedInt, Wrapped, m
  <2> QED
    BY <2>1, <2>2, <2>3
<1>2. InBits(n, half) => InBits(n, wide)
  BY DEF InBits
<1>3. ParseBits("string", half, wide) = half /\ ParseBits("number", half, wide) = wide
  BY DEF ParseBits
<1> QED
  BY <1>1, <1>2, <1>3 DEF QuotedIntsAreKept, ParsesAsInt

(* The severity of an accepted record is one of those there are.           *)
LEMMA SeverityKnown ==
    ASSUME NEW r, IsLogRecord(r), r.severity \in 0..24
    PROVE  SeverityOf(r) \in 0..24
<1>1. \A t \in DOMAIN otelSeverityForText : otelSeverityForText[t] \in 0..24
  BY DEF otelSeverityForText
<1> QED
  BY <1>1 DEF SeverityOf

(* A record is reported if and only if its severity in Cloud Logging is    *)
(* ERROR or above, and a higher number never gives a lower severity.       *)
LEMMA ErrorsReported ==
    ASSUME NEW r, NEW cfg, IsLogRecord(r)
    PROVE  ReportedAreErrors(r, cfg)
<1> SUFFICES ASSUME ~Refused(r, cfg)
             PROVE  /\ IsReported(SeverityOf(r), TRUE) <=> severityMapping[SeverityOf(r)] >= ERROR
                    /\ \A n \in 0..SeverityOf(r) : severityMapping[n] <= severityMapping[SeverityOf(r)]
  BY Zenon DEF ReportedAreErrors
<1>0. r.severity \in 0..24
  BY Zenon DEF Refused
<1> DEFINE s == SeverityOf(r)
<1>1. s \in 0..24
  BY <1>0, SeverityKnown
<1> HIDE DEF s
<1>2. \A n \in 0..24 : severityMapping[n] >= ERROR <=> n >= 17
  BY DEF severityMapping, DEFAULT, DEBUG, INFO, NOTICE, WARNING, ERROR, CRITICAL, ALERT, EMERGENCY
<1>3. \A n \in 0..24, m \in 0..24 : n <= m => severityMapping[n] <= severityMapping[m]
  BY DEF severityMapping, DEFAULT, DEBUG, INFO, NOTICE, WARNING, ERROR, CRITICAL, ALERT, EMERGENCY
<1>4. IsReported(s, TRUE) <=> s >= 17
  BY DEF IsReported
<1>5. IsReported(s, TRUE) <=> severityMapping[s] >= ERROR
  BY <1>1, <1>2, <1>4
<1>6. \A n \in 0..s : severityMapping[n] <= severityMapping[s]
  BY <1>1, <1>3
<1> QED
  BY <1>5, <1>6, Zenon DEF s

(* A record that is mapped again, with the body its first mapping left,    *)
(* gives the same entry, but for the time where it had none.               *)
LEMMA SameEntryAgain ==
    ASSUME NEW r, NEW cfg, NEW labels, NEW now \in Int, NEW later \in Int, IsLogRecord(r)
    PROVE  MappedAgainIsSame(r, cfg, labels, now, later)
<1> SUFFICES ASSUME ~Refused(r, cfg)
             PROVE  LET again == [r EXCEPT !.body = BodyAfter(r, cfg)]
                        first == Entry(r, cfg, labels, now)
                    IN  /\ ~Refused(again, cfg)
                        /\ [Entry(again, cfg, labels, later) EXCEPT !.time = first.time] = first
                        /\ r.time + r.observed > 0 =>
                              Entry(again, cfg, labels, later).time = first.time
  BY Zenon DEF MappedAgainIsSame
<1> DEFINE again == [r EXCEPT !.body = BodyAfter(r, cfg)]
           first == Entry(r, cfg, labels, now)
           second == Entry(again, cfg, labels, later)
<1>1. /\ again.logName = r.logName /\ again.time = r.time /\ again.observed = r.observed
      /\ again.severity = r.severity /\ again.text = r.text /\ again.sourceLocation = r.sourceLocation
      /\ again.httpRequest = r.httpRequest /\ again.operation = r.operation
      /\ again.traceSampled = r.traceSampled /\ again.sampledFlag = r.sampledFlag
      /\ again.eventName = r.eventName /\ again.attributes = r.attributes
      /\ again.body = BodyAfter(r, cfg)
  BY DEF IsLogRecord
<1> HIDE DEF again
<1>2. ~Refused(again, cfg)
  BY <1>1, Zenon DEF Refused, HasLogName
<1>3. SeverityOf(again) = SeverityOf(r)
  BY <1>1, Zenon DEF SeverityOf
<1>4. BodyAfter(again, cfg) = BodyAfter(r, cfg)
  <2>1. Reported(Reported(r.body)) = Reported(r.body)
    BY DEF Reported
  <2>2. CASE IsReported(SeverityOf(r), cfg.errorReportingType)
    <3>1. BodyAfter(r, cfg) = Reported(r.body)
      BY <2>2, Zenon DEF BodyAfter
    <3>2. BodyAfter(again, cfg) = Reported(again.body)
      BY <1>2, <1>3, <2>2, Zenon DEF BodyAfter
    <3> QED
      BY <1>1, <2>1, <3>1, <3>2, Zenon
  <2>3. CASE ~IsReported(SeverityOf(r), cfg.errorReportingType)
    <3>1. BodyAfter(r, cfg) = r.body /\ BodyAfter(again, cfg) = again.body
      BY <1>3, <2>3, Zenon DEF BodyAfter
    <3> QED
      BY <1>1, <3>1, Zenon
  <2> QED
    BY <2>2, <2>3, Zenon
<1>5. second = [Entry(r, cfg, labels, later) EXCEPT !.time = EntryTime(again, later)]
  BY <1>1, <1>3, <1>4 DEF Entry
<1>6. EntryTime(again, later) = EntryTime(r, later)
  BY <1>1 DEF EntryTime
<1>7. [second EXCEPT !.time = first.time] = first
  BY <1>5 DEF Entry
<1>8. r.time + r.observed > 0 => EntryTime(r, later) = EntryTime(r, now)
  BY DEF EntryTime, IsLogRecord
<1>9. second.time = EntryTime(again, later) /\ first.time = EntryTime(r, now)
  BY DEF Entry
<1> QED
  BY <1>2, <1>6, <1>7, <1>8, <1>9, Zenon DEF again
-----------------------------------------------------------------------------
(* PrometheusMetrics.                                                      *)

(* The empty string, which the prover for arithmetic cannot be shown, and  *)
(* the names of a summary's three parts.                                   *)
Nothing == ""

(* The names of the three parts of a summary.                              *)
LEMMA SummaryNames ==
    ASSUME NEW m, IsNamed(m), m.type = "summary", m.own \notin {"sum", "count"}
    PROVE  /\ GetMetricName(m, Nothing).suffix = "/summary"
           /\ GetMetricName(m, "sum").suffix = "_sum/summary:counter"
           /\ GetMetricName(m, "count").suffix = "_count/summary"
<1>1. "sum" # Nothing /\ "count" # Nothing
  BY Zenon DEF Nothing
<1>2. /\ Ending(m, Nothing) = m.own
      /\ Ending(m, "sum") = "sum" /\ Ending(m, "count") = "count"
  BY <1>1, Zenon DEF Ending, Nothing
<1> QED
  BY <1>2 DEF GetMetricName

(* The three parts of a summary have three names, an unknown gauge and the *)
(* counter made of it have two, and _total is put on none that came        *)
(* without it.                                                             *)
LEMMA NamesKeptApart ==
    ASSUME NEW m, IsNamed(m)
    PROVE  NamesToldApart(m)
<1>1. ASSUME m.type = "summary", m.own \notin {"sum", "count"}
      PROVE  Cardinality({GetMetricName(m, piece) : piece \in {"", "sum", "count"}}) = 3
  <2> DEFINE a == GetMetricName(m, Nothing)
             b == GetMetricName(m, "sum")
             c == GetMetricName(m, "count")
  <2>1. a # b /\ a # c /\ b # c
    BY <1>1, SummaryNames
  <2>2. {GetMetricName(m, piece) : piece \in {"", "sum", "count"}} = {a, b, c}
    BY Zenon DEF Nothing
  <2> HIDE DEF a, b, c
  <2>3. IsFiniteSet({}) /\ Cardinality({}) = 0
    BY FS_EmptySet
  <2>4. IsFiniteSet({a}) /\ Cardinality({a}) = 1
    BY FS_Singleton
  <2>5. IsFiniteSet({a} \cup {b}) /\ Cardinality({a} \cup {b}) = 2
    BY <2>1, <2>4, FS_AddElement
  <2>6. Cardinality(({a} \cup {b}) \cup {c}) = 3
    BY <2>1, <2>5, FS_AddElement
  <2>7. {a, b, c} = ({a} \cup {b}) \cup {c}
    OBVIOUS
  <2> QED
    BY <2>2, <2>6, <2>7, Zenon
<1>2. ASSUME m.type = "gauge"
      PROVE  /\ GetMetricName(m, "") # GetMetricName(Untyped(m), "")
             /\ m.unknown /\ m.own # "total" => ~GetMetricName(Untyped(m), "").total
  <2> DEFINE u == Untyped(m)
  <2>1. /\ u.type = "sum" /\ u.monotonic /\ u.unknown = m.unknown /\ u.total = m.total /\ u.own = m.own
    BY DEF Untyped, IsNamed
  <2> HIDE DEF u
  <2>2. ASSUME NEW piece
        PROVE  /\ GetMetricName(m, piece) = getUnknownMetricName(m, "/gauge", "/unknown")
               /\ GetMetricName(u, piece) = getUnknownMetricName(u, "/counter", "/unknown:counter")
    BY <1>2, <2>1 DEF GetMetricName
  <2>3. getUnknownMetricName(m, "/gauge", "/unknown") # getUnknownMetricName(u, "/counter", "/unknown:counter")
    BY <2>1 DEF getUnknownMetricName
  <2>4. m.unknown /\ m.own # "total" => ~getUnknownMetricName(u, "/counter", "/unknown:counter").total
    BY <2>1 DEF getUnknownMetricName
  <2>5. ASSUME NEW piece
        PROVE  /\ GetMetricName(m, piece) # GetMetricName(u, piece)
               /\ m.unknown /\ m.own # "total" => ~GetMetricName(u, piece).total
    BY <2>2, <2>3, <2>4
  <2> QED
    BY <2>5, Zenon DEF u
<1> QED
  BY <1>1, <1>2, Zenon DEF NamesToldApart
-----------------------------------------------------------------------------
(* Distributions.                                                          *)

(* The least of the values from the kth on.                                *)
LEMMA LeastFrom ==
    ASSUME NEW N \in Nat, NEW w \in [1..N -> Int], NEW k \in 1..N
    PROVE  \E j \in k..N : \A l \in k..N : w[j] <= w[l]
<1> DEFINE Lowest(m) == \E j \in k..m : \A l \in k..m : w[j] <= w[l]
           S == {m \in 0..N : m < k \/ Lowest(m)}
<1>1. 0 \in S
  OBVIOUS
<1>2. ASSUME NEW m \in 0..N, m \in S, m < N PROVE m + 1 \in S
  <2>1. m + 1 \in 0..N /\ m + 1 \in 1..N
    BY <1>2
  <2>2. CASE m + 1 < k
    BY <2>1, <2>2
  <2>3. CASE m + 1 = k
    <3>1. w[k] \in Int
      OBVIOUS
    <3>2. k \in k..(m + 1) /\ \A l \in k..(m + 1) : l = k
      BY <2>3
    <3>3. \A l \in k..(m + 1) : w[k] <= w[l]
      BY <3>1, <3>2
    <3> QED
      BY <2>1, <3>2, <3>3
  <2>4. CASE k <= m
    <3>1. PICK j \in k..m : \A l \in k..m : w[j] <= w[l]
      BY <1>2, <2>4
    <3>2. \A l \in k..(m + 1) : l \in k..m \/ l = m + 1
      BY <1>2
    <3>3. j \in k..(m + 1) /\ m + 1 \in k..(m + 1) /\ w[j] \in Int /\ w[m + 1] \in Int
      BY <1>2, <2>1, <2>4, <3>1
    <3>4. \A l \in k..(m + 1) : w[l] \in Int
      BY <1>2
    <3>5. CASE w[j] <= w[m + 1]
      <4>1. \A l \in k..(m + 1) : w[j] <= w[l]
        BY <3>1, <3>2, <3>5
      <4> QED
        BY <2>1, <3>3, <4>1
    <3>6. CASE ~(w[j] <= w[m + 1])
      <4>1. \A l \in k..(m + 1) : w[m + 1] <= w[l]
        BY <3>1, <3>2, <3>3, <3>4, <3>6
      <4> QED
        BY <2>1, <3>3, <4>1
    <3> QED
      BY <3>5, <3>6
  <2> QED
    BY <1>2, <2>1, <2>2, <2>3, <2>4
<1>3. \A m \in 0..N : m \in S /\ m < N => m + 1 \in S
  BY <1>2
<1>4. N \in S
  <2> HIDE DEF S
  <2>1. N \in 0..N
    OBVIOUS
  <2> QED
    BY <1>1, <1>3, <2>1, Induction
<1> QED
  BY <1>4

(* There is an order of the exemplars by their values.                     *)
LEMMA OrderExists ==
    ASSUME NEW N \in Nat, NEW v \in [1..N -> Int]
    PROVE  \E f \in Injection(1..N, 1..N) : \A m, n \in 1..N : m < n => v[f[m]] <= v[f[n]]
<1> DEFINE Upto(k, f) == \A m, n \in 1..N : m <= k /\ m < n => v[f[m]] <= v[f[n]]
           S == {k \in 0..N : \E f \in Injection(1..N, 1..N) : Upto(k, f)}
<1>1. 0 \in S
  <2> DEFINE f == [n \in 1..N |-> n]
  <2>1. f \in Injection(1..N, 1..N)
    BY DEF Injection, IsInjective
  <2>2. Upto(0, f)
    OBVIOUS
  <2> HIDE DEF f, Upto
  <2> QED
    BY <2>1, <2>2
<1>2. ASSUME NEW k \in 0..N, k \in S, k < N PROVE k + 1 \in S
  <2>1. k + 1 \in 0..N /\ k + 1 \in 1..N
    BY <1>2
  <2>2. PICK f \in Injection(1..N, 1..N) : Upto(k, f)
    BY <1>2
  <2>3. f \in [1..N -> 1..N] /\ \A a, b \in 1..N : f[a] = f[b] => a = b
    BY <2>2 DEF Injection, IsInjective
  <2> DEFINE w == [n \in 1..N |-> v[f[n]]]
  <2>4. w \in [1..N -> Int] /\ \A n \in 1..N : w[n] = v[f[n]]
    BY <2>3
  <2> HIDE DEF w
  <2>5. PICK j \in (k + 1)..N : \A l \in (k + 1)..N : w[j] <= w[l]
    BY <2>1, <2>4, LeastFrom
  <2> DEFINE swap == [n \in 1..N |-> IF n = k + 1 THEN j ELSE IF n = j THEN k + 1 ELSE n]
             g == [n \in 1..N |-> f[swap[n]]]
  <2>6. j \in 1..N
    BY <1>2, <2>5
  <2>7. /\ swap \in [1..N -> 1..N] /\ \A a, b \in 1..N : swap[a] = swap[b] => a = b
        /\ swap[k + 1] = j
        /\ \A n \in 1..N : n <= k => swap[n] = n
        /\ \A n \in 1..N : n > k => swap[n] \in (k + 1)..N
    BY <1>2, <2>1, <2>5, <2>6
  <2> HIDE DEF swap
  <2>8. g \in [1..N -> 1..N] /\ \A n \in 1..N : g[n] = f[swap[n]]
    BY <2>3, <2>7
  <2>9. \A a, b \in 1..N : g[a] = g[b] => a = b
    BY <2>3, <2>7, <2>8
  <2> HIDE DEF g
  <2>10. g \in Injection(1..N, 1..N)
    BY <2>8, <2>9 DEF Injection, IsInjective
  <2>11. ASSUME NEW m \in 1..N, NEW n \in 1..N, m <= k + 1, m < n PROVE v[g[m]] <= v[g[n]]
    <3>1. CASE m <= k
      <4>1. g[m] = f[m] /\ g[n] = f[swap[n]] /\ swap[n] \in 1..N
        BY <2>7, <2>8, <3>1
      <4>2. m < swap[n]
        <5>1. n <= k \/ n > k
          BY <1>2
        <5>2. CASE n <= k
          BY <2>7, <2>11, <5>2
        <5>3. CASE n > k
          <6>1. swap[n] \in (k + 1)..N
            BY <2>7, <5>3
          <6> QED
            BY <1>2, <3>1, <6>1
        <5> QED
          BY <5>1, <5>2, <5>3
      <4> QED
        BY <2>2, <3>1, <4>1, <4>2
    <3>2. CASE m = k + 1
      <4>1. g[m] = f[j] /\ g[n] = f[swap[n]] /\ swap[n] \in (k + 1)..N
        <5>1. n > k /\ m \in 1..N
          BY <1>2, <2>11, <3>2
        <5>2. swap[m] = j /\ swap[n] \in (k + 1)..N
          BY <2>7, <3>2, <5>1
        <5> QED
          BY <2>8, <5>1, <5>2
      <4>2. swap[n] \in 1..N
        BY <1>2, <4>1
      <4> QED
        BY <2>4, <2>5, <2>6, <4>1, <4>2
    <3> QED
      BY <1>2, <2>11, <3>1, <3>2
  <2>12. Upto(k + 1, g)
    BY <2>11
  <2> HIDE DEF Upto
  <2> QED
    BY <2>1, <2>10, <2>12
<1>3. \A k \in 0..N : k \in S /\ k < N => k + 1 \in S
  BY <1>2
<1>4. N \in S
  <2> HIDE DEF S
  <2>1. N \in 0..N
    OBVIOUS
  <2> QED
    BY <1>1, <1>3, <2>1, Induction
<1>5. PICK f \in Injection(1..N, 1..N) : Upto(N, f)
  BY <1>4
<1>6. \A m, n \in 1..N : m < n => v[f[m]] <= v[f[n]]
  BY <1>5
<1> QED
  BY <1>5, <1>6

(* An exemplar, and what Exemplars makes of any number of them.            *)
LEMMA ExemplarsSorted ==
    ASSUME NEW exs \in Seq(ExemplarsOf)
    PROVE  /\ DOMAIN Exemplars(exs) = 1..Len(exs) /\ Len(Exemplars(exs)) = Len(exs)
           /\ \A n \in 2..Len(exs) : Exemplars(exs)[n - 1].value <= Exemplars(exs)[n].value
<1> DEFINE N == Len(exs)
           v == [n \in 1..N |-> exs[n].value]
           order == CHOOSE f \in Injection(DOMAIN exs, DOMAIN exs) : Sorts(f, exs)
<1>1. N \in Nat /\ DOMAIN exs = 1..N /\ \A n \in 1..N : exs[n].value \in Int
  <2>1. \A n \in 1..N : exs[n] \in ExemplarsOf
    OBVIOUS
  <2> QED
    BY <2>1 DEF ExemplarsOf
<1> HIDE DEF N
<1>2. v \in [1..N -> Int] /\ \A n \in 1..N : v[n] = exs[n].value
  BY <1>1
<1> HIDE DEF v
<1>3. PICK f \in Injection(1..N, 1..N) : \A m, n \in 1..N : m < n => v[f[m]] <= v[f[n]]
  BY <1>1, <1>2, OrderExists
<1>4. f \in [1..N -> 1..N]
  BY <1>3 DEF Injection
<1>5. Sorts(f, exs)
  BY <1>1, <1>2, <1>3, <1>4, ZenonT(30) DEF Sorts
<1>6. order \in Injection(1..N, 1..N) /\ Sorts(order, exs)
  BY <1>1, <1>5
<1>7. Exemplars(exs) = [n \in 1..N |-> exemplar(exs[order[n]])]
  BY <1>1 DEF Exemplars
<1> HIDE DEF order
<1>8. order \in [1..N -> 1..N]
  BY <1>6 DEF Injection
<1>9. \A n \in 1..N : Exemplars(exs)[n].value = exs[order[n]].value
  BY <1>7 DEF exemplar
<1>10. ASSUME NEW n \in 2..N PROVE Exemplars(exs)[n - 1].value <= Exemplars(exs)[n].value
  <2>1. n - 1 \in 1..N /\ n \in 1..N /\ n - 1 < n
    BY <1>1
  <2> QED
    BY <1>1, <1>6, <1>9, <2>1 DEF Sorts
<1>11. DOMAIN Exemplars(exs) = 1..N /\ Len(Exemplars(exs)) = N
  BY <1>1, <1>7
<1> QED
  BY <1>10, <1>11 DEF N

(* The points of a histogram, which has one bucket more than bounds.       *)
(* The deviation is a number.                                              *)
LEMMA DeviationIsNumber ==
    ASSUME NEW counts \in Seq(Nat), NEW bounds \in Seq(Int), Len(counts) = Len(bounds) + 1,
           NEW mean, mean[1] \in Int, mean[2] \in Int
    PROVE  Deviation(counts, bounds, mean) \in Int
<1> DEFINE N == Len(counts)
           s == [n \in DOMAIN counts |-> counts[n] * Squared(Middle2(bounds, n) * mean[2] - 2 * mean[1])]
<1>1. N \in Nat /\ DOMAIN counts = 1..N /\ Len(bounds) \in Nat /\ N = Len(bounds) + 1
  OBVIOUS
<1>2. ASSUME NEW n \in 1..N PROVE counts[n] * Squared(Middle2(bounds, n) * mean[2] - 2 * mean[1]) \in Int
  <2>1. LowerBound(bounds, n) \in Int
    BY <1>1 DEF LowerBound
  <2>2. n <= Len(bounds) => bounds[n] \in Int
    BY <1>1
  <2>3. Middle2(bounds, n) \in Int
    BY <1>1, <2>1, <2>2 DEF Middle2
  <2> DEFINE x == Middle2(bounds, n)
  <2> HIDE DEF x
  <2>4. x * mean[2] - 2 * mean[1] \in Int
    BY <2>3 DEF x
  <2>5. \A y \in Int : Squared(y) \in Int
    BY DEF Squared
  <2>6. counts[n] \in Int
    BY <1>1
  <2>7. \A a, b \in Int : a * b \in Int
    OBVIOUS
  <2> QED
    BY <2>4, <2>5, <2>6, <2>7 DEF x
<1>3. Len(s) = N /\ \A n \in 1..N : s[n] \in Int
  BY <1>1, <1>2
<1>4. Deviation(counts, bounds, mean) = TotalUpTo(s)[N]
  <2>1. Deviation(counts, bounds, mean) = Total(s)
    BY DEF Deviation
  <2> HIDE DEF s
  <2> QED
    BY <1>3, <2>1 DEF Total
<1> HIDE DEF s
<1> DEFINE D == Int
<1>5. 0 \in D /\ (\A a, b \in D : a + b \in D) /\ \A n \in 1..N : s[n] \in D
  BY <1>3
<1>6. TotalUpTo(s) \in [0..N -> D]
  <2> HIDE DEF D, N
  <2> QED
    BY <1>1, <1>3, <1>5, TotalUpToValues
<1> QED
  BY <1>1, <1>4, <1>6

(* A histogram of any number of buckets, bounds, counts and exemplars.     *)
LEMMA HistogramsAddUp ==
    ASSUME NEW p, HistogramPoint(p) PROVE HistogramAddsUp(p)
<1> DEFINE dist == histogramPoint(p, TRUE)
           mean == Mean(p)
           dev == Deviation(p.counts, p.bounds, mean)
           exs == Exemplars(p.exemplars)
           sdk == histToDistribution(p)
<1>1. p.count \in Int
  <2>1. Len(p.counts) \in Nat /\ \A n \in 1..Len(p.counts) : p.counts[n] \in Nat
    BY DEF HistogramPoint
  <2>2. TotalUpTo(p.counts) \in [0..Len(p.counts) -> Nat]
    BY <2>1, NaturalTotals
  <2> QED
    BY <2>1, <2>2 DEF HistogramPoint, Total
<1>2. mean[1] \in Int /\ mean[2] \in Int
  <2>1. p.sum # NaN => p.sum[1] \in Int
    BY DEF HistogramPoint, IsSum, NaN
  <2> QED
    BY <1>1, <2>1 DEF Mean
<1> HIDE DEF mean
<1>3. dev \in Int
  BY <1>2, DeviationIsNumber DEF HistogramPoint
<1> HIDE DEF dev, exs
<1>4. dist = [count |-> p.count, mean |-> mean, counts |-> p.counts, options |-> [bounds |-> p.bounds],
              deviation |-> dev, exemplars |-> exs]
  BY DEF histogramPoint, mean, dev, exs
<1>5. sdk = [count |-> p.count, mean |-> mean, counts |-> p.counts, options |-> [bounds |-> p.bounds],
             deviation |-> 0, exemplars |-> exs]
  BY DEF histToDistribution, toDistributionExemplar, mean, exs
<1> HIDE DEF dist, sdk
<1>6. dist = setSumOfSquaredDeviation(p, sdk)
  <2>1. setSumOfSquaredDeviation(p, sdk) = [sdk EXCEPT !.deviation = sdk.deviation + dev]
    BY <1>5 DEF setSumOfSquaredDeviation, dev
  <2>2. sdk.deviation + dev = dev
    BY <1>3, <1>5
  <2> QED
    BY <1>4, <1>5, <2>1, <2>2
<1>7. /\ DOMAIN exs = 1..Len(p.exemplars) /\ Len(exs) = Len(p.exemplars)
      /\ \A n \in 2..Len(exs) : exs[n - 1].value <= exs[n].value
  BY ExemplarsSorted DEF HistogramPoint, exs
<1>8. Cardinality(DOMAIN exs) = Len(p.exemplars)
  <2>1. Len(p.exemplars) \in Nat
    BY DEF HistogramPoint
  <2> QED
    BY <1>7, <2>1, FS_Interval
<1>9. Total(dist.counts) = dist.count /\ Len(dist.counts) = Len(dist.options.bounds) + 1
  BY <1>4 DEF HistogramPoint
<1>10. /\ Cardinality(DOMAIN dist.exemplars) = Len(p.exemplars)
       /\ \A n \in 2..Len(dist.exemplars) : dist.exemplars[n - 1].value <= dist.exemplars[n].value
  BY <1>4, <1>7, <1>8
<1> QED
  BY <1>6, <1>9, <1>10, Zenon DEF HistogramAddsUp, dist, sdk

(* The buckets between a first and a last.                                 *)
LEMMA PlacesBetween ==
    ASSUME NEW first \in Nat, NEW s \in Seq(Nat), NEW last \in Nat
    PROVE  LET c == <<first>> \o s \o <<last>>
           IN  /\ Len(c) = Len(s) + 2 /\ c[1] = first /\ c[Len(s) + 2] = last
               /\ \A n \in 1..Len(s) : c[n + 1] = s[n]
OBVIOUS

(* Their sum.                                                              *)
LEMMA BucketsBetween ==
    ASSUME NEW first \in Nat, NEW s \in Seq(Nat), NEW last \in Nat
    PROVE  /\ Total(s) \in Nat
           /\ Total(<<first>> \o s \o <<last>>) = first + Total(s) + last
<1> DEFINE N == Len(s)
           c == <<first>> \o s \o <<last>>
           A == TotalUpTo(s)
           B == TotalUpTo(c)
           S == {n \in 0..N : B[n + 1] = first + A[n]}
<1>1. N \in Nat /\ \A n \in 1..N : s[n] \in Nat
  OBVIOUS
<1>2. /\ Len(c) = N + 2 /\ c[1] = first /\ c[N + 2] = last
      /\ \A n \in 1..N : c[n + 1] = s[n]
  BY PlacesBetween
<1> HIDE DEF N, c
<1>3. \A n \in 1..(N + 2) : c[n] \in Nat
  <2> TAKE n \in 1..(N + 2)
  <2>1. n = 1 \/ n = N + 2 \/ (n - 1 \in 1..N /\ (n - 1) + 1 = n)
    BY <1>1
  <2> QED
    BY <1>1, <1>2, <2>1
<1>4. A \in [0..N -> Nat] /\ A[0] = 0 /\ \A n \in 1..N : A[n] = A[n - 1] + s[n]
  BY <1>1, NaturalTotals DEF N
<1>5. /\ B \in [0..(N + 2) -> Nat] /\ B[0] = 0 /\ \A n \in 1..(N + 2) : B[n] = B[n - 1] + c[n]
  <2>1. N + 2 \in Nat
    BY <1>1
  <2> QED
    BY <1>2, <1>3, <2>1, NaturalTotals, ZenonT(30)
<1> HIDE DEF A, B
<1>6. 0 \in S
  <2>1. B[1] = B[1 - 1] + c[1]
    BY <1>1, <1>5
  <2> QED
    BY <1>1, <1>2, <1>4, <1>5, <2>1
<1>7. ASSUME NEW n \in 0..N, n \in S, n < N PROVE n + 1 \in S
  <2>1. /\ n + 1 \in 1..N /\ n + 1 \in 0..N /\ (n + 1) - 1 = n
        /\ (n + 1) + 1 \in 1..(N + 2) /\ ((n + 1) + 1) - 1 = n + 1
    BY <1>1, <1>7
  <2>2. A[n + 1] = A[n] + s[n + 1] /\ B[(n + 1) + 1] = B[n + 1] + c[(n + 1) + 1]
    BY <1>4, <1>5, <2>1
  <2>3. c[(n + 1) + 1] = s[n + 1] /\ B[n + 1] = first + A[n]
    BY <1>2, <1>7, <2>1
  <2>4. A[n] \in Nat /\ s[n + 1] \in Nat
    BY <1>1, <1>4, <2>1
  <2>5. B[(n + 1) + 1] = first + A[n + 1]
    BY <2>2, <2>3, <2>4
  <2> QED
    BY <2>1, <2>5
<1>8. \A n \in 0..N : n \in S /\ n < N => n + 1 \in S
  BY <1>7
<1>9. B[N + 1] = first + A[N]
  <2>1. N \in S
    <3> HIDE DEF S
    <3>1. N \in 0..N
      BY <1>1
    <3> QED
      BY <1>1, <1>6, <1>8, <3>1, Induction
  <2> QED
    BY <2>1
<1>10. B[N + 2] = B[N + 1] + last
  <2>1. N + 2 \in 1..(N + 2) /\ (N + 2) - 1 = N + 1
    BY <1>1
  <2> QED
    BY <1>2, <1>5, <2>1
<1>11. Total(s) = A[N] /\ Total(c) = B[N + 2] /\ A[N] \in Nat
  BY <1>1, <1>2, <1>4 DEF Total, A, B, N
<1> QED
  BY <1>9, <1>10, <1>11 DEF c

(* An exponential histogram of any scale, offset and number of buckets.    *)
LEMMA ExponentialsAddUp ==
    ASSUME NEW p, ExponentialPoint(p) PROVE ExponentialAddsUp(p)
<1> DEFINE dist == exponentialHistogramPoint(p)
           first == p.zero + Total(p.negative)
           N == Len(p.positive)
           counts == <<first>> \o p.positive \o <<0>>
<1>1. Total(p.negative) \in Nat /\ Total(p.positive) \in Nat /\ p.zero \in Nat
  <2>1. p.negative \in Seq(Nat) /\ p.positive \in Seq(Nat) /\ p.zero \in Nat
    BY DEF ExponentialPoint
  <2>2. 0 \in Nat
    OBVIOUS
  <2> QED
    BY <2>1, <2>2, BucketsBetween
<1>2. p.positive \in Seq(Nat) /\ N \in Nat /\ (p.positive = <<>> <=> N = 0) /\ DOMAIN p.positive = 1..N
  BY DEF ExponentialPoint
<1>3. first \in Nat
  BY <1>1
<1> HIDE DEF first
<1>4. Total(counts) = first + Total(p.positive) + 0
  <2>1. 0 \in Nat
    OBVIOUS
  <2> QED
    BY <1>2, <1>3, <2>1, BucketsBetween
<1>5. Len(counts) = N + 2 /\ counts[N + 2] = 0 /\ \A n \in 1..N : counts[n + 1] = p.positive[n]
  <2>1. 0 \in Nat
    OBVIOUS
  <2> DEFINE s == p.positive
  <2>2. s \in Seq(Nat)
    BY <1>2
  <2> HIDE DEF s
  <2>3. LET c == <<first>> \o s \o <<0>>
        IN  Len(c) = Len(s) + 2 /\ c[Len(s) + 2] = 0 /\ \A n \in 1..Len(s) : c[n + 1] = s[n]
    BY <1>3, <2>1, <2>2, PlacesBetween
  <2> QED
    BY <2>3 DEF s
<1>6. Total(counts) = p.count
  BY <1>1, <1>4 DEF ExponentialPoint, first
<1> HIDE DEF counts, N
<1>7. /\ dist = [count |-> p.count, mean |-> Mean(p), counts |-> counts, options |-> ExponentialOptions(p),
                 deviation |-> 0, exemplars |-> Exemplars(p.exemplars)]
      /\ dist = expHistToDistribution(p)
  BY DEF exponentialHistogramPoint, expHistToDistribution, ExponentialCounts, toDistributionExemplar, counts, first
<1>8. IF p.positive = <<>> THEN ExponentialOptions(p) = [bounds |-> <<0>>]
      ELSE ExponentialOptions(p) = [lowest |-> p.offset, finite |-> N]
  BY DEF ExponentialOptions, N
<1> HIDE DEF dist
<1>9. /\ dist.count = p.count /\ dist.counts = counts /\ dist.options = ExponentialOptions(p)
  BY <1>7
<1>10. Total(dist.counts) = dist.count /\ dist.counts[Len(dist.counts)] = 0
  BY <1>5, <1>6, <1>9
<1>11. ASSUME p.positive = <<>> PROVE Len(dist.counts) = Len(dist.options.bounds) + 1
  <2>1. dist.options.bounds = <<0>> /\ N = 0
    BY <1>2, <1>8, <1>9, <1>11
  <2>2. Len(<<0>>) = 1
    OBVIOUS
  <2> QED
    BY <1>5, <1>9, <2>1, <2>2
<1>12. ASSUME p.positive # <<>>
       PROVE  /\ Len(dist.counts) = dist.options.finite + 2
              /\ FiniteBuckets(dist) =
                    {[low |-> p.offset + k - 1, count |-> p.positive[k]] : k \in DOMAIN p.positive}
  <2>1. dist.options.lowest = p.offset /\ dist.options.finite = N
    BY <1>8, <1>9, <1>12
  <2>2. \A n \in 1..N : dist.counts[n + 1] = p.positive[n]
    BY <1>5, <1>9
  <2>3. FiniteBuckets(dist) = {[low |-> p.offset + k - 1, count |-> p.positive[k]] : k \in 1..N}
    BY <2>1, <2>2 DEF FiniteBuckets
  <2> QED
    BY <1>2, <1>5, <1>9, <2>1, <2>3
<1> QED
  BY <1>7, <1>10, <1>11, <1>12, Zenon DEF ExponentialAddsUp, dist
-----------------------------------------------------------------------------
(* TraceSpans.                                                             *)

(* The maximum of some numbers that a limit bounds is one of them.         *)
LEMMA MaxIsOne ==
    ASSUME NEW limit \in Nat, NEW T \in SUBSET (0..limit), T # {}
    PROVE  Max(T) \in T /\ \A b \in T : b <= Max(T)
<1> DEFINE D == {limit - b : b \in T}
<1>1. D \in SUBSET Nat /\ D # {}
  OBVIOUS
<1>2. PICK d \in D : \A e \in D : d <= e
  <2> HIDE DEF D
  <2> QED
    BY <1>1, Least
<1>3. PICK m \in T : d = limit - m
  BY <1>2
<1>4. \A b \in T : b <= m
  <2> SUFFICES ASSUME NEW b \in T PROVE b <= m
    OBVIOUS
  <2>1. limit - b \in D /\ b \in Nat /\ m \in Nat
    OBVIOUS
  <2>2. limit - m <= limit - b
    BY <1>2, <1>3, <2>1
  <2> QED
    BY <2>1, <2>2
<1>5. \E x \in T : \A y \in T : x >= y
  <2>1. \A b \in T : b \in Nat
    OBVIOUS
  <2> QED
    BY <1>4, <2>1
<1>6. Max(T) = CHOOSE x \in T : \A y \in T : x >= y
  BY DEF Max
<1> DEFINE x0 == CHOOSE x \in T : \A y \in T : x >= y
<1>7. x0 \in T /\ \A y \in T : x0 >= y
  BY <1>5
<1> HIDE DEF x0
<1>8. x0 \in Nat /\ \A y \in T : y \in Nat
  <2>1. \A y \in T : y \in Nat
    OBVIOUS
  <2> QED
    BY <1>7, <2>1
<1>9. \A y \in T : y <= x0
  BY <1>7, <1>8
<1> QED
  BY <1>6, <1>7, <1>9 DEF x0

(* The lesser of two numbers.                                              *)
LEMMA MinOfTwo ==
    ASSUME NEW a \in Nat, NEW b \in Nat
    PROVE  Min({a, b}) = IF a <= b THEN a ELSE b
<1> DEFINE m == IF a <= b THEN a ELSE b
<1>1. Min({a, b}) = CHOOSE x \in {a, b} : \A y \in {a, b} : x <= y
  BY DEF Min
<1>2. m \in {a, b} /\ \A y \in {a, b} : m <= y
  OBVIOUS
<1>3. \A x \in {a, b} : (\A y \in {a, b} : x <= y) => x = m
  OBVIOUS
<1> QED
  BY <1>1, <1>2, <1>3

(* The greater of two numbers.                                             *)
LEMMA MaxOfTwo ==
    ASSUME NEW a \in Int, NEW b \in Int
    PROVE  Max({a, b}) = IF a >= b THEN a ELSE b
<1> DEFINE m == IF a >= b THEN a ELSE b
<1>1. Max({a, b}) = CHOOSE x \in {a, b} : \A y \in {a, b} : x >= y
  BY DEF Max
<1>2. m \in {a, b} /\ \A y \in {a, b} : m >= y
  OBVIOUS
<1>3. \A x \in {a, b} : (\A y \in {a, b} : x >= y) => x = m
  OBVIOUS
<1> QED
  BY <1>1, <1>2, <1>3

(* copyLinks and copyTimeEvents: the entries up to the limit are kept, in  *)
(* their order, and those beyond it are counted as dropped.                *)
THEOREM ListsKeptOrCounted ==
    ASSUME NEW S, NEW s \in Seq(S), NEW limit \in Nat
    PROVE  ListsAddUp(s, limit)
<1> DEFINE N == Len(s)
           m == IF limit <= N THEN limit ELSE N
           kept == CopyEach(s, limit).kept
           dropped == CopyEach(s, limit).dropped
<1>1. N \in Nat /\ m \in 0..N /\ m <= limit
  OBVIOUS
<1>2. Min({limit, N}) = m
  BY <1>1, MinOfTwo
<1>3. dropped = Max({0, N - limit})
  BY DEF CopyEach, Limited
<1>4. Max({0, N - limit}) = IF 0 >= N - limit THEN 0 ELSE N - limit
  <2>1. N - limit \in Int /\ 0 \in Int
    BY <1>1
  <2> QED
    BY <2>1, MaxOfTwo
<1>5. dropped \in Nat /\ dropped = N - m
  BY <1>1, <1>3, <1>4
<1>6. Limited(s, limit).kept = SubSeq(s, 1, m)
  BY <1>2 DEF Limited
<1>7. DOMAIN SubSeq(s, 1, m) = 1..m
  BY <1>1
<1>8. kept = [n \in 1..m |-> copyAttributes(s[n])]
  BY <1>6, <1>7 DEF CopyEach
<1>9. Len(kept) = m
  BY <1>1, <1>8
<1>10. \A n \in DOMAIN kept : kept[n] = copyAttributes(s[n])
  BY <1>8
<1> HIDE DEF kept, dropped
<1>11. Len(kept) + dropped = N /\ Len(kept) <= limit
  BY <1>1, <1>5, <1>9
<1>12. dropped > 0 => Len(kept) = limit
  BY <1>1, <1>5, <1>9
<1> QED
  BY <1>10, <1>11, <1>12, Zenon DEF ListsAddUp, kept, dropped

(* The bytes of a text are a number.                                       *)
LEMMA BytesAreNumbers == \A text \in Seq(Nat) : ByteLen(text) \in Nat
<1> SUFFICES ASSUME NEW text \in Seq(Nat) PROVE Total(text) \in Nat
  BY DEF ByteLen
<1> DEFINE N == Len(text)
<1>1. N \in Nat /\ \A n \in 1..N : text[n] \in Nat
  OBVIOUS
<1>2. TotalUpTo(text) \in [0..N -> Nat]
  BY <1>1, NaturalTotals
<1> QED
  BY <1>1, <1>2 DEF Total

(* trunc: what is left of a text ends between two characters, is the       *)
(* longest such beginning within the limit, and the bytes cut off are      *)
(* counted.                                                                *)
THEOREM CutAtCharacters ==
    ASSUME NEW text \in Seq(Nat), NEW limit \in Nat
    PROVE  TextCutAtCharacters(text, limit)
<1> DEFINE B == Boundaries(text)
           all == ByteLen(text)
           T == {b \in B : b <= limit}
           t == trunc(text, limit)
<1>1. all \in Nat
  BY BytesAreNumbers
<1>2. \A b \in B : b \in Nat
  <2>1. \A n \in 0..Len(text) : SubSeq(text, 1, n) \in Seq(Nat)
    OBVIOUS
  <2> QED
    BY <2>1, BytesAreNumbers DEF Boundaries
<1>3. all \in B
  <2>1. SubSeq(text, 1, Len(text)) = text /\ Len(text) \in 0..Len(text)
    OBVIOUS
  <2> QED
    BY <2>1 DEF Boundaries
<1>4. 0 \in B
  <2>1. SubSeq(text, 1, 0) = <<>> /\ 0 \in 0..Len(text)
    OBVIOUS
  <2>2. ByteLen(<<>>) = 0
    <3> DEFINE none == <<>>
    <3>1. Len(none) = 0 /\ \A n \in 1..0 : none[n] \in Nat
      OBVIOUS
    <3> HIDE DEF none
    <3>2. TotalUpTo(none)[0] = 0
      BY <3>1, NaturalTotals
    <3>3. ByteLen(none) = 0
      BY <3>1, <3>2 DEF ByteLen, Total
    <3> QED
      BY <3>3 DEF none
  <2> QED
    BY <2>1, <2>2 DEF Boundaries
<1> HIDE DEF B, all
<1>5. T \in SUBSET (0..limit) /\ T # {}
  BY <1>2, <1>4
<1>6. Max(T) \in T /\ \A b \in T : b <= Max(T)
  <2> HIDE DEF T
  <2> QED
    BY <1>5, MaxIsOne
<1>7. CASE all > limit
  <2>1. t = [value |-> Max(T), truncated |-> all - Max(T)]
    BY <1>7 DEF trunc, T, B, all
  <2>2. t.value \in B /\ t.value <= limit /\ t.value \in Nat /\ t.truncated = all - t.value
    BY <1>2, <1>6, <2>1
  <2>3. \A b \in B : b <= limit => b <= t.value
    BY <1>6, <2>1
  <2>4. t.value + t.truncated = all
    BY <1>1, <2>2
  <2> QED
    BY <2>2, <2>3, <2>4, Zenon DEF TextCutAtCharacters, B, all
<1>8. CASE ~(all > limit)
  <2>1. t = [value |-> all, truncated |-> 0]
    BY <1>8 DEF trunc, all
  <2>2. t.value \in B /\ t.value <= limit /\ t.value + t.truncated = all /\ ~(t.truncated > 0)
    BY <1>1, <1>3, <1>8, <2>1
  <2> QED
    BY <2>2, Zenon DEF TextCutAtCharacters, B, all
<1> QED
  BY <1>7, <1>8
-----------------------------------------------------------------------------
(* Settings.                                                               *)

(* The first of some places is one of them, and there is none before it.   *)
LEMMA FirstAtIs ==
    ASSUME NEW N \in Nat, NEW T \in SUBSET (1..N)
    PROVE  /\ T = {} => FirstAt(T) = 0
           /\ T # {} => FirstAt(T) \in T /\ FirstAt(T) # 0 /\ \A n \in T : FirstAt(T) <= n
<1>1. CASE T = {}
  BY <1>1 DEF FirstAt
<1>2. CASE T # {}
  <2>1. \E n \in T : \A m \in T : n <= m
    BY <1>2, Least
  <2>2. Min(T) \in T /\ \A m \in T : Min(T) <= m
    BY <2>1 DEF Min
  <2>3. FirstAt(T) = Min(T)
    BY <1>2 DEF FirstAt
  <2>4. Min(T) # 0
    BY <2>2
  <2> QED
    BY <1>2, <2>2, <2>3, <2>4
<1> QED
  BY <1>1, <1>2

(* A place that none is before is the first.                               *)
LEMMA FirstIs ==
    ASSUME NEW N \in Nat, NEW T \in SUBSET (1..N), NEW k \in T, \A n \in 1..N : n < k => n \notin T
    PROVE  FirstAt(T) = k
<1>1. FirstAt(T) \in T /\ FirstAt(T) <= k
  BY FirstAtIs
<1> HIDE DEF FirstAt
<1> DEFINE f == FirstAt(T)
<1>2. f \in T /\ f <= k /\ f \in 1..N /\ k \in 1..N
  BY <1>1
<1> HIDE DEF f
<1>3. ~(f < k)
  BY <1>2
<1>4. f = k
  BY <1>2, <1>3
<1> QED
  BY <1>4 DEF f

(* The first platform there is evidence of.                                *)
LEMMA FirstPlatform ==
    ASSUME NEW env, NEW served
    PROVE  \/ /\ CloudPlatform(env, served) = "UnknownPlatform"
              /\ \A n \in 1..9 : ~On(Platforms[n], env, served)
           \/ \E at \in 1..9 : /\ CloudPlatform(env, served) = Platforms[at]
                               /\ On(Platforms[at], env, served)
                               /\ \A n \in 1..9 : n < at => ~On(Platforms[n], env, served)
<1> DEFINE T == {n \in DOMAIN Platforms : On(Platforms[n], env, served)}
<1>1. DOMAIN Platforms = 1..9
  BY DEF Platforms
<1>2. T \in SUBSET (1..9) /\ \A n \in 1..9 : n \in T <=> On(Platforms[n], env, served)
  BY <1>1
<1>3. CloudPlatform(env, served) = IF FirstAt(T) = 0 THEN "UnknownPlatform" ELSE Platforms[FirstAt(T)]
  BY DEF CloudPlatform
<1> HIDE DEF T
<1>4. /\ T = {} => FirstAt(T) = 0
      /\ T # {} => FirstAt(T) \in T /\ FirstAt(T) # 0 /\ \A n \in T : FirstAt(T) <= n
  BY <1>2, FirstAtIs
<1>5. CASE T = {}
  BY <1>2, <1>3, <1>4, <1>5
<1>6. CASE T # {}
  <2> DEFINE at == FirstAt(T)
  <2>1. at \in 1..9 /\ CloudPlatform(env, served) = Platforms[at] /\ On(Platforms[at], env, served)
    BY <1>2, <1>3, <1>4, <1>6
  <2>2. \A n \in 1..9 : n < at => ~On(Platforms[n], env, served)
    BY <1>2, <1>4, <1>6, <2>1
  <2> QED
    BY <2>1, <2>2
<1> QED
  BY <1>5, <1>6

(* The platform is the most specific there is evidence of.                 *)
LEMMA PlatformsDetected ==
    ASSUME NEW env, NEW served, \A n \in DOMAIN env : env[n] # Absent
    PROVE  PlatformDetected(env, served)
<1> DEFINE p == CloudPlatform(env, served)
<1>1. /\ Platforms[1] = "BareMetalSolution" /\ Platforms[2] = "GKE" /\ Platforms[3] = "CloudFunctions"
      /\ Platforms[4] = "CloudRun" /\ Platforms[5] = "CloudRunJob"
      /\ Platforms[6] = "CloudRunWorkerPool" /\ Platforms[7] = "AppEngineStandard"
      /\ Platforms[8] = "AppEngineFlex" /\ Platforms[9] = "GCE" /\ DOMAIN Platforms = 1..9
  BY DEF Platforms
<1>2. \A n \in 1..9 : n \in {1, 2, 3, 4, 5, 6, 7, 8, 9}
  OBVIOUS
<1>3. CASE /\ p = "UnknownPlatform" /\ \A n \in 1..9 : ~On(Platforms[n], env, served)
  <2>1. ~On("GCE", env, served)
    BY <1>1, <1>3
  <2>2. "machine-type" \notin served
    BY <2>1 DEF On, onGCE
  <2> QED
    BY <1>3, <2>2 DEF PlatformDetected
<1>4. ASSUME NEW at \in 1..9, p = Platforms[at], On(Platforms[at], env, served),
             \A n \in 1..9 : n < at => ~On(Platforms[n], env, served)
      PROVE  PlatformDetected(env, served)
  <2>1. p = "GCE" => \A q \in Range(Platforms) \ {"GCE"} : ~On(q, env, served)
    <3> SUFFICES ASSUME p = "GCE", NEW q \in Range(Platforms) \ {"GCE"} PROVE ~On(q, env, served)
      OBVIOUS
    <3>1. at = 9
      BY <1>1, <1>2, <1>4
    <3>2. PICK n \in 1..9 : q = Platforms[n]
      BY <1>1 DEF Range
    <3>3. n < at
      BY <1>1, <3>1, <3>2
    <3> QED
      BY <1>4, <3>2, <3>3
  <2>2. p = "GKE" => "cluster-location" \in served
    BY <1>4 DEF On, onGKE
  <2>3. p = "AppEngineFlex" => Getenv(env, "GAE_ENV") # "standard"
    <3>1. SUFFICES ASSUME p = "AppEngineFlex" PROVE ~On("AppEngineStandard", env, served)
      BY DEF On, onAppEngineStandard
    <3>2. at = 8
      BY <1>1, <1>2, <1>4, <3>1
    <3> QED
      BY <1>1, <1>4, <3>2
  <2>4. p \in {"CloudRunJob", "CloudRunWorkerPool"} => FaaSName(env) # Absent
    <3> DEFINE names == <<"K_SERVICE", "CLOUD_RUN_JOB", "CLOUD_RUN_WORKER_POOL">>
               T == {n \in DOMAIN names : Set(env, names[n])}
    <3>1. SUFFICES ASSUME p \in {"CloudRunJob", "CloudRunWorkerPool"} PROVE FaaSName(env) # Absent
      OBVIOUS
    <3>2. Set(env, "CLOUD_RUN_JOB") \/ Set(env, "CLOUD_RUN_WORKER_POOL")
      BY <1>4, <3>1 DEF On
    <3>3. T \in SUBSET (1..3) /\ T # {} /\ \A n \in T : Set(env, names[n])
      <4>1. DOMAIN names = 1..3 /\ names[2] = "CLOUD_RUN_JOB" /\ names[3] = "CLOUD_RUN_WORKER_POOL"
        OBVIOUS
      <4> HIDE DEF names
      <4> QED
        BY <3>2, <4>1
    <3>4. FaaSName(env) = IF FirstAt(T) = 0 THEN Absent ELSE env[names[FirstAt(T)]]
      BY DEF FaaSName, LookupFirst
    <3> HIDE DEF T, names
    <3>5. FirstAt(T) \in T /\ FirstAt(T) # 0
      BY <3>3, FirstAtIs
    <3> QED
      BY <3>3, <3>4, <3>5 DEF Set
  <2>5. p # "UnknownPlatform"
    BY <1>1, <1>2, <1>4
  <2> HIDE DEF p
  <2> QED
    BY <2>1, <2>2, <2>3, <2>4, <2>5 DEF PlatformDetected, p
<1> QED
  BY <1>3, <1>4, FirstPlatform

(* Locations of any number of parts.                                       *)
LEMMA LocationsAgree ==
    ASSUME NEW S, NEW parts \in Seq(S) PROVE ZonesAgree(parts)
<1>1. Len(parts) >= 2 => Len(SubSeq(parts, 1, 2)) = 2
  OBVIOUS
<1>2. Len(parts) \in Nat /\ (Len(parts) >= 2 => parts # <<>>)
  OBVIOUS
<1> QED
  BY <1>1, <1>2 DEF ZonesAgree, GKEAvailabilityZoneOrRegion, GCEAvailabilityZoneAndRegion

(* Two keys that are mapped to something.                                  *)
LEMMA KeysMapped ==
    ASSUME NEW S, NEW mappings \in Seq(S), NEW key
    PROVE  \/ mappingFuncFromAKM(mappings, key) = key
           \/ \E n \in DOMAIN mappings : /\ mappings[n].key = key
                                         /\ mappingFuncFromAKM(mappings, key) = mappings[n].replacement
<1> DEFINE T == {n \in DOMAIN mappings : mappings[n].key = key}
<1>1. Len(mappings) \in Nat /\ T \in SUBSET (1..Len(mappings))
  OBVIOUS
<1>2. mappingFuncFromAKM(mappings, key) = IF FirstAt(T) = 0 THEN key ELSE mappings[FirstAt(T)].replacement
  BY DEF mappingFuncFromAKM
<1>3. \A n \in T : n \in DOMAIN mappings /\ mappings[n].key = key
  OBVIOUS
<1> HIDE DEF T
<1>4. FirstAt(T) = 0 \/ FirstAt(T) \in T
  BY <1>1, FirstAtIs
<1> QED
  BY <1>2, <1>3, <1>4

(* Valid mappings keep two attributes apart unless one of them has the key *)
(* of a replacement.                                                       *)
LEMMA MappingsApart ==
    ASSUME NEW S, NEW mappings \in Seq(S), NEW key, NEW other
    PROVE  MappedKeysApart(mappings, key, other)
<1> SUFFICES ASSUME ValidMappings(mappings), key # other,
                    \A m \in Range(mappings) : m.replacement \notin {key, other}
             PROVE  mappingFuncFromAKM(mappings, key) # mappingFuncFromAKM(mappings, other)
  BY DEF MappedKeysApart
<1>1. \A n \in DOMAIN mappings : mappings[n].replacement # key /\ mappings[n].replacement # other
  BY DEF Range
<1>2. \A m, n \in DOMAIN mappings : m # n => mappings[m].replacement # mappings[n].replacement
  BY DEF ValidMappings
<1> QED
  BY <1>1, <1>2, KeysMapped

(* The first of two strings that is not empty, and of three.               *)
LEMMA CoalescedTwo ==
    \A a, b : Coalesce(<<a, b>>) = IF a # Nothing THEN a ELSE b
<1> SUFFICES ASSUME NEW a, NEW b PROVE Coalesce(<<a, b>>) = IF a # Nothing THEN a ELSE b
  OBVIOUS
<1> DEFINE values == <<a, b>>
           T == {n \in DOMAIN values : values[n] # Nothing}
<1>1. DOMAIN values = {1, 2} /\ values[1] = a /\ values[2] = b
  OBVIOUS
<1>2. Coalesce(values) = IF FirstAt(T) = 0 THEN Nothing ELSE values[FirstAt(T)]
  BY DEF Coalesce, Nothing
<1>3. T \in SUBSET (1..2) /\ (1 \in T <=> a # Nothing) /\ (2 \in T <=> b # Nothing)
  BY <1>1
<1> HIDE DEF T, values
<1>4. /\ T = {} => FirstAt(T) = 0
      /\ T # {} => FirstAt(T) \in T /\ FirstAt(T) # 0 /\ \A n \in T : FirstAt(T) <= n
  BY <1>3, FirstAtIs
<1>5. CASE a # Nothing
  <2>1. 1 \in T /\ \A n \in 1..2 : n < 1 => n \notin T
    BY <1>3, <1>5
  <2>2. FirstAt(T) = 1
    BY <1>3, <2>1, FirstIs
  <2> QED
    BY <1>1, <1>2, <1>5, <2>2 DEF values
<1>6. CASE a = Nothing /\ b # Nothing
  <2>1. 2 \in T /\ \A n \in 1..2 : n < 2 => n \notin T
    BY <1>3, <1>6
  <2>2. FirstAt(T) = 2
    BY <1>3, <2>1, FirstIs
  <2> QED
    BY <1>1, <1>2, <1>6, <2>2 DEF values
<1>7. CASE a = Nothing /\ b = Nothing
  <2>1. FirstAt(T) = 0
    BY <1>3, <1>4, <1>7
  <2> QED
    BY <1>2, <1>7, <2>1 DEF values
<1> QED
  BY <1>5, <1>6, <1>7

(* The first of three values that is not empty.                            *)
LEMMA CoalescedThree ==
    \A a, b, c : Coalesce(<<a, b, c>>) = IF a # Nothing THEN a ELSE IF b # Nothing THEN b ELSE c
<1> SUFFICES ASSUME NEW a, NEW b, NEW c
             PROVE  Coalesce(<<a, b, c>>) = IF a # Nothing THEN a ELSE IF b # Nothing THEN b ELSE c
  OBVIOUS
<1> DEFINE values == <<a, b, c>>
           T == {n \in DOMAIN values : values[n] # Nothing}
<1>1. DOMAIN values = {1, 2, 3} /\ values[1] = a /\ values[2] = b /\ values[3] = c
  OBVIOUS
<1>2. Coalesce(values) = IF FirstAt(T) = 0 THEN Nothing ELSE values[FirstAt(T)]
  BY DEF Coalesce, Nothing
<1>3. T \in SUBSET (1..3) /\ (1 \in T <=> a # Nothing) /\ (2 \in T <=> b # Nothing) /\ (3 \in T <=> c # Nothing)
  BY <1>1
<1> HIDE DEF T, values
<1>4. /\ T = {} => FirstAt(T) = 0
      /\ T # {} => FirstAt(T) \in T /\ FirstAt(T) # 0 /\ \A n \in T : FirstAt(T) <= n
  BY <1>3, FirstAtIs
<1>5. CASE a # Nothing
  <2>1. 1 \in T /\ \A n \in 1..3 : n < 1 => n \notin T
    BY <1>3, <1>5
  <2>2. FirstAt(T) = 1
    BY <1>3, <2>1, FirstIs
  <2> QED
    BY <1>1, <1>2, <1>5, <2>2 DEF values
<1>6. CASE a = Nothing /\ b # Nothing
  <2>1. 2 \in T /\ \A n \in 1..3 : n < 2 => n \notin T
    BY <1>3, <1>6
  <2>2. FirstAt(T) = 2
    BY <1>3, <2>1, FirstIs
  <2> QED
    BY <1>1, <1>2, <1>6, <2>2 DEF values
<1>7. CASE a = Nothing /\ b = Nothing /\ c # Nothing
  <2>1. 3 \in T /\ \A n \in 1..3 : n < 3 => n \notin T
    BY <1>3, <1>7
  <2>2. FirstAt(T) = 3
    BY <1>3, <2>1, FirstIs
  <2> QED
    BY <1>1, <1>2, <1>7, <2>2 DEF values
<1>8. CASE a = Nothing /\ b = Nothing /\ c = Nothing
  <2>1. FirstAt(T) = 0
    BY <1>3, <1>4, <1>8
  <2> QED
    BY <1>2, <1>8, <2>1 DEF values
<1> QED
  BY <1>5, <1>6, <1>7, <1>8

(* A config of the extension, with any values in its fields.               *)
ConfigFields == {"project", "quota", "tokenType", "audience", "tokenHeader"}
IsConfig(c) == c = [x \in ConfigFields |-> c[x]]

(* The project and the quota project that Start finds.                     *)
Found(config, env, creds) ==
    IF config.project # Nothing THEN config.project
    ELSE IF Getenv(env, "GOOGLE_CLOUD_PROJECT") # Nothing THEN Getenv(env, "GOOGLE_CLOUD_PROJECT")
    ELSE creds.project
Quota(config, creds) == IF config.quota # Nothing THEN config.quota ELSE creds.quota

(* What Start makes of a config.                                           *)
StartedAs(ext, config, env, creds) ==
    /\ IsConfig(ext.config)
    /\ ext.config.tokenType = config.tokenType /\ ext.config.tokenHeader = config.tokenHeader
    /\ IF creds.found /\ Found(config, env, creds) # Nothing
       THEN /\ ext.started = newTokenSource(config, creds)
            /\ ext.config.project = Found(config, env, creds)
            /\ ext.config.quota = Quota(config, creds)
       ELSE ext.started = FALSE /\ ext.config = config
LEMMA ExtensionStarted ==
    ASSUME NEW config, IsConfig(config), NEW env, NEW creds \in Credentials
    PROVE  StartedAs(StartExtension(config, env, creds), config, env, creds)
<1> DEFINE found == Found(config, env, creds)
           quota == Quota(config, creds)
           c == [config EXCEPT !.project = found, !.quota = quota]
           ext == StartExtension(config, env, creds)
           started == newTokenSource(config, creds)
<1>1. StartProject(config, env, creds) = found
  BY CoalescedThree DEF StartProject, Found
<1>2. Coalesce(<<config.quota, creds.quota>>) = quota
  BY CoalescedTwo DEF Quota
<1> HIDE DEF found, quota
<1>3. /\ c.project = found /\ c.quota = quota /\ c.tokenType = config.tokenType
      /\ c.tokenHeader = config.tokenHeader /\ IsConfig(c)
  BY DEF IsConfig, ConfigFields
<1>4. CASE creds.found /\ found # Nothing
  <2>1. ext = [started |-> started, config |-> c]
    BY <1>1, <1>2, <1>4, Zenon DEF StartExtension, Nothing
  <2> HIDE DEF c, started, ext
  <2>2. ext.started = started /\ ext.config = c
    BY <2>1
  <2>3. StartedAs(ext, config, env, creds)
    BY <1>3, <1>4, <2>2 DEF StartedAs, found, quota, started
  <2> QED
    BY <2>3 DEF ext
<1>5. CASE ~(creds.found /\ found # Nothing)
  <2>1. ext = [started |-> FALSE, config |-> config]
    BY <1>1, <1>5, Zenon DEF StartExtension, Nothing
  <2> HIDE DEF ext
  <2>2. ext.started = FALSE /\ ext.config = config
    BY <2>1
  <2>3. StartedAs(ext, config, env, creds)
    BY <1>5, <2>2 DEF StartedAs, found
  <2> QED
    BY <2>3 DEF ext
<1> QED
  BY <1>4, <1>5, Zenon DEF ext

(* An extension sends what it has found, by both transports, and keeps it. *)
LEMMA ExtensionsResolved ==
    ASSUME NEW config \in ExtensionConfigs, NEW env, NEW env2,
           NEW creds \in Credentials, NEW creds2 \in Credentials
    PROVE  ExtensionResolved(config, env, creds, env2, creds2)
<1> DEFINE ext == StartExtension(config, env, creds)
           again == StartExtension(ext.config, env2, creds2)
           found == Found(config, env, creds)
           E == Getenv(env, "GOOGLE_CLOUD_PROJECT")
<1>1. IsConfig(config)
  BY DEF IsConfig, ConfigFields, ExtensionConfigs
<1>a. ext = StartExtension(config, env, creds)
  OBVIOUS
<1> HIDE DEF ext
<1>b. again = StartExtension(ext.config, env2, creds2)
  OBVIOUS
<1> HIDE DEF again
<1> HIDE DEF E
<1>2. StartedAs(ext, config, env, creds)
  BY <1>1, <1>a, ExtensionStarted, Zenon
<1>3. StartedAs(again, ext.config, env2, creds2)
  <2>1. IsConfig(ext.config)
    BY <1>2 DEF StartedAs
  <2> QED
    BY <1>b, <2>1, ExtensionStarted, Zenon
<1> HIDE DEF found
<1>4. /\ newTokenSource(ext.config, creds2) = newTokenSource(config, creds2)
      /\ newTokenSource(config, creds2) \in BOOLEAN /\ creds2.found \in BOOLEAN
  BY <1>2 DEF StartedAs, newTokenSource, Credentials
<1>5. ASSUME ext.started, ValidExtension(config)
      PROVE  /\ RoundTripper(ext).sent /\ GetRequestMetadata(ext).sent
             /\ RoundTripper(ext).parameters = GetRequestMetadata(ext).parameters
             /\ RoundTripper(ext).parameters.project # Nothing
             /\ RoundTripper(ext).token = config.tokenHeader
             /\ config.project = Nothing /\ E # Nothing =>
                    ext.config.project = env["GOOGLE_CLOUD_PROJECT"]
  <2>1. found # Nothing /\ ext.config.project = found
    BY <1>2, <1>5 DEF StartedAs, found
  <2>2. E # Nothing => E = env["GOOGLE_CLOUD_PROJECT"]
    BY DEF Getenv, Nothing, E
  <2>3. config.project = Nothing /\ E # Nothing => found = E
    BY DEF Found, found, E
  <2>4. RoundTripper(ext).sent /\ GetRequestMetadata(ext).sent
    BY <1>5, Zenon DEF RoundTripper, GetRequestMetadata
  <2>5. /\ RoundTripper(ext).parameters = Parameters(ext.config)
        /\ GetRequestMetadata(ext).parameters = Parameters(ext.config)
        /\ Parameters(ext.config).project = ext.config.project
    BY DEF RoundTripper, GetRequestMetadata, Parameters
  <2>6. RoundTripper(ext).token = config.tokenHeader
    BY <1>2, <1>5 DEF StartedAs, RoundTripper, ValidExtension
  <2> QED
    BY <2>1, <2>2, <2>3, <2>4, <2>5, <2>6
<1>6. /\ config.project # Nothing => ext.config.project = config.project
      /\ config.quota # Nothing => ext.config.quota = config.quota
  BY <1>2 DEF StartedAs, Found, Quota
<1>7. ASSUME ext.config.project # Nothing
      PROVE  /\ again.config.project = ext.config.project
             /\ again.started <=> creds2.found /\ newTokenSource(config, creds2)
  <2>1. Found(ext.config, env2, creds2) = ext.config.project
    BY <1>7 DEF Found
  <2> QED
    BY <1>3, <1>4, <1>7, <2>1 DEF StartedAs
<1>8. ext.config.quota # Nothing => again.config.quota = ext.config.quota
  BY <1>3 DEF StartedAs, Quota
<1> QED
  BY <1>5, <1>6, <1>7, <1>8, Zenon DEF ExtensionResolved, Nothing, ext, again, E

(* An extension of the host gives options, or there is no starting.        *)
LEMMA ExtensionGives ==
    ASSUME NEW ext, ext.options \in OptionSets, ExtensionOptions(ext).ok
    PROVE  ExtensionOptions(ext).options \ {"impersonate"} # {}
<1> DEFINE offered == {n \in DOMAIN AuthInterfaces : Offers(ext, AuthInterfaces[n])}
           at == FirstAt(offered)
<1>1. DOMAIN AuthInterfaces = 1..4 /\ AuthInterfaces[1] = "ClientOptions"
  BY DEF AuthInterfaces
<1>2. offered # {} => at \in offered
  <2>1. offered \in SUBSET (1..4)
    BY <1>1
  <2> HIDE DEF offered
  <2> QED
    BY <2>1, FirstAtIs
<1>3. at = 1 => ext.options # {}
  <2>1. at = 1 => 1 \in offered
    <3>1. offered = {} => at = 0
      BY DEF FirstAt
    <3> HIDE DEF offered, at
    <3> QED
      BY <1>2, <3>1
  <2> QED
    BY <1>1, <2>1 DEF Offers
<1> HIDE DEF offered
<1>4. ExtensionOptions(ext) = CASE at = 0 \/ (at = 4 /\ ~ext.perRPC) -> NoAuth
          [] at = 1 -> [ok |-> TRUE, options |-> ext.options]
          [] OTHER  -> [ok |-> TRUE, options |-> {AuthInterfaces[at]}]
  BY DEF ExtensionOptions, offered
<1> HIDE DEF at
<1>5. ~(at = 0 \/ (at = 4 /\ ~ext.perRPC))
  BY <1>4 DEF NoAuth
<1>6. CASE at = 1
  BY <1>3, <1>4, <1>5, <1>6 DEF OptionSets
<1>7. CASE at # 1
  <2>1. at \in 2..4
    <3>1. at \in 1..4
      BY <1>1, <1>2, <1>5 DEF offered, at, FirstAt
    <3> QED
      BY <1>7, <3>1
  <2>2. AuthInterfaces[at] # "impersonate"
    BY <2>1 DEF AuthInterfaces
  <2>3. ExtensionOptions(ext).options = {AuthInterfaces[at]}
    BY <1>4, <1>5, <1>7
  <2> QED
    BY <2>2, <2>3
<1> QED
  BY <1>6, <1>7

(* What an exporter is given by an authenticator, if it is asked for.      *)
LEMMA AuthenticatorGives ==
    ASSUME NEW config, NEW client, NEW host, IsHost(host)
    PROVE  /\ ~Authenticates(config, client) =>
                 /\ AuthOptions(config, client, host).ok
                 /\ AuthOptions(config, client, host).options = client.options
           /\ Authenticates(config, client) /\ host.there /\ AuthOptions(config, client, host).ok =>
                 AuthOptions(config, client, host).options \ {"impersonate"} # {}
           /\ AuthOptions(config, client, host).ok \in BOOLEAN
<1> DEFINE name == config.authenticator
           auth == getAuthenticatorClientOptions(name, host)
           got == AuthOptions(config, client, host)
<1>1. Authenticates(config, client) => got = auth
  BY Zenon DEF AuthOptions
<1>2. ~Authenticates(config, client) => got.ok = TRUE /\ got.options = client.options
  <2>1. ~Authenticates(config, client) => got = [ok |-> TRUE, options |-> client.options]
    BY Zenon DEF AuthOptions
  <2> HIDE DEF got
  <2> QED
    BY <2>1
<1>3. host.there /\ auth.ok => auth.options \ {"impersonate"} # {}
  <2>1. CASE host.there /\ name \notin DOMAIN host.extensions
    BY <2>1 DEF getAuthenticatorClientOptions, NoAuth
  <2>2. CASE host.there /\ name \in DOMAIN host.extensions
    BY <2>2, ExtensionGives DEF getAuthenticatorClientOptions, IsHost
  <2> QED
    BY <2>1, <2>2
<1>4. auth.ok \in BOOLEAN
  <2>1. \A ext : ExtensionOptions(ext).ok \in BOOLEAN
    <3> SUFFICES ASSUME NEW ext PROVE ExtensionOptions(ext).ok \in BOOLEAN
      OBVIOUS
    <3>1. ExtensionOptions(ext).ok = TRUE \/ ExtensionOptions(ext).ok = FALSE
      BY DEF ExtensionOptions, NoAuth
    <3> QED
      BY <3>1
  <2> QED
    BY <2>1 DEF getAuthenticatorClientOptions, NoAuth
<1> HIDE DEF auth, got
<1>5. got.ok \in BOOLEAN
  BY <1>1, <1>2, <1>4
<1>6. Authenticates(config, client) /\ host.there /\ got.ok => got.options \ {"impersonate"} # {}
  BY <1>1, <1>3, Zenon
<1> QED
  BY <1>2, <1>5, <1>6, Zenon DEF got

(* What an exporter starts with.                                           *)
LEMMA ProjectsResolved ==
    ASSUME NEW config \in [project : STRING, impersonate : BOOLEAN, authenticator : STRING],
           NEW client \in ExporterClients, NEW host, IsHost(host), NEW creds, NEW failing
    PROVE  /\ ConfiguredIsEnough(config, client, host, creds, failing)
           /\ ProjectResolved(config, client, host, creds, failing)
<1> DEFINE auth == AuthOptions(config, client, host)
           given == [client EXCEPT !.options = auth.options]
           made == generateClientOptions(config, given, creds, failing)
           exporter == StartExporter(config, client, host, creds, failing)
           uses == UsesDefaultCredentials(config, given)
           project == ProjectToUse(config, given, creds)
           asks == Authenticates(config, client)
           own == IF config.impersonate THEN {"impersonate"} ELSE {}
<1>1. /\ given.endpoint = client.endpoint /\ given.insecure = client.insecure
      /\ given.options = auth.options
  BY DEF ExporterClients
<1>2. /\ ~asks => auth.ok /\ auth.options = client.options
      /\ asks /\ host.there /\ auth.ok => auth.options \ {"impersonate"} # {}
      /\ auth.ok \in BOOLEAN
  BY AuthenticatorGives
<1>3. client.given => ~asks
  BY DEF Authenticates
<1>4. "impersonate" \notin client.options
  BY DEF ExporterClients, OptionSets
<1> HIDE DEF auth, given, asks
<1>5. /\ made.ok <=> /\ Dials(client) => "grpc.NewClient" \notin failing
                     /\ uses => creds # Absent
                     /\ Impersonates(config, creds, failing)
                     /\ project # ""
      /\ made.project = project
      /\ made.dial = IF client.endpoint = "" THEN "default" ELSE IF client.insecure THEN "insecure" ELSE "endpoint"
      /\ made.options = auth.options \cup own
      /\ made = [ok |-> made.ok, project |-> made.project, dial |-> made.dial, options |-> made.options]
  BY <1>1 DEF generateClientOptions, Dials
<1>6. exporter = [made EXCEPT !.ok = made.ok /\ auth.ok]
  BY DEF StartExporter, given, auth
<1> HIDE DEF made
<1>7. /\ exporter.ok <=> made.ok /\ auth.ok
      /\ exporter.project = project /\ exporter.dial = made.dial /\ exporter.options = made.options
  BY <1>5, <1>6
<1> HIDE DEF exporter, own
<1>8. /\ config.project # "" => project = config.project /\ ~uses
      /\ uses <=> config.project = "" /\ (config.impersonate \/ (~client.insecure /\ auth.options = {}))
      /\ ~uses => project = config.project
      /\ uses /\ creds # Absent => project = creds
  BY <1>1 DEF UsesDefaultCredentials, ProjectToUse
<1> HIDE DEF uses, project
<1>9. ASSUME config.project # ""
      PROVE  /\ exporter.project = config.project
             /\ NewSDKExporter(config.project, creds) = exporter.project
             /\ failing = {} /\ ~config.impersonate /\ ~asks => exporter.ok
  <2>1. exporter.project = config.project /\ NewSDKExporter(config.project, creds) = exporter.project
    BY <1>7, <1>8, <1>9 DEF NewSDKExporter
  <2>2. ASSUME failing = {}, ~config.impersonate, ~asks PROVE exporter.ok
    <3>1. Impersonates(config, creds, failing)
      BY <2>2 DEF Impersonates
    <3>2. "grpc.NewClient" \notin failing
      BY <2>2
    <3> QED
      BY <1>2, <1>5, <1>7, <1>8, <1>9, <2>2, <3>1, <3>2, Zenon
  <2> QED
    BY <2>1, <2>2
<1>10. ASSUME client.given PROVE exporter.options \ {"impersonate"} = client.options
  BY <1>2, <1>3, <1>4, <1>5, <1>7, <1>10 DEF own
<1>11. ASSUME exporter.ok, asks, host.there PROVE exporter.options \ {"impersonate"} # {}
  BY <1>2, <1>5, <1>7, <1>11
<1>12. ASSUME exporter.ok PROVE exporter.project # ""
  BY <1>5, <1>7, <1>12
<1>13. ASSUME exporter.ok, config.project = ""
       PROVE  /\ exporter.project = NewSDKExporter("", creds)
              /\ config.impersonate \/ (exporter.dial # "insecure" /\ exporter.options = {})
  <2>1. uses /\ creds # Absent /\ project = creds /\ creds # ""
    BY <1>5, <1>7, <1>8, <1>13
  <2>2. NewSDKExporter("", creds) = creds
    BY <2>1 DEF NewSDKExporter
  <2>3. ~config.impersonate => ~client.insecure /\ auth.options = {}
    BY <1>8, <2>1
  <2>4. ~config.impersonate => exporter.dial # "insecure" /\ exporter.options = {}
    BY <1>5, <1>7, <2>3 DEF own
  <2> QED
    BY <1>7, <2>1, <2>2, <2>4
<1>14. ConfiguredIsEnough(config, client, host, creds, failing)
  BY <1>9, Zenon DEF ConfiguredIsEnough, exporter, asks
<1>15. ProjectResolved(config, client, host, creds, failing)
  BY <1>10, <1>11, <1>12, <1>13, Zenon DEF ProjectResolved, exporter, asks
<1> QED
  BY <1>14, <1>15

(* An exporter that starts with use_insecure and no endpoint starts as it  *)
(* does without use_insecure.                                              *)
LEMMA InsecureNeedsEndpoint ==
    ASSUME NEW config, NEW client \in ExporterClients, NEW host, NEW creds, NEW failing
    PROVE  InsecureAtEndpoint(config, client, host, creds, failing)
<1> DEFINE secure == [client EXCEPT !.insecure = FALSE]
           auth == AuthOptions(config, client, host)
           given(c) == [c EXCEPT !.options = auth.options]
           made(c) == generateClientOptions(config, given(c), creds, failing)
           Start(c) == [made(c) EXCEPT !.ok = @ /\ auth.ok]
<1>1. /\ secure.endpoint = client.endpoint /\ secure.given = client.given
      /\ secure.options = client.options /\ ~secure.insecure
  BY DEF ExporterClients
<1>2. AuthOptions(config, secure, host) = auth
  BY <1>1, Zenon DEF AuthOptions, Authenticates
<1>3. /\ StartExporter(config, client, host, creds, failing) = Start(client)
      /\ StartExporter(config, secure, host, creds, failing) = Start(secure)
  BY <1>2, Zenon DEF StartExporter
<1>4. \A c \in {client, secure} : /\ given(c).endpoint = c.endpoint
                                 /\ given(c).insecure = c.insecure
                                 /\ given(c).options = auth.options
  BY DEF ExporterClients
<1> SUFFICES ASSUME client.endpoint = "", Start(client).ok
             PROVE  Start(client) = Start(secure)
  BY <1>3, Zenon DEF InsecureAtEndpoint
<1> HIDE DEF given, auth
<1>5. made(client).ok
  <2>1. Start(client).ok = (made(client).ok /\ auth.ok)
    BY DEF generateClientOptions
  <2> QED
    BY <2>1
<1>6. /\ ProjectToUse(config, given(client), creds) # ""
      /\ UsesDefaultCredentials(config, given(client)) => creds # Absent
  BY <1>5 DEF generateClientOptions
<1>7. UsesDefaultCredentials(config, given(client)) = UsesDefaultCredentials(config, given(secure))
  <2>1. UsesDefaultCredentials(config, given(client)) \/ config.project # ""
    BY <1>6 DEF ProjectToUse
  <2> QED
    BY <1>1, <1>4, <2>1 DEF UsesDefaultCredentials
<1>8. ProjectToUse(config, given(client), creds) = ProjectToUse(config, given(secure), creds)
  BY <1>7, Zenon DEF ProjectToUse
<1>9. Dials(given(client)) = FALSE /\ Dials(given(secure)) = FALSE
  BY <1>1, <1>4 DEF Dials
<1>10. made(client) = made(secure)
  <2>1. given(client).endpoint = "" /\ given(secure).endpoint = ""
    BY <1>1, <1>4
  <2>2. given(client).options = given(secure).options
    BY <1>4
  <2> HIDE DEF secure
  <2> QED
    BY <1>7, <1>8, <1>9, <2>1, <2>2 DEF generateClientOptions
<1> QED
  BY <1>10, Zenon
-----------------------------------------------------------------------------
(* Computations: the invariants of the run.                                *)

(* The input that has been chosen is one of those there are.               *)
CInv == part \in DOMAIN Inputs /\ input \subseteq Inputs[part]

(* The input that has been chosen is one of those there are.               *)
LEMMA InputsChosen == ComputeSpec => []CInv
<1>1. ComputeInit => CInv
  BY DEF ComputeInit, CInv
<1>2. CInv /\ [Compute]_computeVars => CInv'
  BY DEF CInv, Compute, computeVars
<1> QED
  BY <1>1, <1>2, PTL DEF ComputeSpec

(* So are the inputs a property is about.                                  *)
LEMMA GivenInputs ==
    ASSUME CInv, NEW function
    PROVE  Given(function) \subseteq Inputs[function]
  BY DEF CInv, Given

(* However a log entry is split, its pieces are legal.                     *)
THEOREM PiecesStayLegal == ComputeSpec => []LogPiecesLegal
<1>1. ASSUME CInv PROVE LogPiecesLegal
  <2>1. ASSUME NEW x \in Given("split")
        PROVE  PiecesLegal(x.n, maxEntrySize, x.overhead, x.slips)
    <3>1. maxEntrySize \in Int /\ IsSplit(x)
      BY <1>1, <2>1, GivenInputs, InputsAssumption
    <3> QED
      BY <3>1, PiecesAreLegal DEF IsSplit
  <2>2. ASSUME NEW x \in Given("chars")
        PROVE  PiecesLegal(BytesOf(x.text), maxEntrySize, x.overhead, {})
    <3>1. maxEntrySize \in Int /\ x.text \in Seq(Nat) /\ x.overhead \in Nat \ {0}
      BY <1>1, <2>2, GivenInputs, InputsAssumption DEF IsText
    <3>2. BytesOf(x.text) \in Nat
      BY <3>1, BytesAreNumbers DEF BytesOf, ByteLen
    <3>3. {} \in SUBSET Inexact(BytesOf(x.text), SplitsFor(BytesOf(x.text), Room(maxEntrySize, x.overhead)))
      OBVIOUS
    <3> QED
      BY <3>1, <3>2, <3>3, PiecesAreLegal
  <2> QED
    BY <2>1, <2>2 DEF LogPiecesLegal
<1> QED
  BY InputsChosen, <1>1, PTL

(* Every log record is mapped faithfully.                                  *)
THEOREM EntriesStayFaithful == ComputeSpec => []LogEntriesFaithful
<1>1. ASSUME CInv PROVE LogEntriesFaithful
  <2>1. ASSUME NEW x \in Given("record")
        PROVE  /\ MappedAgainIsSame(x.r, x.cfg, x.labels, x.now, x.later)
               /\ ReportedAreErrors(x.r, x.cfg) /\ LabelsNotHidden(x.r, x.labels)
    <3>1. IsLogRecord(x.r) /\ x.now \in Int /\ x.later \in Int
      BY <1>1, <2>1, GivenInputs, InputsAssumption DEF IsMapped
    <3>2. MappedAgainIsSame(x.r, x.cfg, x.labels, x.now, x.later)
      BY <3>1, SameEntryAgain, Zenon
    <3>3. ReportedAreErrors(x.r, x.cfg)
      BY <3>1, ErrorsReported, Zenon
    <3>4. LabelsNotHidden(x.r, x.labels)
      BY LabelsKept, Zenon
    <3> QED
      BY <3>2, <3>3, <3>4, Zenon
  <2>2. ASSUME NEW x \in Given("int") PROVE QuotedIntsAreKept(x.n, x.half, x.wide)
    <3>1. IsNumber(x)
      BY <1>1, <2>2, GivenInputs, InputsAssumption
    <3> QED
      BY <3>1, NumbersKept DEF IsNumber
  <2> QED
    BY <2>1, <2>2, Zenon DEF LogEntriesFaithful
<1> QED
  BY InputsChosen, <1>1, PTL

(* What is told apart stays apart, for every resource and every metric.    *)
THEOREM ResourcesStayApart == ComputeSpec => []ResourcesToldApart
<1>1. ASSUME CInv PROVE ResourcesToldApart
  <2>1. ASSUME NEW x \in Given("resource")
        PROVE  /\ \A key \in DOMAIN x.attrs : InstancesToldApart(x.attrs, key, x.other)
               /\ ServiceIsNamed(x.attrs)
    <3>1. IsResource(x)
      BY <1>1, <2>1, GivenInputs, InputsAssumption
    <3>2. /\ Has(x.attrs, "k8s.pod.name") => x.attrs["k8s.pod.name"] # Unknown
          /\ Has(x.attrs, "gcp.resource_type") => x.attrs["gcp.resource_type"] # ""
          /\ GetString(x.attrs, "faas.name") # Unknown
      BY <3>1, Zenon DEF IsResource
    <3>3. ASSUME NEW key \in DOMAIN x.attrs PROVE InstancesToldApart(x.attrs, key, x.other)
      BY <3>2, InstancesKeptApart, Zenon
    <3>4. ServiceIsNamed(x.attrs)
      BY <3>2, ServicesNamed, Zenon
    <3> QED
      BY <3>3, <3>4, Zenon
  <2>2. ASSUME NEW m \in Given("name") PROVE NamesToldApart(m)
    <3>1. IsNamed(m)
      BY <1>1, <2>2, GivenInputs, InputsAssumption
    <3> QED
      BY <3>1, NamesKeptApart
  <2> QED
    BY <2>1, <2>2, Zenon DEF ResourcesToldApart
<1> QED
  BY InputsChosen, <1>1, PTL

(* Every series of every metric is legal under its descriptor.             *)
THEOREM SeriesStayDescribed == ComputeSpec => []SeriesAreDescribed
<1>1. ASSUME CInv PROVE SeriesAreDescribed
  <2>1. ASSUME NEW x \in Given("metric")
        PROVE  /\ DescriptorsFitSeries(x.m, x.extra) /\ ResourceLabelsWin(x.m, x.extra)
               /\ LabelsListed(x.m, x.extra)
    <3>1. IsMetricOf(x)
      BY <1>1, <2>1, GivenInputs, InputsAssumption
    <3>2. DescriptorsFitSeries(x.m, x.extra) /\ ResourceLabelsWin(x.m, x.extra)
      BY <3>1, MetricsFitDescriptors, Zenon DEF IsMetricOf
    <3> QED
      BY <3>2, EachLabelListed
  <2>2. ASSUME NEW t \in Given("interval") PROVE IntervalsNotEmpty(t[1], t[2])
    <3>1. t[1] \in Int /\ t[2] \in Int
      BY <1>1, <2>2, GivenInputs, InputsAssumption
    <3> QED
      BY <3>1, IntervalsLast
  <2> QED
    BY <2>1, <2>2, Zenon DEF SeriesAreDescribed
<1> QED
  BY InputsChosen, <1>1, PTL

(* No point of any histogram is lost.                                      *)
THEOREM DistributionsKeepPoints == ComputeSpec => []DistributionsAddUp
<1>1. ASSUME CInv PROVE DistributionsAddUp
  <2>1. \A p \in Given("histogram") : HistogramPoint(p)
    BY <1>1, GivenInputs, InputsAssumption
  <2>2. \A p \in Given("exponential") : ExponentialPoint(p)
    BY <1>1, GivenInputs, InputsAssumption
  <2> QED
    BY <2>1, <2>2, HistogramsAddUp, ExponentialsAddUp, Zenon DEF DistributionsAddUp
<1> QED
  BY InputsChosen, <1>1, PTL

(* Every trace context and every header survives the propagator.           *)
THEOREM TracesGoOn == ComputeSpec => []TraceContextSurvives
<1>1. ASSUME CInv PROVE TraceContextSurvives
  <2>1. SizesFit(spanDigits, spanLimit)
    BY InputsAssumption
  <2>2. \A x \in Given("context") : x.sc \in Contexts(spanLimit)
    BY <1>1, GivenInputs, InputsAssumption
  <2>3. \A x \in Given("header") : x.h \in Headers
    BY <1>1, GivenInputs, InputsAssumption
  <2> QED
    BY <2>1, <2>2, <2>3, ContextsSurvive, HeadersSurvive, Zenon DEF TraceContextSurvives
<1> QED
  BY InputsChosen, <1>1, PTL

(* Every environment and configuration is resolved in one order.           *)
THEOREM SettingsStayResolved == ComputeSpec => []SettingsResolved
<1>1. ASSUME CInv PROVE SettingsResolved
  <2>1. ASSUME NEW x \in Given("platform") PROVE PlatformDetected(x[1], x[2])
    <3>1. IsEnvironment(x[1])
      BY <1>1, <2>1, GivenInputs, InputsAssumption
    <3> QED
      BY <3>1, PlatformsDetected DEF IsEnvironment
  <2>2. ASSUME NEW parts \in Given("zone") PROVE ZonesAgree(parts)
    <3>1. parts \in Seq(Range(parts))
      BY <1>1, <2>2, GivenInputs, InputsAssumption DEF IsSequence
    <3> QED
      BY <3>1, LocationsAgree, Zenon
  <2>3. ASSUME NEW x \in Given("auth") PROVE ExtensionResolved(x.config, x.env, x.creds, x.env2, x.creds2)
    <3>1. IsExtension(x)
      BY <1>1, <2>3, GivenInputs, InputsAssumption
    <3> QED
      BY <3>1, ExtensionsResolved, Zenon DEF IsExtension
  <2>4. ASSUME NEW x \in Given("exporter")
        PROVE  /\ ConfiguredIsEnough(x.config, x.client, x.host, x.creds, x.failing)
               /\ ProjectResolved(x.config, x.client, x.host, x.creds, x.failing)
               /\ InsecureAtEndpoint(x.config, x.client, x.host, x.creds, x.failing)
    <3>1. IsExporter(x)
      BY <1>1, <2>4, GivenInputs, InputsAssumption
    <3>2. InsecureAtEndpoint(x.config, x.client, x.host, x.creds, x.failing)
      BY <3>1, InsecureNeedsEndpoint, Zenon DEF IsExporter
    <3> QED
      BY <3>1, <3>2, ProjectsResolved, Zenon DEF IsExporter
  <2>5. ASSUME NEW x \in Given("mapping") PROVE MappedKeysApart(x[1], x[2], x[3])
    <3>1. x[1] \in Seq(Range(x[1]))
      BY <1>1, <2>5, GivenInputs, InputsAssumption DEF IsSequence
    <3> QED
      BY <3>1, MappingsApart, Zenon
  <2> QED
    BY <2>1, <2>2, <2>3, <2>4, <2>5, Zenon DEF SettingsResolved
<1> QED
  BY InputsChosen, <1>1, PTL
=============================================================================
