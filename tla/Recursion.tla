------------------------------- MODULE Recursion -------------------------------
(***************************************************************************)
(* Numbers have a least one in each set of them, and functions on an       *)
(* interval of numbers can be defined by recursion: what the proofs about  *)
(* recursive functions of other modules need to know.                      *)
(***************************************************************************)
EXTENDS Integers, Sequences, FiniteSetTheorems, TLAPS

\* Intervals from 0 are finite sets, among which one is the smallest.
LEMMA LeastNumber ==
  ASSUME NEW S \in SUBSET Nat, S # {}
  PROVE  \E x \in S : \A y \in S : x <= y
<1>. DEFINE T == {0 .. x : x \in S}
            R == StrictSubsetOrdering(Nat)
            F == FiniteSubsetsOf(Nat)
<1>1. T \subseteq F
  <2>1. ASSUME NEW x \in S PROVE 0 .. x \in F
    <3>1. IsFiniteSet(0 .. x)
      <4>1. 0 \in Int /\ x \in Int
        OBVIOUS
      <4>. QED BY <4>1, FS_Interval
    <3>2. 0 .. x \in SUBSET Nat
      OBVIOUS
    <3>. QED BY <3>1, <3>2 DEF FiniteSubsetsOf
  <2>. QED BY <2>1
<1>2. IsWellFoundedOn(R, F)
  BY FS_StrictSubsetOrderingWellFounded
<1>3. T # {}
  OBVIOUS
<1>4. PICK s \in T : \A t \in T : <<t, s>> \notin R
  <2>. HIDE DEF T, R, F
  <2>. QED BY <1>1, <1>2, <1>3, WFMin
<1>5. PICK x \in S : s = 0 .. x
  BY <1>4
<1>6. ASSUME NEW y \in S PROVE x <= y
  <2>1. <<0 .. y, 0 .. x>> \notin R
    BY <1>4, <1>5
  <2>2. y < x => 0 .. y \subseteq 0 .. x /\ x \notin 0 .. y /\ x \in 0 .. x
    BY <1>5
  <2>3. 0 .. x \in SUBSET Nat /\ 0 .. y \in SUBSET Nat
    OBVIOUS
  <2>4. y < x => <<0 .. y, 0 .. x>> \in R
    BY <2>2, <2>3 DEF StrictSubsetOrdering
  <2>. QED BY <2>1, <2>4
<1>. QED BY <1>5, <1>6

\* Induction over numbers, for a set instead of a predicate.
LEMMA Induction ==
  ASSUME NEW S \in SUBSET Nat, 0 \in S, \A k \in S : k + 1 \in S
  PROVE  \A n \in Nat : n \in S
<1>. SUFFICES ASSUME NEW n \in Nat, n \notin S PROVE FALSE
  OBVIOUS
<1>1. PICK k \in Nat \ S : \A y \in Nat \ S : k <= y
  <2>. DEFINE T == Nat \ S
  <2>1. T \in SUBSET Nat /\ T # {}
    OBVIOUS
  <2>. HIDE DEF T
  <2>2. \E k \in T : \A y \in T : k <= y
    BY <2>1, LeastNumber
  <2>. QED BY <2>2 DEF T
<1>2. k # 0 /\ k - 1 \in Nat /\ ~(k <= k - 1) /\ (k - 1) + 1 = k
  OBVIOUS
<1>3. k - 1 \in S
  BY <1>1, <1>2
<1>. QED BY <1>2, <1>3

Iterates(g, S, a, N, step) ==
  g \in [0 .. N -> S] /\ g[0] = a /\ \A n \in 1 .. N : g[n] = step[n][g[n - 1]]

\* Steps that stay in a set can be iterated.
LEMMA Iteration ==
  ASSUME NEW S, NEW a \in S, NEW N \in Nat, NEW step \in [1 .. N -> [S -> S]]
  PROVE  \E g : Iterates(g, S, a, N, step)
<1>. DEFINE Upto(g, k) == g[0] = a /\ \A n \in 1 .. k : g[n] = step[n][g[n - 1]]
            T == {k \in Nat : k <= N => \E g \in [0 .. k -> S] : Upto(g, k)}
<1>1. 0 \in T
  <2>1. [i \in 0 .. 0 |-> a] \in [0 .. 0 -> S] /\ Upto([i \in 0 .. 0 |-> a], 0)
    OBVIOUS
  <2>. QED BY <2>1
<1>2. ASSUME NEW k \in T PROVE k + 1 \in T
  <2>. SUFFICES ASSUME k + 1 <= N PROVE \E g \in [0 .. k + 1 -> S] : Upto(g, k + 1)
    OBVIOUS
  <2>1. PICK f \in [0 .. k -> S] : Upto(f, k)
    OBVIOUS
  <2>. DEFINE g == [i \in 0 .. k + 1 |-> IF i = k + 1 THEN step[k + 1][f[k]] ELSE f[i]]
  <2>2. k \in Nat /\ k + 1 \in 1 .. N /\ k \in 0 .. k
    OBVIOUS
  <2>3. step[k + 1][f[k]] \in S
    BY <2>2
  <2>4. \A i \in 0 .. k : i \in 0 .. k + 1 /\ i # k + 1 /\ g[i] = f[i]
    BY <2>2
  <2>5. g \in [0 .. k + 1 -> S]
    BY <2>3
  <2>6. g[k + 1] = step[k + 1][f[k]] /\ g[0] = a
    BY <2>1, <2>2, <2>4
  <2>. HIDE DEF g
  <2>7. ASSUME NEW n \in 1 .. k + 1 PROVE g[n] = step[n][g[n - 1]]
    <3>1. CASE n = k + 1
      <4>1. n - 1 = k
        BY <2>2, <3>1
      <4>. QED BY <2>2, <2>4, <2>6, <3>1, <4>1
    <3>2. CASE n # k + 1
      <4>1. n \in 1 .. k /\ n \in 0 .. k /\ n - 1 \in 0 .. k
        BY <2>2, <3>2
      <4>. QED BY <2>1, <2>4, <4>1
    <3>. QED BY <3>1, <3>2
  <2>. QED BY <2>5, <2>6, <2>7
<1>. HIDE DEF T
<1>3. N \in T
  <2>1. T \in SUBSET Nat
    BY DEF T
  <2>. QED BY <1>1, <1>2, <2>1, Induction
<1>4. N <= N
  OBVIOUS
<1>. QED BY <1>3, <1>4 DEF T, Iterates

LEMMA Quotient ==
  ASSUME NEW base \in Nat, base >= 2, NEW n \in Nat
  PROVE  /\ n \div base \in Nat /\ n % base \in Nat /\ n % base < base
         /\ n = (n % base) + base * (n \div base)
         /\ n > 0 => n \div base < n
<1>1. n \div base \in Nat /\ n % base \in Nat /\ n % base < base
  OBVIOUS
<1>2. n = (n % base) + base * (n \div base)
  OBVIOUS
<1>3. n > 0 => n \div base < n
  OBVIOUS
<1>. QED BY <1>1, <1>2, <1>3

LEMMA QuotientBound ==
  ASSUME NEW base \in Nat, base >= 2, NEW n \in Nat, NEW b \in Nat, n < base * b
  PROVE  n \div base < b
  OBVIOUS

\* What is left of n behind each of its digits, to a base.
Lefts(left, base, n, N) ==
  left \in [0 .. N -> Nat] /\ left[0] = n /\ \A i \in 1 .. N : left[i] = left[i - 1] \div base

LEMMA LeftsExist ==
  ASSUME NEW base \in Nat, base >= 2, NEW n \in Nat, NEW N \in Nat,
         NEW left, left = CHOOSE f : f = [i \in 0 .. N |-> IF i = 0 THEN n ELSE f[i - 1] \div base]
  PROVE  Lefts(left, base, n, N)
<1>. DEFINE step == [i \in 1 .. N |-> [k \in Nat |-> k \div base]]
            P(f) == f = [i \in 0 .. N |-> IF i = 0 THEN n ELSE f[i - 1] \div base]
<1>1. step \in [1 .. N -> [Nat -> Nat]]
  BY Quotient
<1>2. PICK g : Iterates(g, Nat, n, N, step)
  <2>. HIDE DEF step
  <2>. QED BY <1>1, Iteration, Zenon
<1>3. /\ g \in [0 .. N -> Nat] /\ g[0] = n
      /\ \A i \in 1 .. N : g[i] = g[i - 1] \div base
  <2>1. g \in [0 .. N -> Nat] /\ g[0] = n /\ \A i \in 1 .. N : g[i] = step[i][g[i - 1]]
    BY <1>2, Zenon DEF Iterates
  <2>2. \A i \in 1 .. N : step[i][g[i - 1]] = g[i - 1] \div base
    BY <2>1
  <2>. QED BY <2>1, <2>2, Zenon
<1>4. P(g)
  BY <1>3
<1>5. P(left)
  <2>. HIDE DEF P
  <2>1. left = CHOOSE f : P(f)
    BY Zenon DEF P
  <2>. QED BY <1>4, <2>1, Zenon
<1>6. left = [i \in 0 .. N |-> IF i = 0 THEN n ELSE left[i - 1] \div base]
  BY <1>5
<1>7. DOMAIN left = 0 .. N /\ left[0] = n /\ \A i \in 1 .. N : left[i] = left[i - 1] \div base
  <2>. DEFINE f == [i \in 0 .. N |-> IF i = 0 THEN n ELSE left[i - 1] \div base]
  <2>1. DOMAIN f = 0 .. N /\ f[0] = n /\ \A i \in 1 .. N : f[i] = left[i - 1] \div base
    OBVIOUS
  <2>2. left = f
    BY <1>6
  <2>. HIDE DEF f
  <2>. QED BY <2>1, <2>2, Zenon
<1>8. \A i \in 0 .. N : left[i] = g[i]
  <2>. DEFINE T == {i \in Nat : i <= N => left[i] = g[i]}
  <2>1. 0 \in T
    BY <1>3, <1>7
  <2>2. ASSUME NEW k \in T PROVE k + 1 \in T
    <3>. SUFFICES ASSUME k + 1 <= N PROVE left[k + 1] = g[k + 1]
      OBVIOUS
    <3>1. k + 1 \in 1 .. N /\ (k + 1) - 1 = k /\ k <= N
      OBVIOUS
    <3>2. left[k] = g[k]
      BY <3>1
    <3>3. left[k + 1] = left[k] \div base /\ g[k + 1] = g[k] \div base
      BY <1>3, <1>7, <3>1
    <3>. QED BY <3>2, <3>3
  <2>. HIDE DEF T
  <2>3. T \in SUBSET Nat
    BY DEF T
  <2>4. \A k \in Nat : k \in T
    BY <2>1, <2>2, <2>3, Induction
  <2>5. \A i \in 0 .. N : i \in Nat /\ i <= N
    OBVIOUS
  <2>. QED BY <2>4, <2>5 DEF T
<1>9. left = [i \in 0 .. N |-> g[i]]
  <2>1. left = [i \in 0 .. N |-> left[i]]
    BY <1>6, <1>7
  <2>. QED BY <1>8, <2>1
<1>. QED BY <1>3, <1>7, <1>9 DEF Lefts

\* The number that digits stand for, the least significant first.
Adds(from, base, digit, N) ==
  from = [i \in 1 .. N + 1 |-> IF i > N THEN 0 ELSE digit[i] + base * from[i + 1]]

\* A function is such a sum if there is one at all.
IsTheSum(from, base, digit, N) ==
  (\E f : Adds(f, base, digit, N)) => Adds(from, base, digit, N)

AreDigits(digit, left, base, N) == \A i \in 1 .. N : digit[i] = left[i - 1] % base

\* Such a function exists, and it finds the number again whose digits they are.
LEMMA AddsUp ==
  ASSUME NEW base \in Nat, base >= 2, NEW n \in Nat, NEW N \in Nat, NEW left,
         Lefts(left, base, n, N), left[N] = 0,
         NEW digit, AreDigits(digit, left, base, N),
         NEW from, IsTheSum(from, base, digit, N)
  PROVE  from[1] = n
<1>. DEFINE g == [i \in 1 .. N + 1 |-> left[i - 1]]
<1>1. /\ left \in [0 .. N -> Nat] /\ left[0] = n
      /\ \A i \in 1 .. N : left[i] = left[i - 1] \div base
  BY DEF Lefts
<1>2. \A i \in 1 .. N : left[i - 1] = digit[i] + base * left[i]
  <2>1. ASSUME NEW i \in 1 .. N PROVE left[i - 1] = digit[i] + base * left[i]
    <3>1. left[i - 1] \in Nat
      BY <1>1
    <3>2. \A k \in Nat : k = (k % base) + base * (k \div base)
      BY Quotient
    <3>3. digit[i] = left[i - 1] % base /\ left[i] = left[i - 1] \div base
      BY <1>1 DEF AreDigits
    <3>. QED BY <3>1, <3>2, <3>3, Zenon
  <2>. QED BY <2>1
<1>3. Adds(g, base, digit, N)
  <2>1. ASSUME NEW i \in 1 .. N + 1
        PROVE  g[i] = IF i > N THEN 0 ELSE digit[i] + base * g[i + 1]
    <3>1. CASE i > N
      <4>1. i = N + 1 /\ g[i] = left[i - 1] /\ i - 1 = N
        BY <3>1
      <4>. QED BY <3>1, <4>1
    <3>2. CASE ~(i > N)
      <4>1. i \in 1 .. N /\ i + 1 \in 1 .. N + 1 /\ (i + 1) - 1 = i
        BY <3>2
      <4>2. g[i] = left[i - 1] /\ g[i + 1] = left[i]
        BY <4>1
      <4>. HIDE DEF g
      <4>3. g[i] = digit[i] + base * g[i + 1]
        BY <1>2, <4>1, <4>2, Zenon
      <4>. QED BY <3>2, <4>3, Zenon
    <3>. QED BY <3>1, <3>2, Zenon
  <2>2. g = [i \in 1 .. N + 1 |-> g[i]]
    OBVIOUS
  <2>. HIDE DEF g
  <2>. QED BY <2>1, <2>2, Zenon DEF Adds
<1>4. Adds(from, base, digit, N)
  <2>. HIDE DEF g
  <2>. QED BY <1>3, Zenon DEF IsTheSum
<1>5. /\ from[N + 1] = 0
      /\ \A i \in 1 .. N : from[i] = digit[i] + base * from[i + 1]
  <2>. DEFINE f == [i \in 1 .. N + 1 |-> IF i > N THEN 0 ELSE digit[i] + base * from[i + 1]]
  <2>1. from = f
    BY <1>4, Zenon DEF Adds
  <2>2. f[N + 1] = 0
    OBVIOUS
  <2>3. ASSUME NEW i \in 1 .. N PROVE f[i] = digit[i] + base * from[i + 1]
    <3>1. i \in 1 .. N + 1 /\ ~(i > N)
      OBVIOUS
    <3>. QED BY <3>1, Zenon
  <2>. HIDE DEF f
  <2>. QED BY <2>1, <2>2, <2>3, Zenon
<1>6. \A k \in 0 .. N : from[N + 1 - k] = left[N - k]
  <2>. DEFINE T == {k \in Nat : k <= N => from[N + 1 - k] = left[N - k]}
  <2>1. 0 \in T
    BY <1>5
  <2>2. ASSUME NEW k \in T PROVE k + 1 \in T
    <3>. SUFFICES ASSUME k + 1 <= N PROVE from[N + 1 - (k + 1)] = left[N - (k + 1)]
      OBVIOUS
    <3>. DEFINE i == N - k
    <3>1. /\ i \in 1 .. N /\ N + 1 - (k + 1) = i /\ N - (k + 1) = i - 1 /\ N + 1 - k = i + 1
          /\ k <= N
      OBVIOUS
    <3>2. from[i + 1] = left[i]
      BY <3>1
    <3>. HIDE DEF i
    <3>3. from[i] = digit[i] + base * from[i + 1]
      BY <1>5, <3>1, Zenon
    <3>4. left[i - 1] = digit[i] + base * left[i]
      BY <1>2, <3>1, Zenon
    <3>5. from[i] = left[i - 1]
      BY <3>2, <3>3, <3>4, Zenon
    <3>. QED BY <3>1, <3>5, Zenon
  <2>. HIDE DEF T
  <2>3. T \in SUBSET Nat
    BY DEF T
  <2>4. \A k \in Nat : k \in T
    BY <2>1, <2>2, <2>3, Induction
  <2>5. \A k \in 0 .. N : k \in Nat /\ k <= N
    OBVIOUS
  <2>. QED BY <2>4, <2>5 DEF T
<1>7. N \in 0 .. N /\ N + 1 - N = 1 /\ N - N = 0
  OBVIOUS
<1>8. from[N + 1 - N] = left[N - N]
  BY <1>6, <1>7, Zenon
<1>. QED BY <1>1, <1>7, <1>8, Zenon

\* Such a function, and where the number ends.
IsLeft(left, base, n) ==
  left = CHOOSE f : f = [i \in 0 .. n + 1 |-> IF i = 0 THEN n ELSE f[i - 1] \div base]

IsEnd(L, left, n) == L = CHOOSE i \in 1 .. n + 1 : left[i] = 0 /\ (i > 1 => left[i - 1] # 0)

RunsOut(left, base, n, L) ==
  \E part : /\ Lefts(part, base, n, L) /\ part[L] = 0
            /\ \A i \in 0 .. L : left[i] = part[i]

\* Behind the last digit of a number nothing is left, in front of it something is.
LEMMA DigitsEnd ==
  ASSUME NEW base \in Nat, base >= 2, NEW n \in Nat,
         NEW left, IsLeft(left, base, n), NEW L, IsEnd(L, left, n)
  PROVE  L \in 1 .. n + 1 /\ RunsOut(left, base, n, L)
<1>. DEFINE Ending(i) == left[i] = 0 /\ (i > 1 => left[i - 1] # 0)
<1>1. Lefts(left, base, n, n + 1)
  <2>1. n + 1 \in Nat
    OBVIOUS
  <2>2. left = CHOOSE f : f = [i \in 0 .. n + 1 |-> IF i = 0 THEN n ELSE f[i - 1] \div base]
    BY Zenon DEF IsLeft
  <2>. QED BY <2>1, <2>2, LeftsExist, Zenon
<1>2. /\ left \in [0 .. n + 1 -> Nat] /\ left[0] = n
      /\ \A i \in 1 .. n + 1 : left[i] = left[i - 1] \div base
  BY <1>1, Zenon DEF Lefts
<1>3. left[n] = 0 \/ left[n] + n <= n
  <2>. DEFINE T == {i \in Nat : i <= n => left[i] = 0 \/ left[i] + i <= n}
  <2>1. 0 \in T
    BY <1>2
  <2>2. ASSUME NEW k \in T PROVE k + 1 \in T
    <3>. SUFFICES ASSUME k + 1 <= n PROVE left[k + 1] = 0 \/ left[k + 1] + (k + 1) <= n
      OBVIOUS
    <3>. DEFINE a == left[k]
                b == left[k + 1]
    <3>1. k \in 0 .. n + 1 /\ k + 1 \in 1 .. n + 1 /\ k + 1 \in 0 .. n + 1 /\ (k + 1) - 1 = k /\ k <= n
      OBVIOUS
    <3>2. a \in Nat /\ b \in Nat /\ b = a \div base
      BY <1>2, <3>1
    <3>3. a = 0 \/ a + k <= n
      BY <3>1
    <3>. HIDE DEF a, b
    <3>4. a > 0 => b < a
      BY <3>2, Quotient
    <3>5. a = 0 => b = 0
      BY <3>2
    <3>6. b = 0 \/ b + (k + 1) <= n
      BY <3>2, <3>3, <3>4, <3>5
    <3>. QED BY <3>6 DEF b
  <2>. HIDE DEF T
  <2>3. T \in SUBSET Nat
    BY DEF T
  <2>4. n \in T
    BY <2>1, <2>2, <2>3, Induction
  <2>. QED BY <2>4 DEF T
<1>4. left[n + 1] = 0
  <2>1. left[n] \in Nat /\ n + 1 \in 1 .. n + 1 /\ (n + 1) - 1 = n
    BY <1>2
  <2>2. left[n] = 0
    BY <1>3, <2>1
  <2>3. 0 \div base = 0
    OBVIOUS
  <2>. QED BY <1>2, <2>1, <2>2, <2>3
<1>5. \E i \in 1 .. n + 1 : Ending(i)
  <2>. DEFINE S == {i \in 1 .. n + 1 : left[i] = 0}
  <2>1. S \in SUBSET Nat /\ n + 1 \in S
    BY <1>4
  <2>2. PICK i \in S : \A j \in S : i <= j
    <3>. HIDE DEF S
    <3>. QED BY <2>1, LeastNumber, Zenon
  <2>3. i > 1 => left[i - 1] # 0
    <3>. SUFFICES ASSUME i > 1, left[i - 1] = 0 PROVE FALSE
      OBVIOUS
    <3>1. i - 1 \in S /\ ~(i <= i - 1)
      OBVIOUS
    <3>. HIDE DEF S
    <3>. QED BY <2>2, <3>1, Zenon
  <2>. QED BY <2>3
<1>6. L \in 1 .. n + 1 /\ Ending(L)
  <2>1. L = CHOOSE i \in 1 .. n + 1 : Ending(i)
    BY Zenon DEF IsEnd
  <2>. HIDE DEF Ending
  <2>. QED BY <1>5, <2>1, Zenon
<1>. DEFINE part == [i \in 0 .. L |-> left[i]]
<1>7. L \in Nat /\ 0 .. L \subseteq 0 .. n + 1 /\ 1 .. L \subseteq 1 .. n + 1
  BY <1>6
<1>8. Lefts(part, base, n, L)
  <2>1. part \in [0 .. L -> Nat] /\ part[0] = n
    <3>1. ASSUME NEW i \in 0 .. L PROVE left[i] \in Nat
      BY <1>2, <1>7, <3>1
    <3>2. 0 \in 0 .. L
      BY <1>7
    <3>. QED BY <1>2, <3>1, <3>2
  <2>2. ASSUME NEW i \in 1 .. L PROVE part[i] = part[i - 1] \div base
    <3>1. i \in 0 .. L /\ i - 1 \in 0 .. L /\ i \in 1 .. n + 1
      BY <1>7
    <3>. QED BY <1>2, <3>1
  <2>. QED BY <2>1, <2>2 DEF Lefts
<1>9. part[L] = 0 /\ \A i \in 0 .. L : left[i] = part[i]
  BY <1>6, <1>7
<1>. HIDE DEF part, Ending
<1>10. Lefts(part, base, n, L) /\ part[L] = 0 /\ \A i \in 0 .. L : left[i] = part[i]
  BY <1>8, <1>9, Zenon
<1>. QED BY <1>6, <1>10, Zenon DEF RunsOut

\* Sequences of octets that each have a digit, to a base, and all but the last of
\* which are continued.
IsEncoding(octets, left, base, L) ==
  /\ octets \in Seq(Nat) /\ Len(octets) = L
  /\ \A i \in 1 .. L : /\ octets[i] % base = left[i - 1] % base
                       /\ octets[i] < base <=> i = L

AreOctets(octets, left, base, L) ==
  octets = [i \in 1 .. L |-> (left[i - 1] % base) + (IF i < L THEN base ELSE 0)]

LEMMA DigitIsKept ==
  ASSUME NEW base \in Nat, base >= 2, NEW a \in Nat
  PROVE  /\ (a % base) \in Nat /\ (a % base) + base \in Nat
         /\ ((a % base) + base) % base = a % base /\ (a % base) % base = a % base
         /\ ~((a % base) + base < base) /\ a % base < base
<1>. DEFINE r == a % base
<1>1. r \in Nat /\ r < base
  OBVIOUS
<1>. HIDE DEF r
<1>2. r % base = r /\ (r + base) % base = r /\ ~(r + base < base) /\ r + base \in Nat
  BY <1>1
<1>. QED BY <1>1, <1>2 DEF r

LEMMA EncodingIs ==
  ASSUME NEW base \in Nat, base >= 2, NEW L \in Nat, NEW left \in [0 .. L -> Nat],
         NEW octets, AreOctets(octets, left, base, L)
  PROVE  IsEncoding(octets, left, base, L)
<1>. DEFINE oct(i) == (left[i - 1] % base) + (IF i < L THEN base ELSE 0)
<1>1. ASSUME NEW i \in 1 .. L
      PROVE  /\ oct(i) \in Nat /\ oct(i) % base = left[i - 1] % base
             /\ oct(i) < base <=> i = L
  <2>. DEFINE a == left[i - 1]
  <2>1. a \in Nat /\ i \in Nat
    OBVIOUS
  <2>. HIDE DEF a
  <2>2. /\ (a % base) \in Nat /\ (a % base) + base \in Nat
        /\ ((a % base) + base) % base = a % base /\ (a % base) % base = a % base
        /\ ~((a % base) + base < base) /\ a % base < base
    BY <2>1, DigitIsKept, Zenon
  <2>3. CASE i < L
    <3>1. oct(i) = (a % base) + base
      BY <2>3 DEF a
    <3>2. i # L
      BY <2>1, <2>3
    <3>. HIDE DEF oct
    <3>. QED BY <2>2, <3>1, <3>2, Zenon DEF a
  <2>4. CASE ~(i < L)
    <3>1. oct(i) = a % base
      BY <2>2, <2>4 DEF a
    <3>2. i = L
      BY <2>1, <2>4
    <3>. HIDE DEF oct
    <3>. QED BY <2>2, <3>1, <3>2, Zenon DEF a
  <2>. QED BY <2>3, <2>4
<1>2. octets = [i \in 1 .. L |-> oct(i)]
  BY Zenon DEF AreOctets
<1>. HIDE DEF oct
<1>3. octets \in Seq(Nat) /\ Len(octets) = L /\ \A i \in 1 .. L : octets[i] = oct(i)
  BY <1>1, <1>2
<1>. QED BY <1>1, <1>3, Zenon DEF IsEncoding

BeginsWithOctets(s, octets, L) == \A i \in 1 .. L : s[i] = octets[i]

SumsDigits(from, s, base, L) ==
  from = CHOOSE f : f = [i \in 1 .. L + 1 |->
                           IF i > L THEN 0 ELSE (s[i] % base) + base * f[i + 1]]

\* The digits of such octets, wherever they lie, add up to the number again.
LEMMA EncodingIsRead ==
  ASSUME NEW base \in Nat, base >= 2, NEW n \in Nat, NEW L \in Nat, NEW left,
         Lefts(left, base, n, L), left[L] = 0,
         NEW octets, IsEncoding(octets, left, base, L),
         NEW s, BeginsWithOctets(s, octets, L),
         NEW from, SumsDigits(from, s, base, L)
  PROVE  from[1] = n
<1>. DEFINE digit == [i \in 1 .. L |-> s[i] % base]
            P(f) == f = [i \in 1 .. L + 1 |-> IF i > L THEN 0 ELSE (s[i] % base) + base * f[i + 1]]
<1>1. \A f : P(f) <=> Adds(f, base, digit, L)
  <2>. TAKE f
  <2>. DEFINE one == [i \in 1 .. L + 1 |-> IF i > L THEN 0 ELSE (s[i] % base) + base * f[i + 1]]
              two == [i \in 1 .. L + 1 |-> IF i > L THEN 0 ELSE digit[i] + base * f[i + 1]]
  <2>1. ASSUME NEW i \in 1 .. L + 1 PROVE one[i] = two[i]
    <3>1. i > L \/ i \in 1 .. L
      OBVIOUS
    <3>. QED BY <3>1
  <2>2. one = two
    <3>1. one = [i \in 1 .. L + 1 |-> one[i]] /\ two = [i \in 1 .. L + 1 |-> two[i]]
      OBVIOUS
    <3>. HIDE DEF one, two
    <3>. QED BY <2>1, <3>1
  <2>3. (P(f) <=> f = one) /\ (Adds(f, base, digit, L) <=> f = two)
    <3>. HIDE DEF digit
    <3>. QED BY Zenon DEF Adds
  <2>. HIDE DEF one, two, P
  <2>. QED BY <2>2, <2>3, Zenon
<1>2. AreDigits(digit, left, base, L)
  <2>1. ASSUME NEW i \in 1 .. L PROVE digit[i] = left[i - 1] % base
    <3>1. digit[i] = s[i] % base
      OBVIOUS
    <3>. HIDE DEF digit
    <3>. QED BY <3>1, Zenon DEF IsEncoding, BeginsWithOctets
  <2>. HIDE DEF digit
  <2>. QED BY <2>1, Zenon DEF AreDigits
<1>3. IsTheSum(from, base, digit, L)
  <2>. HIDE DEF P, digit
  <2>1. from = CHOOSE f : P(f)
    BY Zenon DEF P, SumsDigits
  <2>. QED BY <1>1, <2>1, Zenon DEF IsTheSum
<1>. HIDE DEF digit, P
<1>4. base \in Nat /\ base >= 2 /\ n \in Nat /\ L \in Nat /\ Lefts(left, base, n, L) /\ left[L] = 0
  OBVIOUS
<1>. QED BY <1>2, <1>3, <1>4, AddsUp

(***************************************************************************)
(* SumsUp of digits and powers, and which sums are below a power.            *)
(***************************************************************************)

\* The powers of a base.
Powers(power, base, N) ==
  power \in [0 .. N -> Nat] /\ power[0] = 1 /\ \A k \in 1 .. N : power[k] = base * power[k - 1]

ArePowers(power, base, N) ==
  power = CHOOSE f : f = [i \in 0 .. N |-> IF i = 0 THEN 1 ELSE base * f[i - 1]]

LEMMA PowersExist ==
  ASSUME NEW base \in Nat, NEW N \in Nat, NEW power, ArePowers(power, base, N)
  PROVE  Powers(power, base, N)
<1>. DEFINE step == [i \in 1 .. N |-> [k \in Nat |-> base * k]]
            P(f) == f = [i \in 0 .. N |-> IF i = 0 THEN 1 ELSE base * f[i - 1]]
<1>1. step \in [1 .. N -> [Nat -> Nat]]
  OBVIOUS
<1>2. PICK g : Iterates(g, Nat, 1, N, step)
  <2>1. 1 \in Nat
    OBVIOUS
  <2>. HIDE DEF step
  <2>. QED BY <1>1, <2>1, Iteration, Zenon
<1>3. /\ g \in [0 .. N -> Nat] /\ g[0] = 1
      /\ \A i \in 1 .. N : g[i] = base * g[i - 1]
  <2>1. g \in [0 .. N -> Nat] /\ g[0] = 1 /\ \A i \in 1 .. N : g[i] = step[i][g[i - 1]]
    BY <1>2, Zenon DEF Iterates
  <2>2. \A i \in 1 .. N : step[i][g[i - 1]] = base * g[i - 1]
    BY <2>1
  <2>. QED BY <2>1, <2>2, Zenon
<1>4. P(g)
  BY <1>3
<1>5. P(power)
  <2>. HIDE DEF P
  <2>1. power = CHOOSE f : P(f)
    BY Zenon DEF P, ArePowers
  <2>. QED BY <1>4, <2>1, Zenon
<1>6. DOMAIN power = 0 .. N /\ power[0] = 1 /\ \A i \in 1 .. N : power[i] = base * power[i - 1]
  <2>. DEFINE f == [i \in 0 .. N |-> IF i = 0 THEN 1 ELSE base * power[i - 1]]
  <2>1. DOMAIN f = 0 .. N /\ f[0] = 1 /\ \A i \in 1 .. N : f[i] = base * power[i - 1]
    OBVIOUS
  <2>2. power = f
    BY <1>5
  <2>. HIDE DEF f
  <2>. QED BY <2>1, <2>2, Zenon
<1>. DEFINE T == {i \in Nat : i <= N => power[i] \in Nat}
<1>7. 0 \in T
  BY <1>6
<1>8. ASSUME NEW k \in T PROVE k + 1 \in T
  <2>. SUFFICES ASSUME k + 1 <= N PROVE power[k + 1] \in Nat
    OBVIOUS
  <2>1. k + 1 \in 1 .. N /\ (k + 1) - 1 = k /\ power[k] \in Nat
    OBVIOUS
  <2>2. power[k + 1] = base * power[k]
    BY <1>6, <2>1
  <2>. QED BY <2>1, <2>2
<1>9. \A i \in 0 .. N : power[i] \in Nat
  <2>1. T \in SUBSET Nat
    OBVIOUS
  <2>. HIDE DEF T
  <2>2. \A k \in Nat : k \in T
    BY <1>7, <1>8, <2>1, Induction
  <2>3. \A i \in 0 .. N : i \in Nat /\ i <= N
    OBVIOUS
  <2>. QED BY <2>2, <2>3 DEF T
<1>10. power \in [0 .. N -> Nat]
  <2>. DEFINE h == [i \in 0 .. N |-> power[i]]
  <2>1. h \in [0 .. N -> Nat]
    BY <1>9
  <2>2. power = h
    <3>1. power = [i \in 0 .. N |-> IF i = 0 THEN 1 ELSE base * power[i - 1]]
      BY <1>5
    <3>. QED BY <1>6, <3>1
  <2>. HIDE DEF h
  <2>. QED BY <2>1, <2>2, Zenon
<1>. QED BY <1>6, <1>10, Zenon DEF Powers

\* A number with one more digit is below the next power just if the number was
\* below the power; whatever the sign.
LEMMA OneMoreDigit ==
  ASSUME NEW base \in Nat, base >= 2, NEW d \in 0 .. base - 1, NEW a \in Int, NEW c \in Int
  PROVE  d + base * a < base * c <=> a < c
<1>1. CASE a < c
  <2>1. a <= c - 1
    BY <1>1
  <2>2. base * a <= base * (c - 1)
    BY <2>1
  <2>3. base * (c - 1) = base * c - base
    OBVIOUS
  <2>4. base * a \in Int /\ base * c \in Int
    OBVIOUS
  <2>. QED BY <1>1, <2>2, <2>3, <2>4
<1>2. CASE ~(a < c)
  <2>1. base * a >= base * c
    BY <1>2
  <2>2. base * a \in Int /\ base * c \in Int
    OBVIOUS
  <2>. QED BY <1>2, <2>1, <2>2
<1>. QED BY <1>1, <1>2

\* Each digit is added to base times the sum of those above it.
SumsUp(s, base, digit, N) ==
  s \in [1 .. N + 1 -> Int] /\ \A i \in 1 .. N : s[i] = digit[i] + base * s[i + 1]

DigitsTo(digit, base, N) == \A i \in 1 .. N : digit[i] \in 0 .. base - 1

\* The sum that starts with 0 exists.
LEMMA SumExists ==
  ASSUME NEW base \in Nat, NEW N \in Nat, NEW digit, DigitsTo(digit, base, N),
         NEW from, IsTheSum(from, base, digit, N)
  PROVE  SumsUp(from, base, digit, N) /\ from[N + 1] = 0 /\ from[1] \in Nat
<1>. DEFINE step == [n \in 1 .. N |-> [a \in Nat |-> digit[N + 1 - n] + base * a]]
<1>1. step \in [1 .. N -> [Nat -> Nat]]
  <2>1. ASSUME NEW n \in 1 .. N PROVE digit[N + 1 - n] \in Nat
    <3>1. N + 1 - n \in 1 .. N
      OBVIOUS
    <3>. QED BY <3>1 DEF DigitsTo
  <2>2. ASSUME NEW n \in 1 .. N, NEW a \in Nat PROVE digit[N + 1 - n] + base * a \in Nat
    <3>1. digit[N + 1 - n] \in Nat /\ base * a \in Nat
      BY <2>1
    <3>. QED BY <3>1
  <2>. QED BY <2>2
<1>2. PICK g : Iterates(g, Nat, 0, N, step)
  <2>1. 0 \in Nat
    OBVIOUS
  <2>. HIDE DEF step
  <2>. QED BY <1>1, <2>1, Iteration, Zenon
<1>3. g \in [0 .. N -> Nat] /\ g[0] = 0 /\ \A n \in 1 .. N : g[n] = digit[N + 1 - n] + base * g[n - 1]
  <2>1. g \in [0 .. N -> Nat] /\ g[0] = 0 /\ \A n \in 1 .. N : g[n] = step[n][g[n - 1]]
    BY <1>2, Zenon DEF Iterates
  <2>2. \A n \in 1 .. N : step[n][g[n - 1]] = digit[N + 1 - n] + base * g[n - 1]
    BY <2>1
  <2>. QED BY <2>1, <2>2, Zenon
<1>. HIDE DEF step
<1>. DEFINE h == [i \in 1 .. N + 1 |-> g[N + 1 - i]]
<1>4. h[N + 1] = 0 /\ \A i \in 1 .. N + 1 : h[i] \in Nat
  BY <1>3
<1>5. ASSUME NEW i \in 1 .. N PROVE h[i] = digit[i] + base * h[i + 1]
  <2>. DEFINE n == N + 1 - i
  <2>1. n \in 1 .. N /\ N + 1 - n = i /\ n - 1 = N + 1 - (i + 1) /\ i \in 1 .. N + 1 /\ i + 1 \in 1 .. N + 1
    OBVIOUS
  <2>2. h[i] = g[n] /\ h[i + 1] = g[n - 1]
    BY <2>1
  <2>. HIDE DEF n, h
  <2>3. g[n] = digit[N + 1 - n] + base * g[n - 1]
    BY <1>3, <2>1, Zenon
  <2>. QED BY <2>1, <2>2, <2>3, Zenon
<1>6. Adds(h, base, digit, N)
  <2>1. ASSUME NEW i \in 1 .. N + 1
        PROVE  h[i] = IF i > N THEN 0 ELSE digit[i] + base * h[i + 1]
    <3>1. CASE i > N
      <4>1. i = N + 1
        BY <3>1
      <4>. HIDE DEF h
      <4>. QED BY <1>4, <3>1, <4>1, Zenon
    <3>2. CASE ~(i > N)
      <4>1. i \in 1 .. N
        BY <3>2
      <4>. HIDE DEF h
      <4>. QED BY <1>5, <3>2, <4>1, Zenon
    <3>. QED BY <3>1, <3>2, Zenon
  <2>2. h = [i \in 1 .. N + 1 |-> h[i]]
    OBVIOUS
  <2>. HIDE DEF h
  <2>. QED BY <2>1, <2>2, Zenon DEF Adds
<1>. HIDE DEF h
<1>7. Adds(from, base, digit, N)
  BY <1>6, Zenon DEF IsTheSum
<1>8. /\ DOMAIN from = 1 .. N + 1 /\ from[N + 1] = 0
      /\ \A i \in 1 .. N : from[i] = digit[i] + base * from[i + 1]
      /\ from = [i \in 1 .. N + 1 |-> from[i]]
  <2>. DEFINE f == [i \in 1 .. N + 1 |-> IF i > N THEN 0 ELSE digit[i] + base * from[i + 1]]
  <2>1. from = f
    BY <1>7, Zenon DEF Adds
  <2>2. f[N + 1] = 0 /\ DOMAIN f = 1 .. N + 1 /\ f = [i \in 1 .. N + 1 |-> f[i]]
    OBVIOUS
  <2>3. ASSUME NEW i \in 1 .. N PROVE f[i] = digit[i] + base * from[i + 1]
    <3>1. i \in 1 .. N + 1 /\ ~(i > N)
      OBVIOUS
    <3>. QED BY <3>1, Zenon
  <2>. HIDE DEF f
  <2>. QED BY <2>1, <2>2, <2>3, Zenon
<1>. DEFINE T == {k \in Nat : k <= N => from[N + 1 - k] \in Nat}
<1>9. 0 \in T
  BY <1>8
<1>10. ASSUME NEW k \in T PROVE k + 1 \in T
  <2>. SUFFICES ASSUME k + 1 <= N PROVE from[N + 1 - (k + 1)] \in Nat
    OBVIOUS
  <2>. DEFINE i == N - k
  <2>1. i \in 1 .. N /\ N + 1 - (k + 1) = i /\ N + 1 - k = i + 1 /\ k <= N
    OBVIOUS
  <2>2. from[i + 1] \in Nat
    BY <2>1
  <2>. HIDE DEF i
  <2>3. digit[i] \in Nat
    BY <2>1 DEF DigitsTo
  <2>4. base * from[i + 1] \in Nat
    BY <2>2
  <2>5. from[i] = digit[i] + base * from[i + 1]
    BY <1>8, <2>1, Zenon
  <2>6. from[i] \in Nat
    BY <2>3, <2>4, <2>5
  <2>. QED BY <2>1, <2>6
<1>11. \A i \in 1 .. N + 1 : from[i] \in Nat
  <2>1. T \in SUBSET Nat
    OBVIOUS
  <2>2. \A i \in 1 .. N + 1 : N + 1 - i \in Nat /\ N + 1 - i <= N /\ N + 1 - (N + 1 - i) = i
    OBVIOUS
  <2>. HIDE DEF T
  <2>3. \A k \in Nat : k \in T
    BY <1>9, <1>10, <2>1, Induction
  <2>4. ASSUME NEW i \in 1 .. N + 1 PROVE from[N + 1 - (N + 1 - i)] \in Nat
    BY <2>2, <2>3, Zenon DEF T
  <2>. QED BY <2>2, <2>4
<1>12. from \in [1 .. N + 1 -> Int]
  <2>. DEFINE h2 == [i \in 1 .. N + 1 |-> from[i]]
  <2>1. h2 \in [1 .. N + 1 -> Int]
    BY <1>11
  <2>. HIDE DEF h2
  <2>. QED BY <1>8, <2>1, Zenon DEF h2
<1>13. from[1] \in Nat
  <2>1. 1 \in 1 .. N + 1
    OBVIOUS
  <2>. QED BY <1>11, <2>1, Zenon
<1>. QED BY <1>8, <1>12, <1>13, Zenon DEF SumsUp

\* The lowest w digits do not matter to whether a sum is below a multiple of the
\* w-th power.
LEMMA BelowPower ==
  ASSUME NEW base \in Nat, base >= 2, NEW N \in Nat, NEW digit, DigitsTo(digit, base, N),
         NEW s, SumsUp(s, base, digit, N), NEW K \in Nat, NEW power, Powers(power, base, K),
         NEW w \in 0 .. N, w <= K, NEW b \in Int
  PROVE  s[1] < b * power[w] <=> s[w + 1] < b
<1>1. s \in [1 .. N + 1 -> Int] /\ \A i \in 1 .. N : s[i] = digit[i] + base * s[i + 1]
  BY DEF SumsUp
<1>2. power \in [0 .. K -> Nat] /\ power[0] = 1 /\ \A k \in 1 .. K : power[k] = base * power[k - 1]
  BY DEF Powers
<1>. DEFINE T == {k \in Nat : k <= w => (s[w + 1 - k] < b * power[k] <=> s[w + 1] < b)}
<1>3. 0 \in T
  <2>1. b * power[0] = b /\ w + 1 - 0 = w + 1
    BY <1>2
  <2>. QED BY <2>1
<1>4. ASSUME NEW k \in T PROVE k + 1 \in T
  <2>. SUFFICES ASSUME k + 1 <= w
                PROVE  s[w + 1 - (k + 1)] < b * power[k + 1] <=> s[w + 1] < b
    OBVIOUS
  <2>. DEFINE i == w - k
              c == b * power[k]
  <2>1. /\ i \in 1 .. N /\ w + 1 - (k + 1) = i /\ w + 1 - k = i + 1 /\ k <= w
        /\ k + 1 \in 1 .. K /\ (k + 1) - 1 = k /\ k \in 0 .. K /\ i + 1 \in 1 .. N + 1
    OBVIOUS
  <2>2. s[i + 1] < c <=> s[w + 1] < b
    BY <2>1
  <2>. HIDE DEF i
  <2>3. power[k] \in Nat /\ power[k + 1] = base * power[k]
    BY <1>2, <2>1
  <2>4. c \in Int /\ b * power[k + 1] = base * c
    BY <2>3
  <2>. HIDE DEF c
  <2>5. digit[i] \in 0 .. base - 1 /\ s[i + 1] \in Int /\ s[i] = digit[i] + base * s[i + 1]
    BY <1>1, <2>1 DEF DigitsTo
  <2>6. digit[i] + base * s[i + 1] < base * c <=> s[i + 1] < c
    BY <2>4, <2>5, OneMoreDigit
  <2>7. s[i] < base * c <=> s[i + 1] < c
    BY <2>5, <2>6, Zenon
  <2>8. s[i] < b * power[k + 1] <=> s[w + 1] < b
    BY <2>2, <2>4, <2>7, Zenon
  <2>. QED BY <2>1, <2>8, Zenon
<1>5. w \in T
  <2>1. T \in SUBSET Nat
    OBVIOUS
  <2>. HIDE DEF T
  <2>2. w \in Nat
    OBVIOUS
  <2>. QED BY <1>3, <1>4, <2>1, <2>2, Induction
<1>6. w <= w /\ w + 1 - w = 1
  OBVIOUS
<1>. QED BY <1>5, <1>6

\* The digits of 0 and, in two's complement, of -1.
Filling(t, base) == IF t = 0 THEN 0 ELSE base - 1

LEMMA FillingDigit ==
  ASSUME NEW base \in Nat, base >= 2, NEW d \in 0 .. base - 1, NEW a \in Int, NEW t \in {0, -1}
  PROVE  d + base * a = t <=> d = Filling(t, base) /\ a = t
<1>1. a >= 1 => base * a >= base
  OBVIOUS
<1>2. a <= -2 => base * a <= -2 * base
  OBVIOUS
<1>3. base * a \in Int /\ (a = 0 => base * a = 0) /\ (a = -1 => base * a = -base)
  OBVIOUS
<1>4. a >= 1 \/ a <= -2 \/ a = 0 \/ a = -1
  OBVIOUS
<1>. DEFINE m == base * a
<1>5. /\ a >= 1 => m >= base
      /\ a <= -2 => m <= -2 * base
      /\ m \in Int /\ (a = 0 => m = 0) /\ (a = -1 => m = -base)
  BY <1>1, <1>2, <1>3
<1>. HIDE DEF m
<1>6. d + m = t <=> d = Filling(t, base) /\ a = t
  <2>1. CASE t = 0
    BY <1>4, <1>5, <2>1 DEF Filling
  <2>2. CASE t = -1
    BY <1>4, <1>5, <2>2 DEF Filling
  <2>. QED BY <2>1, <2>2
<1>. QED BY <1>6 DEF m

IsFilled(s, digit, w, N, base, t) ==
  s[N + 1] = t /\ \A i \in w + 1 .. N : digit[i] = Filling(t, base)

\* A sum is 0, or -1, just if all of its digits are those of it.
LEMMA FilledWith ==
  ASSUME NEW base \in Nat, base >= 2, NEW N \in Nat, NEW digit, DigitsTo(digit, base, N),
         NEW s, SumsUp(s, base, digit, N), NEW w \in 0 .. N, NEW t \in {0, -1}
  PROVE  s[w + 1] = t <=> IsFilled(s, digit, w, N, base, t)
<1>1. s \in [1 .. N + 1 -> Int] /\ \A i \in 1 .. N : s[i] = digit[i] + base * s[i + 1]
  BY DEF SumsUp
<1>. DEFINE f == Filling(t, base)
            Above(i) == \A j \in i .. N : digit[j] = f
            T == {k \in Nat : k <= N => (s[N + 1 - k] = t <=> s[N + 1] = t /\ Above(N + 1 - k))}
<1>. HIDE DEF f
<1>2. 0 \in T
  <2>1. N + 1 - 0 = N + 1 /\ Above(N + 1)
    OBVIOUS
  <2>. QED BY <2>1
<1>3. ASSUME NEW k \in T PROVE k + 1 \in T
  <2>. SUFFICES ASSUME k + 1 <= N
                PROVE  s[N + 1 - (k + 1)] = t <=> s[N + 1] = t /\ Above(N + 1 - (k + 1))
    OBVIOUS
  <2>. DEFINE i == N - k
  <2>1. i \in 1 .. N /\ N + 1 - (k + 1) = i /\ N + 1 - k = i + 1 /\ k <= N /\ i + 1 \in 1 .. N + 1
    OBVIOUS
  <2>2. s[i + 1] = t <=> s[N + 1] = t /\ Above(i + 1)
    BY <2>1
  <2>. HIDE DEF i
  <2>3. digit[i] \in 0 .. base - 1 /\ s[i + 1] \in Int /\ s[i] = digit[i] + base * s[i + 1]
    BY <1>1, <2>1 DEF DigitsTo
  <2>4. s[i] = t <=> digit[i] = f /\ s[i + 1] = t
    <3>. DEFINE d == digit[i]
                a == s[i + 1]
    <3>1. d \in 0 .. base - 1 /\ a \in Int
      BY <2>3, Zenon
    <3>. HIDE DEF d, a
    <3>2. d + base * a = t <=> d = f /\ a = t
      BY <3>1, FillingDigit DEF f
    <3>. QED BY <2>3, <3>2, Zenon DEF d, a
  <2>5. Above(i) <=> digit[i] = f /\ Above(i + 1)
    <3>1. \A j \in i .. N : j = i \/ j \in i + 1 .. N
      BY <2>1
    <3>2. i \in i .. N /\ \A j \in i + 1 .. N : j \in i .. N
      BY <2>1
    <3>. QED BY <3>1, <3>2, Zenon
  <2>. HIDE DEF Above
  <2>6. s[i] = t <=> s[N + 1] = t /\ Above(i)
    BY <2>2, <2>4, <2>5, Zenon
  <2>. QED BY <2>1, <2>6, Zenon
<1>4. N - w \in T
  <2>1. T \in SUBSET Nat
    OBVIOUS
  <2>. HIDE DEF T
  <2>2. N - w \in Nat
    OBVIOUS
  <2>. QED BY <1>2, <1>3, <2>1, <2>2, Induction
<1>5. N - w <= N /\ N + 1 - (N - w) = w + 1
  OBVIOUS
<1>6. s[w + 1] = t <=> s[N + 1] = t /\ Above(w + 1)
  <2>. HIDE DEF Above
  <2>. QED BY <1>4, <1>5
<1>7. IsFilled(s, digit, w, N, base, t) <=> s[N + 1] = t /\ Above(w + 1)
  BY Zenon DEF f, IsFilled
<1>. HIDE DEF Above
<1>. QED BY <1>6, <1>7, Zenon
================================================================================
