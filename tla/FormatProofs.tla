------------------------------ MODULE FormatProofs ------------------------------
(***************************************************************************)
(* Proofs about the formats: SLIP framing, frames with a length in front,  *)
(* and s-expressions.                                                      *)
(*                                                                         *)
(* Of SLIP framing, for frames of every length and every set of octets:    *)
(* the decoder finds the ends of frames again, and a frame nothing happens *)
(* to is returned once and as it was sent.                                 *)
(*                                                                         *)
(* What is still to come of a frame is the end of its encoding (Remains).  *)
(* No octet of an encoded payload is a delimiter, so that a decoder that   *)
(* is inside of a frame stays there until its end (InFrame); and while     *)
(* nothing happens to the frame, the sink holds a prefix of it and the     *)
(* decoder is where the encoder was behind that prefix (Follows).          *)
(***************************************************************************)
EXTENDS Slip, LengthPrefix, SExpression, Recursion, SequenceTheorems

Encodes(g, payload) ==
  g = [n \in 0 .. Len(payload) |-> IF n = 0 THEN <<>> ELSE g[n - 1] \o EncodeOctet(payload[n])]

\* The octets that stand for the first n ones of a payload.
Body(payload) == CHOOSE g : Encodes(g, payload)

Total    == Len(Encode(frame))
Position == Total - Len(todo)

Remains ==
  /\ Len(todo) <= Total
  /\ \A j \in 1 .. Len(todo) : todo[j] = Encode(frame)[Position + j]

AtHome  == state = Home /\ ~escaped /\ sink = <<>>
InFrame == state \in {"NORMAL", "SEARCH_FOR_END"}

\* The decoder has got what stands for the first n octets of the frame, and one
\* octet more if it waits for the one after ESC.
Follows ==
  /\ state = "NORMAL" /\ got = "nothing"
  /\ \E n \in 0 .. Len(frame) :
       /\ sink = SubSeq(frame, 1, n)
       /\ Position = Len(Opening) + Len(Body(frame)[n]) + (IF escaped THEN 1 ELSE 0)
       /\ escaped => n < Len(frame) /\ frame[n + 1] \in {"ESC", "EOF"}

\* Only inside of a frame that may be a sound one there are octets in the sink.
Calm    == state # "NORMAL" => ~escaped /\ sink = <<>>
NoStart == ~withsof => state # "SEARCH_FOR_START"

\* As long as the decoder knows where frames end, it is inside of a frame when the
\* line is.  Without a delimiter in front that is from when a frame is on its way.
Knows ==
  aligned => IF todo = <<>> \/ (withsof /\ Position = 0) THEN AtHome ELSE InFrame

\* A frame that arrives whole is found, wherever the decoder was when it began.
Finds == sound /\ withsof /\ Position >= 2 /\ todo # <<>> => InFrame

\* A frame the decoder was ready for is stored octet by octet, and then returned.
Returns ==
  sound /\ begun =>
    IF todo = <<>> THEN got = "frame"
    ELSE IF withsof /\ Position = 0 THEN AtHome /\ got = "nothing"
    ELSE Follows

\* The inductive invariant.
SlipInv == TypeOK /\ Remains /\ Calm /\ NoStart /\ Knows /\ Finds /\ Returns


(***************************************************************************)
(* The encoder.                                                            *)
(***************************************************************************)

Inner == Octet \ {"EOF"}

LEMMA OctetsDiffer ==
  /\ "EOF" \in Octet /\ "ESC" \in Octet /\ Plain \subseteq Octet
  /\ "ESC_EOF" \in Plain /\ "ESC_ESC" \in Plain /\ "EOF" \notin Plain /\ "ESC" \notin Plain
  /\ \A octet \in Octet : octet \in Plain \/ octet = "EOF" \/ octet = "ESC"
  BY PlainAssumption DEF Octet

LEMMA Tuples ==
  ASSUME NEW S, NEW a \in S, NEW b \in S
  PROVE  /\ <<a>> \in Seq(S) /\ Len(<<a>>) = 1 /\ <<a>>[1] = a
         /\ <<a, b>> \in Seq(S) /\ Len(<<a, b>>) = 2 /\ <<a, b>>[1] = a /\ <<a, b>>[2] = b
  OBVIOUS

LEMMA EncodedOctet ==
  ASSUME NEW octet \in Octet
  PROVE  /\ EncodeOctet(octet) \in Seq(Inner)
         /\ Len(EncodeOctet(octet)) = (IF octet \in Plain THEN 1 ELSE 2)
         /\ octet \in Plain => EncodeOctet(octet)[1] = octet
         /\ octet = "EOF" => EncodeOctet(octet)[1] = "ESC" /\ EncodeOctet(octet)[2] = "ESC_EOF"
         /\ octet = "ESC" => EncodeOctet(octet)[1] = "ESC" /\ EncodeOctet(octet)[2] = "ESC_ESC"
<1>1. "ESC" \in Inner /\ "ESC_EOF" \in Inner /\ "ESC_ESC" \in Inner
  BY OctetsDiffer DEF Inner
<1>2. CASE octet \in Plain
  <2>1. EncodeOctet(octet) = <<octet>> /\ octet \in Inner /\ octet # "EOF" /\ octet # "ESC"
    BY <1>2, OctetsDiffer DEF EncodeOctet, Inner
  <2>. QED BY <1>2, <2>1
<1>. DEFINE e == EncodeOctet(octet)
<1>3. CASE octet = "EOF"
  <2>1. e = <<"ESC", "ESC_EOF">> /\ octet \notin Plain /\ octet # "ESC"
    BY <1>3, OctetsDiffer DEF EncodeOctet
  <2>. HIDE DEF e
  <2>2. e \in Seq(Inner) /\ Len(e) = 2 /\ e[1] = "ESC" /\ e[2] = "ESC_EOF"
    BY <1>1, <2>1, Tuples
  <2>. QED BY <2>1, <2>2 DEF e
<1>4. CASE octet = "ESC"
  <2>1. e = <<"ESC", "ESC_ESC">> /\ octet \notin Plain /\ octet # "EOF"
    BY <1>4, OctetsDiffer DEF EncodeOctet
  <2>. HIDE DEF e
  <2>2. e \in Seq(Inner) /\ Len(e) = 2 /\ e[1] = "ESC" /\ e[2] = "ESC_ESC"
    BY <1>1, <2>1, Tuples
  <2>. QED BY <2>1, <2>2 DEF e
<1>. QED BY <1>2, <1>3, <1>4, OctetsDiffer

LEMMA Parts ==
  ASSUME NEW S, NEW s \in Seq(S), NEW t \in Seq(S)
  PROVE  /\ s \o t \in Seq(S) /\ Len(s \o t) = Len(s) + Len(t)
         /\ \A i \in 1 .. Len(s) : (s \o t)[i] = s[i]
         /\ \A i \in 1 .. Len(t) : (s \o t)[Len(s) + i] = t[i]
<1>1. Len(s) \in Nat /\ Len(t) \in Nat
  OBVIOUS
<1>2. /\ s \o t \in Seq(S) /\ Len(s \o t) = Len(s) + Len(t)
      /\ \A i \in 1 .. Len(s) + Len(t) : (s \o t)[i] = IF i <= Len(s) THEN s[i] ELSE t[i - Len(s)]
  BY ConcatProperties
<1>. DEFINE st == s \o t
            a == Len(s)
            b == Len(t)
<1>. HIDE DEF st, a, b
<1>3. a \in Nat /\ b \in Nat /\ \A i \in 1 .. a + b : st[i] = IF i <= a THEN s[i] ELSE t[i - a]
  BY <1>1, <1>2 DEF st, a, b
<1>4. \A i \in 1 .. a : st[i] = s[i]
  BY <1>3
<1>5. \A i \in 1 .. b : st[a + i] = t[i]
  <2>. SUFFICES ASSUME NEW i \in 1 .. b PROVE st[a + i] = t[i]
    OBVIOUS
  <2>1. a + i \in 1 .. a + b /\ ~(a + i <= a) /\ a + i - a = i
    BY <1>3
  <2>. QED BY <1>3, <2>1
<1>. QED BY <1>2, <1>4, <1>5 DEF st, a, b

Joins(S, s, t) ==
  /\ s \o t \in Seq(S) /\ Len(s \o t) = Len(s) + Len(t)
  /\ \A i \in 1 .. Len(s) : (s \o t)[i] = s[i]
  /\ \A i \in 1 .. Len(t) : (s \o t)[Len(s) + i] = t[i]

LEMMA Joining ==
  ASSUME NEW S, NEW s \in Seq(S), NEW t \in Seq(S)
  PROVE  Joins(S, s, t)
  BY Parts DEF Joins

\* The body of a frame, by recursion.
BodyGrows(payload) ==
  /\ Body(payload)[0] = <<>>
  /\ \A n \in 1 .. Len(payload) :
       Body(payload)[n] = Body(payload)[n - 1] \o EncodeOctet(payload[n])

LEMMA BodyExists ==
  ASSUME NEW payload \in Seq(Octet)
  PROVE  Encodes(Body(payload), payload) /\ BodyGrows(payload)
<1>. DEFINE N == Len(payload)
            S == Seq(Inner)
            Next_(n, s) == s \o EncodeOctet(payload[n])
            step == [n \in 1 .. N |-> [s \in S |-> Next_(n, s)]]
<1>1. N \in Nat /\ <<>> \in S
  OBVIOUS
<1>2. ASSUME NEW n \in 1 .. N, NEW s \in S PROVE Next_(n, s) \in S
  <2>1. payload[n] \in Octet
    OBVIOUS
  <2>. QED BY <2>1, EncodedOctet, Parts
<1>3. step \in [1 .. N -> [S -> S]]
  BY <1>2
<1>. HIDE DEF step, S, Next_, N
<1>4. PICK g : Iterates(g, S, <<>>, N, step)
  BY <1>1, <1>3, Iteration
<1>5. g \in [0 .. N -> S] /\ g[0] = <<>> /\ \A n \in 1 .. N : g[n] = step[n][g[n - 1]]
  BY <1>4 DEF Iterates
<1>6. ASSUME NEW n \in 1 .. N PROVE g[n] = Next_(n, g[n - 1])
  <2>1. n - 1 \in 0 .. N
    BY <1>1
  <2>2. g[n - 1] \in S
    BY <1>5, <2>1
  <2>. QED BY <1>5, <2>2 DEF step
<1>7. g = [n \in 0 .. N |-> IF n = 0 THEN <<>> ELSE Next_(n, g[n - 1])]
  <2>1. g = [n \in 0 .. N |-> g[n]]
    BY <1>5
  <2>2. \A n \in 0 .. N : n # 0 => n \in 1 .. N
    BY <1>1
  <2>3. \A n \in 0 .. N : g[n] = IF n = 0 THEN <<>> ELSE Next_(n, g[n - 1])
    BY <1>5, <1>6, <2>2
  <2>. QED BY <2>1, <2>3
<1>8. Encodes(g, payload)
  BY <1>7 DEF Encodes, Next_, N
<1>9. Encodes(Body(payload), payload)
  BY <1>8, Zenon DEF Body
<1>10. BodyGrows(payload)
  <2>. DEFINE f == Body(payload)
  <2>. HIDE DEF f
  <2>1. f = [n \in 0 .. N |-> IF n = 0 THEN <<>> ELSE Next_(n, f[n - 1])]
    BY <1>9 DEF Encodes, f, N, Next_
  <2>2. 0 \in 0 .. N /\ \A n \in 1 .. N : n \in 0 .. N /\ n # 0
    BY <1>1
  <2>3. f[0] = <<>> /\ \A n \in 1 .. N : f[n] = Next_(n, f[n - 1])
    BY <2>1, <2>2
  <2>. QED BY <2>3 DEF BodyGrows, f, N, Next_
<1>. QED BY <1>9, <1>10

\* Every octet of a payload becomes one or two octets, of which none is a delimiter.
LEMMA BodyType ==
  ASSUME NEW payload \in Seq(Octet), NEW n \in 0 .. Len(payload)
  PROVE  /\ Body(payload)[n] \in Seq(Inner)
         /\ Len(Body(payload)[n]) \in Nat /\ Len(Body(payload)[n]) >= n
         /\ Len(Body(payload)[n]) <= 2 * n
<1>. DEFINE N == Len(payload)
            f == Body(payload)
            T == {k \in Nat : k <= N => f[k] \in Seq(Inner) /\ Len(f[k]) >= k /\ Len(f[k]) <= 2 * k}
<1>1. f[0] = <<>> /\ \A k \in 1 .. N : f[k] = f[k - 1] \o EncodeOctet(payload[k])
  BY BodyExists DEF BodyGrows
<1>2. N \in Nat
  OBVIOUS
<1>. HIDE DEF f
<1>3. 0 \in T
  <2>1. f[0] = <<>> /\ <<>> \in Seq(Inner) /\ Len(<<>>) = 0
    BY <1>1
  <2>2. f[0] \in Seq(Inner) /\ Len(f[0]) = 0
    BY <2>1, Zenon
  <2>3. Len(f[0]) >= 0 /\ Len(f[0]) <= 2 * 0
    BY <2>2
  <2>. QED BY <2>2, <2>3
<1>4. ASSUME NEW k \in T PROVE k + 1 \in T
  <2>. SUFFICES ASSUME k + 1 <= N
                PROVE  f[k + 1] \in Seq(Inner) /\ Len(f[k + 1]) >= k + 1 /\ Len(f[k + 1]) <= 2 * (k + 1)
    OBVIOUS
  <2>1. k \in Nat /\ k <= N /\ k + 1 \in 1 .. N /\ k + 1 - 1 = k
    BY <1>2
  <2>2. f[k] \in Seq(Inner) /\ Len(f[k]) >= k /\ Len(f[k]) <= 2 * k
    BY <2>1
  <2>3. payload[k + 1] \in Octet
    BY <2>1
  <2>. DEFINE e == EncodeOctet(payload[k + 1])
              a == Len(f[k])
              b == Len(e)
  <2>4. e \in Seq(Inner) /\ (b = 1 \/ b = 2)
    BY <2>3, EncodedOctet
  <2>5. f[k + 1] = f[k] \o e
    <3>. DEFINE K == k + 1
    <3>1. K \in 1 .. N /\ K - 1 = k
      BY <2>1
    <3>. HIDE DEF K, N, T
    <3>2. f[K] = f[K - 1] \o EncodeOctet(payload[K])
      BY <1>1, <3>1
    <3>. QED BY <3>1, <3>2 DEF K
  <2>. HIDE DEF e, T
  <2>6. f[k + 1] \in Seq(Inner) /\ Len(f[k + 1]) = a + b
    <3>. DEFINE u == f[k]
    <3>1. u \in Seq(Inner) /\ e \in Seq(Inner)
      BY <2>2, <2>4
    <3>. HIDE DEF u
    <3>2. u \o e \in Seq(Inner) /\ Len(u \o e) = Len(u) + Len(e)
      BY <3>1, Parts
    <3>. QED BY <2>5, <3>2 DEF u
  <2>7. a \in Nat /\ a >= k /\ a <= 2 * k
    BY <2>2
  <2>8. a + b >= k + 1 /\ a + b <= 2 * (k + 1)
    <3>. HIDE DEF a, b, T
    <3>. QED BY <2>1, <2>4, <2>7
  <2>. HIDE DEF a, b
  <2>. QED BY <2>6, <2>8, Zenon
<1>5. n \in Nat /\ n <= N
  BY <1>2
<1>6. n \in T
  <2>1. T \in SUBSET Nat
    OBVIOUS
  <2>. HIDE DEF T
  <2>. QED BY <1>3, <1>4, <1>5, <2>1, Induction
<1>7. f[n] \in Seq(Inner) /\ Len(f[n]) >= n /\ Len(f[n]) <= 2 * n
  BY <1>5, <1>6
<1>. QED BY <1>7 DEF f

\* A prefix of a frame, and the one that is longer by one octet.
LEMMA SubSeqGrows ==
  ASSUME NEW s \in Seq(Octet), NEW n \in Nat, n + 1 <= Len(s)
  PROVE  /\ SubSeq(s, 1, n) \in Seq(Octet) /\ Len(SubSeq(s, 1, n)) = n
         /\ Append(SubSeq(s, 1, n), s[n + 1]) = SubSeq(s, 1, n + 1)
  OBVIOUS

\* What stands for the first octets of a payload is in front of what stands for more of them.
LEMMA BodyPrefix ==
  ASSUME NEW payload \in Seq(Octet), NEW n \in 0 .. Len(payload), NEW m \in n .. Len(payload)
  PROVE  /\ Len(Body(payload)[n]) <= Len(Body(payload)[m])
         /\ \A j \in 1 .. Len(Body(payload)[n]) : Body(payload)[m][j] = Body(payload)[n][j]
<1>. DEFINE N == Len(payload)
            f == Body(payload)
            a == Len(f[n])
            Good(k) == a <= Len(f[k]) /\ \A j \in 1 .. a : f[k][j] = f[n][j]
            T == {k \in Nat : n <= k /\ k <= N => Good(k)}
<1>1. N \in Nat /\ n \in Nat /\ n <= N /\ m \in Nat /\ n <= m /\ m <= N
  OBVIOUS
<1>2. \A k \in 0 .. N : f[k] \in Seq(Inner) /\ Len(f[k]) \in Nat
  BY BodyType
<1>3. a \in Nat
  BY <1>1, <1>2
<1>4. Good(n)
  BY <1>3
<1>5. ASSUME NEW k \in Nat, k + 1 <= N, Good(k) PROVE Good(k + 1)
  <2>. DEFINE K == k + 1
              e == EncodeOctet(payload[K])
              u == f[k]
  <2>1. K \in 1 .. N /\ K - 1 = k /\ k \in 0 .. N /\ payload[K] \in Octet
    BY <1>1, <1>5
  <2>2. f[K] = u \o e
    <3>1. f[K] = f[K - 1] \o e
      <4>. HIDE DEF K
      <4>. QED BY <2>1, BodyExists DEF BodyGrows
    <3>. QED BY <2>1, <3>1
  <2>3. u \in Seq(Inner) /\ e \in Seq(Inner) /\ Len(u) \in Nat /\ Len(e) \in Nat
    BY <1>2, <2>1, EncodedOctet
  <2>4. a <= Len(u) /\ \A j \in 1 .. a : u[j] = f[n][j]
    BY <1>5
  <2>. HIDE DEF e, u, a, f
  <2>5. Len(u \o e) = Len(u) + Len(e) /\ \A i \in 1 .. Len(u) : (u \o e)[i] = u[i]
    BY <2>3, Parts
  <2>6. a <= Len(u \o e)
    BY <1>3, <2>3, <2>4, <2>5
  <2>7. \A j \in 1 .. a : (u \o e)[j] = f[n][j]
    BY <1>3, <2>3, <2>4, <2>5
  <2>. QED BY <2>2, <2>6, <2>7
<1>. HIDE DEF Good
<1>6. 0 \in T
  <2>1. n <= 0 => n = 0
    BY <1>1
  <2>. QED BY <1>4, <2>1
<1>7. ASSUME NEW k \in T PROVE k + 1 \in T
  <2>. SUFFICES ASSUME n <= k + 1, k + 1 <= N PROVE Good(k + 1)
    OBVIOUS
  <2>1. k \in Nat /\ k <= N /\ (n <= k \/ n = k + 1)
    BY <1>1
  <2>2. CASE n <= k
    BY <1>5, <2>1, <2>2
  <2>3. CASE n = k + 1
    BY <1>4, <2>3
  <2>. QED BY <2>1, <2>2, <2>3
<1>8. m \in T
  <2>1. T \in SUBSET Nat
    OBVIOUS
  <2>. HIDE DEF T
  <2>. QED BY <1>1, <1>6, <1>7, <2>1, Induction
<1>9. Good(m)
  BY <1>1, <1>8
<1>. QED BY <1>9 DEF Good, a, f

\* An encoded frame: one delimiter at its end, one in front with RFC1055_WITH_SOF,
\* and no other.
Shape(e, payload) ==
  LET a == Len(Opening)
      b == Len(Body(payload)[Len(payload)])
  IN  /\ e \in Seq(Octet) /\ Len(e) = a + b + 1
      /\ a = (IF withsof THEN 1 ELSE 0)
      /\ b \in Nat /\ b >= Len(payload) /\ b <= 2 * Len(payload)
      /\ withsof => e[1] = "EOF"
      /\ e[Len(e)] = "EOF"
      /\ \A j \in 1 .. b : e[a + j] = Body(payload)[Len(payload)][j]
      /\ \A j \in 1 .. b : e[a + j] \in Inner

LEMMA EncodeShape ==
  ASSUME NEW payload \in Seq(Octet), withsof \in BOOLEAN
  PROVE  Shape(Encode(payload), payload)
<1>. DEFINE N == Len(payload)
            f == Body(payload)
            u == f[N]
            a == Len(Opening)
            b == Len(u)
            v == Opening \o u
            d == <<"EOF">>
            e == Encode(payload)
<1>1. e = v \o d
  BY Zenon DEF Encode, Body, Encodes
<1>2. N \in Nat /\ N \in 0 .. N
  OBVIOUS
<1>3. u \in Seq(Inner) /\ b \in Nat /\ b >= N /\ b <= 2 * N
  BY <1>2, BodyType
<1>4. /\ Opening \in Seq(Octet) /\ a = (IF withsof THEN 1 ELSE 0)
      /\ withsof => Opening[1] = "EOF"
  BY OctetsDiffer, Tuples DEF Opening
<1>5. d \in Seq(Octet) /\ Len(d) = 1 /\ d[1] = "EOF"
  BY OctetsDiffer, Tuples
<1>. HIDE DEF N, f, u, d, e
<1>6. u \in Seq(Octet) /\ \A j \in 1 .. b : u[j] \in Inner
  BY <1>3 DEF Inner
<1>7. /\ v \in Seq(Octet) /\ Len(v) = a + b
      /\ \A i \in 1 .. a : v[i] = Opening[i]
      /\ \A i \in 1 .. b : v[a + i] = u[i]
  <2>. DEFINE o == Opening
  <2>1. o \in Seq(Octet) /\ u \in Seq(Octet)
    BY <1>4, <1>6
  <2>. HIDE DEF o
  <2>2. Joins(Octet, o, u)
    BY <2>1, Joining, Zenon
  <2>. QED BY <2>2, Zenon DEF o, Joins
<1>. HIDE DEF v
<1>8. /\ e \in Seq(Octet) /\ Len(e) = Len(v) + Len(d)
      /\ \A i \in 1 .. Len(v) : e[i] = v[i]
      /\ \A i \in 1 .. Len(d) : e[Len(v) + i] = d[i]
  <2>1. Joins(Octet, v, d)
    BY <1>5, <1>7, Joining, Zenon
  <2>. QED BY <1>1, <2>1, Zenon DEF Joins
<1>9. a \in Nat /\ b \in Nat /\ (withsof => a = 1)
  BY <1>3, <1>4
<1>. HIDE DEF a, b
<1>10. Len(e) = a + b + 1 /\ e[Len(e)] = "EOF"
  <2>1. Len(v) + 1 = a + b + 1 /\ 1 \in 1 .. Len(d)
    BY <1>5, <1>7, <1>9
  <2>2. e[Len(v) + 1] = "EOF"
    BY <1>5, <1>8, <2>1
  <2>. QED BY <1>5, <1>8, <2>1, <2>2
<1>11. ASSUME withsof PROVE e[1] = "EOF"
  <2>1. 1 \in 1 .. a /\ 1 \in 1 .. Len(v)
    BY <1>7, <1>9, <1>11
  <2>2. e[1] = v[1] /\ v[1] = Opening[1]
    BY <1>7, <1>8, <2>1
  <2>. QED BY <1>4, <1>11, <2>2
<1>12. ASSUME NEW j \in 1 .. b PROVE e[a + j] = u[j] /\ e[a + j] \in Inner
  <2>1. a + j \in 1 .. Len(v)
    BY <1>7, <1>9
  <2>2. e[a + j] = v[a + j] /\ v[a + j] = u[j]
    BY <1>7, <1>8, <2>1
  <2>. QED BY <1>6, <2>2
<1>. QED
  <2>1. /\ e \in Seq(Octet) /\ Len(e) = a + b + 1
        /\ a = (IF withsof THEN 1 ELSE 0)
        /\ b \in Nat /\ b >= N /\ b <= 2 * N
        /\ withsof => e[1] = "EOF"
        /\ e[Len(e)] = "EOF"
    BY <1>3, <1>4, <1>8, <1>10, <1>11
  <2>2. \A j \in 1 .. b : e[a + j] = u[j]
    BY <1>12
  <2>3. \A j \in 1 .. b : e[a + j] \in Inner
    BY <1>12
  <2>. QED BY <2>1, <2>2, <2>3, Zenon DEF Shape, N, f, u, a, b, e

\* The octets that stand for one octet of the payload lie one after the other.
LEMMA EncodeStep ==
  ASSUME NEW payload \in Seq(Octet), withsof \in BOOLEAN,
         NEW n \in Nat, n < Len(payload),
         NEW j \in 1 .. Len(EncodeOctet(payload[n + 1]))
  PROVE  /\ payload[n + 1] \in Octet
         /\ Len(Body(payload)[n]) \in Nat
         /\ Len(Body(payload)[n + 1]) = Len(Body(payload)[n]) + Len(EncodeOctet(payload[n + 1]))
         /\ Len(Body(payload)[n + 1]) <= Len(Body(payload)[Len(payload)])
         /\ Encode(payload)[Len(Opening) + Len(Body(payload)[n]) + j] = EncodeOctet(payload[n + 1])[j]
<1>. DEFINE N == Len(payload)
            f == Body(payload)
            K == n + 1
            c == EncodeOctet(payload[K])
            u == f[n]
            w == f[K]
            x == f[N]
            a == Len(Opening)
            e == Encode(payload)
<1>1. N \in Nat /\ K \in 1 .. N /\ K \in 0 .. N /\ N \in K .. N /\ K - 1 = n /\ n \in 0 .. N
      /\ payload[K] \in Octet
  OBVIOUS
<1>2. u \in Seq(Inner) /\ c \in Seq(Inner) /\ Len(u) \in Nat /\ Len(c) \in Nat
  <2>1. u \in Seq(Inner) /\ Len(u) \in Nat
    BY <1>1, BodyType
  <2>2. c \in Seq(Inner)
    BY <1>1, EncodedOctet, Zenon
  <2>. HIDE DEF c
  <2>. QED BY <2>1, <2>2
<1>3. w = u \o c
  <2>1. f[K] = f[K - 1] \o c
    <3>. HIDE DEF K
    <3>. QED BY <1>1, BodyExists DEF BodyGrows
  <2>. QED BY <1>1, <2>1
<1>4. Len(w) <= Len(x) /\ \A i \in 1 .. Len(w) : x[i] = w[i]
  <2>. HIDE DEF K, N
  <2>. QED BY <1>1, BodyPrefix DEF N
<1>5. Shape(e, payload)
  BY EncodeShape
<1>6. Len(x) \in Nat /\ a \in Nat /\ \A i \in 1 .. Len(x) : e[a + i] = x[i]
  <2>1. Len(x) \in Nat /\ \A i \in 1 .. Len(x) : e[a + i] = x[i]
    BY <1>5, Zenon DEF Shape
  <2>2. a = (IF withsof THEN 1 ELSE 0)
    BY <1>5, Zenon DEF Shape
  <2>. QED BY <2>1, <2>2
<1>7. j \in 1 .. Len(c)
  OBVIOUS
<1>. HIDE DEF c, u, w, x, a, e, f, N
<1>8. Len(w) = Len(u) + Len(c) /\ \A i \in 1 .. Len(c) : w[Len(u) + i] = c[i]
  BY <1>2, <1>3, Parts
<1>9. Len(u) + j \in 1 .. Len(w) /\ Len(u) + j \in 1 .. Len(x) /\ a + (Len(u) + j) = a + Len(u) + j
  <2>1. Len(w) \in Nat /\ Len(u) + j \in 1 .. Len(w)
    BY <1>2, <1>7, <1>8
  <2>. QED BY <1>2, <1>4, <1>6, <1>7, <2>1
<1>10. e[a + Len(u) + j] = c[j]
  <2>1. e[a + (Len(u) + j)] = x[Len(u) + j]
    BY <1>6, <1>9
  <2>2. x[Len(u) + j] = w[Len(u) + j]
    BY <1>4, <1>9
  <2>3. w[Len(u) + j] = c[j]
    BY <1>7, <1>8
  <2>. QED BY <1>9, <2>1, <2>2, <2>3
<1>. QED BY <1>1, <1>2, <1>4, <1>8, <1>10 DEF c, u, w, x, a, e, f, N

(***************************************************************************)
(* The line: what is still to come of the frame.                           *)
(***************************************************************************)

LEMMA EncodingStays ==
  ASSUME frame' = frame, withsof' = withsof
  PROVE  /\ Encode(frame)' = Encode(frame) /\ Total' = Total /\ Opening' = Opening
         /\ WorstCase(Len(frame))' = WorstCase(Len(frame))
<1>1. Encode(frame) = (Opening \o Body(frame)[Len(frame)]) \o <<"EOF">>
  BY Zenon DEF Encode, Body, Encodes
<1>2. Encode(frame)' = (Opening' \o Body(frame')[Len(frame')]) \o <<"EOF">>
  BY Zenon DEF Encode, Body, Encodes
<1>3. Opening' = Opening
  BY DEF Opening
<1>4. Encode(frame)' = Encode(frame)
  BY <1>1, <1>2, <1>3, Zenon
<1>5. Total' = Total
  BY <1>4, Zenon DEF Total
<1>6. WorstCase(Len(frame))' = WorstCase(Len(frame))
  BY DEF WorstCase
<1>. QED BY <1>3, <1>4, <1>5, <1>6

LEMMA FrameShape ==
  ASSUME TypeOK
  PROVE  /\ Shape(Encode(frame), frame) /\ frame \in Seq(Octet) /\ withsof \in BOOLEAN
         /\ Total \in Nat /\ Total >= 1 /\ (withsof => Total >= 2)
         /\ (withsof /\ frame # <<>> => Total >= 3)
<1>1. frame \in Seq(Octet) /\ withsof \in BOOLEAN
  BY DEF TypeOK
<1>2. Shape(Encode(frame), frame)
  BY <1>1, EncodeShape
<1>. DEFINE a == Len(Opening)
            b == Len(Body(frame)[Len(frame)])
            n == Len(frame)
<1>3. Total = a + b + 1 /\ a = (IF withsof THEN 1 ELSE 0) /\ b \in Nat /\ b >= n
  BY <1>2, Zenon DEF Shape, Total
<1>4. n \in Nat /\ (frame # <<>> => n >= 1)
  BY <1>1
<1>. HIDE DEF a, b, n
<1>5. Total \in Nat /\ Total >= 1 /\ (withsof => Total >= 2)
      /\ (withsof /\ frame # <<>> => Total >= 3)
  BY <1>3, <1>4
<1>. QED BY <1>1, <1>2, <1>5

\* The octet that is next, and whether it is a delimiter.
LEMMA NextOctet ==
  ASSUME TypeOK, Remains, todo # <<>>
  PROVE  /\ Position \in Nat /\ Len(todo) \in Nat /\ Len(todo) >= 1 /\ Total = Position + Len(todo)
         /\ Head(todo) = Encode(frame)[Position + 1] /\ Head(todo) \in Octet
         /\ (Len(todo) = 1 => Head(todo) = "EOF")
         /\ (withsof /\ Position = 0 => Head(todo) = "EOF" /\ Len(todo) > 1)
         /\ (Len(todo) > 1 /\ ~(withsof /\ Position = 0) => Head(todo) # "EOF")
<1>. DEFINE e == Encode(frame)
            a == Len(Opening)
            b == Len(Body(frame)[Len(frame)])
            l == Len(todo)
            p == Position
<1>1. todo \in Seq(Octet) /\ l \in Nat /\ l >= 1 /\ Head(todo) = todo[1] /\ Head(todo) \in Octet
  BY DEF TypeOK
<1>2. Total \in Nat /\ (withsof => Total >= 2) /\ Shape(e, frame)
  BY FrameShape
<1>3. l <= Total /\ \A j \in 1 .. l : todo[j] = e[p + j]
  BY Zenon DEF Remains
<1>4. p = Total - l
  BY DEF Position
<1>5. Total = a + b + 1 /\ a = (IF withsof THEN 1 ELSE 0) /\ b \in Nat /\ Total = Len(e)
  BY <1>2, Zenon DEF Shape, Total
<1>6. /\ withsof => e[1] = "EOF"
      /\ e[Total] = "EOF"
      /\ \A j \in 1 .. b : e[a + j] \in Inner
  <2>1. e[Len(e)] = "EOF" /\ (withsof => e[1] = "EOF")
    BY <1>2, Zenon DEF Shape
  <2>2. \A j \in 1 .. b : e[a + j] \in Inner
    BY <1>2, Zenon DEF Shape
  <2>. QED BY <1>5, <2>1, <2>2, Zenon
<1>. HIDE DEF e, a, b, l, p
<1>7. p \in Nat /\ Total = p + l
  BY <1>1, <1>2, <1>3, <1>4
<1>8. Head(todo) = e[p + 1]
  <2>1. 1 \in 1 .. l
    BY <1>1
  <2>. QED BY <1>1, <1>3, <2>1
<1>9. ASSUME l = 1 PROVE Head(todo) = "EOF"
  <2>1. p + 1 = Total
    BY <1>7, <1>9
  <2>. QED BY <1>6, <1>8, <2>1
<1>10. ASSUME withsof, p = 0 PROVE Head(todo) = "EOF" /\ l > 1
  <2>1. p + 1 = 1 /\ l > 1
    BY <1>1, <1>2, <1>7, <1>10
  <2>. QED BY <1>6, <1>8, <1>10, <2>1
<1>11. ASSUME l > 1, ~(withsof /\ p = 0) PROVE Head(todo) # "EOF"
  <2>. DEFINE j == p + 1 - a
  <2>1. j \in 1 .. b /\ a + j = p + 1
    BY <1>1, <1>5, <1>7, <1>11
  <2>. HIDE DEF j
  <2>2. e[p + 1] \in Inner
    BY <1>6, <2>1
  <2>. QED BY <1>8, <2>2 DEF Inner
<1>. QED BY <1>1, <1>7, <1>8, <1>9, <1>10, <1>11 DEF e, l, p

\* The next octet is taken from the line.
LEMMA Advances ==
  ASSUME TypeOK, Remains, todo # <<>>, todo' = Tail(todo), UNCHANGED <<withsof, frame>>
  PROVE  /\ Position' = Position + 1 /\ Remains'
         /\ todo' \in Seq(Octet) /\ Len(todo') <= WorstCase(Len(frame))'
         /\ Len(todo') = Len(todo) - 1 /\ (todo' = <<>> <=> Len(todo) = 1)
<1>. DEFINE l == Len(todo)
            m == Len(todo')
            p == Position
            q == Position'
            t == Total
            e == Encode(frame)
<1>1. l \in Nat /\ l >= 1 /\ p \in Nat /\ t = p + l
  BY NextOctet
<1>2. todo \in Seq(Octet) /\ l <= WorstCase(Len(frame))
  BY DEF TypeOK
<1>3. todo' \in Seq(Octet) /\ m = l - 1 /\ (todo' = <<>> <=> l = 1)
      /\ \A j \in 1 .. l - 1 : todo'[j] = todo[j + 1]
  <2>. DEFINE s == todo
              r == Tail(todo)
  <2>1. s \in Seq(Octet) /\ s # <<>>
    BY <1>2
  <2>2. /\ r \in Seq(Octet) /\ Len(r) = Len(s) - 1 /\ Len(s) \in Nat
        /\ \A j \in 1 .. Len(s) - 1 : r[j] = s[j + 1]
    BY <2>1
  <2>3. r = <<>> <=> Len(r) = 0
    <3>. HIDE DEF r
    <3>. QED BY <2>2, EmptySeq
  <2>4. r = <<>> <=> Len(s) = 1
    <3>. HIDE DEF r, s
    <3>. QED BY <2>2, <2>3
  <2>. HIDE DEF r
  <2>5. todo' = r
    BY DEF r
  <2>. QED BY <2>2, <2>4, <2>5
<1>4. /\ Encode(frame)' = e /\ Total' = t
      /\ WorstCase(Len(frame))' = WorstCase(Len(frame))
  BY EncodingStays
<1>5. q = Total' - m
  BY DEF Position
<1>6. WorstCase(Len(frame)) \in Nat
  BY DEF WorstCase, TypeOK
<1>7. \A j \in 1 .. l : todo[j] = e[p + j]
  BY Zenon DEF Remains
<1>. HIDE DEF l, m, p, q, t, e
<1>8. q = p + 1
  BY <1>1, <1>3, <1>4, <1>5
<1>9. m <= WorstCase(Len(frame))'
  BY <1>1, <1>2, <1>3, <1>4, <1>6
<1>10. m <= Total' /\ m \in Nat
  BY <1>1, <1>3, <1>4
<1>11. ASSUME NEW j \in 1 .. m PROVE todo'[j] = e[q + j]
  <2>. DEFINE k == j + 1
  <2>1. j \in 1 .. l - 1 /\ k \in 1 .. l /\ p + k = q + j
    BY <1>1, <1>3, <1>8
  <2>. HIDE DEF k
  <2>2. todo[k] = e[p + k]
    BY <1>7, <2>1
  <2>3. todo'[j] = todo[k]
    BY <1>3, <2>1 DEF k
  <2>. QED BY <2>1, <2>2, <2>3
<1>12. Remains'
  BY <1>4, <1>10, <1>11, Zenon DEF Remains, m, q
<1>. QED BY <1>3, <1>8, <1>9, <1>12 DEF l, m, p, q

\* Nothing is taken.
LEMMA Stays ==
  ASSUME TypeOK, Remains, UNCHANGED <<withsof, frame, todo>>
  PROVE  /\ Position' = Position /\ Remains'
         /\ todo' \in Seq(Octet) /\ Len(todo') <= WorstCase(Len(frame))'
<1>1. /\ Encode(frame)' = Encode(frame) /\ Total' = Total
      /\ WorstCase(Len(frame))' = WorstCase(Len(frame))
  BY EncodingStays
<1>2. Position' = Position
  BY <1>1, Zenon DEF Position
<1>3. Remains'
  BY <1>1, <1>2, Zenon DEF Remains
<1>4. todo' \in Seq(Octet) /\ Len(todo') <= WorstCase(Len(frame))'
  BY <1>1 DEF TypeOK
<1>. QED BY <1>2, <1>3, <1>4

(***************************************************************************)
(* The decoder: where an octet leads it.                                   *)
(***************************************************************************)

DecoderType ==
  /\ state \in {"SEARCH_FOR_START", "SEARCH_FOR_END", "NORMAL"}
  /\ escaped \in BOOLEAN
  /\ sink \in Seq(Octet) /\ Len(sink) <= SinkSize
  /\ got \in {"nothing", "frame", "other"}

LEMMA StoresType ==
  ASSUME TypeOK, NEW octet \in Octet, Stores(octet)
  PROVE  sink' \in Seq(Octet) /\ Len(sink') <= SinkSize /\ got' \in {"nothing", "frame", "other"}
<1>1. sink \in Seq(Octet) /\ Len(sink) \in Nat /\ SinkSize \in Nat
  BY SizeAssumption DEF TypeOK
<1>2. CASE Len(sink) < SinkSize /\ sink' = Append(sink, octet) /\ UNCHANGED got
  <2>1. sink' \in Seq(Octet) /\ Len(sink') = Len(sink) + 1
    BY <1>1, <1>2
  <2>2. got' \in {"nothing", "frame", "other"}
    BY <1>2 DEF TypeOK
  <2>. QED BY <1>1, <1>2, <2>1, <2>2
<1>3. CASE ReturnsError
  BY <1>1, <1>3 DEF ReturnsError
<1>. QED BY <1>2, <1>3 DEF Stores

LEMMA Receiving ==
  ASSUME TypeOK, Calm, NoStart, NEW octet \in Octet, Receive(octet), withsof' = withsof
  PROVE  /\ DecoderType' /\ Calm' /\ NoStart'
         /\ (octet = "EOF" /\ InFrame => AtHome')
         /\ (octet = "EOF" /\ ~InFrame => InFrame')
         /\ (octet # "EOF" => InFrame')
<1>1. DecoderType /\ Len(sink) \in Nat /\ SinkSize \in Nat
  BY SizeAssumption DEF TypeOK, DecoderType
<1>2. Home' = Home /\ Home \in {"SEARCH_FOR_START", "NORMAL"} /\ (~withsof => Home = "NORMAL")
  BY DEF Home
<1>3. <<>> \in Seq(Octet) /\ Len(<<>>) = 0
  OBVIOUS
<1>4. CASE SearchForStart(octet)
  <2>1. state = "SEARCH_FOR_START" /\ escaped' = escaped /\ ~escaped /\ sink = <<>> /\ sink' = <<>>
    BY <1>4 DEF SearchForStart, Calm, Continues, ReturnsError
  <2>2. /\ (octet = "EOF" => state' = "NORMAL")
        /\ (octet # "EOF" => state' = "SEARCH_FOR_END")
        /\ got' \in {"nothing", "frame", "other"}
    BY <1>1, <1>4 DEF SearchForStart, Continues, ReturnsError, DecoderType
  <2>3. DecoderType'
    BY <1>1, <1>3, <2>1, <2>2 DEF DecoderType
  <2>4. Calm' /\ NoStart'
    BY <2>1, <2>2 DEF Calm, NoStart
  <2>5. InFrame' /\ ~InFrame
    BY <2>1, <2>2 DEF InFrame
  <2>. QED BY <2>3, <2>4, <2>5
<1>5. CASE SearchForEnd(octet)
  <2>1. state = "SEARCH_FOR_END" /\ escaped' = escaped /\ ~escaped /\ sink = <<>> /\ sink' = <<>>
        /\ got' = got /\ state' = (IF octet = "EOF" THEN Home ELSE state)
    BY <1>5 DEF SearchForEnd, Calm, Continues
  <2>2. DecoderType'
    BY <1>1, <1>2, <2>1 DEF DecoderType
  <2>3. Calm' /\ NoStart'
    BY <1>2, <2>1 DEF Calm, NoStart
  <2>4. InFrame /\ (octet = "EOF" => AtHome') /\ (octet # "EOF" => InFrame')
    BY <1>2, <2>1 DEF InFrame, AtHome
  <2>. QED BY <2>2, <2>3, <2>4
<1>6. CASE First(octet)
  <2>1. state = "NORMAL" /\ ~escaped /\ InFrame
    BY <1>6 DEF First, InFrame
  <2>2. CASE octet = "ESC" /\ escaped' = TRUE /\ Continues /\ UNCHANGED state
    <3>1. DecoderType' /\ Calm' /\ NoStart' /\ InFrame'
      BY <1>1, <2>1, <2>2 DEF DecoderType, Calm, NoStart, InFrame, Continues
    <3>. QED BY <2>2, <3>1
  <2>3. CASE octet = "EOF" /\ state' = Home /\ ReturnsFrame /\ UNCHANGED escaped
    <3>1. sink' = <<>> /\ got' \in {"nothing", "frame", "other"}
      BY <2>3 DEF ReturnsFrame
    <3>2. DecoderType' /\ Calm' /\ NoStart'
      BY <1>1, <1>2, <1>3, <2>1, <2>3, <3>1 DEF DecoderType, Calm, NoStart
    <3>3. AtHome'
      BY <1>2, <2>1, <2>3, <3>1 DEF AtHome
    <3>. QED BY <2>1, <2>3, <3>2, <3>3
  <2>4. CASE octet \in Plain /\ Stores(octet) /\ UNCHANGED <<state, escaped>>
    <3>1. sink' \in Seq(Octet) /\ Len(sink') <= SinkSize /\ got' \in {"nothing", "frame", "other"}
      BY <2>4, StoresType
    <3>2. DecoderType' /\ Calm' /\ NoStart' /\ InFrame'
      BY <1>1, <2>1, <2>4, <3>1 DEF DecoderType, Calm, NoStart, InFrame
    <3>3. octet # "EOF"
      BY <2>4, OctetsDiffer
    <3>. QED BY <3>2, <3>3
  <2>. QED BY <1>6, <2>2, <2>3, <2>4 DEF First
<1>7. CASE Second(octet)
  <2>1. state = "NORMAL" /\ escaped /\ ~escaped' /\ escaped' = FALSE /\ InFrame
    BY <1>7 DEF Second, InFrame
  <2>2. ASSUME octet # "EOF", UNCHANGED state, NEW c \in Octet, Stores(c)
        PROVE  DecoderType' /\ Calm' /\ NoStart' /\ InFrame'
    <3>1. sink' \in Seq(Octet) /\ Len(sink') <= SinkSize /\ got' \in {"nothing", "frame", "other"}
      BY <2>2, StoresType
    <3>. QED BY <1>1, <2>1, <2>2, <3>1 DEF DecoderType, Calm, NoStart, InFrame
  <2>3. CASE octet = "ESC_EOF" /\ Stores("EOF") /\ UNCHANGED state
    BY <2>2, <2>3, OctetsDiffer
  <2>4. CASE octet = "ESC_ESC" /\ Stores("ESC") /\ UNCHANGED state
    BY <2>2, <2>4, OctetsDiffer
  <2>5. CASE /\ octet \notin {"ESC_EOF", "ESC_ESC"} /\ state' = AfterIllegal(octet) /\ ReturnsError
    <3>1. sink' = <<>> /\ got' = "other"
      BY <2>5 DEF ReturnsError
    <3>2. /\ (octet = "EOF" => state' = Home)
          /\ (octet # "EOF" => state' = "SEARCH_FOR_END")
      BY <2>5 DEF AfterIllegal
    <3>5. state' = Home \/ state' = "SEARCH_FOR_END"
      BY <3>2
    <3>6. DecoderType'
      <4>1. sink' \in Seq(Octet) /\ Len(sink') <= SinkSize
        BY <1>1, <1>3, <3>1
      <4>2. state' \in {"SEARCH_FOR_START", "SEARCH_FOR_END", "NORMAL"}
        BY <1>2, <3>5
      <4>3. got' \in {"nothing", "frame", "other"} /\ escaped' \in BOOLEAN
        BY <2>1, <3>1
      <4>. QED BY <4>1, <4>2, <4>3 DEF DecoderType
    <3>3. DecoderType' /\ Calm' /\ NoStart'
      BY <1>2, <2>1, <3>1, <3>5, <3>6 DEF Calm, NoStart
    <3>4. /\ (octet = "EOF" => AtHome')
          /\ (octet # "EOF" => InFrame')
      BY <1>2, <2>1, <3>1, <3>2 DEF AtHome, InFrame
    <3>. QED BY <2>1, <3>3, <3>4
  <2>6. \/ octet = "ESC_EOF" /\ Stores("EOF") /\ UNCHANGED state
        \/ octet = "ESC_ESC" /\ Stores("ESC") /\ UNCHANGED state
        \/ octet \notin {"ESC_EOF", "ESC_ESC"} /\ state' = AfterIllegal(octet) /\ ReturnsError
    BY <1>7 DEF Second
  <2>. QED BY <2>3, <2>4, <2>5, <2>6
<1>. QED BY <1>4, <1>5, <1>6, <1>7 DEF Receive

(***************************************************************************)
(* The steps keep the invariant.                                           *)
(***************************************************************************)

\* The part of the type invariant that is not about the decoder and the line.
FrameType ==
  /\ withsof \in BOOLEAN
  /\ frame \in Seq(Octet) /\ Len(frame) <= MaxFrame
  /\ aligned \in BOOLEAN /\ sound \in BOOLEAN /\ begun \in BOOLEAN

LEMMA TypeParts ==
  /\ TypeOK => DecoderType /\ FrameType
  /\ DecoderType' /\ FrameType' /\ todo' \in Seq(Octet) /\ Len(todo') <= WorstCase(Len(frame))'
     => TypeOK'
<1>1. TypeOK => DecoderType /\ FrameType
  BY DEF TypeOK, DecoderType, FrameType
<1>2. DecoderType' /\ FrameType' /\ todo' \in Seq(Octet) /\ Len(todo') <= WorstCase(Len(frame))'
     => TypeOK'
  BY DEF TypeOK, DecoderType, FrameType
<1>. QED BY <1>1, <1>2

\* The delimiters of a frame, as the line's steps tell them.
LEMMA Delimiters ==
  ASSUME TypeOK, Remains, todo # <<>>, ~IsDelimiter
  PROVE  Len(todo) > 1 /\ ~(withsof /\ Position = 0)
<1>. DEFINE l == Len(todo)
            p == Position
            t == Total
<1>1. l \in Nat /\ l >= 1 /\ p \in Nat /\ t = p + l
  BY NextOctet
<1>2. l # 1 /\ ~(withsof /\ l = t)
  BY Zenon DEF IsDelimiter, Total
<1>. HIDE DEF l, p, t
<1>3. l > 1 /\ (p = 0 => l = t)
  BY <1>1, <1>2
<1>. QED BY <1>2, <1>3, Zenon DEF l, p, t

\* A decoder that knows where frames end is inside of the frame whose octets come.
LEMMA KnowsInside ==
  ASSUME TypeOK, Remains, Knows, aligned, todo # <<>>, ~(withsof /\ Position = 0)
  PROVE  InFrame
  BY DEF Knows

LEMMA StartFrameKeeps ==
  ASSUME SlipInv, NEW payload \in Frames, StartFrame(payload)
  PROVE  SlipInv'
<1>1. TypeOK /\ Calm /\ NoStart /\ Knows
  BY DEF SlipInv
<1>2. /\ todo = <<>> /\ frame' = payload /\ todo' = Encode(payload)
      /\ sound' = TRUE /\ begun' = aligned /\ got' = "nothing"
      /\ withsof' = withsof /\ state' = state /\ escaped' = escaped /\ sink' = sink
      /\ aligned' = aligned
  BY DEF StartFrame
<1>3. payload \in Seq(Octet) /\ Len(payload) <= MaxFrame
  <2>1. PICK n \in 0 .. MaxFrame : payload \in [1 .. n -> Octet]
    BY DEF Frames
  <2>2. n \in Nat /\ n <= MaxFrame
    BY <2>1, SizeAssumption
  <2>3. payload \in Seq(Octet) /\ Len(payload) = n
    BY <2>1, <2>2
  <2>. QED BY <2>2, <2>3
<1>4. withsof \in BOOLEAN
  BY <1>1 DEF TypeOK
<1>. DEFINE E == Encode(payload)
<1>5. Shape(E, payload)
  BY <1>3, <1>4, EncodeShape
<1>6. Encode(frame)' = E
  <2>1. E = (Opening \o Body(payload)[Len(payload)]) \o <<"EOF">>
    BY Zenon DEF Encode, Body, Encodes
  <2>2. Encode(frame)' = (Opening' \o Body(frame')[Len(frame')]) \o <<"EOF">>
    BY Zenon DEF Encode, Body, Encodes
  <2>3. Opening' = Opening
    BY <1>2 DEF Opening
  <2>. QED BY <1>2, <2>1, <2>2, <2>3, Zenon
<1>7. /\ E \in Seq(Octet) /\ Len(E) \in Nat /\ Len(E) >= 1
      /\ Len(E) <= (IF withsof THEN 2 * Len(payload) + 2 ELSE 2 * Len(payload) + 1)
  <2>. DEFINE a == Len(Opening)
              b == Len(Body(payload)[Len(payload)])
              n == Len(payload)
              l == Len(E)
  <2>1. l = a + b + 1 /\ a = (IF withsof THEN 1 ELSE 0) /\ b \in Nat /\ b <= 2 * n /\ E \in Seq(Octet)
    BY <1>5, Zenon DEF Shape
  <2>2. n \in Nat
    BY <1>3
  <2>. HIDE DEF a, b, n, l, E
  <2>3. l \in Nat /\ l >= 1 /\ l <= (IF withsof THEN 2 * n + 2 ELSE 2 * n + 1)
    BY <2>1, <2>2
  <2>. QED BY <2>1, <2>3 DEF n, l
<1>. HIDE DEF E
<1>8. todo' = E /\ Total' = Len(E)
  BY <1>2, <1>6 DEF Total, E
<1>9. Position' = 0
  <2>1. Position' = Len(E) - Len(E)
    BY <1>8 DEF Position
  <2>. QED BY <1>7, <2>1
<1>10. Remains'
  <2>1. Len(todo') <= Total'
    BY <1>7, <1>8
  <2>2. ASSUME NEW j \in 1 .. Len(E) PROVE E[j] = E[0 + j]
    BY <1>7
  <2>3. \A j \in 1 .. Len(todo') : todo'[j] = Encode(frame)'[Position' + j]
    BY <1>6, <1>8, <1>9, <2>2, Zenon
  <2>. QED BY <2>1, <2>3 DEF Remains
<1>11. TypeOK'
  <2>1. DecoderType'
    BY <1>1, <1>2 DEF TypeOK, DecoderType
  <2>2. FrameType'
    BY <1>1, <1>2, <1>3 DEF TypeOK, FrameType
  <2>3. WorstCase(Len(frame))' = (IF withsof THEN 2 * Len(payload) + 2 ELSE 2 * Len(payload) + 1)
    BY <1>2 DEF WorstCase
  <2>4. todo' \in Seq(Octet) /\ Len(todo') <= WorstCase(Len(frame))'
    BY <1>7, <1>8, <2>3, Zenon
  <2>. QED BY <2>1, <2>2, <2>4, TypeParts
<1>12. Calm' /\ NoStart'
  BY <1>1, <1>2 DEF Calm, NoStart
<1>13. Home' = Home /\ (aligned => AtHome) /\ (AtHome => AtHome')
  BY <1>1, <1>2 DEF Knows, AtHome, Home
<1>14. Knows'
  <2>1. ~withsof /\ AtHome' => InFrame'
    BY <1>2 DEF AtHome, Home, InFrame
  <2>. QED BY <1>2, <1>9, <1>13, <2>1 DEF Knows
<1>15. Finds'
  BY <1>9 DEF Finds
<1>16. Returns'
  <2>. SUFFICES ASSUME aligned PROVE todo' # <<>> /\ ~(withsof /\ Position' = 0) => Follows'
    <3>1. todo' # <<>>
      BY <1>7, <1>8
    <3>. QED BY <1>2, <1>9, <1>13, <3>1 DEF Returns
  <2>. SUFFICES ASSUME ~withsof PROVE Follows'
    BY <1>9
  <2>1. state' = "NORMAL" /\ got' = "nothing" /\ sink' = <<>> /\ ~escaped'
    BY <1>2, <1>13 DEF AtHome, Home
  <2>2. Opening' = <<>> /\ Len(<<>>) = 0
    BY <1>2 DEF Opening
  <2>3. Body(frame')[0] = <<>>
    BY <1>2, <1>3, BodyExists DEF BodyGrows
  <2>4. 0 \in 0 .. Len(frame') /\ SubSeq(frame', 1, 0) = <<>>
    BY <1>2, <1>3
  <2>5. Position' = Len(Opening') + Len(Body(frame')[0]) + 0
    <3>1. Len(Opening') = 0 /\ Len(Body(frame')[0]) = 0
      BY <2>2, <2>3
    <3>. QED BY <1>9, <3>1
  <2>6. \E n \in 0 .. Len(frame') :
          /\ sink' = SubSeq(frame', 1, n)
          /\ Position' = Len(Opening') + Len(Body(frame')[n]) + (IF escaped' THEN 1 ELSE 0)
          /\ escaped' => n < Len(frame') /\ frame'[n + 1] \in {"ESC", "EOF"}
    <3>1. (IF escaped' THEN 1 ELSE 0) = 0
      BY <2>1
    <3>. QED BY <2>1, <2>4, <2>5, <3>1, Zenon
  <2>. QED BY <2>1, <2>6 DEF Follows
<1>. QED BY <1>10, <1>11, <1>12, <1>14, <1>15, <1>16 DEF SlipInv

\* What is stored while nothing happens to a frame the decoder was ready for.
LEMMA DeliverFollows ==
  ASSUME SlipInv, Deliver, sound, begun
  PROVE  IF todo' = <<>> THEN got' = "frame" ELSE Follows'
<1>1. /\ TypeOK /\ Remains /\ Returns
      /\ todo # <<>> /\ todo' = Tail(todo) /\ Receive(Head(todo))
      /\ withsof' = withsof /\ frame' = frame
  BY DEF SlipInv, Deliver
<1>. DEFINE h == Head(todo)
            N == Len(frame)
            f == Body(frame)
            E == Encode(frame)
            a == Len(Opening)
            L(n) == Len(f[n])
            b == L(N)
            up == IF escaped THEN 1 ELSE 0
            down == IF escaped' THEN 1 ELSE 0
            p == Position
            q == Position'
            l == Len(todo)
<1>2. /\ p \in Nat /\ l \in Nat /\ l >= 1 /\ Total = p + l
      /\ h = E[p + 1]
      /\ l = 1 => h = "EOF"
      /\ withsof /\ p = 0 => h = "EOF" /\ l > 1
  BY <1>1, NextOctet
<1>3. q = p + 1 /\ (todo' = <<>> <=> l = 1)
  BY <1>1, Advances
<1>4. frame \in Seq(Octet) /\ withsof \in BOOLEAN /\ Shape(E, frame)
  BY <1>1, FrameShape
<1>5. Total = a + b + 1 /\ a = (IF withsof THEN 1 ELSE 0) /\ b \in Nat
  BY <1>4, Zenon DEF Shape, Total
<1>6. N \in Nat /\ Opening' = Opening
  BY <1>1, <1>4, EncodingStays
<1>. DEFINE Behind(n) ==
              /\ sink' = SubSeq(frame, 1, n)
              /\ q = a + L(n) + down
              /\ escaped' => n < N /\ frame[n + 1] \in {"ESC", "EOF"}
<1>7. ASSUME state' = "NORMAL", got' = "nothing", NEW n \in 0 .. N, Behind(n) PROVE Follows'
  <2>1. \E k \in 0 .. N : Behind(k)
    BY <1>7, Zenon
  <2>2. \E k \in 0 .. Len(frame') :
          /\ sink' = SubSeq(frame', 1, k)
          /\ Position' = Len(Opening') + Len(Body(frame')[k]) + (IF escaped' THEN 1 ELSE 0)
          /\ escaped' => k < Len(frame') /\ frame'[k + 1] \in {"ESC", "EOF"}
    BY <1>1, <1>6, <2>1
  <2>. QED BY <1>7, <2>2 DEF Follows
<1>8. CASE withsof /\ p = 0
  <2>1. AtHome /\ got = "nothing" /\ state = "SEARCH_FOR_START" /\ ~escaped /\ sink = <<>>
    BY <1>1, <1>8 DEF Returns, AtHome, Home
  <2>2. h = "EOF" /\ todo' # <<>>
    BY <1>2, <1>3, <1>8
  <2>3. state' = "NORMAL" /\ sink' = sink /\ got' = got /\ escaped' = escaped
    BY <1>1, <2>1, <2>2 DEF Receive, SearchForStart, SearchForEnd, First, Second, Continues
  <2>4. f[0] = <<>> /\ Len(<<>>) = 0 /\ SubSeq(frame, 1, 0) = <<>> /\ 0 \in 0 .. N
    <3>1. f[0] = <<>>
      BY <1>4, BodyExists, Zenon DEF BodyGrows
    <3>. HIDE DEF N
    <3>. QED BY <1>6, <3>1, SubSeqEmpty
  <2>5. q = a + L(0) + down
    <3>1. L(0) = 0 /\ down = 0
      BY <2>1, <2>3, <2>4
    <3>. HIDE DEF a, q, p, L, down
    <3>. QED BY <1>3, <1>5, <1>8, <3>1
  <2>6. Behind(0)
    BY <2>1, <2>3, <2>4, <2>5
  <2>. HIDE DEF Behind
  <2>. QED BY <1>7, <2>1, <2>2, <2>3, <2>4, <2>6
<1>9. CASE ~(withsof /\ p = 0)
  <2>1. Follows
    BY <1>1, <1>9 DEF Returns
  <2>2. state = "NORMAL" /\ got = "nothing"
    BY <2>1 DEF Follows
  <2>3. PICK n \in 0 .. N :
          /\ sink = SubSeq(frame, 1, n)
          /\ p = a + L(n) + up
          /\ escaped => n < N /\ frame[n + 1] \in {"ESC", "EOF"}
    BY <2>1, Zenon DEF Follows
  <2>4. /\ ~escaped => First(h)
        /\ escaped => Second(h)
    BY <1>1, <2>2 DEF Receive, SearchForStart, SearchForEnd, First, Second
  <2>5. n \in Nat /\ n <= N /\ L(n) \in Nat
    BY <1>4, <1>6, BodyType
  <2>6. CASE n = N
    <3>1. ~escaped /\ First(h)
      BY <2>3, <2>4, <2>6, <2>5
    <3>2. l = 1
      <4>1. p = a + b
        <5>1. up = 0 /\ p = a + b + up
          BY <2>3, <2>6, <3>1
        <5>. HIDE DEF p, a, L, up
        <5>. QED BY <1>5, <5>1
      <4>. HIDE DEF p, a, b, l
      <4>. QED BY <1>2, <1>5, <4>1
    <3>3. h = "EOF" /\ todo' = <<>>
      BY <1>2, <1>3, <3>2
    <3>4. ReturnsFrame
      BY <3>1, <3>3, OctetsDiffer DEF First
    <3>5. sink = frame
      <4>1. sink = SubSeq(frame, 1, Len(frame))
        BY <2>3, <2>6
      <4>. QED BY <1>4, <4>1, SubSeqFull
    <3>. QED BY <2>2, <3>3, <3>4, <3>5 DEF ReturnsFrame
  <2>7. CASE n < N
    <3>. DEFINE K == n + 1
                o == frame[K]
                c == EncodeOctet(o)
    <3>1. o \in Octet /\ K \in 0 .. N /\ K \in Nat
      BY <1>4, <1>6, <2>5, <2>7
    <3>2. /\ Len(c) = (IF o \in Plain THEN 1 ELSE 2)
          /\ o \in Plain => c[1] = o
          /\ o = "EOF" => c[1] = "ESC" /\ c[2] = "ESC_EOF"
          /\ o = "ESC" => c[1] = "ESC" /\ c[2] = "ESC_ESC"
      BY <3>1, EncodedOctet
    <3>3. ASSUME NEW j \in 1 .. Len(c)
          PROVE  /\ L(K) = L(n) + Len(c) /\ L(K) <= b
                 /\ E[a + L(n) + j] = c[j]
      BY <1>4, <2>5, <2>7, EncodeStep, Zenon
    <3>4. 1 \in 1 .. Len(c) /\ Len(c) \in Nat
      BY <3>2
    <3>. HIDE DEF c, a, b, f, l, p, q, E, h, L, up, down
    <3>5. L(K) = L(n) + Len(c) /\ L(K) <= b
      BY <3>3, <3>4
    <3>6. a \in Nat
      BY <1>5
    <3>7. sink \in Seq(Octet) /\ Len(sink) = n /\ Append(sink, o) = SubSeq(frame, 1, K)
      <4>1. sink = SubSeq(frame, 1, n) /\ n + 1 <= Len(frame)
        BY <1>6, <2>3, <2>5, <2>7
      <4>. QED BY <1>4, <2>5, <4>1, SubSeqGrows
    <3>8. Len(sink) < SinkSize
      <4>1. N <= MaxFrame
        BY <1>1 DEF TypeOK
      <4>2. n < SinkSize
        BY <1>6, <2>5, <2>7, <4>1, SizeAssumption
      <4>. QED BY <3>7, <4>2
    <3>9. ASSUME Stores(o) PROVE sink' = SubSeq(frame, 1, K) /\ got' = "nothing"
      <4>1. Len(sink) # SinkSize
        BY <3>7, <3>8, <2>5, SizeAssumption
      <4>. QED BY <2>2, <3>7, <3>9, <4>1 DEF Stores
    <3>10. CASE ~escaped /\ o \in Plain
      <4>1. p = a + L(n) /\ Len(c) = 1
        <5>1. up = 0
          BY <3>10 DEF up
        <5>. QED BY <2>3, <2>5, <3>2, <3>6, <3>10, <5>1
      <4>2. h = o
        <5>1. h = E[a + L(n) + 1]
          BY <1>2, <4>1
        <5>. QED BY <3>2, <3>3, <3>4, <3>10, <5>1
      <4>3. Stores(o) /\ UNCHANGED <<state, escaped>>
        BY <2>4, <3>10, <4>2, OctetsDiffer DEF First
      <4>4. q = a + L(K) /\ q < a + b + 1
        BY <1>3, <1>5, <2>5, <3>5, <3>6, <4>1
      <4>5. todo' # <<>>
        BY <1>2, <1>3, <1>5, <4>4
      <4>6. Behind(K)
        <5>1. down = 0 /\ ~escaped'
          BY <3>10, <4>3 DEF down
        <5>2. q = a + L(K) + 0
          BY <2>5, <3>4, <3>5, <3>6, <4>4
        <5>3. sink' = SubSeq(frame, 1, K)
          BY <3>9, <4>3
        <5>. HIDE DEF K
        <5>. QED BY <5>1, <5>2, <5>3
      <4>. HIDE DEF Behind, K
      <4>. QED BY <1>7, <2>2, <3>1, <3>9, <4>3, <4>5, <4>6
    <3>11. CASE ~escaped /\ o \in {"EOF", "ESC"}
      <4>1. p = a + L(n) /\ Len(c) = 2
        <5>1. up = 0 /\ o \notin Plain
          BY <3>11, OctetsDiffer DEF up
        <5>. QED BY <2>3, <2>5, <3>2, <3>6, <5>1
      <4>2. h = "ESC"
        <5>1. h = E[a + L(n) + 1]
          BY <1>2, <4>1
        <5>. QED BY <3>2, <3>3, <3>4, <3>11, <5>1
      <4>3. escaped' = TRUE /\ state' = state /\ sink' = sink /\ got' = got
        BY <2>4, <3>11, <4>2, OctetsDiffer DEF First, Continues
      <4>4. q = a + L(n) + 1 /\ q < a + b
        BY <1>3, <1>5, <2>5, <3>5, <3>6, <4>1
      <4>5. todo' # <<>>
        BY <1>2, <1>3, <1>5, <3>6, <4>4
      <4>6. Behind(n)
        <5>1. down = 1
          BY <4>3 DEF down
        <5>. QED BY <2>3, <2>7, <3>11, <4>3, <4>4, <5>1
      <4>. HIDE DEF Behind
      <4>. QED BY <1>7, <2>2, <4>3, <4>5, <4>6
    <3>12. CASE escaped
      <4>1. p = a + L(n) + 1 /\ Len(c) = 2 /\ (o = "EOF" \/ o = "ESC")
        <5>1. up = 1 /\ o \in {"ESC", "EOF"}
          BY <2>3, <3>12 DEF up
        <5>2. o \notin Plain
          BY <5>1, OctetsDiffer
        <5>. QED BY <2>3, <3>2, <5>1, <5>2
      <4>2. /\ o = "EOF" => h = "ESC_EOF"
            /\ o = "ESC" => h = "ESC_ESC"
        <5>1. 2 \in 1 .. Len(c) /\ p + 1 = a + L(n) + 2
          BY <2>5, <3>6, <4>1
        <5>2. h = c[2]
          BY <1>2, <3>3, <5>1
        <5>. QED BY <3>2, <5>2
      <4>3. Stores(o) /\ state' = state /\ escaped' = FALSE
        BY <2>4, <3>12, <4>1, <4>2, OctetsDiffer DEF Second
      <4>4. q = a + L(K) /\ q < a + b + 1
        BY <1>3, <1>5, <2>5, <3>5, <3>6, <4>1
      <4>5. todo' # <<>>
        BY <1>2, <1>3, <1>5, <4>4
      <4>6. Behind(K)
        <5>1. down = 0 /\ ~escaped'
          BY <4>3 DEF down
        <5>2. q = a + L(K) + 0
          BY <2>5, <3>4, <3>5, <3>6, <4>4
        <5>3. sink' = SubSeq(frame, 1, K)
          BY <3>9, <4>3
        <5>. HIDE DEF K
        <5>. QED BY <5>1, <5>2, <5>3
      <4>. HIDE DEF Behind, K
      <4>. QED BY <1>7, <2>2, <3>1, <3>9, <4>3, <4>5, <4>6
    <3>. QED BY <3>1, <3>10, <3>11, <3>12, OctetsDiffer
  <2>. QED BY <2>5, <2>6, <2>7, <1>6
<1>. QED BY <1>8, <1>9

LEMMA DeliverKeeps ==
  ASSUME SlipInv, Deliver
  PROVE  SlipInv'
<1>1. TypeOK /\ Remains /\ Calm /\ NoStart /\ Knows /\ Finds /\ Returns
  BY DEF SlipInv
<1>2. /\ todo # <<>> /\ todo' = Tail(todo) /\ Receive(Head(todo))
      /\ aligned' = (aligned \/ (Len(todo) = 1 /\ Realigns))
      /\ withsof' = withsof /\ frame' = frame /\ sound' = sound /\ begun' = begun
  BY DEF Deliver
<1>. DEFINE h == Head(todo)
            l == Len(todo)
            p == Position
<1>3. /\ p \in Nat /\ l \in Nat /\ l >= 1 /\ Total = p + l /\ h \in Octet
      /\ l = 1 => h = "EOF"
      /\ withsof /\ p = 0 => h = "EOF" /\ l > 1
      /\ l > 1 /\ ~(withsof /\ p = 0) => h # "EOF"
  BY <1>1, <1>2, NextOctet
<1>4. /\ Position' = p + 1 /\ Remains'
      /\ todo' \in Seq(Octet) /\ Len(todo') <= WorstCase(Len(frame))'
      /\ (todo' = <<>> <=> l = 1)
  BY <1>1, <1>2, Advances
<1>5. /\ DecoderType' /\ Calm' /\ NoStart'
      /\ h = "EOF" /\ InFrame => AtHome'
      /\ h = "EOF" /\ ~InFrame => InFrame'
      /\ h # "EOF" => InFrame'
  BY <1>1, <1>2, <1>3, Receiving
<1>. HIDE DEF h, l, p
<1>6. Position' # 0
  BY <1>3, <1>4
<1>7. TypeOK'
  <2>1. FrameType'
    BY <1>1, <1>2, TypeParts DEF FrameType
  <2>. QED BY <1>4, <1>5, <2>1, TypeParts
<1>8. Knows'
  <2>1. CASE l = 1 /\ aligned
    <3>1. ~(withsof /\ p = 0)
      BY <1>3, <2>1
    <3>2. InFrame
      BY <1>1, <1>2, <2>1, <3>1, KnowsInside DEF p
    <3>. QED BY <1>3, <1>4, <1>5, <2>1, <3>2 DEF Knows
  <2>2. CASE l = 1 /\ ~aligned /\ Realigns
    <3>1. sound /\ ~(withsof /\ frame = <<>>)
      BY <2>2 DEF Realigns
    <3>2. CASE ~withsof
      <4>1. InFrame
        BY <1>1, <3>2 DEF NoStart, InFrame, TypeOK
      <4>. QED BY <1>3, <1>4, <1>5, <2>2, <4>1 DEF Knows
    <3>3. CASE withsof
      <4>1. Total >= 3
        BY <1>1, <3>1, <3>3, FrameShape
      <4>2. p >= 2
        BY <1>3, <2>2, <4>1
      <4>3. InFrame
        BY <1>1, <1>2, <3>1, <3>3, <4>2 DEF Finds, p
      <4>. QED BY <1>3, <1>4, <1>5, <2>2, <4>3 DEF Knows
    <3>. QED BY <3>2, <3>3
  <2>3. CASE l = 1 /\ ~aligned /\ ~Realigns
    BY <1>2, <2>3 DEF Knows, l
  <2>4. CASE l # 1
    <3>1. l > 1 /\ todo' # <<>>
      BY <1>3, <1>4, <2>4
    <3>2. aligned' => aligned
      BY <1>2, <2>4 DEF l
    <3>3. ASSUME aligned PROVE InFrame'
      <4>1. CASE withsof /\ p = 0
        <5>1. state = "SEARCH_FOR_START"
          BY <1>1, <3>3, <4>1 DEF Knows, AtHome, Home, p
        <5>2. ~InFrame
          BY <5>1 DEF InFrame
        <5>. QED BY <1>3, <1>5, <4>1, <5>2
      <4>2. CASE ~(withsof /\ p = 0)
        BY <1>3, <1>5, <3>1, <4>2
      <4>. QED BY <4>1, <4>2
    <3>. QED BY <1>6, <3>1, <3>2, <3>3 DEF Knows
  <2>. QED BY <2>1, <2>2, <2>3, <2>4
<1>9. Finds'
  <2>. SUFFICES ASSUME Position' >= 2, todo' # <<>> PROVE InFrame'
    BY DEF Finds
  <2>1. l > 1 /\ p # 0
    BY <1>3, <1>4
  <2>. QED BY <1>3, <1>5, <2>1
<1>10. Returns'
  <2>. SUFFICES ASSUME sound, begun PROVE IF todo' = <<>> THEN got' = "frame" ELSE Follows'
    BY <1>2, <1>6 DEF Returns
  <2>. QED BY DeliverFollows
<1>. QED BY <1>4, <1>5, <1>7, <1>8, <1>9, <1>10 DEF SlipInv

LEMMA LoseKeeps ==
  ASSUME SlipInv, Lose
  PROVE  SlipInv'
<1>1. TypeOK /\ Remains /\ Calm /\ NoStart /\ Knows
  BY DEF SlipInv
<1>2. /\ todo # <<>> /\ todo' = Tail(todo) /\ sound' = FALSE
      /\ aligned' = (aligned /\ ~IsDelimiter)
      /\ UNCHANGED <<withsof, state, escaped, sink, frame, begun, got>>
  BY DEF Lose
<1>3. Remains' /\ todo' \in Seq(Octet) /\ Len(todo') <= WorstCase(Len(frame))'
      /\ Position' = Position + 1 /\ (todo' = <<>> <=> Len(todo) = 1)
  BY <1>1, <1>2, Advances
<1>4. TypeOK'
  <2>1. DecoderType' /\ FrameType'
    BY <1>1, <1>2, TypeParts DEF DecoderType, FrameType
  <2>. QED BY <1>3, <2>1, TypeParts
<1>5. Calm' /\ NoStart'
  BY <1>1, <1>2 DEF Calm, NoStart
<1>6. Knows'
  <2>. SUFFICES ASSUME aligned, ~IsDelimiter PROVE todo' # <<>> /\ Position' # 0 /\ InFrame'
    BY <1>2 DEF Knows
  <2>1. Len(todo) > 1 /\ ~(withsof /\ Position = 0)
    BY <1>1, <1>2, Delimiters
  <2>2. InFrame
    BY <1>1, <1>2, <2>1, KnowsInside
  <2>3. Position \in Nat /\ Len(todo) \in Nat
    BY <1>1, <1>2, NextOctet
  <2>4. todo' # <<>> /\ Position' # 0
    <3>1. todo' # <<>>
      <4>. DEFINE l == Len(todo)
      <4>1. l \in Nat /\ l > 1 /\ (todo' = <<>> <=> l = 1)
        BY <1>3, <2>1, <2>3
      <4>. HIDE DEF l
      <4>. QED BY <4>1
    <3>2. Position' # 0
      <4>. DEFINE p == Position
      <4>1. p \in Nat /\ Position' = p + 1
        BY <1>3, <2>3
      <4>. HIDE DEF p
      <4>. QED BY <4>1
    <3>. QED BY <3>1, <3>2
  <2>. QED BY <1>2, <2>2, <2>4 DEF InFrame
<1>7. Finds' /\ Returns'
  BY <1>2 DEF Finds, Returns
<1>. QED BY <1>3, <1>4, <1>5, <1>6, <1>7 DEF SlipInv

LEMMA ChangeKeeps ==
  ASSUME SlipInv, NEW octet \in Octet, Change(octet)
  PROVE  SlipInv'
<1>1. TypeOK /\ Remains /\ Calm /\ NoStart /\ Knows
  BY DEF SlipInv
<1>2. /\ todo # <<>> /\ todo' = Tail(todo) /\ sound' = FALSE /\ Receive(octet)
      /\ aligned' = (aligned /\ ~IsDelimiter /\ octet # "EOF")
      /\ UNCHANGED <<withsof, frame, begun>>
  BY DEF Change
<1>3. Remains' /\ todo' \in Seq(Octet) /\ Len(todo') <= WorstCase(Len(frame))'
      /\ Position' = Position + 1 /\ (todo' = <<>> <=> Len(todo) = 1)
  BY <1>1, <1>2, Advances
<1>4. DecoderType' /\ Calm' /\ NoStart' /\ (octet # "EOF" => InFrame')
  BY <1>1, <1>2, Receiving
<1>5. TypeOK'
  <2>1. FrameType'
    BY <1>1, <1>2, TypeParts DEF FrameType
  <2>. QED BY <1>3, <1>4, <2>1, TypeParts
<1>6. Knows'
  <2>. SUFFICES ASSUME ~IsDelimiter, octet # "EOF" PROVE todo' # <<>> /\ Position' # 0 /\ InFrame'
    BY <1>2 DEF Knows
  <2>1. Len(todo) > 1
    BY <1>1, <1>2, Delimiters
  <2>2. Position \in Nat /\ Len(todo) \in Nat
    BY <1>1, <1>2, NextOctet
  <2>3. todo' # <<>> /\ Position' # 0
    <3>1. todo' # <<>>
      <4>. DEFINE l == Len(todo)
      <4>1. l \in Nat /\ l > 1 /\ (todo' = <<>> <=> l = 1)
        BY <1>3, <2>1, <2>2
      <4>. HIDE DEF l
      <4>. QED BY <4>1
    <3>2. Position' # 0
      <4>. DEFINE p == Position
      <4>1. p \in Nat /\ Position' = p + 1
        BY <1>3, <2>2
      <4>. HIDE DEF p
      <4>. QED BY <4>1
    <3>. QED BY <3>1, <3>2
  <2>. QED BY <1>4, <2>3
<1>7. Finds' /\ Returns'
  BY <1>2 DEF Finds, Returns
<1>. QED BY <1>3, <1>4, <1>5, <1>6, <1>7 DEF SlipInv

LEMMA NoiseKeeps ==
  ASSUME SlipInv, NEW octet \in Octet, Noise(octet)
  PROVE  SlipInv'
<1>1. TypeOK /\ Remains /\ Calm /\ NoStart
  BY DEF SlipInv
<1>2. /\ Receive(octet) /\ sound' = FALSE /\ aligned' = FALSE
      /\ UNCHANGED <<withsof, frame, todo, begun>>
  BY DEF Noise
<1>3. Remains' /\ todo' \in Seq(Octet) /\ Len(todo') <= WorstCase(Len(frame))'
  BY <1>1, <1>2, Stays
<1>4. DecoderType' /\ Calm' /\ NoStart'
  BY <1>1, <1>2, Receiving
<1>5. TypeOK'
  <2>1. FrameType'
    BY <1>1, <1>2, TypeParts DEF FrameType
  <2>. QED BY <1>3, <1>4, <2>1, TypeParts
<1>6. Knows' /\ Finds' /\ Returns'
  BY <1>2 DEF Knows, Finds, Returns
<1>. QED BY <1>3, <1>4, <1>5, <1>6 DEF SlipInv

LEMMA EncoderFailsKeeps ==
  ASSUME SlipInv, EncoderFails
  PROVE  SlipInv'
<1>1. TypeOK /\ Calm /\ NoStart
  BY DEF SlipInv
<1>2. /\ todo' = <<>> /\ sound' = FALSE /\ aligned' = FALSE
      /\ UNCHANGED <<withsof, state, escaped, sink, frame, begun, got>>
  BY DEF EncoderFails
<1>3. Len(todo') = 0 /\ todo' \in Seq(Octet)
  BY <1>2
<1>4. Remains'
  <2>1. Total' = Total /\ Total \in Nat
    BY <1>1, <1>2, EncodingStays, FrameShape
  <2>2. Len(todo') <= Total'
    BY <1>3, <2>1
  <2>3. \A j \in 1 .. Len(todo') : FALSE
    BY <1>3
  <2>4. \A j \in 1 .. Len(todo') : todo'[j] = Encode(frame)'[Position' + j]
    BY <2>3
  <2>. QED BY <2>2, <2>4 DEF Remains
<1>5. Len(todo') <= WorstCase(Len(frame))'
  <2>1. Len(frame) \in Nat
    BY <1>1 DEF TypeOK
  <2>2. WorstCase(Len(frame))' = WorstCase(Len(frame)) /\ WorstCase(Len(frame)) \in Nat
    BY <1>2, <2>1 DEF WorstCase
  <2>. QED BY <1>3, <2>2
<1>6. TypeOK'
  <2>1. DecoderType' /\ FrameType'
    BY <1>1, <1>2, TypeParts DEF DecoderType, FrameType
  <2>. QED BY <1>3, <1>5, <2>1, TypeParts
<1>7. Calm' /\ NoStart' /\ Knows' /\ Finds' /\ Returns'
  BY <1>1, <1>2 DEF Calm, NoStart, Knows, Finds, Returns
<1>. QED BY <1>4, <1>6, <1>7 DEF SlipInv

LEMMA SourceFailsKeeps ==
  ASSUME SlipInv, NEW keep \in BOOLEAN, SourceFails(keep)
  PROVE  SlipInv'
<1>1. TypeOK /\ Remains /\ Calm /\ NoStart /\ Knows /\ Finds /\ Returns
  BY DEF SlipInv
<1>2. /\ escaped' = FALSE /\ sink' = (IF keep THEN sink ELSE <<>>)
      /\ sound' = (sound /\ ~escaped /\ (keep \/ sink = <<>>))
      /\ UNCHANGED <<withsof, state, frame, todo, aligned, begun, got>>
  BY DEF SourceFails
<1>3. sink' = sink \/ sink' = <<>>
  BY <1>2
<1>4. Remains' /\ todo' \in Seq(Octet) /\ Len(todo') <= WorstCase(Len(frame))'
      /\ Position' = Position
  BY <1>1, <1>2, Stays
<1>5. TypeOK'
  <2>1. FrameType'
    BY <1>1, <1>2, TypeParts DEF FrameType
  <2>2. Len(<<>>) = 0 /\ 0 <= SinkSize /\ <<>> \in Seq(Octet)
    BY SizeAssumption
  <2>3. DecoderType'
    BY <1>1, <1>2, <1>3, <2>2, TypeParts DEF DecoderType
  <2>. QED BY <1>4, <2>1, <2>3, TypeParts
<1>6. Calm' /\ NoStart'
  BY <1>1, <1>2, <1>3 DEF Calm, NoStart
<1>7. (AtHome => AtHome') /\ (InFrame => InFrame')
  BY <1>2, <1>3 DEF AtHome, InFrame, Home
<1>8. Knows' /\ Finds'
  BY <1>1, <1>2, <1>4, <1>7 DEF Knows, Finds
<1>9. Returns'
  <2>. SUFFICES ASSUME sound, keep \/ sink = <<>>, ~escaped, begun PROVE Returns'
    BY <1>2 DEF Returns
  <2>1. sink' = sink /\ got' = got /\ ~escaped' /\ Opening' = Opening
    BY <1>2, <1>3 DEF Opening
  <2>2. Follows => Follows'
    <3>. SUFFICES ASSUME Follows PROVE Follows'
      OBVIOUS
    <3>1. state' = "NORMAL" /\ got' = "nothing"
      BY <1>2, <2>1 DEF Follows
    <3>2. \E n \in 0 .. Len(frame) :
            /\ sink = SubSeq(frame, 1, n)
            /\ Position = Len(Opening) + Len(Body(frame)[n]) + (IF escaped THEN 1 ELSE 0)
            /\ escaped => n < Len(frame) /\ frame[n + 1] \in {"ESC", "EOF"}
      BY DEF Follows
    <3>3. escaped' = escaped
      BY <1>1, <1>2 DEF TypeOK
    <3>4. frame' = frame
      BY <1>2
    <3>5. \E n \in 0 .. Len(frame') :
            /\ sink' = SubSeq(frame', 1, n)
            /\ Position' = Len(Opening') + Len(Body(frame')[n]) + (IF escaped' THEN 1 ELSE 0)
            /\ escaped' => n < Len(frame') /\ frame'[n + 1] \in {"ESC", "EOF"}
      BY <1>4, <2>1, <3>2, <3>3, <3>4, Zenon
    <3>. QED BY <3>1, <3>5 DEF Follows
  <2>. QED BY <1>1, <1>2, <1>4, <1>7, <2>1, <2>2 DEF Returns
<1>. QED BY <1>4, <1>5, <1>6, <1>8, <1>9 DEF SlipInv

LEMMA StutterKeeps ==
  ASSUME SlipInv, UNCHANGED vars
  PROVE  SlipInv'
<1>1. TypeOK /\ Remains /\ Calm /\ NoStart /\ Knows /\ Finds /\ Returns
  BY DEF SlipInv
<1>2. UNCHANGED <<withsof, state, escaped, sink, frame, todo, aligned, sound, begun, got>>
  BY DEF vars
<1>3. Remains' /\ todo' \in Seq(Octet) /\ Len(todo') <= WorstCase(Len(frame))'
      /\ Position' = Position
  BY <1>1, <1>2, Stays
<1>4. TypeOK'
  <2>1. DecoderType' /\ FrameType'
    BY <1>1, <1>2, TypeParts DEF DecoderType, FrameType
  <2>. QED BY <1>3, <2>1, TypeParts
<1>5. Calm' /\ NoStart'
  BY <1>1, <1>2 DEF Calm, NoStart
<1>6. (AtHome <=> AtHome') /\ (InFrame <=> InFrame') /\ Opening' = Opening
  BY <1>2 DEF AtHome, InFrame, Home, Opening
<1>7. Knows' /\ Finds'
  BY <1>1, <1>2, <1>3, <1>6 DEF Knows, Finds
<1>8. Follows <=> Follows'
  BY <1>2, <1>3, <1>6, Zenon DEF Follows
<1>9. Returns'
  BY <1>1, <1>2, <1>3, <1>6, <1>8 DEF Returns
<1>. QED BY <1>3, <1>4, <1>5, <1>7, <1>9 DEF SlipInv

LEMMA SourceFailsIllegallyKeeps ==
  ASSUME SlipInv, SourceFailsIllegally
  PROVE  SlipInv'
<1>1. TypeOK /\ Remains /\ Calm /\ NoStart /\ Knows /\ Finds /\ Returns
  BY DEF SlipInv
<1>2. /\ escaped' = FALSE /\ sink' = <<>>
      /\ UNCHANGED <<withsof, frame, todo, begun, got>>
  BY DEF SourceFailsIllegally
<1>3. Remains' /\ todo' \in Seq(Octet) /\ Len(todo') <= WorstCase(Len(frame))'
      /\ Position' = Position
  BY <1>1, <1>2, Stays
<1>4. CASE state = "NORMAL"
  <2>1. /\ state' = "SEARCH_FOR_END"
        /\ sound' = (sound /\ todo = <<>>) /\ aligned' = (aligned /\ todo # <<>>)
    BY <1>4 DEF SourceFailsIllegally, AfterIllegal, NoOctet
  <2>2. TypeOK'
    <3>1. FrameType'
      BY <1>1, <1>2, <2>1, TypeParts DEF FrameType
    <3>2. Len(<<>>) = 0 /\ 0 <= SinkSize /\ <<>> \in Seq(Octet)
      BY SizeAssumption
    <3>3. DecoderType'
      BY <1>1, <1>2, <2>1, <3>2, TypeParts DEF DecoderType
    <3>. QED BY <1>3, <3>1, <3>3, TypeParts
  <2>3. Calm' /\ NoStart' /\ InFrame'
    BY <1>2, <2>1 DEF Calm, NoStart, InFrame
  <2>4. Knows'
    <3>. SUFFICES ASSUME aligned, todo # <<>> PROVE ~(withsof /\ Position = 0)
      BY <1>2, <1>3, <2>1, <2>3 DEF Knows
    <3>. QED BY <1>1, <1>4 DEF Knows, AtHome, Home
  <2>5. Finds' /\ Returns'
    BY <1>1, <1>2, <2>1, <2>3 DEF Finds, Returns
  <2>. QED BY <1>3, <2>2, <2>3, <2>4, <2>5 DEF SlipInv
<1>5. CASE state # "NORMAL"
  <2>1. UNCHANGED <<state, sound, aligned>>
    BY <1>5 DEF SourceFailsIllegally
  <2>2. ~escaped /\ sink = <<>>
    BY <1>1, <1>5 DEF Calm
  <2>3. UNCHANGED vars
    BY <1>1, <1>2, <2>1, <2>2 DEF vars, TypeOK
  <2>. QED BY <2>3, StutterKeeps
<1>. QED BY <1>4, <1>5

LEMMA SinkFailsKeeps ==
  ASSUME SlipInv, SinkFails
  PROVE  SlipInv'
<1>1. TypeOK /\ Remains /\ Calm /\ NoStart /\ Knows
  BY DEF SlipInv
<1>2. /\ todo # <<>> /\ todo' = Tail(todo) /\ sound' = FALSE /\ state = "NORMAL"
      /\ escaped' = FALSE /\ sink' = <<>> /\ got' = "other"
      /\ UNCHANGED <<withsof, state, frame, aligned, begun>>
  BY DEF SinkFails, ReturnsError
<1>3. Head(todo) # "EOF"
  BY OctetsDiffer DEF SinkFails
<1>4. Remains' /\ todo' \in Seq(Octet) /\ Len(todo') <= WorstCase(Len(frame))'
      /\ Position' = Position + 1 /\ (todo' = <<>> <=> Len(todo) = 1)
  BY <1>1, <1>2, Advances
<1>5. TypeOK'
  <2>1. FrameType'
    BY <1>1, <1>2, TypeParts DEF FrameType
  <2>2. Len(<<>>) = 0 /\ 0 <= SinkSize /\ <<>> \in Seq(Octet)
    BY SizeAssumption
  <2>3. DecoderType'
    BY <1>1, <1>2, <2>2, TypeParts DEF DecoderType
  <2>. QED BY <1>4, <2>1, <2>3, TypeParts
<1>6. Calm' /\ NoStart'
  BY <1>1, <1>2 DEF Calm, NoStart
<1>7. Knows'
  <2>1. Position \in Nat /\ Len(todo) # 1
    BY <1>1, <1>2, <1>3, NextOctet
  <2>2. todo' # <<>> /\ Position' # 0
    BY <1>4, <2>1
  <2>3. InFrame'
    BY <1>2 DEF InFrame
  <2>. QED BY <2>2, <2>3 DEF Knows
<1>8. Finds' /\ Returns'
  BY <1>2 DEF Finds, Returns
<1>. QED BY <1>4, <1>5, <1>6, <1>7, <1>8 DEF SlipInv

LEMMA SlipInitially ==
  ASSUME Init
  PROVE  SlipInv
<1>1. /\ withsof \in BOOLEAN /\ state = Home /\ escaped = FALSE /\ sink = <<>>
      /\ frame = <<>> /\ todo = <<>>
      /\ aligned = TRUE /\ sound = FALSE /\ begun = FALSE /\ got = "nothing"
  BY DEF Init
<1>2. <<>> \in Seq(Octet) /\ Len(<<>>) = 0 /\ 0 <= SinkSize /\ 0 <= MaxFrame
  BY SizeAssumption
<1>3. WorstCase(Len(frame)) \in Nat
  BY <1>1, <1>2 DEF WorstCase
<1>4. Home \in {"SEARCH_FOR_START", "NORMAL"} /\ (~withsof => Home = "NORMAL")
  BY DEF Home
<1>5. TypeOK
  <2>1. todo \in Seq(Octet) /\ Len(todo) <= WorstCase(Len(frame))
    BY <1>1, <1>2, <1>3
  <2>2. frame \in Seq(Octet) /\ Len(frame) <= MaxFrame /\ sink \in Seq(Octet) /\ Len(sink) <= SinkSize
    BY <1>1, <1>2
  <2>3. state \in {"SEARCH_FOR_START", "SEARCH_FOR_END", "NORMAL"}
    BY <1>1, <1>4
  <2>. QED BY <1>1, <2>1, <2>2, <2>3, Zenon DEF TypeOK
<1>6. Remains
  <2>1. Total \in Nat
    BY <1>5, FrameShape
  <2>2. Len(todo) <= Total
    BY <1>1, <1>2, <2>1
  <2>3. \A j \in 1 .. Len(todo) : FALSE
    BY <1>1, <1>2
  <2>. QED BY <2>2, <2>3 DEF Remains
<1>7. Calm /\ NoStart
  BY <1>1, <1>4 DEF Calm, NoStart
<1>8. Knows /\ Finds /\ Returns
  BY <1>1 DEF Knows, AtHome, Finds, Returns
<1>. QED BY <1>5, <1>6, <1>7, <1>8 DEF SlipInv

LEMMA SlipSteps ==
  ASSUME SlipInv, Next
  PROVE  SlipInv'
<1>1. CASE \E payload \in Frames : StartFrame(payload)
  BY <1>1, StartFrameKeeps
<1>2. CASE Deliver
  BY <1>2, DeliverKeeps
<1>3. CASE Lose
  BY <1>3, LoseKeeps
<1>4. CASE \E octet \in Octet : Change(octet) \/ Noise(octet)
  BY <1>4, ChangeKeeps, NoiseKeeps
<1>5. CASE EncoderFails
  BY <1>5, EncoderFailsKeeps
<1>6. CASE \E keep \in BOOLEAN : SourceFails(keep)
  BY <1>6, SourceFailsKeeps
<1>7. CASE SourceFailsIllegally
  BY <1>7, SourceFailsIllegallyKeeps
<1>8. CASE SinkFails
  BY <1>8, SinkFailsKeeps
<1>. QED BY <1>1, <1>2, <1>3, <1>4, <1>5, <1>6, <1>7, <1>8 DEF Next

LEMMA SlipInvariant == Spec => []SlipInv
<1>1. Init => SlipInv
  BY SlipInitially
<1>2. SlipInv /\ [Next]_vars => SlipInv'
  BY SlipSteps, StutterKeeps
<1>. QED BY <1>1, <1>2, PTL DEF Spec

\* A sink never gets more octets than it has room for, and an encoded frame is never
\* longer than RFC1055_WORST_CASE() says, whatever octets it consists of.
THEOREM FramesFit == Spec => []TypeOK
<1>1. SlipInv => TypeOK
  BY DEF SlipInv
<1>. QED BY <1>1, SlipInvariant, PTL

\* rfc1055_decode() is back at its first state between frames, as long as only octets
\* that are no delimiters were lost or changed since one frame arrived whole, and its
\* source failed in any way; only an -EILSEQ of the source on an idle line, without
\* RFC1055_WITH_SOF, takes another whole frame to get back from.
THEOREM DecoderIsHomeAgain == Spec => []DecoderRealigns
<1>1. SlipInv => DecoderRealigns
  BY DEF SlipInv, Knows, AtHome, DecoderRealigns
<1>. QED BY <1>1, SlipInvariant, PTL

\* What rfc1055_encode() sends in a frame is what rfc1055_decode() returns, once, if
\* the decoder was aligned when the frame began and nothing happened to it: every
\* payload of every length, with and without RFC1055_WITH_SOF, and also if the
\* source had nothing to offer in between; but not if it failed behind an ESC, or
\* with -EILSEQ inside of the frame, which rfc1055_decode() takes for a bad octet.
THEOREM SoundFramesArrive == Spec => []FrameArrives
<1>1. SlipInv => FrameArrives
  BY DEF SlipInv, Returns, FrameArrives
<1>. QED BY <1>1, SlipInvariant, PTL

(***************************************************************************)
(* Proofs about length prefix framing, for all octets, payloads and kinds  *)
(* of prefix: the payloads of the frames that were sent are read.          *)
(*                                                                         *)
(* The prefix, a word or a variable length integer, is read as the number  *)
(* it was made from, and as soon as all of it is on the wire               *)
(* (PrefixTravels).  What is on the wire, with what a call has still to    *)
(* put of a frame, are whole frames: those of the payloads that are due    *)
(* (Carries), behind what is left of the one that is being read (Reads).   *)
(* A payload is due from when it is announced, before any octet of it is   *)
(* on the wire (Owes).                                                     *)
(***************************************************************************)

\* The octets of a number in a word of w octets.
LEMMA DigitsAre ==
  ASSUME NEW n \in Nat, NEW w \in Nat
  PROVE  /\ Digits(n, w) \in Seq(Nat) /\ Len(Digits(n, w)) = w
         /\ \E left : /\ Lefts(left, Values, n, w)
                      /\ AreDigits(Digits(n, w), left, Values, w)
<1>. DEFINE left == CHOOSE f : f = [i \in 0 .. w |-> IF i = 0 THEN n ELSE f[i - 1] \div Values]
            x == [i \in 1 .. w |-> left[i - 1] % Values]
<1>1. Digits(n, w) = x
  BY DEF Digits
<1>2. Lefts(left, Values, n, w)
  <2>1. Values \in Nat /\ Values >= 2
    BY ValuesAssumption
  <2>. HIDE DEF left
  <2>2. left = CHOOSE f : f = [i \in 0 .. w |-> IF i = 0 THEN n ELSE f[i - 1] \div Values]
    BY Zenon DEF left
  <2>. QED BY <2>1, <2>2, LeftsExist, Zenon
<1>. HIDE DEF left
<1>3. x \in Seq(Nat) /\ Len(x) = w
  <2>1. ASSUME NEW i \in 1 .. w PROVE left[i - 1] % Values \in Nat
    <3>1. left[i - 1] \in Nat
      BY <1>2 DEF Lefts
    <3>. QED BY <3>1, ValuesAssumption
  <2>. QED BY <2>1
<1>4. AreDigits(x, left, Values, w)
  BY DEF AreDigits
<1>. HIDE DEF x
<1>. QED BY <1>1, <1>2, <1>3, <1>4, Zenon

Reversed(x, w) == [i \in 1 .. w |-> x[w + 1 - i]]

\* A word in memory lies there in the order of its kind.
LEMMA WordIsSet ==
  ASSUME NEW w \in {2, 4}, NEW x \in Seq(Nat), Len(x) = w
  PROVE  LET mem == [i \in 1 .. w |-> 0]
         IN  /\ F!SetUnsignedLittle(mem, 0, w, Host, x) = x
             /\ F!SetUnsignedBig(mem, 0, w, Host, x) = Reversed(x, w)
<1>. DEFINE mem == [i \in 1 .. w |-> 0]
<1>1. w \in Nat /\ Len(mem) = w
  OBVIOUS
<1>2. ASSUME NEW y \in Seq(Nat), Len(y) = w
      PROVE  F!SetUnsignedNative(mem, 0, w, Host, y) = y
  <2>1. F!Image(y, Host) = [i \in 1 .. w |-> y[i]]
    BY <1>2 DEF F!Image, Host
  <2>2. y = [i \in 1 .. w |-> y[i]]
    BY <1>2
  <2>3. F!Lead(w, Host) = 0
    BY DEF F!Lead, Host
  <2>4. F!SetUnsignedNative(mem, 0, w, Host, y)
          = [i \in 1 .. Len(mem) |-> IF i - 0 \in 1 .. w THEN y[i - 0 + 0] ELSE mem[i]]
    <3>. DEFINE Put(src, lead) ==
           [i \in 1 .. Len(mem) |-> IF i - 0 \in 1 .. w THEN src[i - 0 + lead] ELSE mem[i]]
    <3>1. F!SetUnsignedNative(mem, 0, w, Host, y) = Put(F!Image(y, Host), F!Lead(w, Host))
      BY Zenon DEF F!SetUnsignedNative
    <3>2. F!Image(y, Host) = y
      BY <2>1, <2>2, Zenon
    <3>3. F!SetUnsignedNative(mem, 0, w, Host, y) = Put(y, 0)
      <4>. HIDE DEF Put
      <4>. QED BY <2>3, <3>1, <3>2, Zenon
    <3>. QED BY <3>3, Zenon
  <2>. HIDE DEF mem
  <2>5. [i \in 1 .. Len(mem) |-> IF i - 0 \in 1 .. w THEN y[i - 0 + 0] ELSE mem[i]]
          = [i \in 1 .. w |-> y[i]]
    BY <1>1
  <2>. QED BY <2>2, <2>4, <2>5, Zenon
<1>3. F!SetUnsignedLittle(mem, 0, w, Host, x) = x
  <2>1. F!SetUnsignedLittle(mem, 0, w, Host, x) = F!SetUnsignedNative(mem, 0, w, Host, x)
    BY DEF F!SetUnsignedLittle, Host
  <2>. QED BY <1>2, <2>1, Zenon
<1>4. F!SetUnsignedBig(mem, 0, w, Host, x) = Reversed(x, w)
  <2>1. F!SetUnsignedBig(mem, 0, w, Host, x) = F!SetUnsignedNative(mem, 0, w, Host, F!Swap(x, w))
    BY DEF F!SetUnsignedBig, Host
  <2>2. F!Swap(x, w) = Reversed(x, w)
    BY <1>1 DEF F!Swap, Reversed
  <2>3. Reversed(x, w) \in Seq(Nat) /\ Len(Reversed(x, w)) = w
    <3>1. ASSUME NEW i \in 1 .. w PROVE x[w + 1 - i] \in Nat
      <4>1. w + 1 - i \in 1 .. Len(x)
        BY <1>1
      <4>. QED BY <4>1, ElementOfSeq, Zenon
    <3>. QED BY <1>1, <3>1 DEF Reversed
  <2>. QED BY <1>2, <2>1, <2>2, <2>3, Zenon
<1>. HIDE DEF mem
<1>5. F!SetUnsignedLittle(mem, 0, w, Host, x) = x /\ F!SetUnsignedBig(mem, 0, w, Host, x) = Reversed(x, w)
  BY <1>3, <1>4, Zenon
<1>. QED BY <1>5, Zenon DEF mem

LEMMA WordIsRead ==
  ASSUME NEW w \in {2, 4}, NEW s \in Seq(Nat), w <= Len(s)
  PROVE  /\ F!RefUnsignedLittle(s, 0, w, Host) = [i \in 1 .. w |-> s[i]]
         /\ F!RefUnsignedBig(s, 0, w, Host) = Reversed(s, w)
<1>. DEFINE x == [i \in 1 .. w |-> s[i]]
<1>1. w \in Nat /\ Len(s) \in Nat
  OBVIOUS
<1>2. x \in Seq(Nat) /\ Len(x) = w
  <2>1. ASSUME NEW i \in 1 .. w PROVE s[i] \in Nat
    <3>1. i \in 1 .. Len(s)
      BY <1>1
    <3>. QED BY <3>1, ElementOfSeq, Zenon
  <2>. QED BY <1>1, <2>1
<1>3. F!RefUnsignedNative(s, 0, w, Host) = x
  <2>1. F!Container(w) = w /\ F!Lead(w, Host) = 0
    BY DEF F!Container, F!Lead, Host
  <2>2. F!RefUnsignedNative(s, 0, w, Host)
          = F!Image([i \in 1 .. w |-> IF i - 0 \in 1 .. w THEN s[0 + i - 0] ELSE 0], Host)
    BY <2>1, Zenon DEF F!RefUnsignedNative
  <2>3. [i \in 1 .. w |-> IF i - 0 \in 1 .. w THEN s[0 + i - 0] ELSE 0] = x
    BY <1>1
  <2>4. F!Image(x, Host) = x
    BY <1>2 DEF F!Image, Host
  <2>. QED BY <2>2, <2>3, <2>4, Zenon
<1>4. F!RefUnsignedLittle(s, 0, w, Host) = x
  BY <1>3 DEF F!RefUnsignedLittle, Host
<1>5. F!RefUnsignedBig(s, 0, w, Host) = Reversed(s, w)
  <2>1. F!RefUnsignedBig(s, 0, w, Host) = F!Swap(x, w)
    <3>1. F!RefUnsignedBig(s, 0, w, Host) = F!Swap(F!RefUnsignedNative(s, 0, w, Host), w)
      BY DEF F!RefUnsignedBig, Host
    <3>. QED BY <1>3, <3>1, Zenon
  <2>2. F!Swap(x, w) = [i \in 1 .. w |-> IF i <= w THEN x[w + 1 - i] ELSE 0]
    BY <1>2, Zenon DEF F!Swap
  <2>3. ASSUME NEW i \in 1 .. w PROVE (IF i <= w THEN x[w + 1 - i] ELSE 0) = s[w + 1 - i]
    <3>1. w + 1 - i \in 1 .. w /\ i <= w
      BY <1>1
    <3>. QED BY <3>1
  <2>. HIDE DEF x
  <2>4. [i \in 1 .. w |-> IF i <= w THEN x[w + 1 - i] ELSE 0] = Reversed(s, w)
    BY <2>3, Zenon DEF Reversed
  <2>. QED BY <2>1, <2>2, <2>4, Zenon
<1>. QED BY <1>4, <1>5, Zenon

\* Words of w octets hold the number.
FitsWord(n, w) ==
  \/ w = 2 /\ n < Values * Values
  \/ w = 4 /\ n < (Values * Values) * (Values * Values)

\* The number that a word's octets stand for is the one they were made from.
LEMMA WordIsNumber ==
  ASSUME NEW n \in Nat, NEW w \in Nat, FitsWord(n, w)
  PROVE  F!Number(Digits(n, w)) = n
<1>. DEFINE x == Digits(n, w)
<1>0. w \in Nat /\ Values \in Nat /\ Values >= 2
  BY ValuesAssumption
<1>1. x \in Seq(Nat) /\ Len(x) = w
  BY <1>0, DigitsAre, Zenon
<1>2. PICK left : /\ Lefts(left, Values, n, w)
                  /\ AreDigits(x, left, Values, w)
  BY <1>0, DigitsAre, Zenon
<1>. HIDE DEF x
<1>3. left \in [0 .. w -> Nat] /\ left[0] = n /\ \A i \in 1 .. w : left[i] = left[i - 1] \div Values
  BY <1>2, Zenon DEF Lefts
<1>4. left[w] = 0
  <2>. w \in {2, 4}
    BY DEF FitsWord
  <2>1. 0 \in 0 .. w /\ 1 \in 1 .. w /\ 2 \in 1 .. w /\ 1 \in 0 .. w /\ 2 \in 0 .. w
    OBVIOUS
  <2>2. /\ left[1] = n \div Values /\ left[2] = left[1] \div Values
        /\ left[1] \in Nat /\ left[2] \in Nat
    BY <1>3, <2>1
  <2>3. CASE w = 2
    <3>1. left[1] < Values
      <4>1. n < Values * Values
        BY <2>3 DEF FitsWord
      <4>. QED BY <1>0, <2>2, <4>1, QuotientBound
    <3>2. left[2] < 1
      <4>1. left[1] < Values * 1 /\ 1 \in Nat
        BY <1>0, <3>1
      <4>. QED BY <1>0, <2>2, <4>1, QuotientBound
    <3>. QED BY <2>2, <2>3, <3>2
  <2>4. CASE w = 4
    <3>1. 3 \in 1 .. w /\ 4 \in 1 .. w /\ 3 \in 0 .. w /\ 4 \in 0 .. w
      BY <2>4
    <3>2. /\ left[3] = left[2] \div Values /\ left[4] = left[3] \div Values
          /\ left[3] \in Nat /\ left[4] \in Nat
      BY <1>3, <3>1
    <3>. DEFINE v2 == Values * Values
                v3 == Values * v2
    <3>3. v2 \in Nat /\ v3 \in Nat
      BY <1>0
    <3>4. n < Values * v3
      <4>1. n < v2 * v2
        BY <2>4 DEF FitsWord
      <4>2. v2 * v2 = Values * v3
        BY <1>0
      <4>. QED BY <4>1, <4>2
    <3>5. Values * 1 = Values /\ 1 \in Nat
      BY <1>0
    <3>. HIDE DEF v3
    <3>6. left[1] < v3
      BY <1>0, <2>2, <3>3, <3>4, QuotientBound
    <3>7. left[2] < v2
      <4>. HIDE DEF v2
      <4>. QED BY <1>0, <2>2, <3>3, <3>6, QuotientBound DEF v3
    <3>8. left[3] < Values
      BY <1>0, <2>2, <3>2, <3>7, QuotientBound
    <3>9. left[4] < 1
      BY <1>0, <3>2, <3>5, <3>8, QuotientBound
    <3>. QED BY <2>4, <3>2, <3>9
  <2>. QED BY <2>3, <2>4
<1>. DEFINE from == CHOOSE f : f = [i \in 1 .. Len(x) + 1 |-> IF i > Len(x) THEN 0 ELSE x[i] + Values * f[i + 1]]
<1>5. F!Number(x) = from[1]
  BY Zenon DEF F!Number
<1>6. from = CHOOSE f : Adds(f, Values, x, w)
  BY <1>1, Zenon DEF Adds
<1>. HIDE DEF from
<1>7. from[1] = n
  <2>1. IsTheSum(from, Values, x, w)
    BY <1>6, Zenon DEF IsTheSum
  <2>2. w \in Nat
    BY <1>0
  <2>. QED BY <1>0, <1>2, <1>4, <2>1, <2>2, AddsUp, Zenon
<1>8. F!Number(x) = n
  BY <1>5, <1>7, Zenon
<1>. QED BY <1>8 DEF x

\* Wherever a sequence still has octets for it, it begins with another one.
Agrees(s, g) == \A i \in 1 .. Len(g) : i <= Len(s) => s[i] = g[i]

LEMMA DataValuesAreNumbers ==
  /\ Values \div 2 \in Nat /\ Values \div 2 >= 2
  BY ValuesAssumption

\* Behind the last octet of a variable length number nothing is left, in front of it something is.
LEMMA LengthIs ==
  ASSUME NEW n \in Nat
  PROVE  /\ V!Length(n) \in 1 .. n + 1
         /\ \E left : /\ Lefts(left, Values \div 2, n, V!Length(n)) /\ left[V!Length(n)] = 0
                      /\ \A i \in 0 .. V!Length(n) : V!Left(n)[i] = left[i]
<1>. DEFINE D == Values \div 2
<1>0. D \in Nat /\ D >= 2
  BY DataValuesAreNumbers
<1>1. IsLeft(V!Left(n), D, n)
  BY Zenon DEF V!Left, IsLeft
<1>2. IsEnd(V!Length(n), V!Left(n), n)
  BY Zenon DEF V!Length, IsEnd
<1>. HIDE DEF D
<1>3. V!Length(n) \in 1 .. n + 1 /\ RunsOut(V!Left(n), D, n, V!Length(n))
  BY <1>0, <1>1, <1>2, DigitsEnd, Zenon
<1>. QED BY <1>3, Zenon DEF D, RunsOut

\* What varint_u64_to_sink() puts are the octets of the number.
LEMMA SinkGets ==
  ASSUME NEW n \in 0 .. SSizeMax
  PROVE  V!ToSink(n, 64) = V!OctetsOf(n)
<1>. DEFINE o == V!OctetsOf(n)
            L == V!Length(n)
            mem == [i \in 1 .. 10 |-> 0]
            b == [data |-> mem, used |-> 0, offset |-> 0]
<1>1. n \in Nat /\ L \in Nat /\ L <= 10 /\ SizeWord \in Nat /\ SizeWord > 10 /\ L >= 1
  <2>1. n \in Nat
    BY PrefixAssumption
  <2>2. V!Length(n) \in 1 .. n + 1
    BY <2>1, LengthIs
  <2>. QED BY <2>1, <2>2, PrefixAssumption DEF SizeWord
<1>2. o = [i \in 1 .. L |-> o[i]] /\ Len(o) = L
  <2>. DEFINE oct(i) == (V!Left(n)[i - 1] % (Values \div 2)) + (IF i < L THEN Values \div 2 ELSE 0)
  <2>1. o = [i \in 1 .. L |-> oct(i)]
    BY Zenon DEF V!OctetsOf
  <2>. HIDE DEF o, oct, L
  <2>. QED BY <1>1, <2>1
<1>. HIDE DEF o, L
<1>3. V!MaxOctets(64) = 10
  BY DEF V!MaxOctets
<1>4. V!BB!Space(V!BB!Null, mem).buf = b
  <2>1. mem # <<>> /\ Len(mem) = 10
    OBVIOUS
  <2>2. V!BB!Space(V!BB!Null, mem) = V!BB!Succeeds(b)
    <3>1. ~(mem = <<>> \/ 0 > Len(mem) \/ 0 > 0)
      BY <2>1
    <3>. HIDE DEF mem
    <3>. QED BY <3>1, Zenon DEF V!BB!Space, V!BB!Set, b
  <2>. HIDE DEF b, mem
  <2>. QED BY <2>2 DEF V!BB!Succeeds
<1>5. b.data = mem /\ b.used = 0 /\ b.offset = 0 /\ Len(mem) = 10
  OBVIOUS
<1>6. V!BB!Avail(b) = 10
  <2>1. V!BB!Avail(b) = (10 - 0) % SizeWord
    BY <1>5, Zenon DEF V!BB!Avail, V!BB!Size
  <2>. QED BY <1>1, <2>1
<1>. DEFINE memory == [i \in 1 .. 10 |-> IF i \in 1 .. L THEN o[i] ELSE 0]
<1>7. V!BB!Patch(mem, 0, o) = memory
  <2>1. V!BB!Patch(mem, 0, o) = [i \in DOMAIN mem |-> IF i \in 0 + 1 .. 0 + L THEN o[i - 0] ELSE mem[i]]
    BY <1>2, Zenon DEF V!BB!Patch
  <2>2. DOMAIN mem = 1 .. 10 /\ \A i \in 1 .. 10 : mem[i] = 0
    OBVIOUS
  <2>. HIDE DEF mem
  <2>. QED BY <1>1, <2>1, <2>2
<1>8. V!Encode(b, n, 64).buf = [b EXCEPT !.data = memory, !.used = L]
  <2>. DEFINE good == [rc |-> Len(o),
                       buf |-> [b EXCEPT !.data = V!BB!Patch(b.data, b.offset, o),
                                         !.used = b.offset + Len(o)],
                       out |-> <<>>]
  <2>1. ~(V!BB!Avail(b) < V!MaxOctets(64))
    BY <1>3, <1>6
  <2>2. V!Encode(b, n, 64) = good
    <3>. HIDE DEF b
    <3>1. V!Encode(b, n, 64) = IF V!BB!Avail(b) < V!MaxOctets(64) THEN V!BB!Refuses(b, "EINVAL") ELSE good
      BY Zenon DEF V!Encode, o
    <3>. HIDE DEF good
    <3>. QED BY <2>1, <3>1, Zenon
  <2>. DEFINE new(d, u) == [b EXCEPT !.data = d, !.used = u]
  <2>3. good.buf = new(V!BB!Patch(b.data, b.offset, o), b.offset + Len(o))
    <3>. HIDE DEF b
    <3>. QED OBVIOUS
  <2>4. V!BB!Patch(b.data, b.offset, o) = memory /\ b.offset + Len(o) = L
    <3>1. b.data = mem /\ b.offset = 0
      BY <1>5
    <3>2. 0 + Len(o) = L
      BY <1>1, <1>2
    <3>. HIDE DEF b, mem, memory
    <3>. QED BY <1>7, <3>1, <3>2, Zenon
  <2>5. V!Encode(b, n, 64).buf = new(memory, L)
    <3>. HIDE DEF b, mem, memory, new, good
    <3>. QED BY <2>2, <2>3, <2>4, Zenon
  <2>. QED BY <2>5, Zenon
<1>9. V!ToSink(n, 64) = SubSeq(memory, 1, L)
  <2>. DEFINE e == V!Encode(b, n, 64).buf
  <2>1. e.data = memory /\ e.used = L
    <3>. HIDE DEF memory
    <3>1. e = [data |-> memory, used |-> L, offset |-> 0]
      BY <1>8
    <3>. HIDE DEF e
    <3>. QED BY <3>1
  <2>2. V!ToSink(n, 64) = SubSeq(e.data, 1, e.used)
    <3>1. V!ToSink(n, 64) = LET c == V!Encode(V!BB!Space(V!BB!Null, [i \in 1 .. V!MaxOctets(64) |-> 0]).buf, n, 64).buf
                            IN  SubSeq(c.data, 1, c.used)
      BY Zenon DEF V!ToSink
    <3>. DEFINE zeros(m) == [i \in 1 .. m |-> 0]
                c(m) == V!Encode(V!BB!Space(V!BB!Null, zeros(m)).buf, n, 64).buf
    <3>2. V!ToSink(n, 64) = SubSeq(c(V!MaxOctets(64)).data, 1, c(V!MaxOctets(64)).used)
      BY <3>1, Zenon
    <3>3. c(10) = e
      <4>1. zeros(10) = mem
        BY Zenon
      <4>. HIDE DEF zeros, mem, b
      <4>. QED BY <1>4, <4>1, Zenon
    <3>. HIDE DEF c, e
    <3>. QED BY <1>3, <3>2, <3>3, Zenon
  <2>. HIDE DEF e, memory
  <2>. QED BY <2>1, <2>2, Zenon
<1>10. SubSeq(memory, 1, L) = o
  <2>1. SubSeq(memory, 1, L) = [i \in 1 .. L |-> o[i]]
    BY <1>1
  <2>. QED BY <1>2, <2>1, Zenon
<1>. HIDE DEF memory
<1>. QED BY <1>9, <1>10, Zenon DEF o

\* The number's octets find their way: they are not taken for those of another number,
\* and it takes all of them to know the number.
LEMMA VariableTravels ==
  ASSUME NEW n \in 0 .. SSizeMax
  PROVE  LET g == V!ToSink(n, 64)
         IN  /\ g \in Seq(Nat) /\ Len(g) > 0
             /\ \A s \in Seq(Nat) :
                  Agrees(s, g) /\ V!FromSource(s, 64, "EIO").rc # "EIO" =>
                    /\ V!FromSource(s, 64, "EIO") = [rc |-> "ok", n |-> n, taken |-> Len(g)]
                    /\ Len(g) <= Len(s)
<1>. DEFINE D == Values \div 2
            g == V!ToSink(n, 64)
            L == V!Length(n)
<1>0. D \in Nat /\ D >= 2 /\ n \in Nat
  BY DataValuesAreNumbers, PrefixAssumption
<1>1. L \in Nat /\ L >= 1 /\ L <= 10 /\ n < Wide
  <2>1. L \in 1 .. n + 1
    BY <1>0, LengthIs
  <2>. QED BY <1>0, <2>1, PrefixAssumption
<1>2. PICK left : Lefts(left, D, n, L) /\ left[L] = 0 /\ \A i \in 0 .. L : V!Left(n)[i] = left[i]
  BY <1>0, LengthIs, Zenon
<1>. HIDE DEF D
<1>3. left \in [0 .. L -> Nat]
  BY <1>2, Zenon DEF Lefts
<1>4. AreOctets(g, left, D, L)
  <2>. DEFINE oct(i) == (left[i - 1] % D) + (IF i < L THEN D ELSE 0)
  <2>1. g = V!OctetsOf(n)
    BY SinkGets, Zenon
  <2>2. V!OctetsOf(n) = [i \in 1 .. L |-> (V!Left(n)[i - 1] % D) + (IF i < L THEN D ELSE 0)]
    BY Zenon DEF V!OctetsOf, D
  <2>3. ASSUME NEW i \in 1 .. L
        PROVE  (V!Left(n)[i - 1] % D) + (IF i < L THEN D ELSE 0) = oct(i)
    <3>1. i - 1 \in 0 .. L
      BY <1>1
    <3>. QED BY <1>2, <3>1, Zenon
  <2>4. g = [i \in 1 .. L |-> oct(i)]
    <3>. HIDE DEF g, L, oct
    <3>. QED BY <2>1, <2>2, <2>3, Zenon
  <2>. HIDE DEF g, L
  <2>. QED BY <2>4, Zenon DEF AreOctets
<1>. HIDE DEF g, L
<1>5. IsEncoding(g, left, D, L)
  BY <1>0, <1>1, <1>3, <1>4, EncodingIs, Zenon
<1>6. /\ g \in Seq(Nat) /\ Len(g) = L
      /\ \A i \in 1 .. L : g[i] < D <=> i = L
  BY <1>5, Zenon DEF IsEncoding
<1>7. ASSUME NEW s \in Seq(Nat), Agrees(s, g), V!FromSource(s, 64, "EIO").rc # "EIO"
      PROVE  /\ V!FromSource(s, 64, "EIO") = [rc |-> "ok", n |-> n, taken |-> L]
             /\ L <= Len(s)
  <2>. DEFINE E == V!Ends(s, 10)
  <2>0. Len(s) \in Nat /\ V!MaxOctets(64) = 10 /\ V!Modulus(64) = Wide
    BY DEF V!MaxOctets, V!Modulus
  <2>1. \A i \in 1 .. L : i <= Len(s) => s[i] = g[i]
    BY <1>6, <1>7, Zenon DEF Agrees
  <2>2. \A i : i \in E <=> i \in 1 .. 10 /\ i <= Len(s) /\ s[i] < D
    BY Zenon DEF V!Ends, V!Done, D
  <2>. HIDE DEF E
  <2>3. \A i \in E : L <= i
    <3>1. ASSUME NEW i \in E, i < L PROVE FALSE
      <4>1. i \in 1 .. 10 /\ i <= Len(s) /\ s[i] < D
        BY <2>2
      <4>2. i \in 1 .. L /\ i # L
        BY <1>1, <3>1, <4>1
      <4>. QED BY <1>6, <2>1, <4>1, <4>2, Zenon
    <3>2. \A i \in E : i \in Nat
      BY <2>2
    <3>. QED BY <1>1, <3>1, <3>2
  <2>4. L <= Len(s)
    <3>. SUFFICES ASSUME Len(s) < L PROVE FALSE
      BY <1>1, <2>0
    <3>1. E = {}
      <4>1. \A i \in E : i \in Nat /\ i <= Len(s)
        BY <2>2
      <4>. QED BY <1>1, <2>0, <2>3, <4>1
    <3>2. ~(Len(s) >= 10)
      BY <1>1, <2>0
    <3>. DEFINE failed == [rc |-> "EIO", n |-> 0, taken |-> Len(s)]
    <3>3. V!FromSource(s, 64, "EIO") = failed
      BY <2>0, <3>1, <3>2, Zenon DEF V!FromSource, E
    <3>4. failed.rc = "EIO"
      OBVIOUS
    <3>. HIDE DEF failed
    <3>. QED BY <1>7, <3>3, <3>4, Zenon
  <2>5. L \in E
    <3>1. L \in 1 .. L /\ L \in 1 .. 10
      BY <1>1
    <3>2. s[L] < D
      BY <1>6, <2>1, <2>4, <3>1, Zenon
    <3>. QED BY <2>2, <2>4, <3>1, <3>2
  <2>6. V!EndOf(s, 10) = L
    <3>. DEFINE Is(i) == \A j \in E : i <= j
    <3>1. V!EndOf(s, 10) = CHOOSE i \in E : Is(i)
      BY Zenon DEF V!EndOf, E
    <3>2. \A i \in E : Is(i) <=> i = L
      <4>1. \A i \in E : i \in Nat
        BY <2>2
      <4>. QED BY <1>1, <2>3, <2>5, <4>1
    <3>. HIDE DEF Is
    <3>. QED BY <2>5, <3>1, <3>2, Zenon
  <2>7. V!NumberIn(s, L, 64) = n
    <3>. DEFINE from == CHOOSE f : f = [i \in 1 .. L + 1 |->
                                          IF i > L THEN 0 ELSE (s[i] % D) + D * f[i + 1]]
    <3>3. V!NumberIn(s, L, 64) = from[1] % Wide
      BY <2>0, Zenon DEF V!NumberIn, D
    <3>4. SumsDigits(from, s, D, L)
      BY Zenon DEF SumsDigits
    <3>. HIDE DEF from
    <3>5. from[1] = n
      <4>1. D \in Nat /\ D >= 2 /\ n \in Nat /\ L \in Nat
        BY <1>0, <1>1
      <4>2. Lefts(left, D, n, L) /\ left[L] = 0
        BY <1>2, Zenon
      <4>3. BeginsWithOctets(s, g, L)
        <5>1. \A i \in 1 .. L : i <= Len(s)
          BY <1>1, <2>0, <2>4
        <5>. QED BY <2>1, <5>1, Zenon DEF BeginsWithOctets
      <4>. QED BY <1>5, <3>4, <4>1, <4>2, <4>3, EncodingIsRead, Zenon
    <3>6. n % Wide = n
      <4>1. Wide \in Nat
        <5>. DEFINE square == Values * Values
                    fourth == square * square
        <5>1. square \in Nat
          BY ValuesAssumption
        <5>. HIDE DEF square
        <5>2. fourth \in Nat
          BY <5>1
        <5>. HIDE DEF fourth
        <5>3. fourth * fourth \in Nat
          BY <5>2
        <5>4. Wide = fourth * fourth
          BY Zenon DEF Wide, fourth, square
        <5>. QED BY <5>3, <5>4
      <4>. QED BY <1>0, <1>1, <4>1
    <3>. QED BY <3>3, <3>5, <3>6, Zenon
  <2>8. V!FromSource(s, 64, "EIO") = [rc |-> "ok", n |-> n, taken |-> L]
    <3>. DEFINE m == V!EndOf(s, V!MaxOctets(64))
                F1 == [rc |-> "ok", n |-> V!NumberIn(s, m, 64), taken |-> m]
    <3>1. V!Ends(s, V!MaxOctets(64)) # {}
      BY <2>0, <2>5, Zenon DEF E
    <3>2. V!FromSource(s, 64, "EIO") = F1
      BY <3>1, Zenon DEF V!FromSource
    <3>3. m = L
      BY <2>0, <2>6, Zenon
    <3>. HIDE DEF m
    <3>4. F1 = [rc |-> "ok", n |-> n, taken |-> L]
      BY <2>7, <3>3, Zenon
    <3>. QED BY <3>2, <3>4, Zenon
  <2>. QED BY <2>4, <2>8
<1>8. \A s \in Seq(Nat) : Agrees(s, g) /\ V!FromSource(s, 64, "EIO").rc # "EIO" =>
        /\ V!FromSource(s, 64, "EIO") = [rc |-> "ok", n |-> n, taken |-> Len(g)]
        /\ Len(g) <= Len(s)
  BY <1>6, <1>7, Zenon
<1>9. g \in Seq(Nat) /\ Len(g) > 0
  BY <1>1, <1>6
<1>. QED BY <1>8, <1>9, Zenon DEF g

Little == {"LE_16BIT", "LE_32BIT"}
Big    == {"BE_16BIT", "BE_32BIT"}

LEMMA WordKinds ==
  ASSUME NEW k \in Little \cup Big, NEW n \in Nat, ~TooLong(k, n)
  PROVE  /\ PrefixSize(k) \in {2, 4} /\ FitsWord(n, PrefixSize(k))
         /\ k # "OCTET" /\ k # "VARIABLE"
<1>1. k # "OCTET" /\ k # "VARIABLE"
  BY DEF Little, Big
<1>2. n <= Maximum(k)
  <2>1. ~(n > Maximum(k))
    BY <1>1 DEF TooLong
  <2>2. Maximum(k) \in Int
    <3>1. Values * Values - 1 \in Int /\ Values - 1 \in Int /\ Values * Values \in Int
      BY ValuesAssumption
    <3>. DEFINE square == Values * Values
    <3>. HIDE DEF square
    <3>2. square * square - 1 \in Int
      BY <3>1 DEF square
    <3>3. (Values * Values) * (Values * Values) - 1 \in Int
      BY <3>2, Zenon DEF square
    <3>. QED BY <3>1, <3>3 DEF Maximum
  <2>. QED BY <2>1, <2>2
<1>3. CASE k \in {"LE_16BIT", "BE_16BIT"}
  <2>1. PrefixSize(k) = 2
    BY <1>3 DEF PrefixSize
  <2>2. Maximum(k) = Values * Values - 1
    BY <2>1 DEF Maximum
  <2>3. n < Values * Values
    BY <1>2, <2>2, ValuesAssumption
  <2>. QED BY <1>1, <2>1, <2>3 DEF FitsWord
<1>4. CASE k \in {"LE_32BIT", "BE_32BIT"}
  <2>. DEFINE big == (Values * Values) * (Values * Values)
  <2>0. big \in Nat
    <3>. DEFINE square == Values * Values
    <3>1. square \in Nat
      BY ValuesAssumption
    <3>. HIDE DEF square
    <3>2. square * square \in Nat
      BY <3>1
    <3>. QED BY <3>2, Zenon DEF square
  <2>1. PrefixSize(k) = 4
    BY <1>4 DEF PrefixSize
  <2>2. Maximum(k) = big - 1
    BY <2>1 DEF Maximum
  <2>. HIDE DEF big
  <2>3. n < big
    BY <1>2, <2>0, <2>2
  <2>. QED BY <1>1, <2>1, <2>3 DEF FitsWord, big
<1>5. k \in {"LE_16BIT", "BE_16BIT"} \/ k \in {"LE_32BIT", "BE_32BIT"}
  BY DEF Little, Big
<1>. QED BY <1>3, <1>4, <1>5

\* The prefix of the kinds that are words: the number's octets in the kind's order.
LEMMA WordPrefix ==
  ASSUME NEW k \in Little \cup Big, NEW n \in Nat, ~TooLong(k, n)
  PROVE  LET w == PrefixSize(k)
         IN  /\ Generate(k, n) \in Seq(Nat) /\ Len(Generate(k, n)) = w
             /\ Generate(k, n) = IF k \in Little THEN Digits(n, w) ELSE Reversed(Digits(n, w), w)
<1>. DEFINE w == PrefixSize(k)
            x == Digits(n, w)
            mem == [i \in 1 .. w |-> 0]
<1>1. w \in {2, 4} /\ k # "OCTET" /\ k # "VARIABLE"
  BY WordKinds
<1>2. x \in Seq(Nat) /\ Len(x) = w /\ w \in Nat
  <2>1. w \in Nat
    BY <1>1
  <2>. QED BY <2>1, DigitsAre
<1>3. F!SetUnsignedLittle(mem, 0, w, Host, x) = x
  <2>. HIDE DEF x, w
  <2>. QED BY <1>1, <1>2, WordIsSet, Zenon
<1>4. F!SetUnsignedBig(mem, 0, w, Host, x) = Reversed(x, w)
  <2>. HIDE DEF x, w
  <2>. QED BY <1>1, <1>2, WordIsSet, Zenon
<1>. HIDE DEF w
<1>5. CASE k \in Little
  <2>1. Generate(k, n) = F!SetUnsignedLittle(mem, 0, w, Host, x)
    BY <1>1, <1>5 DEF Generate, w, Little
  <2>. HIDE DEF mem, x
  <2>2. Generate(k, n) = x
    BY <1>3, <2>1, Zenon
  <2>. QED BY <1>2, <1>5, <2>2, Zenon DEF w, x
<1>6. CASE k \notin Little
  <2>1. Generate(k, n) = F!SetUnsignedBig(mem, 0, w, Host, x)
    BY <1>1, <1>6 DEF Generate, w, Little, Big
  <2>. HIDE DEF mem, x
  <2>2. Generate(k, n) = Reversed(x, w)
    BY <1>4, <2>1, Zenon
  <2>3. Reversed(x, w) \in Seq(Nat) /\ Len(Reversed(x, w)) = w
    <3>1. ASSUME NEW i \in 1 .. w PROVE x[w + 1 - i] \in Nat
      <4>1. w + 1 - i \in 1 .. Len(x)
        BY <1>2
      <4>. QED BY <1>2, <4>1, ElementOfSeq, Zenon
    <3>. QED BY <1>2, <3>1 DEF Reversed
  <2>4. Generate(k, n) \in Seq(Nat) /\ Len(Generate(k, n)) = w
    BY <2>2, <2>3, Zenon
  <2>. QED BY <1>6, <2>2, <2>4, Zenon DEF w, x
<1>. QED BY <1>5, <1>6, Zenon

\* Every frame begins with octets, and they are the number's.
LEMMA PrefixHasOctets ==
  ASSUME NEW k \in Kinds, NEW n \in Nat, ~TooLong(k, n)
  PROVE  Generate(k, n) \in Seq(Nat) /\ Len(Generate(k, n)) > 0 /\ n \in 0 .. SSizeMax
<1>0. n \in 0 .. SSizeMax
  BY PrefixAssumption DEF TooLong
<1>1. CASE k = "OCTET"
  <2>1. Generate(k, n) = <<n % Values>>
    BY <1>1 DEF Generate
  <2>2. n % Values \in Nat
    BY ValuesAssumption
  <2>. QED BY <1>0, <2>1, <2>2
<1>2. CASE k = "VARIABLE"
  <2>1. Generate(k, n) = V!ToSink(n, 64)
    BY <1>2 DEF Generate
  <2>2. V!ToSink(n, 64) \in Seq(Nat) /\ Len(V!ToSink(n, 64)) > 0
    BY <1>0, VariableTravels, Zenon
  <2>. QED BY <1>0, <2>1, <2>2, Zenon
<1>3. CASE k \in Little \cup Big
  <2>1. Generate(k, n) \in Seq(Nat) /\ Len(Generate(k, n)) = PrefixSize(k)
    BY <1>3, WordPrefix, Zenon
  <2>2. PrefixSize(k) \in {2, 4}
    BY <1>3, WordKinds, Zenon
  <2>. QED BY <1>0, <2>1, <2>2
<1>4. k = "OCTET" \/ k = "VARIABLE" \/ k \in Little \cup Big
  BY DEF Kinds, Little, Big
<1>. QED BY <1>1, <1>2, <1>3, <1>4

\* decode_prefix() ends without an error of the source when all of the prefix is on
\* the wire, and finds the number again.
LEMMA PrefixTravels ==
  ASSUME kind \in Kinds, wire \in Seq(Nat), NEW n \in Nat, ~TooLong(kind, n),
         Agrees(wire, Generate(kind, n)), Prefix.rc # "EIO"
  PROVE  /\ Prefix.rc = "ok" /\ Prefix.n = n /\ Prefix.taken = Len(Generate(kind, n))
         /\ Len(Generate(kind, n)) <= Len(wire)
<1>. DEFINE g == Generate(kind, n)
            w == PrefixSize(kind)
<1>0. Len(wire) \in Nat
  OBVIOUS
<1>1. CASE kind = "VARIABLE"
  <2>1. g = V!ToSink(n, 64)
    BY <1>1 DEF Generate
  <2>2. Prefix = V!FromSource(wire, 64, "EIO")
    BY <1>1, Zenon DEF Prefix
  <2>3. n \in 0 .. SSizeMax
    BY PrefixHasOctets, Zenon
  <2>4. /\ V!FromSource(wire, 64, "EIO") = [rc |-> "ok", n |-> n, taken |-> Len(V!ToSink(n, 64))]
        /\ Len(V!ToSink(n, 64)) <= Len(wire)
    <3>1. Agrees(wire, V!ToSink(n, 64)) /\ V!FromSource(wire, 64, "EIO").rc # "EIO"
      BY <2>1, <2>2, Zenon
    <3>. QED BY <2>3, <3>1, VariableTravels, Zenon
  <2>5. Prefix = [rc |-> "ok", n |-> n, taken |-> Len(g)] /\ Len(g) <= Len(wire)
    <3>. HIDE DEF g
    <3>. QED BY <2>1, <2>2, <2>4, Zenon
  <2>. HIDE DEF g
  <2>6. Prefix.rc = "ok" /\ Prefix.n = n /\ Prefix.taken = Len(g)
    BY <2>5
  <2>. QED BY <2>5, <2>6, Zenon DEF g
<1>. DEFINE value == CASE w = 1 -> wire[1]
                       [] kind \in Little -> F!Number(F!RefUnsignedLittle(wire, 0, w, Host))
                       [] kind \in Big -> F!Number(F!RefUnsignedBig(wire, 0, w, Host))
<1>2. ASSUME kind # "VARIABLE", w \in Nat
      PROVE  w <= Len(wire) /\ Prefix.rc = "ok" /\ Prefix.n = value /\ Prefix.taken = w
  <2>. DEFINE short == [rc |-> "EIO", n |-> 0, taken |-> Len(wire)]
              whole == [rc |-> "ok", taken |-> w, n |-> value]
  <2>1. Prefix = IF Len(wire) < w THEN short ELSE whole
    BY <1>2, Zenon DEF Prefix, Little, Big
  <2>2. short.rc = "EIO" /\ whole.rc = "ok" /\ whole.n = value /\ whole.taken = w
    <3>. HIDE DEF value
    <3>. QED OBVIOUS
  <2>. HIDE DEF short, whole, value, w
  <2>3. ~(Len(wire) < w)
    BY <2>1, <2>2, Zenon
  <2>4. w <= Len(wire)
    BY <1>0, <1>2, <2>3
  <2>. QED BY <2>1, <2>2, <2>3, <2>4, Zenon
<1>. HIDE DEF value
<1>3. CASE kind = "OCTET"
  <2>1. w = 1 /\ kind # "VARIABLE" /\ Maximum(kind) = Values - 1
    BY <1>3 DEF PrefixSize, Maximum
  <2>2. g = <<n % Values>>
    BY <1>3 DEF Generate
  <2>3. n % Values = n
    <3>1. n < Values
      BY <1>3, <2>1, ValuesAssumption DEF TooLong
    <3>. QED BY <3>1, ValuesAssumption
  <2>4. g[1] = n /\ Len(g) = 1
    <3>. HIDE DEF g
    <3>. QED BY <2>2, <2>3
  <2>5. value = wire[1]
    BY <1>3, <2>1 DEF value, Little, Big
  <2>6. 1 <= Len(wire) /\ Prefix.rc = "ok" /\ Prefix.n = value /\ Prefix.taken = 1
    <3>. HIDE DEF w
    <3>. QED BY <1>2, <2>1
  <2>7. wire[1] = n
    <3>1. 1 \in 1 .. 1
      OBVIOUS
    <3>. HIDE DEF g
    <3>2. Agrees(wire, g)
      BY Zenon DEF g
    <3>. QED BY <2>4, <2>6, <3>1, <3>2, Zenon DEF Agrees
  <2>. HIDE DEF g
  <2>8. Prefix.rc = "ok" /\ Prefix.n = n /\ Prefix.taken = Len(g) /\ Len(g) <= Len(wire)
    BY <2>4, <2>5, <2>6, <2>7, Zenon
  <2>. QED BY <2>8 DEF g
<1>4. CASE kind \in Little \cup Big
  <2>. DEFINE x == Digits(n, w)
  <2>1. w \in {2, 4} /\ FitsWord(n, w) /\ kind # "VARIABLE" /\ kind # "OCTET"
    BY <1>4, WordKinds, Zenon
  <2>2. g \in Seq(Nat) /\ Len(g) = w /\ g = IF kind \in Little THEN x ELSE Reversed(x, w)
    BY <1>4, WordPrefix, Zenon
  <2>. HIDE DEF w, g
  <2>3. w \in Nat /\ w # 1 /\ w > 0
    BY <2>1
  <2>4. x \in Seq(Nat) /\ Len(x) = w
    BY <2>3, DigitsAre, Zenon
  <2>5. F!Number(x) = n
    BY <2>1, <2>3, WordIsNumber, Zenon
  <2>6. w <= Len(wire) /\ Prefix.rc = "ok" /\ Prefix.n = value /\ Prefix.taken = w
    BY <1>2, <2>1, <2>3
  <2>. HIDE DEF x
  <2>7. \A i \in 1 .. w : wire[i] = g[i]
    <3>1. ASSUME NEW i \in 1 .. w PROVE wire[i] = g[i]
      <4>1. i <= Len(wire)
        BY <1>0, <2>3, <2>6
      <4>2. Agrees(wire, g)
        BY Zenon DEF g
      <4>. QED BY <2>2, <4>1, <4>2, Zenon DEF Agrees
    <3>. QED BY <3>1
  <2>8. CASE kind \in Little
    <3>1. value = F!Number(F!RefUnsignedLittle(wire, 0, w, Host))
      BY <2>3, <2>8 DEF value, Little, Big
    <3>2. F!RefUnsignedLittle(wire, 0, w, Host) = [i \in 1 .. w |-> wire[i]]
      BY <2>1, <2>6, WordIsRead, Zenon
    <3>3. [i \in 1 .. w |-> wire[i]] = x
      <4>1. x = [i \in 1 .. w |-> x[i]]
        BY <2>4
      <4>2. g = x
        BY <2>2, <2>8, Zenon
      <4>. QED BY <2>7, <4>1, <4>2, Zenon
    <3>4. value = n
      BY <2>5, <3>1, <3>2, <3>3, Zenon
    <3>. QED BY <2>2, <2>6, <3>4, Zenon DEF g
  <2>9. CASE kind \notin Little
    <3>1. value = F!Number(F!RefUnsignedBig(wire, 0, w, Host))
      BY <1>4, <2>3, <2>9 DEF value, Little, Big
    <3>2. F!RefUnsignedBig(wire, 0, w, Host) = Reversed(wire, w)
      BY <2>1, <2>6, WordIsRead, Zenon
    <3>3. Reversed(wire, w) = x
      <4>1. g = Reversed(x, w)
        BY <2>2, <2>9, Zenon
      <4>2. ASSUME NEW i \in 1 .. w PROVE wire[w + 1 - i] = x[i]
        <5>1. w + 1 - i \in 1 .. w /\ w + 1 - (w + 1 - i) = i
          BY <2>3
        <5>2. wire[w + 1 - i] = g[w + 1 - i]
          BY <2>7, <5>1, Zenon
        <5>3. g[w + 1 - i] = x[w + 1 - (w + 1 - i)]
          <6>. DEFINE j == w + 1 - i
          <6>1. j \in 1 .. w
            BY <5>1
          <6>. HIDE DEF j
          <6>2. g[j] = x[w + 1 - j]
            BY <4>1, <6>1 DEF Reversed
          <6>. QED BY <6>2, Zenon DEF j
        <5>. QED BY <5>1, <5>2, <5>3, Zenon
      <4>3. x = [i \in 1 .. w |-> x[i]]
        BY <2>4
      <4>. QED BY <4>2, <4>3, Zenon DEF Reversed
    <3>4. value = n
      BY <2>5, <3>1, <3>2, <3>3, Zenon
    <3>. QED BY <2>2, <2>6, <3>4, Zenon DEF g
  <2>. QED BY <2>8, <2>9, Zenon
<1>5. kind = "OCTET" \/ kind = "VARIABLE" \/ kind \in Little \cup Big
  BY DEF Kinds, Little, Big
<1>. QED BY <1>1, <1>3, <1>4, <1>5, Zenon

\* From an empty wire no prefix is read.
LEMMA NothingIsRead ==
  ASSUME kind \in Kinds, wire = <<>>
  PROVE  Prefix.rc = "EIO"
<1>. DEFINE short == [rc |-> "EIO", n |-> 0, taken |-> Len(wire)]
<1>1. Len(wire) = 0
  OBVIOUS
<1>2. CASE kind = "VARIABLE"
  <2>1. V!Ends(wire, V!MaxOctets(64)) = {}
    <3>1. \A i \in V!Ends(wire, V!MaxOctets(64)) : i \in 1 .. V!MaxOctets(64) /\ i <= 0
      BY <1>1, Zenon DEF V!Ends
    <3>2. V!MaxOctets(64) = 10
      BY DEF V!MaxOctets
    <3>. QED BY <3>1, <3>2
  <2>2. ~(Len(wire) >= V!MaxOctets(64))
    BY <1>1 DEF V!MaxOctets
  <2>3. Prefix = short
    BY <1>2, <2>1, <2>2, Zenon DEF Prefix, V!FromSource
  <2>. QED BY <2>3
<1>3. CASE kind # "VARIABLE"
  <2>1. Len(wire) < PrefixSize(kind)
    BY <1>1, <1>3 DEF PrefixSize, Kinds
  <2>2. Prefix = short
    BY <1>3, <2>1, Zenon DEF Prefix
  <2>. QED BY <2>2
<1>. QED BY <1>2, <1>3

Octets == Seq(Nat)
Chunks == Seq(Octets)

Regroups(s, t, u) == (s \o t) \o u = s \o (t \o u)

LEMMA Regroup ==
  ASSUME NEW S, NEW s \in Seq(S), NEW t \in Seq(S), NEW u \in Seq(S)
  PROVE  Regroups(s, t, u)
  BY ConcatAssociative DEF Regroups

LEMMA Concat ==
  ASSUME NEW S, NEW s \in Seq(S), NEW t \in Seq(S)
  PROVE  s \o t \in Seq(S) /\ Len(s \o t) = Len(s) + Len(t)
  OBVIOUS

LEMMA WithNothing ==
  ASSUME NEW S, NEW s \in Seq(S)
  PROVE  s \o <<>> = s /\ <<>> \o s = s
  BY ConcatEmptySeq

\* The chunks are put behind each other.
JoinsUp(join, chunks) ==
  /\ join \in [0 .. Len(chunks) -> Octets] /\ join[0] = <<>>
  /\ \A i \in 1 .. Len(chunks) : join[i] = join[i - 1] \o chunks[i]

LEMMA JoinedIs ==
  ASSUME NEW chunks \in Chunks
  PROVE  \E join : JoinsUp(join, chunks) /\ Joined(chunks) = join[Len(chunks)]
<1>. DEFINE N == Len(chunks)
            step == [i \in 1 .. N |-> [s \in Octets |-> s \o chunks[i]]]
            P(f) == f = [i \in 0 .. N |-> IF i = 0 THEN <<>> ELSE f[i - 1] \o chunks[i]]
            join == CHOOSE f : P(f)
<1>0. N \in Nat /\ \A i \in 1 .. N : chunks[i] \in Octets
  BY ElementOfSeq DEF Chunks
<1>. HIDE DEF N
<1>1. step \in [1 .. N -> [Octets -> Octets]]
  <2>1. ASSUME NEW i \in 1 .. N, NEW s \in Octets PROVE s \o chunks[i] \in Octets
    BY <1>0 DEF Octets
  <2>. QED BY <2>1
<1>2. PICK g : Iterates(g, Octets, <<>>, N, step)
  <2>1. <<>> \in Octets
    BY DEF Octets
  <2>. HIDE DEF step
  <2>. QED BY <1>0, <1>1, <2>1, Iteration, Zenon
<1>3. /\ g \in [0 .. N -> Octets] /\ g[0] = <<>>
      /\ \A i \in 1 .. N : g[i] = g[i - 1] \o chunks[i]
  <2>1. g \in [0 .. N -> Octets] /\ g[0] = <<>> /\ \A i \in 1 .. N : g[i] = step[i][g[i - 1]]
    BY <1>2, Zenon DEF Iterates
  <2>2. ASSUME NEW i \in 1 .. N PROVE step[i][g[i - 1]] = g[i - 1] \o chunks[i]
    <3>1. g[i - 1] \in Octets
      BY <1>0, <2>1
    <3>. HIDE DEF Octets
    <3>. QED BY <3>1
  <2>. QED BY <2>1, <2>2, Zenon
<1>4. P(g)
  <2>1. g = [i \in 0 .. N |-> g[i]]
    BY <1>3
  <2>2. ASSUME NEW i \in 0 .. N PROVE g[i] = IF i = 0 THEN <<>> ELSE g[i - 1] \o chunks[i]
    <3>1. i = 0 \/ i \in 1 .. N
      BY <1>0
    <3>. QED BY <1>3, <3>1
  <2>. QED BY <2>1, <2>2, Zenon
<1>5. P(join)
  <2>. HIDE DEF P
  <2>. QED BY <1>4, Zenon
<1>. HIDE DEF join
<1>6. join[0] = <<>> /\ \A i \in 1 .. N : join[i] = join[i - 1] \o chunks[i]
  <2>. DEFINE f == [i \in 0 .. N |-> IF i = 0 THEN <<>> ELSE join[i - 1] \o chunks[i]]
  <2>1. join = f
    BY <1>5, Zenon
  <2>2. f[0] = <<>>
    BY <1>0
  <2>3. ASSUME NEW i \in 1 .. N PROVE f[i] = join[i - 1] \o chunks[i]
    <3>1. i \in 0 .. N /\ i # 0
      BY <1>0
    <3>. QED BY <3>1, Zenon
  <2>. HIDE DEF f
  <2>. QED BY <2>1, <2>2, <2>3, Zenon
<1>7. join[N] = g[N]
  <2>. DEFINE T == {i \in Nat : i <= N => join[i] = g[i]}
  <2>1. 0 \in T
    BY <1>3, <1>6
  <2>2. ASSUME NEW k \in T PROVE k + 1 \in T
    <3>. SUFFICES ASSUME k + 1 <= N PROVE join[k + 1] = g[k + 1]
      OBVIOUS
    <3>1. k + 1 \in 1 .. N /\ (k + 1) - 1 = k /\ k <= N
      BY <1>0
    <3>2. join[k] = g[k]
      BY <3>1
    <3>. QED BY <1>3, <1>6, <3>1, <3>2, Zenon
  <2>. HIDE DEF T
  <2>3. T \in SUBSET Nat
    BY DEF T
  <2>4. N \in T
    BY <1>0, <2>1, <2>2, <2>3, Induction
  <2>. QED BY <1>0, <2>4 DEF T
<1>8. Joined(chunks) = join[N]
  BY Zenon DEF Joined, N, join
<1>9. JoinsUp(g, chunks) /\ Joined(chunks) = g[N]
  BY <1>3, <1>7, <1>8, Zenon DEF JoinsUp, N
<1>. QED BY <1>9, Zenon DEF N

LEMMA JoinedType ==
  ASSUME NEW chunks \in Chunks
  PROVE  Joined(chunks) \in Octets
<1>1. PICK join : JoinsUp(join, chunks) /\ Joined(chunks) = join[Len(chunks)]
  BY JoinedIs
<1>2. Len(chunks) \in 0 .. Len(chunks)
  BY DEF Chunks
<1>3. join \in [0 .. Len(chunks) -> Octets]
  BY <1>1, Zenon DEF JoinsUp
<1>. HIDE DEF Octets
<1>. QED BY <1>1, <1>2, <1>3

LEMMA JoinedNothing == Joined(<<>>) = <<>>
<1>1. <<>> \in Chunks /\ Len(<<>>) = 0
  BY DEF Chunks
<1>2. ASSUME NEW none \in Chunks, Len(none) = 0 PROVE Joined(none) = <<>>
  <2>1. PICK join : JoinsUp(join, none) /\ Joined(none) = join[Len(none)]
    BY JoinedIs
  <2>. QED BY <1>2, <2>1, Zenon DEF JoinsUp
<1>. QED BY <1>1, <1>2, Zenon

\* The first chunk comes first.
LEMMA JoinedHead ==
  ASSUME NEW chunks \in Chunks, chunks # <<>>
  PROVE  /\ Head(chunks) \in Octets /\ Tail(chunks) \in Chunks
         /\ Joined(chunks) = Head(chunks) \o Joined(Tail(chunks))
<1>. DEFINE c == Head(chunks)
            more == Tail(chunks)
            N == Len(more)
<1>1. /\ c \in Octets /\ more \in Chunks /\ N \in Nat /\ Len(chunks) = N + 1 /\ c = chunks[1]
      /\ \A i \in 1 .. N : more[i] = chunks[i + 1]
  BY HeadTailProperties DEF Chunks
<1>2. PICK join : JoinsUp(join, chunks) /\ Joined(chunks) = join[Len(chunks)]
  BY JoinedIs
<1>3. PICK j2 : JoinsUp(j2, more) /\ Joined(more) = j2[Len(more)]
  BY <1>1, JoinedIs, Zenon
<1>. HIDE DEF c, more, N
<1>4. /\ join[0] = <<>> /\ \A i \in 1 .. N + 1 : join[i] = join[i - 1] \o chunks[i]
  BY <1>1, <1>2, Zenon DEF JoinsUp
<1>5. /\ j2 \in [0 .. N -> Octets] /\ j2[0] = <<>>
      /\ \A i \in 1 .. N : j2[i] = j2[i - 1] \o more[i]
  BY <1>3, Zenon DEF JoinsUp, N
<1>6. join[N + 1] = c \o j2[N]
  <2>. DEFINE T == {i \in Nat : i <= N => join[i + 1] = c \o j2[i]}
  <2>1. 0 \in T
    <3>1. 1 \in 1 .. N + 1 /\ 1 - 1 = 0
      BY <1>1
    <3>2. join[1] = <<>> \o c
      BY <1>1, <1>4, <3>1, Zenon
    <3>3. c \in Seq(Nat)
      BY <1>1 DEF Octets
    <3>4. <<>> \o c = c /\ c \o <<>> = c
      BY <3>3, WithNothing
    <3>5. join[0 + 1] = c \o j2[0]
      BY <1>5, <3>2, <3>4
    <3>. QED BY <3>5
  <2>2. ASSUME NEW k \in T PROVE k + 1 \in T
    <3>. SUFFICES ASSUME k + 1 <= N PROVE join[(k + 1) + 1] = c \o j2[k + 1]
      OBVIOUS
    <3>1. /\ k + 1 \in 1 .. N /\ (k + 1) - 1 = k /\ k <= N /\ k \in 0 .. N
          /\ (k + 1) + 1 \in 1 .. N + 1 /\ ((k + 1) + 1) - 1 = k + 1
      BY <1>1
    <3>2. join[k + 1] = c \o j2[k]
      BY <3>1
    <3>. DEFINE x == more[k + 1]
                y == j2[k]
    <3>3. x = chunks[(k + 1) + 1] /\ j2[k + 1] = y \o x
      BY <1>1, <1>5, <3>1, Zenon
    <3>4. join[(k + 1) + 1] = join[k + 1] \o x
      BY <1>4, <3>1, <3>3, Zenon
    <3>5. Regroups(c, y, x)
      <4>1. x \in Seq(Nat) /\ y \in Seq(Nat) /\ c \in Seq(Nat)
        <5>1. x \in Octets
          BY <1>1, <3>1, ElementOfSeq DEF Chunks, N
        <5>. QED BY <1>1, <1>5, <3>1, <5>1 DEF Octets
      <4>. HIDE DEF x, y
      <4>. QED BY <4>1, Regroup, Zenon
    <3>. HIDE DEF x, y
    <3>. QED BY <3>2, <3>3, <3>4, <3>5, Zenon DEF Regroups, y
  <2>. HIDE DEF T
  <2>3. T \in SUBSET Nat
    BY DEF T
  <2>4. N \in T
    BY <1>1, <2>1, <2>2, <2>3, Induction
  <2>5. N \in Nat /\ N <= N
    BY <1>1
  <2>6. N <= N => join[N + 1] = c \o j2[N]
    BY <2>4, Zenon DEF T
  <2>. QED BY <2>5, <2>6, Zenon
<1>7. Joined(chunks) = c \o Joined(more)
  BY <1>1, <1>2, <1>3, <1>6, Zenon DEF N
<1>. QED BY <1>1, <1>7, Zenon DEF c, more

\* What is left of the chunks when empty ones are taken out are chunks.
LEMMA FilledType ==
  ASSUME NEW chunks \in Chunks
  PROVE  Filled(chunks) \in Chunks
<1>. DEFINE N == Len(chunks)
            step == [i \in 1 .. N |-> [s \in Chunks |-> IF chunks[i] = <<>> THEN s ELSE Append(s, chunks[i])]]
            P(f) == f = [i \in 0 .. N |->
                           IF i = 0 THEN <<>>
                           ELSE IF chunks[i] = <<>> THEN f[i - 1] ELSE Append(f[i - 1], chunks[i])]
            filled == CHOOSE f : P(f)
<1>0. N \in Nat /\ \A i \in 1 .. N : chunks[i] \in Octets
  BY ElementOfSeq DEF Chunks
<1>. HIDE DEF N
<1>1. step \in [1 .. N -> [Chunks -> Chunks]]
  <2>1. ASSUME NEW i \in 1 .. N, NEW s \in Chunks PROVE Append(s, chunks[i]) \in Chunks
    BY <1>0, AppendProperties DEF Chunks
  <2>. QED BY <2>1
<1>2. PICK g : Iterates(g, Chunks, <<>>, N, step)
  <2>1. <<>> \in Chunks
    BY DEF Chunks
  <2>. HIDE DEF step
  <2>. QED BY <1>0, <1>1, <2>1, Iteration, Zenon
<1>3. /\ g \in [0 .. N -> Chunks] /\ g[0] = <<>>
      /\ \A i \in 1 .. N : g[i] = IF chunks[i] = <<>> THEN g[i - 1] ELSE Append(g[i - 1], chunks[i])
  <2>1. g \in [0 .. N -> Chunks] /\ g[0] = <<>> /\ \A i \in 1 .. N : g[i] = step[i][g[i - 1]]
    BY <1>2, Zenon DEF Iterates
  <2>2. ASSUME NEW i \in 1 .. N
        PROVE  step[i][g[i - 1]] = IF chunks[i] = <<>> THEN g[i - 1] ELSE Append(g[i - 1], chunks[i])
    <3>1. g[i - 1] \in Chunks
      BY <1>0, <2>1
    <3>. HIDE DEF Chunks
    <3>. QED BY <3>1
  <2>. QED BY <2>1, <2>2, Zenon
<1>4. P(g)
  <2>1. g = [i \in 0 .. N |-> g[i]]
    BY <1>3
  <2>2. ASSUME NEW i \in 0 .. N
        PROVE  g[i] = IF i = 0 THEN <<>>
                      ELSE IF chunks[i] = <<>> THEN g[i - 1] ELSE Append(g[i - 1], chunks[i])
    <3>1. i = 0 \/ i \in 1 .. N
      BY <1>0
    <3>. QED BY <1>3, <3>1
  <2>. QED BY <2>1, <2>2, Zenon
<1>5. P(filled)
  <2>. HIDE DEF P
  <2>. QED BY <1>4, Zenon
<1>. HIDE DEF filled
<1>6. filled[0] = <<>> /\ \A i \in 1 .. N : filled[i] = IF chunks[i] = <<>> THEN filled[i - 1] ELSE Append(filled[i - 1], chunks[i])
  <2>. DEFINE f == [i \in 0 .. N |->
                      IF i = 0 THEN <<>>
                      ELSE IF chunks[i] = <<>> THEN filled[i - 1] ELSE Append(filled[i - 1], chunks[i])]
  <2>1. filled = f
    BY <1>5, Zenon
  <2>2. f[0] = <<>>
    BY <1>0
  <2>3. ASSUME NEW i \in 1 .. N PROVE f[i] = IF chunks[i] = <<>> THEN filled[i - 1] ELSE Append(filled[i - 1], chunks[i])
    <3>1. i \in 0 .. N /\ i # 0
      BY <1>0
    <3>. QED BY <3>1, Zenon
  <2>. HIDE DEF f
  <2>. QED BY <2>1, <2>2, <2>3, Zenon
<1>7. filled[N] \in Chunks
  <2>. DEFINE T == {i \in Nat : i <= N => filled[i] = g[i]}
  <2>1. 0 \in T
    BY <1>3, <1>6
  <2>2. ASSUME NEW k \in T PROVE k + 1 \in T
    <3>. SUFFICES ASSUME k + 1 <= N PROVE filled[k + 1] = g[k + 1]
      OBVIOUS
    <3>1. k + 1 \in 1 .. N /\ (k + 1) - 1 = k /\ k <= N
      BY <1>0
    <3>2. filled[k] = g[k]
      BY <3>1
    <3>. QED BY <1>3, <1>6, <3>1, <3>2, Zenon
  <2>. HIDE DEF T
  <2>3. T \in SUBSET Nat
    BY DEF T
  <2>4. N \in T
    BY <1>0, <2>1, <2>2, <2>3, Induction
  <2>5. filled[N] = g[N] /\ N \in 0 .. N
    BY <1>0, <2>4 DEF T
  <2>. HIDE DEF Chunks
  <2>. QED BY <1>3, <2>5
<1>8. Filled(chunks) = filled[N]
  BY Zenon DEF Filled, N, filled
<1>. QED BY <1>7, <1>8, Zenon

\* A payload that its prefix has room for, and what is put into the channel for it.
Sendable(k, p) == p \in Octets /\ ~TooLong(k, Len(p))
Coded(k, p)    == Generate(k, Len(p)) \o p

\* Octets are the frames of payloads, f, behind each other: h and d are what is left of
\* the octets, and of the payloads that the receiver gets to see, behind each frame.
FramesAre(k, N, f, h, d) ==
  /\ N \in Nat /\ f \in [1 .. N -> Octets] /\ h \in [0 .. N -> Octets] /\ d \in [0 .. N -> Chunks]
  /\ h[N] = <<>> /\ d[N] = <<>>
  /\ \A i \in 1 .. N : /\ Sendable(k, f[i])
                       /\ h[i - 1] = Coded(k, f[i]) \o h[i]
                       /\ d[i - 1] = Frame(f[i]) \o d[i]

Carries(k, s, q) == \E N, f, h, d : FramesAre(k, N, f, h, d) /\ h[0] = s /\ d[0] = q

\* A receiver in the middle of a frame gets the payload of that one first.
InPayload(k, n, s, q) ==
  \E p \in Octets, s2 \in Octets, q2 \in Chunks :
    Len(p) = n /\ s = p \o s2 /\ q = <<p>> \o q2 /\ Carries(k, s2, q2)

Reads(k, r, s, q) == IF r.step = "idle" THEN Carries(k, s, q) ELSE InPayload(k, r.n, s, q)

LEMMA CodedType ==
  ASSUME NEW k \in Kinds, NEW p, Sendable(k, p)
  PROVE  /\ p \in Octets /\ Generate(k, Len(p)) \in Octets /\ Len(Generate(k, Len(p))) > 0
         /\ Coded(k, p) \in Octets /\ Frame(p) \in Chunks
<1>1. p \in Octets /\ Len(p) \in Nat
  BY DEF Sendable, Octets
<1>2. Generate(k, Len(p)) \in Octets /\ Len(Generate(k, Len(p))) > 0
  BY <1>1, PrefixHasOctets, Zenon DEF Sendable, Octets
<1>3. Coded(k, p) \in Octets
  BY <1>1, <1>2, Concat, Zenon DEF Coded, Octets
<1>4. Frame(p) \in Chunks
  <2>1. <<>> \in Chunks /\ <<p>> \in Chunks
    <3>. HIDE DEF Octets
    <3>. QED BY <1>1 DEF Chunks
  <2>. QED BY <2>1, Zenon DEF Frame
<1>. QED BY <1>1, <1>2, <1>3, <1>4

LEMMA CarriesType ==
  ASSUME NEW k, NEW s, NEW q, Carries(k, s, q)
  PROVE  s \in Octets /\ q \in Chunks
<1>1. PICK N, f, h, d : FramesAre(k, N, f, h, d) /\ h[0] = s /\ d[0] = q
  BY Zenon DEF Carries
<1>2. N \in Nat /\ h \in [0 .. N -> Octets] /\ d \in [0 .. N -> Chunks]
  BY <1>1, Zenon DEF FramesAre
<1>3. 0 \in 0 .. N
  BY <1>2
<1>. QED BY <1>1, <1>2, <1>3, Zenon

LEMMA CarriesNothing ==
  ASSUME NEW k
  PROVE  Carries(k, <<>>, <<>>)
<1>1. <<>> \in Octets /\ <<>> \in Chunks
  BY DEF Octets, Chunks
<1>2. ASSUME NEW none, none \in Octets, none \in Chunks, none = <<>> PROVE Carries(k, none, none)
  <2>. DEFINE f == [i \in 1 .. 0 |-> none]
              h == [i \in 0 .. 0 |-> none]
  <2>1. f \in [1 .. 0 -> Octets] /\ h \in [0 .. 0 -> Octets] /\ h \in [0 .. 0 -> Chunks]
    <3>. HIDE DEF Octets, Chunks
    <3>. QED BY <1>2
  <2>2. h[0] = none /\ 0 \in Nat
    OBVIOUS
  <2>3. \A i \in 1 .. 0 : FALSE
    OBVIOUS
  <2>. HIDE DEF f, h
  <2>4. FramesAre(k, 0, f, h, h)
    BY <1>2, <2>1, <2>2, <2>3, Zenon DEF FramesAre
  <2>. QED BY <2>2, <2>4, Zenon DEF Carries
<1>. QED BY <1>1, <1>2, Zenon

\* Another frame behind all the others.
LEMMA CarriesMore ==
  ASSUME NEW k \in Kinds, NEW s, NEW q, Carries(k, s, q), NEW p, Sendable(k, p)
  PROVE  Carries(k, s \o Coded(k, p), q \o Frame(p))
<1>1. PICK N, f, h, d : FramesAre(k, N, f, h, d) /\ h[0] = s /\ d[0] = q
  BY Zenon DEF Carries
<1>2. /\ N \in Nat /\ f \in [1 .. N -> Octets] /\ h \in [0 .. N -> Octets] /\ d \in [0 .. N -> Chunks]
      /\ h[N] = <<>> /\ d[N] = <<>>
  BY <1>1, Zenon DEF FramesAre
<1>3. \A i \in 1 .. N : /\ Sendable(k, f[i])
                        /\ h[i - 1] = Coded(k, f[i]) \o h[i]
                        /\ d[i - 1] = Frame(f[i]) \o d[i]
  BY <1>1, Zenon DEF FramesAre
<1>. DEFINE M == N + 1
            c == Coded(k, p)
            b == Frame(p)
            f2 == [i \in 1 .. M |-> IF i = M THEN p ELSE f[i]]
            h2 == [i \in 0 .. M |-> IF i = M THEN <<>> ELSE h[i] \o c]
            d2 == [i \in 0 .. M |-> IF i = M THEN <<>> ELSE d[i] \o b]
<1>4. p \in Octets /\ c \in Octets /\ b \in Chunks
  BY CodedType, Zenon
<1>. HIDE DEF c, b
<1>5. <<>> \in Octets /\ <<>> \in Chunks
  BY DEF Octets, Chunks
<1>6. \A i \in 0 .. N : h[i] \o c \in Octets /\ d[i] \o b \in Chunks
  <2>1. ASSUME NEW i \in 0 .. N PROVE h[i] \o c \in Octets /\ d[i] \o b \in Chunks
    <3>1. h[i] \in Octets /\ d[i] \in Chunks
      BY <1>2, <2>1, Zenon
    <3>. QED BY <1>4, <3>1, Concat, Zenon DEF Octets, Chunks
  <2>. QED BY <2>1
<1>7. \A i \in 0 .. M : i # M => i \in 0 .. N
  BY <1>2
<1>8. f2 \in [1 .. M -> Octets]
  <2>1. \A i \in 1 .. M : i # M => i \in 1 .. N
    BY <1>2
  <2>. HIDE DEF Octets, M
  <2>. QED BY <1>2, <1>4, <2>1
<1>9. h2 \in [0 .. M -> Octets] /\ d2 \in [0 .. M -> Chunks]
  <2>. HIDE DEF Octets, Chunks, M
  <2>. QED BY <1>5, <1>6, <1>7
<1>10. M \in Nat /\ h2[M] = <<>> /\ d2[M] = <<>> /\ f2[M] = p /\ N \in 0 .. M /\ N # M
  <2>1. M \in Nat /\ M \in 0 .. M /\ M \in 1 .. M /\ N \in 0 .. M /\ N # M
    BY <1>2
  <2>. HIDE DEF M
  <2>. QED BY <2>1
<1>11. \A i \in 0 .. N : h2[i] = h[i] \o c /\ d2[i] = d[i] \o b
  <2>1. \A i \in 0 .. N : i \in 0 .. M /\ i # M
    BY <1>2
  <2>. HIDE DEF M
  <2>. QED BY <2>1
<1>12. \A i \in 1 .. N : f2[i] = f[i]
  BY <1>2
<1>. HIDE DEF f2, h2, d2
<1>13. ASSUME NEW i \in 1 .. M
       PROVE  /\ Sendable(k, f2[i])
              /\ h2[i - 1] = Coded(k, f2[i]) \o h2[i]
              /\ d2[i - 1] = Frame(f2[i]) \o d2[i]
  <2>1. CASE i = M
    <3>1. i - 1 = N /\ N \in 0 .. N
      BY <1>2, <2>1
    <3>2. h2[N] = <<>> \o c /\ d2[N] = <<>> \o b
      BY <1>2, <1>11, <3>1, Zenon
    <3>3. <<>> \o c = c /\ c \o <<>> = c /\ <<>> \o b = b /\ b \o <<>> = b
      <4>1. c \in Seq(Nat) /\ b \in Seq(Octets)
        BY <1>4, Zenon DEF Octets, Chunks
      <4>. HIDE DEF Octets
      <4>. QED BY <4>1, WithNothing
    <3>. QED BY <1>10, <2>1, <3>1, <3>2, <3>3, Zenon DEF c, b
  <2>2. CASE i # M
    <3>1. i \in 1 .. N /\ i \in 0 .. N /\ i - 1 \in 0 .. N
      BY <1>2, <2>2
    <3>2. Sendable(k, f2[i]) /\ f2[i] = f[i]
      BY <1>3, <1>12, <3>1, Zenon
    <3>. DEFINE x == Coded(k, f[i])
                y == Frame(f[i])
    <3>3. x \in Octets /\ y \in Chunks /\ h[i] \in Octets /\ d[i] \in Chunks
      <4>1. x \in Octets /\ y \in Chunks
        BY <3>2, CodedType, Zenon
      <4>. QED BY <1>2, <3>1, <4>1, Zenon
    <3>. HIDE DEF x, y
    <3>4. h2[i - 1] = (x \o h[i]) \o c /\ d2[i - 1] = (y \o d[i]) \o b
      BY <1>3, <1>11, <3>1, Zenon DEF x, y
    <3>5. Regroups(x, h[i], c) /\ Regroups(y, d[i], b)
      BY <1>4, <3>3, Regroup, Zenon DEF Octets, Chunks
    <3>6. h2[i - 1] = x \o h2[i] /\ d2[i - 1] = y \o d2[i]
      BY <1>11, <3>1, <3>4, <3>5, Zenon DEF Regroups
    <3>. QED BY <3>2, <3>6, Zenon DEF x, y
  <2>. QED BY <2>1, <2>2
<1>14. FramesAre(k, M, f2, h2, d2)
  BY <1>8, <1>9, <1>10, <1>13, Zenon DEF FramesAre
<1>15. h2[0] = s \o c /\ d2[0] = q \o b
  <2>1. 0 \in 0 .. N
    BY <1>2
  <2>. QED BY <1>1, <1>11, <2>1, Zenon
<1>. QED BY <1>14, <1>15, Zenon DEF Carries, c, b

\* The first of the frames.
FirstFrame(k, s, q, p, s2, q2) ==
  /\ Sendable(k, p) /\ Carries(k, s2, q2)
  /\ s = Coded(k, p) \o s2 /\ q = Frame(p) \o q2

HasFirst(k, s, q) == \E p, s2, q2 : FirstFrame(k, s, q, p, s2, q2)

LEMMA CarriesFirst ==
  ASSUME NEW k \in Kinds, NEW s, NEW q, Carries(k, s, q)
  PROVE  (s = <<>> /\ q = <<>>) \/ HasFirst(k, s, q)
<1>1. PICK N, f, h, d : FramesAre(k, N, f, h, d) /\ h[0] = s /\ d[0] = q
  BY Zenon DEF Carries
<1>2. /\ N \in Nat /\ f \in [1 .. N -> Octets] /\ h \in [0 .. N -> Octets] /\ d \in [0 .. N -> Chunks]
      /\ h[N] = <<>> /\ d[N] = <<>>
  BY <1>1, Zenon DEF FramesAre
<1>3. \A i \in 1 .. N : /\ Sendable(k, f[i])
                        /\ h[i - 1] = Coded(k, f[i]) \o h[i]
                        /\ d[i - 1] = Frame(f[i]) \o d[i]
  BY <1>1, Zenon DEF FramesAre
<1>4. CASE N = 0
  BY <1>1, <1>2, <1>4, Zenon
<1>5. CASE N # 0
  <2>. DEFINE M == N - 1
              f2 == [i \in 1 .. M |-> f[i + 1]]
              h2 == [i \in 0 .. M |-> h[i + 1]]
              d2 == [i \in 0 .. M |-> d[i + 1]]
  <2>1. M \in Nat /\ M + 1 = N /\ M \in 0 .. M /\ 0 \in 0 .. M /\ 0 + 1 = 1 /\ 1 \in 1 .. N /\ 1 - 1 = 0
    BY <1>2, <1>5
  <2>2. /\ \A i \in 1 .. M : i + 1 \in 1 .. N /\ (i + 1) - 1 = (i - 1) + 1 /\ i - 1 \in 0 .. M /\ i \in 0 .. M
        /\ \A i \in 0 .. M : i + 1 \in 0 .. N
    BY <1>2, <1>5
  <2>. HIDE DEF M, Octets, Chunks
  <2>3. f2 \in [1 .. M -> Octets] /\ h2 \in [0 .. M -> Octets] /\ d2 \in [0 .. M -> Chunks]
    BY <1>2, <2>2
  <2>4. /\ \A i \in 1 .. M : f2[i] = f[i + 1]
        /\ \A i \in 0 .. M : h2[i] = h[i + 1] /\ d2[i] = d[i + 1]
    OBVIOUS
  <2>. HIDE DEF f2, h2, d2
  <2>5. h2[M] = <<>> /\ d2[M] = <<>>
    BY <1>2, <2>1, <2>4, Zenon
  <2>6. ASSUME NEW i \in 1 .. M
        PROVE  /\ Sendable(k, f2[i])
               /\ h2[i - 1] = Coded(k, f2[i]) \o h2[i]
               /\ d2[i - 1] = Frame(f2[i]) \o d2[i]
    <3>1. /\ i + 1 \in 1 .. N /\ (i + 1) - 1 = (i - 1) + 1 /\ i - 1 \in 0 .. M /\ i \in 0 .. M
      BY <2>2, <2>6, Zenon
    <3>2. f2[i] = f[i + 1] /\ h2[i] = h[i + 1] /\ d2[i] = d[i + 1]
      BY <2>4, <2>6, <3>1, Zenon
    <3>3. h2[i - 1] = h[(i + 1) - 1] /\ d2[i - 1] = d[(i + 1) - 1]
      BY <2>4, <3>1, Zenon
    <3>. QED BY <1>3, <3>1, <3>2, <3>3, Zenon
  <2>7. FramesAre(k, M, f2, h2, d2)
    BY <2>1, <2>3, <2>5, <2>6, Zenon DEF FramesAre
  <2>8. Carries(k, h[1], d[1])
    <3>1. h2[0] = h[1] /\ d2[0] = d[1]
      BY <2>1, <2>4, Zenon
    <3>. QED BY <2>7, <3>1, Zenon DEF Carries
  <2>9. Sendable(k, f[1]) /\ h[0] = Coded(k, f[1]) \o h[1] /\ d[0] = Frame(f[1]) \o d[1]
    BY <1>3, <2>1, Zenon
  <2>10. FirstFrame(k, s, q, f[1], h[1], d[1])
    BY <1>1, <2>8, <2>9, Zenon DEF FirstFrame
  <2>. QED BY <2>10, Zenon DEF HasFirst
<1>. QED BY <1>4, <1>5

LEMMA ReadsType ==
  ASSUME NEW k, NEW r, NEW s, NEW q, Reads(k, r, s, q)
  PROVE  s \in Octets /\ q \in Chunks
<1>1. CASE Carries(k, s, q)
  BY <1>1, CarriesType, Zenon
<1>2. CASE InPayload(k, r.n, s, q)
  <2>1. PICK p \in Octets, s2 \in Octets, q2 \in Chunks :
               Len(p) = r.n /\ s = p \o s2 /\ q = <<p>> \o q2 /\ Carries(k, s2, q2)
    BY <1>2, Zenon DEF InPayload
  <2>2. <<p>> \in Chunks
    BY DEF Chunks
  <2>. QED BY <2>1, <2>2, Concat, Zenon DEF Octets, Chunks
<1>. QED BY <1>1, <1>2, Zenon DEF Reads

LEMMA ReadsMore ==
  ASSUME NEW k \in Kinds, NEW r, NEW s, NEW q, Reads(k, r, s, q), NEW p, Sendable(k, p)
  PROVE  Reads(k, r, s \o Coded(k, p), q \o Frame(p))
<1>1. CASE r.step = "idle"
  <2>1. Carries(k, s, q)
    BY <1>1, Zenon DEF Reads
  <2>2. Carries(k, s \o Coded(k, p), q \o Frame(p))
    BY <2>1, CarriesMore, Zenon
  <2>. QED BY <1>1, <2>2, Zenon DEF Reads
<1>2. CASE r.step # "idle"
  <2>1. InPayload(k, r.n, s, q)
    BY <1>2, Zenon DEF Reads
  <2>2. PICK a \in Octets, s2 \in Octets, q2 \in Chunks :
               Len(a) = r.n /\ s = a \o s2 /\ q = <<a>> \o q2 /\ Carries(k, s2, q2)
    BY <2>1, Zenon DEF InPayload
  <2>. DEFINE c == Coded(k, p)
              b == Frame(p)
              one == <<a>>
  <2>3. c \in Octets /\ b \in Chunks
    BY CodedType, Zenon
  <2>4. one \in Chunks
    BY DEF Chunks
  <2>5. Carries(k, s2 \o c, q2 \o b)
    BY <2>2, CarriesMore, Zenon
  <2>. HIDE DEF c, b, one
  <2>6. Regroups(a, s2, c) /\ Regroups(one, q2, b)
    BY <2>2, <2>3, <2>4, Regroup, Zenon DEF Octets, Chunks
  <2>7. s \o c = a \o (s2 \o c) /\ q \o b = one \o (q2 \o b)
    BY <2>2, <2>6, Zenon DEF Regroups, one
  <2>8. s2 \o c \in Octets /\ q2 \o b \in Chunks
    BY <2>5, CarriesType, Zenon
  <2>9. InPayload(k, r.n, s \o c, q \o b)
    BY <2>2, <2>5, <2>7, <2>8, Zenon DEF InPayload, one
  <2>. QED BY <1>2, <2>9, Zenon DEF Reads, c, b
<1>. QED BY <1>1, <1>2

\* The sender's call has announced a payload, and put nothing yet.
Announces(k, chunks, p) ==
  \E rest \in Chunks : /\ chunks = <<Generate(k, Len(p))>> \o rest
                       /\ p = Joined(rest) /\ Sendable(k, p)

\* What the sender has still to put of a frame it began to put, and what is due though it
\* did not begin to.
Unput(chunks, midway) == IF midway THEN Joined(chunks) ELSE <<>>

Owes(k, chunks, midway, q, d) ==
  IF chunks # <<>> /\ ~midway THEN \E p : Announces(k, chunks, p) /\ d = q \o Frame(p) ELSE d = q

\* Nothing is lost between the parties, and nothing is there that is not due.
OnTheWay(k, chunks, midway, w, r, d) ==
  \E q : Reads(k, r, w \o Unput(chunks, midway), q) /\ Owes(k, chunks, midway, q, d)

ByteBuffers == [data : Octets, used : Nat, offset : Nat]

InStep ==
  /\ wire \in Octets /\ pending \in Chunks /\ outbuf \in ByteBuffers
  /\ partly => pending # <<>>
  /\ OnTheWay(kind, pending, partly, wire, reading, due)

\* The inductive invariant.
LenpInv == kind \in Kinds /\ match = TRUE /\ (sync => InStep)

LEMMA InStepMeans ==
  ASSUME LenpInv, sync
  PROVE  /\ kind \in Kinds /\ match = TRUE
         /\ wire \in Octets /\ pending \in Chunks /\ outbuf \in ByteBuffers
         /\ partly => pending # <<>>
         /\ OnTheWay(kind, pending, partly, wire, reading, due)
  BY Zenon DEF LenpInv, InStep

LEMMA UnputType ==
  ASSUME NEW chunks \in Chunks, NEW midway
  PROVE  Unput(chunks, midway) \in Octets
<1>1. <<>> \in Octets
  BY DEF Octets
<1>. QED BY <1>1, JoinedType, Zenon DEF Unput

LEMMA AnnouncesMeans ==
  ASSUME NEW k \in Kinds, NEW chunks \in Chunks, NEW p, Announces(k, chunks, p)
  PROVE  /\ Sendable(k, p) /\ chunks # <<>> /\ Head(chunks) = Generate(k, Len(p)) /\ Head(chunks) # <<>>
         /\ Tail(chunks) \in Chunks /\ Joined(Tail(chunks)) = p
<1>. DEFINE g == Generate(k, Len(p))
<1>1. PICK rest \in Chunks : chunks = <<g>> \o rest /\ p = Joined(rest) /\ Sendable(k, p)
  BY Zenon DEF Announces
<1>2. g \in Octets /\ Len(g) > 0
  BY <1>1, CodedType, Zenon
<1>. HIDE DEF g
<1>3. g # <<>>
  BY <1>2
<1>4. chunks # <<>> /\ Head(chunks) = g /\ Tail(chunks) = rest
  <2>. HIDE DEF Octets
  <2>. QED BY <1>1, <1>2 DEF Chunks
<1>. QED BY <1>1, <1>3, <1>4, Zenon DEF g

\* Where octets are cut that begin with other ones.
Same(a, x, w, t) == a \o x = w \o t /\ Len(a) <= Len(w)

IsCut(a, x, w, t) ==
  LET rest == SubSeq(w, Len(a) + 1, Len(w))
  IN  rest \in Octets /\ x = rest \o t /\ SubSeq(w, 1, Len(a)) = a

LEMMA Cut ==
  ASSUME NEW a \in Octets, NEW x \in Octets, NEW w \in Octets, NEW t \in Octets, Same(a, x, w, t)
  PROVE  IsCut(a, x, w, t)
<1>. DEFINE S == Nat
<1>. a \in Seq(S) /\ x \in Seq(S) /\ w \in Seq(S) /\ t \in Seq(S)
  BY DEF Octets
<1>. a \o x = w \o t /\ Len(a) <= Len(w)
  BY DEF Same
<1>. HIDE DEF S
<1>. DEFINE rest == SubSeq(w, Len(a) + 1, Len(w))
            first == SubSeq(w, 1, Len(a))
<1>0. Len(a) \in Nat /\ Len(w) \in Nat /\ Len(x) \in Nat /\ Len(t) \in Nat
  BY LenProperties
<1>1. first \in Seq(S) /\ rest \in Seq(S) /\ Len(first) = Len(a) /\ Len(rest) = Len(w) - Len(a)
  <2>1. \A i \in 1 .. Len(w) : w[i] \in S
    BY ElementOfSeq
  <2>2. first \in Seq(S) /\ Len(first) = IF 1 <= Len(a) THEN Len(a) - 1 + 1 ELSE 0
    <3>1. \A i \in 1 .. Len(a) : w[i] \in S
      BY <1>0, <2>1
    <3>. QED BY <1>0, <3>1, SubSeqProperties
  <2>3. rest \in Seq(S) /\ Len(rest) = IF Len(a) + 1 <= Len(w) THEN Len(w) - (Len(a) + 1) + 1 ELSE 0
    <3>1. \A i \in Len(a) + 1 .. Len(w) : w[i] \in S
      BY <1>0, <2>1
    <3>2. Len(a) + 1 \in Int /\ Len(w) \in Int
      BY <1>0
    <3>. QED BY <3>1, <3>2, SubSeqProperties
  <2>. HIDE DEF first, rest
  <2>. QED BY <1>0, <2>2, <2>3
<1>2. first \o rest = w
  <2>1. 1 \in 1 .. Len(w) + 1 /\ Len(a) \in 1 - 1 .. Len(w) /\ Len(w) \in Len(a) .. Len(w)
    BY <1>0
  <2>2. SubSeq(w, 1, Len(a)) \o SubSeq(w, Len(a) + 1, Len(w)) = SubSeq(w, 1, Len(w))
    BY <2>1, ConcatAdjacentSubSeq, Zenon
  <2>3. SubSeq(w, 1, Len(w)) = w
    BY SubSeqFull, Zenon
  <2>. QED BY <2>2, <2>3, Zenon
<1>. HIDE DEF first, rest
<1>3. first = a
  <2>1. ASSUME NEW i \in 1 .. Len(first) PROVE first[i] = a[i]
    <3>1. i \in 1 .. Len(a) + Len(x) /\ i <= Len(a) /\ i \in 1 .. Len(w) + Len(t) /\ i <= Len(w)
          /\ i \in 1 .. Len(first) + Len(rest) /\ i <= Len(first)
      BY <1>0, <1>1
    <3>2. (a \o x)[i] = a[i]
      BY <3>1, ConcatProperties, Zenon
    <3>3. (w \o t)[i] = w[i]
      BY <3>1, ConcatProperties, Zenon
    <3>4. (first \o rest)[i] = first[i]
      BY <1>1, <3>1, ConcatProperties, Zenon
    <3>. QED BY <1>2, <3>2, <3>3, <3>4, Zenon
  <2>. QED BY <1>1, <2>1, SeqEqual, Zenon
<1>4. x = rest \o t
  <2>1. Regroups(a, rest, t)
    BY <1>1, Regroup, Zenon
  <2>2. a \o x = a \o (rest \o t)
    BY <1>2, <1>3, <2>1, Zenon DEF Regroups
  <2>3. rest \o t \in Seq(S)
    BY <1>1, Concat, Zenon
  <2>4. \A v \in Seq(S) : a \o x = a \o v => x = v
    BY ConcatSimplifications, Zenon
  <2>. QED BY <2>2, <2>3, <2>4, Zenon
<1>. QED BY <1>1, <1>3, <1>4, Zenon DEF first, rest, IsCut, Octets, S

LEMMA BeginsWith ==
  ASSUME NEW g \in Octets, NEW x \in Octets, NEW w \in Octets, NEW t \in Octets, g \o x = w \o t
  PROVE  Agrees(w, g)
<1>0. Len(g) \in Nat /\ Len(w) \in Nat /\ Len(x) \in Nat /\ Len(t) \in Nat
  BY DEF Octets
<1>1. ASSUME NEW i \in 1 .. Len(g), i <= Len(w) PROVE w[i] = g[i]
  <2>1. i \in 1 .. Len(g) + Len(x) /\ i <= Len(g) /\ i \in 1 .. Len(w) + Len(t)
    BY <1>0, <1>1
  <2>2. (g \o x)[i] = g[i]
    BY <2>1, ConcatProperties, Zenon DEF Octets
  <2>3. (w \o t)[i] = w[i]
    BY <1>1, <2>1, ConcatProperties, Zenon DEF Octets
  <2>. QED BY <2>2, <2>3, Zenon
<1>. QED BY <1>1, Zenon DEF Agrees

\* The oldest payload of those that are due is the one that is on the wire first.
LEMMA FirstDue ==
  ASSUME NEW k \in Kinds, NEW chunks \in Chunks, NEW midway, NEW p \in Octets, NEW q \in Chunks, NEW d,
         Owes(k, chunks, midway, <<p>> \o q, d)
  PROVE  d # <<>> /\ Head(d) = p /\ Owes(k, chunks, midway, q, Tail(d))
<1>0. \A b \in Chunks : (<<p>> \o b) # <<>> /\ Head(<<p>> \o b) = p /\ Tail(<<p>> \o b) = b
  <2>. SUFFICES ASSUME NEW b \in Seq(Octets)
                PROVE  (<<p>> \o b) # <<>> /\ Head(<<p>> \o b) = p /\ Tail(<<p>> \o b) = b
    BY DEF Chunks
  <2>. HIDE DEF Octets
  <2>1. (<<p>> \o b) # <<>> /\ Head(<<p>> \o b) = p
    OBVIOUS
  <2>2. Tail(<<p>> \o b) = b
    OBVIOUS
  <2>. QED BY <2>1, <2>2
<1>1. CASE chunks # <<>> /\ ~midway
  <2>1. PICK a : Announces(k, chunks, a) /\ d = (<<p>> \o q) \o Frame(a)
    BY <1>1, Zenon DEF Owes
  <2>2. Frame(a) \in Chunks
    BY <2>1, AnnouncesMeans, CodedType, Zenon
  <2>3. <<p>> \in Chunks
    BY DEF Chunks
  <2>4. Regroups(<<p>>, q, Frame(a))
    BY <2>2, <2>3, Regroup, Zenon DEF Chunks
  <2>5. d = <<p>> \o (q \o Frame(a)) /\ q \o Frame(a) \in Chunks
    BY <2>1, <2>2, <2>4, Concat, Zenon DEF Regroups, Chunks
  <2>6. d # <<>> /\ Head(d) = p /\ Tail(d) = q \o Frame(a)
    BY <1>0, <2>5, Zenon
  <2>. QED BY <1>1, <2>1, <2>6, Zenon DEF Owes
<1>2. CASE ~(chunks # <<>> /\ ~midway)
  <2>1. d = <<p>> \o q
    BY <1>2, Zenon DEF Owes
  <2>2. d # <<>> /\ Head(d) = p /\ Tail(d) = q
    BY <1>0, <2>1, Zenon
  <2>. QED BY <1>2, <2>2, Zenon DEF Owes
<1>. QED BY <1>1, <1>2, Zenon

IsRead(k, chunks, midway, w, r, d, idle) ==
  LET rest == SubSeq(w, r.n + 1, Len(w))
  IN  /\ d # <<>> /\ Head(d) = SubSeq(w, 1, r.n) /\ rest \in Octets
      /\ OnTheWay(k, chunks, midway, rest, idle, Tail(d))

LEMMA PayloadIsRead ==
  ASSUME NEW k \in Kinds, NEW chunks \in Chunks, NEW midway, NEW w \in Octets, NEW r, NEW d,
         OnTheWay(k, chunks, midway, w, r, d), r.step # "idle", r.n <= Len(w),
         NEW idle, idle.step = "idle"
  PROVE  IsRead(k, chunks, midway, w, r, d, idle)
<1>. DEFINE t == Unput(chunks, midway)
<1>1. t \in Octets
  BY UnputType, Zenon
<1>2. PICK q : Reads(k, r, w \o t, q) /\ Owes(k, chunks, midway, q, d)
  BY Zenon DEF OnTheWay
<1>3. PICK p \in Octets, s2 \in Octets, q2 \in Chunks :
             Len(p) = r.n /\ w \o t = p \o s2 /\ q = <<p>> \o q2 /\ Carries(k, s2, q2)
  BY <1>2, Zenon DEF Reads, InPayload
<1>. HIDE DEF t
<1>. DEFINE rest == SubSeq(w, Len(p) + 1, Len(w))
<1>4. rest \in Octets /\ s2 = rest \o t /\ SubSeq(w, 1, Len(p)) = p
  <2>1. Same(p, s2, w, t)
    BY <1>3, Zenon DEF Same
  <2>2. IsCut(p, s2, w, t)
    BY <1>1, <2>1, Cut, Zenon
  <2>. QED BY <2>2, Zenon DEF IsCut
<1>5. d # <<>> /\ Head(d) = p /\ Owes(k, chunks, midway, q2, Tail(d))
  BY <1>2, <1>3, FirstDue, Zenon
<1>6. Reads(k, idle, rest \o t, q2)
  BY <1>3, <1>4, Zenon DEF Reads
<1>7. OnTheWay(k, chunks, midway, rest, idle, Tail(d))
  BY <1>5, <1>6, Zenon DEF OnTheWay, t
<1>. QED BY <1>3, <1>4, <1>5, <1>7, Zenon DEF IsRead

\* What decode_prefix() finds is the length of the payload that is read next.
LEMMA PrefixIsRead ==
  ASSUME LenpInv, sync, reading.step = "idle", Prefix.rc # "EIO"
  PROVE  LET rest == SubSeq(wire, Prefix.taken + 1, Len(wire))
         IN  /\ Prefix.rc = "ok" /\ Prefix.n \in Nat /\ rest \in Octets
             /\ Prefix.n = 0 => OnTheWay(kind, pending, partly, rest, reading, due)
             /\ Prefix.n > 0 => \A r : r.step # "idle" /\ r.n = Prefix.n =>
                                         OnTheWay(kind, pending, partly, rest, r, due)
<1>. DEFINE t == Unput(pending, partly)
            rest == SubSeq(wire, Prefix.taken + 1, Len(wire))
<1>0. kind \in Kinds /\ wire \in Octets /\ pending \in Chunks
      /\ OnTheWay(kind, pending, partly, wire, reading, due)
  BY InStepMeans, Zenon
<1>1. t \in Octets
  BY <1>0, UnputType, Zenon
<1>2. PICK q : Reads(kind, reading, wire \o t, q) /\ Owes(kind, pending, partly, q, due)
  BY <1>0, Zenon DEF OnTheWay
<1>3. Carries(kind, wire \o t, q)
  BY <1>2, Zenon DEF Reads
<1>. HIDE DEF t
<1>4. wire \o t # <<>>
  <2>. SUFFICES ASSUME wire \o t = <<>> PROVE FALSE
    OBVIOUS
  <2>1. wire = <<>>
    <3>1. wire \in Seq(Nat) /\ t \in Seq(Nat) /\ wire \o t = <<>>
      BY <1>0, <1>1 DEF Octets
    <3>. QED BY <3>1, ConcatSimplifications, Zenon
  <2>. QED BY <1>0, <2>1, NothingIsRead, Zenon
<1>5. PICK p, s2, q2 : /\ Sendable(kind, p) /\ Carries(kind, s2, q2)
                       /\ wire \o t = Coded(kind, p) \o s2 /\ q = Frame(p) \o q2
  <2>. DEFINE s == wire \o t
  <2>1. kind \in Kinds /\ Carries(kind, s, q) /\ s # <<>>
    BY <1>0, <1>3, <1>4
  <2>. HIDE DEF s
  <2>2. HasFirst(kind, s, q)
    BY <2>1, CarriesFirst, Zenon
  <2>. QED BY <2>2, Zenon DEF s, HasFirst, FirstFrame
<1>. DEFINE g == Generate(kind, Len(p))
<1>6. p \in Octets /\ g \in Octets /\ s2 \in Octets /\ q2 \in Chunks
  BY <1>0, <1>5, CodedType, CarriesType, Zenon
<1>7. Len(p) \in Nat /\ ~TooLong(kind, Len(p))
  BY <1>5, <1>6 DEF Sendable, Octets
<1>. HIDE DEF g
<1>8. wire \o t = g \o (p \o s2)
  <2>1. Regroups(g, p, s2)
    BY <1>6, Regroup, Zenon DEF Octets
  <2>. QED BY <1>5, <2>1, Zenon DEF Regroups, Coded, g
<1>9. p \o s2 \in Octets
  BY <1>6, Concat, Zenon DEF Octets
<1>10. Agrees(wire, g)
  BY <1>0, <1>1, <1>6, <1>8, <1>9, BeginsWith, Zenon
<1>11. Prefix.rc = "ok" /\ Prefix.n = Len(p) /\ Prefix.taken = Len(g) /\ Len(g) <= Len(wire)
  BY <1>0, <1>7, <1>10, PrefixTravels, Zenon DEF g, Octets
<1>12. rest \in Octets /\ p \o s2 = rest \o t
  <2>. DEFINE rest2 == SubSeq(wire, Len(g) + 1, Len(wire))
  <2>1. rest2 \in Octets /\ p \o s2 = rest2 \o t
    <3>. DEFINE x == p \o s2
    <3>1. Same(g, x, wire, t)
      BY <1>8, <1>11, Zenon DEF Same
    <3>. HIDE DEF x
    <3>2. x \in Octets
      BY <1>9 DEF x
    <3>3. IsCut(g, x, wire, t)
      BY <1>0, <1>1, <1>6, <3>1, <3>2, Cut, Zenon
    <3>. QED BY <3>3, Zenon DEF IsCut, x
  <2>2. rest = rest2
    BY <1>11, Zenon
  <2>. QED BY <2>1, <2>2, Zenon
<1>. HIDE DEF rest
<1>13. ASSUME Prefix.n = 0 PROVE OnTheWay(kind, pending, partly, rest, reading, due)
  <2>1. p = <<>>
    <3>1. p \in Seq(Nat) /\ Len(p) = 0
      BY <1>6, <1>11, <1>13 DEF Octets
    <3>2. p # <<>> => Len(p) \in Nat \ {0}
      BY <3>1, EmptySeq
    <3>. QED BY <3>1, <3>2
  <2>2. \A b \in Octets : <<>> \o b = b
    BY ConcatEmptySeq DEF Octets
  <2>3. \A b \in Chunks : <<>> \o b = b
    BY ConcatEmptySeq DEF Chunks
  <2>4. s2 = rest \o t /\ q = q2
    BY <1>5, <1>6, <1>12, <2>1, <2>2, <2>3, Zenon DEF Frame
  <2>5. Reads(kind, reading, rest \o t, q)
    BY <1>5, <2>4, Zenon DEF Reads
  <2>. QED BY <1>2, <2>5, Zenon DEF OnTheWay, t
<1>14. ASSUME Prefix.n > 0, NEW r, r.step # "idle", r.n = Prefix.n
       PROVE  OnTheWay(kind, pending, partly, rest, r, due)
  <2>1. p # <<>>
    <3>1. Len(<<>>) = 0
      OBVIOUS
    <3>2. Len(p) > 0
      BY <1>11, <1>14, Zenon
    <3>3. ~(0 > 0)
      OBVIOUS
    <3>. QED BY <3>1, <3>2, <3>3, Zenon
  <2>2. q = <<p>> \o q2
    BY <1>5, <2>1, Zenon DEF Frame
  <2>3. InPayload(kind, r.n, rest \o t, q)
    BY <1>5, <1>6, <1>11, <1>12, <1>14, <2>2, Zenon DEF InPayload
  <2>4. Reads(kind, r, rest \o t, q)
    BY <1>14, <2>3, Zenon DEF Reads
  <2>. QED BY <1>2, <2>4, Zenon DEF OnTheWay, t
<1>15. Prefix.n \in Nat
  BY <1>7, <1>11, Zenon
<1>. QED BY <1>11, <1>12, <1>13, <1>14, <1>15, Zenon DEF rest

LEMMA NothingOnTheWay ==
  ASSUME NEW k, NEW r, r.step = "idle"
  PROVE  OnTheWay(k, <<>>, FALSE, <<>>, r, <<>>)
<1>1. ASSUME NEW none, none = <<>> PROVE OnTheWay(k, none, FALSE, none, r, none)
  <2>1. none \o none = none
    BY <1>1
  <2>2. Unput(none, FALSE) = none
    BY <1>1, Zenon DEF Unput
  <2>3. Carries(k, none, none)
    BY <1>1, CarriesNothing, Zenon
  <2>4. Reads(k, r, none \o Unput(none, FALSE), none)
    BY <2>1, <2>2, <2>3, Zenon DEF Reads
  <2>5. Owes(k, none, FALSE, none, none)
    BY <1>1, Zenon DEF Owes
  <2>. QED BY <2>4, <2>5, Zenon DEF OnTheWay
<1>. QED BY <1>1, Zenon

LEMMA LenpInitially == LenpInit => LenpInv
<1>. SUFFICES ASSUME LenpInit PROVE LenpInv
  OBVIOUS
<1>1. /\ kind \in Kinds /\ outbuf = B!Null /\ pending = <<>> /\ partly = FALSE /\ wire = <<>>
      /\ reading = [step |-> "idle"] /\ due = <<>> /\ match = TRUE
  BY DEF LenpInit
<1>2. <<>> \in Octets /\ <<>> \in Chunks
  BY DEF Octets, Chunks
<1>3. outbuf \in ByteBuffers
  BY <1>1, <1>2 DEF B!Null, ByteBuffers
<1>4. reading.step = "idle"
  BY <1>1
<1>5. OnTheWay(kind, pending, partly, wire, reading, due)
  BY <1>1, <1>4, NothingOnTheWay, Zenon
<1>. QED BY <1>1, <1>2, <1>3, <1>5, Zenon DEF LenpInv, InStep

\* What a call announces, it owes.
LEMMA UnlessStep ==
  ASSUME LenpInv, sync, NEW refused, NEW chunks \in Chunks, Unless(refused, chunks),
         outbuf' \in ByteBuffers
  PROVE  LenpInv'
<1>0. /\ kind \in Kinds /\ match = TRUE
      /\ wire \in Octets /\ pending \in Chunks
      /\ partly => pending # <<>>
      /\ OnTheWay(kind, pending, partly, wire, reading, due)
  BY InStepMeans, Zenon
<1>1. /\ pending = <<>> /\ kind' = kind /\ partly' = partly /\ wire' = wire /\ reading' = reading
      /\ match' = match /\ sync' = sync
  BY Zenon DEF Unless
<1>. DEFINE p == Joined(chunks)
            g == Generate(kind, Len(p))
<1>2. CASE pending' = pending /\ due' = due
  <2>1. OnTheWay(kind', pending', partly', wire', reading', due')
    BY <1>0, <1>1, <1>2, Zenon
  <2>. QED BY <1>0, <1>1, <1>2, <2>1, Zenon DEF LenpInv, InStep
<1>3. CASE ~TooLong(kind, Len(p)) /\ pending' = <<g>> \o chunks /\ due' = due \o Frame(p)
  <2>1. Sendable(kind, p)
    BY <1>3, JoinedType, Zenon DEF Sendable
  <2>2. g \in Octets
    BY <1>0, <2>1, CodedType, Zenon
  <2>. HIDE DEF p, g
  <2>3. pending' \in Chunks /\ pending' # <<>>
    <3>. HIDE DEF Octets
    <3>. QED BY <1>3, <2>2 DEF Chunks
  <2>4. Announces(kind, pending', p)
    BY <1>3, <2>1, Zenon DEF Announces, p, g
  <2>5. ~partly
    BY <1>0, <1>1, Zenon
  <2>6. PICK q : Reads(kind, reading, wire \o Unput(pending, partly), q) /\ Owes(kind, pending, partly, q, due)
    BY <1>0, Zenon DEF OnTheWay
  <2>7. due = q
    BY <1>1, <2>6, Zenon DEF Owes
  <2>8. Reads(kind, reading, wire \o Unput(pending', partly), q)
    BY <2>5, <2>6, Zenon DEF Unput
  <2>9. Owes(kind, pending', partly, q, due')
    BY <1>3, <2>3, <2>4, <2>5, <2>7, Zenon DEF Owes
  <2>10. OnTheWay(kind', pending', partly', wire', reading', due')
    BY <1>1, <2>8, <2>9, Zenon DEF OnTheWay
  <2>. QED BY <1>0, <1>1, <2>3, <2>10, Zenon DEF LenpInv, InStep
<1>4. \/ pending' = pending /\ due' = due
      \/ ~TooLong(kind, Len(p)) /\ pending' = <<g>> \o chunks /\ due' = due \o Frame(p)
  BY Zenon DEF Unless
<1>. QED BY <1>2, <1>3, <1>4, Zenon

LEMMA MarkedType ==
  ASSUME outbuf \in ByteBuffers, NEW n \in Nat
  PROVE  <<Marked(n)>> \in Chunks
<1>1. outbuf.data \in Seq(Nat) /\ outbuf.offset \in Nat
  BY DEF ByteBuffers, Octets
<1>2. ASSUME NEW i \in 1 .. n
      PROVE  (IF outbuf.offset + i <= B!Size(outbuf) THEN outbuf.data[outbuf.offset + i] ELSE 0) \in Nat
  <2>1. CASE outbuf.offset + i <= B!Size(outbuf)
    <3>1. B!Size(outbuf) = Len(outbuf.data) /\ Len(outbuf.data) \in Nat
      BY <1>1 DEF B!Size
    <3>2. outbuf.offset + i \in 1 .. Len(outbuf.data)
      BY <1>1, <2>1, <3>1
    <3>3. outbuf.data[outbuf.offset + i] \in Nat
      BY <1>1, <3>2, ElementOfSeq, Zenon
    <3>. QED BY <2>1, <3>3
  <2>. QED BY <2>1
<1>3. Marked(n) \in Octets
  BY <1>2 DEF Marked, Octets
<1>. QED BY <1>3 DEF Chunks

LEMMA RoomInBuffer ==
  ASSUME outbuf \in ByteBuffers
  PROVE  B!Avail(outbuf) \in Nat /\ B!Rest(outbuf) \in Nat
<1>1. outbuf.data \in Seq(Nat) /\ outbuf.offset \in Nat /\ outbuf.used \in Nat
  BY DEF ByteBuffers, Octets
<1>2. SizeWord \in Nat /\ SizeWord > 0
  BY PrefixAssumption DEF SizeWord
<1>3. Len(outbuf.data) - outbuf.used \in Int /\ outbuf.used - outbuf.offset \in Int
  BY <1>1
<1>4. \A x \in Int : x % SizeWord \in Nat
  BY <1>2
<1>. QED BY <1>3, <1>4 DEF B!Avail, B!Rest, B!Size

\* The process mark of the sender's buffer moves.
LEMMA OffsetSet ==
  ASSUME outbuf \in ByteBuffers, NEW x \in Nat
  PROVE  [outbuf EXCEPT !.offset = x] \in ByteBuffers
  BY DEF ByteBuffers

LEMMA FillStep ==
  ASSUME LenpInv, sync, NEW b \in Buffers, Fill(b)
  PROVE  LenpInv'
<1>1. /\ outbuf' = b /\ kind' = kind /\ pending' = pending /\ partly' = partly /\ wire' = wire
      /\ reading' = reading /\ due' = due /\ match' = match /\ sync' = sync
  BY Zenon DEF Fill
<1>2. b \in ByteBuffers
  BY InputAssumption DEF ByteBuffers, Octets
<1>3. /\ kind \in Kinds /\ match = TRUE /\ wire \in Octets /\ pending \in Chunks
      /\ partly => pending # <<>>
      /\ OnTheWay(kind, pending, partly, wire, reading, due)
  BY InStepMeans, Zenon
<1>. QED BY <1>1, <1>2, <1>3, Zenon DEF LenpInv, InStep

LEMMA SenderBegins ==
  ASSUME LenpInv, sync,
         \/ \E payload \in Payloads : SendMemory(payload) \/ EncodeMemory(payload)
         \/ \E chunks \in Chunkings : SendChunks(chunks) \/ EncodeChunks(chunks)
         \/ SendBuffer \/ EncodeBuffer
         \/ \E n \in 0 .. 3 : SendBufferN(n) \/ EncodeBufferN(n)
  PROVE  LenpInv'
<1>0. outbuf \in ByteBuffers
  BY InStepMeans, Zenon
<1>1. ASSUME NEW payload \in Payloads, SendMemory(payload) \/ EncodeMemory(payload) PROVE LenpInv'
  <2>1. <<payload>> \in Chunks
    <3>1. payload \in Octets
      BY InputAssumption DEF Octets
    <3>. QED BY <3>1 DEF Chunks
  <2>2. outbuf' \in ByteBuffers
    BY <1>0, <1>1, Zenon DEF SendMemory, EncodeMemory
  <2>3. \E refused : Unless(refused, <<payload>>)
    BY <1>1, Zenon DEF SendMemory, EncodeMemory, ToSinkUnless
  <2>. QED BY <2>1, <2>2, <2>3, UnlessStep, Zenon
<1>2. ASSUME NEW chunks \in Chunkings, SendChunks(chunks) \/ EncodeChunks(chunks) PROVE LenpInv'
  <2>1. chunks \in Chunks
    BY InputAssumption DEF Chunks, Octets
  <2>2. outbuf' \in ByteBuffers
    BY <1>0, <1>2, Zenon DEF SendChunks, EncodeChunks
  <2>3. Filled(chunks) \in Chunks
    BY <2>1, FilledType, Zenon
  <2>4. (\E refused : Unless(refused, chunks)) \/ (\E refused : Unless(refused, Filled(chunks)))
    BY <1>2, Zenon DEF SendChunks, EncodeChunks, ToSinkUnless
  <2>. QED BY <2>1, <2>2, <2>3, <2>4, UnlessStep, Zenon
<1>3. ASSUME SendBuffer \/ EncodeBuffer PROVE LenpInv'
  <2>1. <<Marked(B!Avail(outbuf))>> \in Chunks /\ <<Marked(B!Rest(outbuf))>> \in Chunks
    BY <1>0, RoomInBuffer, MarkedType, Zenon
  <2>2. outbuf' \in ByteBuffers
    BY <1>0, <1>3, Zenon DEF SendBuffer, EncodeBuffer
  <2>3. \/ \E refused : Unless(refused, <<Marked(B!Avail(outbuf))>>)
        \/ \E refused : Unless(refused, <<Marked(B!Rest(outbuf))>>)
    BY <1>3, Zenon DEF SendBuffer, EncodeBuffer, ToSinkUnless
  <2>. QED BY <2>1, <2>2, <2>3, UnlessStep, Zenon
<1>4. ASSUME NEW n \in 0 .. 3, SendBufferN(n) \/ EncodeBufferN(n) PROVE LenpInv'
  <2>. DEFINE avail == B!Avail(outbuf)
              rest  == B!Rest(outbuf)
  <2>0. n \in Nat /\ avail \in Nat /\ rest \in Nat
    BY <1>0, RoomInBuffer
  <2>1. <<Marked(avail)>> \in Chunks /\ <<Marked(n)>> \in Chunks
    BY <1>0, <2>0, MarkedType, Zenon
  <2>2. CASE SendBufferN(n)
    <3>1. \E refused : Unless(refused, <<Marked(avail)>>)
      BY <2>2, Zenon DEF SendBufferN, ToSinkUnless
    <3>2. outbuf' \in ByteBuffers
      <4>. DEFINE x == outbuf.offset + avail
      <4>1. x \in Nat
        <5>1. outbuf.offset \in Nat
          BY <1>0 DEF ByteBuffers
        <5>. QED BY <2>0, <5>1
      <4>2. outbuf' = outbuf \/ outbuf' = [outbuf EXCEPT !.offset = x]
        BY <2>2 DEF SendBufferN
      <4>. HIDE DEF x
      <4>. QED BY <1>0, <4>1, <4>2, OffsetSet, Zenon
    <3>. QED BY <2>1, <3>1, <3>2, UnlessStep, Zenon
  <2>3. CASE EncodeBufferN(n)
    <3>1. \E refused : Unless(refused, <<Marked(n)>>)
      BY <2>3, Zenon DEF EncodeBufferN
    <3>2. outbuf' \in ByteBuffers
      <4>. DEFINE x == (outbuf.offset + rest) % SizeWord
      <4>1. x \in Nat
        <5>1. outbuf.offset \in Nat
          BY <1>0 DEF ByteBuffers
        <5>2. SizeWord \in Nat /\ SizeWord > 0
          BY PrefixAssumption DEF SizeWord
        <5>. QED BY <2>0, <5>1, <5>2
      <4>2. outbuf' = outbuf \/ outbuf' = [outbuf EXCEPT !.offset = x]
        BY <2>3 DEF EncodeBufferN
      <4>. HIDE DEF x
      <4>. QED BY <1>0, <4>1, <4>2, OffsetSet, Zenon
    <3>. QED BY <2>1, <3>1, <3>2, UnlessStep, Zenon
  <2>. QED BY <1>4, <2>2, <2>3, Zenon
<1>. QED BY <1>1, <1>2, <1>3, <1>4, Zenon

\* Another chunk goes from what is to be put to what is on the wire.
LEMMA PutChunkStep ==
  ASSUME LenpInv, sync, PutChunk
  PROVE  LenpInv'
<1>0. /\ kind \in Kinds /\ match = TRUE /\ wire \in Octets /\ pending \in Chunks /\ outbuf \in ByteBuffers
      /\ OnTheWay(kind, pending, partly, wire, reading, due)
  BY InStepMeans, Zenon
<1>. DEFINE c == Head(pending)
            more == Tail(pending)
<1>1. /\ pending # <<>> /\ wire' = wire \o c
      /\ pending' = (IF c = <<>> THEN <<>> ELSE more) /\ partly' = (pending' # <<>>)
      /\ sync' => (c = <<>> => Joined(more) = <<>>)
      /\ kind' = kind /\ outbuf' = outbuf /\ reading' = reading /\ due' = due /\ match' = match
  BY Zenon DEF PutChunk
<1>2. c \in Octets /\ more \in Chunks /\ Joined(pending) = c \o Joined(more) /\ Joined(more) \in Octets
  BY <1>0, <1>1, JoinedHead, JoinedType, Zenon
<1>3. <<>> \in Chunks
  BY DEF Chunks
<1>. HIDE DEF c, more
<1>4. wire' \in Octets /\ pending' \in Chunks
  BY <1>0, <1>1, <1>2, <1>3, Concat, Zenon DEF Octets
<1>5. ASSUME sync' PROVE OnTheWay(kind, pending', partly', wire', reading, due)
  <2>1. Unput(pending', partly') = Joined(more)
    BY <1>1, <1>5, JoinedNothing, Zenon DEF Unput
  <2>2. PICK q : Reads(kind, reading, wire \o Unput(pending, partly), q) /\ Owes(kind, pending, partly, q, due)
    BY <1>0, Zenon DEF OnTheWay
  <2>3. wire' \o Joined(more) = wire \o (c \o Joined(more))
    <3>1. Regroups(wire, c, Joined(more))
      BY <1>0, <1>2, Regroup, Zenon DEF Octets
    <3>. QED BY <1>1, <3>1, Zenon DEF Regroups
  <2>4. \A d : Owes(kind, pending', partly', d, d)
    BY <1>1, Zenon DEF Owes
  <2>5. CASE partly
    <3>1. due = q
      BY <2>2, <2>5, Zenon DEF Owes
    <3>2. Reads(kind, reading, wire \o (c \o Joined(more)), q)
      BY <1>2, <2>2, <2>5, Zenon DEF Unput
    <3>. QED BY <2>1, <2>3, <2>4, <3>1, <3>2, Zenon DEF OnTheWay
  <2>6. CASE ~partly
    <3>1. PICK p : Announces(kind, pending, p) /\ due = q \o Frame(p)
      BY <1>1, <2>2, <2>6, Zenon DEF Owes
    <3>2. Sendable(kind, p) /\ c = Generate(kind, Len(p)) /\ Joined(more) = p
      BY <1>0, <3>1, AnnouncesMeans, Zenon DEF c, more
    <3>3. Reads(kind, reading, wire, q)
      <4>1. wire \o <<>> = wire
        BY <1>0, ConcatEmptySeq DEF Octets
      <4>. QED BY <2>2, <2>6, <4>1, Zenon DEF Unput
    <3>4. Reads(kind, reading, wire \o Coded(kind, p), q \o Frame(p))
      BY <1>0, <3>2, <3>3, ReadsMore, Zenon
    <3>5. Coded(kind, p) = c \o Joined(more)
      BY <3>2, Zenon DEF Coded
    <3>. QED BY <2>1, <2>3, <2>4, <3>1, <3>4, <3>5, Zenon DEF OnTheWay
  <2>. QED BY <2>5, <2>6
<1>. QED BY <1>0, <1>1, <1>4, <1>5, Zenon DEF LenpInv, InStep

\* Nothing is announced any more when the sink failed before the first octet.
LEMMA PutFailsStep ==
  ASSUME LenpInv, sync, NEW k \in 0 .. 2, PutFails(k)
  PROVE  LenpInv'
<1>0. /\ kind \in Kinds /\ match = TRUE /\ wire \in Octets /\ pending \in Chunks /\ outbuf \in ByteBuffers
      /\ OnTheWay(kind, pending, partly, wire, reading, due)
  BY InStepMeans, Zenon
<1>. DEFINE whole == Joined(Tail(pending))
<1>1. /\ pending # <<>> /\ wire' = wire \o SubSeq(Head(pending), 1, k) /\ pending' = <<>> /\ partly' = FALSE
      /\ due' = IF ~partly /\ whole # <<>> THEN SubSeq(due, 1, Len(due) - 1) ELSE due
      /\ sync' => k = 0 /\ ~partly
      /\ kind' = kind /\ outbuf' = outbuf /\ reading' = reading /\ match' = match
  BY Zenon DEF PutFails
<1>2. <<>> \in Chunks
  BY DEF Chunks
<1>3. ASSUME sync' PROVE wire' = wire /\ OnTheWay(kind, pending', partly', wire, reading, due')
  <2>1. k = 0 /\ ~partly
    BY <1>1, <1>3, Zenon
  <2>2. wire \o <<>> = wire
    BY <1>0, ConcatEmptySeq DEF Octets
  <2>3. wire' = wire
    <3>1. SubSeq(Head(pending), 1, 0) = <<>>
      <4>1. 1 \in Int /\ 0 \in Int /\ 0 < 1
        OBVIOUS
      <4>. QED BY <4>1, SubSeqEmpty, Zenon
    <3>. QED BY <1>1, <2>1, <2>2, <3>1, Zenon
  <2>4. PICK q : Reads(kind, reading, wire \o Unput(pending, partly), q) /\ Owes(kind, pending, partly, q, due)
    BY <1>0, Zenon DEF OnTheWay
  <2>5. PICK p : Announces(kind, pending, p) /\ due = q \o Frame(p)
    BY <1>1, <2>1, <2>4, Zenon DEF Owes
  <2>6. q \in Chunks /\ whole = p /\ p \in Octets
    BY <1>0, <2>4, <2>5, ReadsType, AnnouncesMeans, Zenon DEF Sendable
  <2>. HIDE DEF whole
  <2>7. due' = q
    <3>1. CASE p = <<>>
      <4>1. q \o <<>> = q
        BY <2>6, ConcatEmptySeq DEF Chunks
      <4>. QED BY <1>1, <2>5, <2>6, <3>1, <4>1, Zenon DEF Frame
    <3>2. CASE p # <<>>
      <4>1. due = q \o <<p>>
        BY <2>5, <3>2, Zenon DEF Frame
      <4>2. due' = SubSeq(due, 1, Len(due) - 1)
        BY <1>1, <2>1, <2>6, <3>2, Zenon
      <4>3. SubSeq(q \o <<p>>, 1, Len(q \o <<p>>) - 1) = q
        <5>1. q \in Seq(Octets) /\ p \in Octets
          BY <2>6, Zenon DEF Chunks
        <5>. HIDE DEF Octets
        <5>2. Len(q \o <<p>>) - 1 = Len(q) /\ Len(q) \in Nat
          BY <5>1
        <5>3. SubSeq(q \o <<p>>, 1, Len(q)) = q
          BY <5>1
        <5>. QED BY <5>2, <5>3, Zenon
      <4>. QED BY <4>1, <4>2, <4>3, Zenon
    <3>. QED BY <3>1, <3>2
  <2>8. Unput(pending, partly) = <<>> /\ Unput(pending', partly') = <<>>
    BY <1>1, <2>1, Zenon DEF Unput
  <2>9. Owes(kind, pending', partly', q, due')
    BY <1>1, <2>7, Zenon DEF Owes
  <2>. QED BY <2>3, <2>4, <2>8, <2>9, Zenon DEF OnTheWay
<1>. QED BY <1>0, <1>1, <1>2, <1>3, Zenon DEF LenpInv, InStep

LEMMA ReadPrefixStep ==
  ASSUME LenpInv, sync, NEW op, ReadPrefix(op)
  PROVE  LenpInv'
<1>0. /\ kind \in Kinds /\ match = TRUE /\ wire \in Octets /\ pending \in Chunks /\ outbuf \in ByteBuffers
      /\ partly => pending # <<>>
  BY InStepMeans, Zenon
<1>. DEFINE new == [step |-> "payload", op |-> op, n |-> Prefix.n]
            fits == op = "sink" \/ Prefix.n <= Room
<1>1. /\ reading.step = "idle" /\ Prefix.rc # "EIO"
      /\ wire' = SubSeq(wire, Prefix.taken + 1, Len(wire))
      /\ reading' = (IF Prefix.rc = "ok" /\ fits /\ Prefix.n > 0 THEN new ELSE reading)
      /\ sync' => fits
      /\ kind' = kind /\ outbuf' = outbuf /\ pending' = pending /\ partly' = partly
      /\ due' = due /\ match' = match
  BY Zenon DEF ReadPrefix, Drop
<1>2. /\ Prefix.rc = "ok" /\ Prefix.n \in Nat /\ wire' \in Octets
      /\ Prefix.n = 0 => OnTheWay(kind, pending, partly, wire', reading, due)
      /\ Prefix.n > 0 => \A r : r.step # "idle" /\ r.n = Prefix.n =>
                                  OnTheWay(kind, pending, partly, wire', r, due)
  BY <1>1, PrefixIsRead, Zenon
<1>3. ASSUME sync' PROVE OnTheWay(kind, pending, partly, wire', reading', due)
  <2>1. CASE Prefix.n = 0
    <3>1. ~(0 > 0)
      OBVIOUS
    <3>2. reading' = reading
      BY <1>1, <2>1, <3>1, Zenon
    <3>. QED BY <1>2, <2>1, <3>2, Zenon
  <2>2. CASE Prefix.n > 0
    <3>1. reading' = new
      BY <1>1, <1>2, <1>3, <2>2, Zenon
    <3>2. new.step # "idle" /\ new.n = Prefix.n
      OBVIOUS
    <3>. HIDE DEF new
    <3>. QED BY <1>2, <2>2, <3>1, <3>2, Zenon
  <2>. QED BY <1>2, <2>1, <2>2
<1>. QED BY <1>0, <1>1, <1>2, <1>3, Zenon DEF LenpInv, InStep

LEMMA PrefixFailsStep ==
  ASSUME LenpInv, sync, NEW k \in 0 .. 3, PrefixFails(k)
  PROVE  LenpInv'
<1>0. /\ kind \in Kinds /\ match = TRUE /\ wire \in Octets /\ pending \in Chunks /\ outbuf \in ByteBuffers
      /\ partly => pending # <<>>
      /\ OnTheWay(kind, pending, partly, wire, reading, due)
  BY InStepMeans, Zenon
<1>1. /\ wire' = SubSeq(wire, k + 1, Len(wire))
      /\ sync' => k = 0
      /\ kind' = kind /\ outbuf' = outbuf /\ pending' = pending /\ partly' = partly
      /\ reading' = reading /\ due' = due /\ match' = match
  BY Zenon DEF PrefixFails, Drop
<1>2. ASSUME sync' PROVE wire' = wire
  <2>1. k = 0
    BY <1>1, <1>2, Zenon
  <2>2. wire' = SubSeq(wire, 1, Len(wire))
    BY <1>1, <2>1
  <2>. QED BY <1>0, <2>2, SubSeqFull, Zenon DEF Octets
<1>. QED BY <1>0, <1>1, <1>2, Zenon DEF LenpInv, InStep

LEMMA ReadPayloadStep ==
  ASSUME LenpInv, sync, ReadPayload
  PROVE  LenpInv'
<1>0. /\ kind \in Kinds /\ match = TRUE /\ wire \in Octets /\ pending \in Chunks /\ outbuf \in ByteBuffers
      /\ partly => pending # <<>>
      /\ OnTheWay(kind, pending, partly, wire, reading, due)
  BY InStepMeans, Zenon
<1>. DEFINE idle == [step |-> "idle"]
            n == reading.n
<1>1. /\ reading.step = "payload" /\ Len(wire) >= n
      /\ match' = (match /\ due # <<>> /\ Head(due) = SubSeq(wire, 1, n))
      /\ due' = (IF due = <<>> THEN due ELSE Tail(due))
      /\ wire' = SubSeq(wire, n + 1, Len(wire)) /\ reading' = idle
      /\ kind' = kind /\ outbuf' = outbuf /\ pending' = pending /\ partly' = partly
  BY Zenon DEF ReadPayload, Drop
<1>2. reading.step # "idle" /\ idle.step = "idle"
  BY <1>1
<1>. HIDE DEF idle
<1>3. n <= Len(wire)
  <2>1. \A a, b : a >= b <=> b <= a
    OBVIOUS
  <2>. QED BY <1>1, <2>1
<1>4. /\ due # <<>> /\ Head(due) = SubSeq(wire, 1, n) /\ wire' \in Octets
      /\ OnTheWay(kind, pending, partly, wire', idle, Tail(due))
  <2>1. IsRead(kind, pending, partly, wire, reading, due, idle)
    BY <1>0, <1>2, <1>3, PayloadIsRead, Zenon
  <2>. QED BY <1>1, <2>1, Zenon DEF IsRead
<1>5. match' = TRUE
  BY <1>0, <1>1, <1>4, Zenon
<1>6. due' = Tail(due)
  BY <1>1, <1>4, Zenon
<1>. QED BY <1>0, <1>1, <1>4, <1>5, <1>6, Zenon DEF LenpInv, InStep

\* A call that ends in the middle of a frame.
LEMMA TornStep ==
  ASSUME LenpInv, SinkIsFull \/ (\E k \in 0 .. 3 : PayloadFails(k))
  PROVE  LenpInv'
<1>1. kind' = kind /\ match' = match /\ sync' = FALSE
  BY Zenon DEF SinkIsFull, PayloadFails
<1>. QED BY <1>1, Zenon DEF LenpInv

LEMMA ReconnectStep ==
  ASSUME LenpInv, Reconnect
  PROVE  LenpInv'
<1>1. /\ kind' = kind /\ outbuf' = B!Null /\ pending' = <<>> /\ partly' = FALSE /\ wire' = <<>>
      /\ reading' = [step |-> "idle"] /\ due' = <<>> /\ match' = match
  BY Zenon DEF Reconnect
<1>2. <<>> \in Octets /\ <<>> \in Chunks
  BY DEF Octets, Chunks
<1>3. outbuf' \in ByteBuffers
  BY <1>1, <1>2 DEF B!Null, ByteBuffers
<1>4. reading'.step = "idle"
  BY <1>1
<1>5. OnTheWay(kind', pending', partly', wire', reading', due')
  BY <1>1, <1>4, NothingOnTheWay, Zenon
<1>. QED BY <1>1, <1>2, <1>3, <1>5, Zenon DEF LenpInv, InStep

LEMMA LenpSteps ==
  ASSUME LenpInv, [LenpNext]_lenpVars
  PROVE  LenpInv'
<1>1. CASE UNCHANGED lenpVars
  BY <1>1, Zenon DEF lenpVars, LenpInv, InStep
<1>2. CASE Reconnect
  BY <1>2, ReconnectStep, Zenon
<1>3. ASSUME sync, SenderNext PROVE LenpInv'
  <2>1. CASE PutChunk
    BY <1>3, <2>1, PutChunkStep, Zenon
  <2>2. CASE \E k \in 0 .. 2 : PutFails(k)
    BY <1>3, <2>2, PutFailsStep, Zenon
  <2>3. CASE \E b \in Buffers : Fill(b)
    BY <1>3, <2>3, FillStep, Zenon
  <2>4. CASE \/ \E payload \in Payloads : SendMemory(payload) \/ EncodeMemory(payload)
             \/ \E chunks \in Chunkings : SendChunks(chunks) \/ EncodeChunks(chunks)
             \/ SendBuffer \/ EncodeBuffer
             \/ \E n \in 0 .. 3 : SendBufferN(n) \/ EncodeBufferN(n)
    BY <1>3, <2>4, SenderBegins, Zenon
  <2>. QED BY <1>3, <2>1, <2>2, <2>3, <2>4, Zenon DEF SenderNext
<1>4. ASSUME sync, ReceiverNext PROVE LenpInv'
  <2>1. CASE \E op \in {"memory", "sink"} : ReadPrefix(op)
    BY <1>4, <2>1, ReadPrefixStep, Zenon
  <2>2. CASE ReadPayload
    BY <1>4, <2>2, ReadPayloadStep, Zenon
  <2>3. CASE \E k \in 0 .. 3 : PrefixFails(k)
    BY <1>4, <2>3, PrefixFailsStep, Zenon
  <2>4. CASE SinkIsFull \/ (\E k \in 0 .. 3 : PayloadFails(k))
    BY <2>4, TornStep, Zenon
  <2>. QED BY <1>4, <2>1, <2>2, <2>3, <2>4, Zenon DEF ReceiverNext
<1>. QED BY <1>1, <1>2, <1>3, <1>4, Zenon DEF LenpNext

\* When all has been put and read, nothing is due any more.
LEMMA LenpInvSuffices == LenpInv => FramesArrive
<1>. SUFFICES ASSUME LenpInv, sync, pending = <<>>, wire = <<>>, reading.step = "idle"
              PROVE  due = <<>>
  BY Zenon DEF FramesArrive, LenpInv
<1>1. kind \in Kinds /\ (partly => pending # <<>>) /\ OnTheWay(kind, pending, partly, wire, reading, due)
  BY InStepMeans, Zenon
<1>2. PICK q : Reads(kind, reading, wire \o Unput(pending, partly), q) /\ Owes(kind, pending, partly, q, due)
  BY <1>1, Zenon DEF OnTheWay
<1>3. due = q /\ Unput(pending, partly) = <<>>
  BY <1>1, <1>2, Zenon DEF Owes, Unput
<1>4. <<>> \o <<>> = <<>>
  OBVIOUS
<1>5. Carries(kind, <<>>, due)
  BY <1>2, <1>3, <1>4, Zenon DEF Reads
<1>6. ASSUME NEW s, s = <<>>, Carries(kind, s, due), due # <<>> PROVE FALSE
  <2>1. HasFirst(kind, s, due)
    BY <1>1, <1>6, CarriesFirst, Zenon
  <2>2. PICK p, s2, q2 : FirstFrame(kind, s, due, p, s2, q2)
    BY <2>1, Zenon DEF HasFirst
  <2>3. s = Coded(kind, p) \o s2 /\ Coded(kind, p) = Generate(kind, Len(p)) \o p
    BY <2>2, Zenon DEF FirstFrame, Coded
  <2>4. /\ p \in Octets /\ s2 \in Octets /\ Coded(kind, p) \in Octets
        /\ Generate(kind, Len(p)) \in Octets /\ Len(Generate(kind, Len(p))) > 0
    BY <1>1, <2>2, CodedType, CarriesType, Zenon DEF FirstFrame
  <2>5. /\ Len(Coded(kind, p) \o s2) = Len(Coded(kind, p)) + Len(s2)
        /\ Len(Coded(kind, p)) = Len(Generate(kind, Len(p))) + Len(p)
    BY <2>3, <2>4, Concat, Zenon DEF Octets
  <2>6. Len(s) = 0
    BY <1>6
  <2>. DEFINE a == Len(Generate(kind, Len(p)))
              b == Len(p)
              c == Len(s2)
  <2>7. a \in Nat /\ b \in Nat /\ c \in Nat /\ a > 0 /\ 0 = (a + b) + c
    <3>1. a \in Nat /\ b \in Nat /\ c \in Nat
      BY <2>4, LenProperties, Zenon DEF Octets
    <3>. QED BY <2>3, <2>4, <2>5, <2>6, <3>1, Zenon
  <2>. HIDE DEF a, b, c
  <2>. QED BY <2>7
<1>. QED BY <1>5, <1>6, Zenon

\* As long as no call ended in the middle of a frame, each payload that was sent is
\* returned once, whole and in order, for every kind of prefix, every payload and every
\* way the two parties' steps mix (flenp_*_to_sink(), flenp_*_from_source()).
THEOREM FramesAlwaysArrive == LenpSpec => []FramesArrive
<1>1. LenpInit => LenpInv
  BY LenpInitially
<1>2. LenpInv /\ [LenpNext]_lenpVars => LenpInv'
  BY LenpSteps
<1>3. LenpInv => FramesArrive
  BY LenpInvSuffices
<1>. QED BY <1>1, <1>2, <1>3, PTL DEF LenpSpec

(***************************************************************************)
(* s-expressions.                                                          *)
(***************************************************************************)

\* A set of nodes with all that is behind their pairs.
WellMade(S) ==
  \A x \in S : /\ x.blocks \in Nat
               /\ IsPair(x) => /\ x.car \in S /\ x.cdr \in S
                               /\ x.blocks = PairBlocks + x.car.blocks + x.cdr.blocks

IsNode(x)   == \E S : x \in S /\ WellMade(S)
AreNodes(s) == \E S : s \in Seq(S) /\ WellMade(S)

LEMMA NodeIs ==
  ASSUME NEW x, IsNode(x)
  PROVE  /\ x.blocks \in Nat
         /\ IsPair(x) => /\ IsNode(x.car) /\ IsNode(x.cdr)
                         /\ x.blocks = PairBlocks + x.car.blocks + x.cdr.blocks
  BY Zenon DEF IsNode, WellMade

LEMMA AtomIsNode ==
  ASSUME NEW x, x.blocks \in Nat, ~IsPair(x)
  PROVE  IsNode(x)
<1>. DEFINE S == {x}
<1>1. x \in S /\ WellMade(S)
  BY DEF WellMade
<1>. QED BY <1>1, Zenon DEF IsNode

LEMMA AtomsAreNodes ==
  /\ IsNode(NoNode) /\ IsNode(EmptyList)
  /\ \A n : IsNode(Integer(n)) /\ IsNode(Symbol(n))
<1>1. NoNode.blocks \in Nat /\ ~IsPair(NoNode)
  BY DEF NoNode, IsPair
<1>2. EmptyList.blocks \in Nat /\ ~IsPair(EmptyList)
  BY DEF EmptyList, IsPair
<1>3. ASSUME NEW n PROVE IsNode(Integer(n)) /\ IsNode(Symbol(n))
  <2>1. Integer(n).blocks \in Nat /\ ~IsPair(Integer(n))
    BY DEF Integer, IsPair
  <2>2. Symbol(n).blocks \in Nat /\ ~IsPair(Symbol(n))
    BY DEF Symbol, IsPair
  <2>. QED BY <2>1, <2>2, AtomIsNode, Zenon
<1>. QED BY <1>1, <1>2, <1>3, AtomIsNode, Zenon

LEMMA ConsIs ==
  ASSUME NEW a, NEW b
  PROVE  /\ IsPair(Cons(a, b)) /\ Cons(a, b).car = a /\ Cons(a, b).cdr = b
         /\ Cons(a, b).blocks = PairBlocks + a.blocks + b.blocks
  BY DEF Cons, IsPair

LEMMA ConsIsNode ==
  ASSUME NEW a, NEW b, IsNode(a), IsNode(b)
  PROVE  IsNode(Cons(a, b))
<1>1. PICK X : a \in X /\ WellMade(X)
  BY Zenon DEF IsNode
<1>2. PICK Y : b \in Y /\ WellMade(Y)
  BY Zenon DEF IsNode
<1>. DEFINE c == Cons(a, b)
            S == X \cup Y \cup {c}
<1>3. a.blocks \in Nat /\ b.blocks \in Nat
  BY NodeIs, Zenon
<1>4. /\ IsPair(c) /\ c.car = a /\ c.cdr = b
      /\ c.blocks = PairBlocks + a.blocks + b.blocks
  BY ConsIs, Zenon
<1>5. c.blocks \in Nat
  BY <1>3, <1>4 DEF PairBlocks
<1>. HIDE DEF c
<1>6. WellMade(S)
  <2>. SUFFICES ASSUME NEW x \in S
                PROVE  /\ x.blocks \in Nat
                       /\ IsPair(x) => /\ x.car \in S /\ x.cdr \in S
                                       /\ x.blocks = PairBlocks + x.car.blocks + x.cdr.blocks
    BY Zenon DEF WellMade
  <2>1. CASE x \in X
    BY <1>1, <2>1, Zenon DEF WellMade
  <2>2. CASE x \in Y
    BY <1>2, <2>2, Zenon DEF WellMade
  <2>3. CASE x = c
    BY <1>1, <1>2, <1>4, <1>5, <2>3, Zenon
  <2>. QED BY <2>1, <2>2, <2>3
<1>7. c \in S
  OBVIOUS
<1>. QED BY <1>6, <1>7, Zenon DEF IsNode, c

\* The nodes of a sequence, and one more.
LEMMA OneMoreNode ==
  ASSUME NEW s, AreNodes(s), NEW x, IsNode(x)
  PROVE  \E S : s \in Seq(S) /\ x \in S /\ WellMade(S)
<1>1. PICK X : s \in Seq(X) /\ WellMade(X)
  BY Zenon DEF AreNodes
<1>2. PICK Y : x \in Y /\ WellMade(Y)
  BY Zenon DEF IsNode
<1>. DEFINE S == X \cup Y
<1>3. s \in Seq(S) /\ x \in S
  BY <1>1, <1>2
<1>4. WellMade(S)
  BY <1>1, <1>2, Zenon DEF WellMade
<1>. QED BY <1>3, <1>4, Zenon

LEMMA NodeOfSequence ==
  ASSUME NEW s, AreNodes(s), NEW i \in DOMAIN s
  PROVE  IsNode(s[i])
<1>1. PICK S : s \in Seq(S) /\ WellMade(S)
  BY Zenon DEF AreNodes
<1>2. s[i] \in S
  BY <1>1
<1>. QED BY <1>1, <1>2, Zenon DEF IsNode

(***************************************************************************)
(* The sum of the blocks in a sequence of nodes.                           *)
(***************************************************************************)

BlocksIn(s) ==
  LET sum[n \in 0 .. Len(s)] == IF n = 0 THEN 0 ELSE sum[n - 1] + s[n].blocks
  IN  sum[Len(s)]

CountsUp(g, s) ==
  g \in [0 .. Len(s) -> Nat] /\ g[0] = 0 /\ \A n \in 1 .. Len(s) : g[n] = g[n - 1] + s[n].blocks

HasCount(s) == \E g : CountsUp(g, s) /\ BlocksIn(s) = g[Len(s)]

LEMMA TotalIs ==
  ASSUME NEW s, AreNodes(s)
  PROVE  HasCount(s)
<1>. DEFINE N == Len(s)
            step == [n \in 1 .. N |-> [k \in Nat |-> k + s[n].blocks]]
            Eq(f) == f = [n \in 0 .. N |-> IF n = 0 THEN 0 ELSE f[n - 1] + s[n].blocks]
            sum == CHOOSE f : Eq(f)
<1>1. N \in Nat /\ DOMAIN s = 1 .. N
  <2>1. PICK S : s \in Seq(S)
    BY Zenon DEF AreNodes
  <2>. QED BY <2>1
<1>2. \A n \in 1 .. N : s[n].blocks \in Nat
  BY <1>1, NodeOfSequence, NodeIs, Zenon
<1>3. step \in [1 .. N -> [Nat -> Nat]]
  BY <1>2
<1>. HIDE DEF N
<1>4. PICK g : Iterates(g, Nat, 0, N, step)
  <2>. HIDE DEF step
  <2>. QED BY <1>1, <1>3, Iteration
<1>5. g \in [0 .. N -> Nat] /\ g[0] = 0 /\ \A n \in 1 .. N : g[n] = g[n - 1] + s[n].blocks
  <2>1. g \in [0 .. N -> Nat] /\ g[0] = 0 /\ \A n \in 1 .. N : g[n] = step[n][g[n - 1]]
    BY <1>4 DEF Iterates
  <2>2. ASSUME NEW n \in 1 .. N PROVE g[n] = g[n - 1] + s[n].blocks
    <3>1. n - 1 \in 0 .. N
      BY <1>1
    <3>2. g[n - 1] \in Nat
      BY <2>1, <3>1
    <3>. QED BY <2>1, <3>2
  <2>. HIDE DEF step
  <2>. QED BY <2>1, <2>2
<1>6. Eq(g)
  <2>1. g = [n \in 0 .. N |-> g[n]]
    BY <1>5
  <2>2. ASSUME NEW n \in 0 .. N
        PROVE  g[n] = IF n = 0 THEN 0 ELSE g[n - 1] + s[n].blocks
    BY <1>1, <1>5
  <2>. QED BY <2>1, <2>2
<1>7. Eq(sum)
  <2>. HIDE DEF Eq
  <2>. QED BY <1>6
<1>8. BlocksIn(s) = sum[N]
  BY Zenon DEF BlocksIn, N
<1>9. sum = g
  <2>. HIDE DEF sum
  <2>1. sum = [n \in 0 .. N |-> sum[n]] /\ g = [n \in 0 .. N |-> g[n]]
    BY <1>5, <1>7
  <2>2. sum[0] = 0 /\ \A n \in 1 .. N : sum[n] = sum[n - 1] + s[n].blocks
    BY <1>1, <1>7
  <2>. DEFINE T == {k \in Nat : k <= N => sum[k] = g[k]}
  <2>3. 0 \in T
    BY <1>5, <2>2
  <2>4. ASSUME NEW k \in T PROVE k + 1 \in T
    <3>. SUFFICES ASSUME k + 1 <= N PROVE sum[k + 1] = g[k + 1]
      OBVIOUS
    <3>1. k + 1 \in 1 .. N /\ k + 1 - 1 = k /\ k <= N
      BY <1>1
    <3>2. sum[k] = g[k]
      BY <3>1
    <3>. QED BY <1>5, <2>2, <3>1, <3>2
  <2>. HIDE DEF T
  <2>5. \A k \in Nat : k \in T
    <3>1. T \in SUBSET Nat
      BY DEF T
    <3>. QED BY <2>3, <2>4, <3>1, Induction
  <2>6. ASSUME NEW n \in 0 .. N PROVE sum[n] = g[n]
    <3>1. n \in Nat /\ n <= N
      BY <1>1
    <3>. QED BY <2>5, <3>1 DEF T
  <2>. QED BY <2>1, <2>6
<1>10. CountsUp(g, s)
  BY <1>5, Zenon DEF CountsUp, N
<1>. QED BY <1>8, <1>9, <1>10, Zenon DEF HasCount, N
SameNodes(t, a, s, b, m) == \A n \in 1 .. m : t[a + n] = s[b + n]

Alike(h, a, g, b, m) == h[a + m] - h[a] = g[b + m] - g[b]

\* Where two sequences have the same nodes, their totals rise alike.
LEMMA RiseAlike ==
  ASSUME NEW s, NEW t, NEW g, NEW h, AreNodes(s), CountsUp(g, s), CountsUp(h, t), Len(t) \in Nat,
         NEW a \in Nat, NEW b \in Nat, NEW m \in Nat, a + m <= Len(t), b + m <= Len(s),
         SameNodes(t, a, s, b, m)
  PROVE  Alike(h, a, g, b, m)
<1>. DEFINE T == {k \in Nat : k <= m => h[a + k] - h[a] = g[b + k] - g[b]}
<1>0. Len(s) \in Nat /\ DOMAIN s = 1 .. Len(s)
  <2>1. PICK S : s \in Seq(S)
    BY Zenon DEF AreNodes
  <2>. QED BY <2>1
<1>1. /\ h \in [0 .. Len(t) -> Nat] /\ \A n \in 1 .. Len(t) : h[n] = h[n - 1] + t[n].blocks
      /\ g \in [0 .. Len(s) -> Nat] /\ \A n \in 1 .. Len(s) : g[n] = g[n - 1] + s[n].blocks
  BY Zenon DEF CountsUp
<1>6. h \in [0 .. Len(t) -> Nat] /\ g \in [0 .. Len(s) -> Nat]
  BY <1>1, Zenon
<1>2. 0 \in T
  <2>1. a \in 0 .. Len(t) /\ b \in 0 .. Len(s) /\ a + 0 = a /\ b + 0 = b
    BY <1>0
  <2>2. h[a] \in Nat /\ g[b] \in Nat
    BY <1>6, <2>1, Zenon
  <2>3. h[a] - h[a] = 0 /\ g[b] - g[b] = 0
    BY <2>2
  <2>. QED BY <2>1, <2>3
<1>3. ASSUME NEW k \in T PROVE k + 1 \in T
  <2>. SUFFICES ASSUME k + 1 <= m PROVE h[a + (k + 1)] - h[a] = g[b + (k + 1)] - g[b]
    OBVIOUS
  <2>. DEFINE p == a + k + 1
              q == b + k + 1
  <2>1. /\ p \in 1 .. Len(t) /\ q \in 1 .. Len(s) /\ k + 1 \in 1 .. m
        /\ p - 1 = a + k /\ q - 1 = b + k /\ a + (k + 1) = p /\ b + (k + 1) = q
    BY <1>0
  <2>0. /\ a \in 0 .. Len(t) /\ b \in 0 .. Len(s) /\ p - 1 \in 0 .. Len(t) /\ q - 1 \in 0 .. Len(s)
        /\ p \in 0 .. Len(t) /\ q \in 0 .. Len(s)
    BY <1>0
  <2>2. h[a + k] - h[a] = g[b + k] - g[b]
    <3>1. k <= m
      OBVIOUS
    <3>. QED BY <3>1
  <2>. HIDE DEF p, q
  <2>3. t[p] = s[q]
    BY <2>1, Zenon DEF SameNodes
  <2>4. h[p] = h[p - 1] + t[p].blocks /\ g[q] = g[q - 1] + t[p].blocks
    BY <1>1, <2>1, <2>3, Zenon
  <2>5. h[p] \in Nat /\ h[p - 1] \in Nat /\ h[a] \in Nat /\ g[q] \in Nat /\ g[q - 1] \in Nat /\ g[b] \in Nat
    BY <1>6, <2>0
  <2>6. h[p - 1] - h[a] = g[q - 1] - g[b]
    BY <2>1, <2>2, Zenon
  <2>. DEFINE x == t[p].blocks
  <2>. HIDE DEF x
  <2>7. h[p] = h[p - 1] + x /\ g[q] = g[q - 1] + x
    BY <2>4, Zenon DEF x
  <2>8. x \in Nat
    <3>1. q \in DOMAIN s
      BY <1>0, <2>1
    <3>. QED BY <2>3, <3>1, NodeOfSequence, NodeIs, Zenon DEF x
  <2>9. h[p] - h[a] = g[q] - g[b]
    <3>. DEFINE h1 == h[p]
                h0 == h[p - 1]
                ha == h[a]
                g1 == g[q]
                g0 == g[q - 1]
                gb == g[b]
    <3>1. /\ h1 \in Nat /\ h0 \in Nat /\ ha \in Nat /\ g1 \in Nat /\ g0 \in Nat /\ gb \in Nat
          /\ x \in Nat /\ h1 = h0 + x /\ g1 = g0 + x /\ h0 - ha = g0 - gb
      BY <2>5, <2>6, <2>7, <2>8, Zenon
    <3>. HIDE DEF h1, h0, ha, g1, g0, gb
    <3>2. h1 - ha = g1 - gb
      BY <3>1
    <3>. QED BY <3>2 DEF h1, ha, g1, gb
  <2>10. a + (k + 1) = p /\ b + (k + 1) = q
    BY <2>1, Zenon
  <2>. QED BY <2>9, <2>10
<1>. HIDE DEF T
<1>4. m \in T
  <2>1. T \in SUBSET Nat
    BY DEF T
  <2>. QED BY <1>2, <1>3, <2>1, Induction
<1>5. m <= m
  OBVIOUS
<1>. QED BY <1>4, <1>5 DEF T, Alike

\* The sums of blocks in sequences of nodes: of one more node, with another node in
\* the place of one, and without one.
LEMMA TotalNothing == BlocksIn(<<>>) = 0
<1>1. AreNodes(<<>>)
  <2>1. <<>> \in Seq({}) /\ WellMade({})
    BY DEF WellMade
  <2>. QED BY <2>1, Zenon DEF AreNodes
<1>2. PICK g : CountsUp(g, <<>>) /\ BlocksIn(<<>>) = g[Len(<<>>)]
  BY <1>1, TotalIs, Zenon DEF HasCount
<1>3. Len(<<>>) = 0
  OBVIOUS
<1>. QED BY <1>2, <1>3, Zenon DEF CountsUp

LEMMA TotalAppend ==
  ASSUME NEW s, AreNodes(s), NEW x, IsNode(x)
  PROVE  AreNodes(Append(s, x)) /\ BlocksIn(Append(s, x)) = BlocksIn(s) + x.blocks
<1>. DEFINE t == Append(s, x)
            N == Len(s)
<1>1. PICK S : s \in Seq(S) /\ x \in S /\ WellMade(S)
  BY OneMoreNode, Zenon
<1>2. /\ t \in Seq(S) /\ Len(t) = N + 1 /\ N \in Nat
      /\ t[N + 1] = x /\ \A n \in 1 .. N : t[0 + n] = s[0 + n]
  BY <1>1
<1>3. AreNodes(t)
  BY <1>1, <1>2, Zenon DEF AreNodes
<1>. HIDE DEF t, N
<1>4. PICK g : CountsUp(g, s) /\ BlocksIn(s) = g[N]
  BY TotalIs, Zenon DEF HasCount, N
<1>5. PICK h : CountsUp(h, t) /\ BlocksIn(t) = h[Len(t)]
  BY <1>3, TotalIs, Zenon DEF HasCount
<1>6. h[0 + N] - h[0] = g[0 + N] - g[0]
  <2>1. 0 \in Nat /\ 0 + N <= Len(t) /\ 0 + N <= Len(s) /\ Len(t) \in Nat
    BY <1>2 DEF N
  <2>2. SameNodes(t, 0, s, 0, N)
    BY <1>2, Zenon DEF SameNodes
  <2>3. Alike(h, 0, g, 0, N)
    BY <1>4, <1>5, <2>1, <2>2, <1>2, RiseAlike, Zenon
  <2>. QED BY <2>3, Zenon DEF Alike
<1>7. h[N + 1] = h[N] + x.blocks /\ h[0] = 0 /\ g[0] = 0 /\ h[N] \in Nat /\ g[N] \in Nat
  <2>1. N + 1 \in 1 .. Len(t) /\ N + 1 - 1 = N /\ N \in 0 .. Len(t) /\ N \in 0 .. Len(s)
    BY <1>2 DEF N
  <2>2. h[N + 1] = h[N] + x.blocks /\ h[0] = 0 /\ g[0] = 0
    <3>. DEFINE M == N + 1
    <3>0. M \in 1 .. Len(t) /\ M - 1 = N /\ t[M] = x
      BY <1>2, <2>1
    <3>. HIDE DEF M
    <3>1. h[M] = h[M - 1] + t[M].blocks /\ h[0] = 0 /\ g[0] = 0
      BY <1>4, <1>5, <3>0, Zenon DEF CountsUp
    <3>2. h[M] = h[N] + x.blocks
      BY <3>0, <3>1, Zenon
    <3>. QED BY <3>1, <3>2 DEF M
  <2>3. h \in [0 .. Len(t) -> Nat] /\ g \in [0 .. Len(s) -> Nat]
    BY <1>4, <1>5, Zenon DEF CountsUp
  <2>. QED BY <2>1, <2>2, <2>3
<1>8. h[N] = g[N]
  <2>1. 0 + N = N
    BY <1>2
  <2>. QED BY <1>6, <1>7, <2>1
<1>9. BlocksIn(t) = BlocksIn(s) + x.blocks
  BY <1>2, <1>4, <1>5, <1>7, <1>8, Zenon
<1>. QED BY <1>3, <1>9 DEF t

LEMMA TotalReplaced ==
  ASSUME NEW s, AreNodes(s), NEW x, IsNode(x), NEW i \in DOMAIN s
  PROVE  /\ AreNodes([s EXCEPT ![i] = x]) /\ DOMAIN [s EXCEPT ![i] = x] = DOMAIN s
         /\ BlocksIn([s EXCEPT ![i] = x]) = BlocksIn(s) - s[i].blocks + x.blocks
<1>. DEFINE t == [s EXCEPT ![i] = x]
            N == Len(s)
            j == i - 1
<1>1. PICK S : s \in Seq(S) /\ x \in S /\ WellMade(S)
  BY OneMoreNode, Zenon
<1>2. /\ t \in Seq(S) /\ Len(t) = N /\ N \in Nat /\ i \in 1 .. N /\ DOMAIN t = DOMAIN s
      /\ t[i] = x /\ \A n \in 1 .. N : n # i => t[n] = s[n]
  BY <1>1
<1>3. AreNodes(t)
  BY <1>1, <1>2, Zenon DEF AreNodes
<1>. HIDE DEF t, N
<1>4. PICK g : CountsUp(g, s) /\ BlocksIn(s) = g[N]
  BY TotalIs, Zenon DEF HasCount, N
<1>5. PICK h : CountsUp(h, t) /\ BlocksIn(t) = h[N]
  BY <1>2, <1>3, TotalIs, Zenon DEF HasCount
<1>6. /\ j \in Nat /\ i \in Nat /\ 0 \in Nat /\ N - i \in Nat /\ i + (N - i) = N /\ 0 + j = j
      /\ 0 + j <= N /\ i + (N - i) <= N /\ Len(s) = N /\ j = i - 1
      /\ j \in 0 .. N /\ i \in 0 .. N /\ N \in 0 .. N /\ 0 \in 0 .. N
  BY <1>2 DEF N
<1>. HIDE DEF j
<1>7. h[0 + j] - h[0] = g[0 + j] - g[0]
  <2>1. ASSUME NEW n \in 1 .. j PROVE t[0 + n] = s[0 + n]
    <3>1. 0 + n = n /\ n \in 1 .. N /\ n # i
      BY <1>2, <1>6
    <3>. QED BY <1>2, <3>1, Zenon
  <2>2. SameNodes(t, 0, s, 0, j)
    BY <2>1, Zenon DEF SameNodes
  <2>3. Alike(h, 0, g, 0, j)
    BY <1>2, <1>4, <1>5, <1>6, <2>2, RiseAlike, Zenon
  <2>. QED BY <2>3, Zenon DEF Alike
<1>8. h[i + (N - i)] - h[i] = g[i + (N - i)] - g[i]
  <2>. DEFINE m == N - i
  <2>1. ASSUME NEW n \in 1 .. m PROVE t[i + n] = s[i + n]
    <3>1. i + n \in 1 .. N /\ i + n # i
      BY <1>2, <1>6
    <3>. QED BY <1>2, <3>1, Zenon
  <2>2. m \in Nat /\ i + m <= N
    BY <1>6
  <2>. HIDE DEF m
  <2>3. SameNodes(t, i, s, i, m)
    BY <2>1, Zenon DEF SameNodes
  <2>4. Alike(h, i, g, i, m)
    BY <1>2, <1>4, <1>5, <1>6, <2>2, <2>3, RiseAlike, Zenon
  <2>. QED BY <2>4, Zenon DEF Alike, m
<1>9. /\ h[i] = h[j] + x.blocks /\ g[i] = g[j] + s[i].blocks /\ h[0] = 0 /\ g[0] = 0
      /\ h \in [0 .. N -> Nat] /\ g \in [0 .. N -> Nat]
  BY <1>2, <1>4, <1>5, <1>6, Zenon DEF CountsUp
<1>10. /\ h[i] \in Nat /\ g[i] \in Nat /\ h[j] \in Nat /\ g[j] \in Nat /\ h[N] \in Nat /\ g[N] \in Nat
  BY <1>6, <1>9
<1>11. x.blocks \in Nat /\ s[i].blocks \in Nat
  BY NodeOfSequence, NodeIs, Zenon
<1>12. h[j] = g[j] /\ h[N] - h[i] = g[N] - g[i]
  <2>1. h[j] - 0 = g[j] - 0
    BY <1>6, <1>7, <1>9, Zenon
  <2>2. h[N] - h[i] = g[N] - g[i]
    BY <1>6, <1>8, Zenon
  <2>. QED BY <1>10, <2>1, <2>2
<1>13. h[N] = g[N] - s[i].blocks + x.blocks
  <2>. DEFINE u == s[i].blocks
              v == x.blocks
  <2>1. u \in Nat /\ v \in Nat /\ h[i] = h[j] + v /\ g[i] = g[j] + u
    BY <1>9, <1>11
  <2>. HIDE DEF u, v
  <2>2. h[N] = g[N] - u + v
    BY <1>10, <1>12, <2>1
  <2>. QED BY <2>2 DEF u, v
<1>14. BlocksIn(t) = BlocksIn(s) - s[i].blocks + x.blocks
  BY <1>4, <1>5, <1>13, Zenon
<1>. QED BY <1>2, <1>3, <1>14 DEF t

IsSlice(u, S, s, from, m) ==
  u \in Seq(S) /\ Len(u) = m /\ \A n \in 1 .. m : u[n] = s[from + n]

LEMMA Slice ==
  ASSUME NEW S, NEW s \in Seq(S), NEW a, NEW b, NEW from \in Nat, NEW m \in Nat, from + m <= Len(s),
         a = from + 1, b = from + m
  PROVE  IsSlice(SubSeq(s, a, b), S, s, from, m)
<1>. DEFINE u == SubSeq(s, a, b)
<1>1. /\ a \in Int /\ b \in Int /\ b - a + 1 = m /\ (a <= b <=> m # 0)
      /\ \A n \in 1 .. m : a + n - 1 = from + n
  OBVIOUS
<1>2. \A k \in a .. b : s[k] \in S
  OBVIOUS
<1>3. /\ u \in Seq(S) /\ Len(u) = (IF a <= b THEN b - a + 1 ELSE 0)
      /\ \A n \in 1 .. b - a + 1 : u[n] = s[a + n - 1]
  BY <1>1, <1>2, SubSeqProperties
<1>. HIDE DEF u
<1>4. Len(u) = m
  BY <1>1, <1>3
<1>5. ASSUME NEW n \in 1 .. m PROVE u[n] = s[from + n]
  BY <1>1, <1>3, Zenon
<1>6. IsSlice(u, S, s, from, m)
  BY <1>3, <1>4, <1>5, Zenon DEF IsSlice
<1>. QED BY <1>6 DEF u

LEMMA TotalWithout ==
  ASSUME NEW s, AreNodes(s), NEW i \in DOMAIN s
  PROVE  AreNodes(Without(s, i)) /\ BlocksIn(Without(s, i)) = BlocksIn(s) - s[i].blocks
<1>. DEFINE t == Without(s, i)
            N == Len(s)
            j == i - 1
            M == N - 1
            front == SubSeq(s, 1, i - 1)
            back == SubSeq(s, i + 1, Len(s))
<1>1. PICK S : s \in Seq(S) /\ WellMade(S)
  BY Zenon DEF AreNodes
<1>2. /\ N \in Nat /\ i \in 1 .. N /\ j \in Nat /\ j <= M /\ M \in Nat /\ N - i \in Nat
      /\ i \in Nat /\ 0 + j = j /\ j + (N - i) = M /\ i + (N - i) = N /\ j + 1 = i
      /\ j \in 0 .. N /\ i \in 0 .. N /\ N \in 0 .. N /\ j \in 0 .. M /\ M \in 0 .. M /\ 0 \in Nat
      /\ i \in 1 .. N
  <2>1. N \in Nat /\ i \in 1 .. N
    BY <1>1
  <2>. HIDE DEF N
  <2>. QED BY <2>1
<1>3. IsSlice(front, S, s, 0, j) /\ IsSlice(back, S, s, i, N - i)
  <2>. DEFINE a == i - 1
              b == i + 1
              m == N - i
  <2>1. 0 + j <= N /\ i + m <= N /\ 1 = 0 + 1 /\ a = 0 + j /\ b = i + 1 /\ N = i + m
        /\ 0 \in Nat /\ m \in Nat /\ Len(s) = N
    BY <1>2
  <2>2. /\ front = SubSeq(s, 1, a) /\ back = SubSeq(s, b, N)
    OBVIOUS
  <2>. HIDE DEF a, b, m, front, back, j, N
  <2>3. IsSlice(SubSeq(s, 1, a), S, s, 0, j)
    BY <1>1, <1>2, <2>1, Slice, Zenon
  <2>4. IsSlice(SubSeq(s, b, N), S, s, i, m)
    BY <1>1, <1>2, <2>1, Slice, Zenon
  <2>. QED BY <2>2, <2>3, <2>4, Zenon DEF m
<1>4. t = front \o back
  BY Zenon DEF Without
<1>. HIDE DEF t, N, j, M, front, back
<1>5. /\ t \in Seq(S) /\ Len(t) = M /\ \A n \in 1 .. j : t[n] = s[n]
      /\ \A n \in 1 .. N - i : t[j + n] = s[i + n]
  <2>0. /\ front \in Seq(S) /\ Len(front) = j /\ \A n \in 1 .. j : front[n] = s[0 + n]
        /\ back \in Seq(S) /\ Len(back) = N - i /\ \A n \in 1 .. N - i : back[n] = s[i + n]
    BY <1>3, Zenon DEF IsSlice
  <2>1. Joins(S, front, back)
    BY <2>0, Joining, Zenon
  <2>2. /\ t \in Seq(S) /\ Len(t) = j + (N - i)
        /\ \A n \in 1 .. j : t[n] = front[n]
        /\ \A n \in 1 .. N - i : t[j + n] = back[n]
    BY <1>4, <2>0, <2>1, Zenon DEF Joins
  <2>3. ASSUME NEW n \in 1 .. j PROVE front[n] = s[n]
    <3>1. 0 + n = n
      OBVIOUS
    <3>. QED BY <2>0, <3>1, Zenon
  <2>4. Len(t) = M
    BY <1>2, <2>2
  <2>5. \A n \in 1 .. j : t[n] = s[n]
    BY <2>2, <2>3, Zenon
  <2>6. \A n \in 1 .. N - i : t[j + n] = s[i + n]
    BY <2>0, <2>2, Zenon
  <2>. QED BY <2>2, <2>4, <2>5, <2>6, Zenon
<1>6. AreNodes(t)
  BY <1>1, <1>5, Zenon DEF AreNodes
<1>7. PICK g : CountsUp(g, s) /\ BlocksIn(s) = g[N]
  BY TotalIs, Zenon DEF HasCount, N
<1>8. PICK h : CountsUp(h, t) /\ BlocksIn(t) = h[M]
  BY <1>5, <1>6, TotalIs, Zenon DEF HasCount
<1>9. Len(s) = N /\ 0 + j <= M /\ 0 + j <= N
  BY <1>2 DEF N
<1>10. h[0 + j] - h[0] = g[0 + j] - g[0]
  <2>1. ASSUME NEW n \in 1 .. j PROVE t[0 + n] = s[0 + n]
    <3>1. 0 + n = n
      BY <1>2
    <3>. QED BY <1>5, <3>1, Zenon
  <2>2. SameNodes(t, 0, s, 0, j)
    BY <2>1, Zenon DEF SameNodes
  <2>3. 0 \in Nat /\ j \in Nat /\ 0 + j <= Len(t) /\ 0 + j <= Len(s) /\ Len(t) \in Nat
    BY <1>2, <1>5, <1>9
  <2>4. Alike(h, 0, g, 0, j)
    BY <1>7, <1>8, <2>2, <2>3, RiseAlike, Zenon
  <2>. QED BY <2>4, Zenon DEF Alike
<1>11. h[j + (N - i)] - h[j] = g[i + (N - i)] - g[i]
  <2>. DEFINE m == N - i
  <2>1. SameNodes(t, j, s, i, m)
    BY <1>5, Zenon DEF SameNodes
  <2>2. m \in Nat /\ j + m <= M /\ i + m <= N
    BY <1>2
  <2>. HIDE DEF m
  <2>4. j \in Nat /\ i \in Nat /\ j + m <= Len(t) /\ i + m <= Len(s) /\ Len(t) \in Nat
    BY <1>2, <1>5, <1>9, <2>2
  <2>3. Alike(h, j, g, i, m)
    BY <1>7, <1>8, <2>1, <2>2, <2>4, RiseAlike, Zenon
  <2>. QED BY <2>3, Zenon DEF Alike, m
<1>12. /\ g[i] = g[j] + s[i].blocks /\ h[0] = 0 /\ g[0] = 0
       /\ h \in [0 .. M -> Nat] /\ g \in [0 .. N -> Nat]
  <2>1. /\ h \in [0 .. M -> Nat] /\ g \in [0 .. N -> Nat]
        /\ h[0] = 0 /\ g[0] = 0
        /\ \A n \in 1 .. N : g[n] = g[n - 1] + s[n].blocks
    BY <1>5, <1>7, <1>8, <1>9, Zenon DEF CountsUp
  <2>2. g[i] = g[i - 1] + s[i].blocks
    BY <1>2, <2>1, Zenon
  <2>. QED BY <2>1, <2>2, Zenon DEF j
<1>13. /\ h[j] \in Nat /\ g[j] \in Nat /\ g[i] \in Nat /\ h[M] \in Nat /\ g[N] \in Nat
  BY <1>2, <1>12
<1>14. s[i].blocks \in Nat
  BY NodeOfSequence, NodeIs, Zenon
<1>15. h[j] - 0 = g[j] - 0 /\ h[M] - h[j] = g[N] - g[i]
  BY <1>2, <1>10, <1>11, <1>12, Zenon
<1>16. h[M] = g[N] - s[i].blocks
  <2>. DEFINE u == s[i].blocks
              hj == h[j]
              gj == g[j]
              gi == g[i]
              hm == h[M]
              gn == g[N]
  <2>1. /\ u \in Nat /\ hj \in Nat /\ gj \in Nat /\ gi \in Nat /\ hm \in Nat /\ gn \in Nat
        /\ gi = gj + u /\ hj - 0 = gj - 0 /\ hm - hj = gn - gi
    BY <1>12, <1>13, <1>14, <1>15, Zenon
  <2>. HIDE DEF u, hj, gj, gi, hm, gn
  <2>2. hm = gn - u
    BY <2>1
  <2>. QED BY <2>2, Zenon DEF hm, gn, u
<1>17. BlocksIn(t) = BlocksIn(s) - s[i].blocks
  BY <1>7, <1>8, <1>16, Zenon
<1>. QED BY <1>6, <1>17, Zenon DEF t

LEMMA TotalIsNatural ==
  ASSUME NEW s, AreNodes(s)
  PROVE  BlocksIn(s) \in Nat
<1>1. PICK g : CountsUp(g, s) /\ BlocksIn(s) = g[Len(s)]
  BY TotalIs, Zenon DEF HasCount
<1>2. Len(s) \in 0 .. Len(s)
  <2>1. PICK S : s \in Seq(S)
    BY Zenon DEF AreNodes
  <2>. QED BY <2>1
<1>3. g \in [0 .. Len(s) -> Nat]
  BY <1>1, Zenon DEF CountsUp
<1>. QED BY <1>1, <1>2, <1>3

LEMMA TotalKeep ==
  ASSUME NEW s, AreNodes(s), NEW x, IsNode(x)
  PROVE  AreNodes(s \o Keep(x)) /\ BlocksIn(s \o Keep(x)) = BlocksIn(s) + x.blocks
<1>1. PICK S : s \in Seq(S) /\ x \in S
  BY OneMoreNode, Zenon
<1>2. CASE x = NoNode
  <2>1. s \o Keep(x) = s
    <3>1. Keep(x) = <<>>
      BY <1>2 DEF Keep
    <3>. QED BY <1>1, <3>1
  <2>2. x.blocks = 0
    BY <1>2 DEF NoNode
  <2>4. BlocksIn(s) + 0 = BlocksIn(s)
    BY TotalIsNatural
  <2>. QED BY <2>1, <2>2, <2>4, Zenon
<1>3. CASE x # NoNode
  <2>1. s \o Keep(x) = Append(s, x)
    <3>1. Keep(x) = <<x>>
      BY <1>3 DEF Keep
    <3>. QED BY <1>1, <3>1
  <2>. QED BY <2>1, TotalAppend, Zenon
<1>. QED BY <1>2, <1>3
LEMMA TotalMerged ==
  ASSUME AreNodes(held), NEW i \in DOMAIN held, NEW j \in DOMAIN held, i # j, NEW x, IsNode(x)
  PROVE  /\ AreNodes(Merged(i, j, x))
         /\ BlocksIn(Merged(i, j, x)) = (BlocksIn(held) - held[i].blocks + x.blocks) - held[j].blocks
<1>. DEFINE t == [held EXCEPT ![i] = x]
<1>1. t[j] = held[j]
  OBVIOUS
<1>2. /\ AreNodes(t) /\ DOMAIN t = DOMAIN held
      /\ BlocksIn(t) = BlocksIn(held) - held[i].blocks + x.blocks
  BY TotalReplaced, Zenon
<1>3. Merged(i, j, x) = Without(t, j)
  BY Zenon DEF Merged
<1>. HIDE DEF t
<1>4. AreNodes(Without(t, j)) /\ BlocksIn(Without(t, j)) = BlocksIn(t) - t[j].blocks
  BY <1>2, TotalWithout, Zenon
<1>. QED BY <1>1, <1>2, <1>3, <1>4, Zenon

(***************************************************************************)
(* What is behind the pairs of a list: fewer blocks each time, so that the *)
(* pairs run out.                                                          *)
(***************************************************************************)

RestOf(x) == IF IsPair(x) THEN x.cdr ELSE x

RunsDown(r, N, a) ==
  DOMAIN r = 0 .. N /\ r[0] = a /\ \A k \in 1 .. N : r[k] = RestOf(r[k - 1])

LEMMA RestsAre ==
  ASSUME NEW a, IsNode(a)
  PROVE  RunsDown(Rests(a), a.blocks, a)
<1>. DEFINE N == a.blocks
            Eq(f) == f = [k \in 0 .. N |-> IF k = 0 THEN a ELSE
                                            IF IsPair(f[k - 1]) THEN f[k - 1].cdr ELSE f[k - 1]]
            rest == CHOOSE f : Eq(f)
<1>1. PICK S : a \in S /\ WellMade(S)
  BY Zenon DEF IsNode
<1>. DEFINE step == [n \in 1 .. N |-> [x \in S |-> RestOf(x)]]
<1>2. N \in Nat
  BY NodeIs, Zenon
<1>3. step \in [1 .. N -> [S -> S]]
  <2>1. ASSUME NEW x \in S PROVE RestOf(x) \in S
    BY <1>1, Zenon DEF WellMade, RestOf
  <2>. QED BY <2>1
<1>. HIDE DEF N
<1>4. PICK g : Iterates(g, S, a, N, step)
  <2>. HIDE DEF step
  <2>. QED BY <1>1, <1>2, <1>3, Iteration
<1>5. g \in [0 .. N -> S] /\ g[0] = a /\ \A n \in 1 .. N : g[n] = step[n][g[n - 1]]
  <2>. HIDE DEF step
  <2>. QED BY <1>4, Zenon DEF Iterates
<1>6. Eq(g)
  <2>1. g = [n \in 0 .. N |-> g[n]]
    BY <1>5
  <2>2. ASSUME NEW n \in 0 .. N
        PROVE  g[n] = IF n = 0 THEN a ELSE IF IsPair(g[n - 1]) THEN g[n - 1].cdr ELSE g[n - 1]
    <3>1. CASE n = 0
      BY <1>5, <3>1
    <3>2. CASE n # 0
      <4>1. n \in 1 .. N /\ n - 1 \in 0 .. N
        BY <1>2, <3>2
      <4>2. g[n - 1] \in S
        BY <1>5, <4>1
      <4>3. g[n] = RestOf(g[n - 1])
        BY <1>5, <4>1, <4>2
      <4>. QED BY <3>2, <4>3, Zenon DEF RestOf
    <3>. QED BY <3>1, <3>2
  <2>. QED BY <2>1, <2>2
<1>7. Eq(rest)
  <2>. HIDE DEF Eq
  <2>. QED BY <1>6
<1>8. Rests(a) = rest
  BY Zenon DEF Rests, N
<1>. HIDE DEF rest
<1>9. DOMAIN rest = 0 .. N /\ rest[0] = a
  BY <1>2, <1>7
<1>10. ASSUME NEW k \in 1 .. N PROVE rest[k] = RestOf(rest[k - 1])
  <2>1. k \in 0 .. N /\ k # 0
    BY <1>2
  <2>. QED BY <1>7, <2>1 DEF RestOf
<1>. QED BY <1>8, <1>9, <1>10, Zenon DEF RunsDown, N

LEMMA RestsRunOut ==
  ASSUME NEW a, IsNode(a), NEW r, RunsDown(r, a.blocks, a)
  PROVE  /\ \A k \in 0 .. a.blocks : IsNode(r[k])
         /\ ~IsPair(r[a.blocks])
<1>. DEFINE N == a.blocks
            Keeps(k) == IsNode(r[k]) /\ (IsPair(r[k]) => r[k].blocks + 2 * k <= N)
            T == {k \in Nat : k <= N => Keeps(k)}
<1>1. N \in Nat
  BY NodeIs, Zenon
<1>. HIDE DEF N
<1>2. r[0] = a /\ \A k \in 1 .. N : r[k] = RestOf(r[k - 1])
  BY Zenon DEF RunsDown, N
<1>3. 0 \in T
  <2>1. r[0].blocks = N
    BY <1>2, Zenon DEF N
  <2>2. r[0].blocks + 2 * 0 <= N
    BY <1>1, <2>1
  <2>. QED BY <1>2, <2>2
<1>4. ASSUME NEW k \in T PROVE k + 1 \in T
  <2>. SUFFICES ASSUME k + 1 <= N PROVE Keeps(k + 1)
    OBVIOUS
  <2>1. Keeps(k) /\ k \in Nat
    BY <1>1
  <2>. DEFINE m == k + 1
              x == r[k]
              y == r[m]
  <2>2. m \in 1 .. N /\ m - 1 = k
    BY <1>1
  <2>. HIDE DEF m
  <2>3. y = RestOf(x)
    BY <1>2, <2>2, Zenon
  <2>4. IsNode(x) /\ (IsPair(x) => x.blocks + 2 * k <= N)
    BY <2>1
  <2>. HIDE DEF x, y
  <2>5. CASE IsPair(x)
    <3>1. y = x.cdr
      BY <2>3, <2>5, Zenon DEF RestOf
    <3>2. /\ IsNode(x.car) /\ IsNode(y) /\ x.blocks = PairBlocks + x.car.blocks + y.blocks
      BY <2>4, <2>5, <3>1, NodeIs, Zenon
    <3>. DEFINE c == x.car.blocks
                d == y.blocks
                e == x.blocks
    <3>3. c \in Nat /\ d \in Nat /\ e = PairBlocks + c + d /\ e + 2 * k <= N
      BY <2>4, <2>5, <3>2, NodeIs, Zenon
    <3>. HIDE DEF c, d, e
    <3>4. d + 2 * m <= N
      BY <1>1, <2>1, <2>2, <3>3 DEF PairBlocks
    <3>5. y.blocks + 2 * m <= N
      BY <3>4, Zenon DEF d
    <3>. QED BY <3>2, <3>5, Zenon DEF y, m
  <2>6. CASE ~IsPair(x)
    <3>1. y = x
      BY <2>3, <2>6, Zenon DEF RestOf
    <3>. QED BY <2>4, <2>6, <3>1, Zenon DEF y, m
  <2>. QED BY <2>5, <2>6
<1>. HIDE DEF T
<1>5. \A k \in Nat : k \in T
  <2>1. T \in SUBSET Nat
    BY DEF T
  <2>. QED BY <1>3, <1>4, <2>1, Induction
<1>6. ASSUME NEW k \in 0 .. N PROVE Keeps(k)
  <2>1. k \in Nat /\ k <= N
    BY <1>1
  <2>. QED BY <1>5, <2>1 DEF T
<1>7. ~IsPair(r[N])
  <2>. SUFFICES ASSUME IsPair(r[N]) PROVE FALSE
    OBVIOUS
  <2>1. N \in 0 .. N
    BY <1>1
  <2>2. Keeps(N)
    BY <1>6, <2>1
  <2>. DEFINE x == r[N]
              e == x.blocks
              c == x.car.blocks
              d == x.cdr.blocks
  <2>. HIDE DEF x
  <2>3. IsNode(x) /\ e + 2 * N <= N /\ IsPair(x)
    BY <2>2 DEF x
  <2>4. c \in Nat /\ d \in Nat /\ e = PairBlocks + c + d
    BY <2>3, NodeIs, Zenon
  <2>. HIDE DEF c, d, e
  <2>. QED BY <1>1, <2>3, <2>4 DEF PairBlocks
<1>8. \A k \in 0 .. N : IsNode(r[k])
  BY <1>6
<1>. QED BY <1>7, <1>8 DEF N

(***************************************************************************)
(* A list that is linked to another.                                       *)
(***************************************************************************)

\* The list from its k-th rest on.
LinkedFrom(a, b, f, k) ==
  IF IsPair(Rests(a)[k]) THEN Cons(Rests(a)[k].car, f[k + 1]) ELSE b

LinksUp(f, a, b) ==
  \A k \in 0 .. a.blocks : f[k] = LinkedFrom(a, b, f, k)

LEMMA LinkedExists ==
  ASSUME NEW a, IsNode(a), NEW b
  PROVE  \E f : LinksUp(f, a, b) /\ Linked(a, b) = f[0]
<1>. DEFINE N == a.blocks
            rest == Rests(a)
            E(f, k) == IF IsPair(rest[k]) THEN Cons(rest[k].car, f[k + 1]) ELSE b
            Eq(f) == f = [k \in 0 .. N |-> E(f, k)]
            linked == CHOOSE f : Eq(f)
            P(f, m) == \A k \in N - m .. N : f[k] = E(f, k)
            T == {m \in Nat : m <= N => \E f : P(f, m)}
<1>1. N \in Nat /\ ~IsPair(rest[N])
  BY NodeIs, RestsAre, RestsRunOut, Zenon
<1>2. Linked(a, b) = linked[0]
  BY Zenon DEF Linked
<1>. HIDE DEF N, rest
<1>3. 0 \in T
  <2>. DEFINE f == [k \in {N} |-> b]
  <2>1. P(f, 0)
    <3>1. ASSUME NEW k \in N - 0 .. N PROVE f[k] = E(f, k)
      <4>1. k = N
        BY <1>1
      <4>2. f[N] = b
        OBVIOUS
      <4>3. E(f, N) = b
        <5>. HIDE DEF f
        <5>. QED BY <1>1
      <4>. HIDE DEF f, E
      <4>. QED BY <4>1, <4>2, <4>3
    <3>. HIDE DEF f, E
    <3>. QED BY <3>1
  <2>. HIDE DEF P
  <2>. QED BY <2>1
<1>4. ASSUME NEW m \in T PROVE m + 1 \in T
  <2>. SUFFICES ASSUME m + 1 <= N PROVE \E f : P(f, m + 1)
    OBVIOUS
  <2>1. m \in Nat /\ m <= N /\ \E f : P(f, m)
    BY <1>1
  <2>2. PICK f : P(f, m)
    <3>. HIDE DEF P
    <3>. QED BY <2>1
  <2>. DEFINE i == N - (m + 1)
              e == E(f, i)
              h == [k \in 0 .. N |-> IF k = i THEN e ELSE f[k]]
  <2>. HIDE DEF e
  <2>3. /\ i \in 0 .. N /\ i < N /\ h[i] = e
        /\ \A k \in N - m .. N : h[k] = f[k] /\ k # i /\ k \in 0 .. N
        /\ i + 1 = N - m /\ \A k \in i .. N : k = i \/ k \in N - m .. N
        /\ N - m \in N - m .. N /\ N \in N - m .. N
        /\ \A k \in N - m .. N : k = N \/ k + 1 \in N - m .. N
    BY <1>1, <2>1
  <2>. HIDE DEF i, h
  <2>4. E(h, i) = e
    BY <2>3, Zenon DEF e
  <2>5. ASSUME NEW k \in N - m .. N PROVE h[k] = E(h, k)
    <3>1. f[k] = E(f, k)
      BY <2>2
    <3>2. E(h, k) = E(f, k)
      <4>1. CASE k = N
        BY <1>1, <4>1, Zenon
      <4>2. CASE k # N
        BY <2>3, <4>2, Zenon
      <4>. QED BY <4>1, <4>2
    <3>. HIDE DEF E
    <3>. QED BY <2>3, <3>1, <3>2, Zenon
  <2>6. ASSUME NEW k \in i .. N PROVE h[k] = E(h, k)
    <3>. HIDE DEF E
    <3>. QED BY <2>3, <2>4, <2>5, Zenon
  <2>7. P(h, m + 1)
    <3>. HIDE DEF E
    <3>. QED BY <2>6 DEF i
  <2>. HIDE DEF P
  <2>. QED BY <2>7, Zenon
<1>. HIDE DEF T
<1>5. N \in T
  <2>1. T \in SUBSET Nat
    BY DEF T
  <2>. QED BY <1>1, <1>3, <1>4, <2>1, Induction
<1>6. PICK f : P(f, N)
  <2>. HIDE DEF P
  <2>1. N <= N
    BY <1>1
  <2>. QED BY <1>5, <2>1 DEF T
<1>. DEFINE g == [k \in 0 .. N |-> f[k]]
<1>7. ASSUME NEW k \in 0 .. N PROVE g[k] = E(g, k)
  <2>1. g[k] = f[k] /\ f[k] = E(f, k)
    <3>1. k \in N - N .. N
      BY <1>1
    <3>. HIDE DEF E
    <3>. QED BY <1>6, <3>1
  <2>2. E(g, k) = E(f, k)
    <3>1. CASE k = N
      <4>. HIDE DEF g
      <4>. QED BY <1>1, <3>1, Zenon
    <3>2. CASE k # N
      <4>1. k + 1 \in 0 .. N
        BY <1>1, <3>2
      <4>2. g[k + 1] = f[k + 1]
        BY <4>1
      <4>. HIDE DEF g
      <4>. QED BY <4>2, Zenon
    <3>. QED BY <3>1, <3>2
  <2>. HIDE DEF E, g
  <2>. QED BY <2>1, <2>2
<1>8. Eq(g)
  <2>. HIDE DEF E
  <2>1. g = [k \in 0 .. N |-> g[k]]
    OBVIOUS
  <2>. HIDE DEF g
  <2>. QED BY <1>7, <2>1
<1>9. Eq(linked)
  <2>. HIDE DEF Eq, g
  <2>. QED BY <1>8
<1>. HIDE DEF linked
<1>10. ASSUME NEW k \in 0 .. N PROVE linked[k] = E(linked, k)
  <2>. HIDE DEF E
  <2>. QED BY <1>9
<1>11. LinksUp(linked, a, b)
  BY <1>10, Zenon DEF LinksUp, LinkedFrom, rest, N
<1>. QED BY <1>2, <1>11, Zenon

LEMMA LinkedIs ==
  ASSUME NEW a, IsNode(a), IsPair(a), NEW b, IsNode(b)
  PROVE  /\ IsNode(Linked(a, b)) /\ Linked(a, b) # NoNode /\ IsNode(EndOfList(a))
         /\ Linked(a, b).blocks = (a.blocks - EndOfList(a).blocks) + b.blocks
<1>. DEFINE N == a.blocks
            rest == Rests(a)
            end == rest[N]
<1>1. PICK f : LinksUp(f, a, b) /\ Linked(a, b) = f[0]
  BY LinkedExists, Zenon
<1>2. /\ N \in Nat /\ rest[0] = a /\ ~IsPair(end)
      /\ \A k \in 1 .. N : rest[k] = RestOf(rest[k - 1])
      /\ \A k \in 0 .. N : IsNode(rest[k])
  <2>1. RunsDown(rest, N, a)
    BY RestsAre, Zenon
  <2>. QED BY <2>1, NodeIs, RestsRunOut, Zenon DEF RunsDown
<1>3. \A k \in 0 .. N : f[k] = IF IsPair(rest[k]) THEN Cons(rest[k].car, f[k + 1]) ELSE b
  BY <1>1, Zenon DEF LinksUp, LinkedFrom
<1>4. EndOfList(a) = end
  BY Zenon DEF EndOfList
<1>. HIDE DEF N, rest, end
<1>5. end.blocks \in Nat /\ b.blocks \in Nat /\ IsNode(end)
  <2>1. N \in 0 .. N
    BY <1>2
  <2>. QED BY <1>2, <2>1, NodeIs, Zenon DEF end
<1>. DEFINE Keeps(k) == /\ IsNode(f[k]) /\ f[k].blocks = (rest[k].blocks - end.blocks) + b.blocks
                        /\ ~IsPair(rest[k]) => rest[k] = end
            T == {m \in Nat : m <= N => Keeps(N - m)}
<1>6. 0 \in T
  <2>1. N \in 0 .. N /\ N - 0 = N
    BY <1>2
  <2>2. f[N] = b /\ rest[N] = end
    BY <1>2, <1>3, <2>1, Zenon DEF end
  <2>3. b.blocks = (end.blocks - end.blocks) + b.blocks
    <3>. DEFINE u == end.blocks
                v == b.blocks
    <3>1. u \in Nat /\ v \in Nat
      BY <1>5
    <3>. HIDE DEF u, v
    <3>2. v = (u - u) + v
      BY <3>1
    <3>. QED BY <3>2 DEF u, v
  <2>4. Keeps(N)
    BY <2>2, <2>3, Zenon
  <2>. HIDE DEF Keeps
  <2>. QED BY <2>1, <2>4
<1>7. ASSUME NEW m \in T PROVE m + 1 \in T
  <2>. SUFFICES ASSUME m + 1 <= N PROVE Keeps(N - (m + 1))
    OBVIOUS
  <2>. DEFINE k == N - (m + 1)
              n == k + 1
  <2>1. k \in 0 .. N /\ n = N - m /\ n \in 1 .. N /\ n \in 0 .. N /\ n - 1 = k /\ m <= N
    BY <1>2
  <2>2. Keeps(N - m)
    <3>. HIDE DEF Keeps
    <3>. QED BY <2>1
  <2>3. Keeps(n)
    <3>. HIDE DEF Keeps, n, k
    <3>. QED BY <2>1, <2>2
  <2>. HIDE DEF k
  <2>4. f[k] = IF IsPair(rest[k]) THEN Cons(rest[k].car, f[n]) ELSE b
    BY <1>3, <2>1, Zenon
  <2>. HIDE DEF n
  <2>5. rest[n] = RestOf(rest[k]) /\ IsNode(rest[k])
    BY <1>2, <2>1, Zenon
  <2>6. Keeps(k)
    <3>1. CASE IsPair(rest[k])
      <4>. DEFINE c == rest[k].car
      <4>1. /\ f[k] = Cons(c, f[n]) /\ rest[n] = rest[k].cdr
        BY <2>4, <2>5, <3>1, Zenon DEF RestOf
      <4>2. /\ IsNode(c) /\ IsNode(rest[n]) /\ rest[k].blocks = PairBlocks + c.blocks + rest[n].blocks
        BY <2>5, <3>1, <4>1, NodeIs, Zenon
      <4>3. /\ IsNode(f[n]) /\ f[n].blocks = (rest[n].blocks - end.blocks) + b.blocks
        BY <2>3, Zenon
      <4>. DEFINE d == f[n]
                  e == f[k]
      <4>0. IsNode(c) /\ IsNode(d) /\ e = Cons(c, d)
        BY <4>1, <4>2, <4>3
      <4>. HIDE DEF c, d, e
      <4>4. IsNode(f[k]) /\ f[k].blocks = PairBlocks + c.blocks + f[n].blocks
        <5>1. IsNode(Cons(c, d)) /\ Cons(c, d).blocks = PairBlocks + c.blocks + d.blocks
          BY <4>0, ConsIs, ConsIsNode, Zenon
        <5>2. IsNode(e) /\ e.blocks = PairBlocks + c.blocks + d.blocks
          BY <4>0, <5>1
        <5>. QED BY <5>2, Zenon DEF d, e
      <4>. DEFINE u == c.blocks
                  v == rest[n].blocks
                  w == end.blocks
                  x == b.blocks
                  y == f[n].blocks
                  z == rest[k].blocks
      <4>5. u \in Nat /\ v \in Nat /\ w \in Nat /\ x \in Nat /\ y = (v - w) + x /\ z = PairBlocks + u + v
        BY <1>5, <4>2, <4>3, NodeIs, Zenon
      <4>. HIDE DEF u, v, w, x, y, z
      <4>6. PairBlocks + u + y = (z - w) + x
        BY <4>5 DEF PairBlocks
      <4>7. f[k].blocks = (rest[k].blocks - end.blocks) + b.blocks
        BY <4>4, <4>6, Zenon DEF u, y, z, w, x
      <4>. QED BY <3>1, <4>4, <4>7, Zenon
    <3>2. CASE ~IsPair(rest[k])
      <4>1. rest[n] = rest[k] /\ f[k] = b
        BY <2>4, <2>5, <3>2, Zenon DEF RestOf
      <4>2. rest[k] = end
        BY <2>3, <3>2, <4>1, Zenon
      <4>3. f[n].blocks = (end.blocks - end.blocks) + b.blocks
        BY <2>3, <4>1, <4>2, Zenon
      <4>4. b.blocks = (end.blocks - end.blocks) + b.blocks
        <5>. DEFINE u == end.blocks
                    v == b.blocks
        <5>1. u \in Nat /\ v \in Nat
          BY <1>5
        <5>. HIDE DEF u, v
        <5>2. v = (u - u) + v
          BY <5>1
        <5>. QED BY <5>2 DEF u, v
      <4>. QED BY <4>1, <4>2, <4>4, Zenon
    <3>. QED BY <3>1, <3>2
  <2>. QED BY <2>6 DEF k
<1>. HIDE DEF T
<1>8. N \in T
  <2>1. T \in SUBSET Nat
    BY DEF T
  <2>. QED BY <1>2, <1>6, <1>7, <2>1, Induction
<1>9. Keeps(0)
  <2>1. N <= N /\ N - N = 0
    BY <1>2
  <2>2. Keeps(N - N)
    <3>. HIDE DEF Keeps
    <3>. QED BY <1>8, <2>1 DEF T
  <2>. HIDE DEF Keeps
  <2>. QED BY <2>1, <2>2
<1>10. f[0] # NoNode
  <2>1. 0 \in 0 .. N
    BY <1>2
  <2>. DEFINE c == a.car
              d == f[0 + 1]
  <2>2. f[0] = Cons(c, d)
    BY <1>2, <1>3, <2>1, Zenon
  <2>. HIDE DEF c, d
  <2>3. IsPair(f[0])
    BY <2>2, ConsIs
  <2>4. ~IsPair(NoNode)
    BY DEF IsPair, NoNode
  <2>. QED BY <2>3, <2>4, Zenon
<1>11. f[0].blocks = (a.blocks - end.blocks) + b.blocks
  BY <1>2, <1>9, Zenon
<1>. QED BY <1>1, <1>4, <1>5, <1>9, <1>10, <1>11, Zenon

(***************************************************************************)
(* The parser: it goes on, and what it returns has the blocks it allocated.*)
(***************************************************************************)

IsResult(r) ==
  \E status, position, node, blocks :
    r = [status |-> status, position |-> position, node |-> node, blocks |-> blocks]

\* The blocks of a result are those of its node.
Accounted(r) == IsResult(r) /\ IsNode(r.node) /\ r.blocks = r.node.blocks

Onward(r, i, N) == IsError(r) \/ r.position \in i + 1 .. N

Fine(r, i, N) == Accounted(r) /\ Onward(r, i, N)

Says(r, status, position) ==
  Accounted(r) /\ r.status = status /\ r.position = position

LEMMA ResultIs ==
  ASSUME NEW status, NEW position, NEW node, IsNode(node)
  PROVE  Says(Result(status, position, node), status, position)
<1>. DEFINE r == Result(status, position, node)
<1>1. r = [status |-> status, position |-> position, node |-> node, blocks |-> node.blocks]
  BY DEF Result
<1>. HIDE DEF r
<1>2. r.status = status /\ r.position = position /\ r.node = node /\ r.blocks = node.blocks
  BY <1>1
<1>3. IsResult(r)
  BY <1>1, Zenon DEF IsResult
<1>4. Accounted(r)
  BY <1>2, <1>3 DEF Accounted
<1>. QED BY <1>2, <1>4 DEF r, Says

SkipIs(j, text, i, class) ==
  j \in i .. Len(text) /\ (i < Len(text) /\ At(text, i) \in class => j > i)

LEMMA Skipping ==
  ASSUME NEW text \in Seq(STRING), NEW i \in 0 .. Len(text), NEW class
  PROVE  SkipIs(Skip(text, i, class), text, i, class)
<1>. DEFINE N == Len(text)
            Ends(j) == j = N \/ At(text, j) \notin class
            P(j) == Ends(j) /\ \A k \in i .. j - 1 : At(text, k) \in class
            T == {j \in i .. N : Ends(j)}
            e == Skip(text, i, class)
<1>1. N \in Nat /\ i \in Nat /\ i <= N
  OBVIOUS
<1>2. e = CHOOSE j \in i .. N : P(j)
  BY DEF Skip
<1>. HIDE DEF N, e
<1>3. T \in SUBSET Nat /\ T # {}
  <2>1. N \in T
    BY <1>1
  <2>2. T \subseteq Nat
    BY <1>1
  <2>. QED BY <2>1, <2>2
<1>4. PICK j \in T : \A y \in T : j <= y
  <2>. HIDE DEF T
  <2>. QED BY <1>3, LeastNumber
<1>5. P(j) /\ j \in i .. N
  <2>1. ASSUME NEW k \in i .. j - 1 PROVE At(text, k) \in class
    <3>1. k \in i .. N /\ ~(j <= k) /\ k # N
      BY <1>1
    <3>. QED BY <1>4, <3>1
  <2>. QED BY <2>1
<1>6. e \in i .. N /\ P(e)
  <2>. HIDE DEF P
  <2>. QED BY <1>2, <1>5
<1>7. ASSUME i < N, At(text, i) \in class PROVE e > i
  <2>1. e # i
    <3>1. i # N
      BY <1>1, <1>7
    <3>. QED BY <1>6, <1>7, <3>1
  <2>. QED BY <1>1, <1>6, <2>1
<1>8. e \in i .. N /\ (i < N /\ At(text, i) \in class => e > i)
  BY <1>6, <1>7
<1>. QED BY <1>8, Zenon DEF SkipIs, e, N

LEMMA AtomIs ==
  ASSUME NEW text, NEW j, NEW node, IsNode(node), NEW broken,
         broken \notin {"SUCCESS", "FOUND_LIST"}, NEW i, NEW N, j \in i + 1 .. N
  PROVE  /\ Fine(Atom(text, j, node, broken), i, N)
         /\ Atom(text, j, node, broken).status # "FOUND_LIST"
<1>. DEFINE r == Result("SUCCESS", j, node)
            f == Result(broken, j, NoNode)
<1>1. Says(r, "SUCCESS", j)
  BY ResultIs, Zenon
<1>2. Says(f, broken, j)
  BY ResultIs, AtomsAreNodes, Zenon
<1>3. Atom(text, j, node, broken) = r \/ Atom(text, j, node, broken) = f
  BY DEF Atom
<1>. HIDE DEF r, f
<1>4. Onward(r, i, N) /\ r.status # "FOUND_LIST"
  BY <1>1 DEF Says, Onward
<1>5. Onward(f, i, N) /\ f.status # "FOUND_LIST"
  BY <1>2 DEF Says, Onward, IsError
<1>. QED BY <1>1, <1>2, <1>3, <1>4, <1>5, Zenon DEF Says, Fine

\* What can be at a position where there is a character.
Sight(what, text, i) ==
  /\ what \in {"INT_HEX", "PAREN_OPEN", "PAREN_CLOSE", "INT_DEC", "SYMBOL", "UNKNOWN"}
  /\ what = "INT_HEX" => i + 2 <= Len(text)
  /\ what = "INT_DEC" => At(text, i) \in DecDigits
  /\ what = "SYMBOL" => At(text, i) \in SymInit

LEMMA Looking ==
  ASSUME NEW text \in Seq(STRING), NEW i \in 0 .. Len(text)
  PROVE  Sight(LookingAt(text, i), text, i)
<1>. DEFINE N == Len(text)
<1>1. N \in Nat /\ i \in Nat
  OBVIOUS
<1>. HIDE DEF N
<1>2. N > i + 1 => i + 2 <= N
  BY <1>1
<1>3. N > i + 1 => i + 2 <= Len(text)
  BY <1>2 DEF N
<1>. QED BY <1>3 DEF LookingAt, Sight, N

LEMMA TokenIs ==
  ASSUME NEW text \in Seq(STRING), NEW i \in 0 .. Len(text) - 1, NEW what, Sight(what, text, i)
  PROVE  Fine(TokenAt(text, i, what), i, Len(text))
<1>. DEFINE N == Len(text)
            r == TokenAt(text, i, what)
<1>1. N \in Nat /\ i \in 0 .. N /\ i < N /\ i \in Nat /\ i + 1 \in i + 1 .. N
  OBVIOUS
<1>2. CASE what = "INT_HEX"
  <2>. DEFINE j == Skip(text, i + 2, HexDigits)
              k == i + 2
              node == Integer(Number(text, i, j, 16))
  <2>1. k \in 0 .. Len(text) /\ k > i
    BY <1>1, <1>2 DEF Sight
  <2>2. SkipIs(Skip(text, k, HexDigits), text, k, HexDigits)
    <3>. HIDE DEF k
    <3>. QED BY <2>1, Skipping, Zenon
  <2>3. j \in i + 1 .. N
    <3>1. j \in k .. N
      BY <2>2, Zenon DEF SkipIs
    <3>. HIDE DEF j
    <3>. QED BY <1>1, <3>1
  <2>4. r = Atom(text, j, node, "BROKEN_INTEGER")
    BY <1>2 DEF TokenAt, Integral
  <2>5. IsNode(node)
    BY AtomsAreNodes, Zenon
  <2>. HIDE DEF j, node, r, N
  <2>6. "BROKEN_INTEGER" \notin {"SUCCESS", "FOUND_LIST"}
    OBVIOUS
  <2>7. Fine(Atom(text, j, node, "BROKEN_INTEGER"), i, N)
    BY <2>3, <2>5, <2>6, AtomIs, Zenon
  <2>. QED BY <2>4, <2>7, Zenon DEF r, N
<1>3. CASE what = "INT_DEC"
  <2>. DEFINE j == Skip(text, i, DecDigits)
              node == Integer(Number(text, i, j, 10))
  <2>1. SkipIs(j, text, i, DecDigits) /\ At(text, i) \in DecDigits
    BY <1>1, <1>3, Skipping, Zenon DEF Sight
  <2>2. j \in i .. N /\ j > i
    BY <1>1, <2>1, Zenon DEF SkipIs
  <2>3. j \in i + 1 .. N
    <3>. HIDE DEF j
    <3>. QED BY <1>1, <2>2
  <2>4. r = Atom(text, j, node, "BROKEN_INTEGER")
    BY <1>3 DEF TokenAt, Integral
  <2>5. IsNode(node)
    BY AtomsAreNodes, Zenon
  <2>. HIDE DEF j, node, r, N
  <2>6. "BROKEN_INTEGER" \notin {"SUCCESS", "FOUND_LIST"}
    OBVIOUS
  <2>7. Fine(Atom(text, j, node, "BROKEN_INTEGER"), i, N)
    BY <2>3, <2>5, <2>6, AtomIs, Zenon
  <2>. QED BY <2>4, <2>7, Zenon DEF r, N
<1>4. CASE what = "SYMBOL"
  <2>. DEFINE j == Skip(text, i, Sym)
              node == Symbol(SubSeq(text, i + 1, j))
  <2>1. SkipIs(j, text, i, Sym) /\ At(text, i) \in Sym
    <3>1. At(text, i) \in SymInit
      BY <1>4, Zenon DEF Sight
    <3>2. At(text, i) \in Sym
      BY <3>1, Zenon DEF Sym
    <3>. QED BY <1>1, <3>2, Skipping, Zenon
  <2>2. j \in i .. N /\ j > i
    BY <1>1, <2>1, Zenon DEF SkipIs
  <2>3. j \in i + 1 .. N
    <3>. HIDE DEF j
    <3>. QED BY <1>1, <2>2
  <2>4. r = Atom(text, j, node, "BROKEN_SYMBOL")
    BY <1>4 DEF TokenAt, Symbolic
  <2>5. IsNode(node)
    BY AtomsAreNodes, Zenon
  <2>. HIDE DEF j, node, r, N
  <2>6. "BROKEN_SYMBOL" \notin {"SUCCESS", "FOUND_LIST"}
    OBVIOUS
  <2>7. Fine(Atom(text, j, node, "BROKEN_SYMBOL"), i, N)
    BY <2>3, <2>5, <2>6, AtomIs, Zenon
  <2>. QED BY <2>4, <2>7, Zenon DEF r, N
<1>5. CASE what \in {"PAREN_OPEN", "PAREN_CLOSE"}
  <2>. DEFINE open == Result("FOUND_LIST", i + 1, NoNode)
              close == Result("SUCCESS", i + 1, EmptyList)
  <2>1. Accounted(open) /\ open.position = i + 1 /\ Accounted(close) /\ close.position = i + 1
    BY ResultIs, AtomsAreNodes, Zenon DEF Says
  <2>2. r = open \/ r = close
    BY <1>5 DEF TokenAt
  <2>. HIDE DEF open, close, r, N
  <2>3. Fine(open, i, N) /\ Fine(close, i, N)
    BY <1>1, <2>1, Zenon DEF Fine, Onward
  <2>. QED BY <2>2, <2>3, Zenon DEF r, N
<1>6. CASE what = "UNKNOWN"
  <2>. DEFINE none == Result("UNKNOWN_INPUT", i, NoNode)
  <2>1. Says(none, "UNKNOWN_INPUT", i)
    BY ResultIs, AtomsAreNodes, Zenon
  <2>2. r = none
    BY <1>6 DEF TokenAt
  <2>. HIDE DEF none, r
  <2>3. IsError(none)
    BY <2>1 DEF Says, IsError
  <2>. QED BY <2>1, <2>2, <2>3, Zenon DEF Says, Fine, Onward, r
<1>. QED BY <1>2, <1>3, <1>4, <1>5, <1>6 DEF Sight

LEMMA ParsedToken ==
  ASSUME NEW text \in Seq(STRING), NEW i \in 0 .. Len(text)
  PROVE  /\ Accounted(ParseToken(text, i))
         /\ i < Len(text) => Fine(ParseToken(text, i), i, Len(text))
         /\ i >= Len(text) => ParseToken(text, i).status # "FOUND_LIST"
<1>. DEFINE N == Len(text)
            j == Skip(text, i, Space)
            r == ParseToken(text, i)
            none == Result("SUCCESS", j, NoNode)
<1>1. SkipIs(j, text, i, Space)
  BY Skipping, Zenon
<1>2. j \in i .. N
  BY <1>1, Zenon DEF SkipIs
<1>3. r = TokenAt(text, j, IF j >= N THEN "END" ELSE LookingAt(text, j))
  BY Zenon DEF ParseToken, TokenBehindSpace
<1>4. Accounted(none) /\ none.status = "SUCCESS" /\ none.position = j
  BY ResultIs, AtomsAreNodes, Zenon DEF Says
<1>. HIDE DEF j, r
<1>5. CASE j >= N
  <2>1. r = TokenAt(text, j, "END")
    BY <1>3, <1>5, Zenon
  <2>2. r = none
    BY <2>1 DEF TokenAt
  <2>. HIDE DEF none
  <2>3. i < N => j \in i + 1 .. N
    BY <1>2, <1>5
  <2>4. i < N => Onward(r, i, N)
    BY <1>4, <2>2, <2>3 DEF Onward
  <2>. QED BY <1>4, <2>2, <2>4 DEF Fine, r
<1>6. CASE j < N
  <2>1. j \in 0 .. Len(text) - 1 /\ j \in 0 .. Len(text) /\ ~(j >= N) /\ i < N /\ ~(i >= N)
    BY <1>2, <1>6
  <2>. DEFINE what == LookingAt(text, j)
  <2>2. r = TokenAt(text, j, what)
    BY <1>3, <2>1, Zenon
  <2>3. Sight(what, text, j)
    BY <2>1, Looking, Zenon
  <2>. HIDE DEF what
  <2>4. Fine(r, j, N)
    BY <2>1, <2>2, <2>3, TokenIs
  <2>5. Onward(r, i, N)
    <3>1. IsError(r) \/ r.position \in j + 1 .. N
      BY <2>4, Zenon DEF Fine, Onward
    <3>2. r.position \in j + 1 .. N => r.position \in i + 1 .. N
      BY <1>2
    <3>. QED BY <3>1, <3>2, Zenon DEF Onward
  <2>. QED BY <2>1, <2>4, <2>5 DEF Fine, r
<1>7. j \in Int /\ N \in Int
  BY <1>2
<1>. QED BY <1>5, <1>6, <1>7

\* One call of sx_parse_list(), with what the calls it makes return.
ListAt(text, i, list) ==
  IF i >= Len(text) THEN Result("UNEXPECTED_END", 0, NoNode)
  ELSE LET r   == ParseToken(text, i)
           car == IF r.status = "FOUND_LIST" THEN list[r.position] ELSE Ended(text, i, r)
       IN  IF IsEmptyListp(car) \/ IsError(car) THEN car
           ELSE Paired(car, list[car.position])

FineBehind(f, i, N) == \A k \in i + 1 .. N : Fine(f[k], k, N)
SameBehind(f, g, i, N) == \A k \in i + 1 .. N : f[k] = g[k]

LEMMA PairedIs ==
  ASSUME NEW car, NEW cdr, NEW i \in Nat, NEW N \in Nat, Fine(car, i, N), ~IsError(car),
         Fine(cdr, car.position, N)
  PROVE  Fine(Paired(car, cdr), i, N)
<1>. DEFINE r == Paired(car, cdr)
            a == car.node
            d == cdr.node
            n == Cons(a, d)
            j == car.position
            p == cdr.position
<1>1. r = [status |-> cdr.status, position |-> cdr.position, node |-> n,
           blocks |-> car.blocks + cdr.blocks + PairBlocks]
  BY DEF Paired
<1>. HIDE DEF r, n
<1>2. /\ IsResult(r) /\ r.status = cdr.status /\ r.position = p /\ r.node = n
      /\ r.blocks = car.blocks + cdr.blocks + PairBlocks
  <2>1. IsResult(r)
    BY <1>1, Zenon DEF IsResult
  <2>. QED BY <1>1, <2>1
<1>3. /\ IsNode(a) /\ IsNode(d) /\ car.blocks = a.blocks /\ cdr.blocks = d.blocks
  BY Zenon DEF Fine, Accounted
<1>. HIDE DEF a, d
<1>4. IsNode(n) /\ n.blocks = PairBlocks + a.blocks + d.blocks
  BY <1>3, ConsIs, ConsIsNode, Zenon DEF n
<1>5. r.blocks = n.blocks
  <2>. DEFINE u == a.blocks
              v == d.blocks
  <2>1. u \in Nat /\ v \in Nat /\ r.blocks = u + v + PairBlocks /\ n.blocks = PairBlocks + u + v
    BY <1>2, <1>3, <1>4, NodeIs, Zenon
  <2>. HIDE DEF u, v
  <2>. QED BY <2>1 DEF PairBlocks
<1>6. Onward(r, i, N)
  <2>1. j \in i + 1 .. N
    BY Zenon DEF Fine, Onward
  <2>2. IsError(cdr) \/ p \in j + 1 .. N
    BY Zenon DEF Fine, Onward
  <2>. HIDE DEF j, p
  <2>3. p \in j + 1 .. N => p \in i + 1 .. N
    BY <2>1
  <2>4. IsError(cdr) => IsError(r)
    BY <1>2, Zenon DEF IsError
  <2>. QED BY <1>2, <2>2, <2>3, <2>4, Zenon DEF Onward
<1>. QED BY <1>2, <1>4, <1>5, <1>6, Zenon DEF Fine, Accounted, r

\* A call depends on what is behind its position, and goes on from there.
LEMMA ListGoesOn ==
  ASSUME NEW text \in Seq(STRING), NEW i \in 0 .. Len(text), NEW f, NEW g,
         FineBehind(f, i, Len(text)), SameBehind(f, g, i, Len(text))
  PROVE  ListAt(text, i, f) = ListAt(text, i, g) /\ Fine(ListAt(text, i, f), i, Len(text))
<1>. DEFINE N == Len(text)
<1>0. N \in Nat /\ i \in Nat
  OBVIOUS
<1>1. CASE i >= N
  <2>. DEFINE r == Result("UNEXPECTED_END", 0, NoNode)
  <2>1. Says(r, "UNEXPECTED_END", 0)
    BY ResultIs, AtomsAreNodes, Zenon
  <2>2. ListAt(text, i, f) = r /\ ListAt(text, i, g) = r
    BY <1>1, Zenon DEF ListAt
  <2>. HIDE DEF r
  <2>3. IsError(r)
    BY <2>1 DEF Says, IsError
  <2>4. Fine(r, i, N)
    BY <2>1, <2>3, Zenon DEF Says, Fine, Onward
  <2>. QED BY <2>2, <2>4
<1>2. CASE i < N
  <2>. DEFINE r == ParseToken(text, i)
              Car(h) == IF r.status = "FOUND_LIST" THEN h[r.position] ELSE Ended(text, i, r)
              car == Car(f)
              E(h) == IF IsEmptyListp(Car(h)) \/ IsError(Car(h)) THEN Car(h)
                      ELSE Paired(Car(h), h[Car(h).position])
  <2>1. ~(i >= N)
    BY <1>0, <1>2
  <2>2. ListAt(text, i, f) = E(f) /\ ListAt(text, i, g) = E(g)
    BY <2>1, Zenon DEF ListAt
  <2>3. Fine(r, i, N)
    BY <1>2, ParsedToken, Zenon
  <2>. HIDE DEF r
  <2>4. Car(g) = car /\ Fine(car, i, N)
    <3>1. CASE r.status = "FOUND_LIST"
      <4>. DEFINE j == r.position
      <4>1. j \in i + 1 .. N
        <5>1. ~IsError(r)
          BY <3>1 DEF IsError
        <5>. QED BY <2>3, <5>1, Zenon DEF Fine, Onward
      <4>2. f[j] = g[j] /\ Fine(f[j], j, N)
        BY <4>1, Zenon DEF FineBehind, SameBehind
      <4>3. car = f[j] /\ Car(g) = g[j]
        BY <3>1
      <4>. HIDE DEF j, car, Car
      <4>4. Accounted(car) /\ (IsError(car) \/ car.position \in j + 1 .. N)
        BY <4>2, <4>3 DEF Fine, Onward
      <4>5. car.position \in j + 1 .. N => car.position \in i + 1 .. N
        BY <1>0, <4>1
      <4>. QED BY <4>2, <4>3, <4>4, <4>5, Zenon DEF Fine, Onward
    <3>2. CASE r.status # "FOUND_LIST"
      <4>1. car = Ended(text, i, r) /\ Car(g) = Ended(text, i, r)
        BY <3>2
      <4>2. Ended(text, i, r) = r
        BY <2>1 DEF Ended
      <4>. HIDE DEF car, Car
      <4>. QED BY <2>3, <4>1, <4>2
    <3>. QED BY <3>1, <3>2
  <2>. HIDE DEF car
  <2>5. CASE IsEmptyListp(car) \/ IsError(car)
    <3>1. E(f) = car /\ E(g) = car
      <4>1. Car(f) = car
        BY Zenon DEF car
      <4>. HIDE DEF Car
      <4>. QED BY <2>4, <2>5, <4>1
    <3>. QED BY <2>2, <2>4, <3>1
  <2>6. CASE ~(IsEmptyListp(car) \/ IsError(car))
    <3>. DEFINE j == car.position
    <3>1. E(f) = Paired(car, f[j]) /\ E(g) = Paired(car, g[j])
      <4>1. Car(f) = car
        BY Zenon DEF car
      <4>. HIDE DEF Car
      <4>. QED BY <2>4, <2>6, <4>1
    <3>2. j \in i + 1 .. N /\ ~IsError(car)
      BY <2>4, <2>6, Zenon DEF Fine, Onward
    <3>3. f[j] = g[j] /\ Fine(f[j], j, N)
      BY <3>2, Zenon DEF FineBehind, SameBehind
    <3>. DEFINE cdr == f[j]
    <3>4. Fine(cdr, car.position, N)
      BY <3>3, Zenon
    <3>. HIDE DEF cdr
    <3>5. Fine(Paired(car, cdr), i, N)
      BY <1>0, <2>4, <3>2, <3>4, PairedIs, Zenon
    <3>6. Fine(E(f), i, N)
      <4>. HIDE DEF E
      <4>. QED BY <3>1, <3>5 DEF cdr
    <3>. HIDE DEF E
    <3>. QED BY <2>2, <3>1, <3>3, <3>6
  <2>. QED BY <2>5, <2>6
<1>. QED BY <1>0, <1>1, <1>2

LEMMA ListsAreFine ==
  ASSUME NEW text \in Seq(STRING), NEW i \in 0 .. Len(text)
  PROVE  Fine(ParseList(text)[i], i, Len(text))
<1>. DEFINE N == Len(text)
            Eq(f) == f = [k \in 0 .. N |-> ListAt(text, k, f)]
            list == CHOOSE f : Eq(f)
            P(f, m) == \A k \in N - m .. N : f[k] = ListAt(text, k, f) /\ Fine(f[k], k, N)
            T == {m \in Nat : m <= N + 1 => \E f : P(f, m - 1)}
<1>1. N \in Nat
  OBVIOUS
<1>2. ParseList(text) = list
  BY Zenon DEF ParseList, ListAt
<1>. HIDE DEF N
<1>3. 0 \in T
  <2>1. ASSUME NEW f PROVE P(f, 0 - 1)
    <3>1. N - (0 - 1) .. N = {}
      BY <1>1
    <3>. QED BY <3>1, Zenon
  <2>. HIDE DEF P
  <2>. QED BY <2>1
<1>4. ASSUME NEW m \in T PROVE m + 1 \in T
  <2>. SUFFICES ASSUME m + 1 <= N + 1 PROVE \E f : P(f, (m + 1) - 1)
    OBVIOUS
  <2>1. m \in Nat /\ m <= N /\ (m + 1) - 1 = m /\ \E f : P(f, m - 1)
    <3>1. m \in Nat /\ m <= N + 1 /\ m <= N /\ (m + 1) - 1 = m
      BY <1>1
    <3>. HIDE DEF P
    <3>. QED BY <3>1
  <2>2. PICK f : P(f, m - 1)
    <3>. HIDE DEF P
    <3>. QED BY <2>1
  <2>. DEFINE here == N - m
              e == ListAt(text, here, f)
              h == [k \in 0 .. N |-> IF k = here THEN e ELSE f[k]]
  <2>. HIDE DEF e
  <2>3. /\ here \in 0 .. N /\ h[here] = e /\ here + 1 = N - (m - 1)
        /\ \A k \in here + 1 .. N : h[k] = f[k] /\ k \in 0 .. N /\ k \in here .. N
        /\ \A k \in here .. N : k = here \/ k \in here + 1 .. N
        /\ \A k \in here + 1 .. N : \A n \in k + 1 .. N : n \in here + 1 .. N
    BY <1>1, <2>1
  <2>4. \A k \in here + 1 .. N : f[k] = ListAt(text, k, f) /\ Fine(f[k], k, N)
    BY <2>2, <2>3, Zenon
  <2>. HIDE DEF here, h, P
  <2>5. ASSUME NEW k \in here .. N
        PROVE  ListAt(text, k, f) = ListAt(text, k, h) /\ Fine(ListAt(text, k, f), k, N)
    <3>1. k \in 0 .. Len(text)
      BY <2>3 DEF N
    <3>2. \A n \in k + 1 .. N : n \in here + 1 .. N
      BY <2>3, Zenon
    <3>3. FineBehind(f, k, N) /\ SameBehind(f, h, k, N)
      BY <2>3, <2>4, <3>2, Zenon DEF FineBehind, SameBehind
    <3>. QED BY <3>1, <3>3, ListGoesOn, Zenon DEF N
  <2>6. ASSUME NEW k \in here .. N
        PROVE  h[k] = ListAt(text, k, h) /\ Fine(h[k], k, N)
    <3>1. CASE k = here
      BY <2>3, <2>5, <3>1, Zenon DEF e
    <3>2. CASE k # here
      BY <2>3, <2>4, <2>5, <3>2, Zenon
    <3>. QED BY <3>1, <3>2
  <2>7. P(h, m)
    BY <2>6, Zenon DEF P, here
  <2>. QED BY <2>1, <2>7, Zenon
<1>. HIDE DEF T
<1>5. N + 1 \in T
  <2>1. T \in SUBSET Nat /\ N + 1 \in Nat
    BY <1>1 DEF T
  <2>2. \A n \in Nat : n \in T
    BY <1>3, <1>4, <2>1, Induction, Zenon
  <2>. QED BY <2>1, <2>2, Zenon
<1>6. PICK f : P(f, N)
  <2>. HIDE DEF P
  <2>1. N + 1 <= N + 1 /\ (N + 1) - 1 = N
    BY <1>1
  <2>2. \E f : P(f, (N + 1) - 1)
    BY <1>5, <2>1, Zenon DEF T
  <2>. QED BY <2>1, <2>2, Zenon
<1>7. \A k \in 0 .. N : f[k] = ListAt(text, k, f) /\ Fine(f[k], k, N)
  <2>1. N - N = 0
    BY <1>1
  <2>. QED BY <1>6, <2>1, Zenon
<1>. HIDE DEF P
<1>. DEFINE g == [k \in 0 .. N |-> f[k]]
<1>8. ASSUME NEW k \in 0 .. N, NEW h, \A n \in 0 .. N : h[n] = f[n]
      PROVE  ListAt(text, k, f) = ListAt(text, k, h)
  <2>1. k \in 0 .. Len(text)
    BY DEF N
  <2>2. \A n \in k + 1 .. N : n \in 0 .. N
    BY <1>1
  <2>3. FineBehind(f, k, N) /\ SameBehind(f, h, k, N)
    BY <1>7, <1>8, <2>2, Zenon DEF FineBehind, SameBehind
  <2>. QED BY <2>1, <2>3, ListGoesOn, Zenon DEF N
<1>9. Eq(g)
  <2>1. \A n \in 0 .. N : g[n] = f[n]
    OBVIOUS
  <2>2. g = [k \in 0 .. N |-> g[k]]
    OBVIOUS
  <2>. HIDE DEF g
  <2>3. ASSUME NEW k \in 0 .. N PROVE g[k] = ListAt(text, k, g)
    BY <1>7, <1>8, <2>1, Zenon
  <2>. QED BY <2>2, <2>3
<1>10. Eq(list)
  <2>. HIDE DEF Eq, g
  <2>. QED BY <1>9
<1>. HIDE DEF list
<1>11. \A k \in 0 .. N : list[k] = ListAt(text, k, list)
  BY <1>10
<1>. DEFINE Q(m) == \A k \in N - m .. N : Fine(list[k], k, N)
            R == {m \in Nat : m <= N + 1 => Q(m - 1)}
<1>12. 0 \in R
  <2>1. N - (0 - 1) .. N = {}
    BY <1>1
  <2>. QED BY <2>1
<1>13. ASSUME NEW m \in R PROVE m + 1 \in R
  <2>. SUFFICES ASSUME m + 1 <= N + 1 PROVE Q((m + 1) - 1)
    OBVIOUS
  <2>1. m \in Nat /\ m <= N /\ (m + 1) - 1 = m /\ Q(m - 1)
    BY <1>1
  <2>. DEFINE here == N - m
  <2>2. /\ here \in 0 .. N /\ here + 1 = N - (m - 1)
        /\ \A k \in here .. N : k = here \/ k \in here + 1 .. N
    BY <1>1, <2>1
  <2>3. FineBehind(list, here, N) /\ SameBehind(list, list, here, N)
    BY <2>1, <2>2, Zenon DEF FineBehind, SameBehind
  <2>4. Fine(ListAt(text, here, list), here, N)
    <3>. HIDE DEF here
    <3>1. here \in 0 .. Len(text)
      BY <2>2 DEF N
    <3>. QED BY <2>3, <3>1, ListGoesOn, Zenon DEF N
  <2>5. Fine(list[here], here, N)
    BY <1>11, <2>2, <2>4, Zenon
  <2>6. Q(m)
    <3>. SUFFICES ASSUME NEW k \in here .. N PROVE Fine(list[k], k, N)
      OBVIOUS
    <3>. HIDE DEF here
    <3>. QED BY <2>2, <2>3, <2>5, Zenon DEF FineBehind
  <2>. HIDE DEF Q
  <2>. QED BY <2>1, <2>6
<1>. HIDE DEF R
<1>14. N + 1 \in R
  <2>1. R \in SUBSET Nat /\ N + 1 \in Nat
    BY <1>1 DEF R
  <2>2. \A n \in Nat : n \in R
    BY <1>12, <1>13, <2>1, Induction, Zenon
  <2>. QED BY <2>1, <2>2, Zenon
<1>15. Fine(list[i], i, N)
  <2>1. N + 1 <= N + 1 /\ (N + 1) - 1 = N
    BY <1>1
  <2>2. Q((N + 1) - 1)
    <3>. HIDE DEF Q
    <3>. QED BY <1>14, <2>1 DEF R
  <2>3. i \in N - N .. N
    BY <1>1 DEF N
  <2>. QED BY <2>1, <2>2, <2>3, Zenon
<1>. QED BY <1>2, <1>15, Zenon DEF N

LEMMA ParsedIs ==
  ASSUME NEW text \in Seq(STRING)
  PROVE  IsNode(Parse(text, 0).node) /\ Parse(text, 0).blocks = Parse(text, 0).node.blocks
<1>. DEFINE N == Len(text)
            r == ParseToken(text, 0)
            e == ParseExp(text, 0)
            c == Cleaned(e)
<1>1. N \in Nat /\ 0 \in 0 .. N
  OBVIOUS
<1>2. Accounted(r) /\ (0 < N => Fine(r, 0, N)) /\ (0 >= N => r.status # "FOUND_LIST")
  BY <1>1, ParsedToken, Zenon
<1>3. e = IF r.status = "FOUND_LIST" THEN ParseList(text)[r.position] ELSE Ended(text, 0, r)
  BY Zenon DEF ParseExp
<1>4. c = IF IsError(e) THEN [e EXCEPT !.node = NoNode, !.blocks = @ - e.node.blocks] ELSE e
  BY DEF Cleaned
<1>5. Parse(text, 0) = c
  BY Zenon DEF Parse
<1>. HIDE DEF r, e, c
<1>6. Accounted(e)
  <2>1. CASE r.status = "FOUND_LIST"
    <3>. DEFINE j == r.position
    <3>1. 0 < N /\ ~IsError(r)
      BY <1>1, <1>2, <2>1 DEF IsError
    <3>2. j \in 0 + 1 .. N
      BY <1>2, <3>1, Zenon DEF Fine, Onward
    <3>3. j \in 0 .. N
      <4>. HIDE DEF j
      <4>. QED BY <1>1, <3>2
    <3>4. Fine(ParseList(text)[j], j, N)
      <4>. HIDE DEF j
      <4>. QED BY <3>3, ListsAreFine, Zenon
    <3>. QED BY <1>3, <2>1, <3>4 DEF Fine
  <2>2. CASE r.status # "FOUND_LIST"
    <3>. DEFINE u == [r EXCEPT !.status = "UNEXPECTED_END"]
    <3>1. e = r \/ e = u
      BY <1>3, <2>2 DEF Ended
    <3>2. IsResult(u) /\ u.node = r.node /\ u.blocks = r.blocks
      <4>1. PICK s, p, n, b : r = [status |-> s, position |-> p, node |-> n, blocks |-> b]
        BY <1>2, Zenon DEF Accounted, IsResult
      <4>2. u = [status |-> "UNEXPECTED_END", position |-> p, node |-> n, blocks |-> b]
        BY <4>1
      <4>. HIDE DEF u
      <4>3. IsResult(u)
        BY <4>2, Zenon DEF IsResult
      <4>. QED BY <4>1, <4>2, <4>3
    <3>. HIDE DEF u
    <3>3. Accounted(u)
      BY <1>2, <3>2, Zenon DEF Accounted
    <3>. QED BY <1>2, <3>1, <3>3, Zenon
  <2>. QED BY <2>1, <2>2
<1>7. CASE IsError(e)
  <2>1. PICK s, p, n, b : e = [status |-> s, position |-> p, node |-> n, blocks |-> b]
    BY <1>6, Zenon DEF Accounted, IsResult
  <2>2. c = [status |-> s, position |-> p, node |-> NoNode, blocks |-> b - e.node.blocks]
    BY <1>4, <1>7, <2>1
  <2>3. c.node = NoNode /\ c.blocks = e.blocks - e.node.blocks
    BY <2>1, <2>2
  <2>. DEFINE k == e.node.blocks
  <2>4. k \in Nat /\ c.blocks = k - k
    BY <1>6, <2>3, NodeIs, Zenon DEF Accounted
  <2>. HIDE DEF k
  <2>5. c.blocks = 0
    BY <2>4
  <2>6. NoNode.blocks = 0
    BY DEF NoNode
  <2>. QED BY <1>5, <2>3, <2>5, <2>6, AtomsAreNodes, Zenon
<1>8. CASE ~IsError(e)
  <2>1. c = e
    BY <1>4, <1>8
  <2>. QED BY <1>5, <1>6, <2>1, Zenon DEF Accounted
<1>. QED BY <1>7, <1>8

(***************************************************************************)
(* What is allocated is what the user holds.                               *)
(***************************************************************************)

SxInv == AreNodes(held) /\ heap = BlocksIn(held)

LEMMA SxInvInit == SxInit => SxInv
<1>. SUFFICES ASSUME SxInit PROVE SxInv
  OBVIOUS
<1>1. held = <<>> /\ heap = 0
  BY DEF SxInit
<1>2. AreNodes(<<>>)
  <2>1. <<>> \in Seq({}) /\ WellMade({})
    BY DEF WellMade
  <2>. QED BY <2>1, Zenon DEF AreNodes
<1>. QED BY <1>1, <1>2, TotalNothing, Zenon DEF SxInv

LEMMA SxInvParses ==
  ASSUME SxInv, held = <<>>, NEW text \in Seq(STRING), NEW tree, Parses(text, tree)
  PROVE  SxInv'
<1>. DEFINE r == Parse(text, 0)
            x == r.node
<1>1. IsNode(x) /\ r.blocks = x.blocks
  BY ParsedIs, Zenon
<1>2. held' = Keep(x) /\ heap' = heap + r.blocks
  BY Zenon DEF Parses, Returned
<1>. HIDE DEF r, x
<1>3. <<>> \o Keep(x) = Keep(x)
  BY DEF Keep
<1>4. AreNodes(<<>>) /\ heap = BlocksIn(<<>>)
  BY Zenon DEF SxInv
<1>. DEFINE none == <<>>
<1>. HIDE DEF none
<1>5. AreNodes(none) /\ heap = BlocksIn(none) /\ none \o Keep(x) = Keep(x)
  BY <1>3, <1>4 DEF none
<1>6. AreNodes(Keep(x)) /\ BlocksIn(Keep(x)) = BlocksIn(none) + x.blocks
  <2>1. AreNodes(none \o Keep(x)) /\ BlocksIn(none \o Keep(x)) = BlocksIn(none) + x.blocks
    BY <1>1, <1>5, TotalKeep, Zenon
  <2>. QED BY <1>5, <2>1
<1>. QED BY <1>1, <1>2, <1>5, <1>6 DEF SxInv

LEMMA SxInvMake ==
  ASSUME SxInv, NEW node \in Atoms, Make(node)
  PROVE  SxInv'
<1>1. IsNode(node)
  BY AtomsAreNodes DEF Atoms
<1>2. AreNodes(Append(held, node)) /\ BlocksIn(Append(held, node)) = BlocksIn(held) + node.blocks
  BY <1>1, TotalAppend, Zenon DEF SxInv
<1>3. held' = Append(held, node) /\ heap' = heap + node.blocks
  BY Zenon DEF Make
<1>. QED BY <1>2, <1>3 DEF SxInv

LEMMA SxInvDestroy ==
  ASSUME SxInv, NEW i \in DOMAIN held, Destroy(i)
  PROVE  SxInv'
<1>1. AreNodes(Without(held, i)) /\ BlocksIn(Without(held, i)) = BlocksIn(held) - held[i].blocks
  BY TotalWithout, Zenon DEF SxInv
<1>2. held' = Without(held, i) /\ heap' = heap - held[i].blocks
  BY Zenon DEF Destroy
<1>. QED BY <1>1, <1>2 DEF SxInv

LEMMA SxInvCons ==
  ASSUME SxInv, NEW i \in DOMAIN held, NEW j \in DOMAIN held, ConsOf(i, j)
  PROVE  SxInv'
<1>. DEFINE a == held[i]
            b == held[j]
            c == Cons(a, b)
            t == Merged(i, j, c)
            A_ == a.blocks
            B_ == b.blocks
            C_ == c.blocks
            H == BlocksIn(held)
            K == BlocksIn(t)
<1>1. i # j /\ held' = t /\ heap' = heap + PairBlocks
  BY Zenon DEF ConsOf
<1>2. IsNode(a) /\ IsNode(b)
  BY NodeOfSequence, Zenon DEF SxInv
<1>3. IsNode(c) /\ C_ = PairBlocks + A_ + B_
  <2>. HIDE DEF a, b
  <2>. QED BY <1>2, ConsIs, ConsIsNode, Zenon
<1>. HIDE DEF c
<1>4. AreNodes(t) /\ K = (H - A_ + C_) - B_
  BY <1>1, <1>3, TotalMerged, Zenon DEF SxInv
<1>5. H \in Nat /\ A_ \in Nat /\ B_ \in Nat /\ heap = H
  BY <1>2, NodeIs, TotalIsNatural, Zenon DEF SxInv
<1>. HIDE DEF A_, B_, C_, H, K, t
<1>6. K = H + PairBlocks
  BY <1>3, <1>4, <1>5 DEF PairBlocks
<1>. QED BY <1>1, <1>4, <1>5, <1>6 DEF SxInv, K

LEMMA SxInvPop ==
  ASSUME SxInv, NEW i \in DOMAIN held, Pop(i)
  PROVE  SxInv'
<1>. DEFINE x == held[i]
            a == x.car
            d == x.cdr
            s == [held EXCEPT ![i] = d]
            t == s \o Keep(a)
            A_ == a.blocks
            D == d.blocks
            X == x.blocks
            H == BlocksIn(held)
            K == BlocksIn(t)
<1>1. IsPair(x) /\ held' = t /\ heap' = heap - PairBlocks
  BY Zenon DEF Pop
<1>2. IsNode(x)
  BY NodeOfSequence, Zenon DEF SxInv
<1>3. IsNode(a) /\ IsNode(d) /\ X = PairBlocks + A_ + D
  <2>. HIDE DEF x
  <2>. QED BY <1>1, <1>2, NodeIs, Zenon
<1>. HIDE DEF a, d
<1>4. AreNodes(s) /\ BlocksIn(s) = H - X + D
  BY <1>3, TotalReplaced, Zenon DEF SxInv
<1>. HIDE DEF s
<1>5. AreNodes(t) /\ K = BlocksIn(s) + A_
  BY <1>3, <1>4, TotalKeep, Zenon
<1>6. H \in Nat /\ A_ \in Nat /\ D \in Nat /\ heap = H
  BY <1>3, NodeIs, TotalIsNatural, Zenon DEF SxInv
<1>. HIDE DEF A_, D, X, H, K, t
<1>7. K = H - PairBlocks
  BY <1>3, <1>4, <1>5, <1>6 DEF PairBlocks
<1>. QED BY <1>1, <1>5, <1>6, <1>7 DEF SxInv, K

LEMMA SxInvAppend ==
  ASSUME SxInv, NEW i \in DOMAIN held, NEW j \in DOMAIN held, AppendOf(i, j)
  PROVE  SxInv'
<1>. DEFINE a == held[i]
            b == held[j]
            r == Appended(a, b)
            x == r[1]
            n == r[2]
            t == Merged(i, j, x)
            A_ == a.blocks
            B_ == b.blocks
            X == x.blocks
            H == BlocksIn(held)
            K == BlocksIn(t)
<1>1. /\ i # j /\ heap' = heap - n
      /\ held' = IF x = NoNode THEN held ELSE t
  BY Zenon DEF AppendOf
<1>2. IsNode(a) /\ IsNode(b)
  BY NodeOfSequence, Zenon DEF SxInv
<1>3. A_ \in Nat /\ B_ \in Nat /\ H \in Nat /\ heap = H /\ AreNodes(held)
  BY <1>2, NodeIs, TotalIsNatural, Zenon DEF SxInv
<1>. HIDE DEF a, b, r, t, A_, B_, H
<1>4. \/ x = NoNode /\ n = 0
      \/ x # NoNode /\ IsNode(x) /\ n \in Nat /\ n <= A_ + B_ /\ X = A_ + B_ - n
  <2>. DEFINE l == Linked(a, b)
              e == EndOfList(a)
  <2>1. CASE a = NoNode \/ b = NoNode
    <3>1. r = <<NoNode, 0>>
      BY <2>1 DEF Appended, r
    <3>. QED BY <3>1
  <2>2. CASE ~(a = NoNode \/ b = NoNode) /\ IsNull(a)
    <3>1. r = <<b, A_>>
      BY <2>2 DEF Appended, r, A_
    <3>2. x = b /\ n = A_ /\ X = B_
      BY <3>1 DEF B_
    <3>3. A_ <= A_ + B_ /\ B_ = A_ + B_ - A_
      BY <1>3
    <3>. QED BY <1>2, <1>3, <2>2, <3>2, <3>3
  <2>3. CASE ~(a = NoNode \/ b = NoNode) /\ ~IsNull(a) /\ IsNull(b)
    <3>1. r = <<a, B_>>
      BY <2>3 DEF Appended, r, B_
    <3>2. x = a /\ n = B_ /\ X = A_
      BY <3>1 DEF A_
    <3>3. B_ <= A_ + B_ /\ A_ = A_ + B_ - B_
      BY <1>3
    <3>. QED BY <1>2, <1>3, <2>3, <3>2, <3>3
  <2>4. CASE ~(a = NoNode \/ b = NoNode) /\ ~IsNull(a) /\ ~IsNull(b)
    <3>1. CASE IsPair(a) /\ IsPair(b)
      <4>. DEFINE E == e.blocks
                  L == l.blocks
      <4>1. r = <<l, E>>
        BY <2>4, <3>1 DEF Appended, r
      <4>. HIDE DEF l, e
      <4>2. IsNode(l) /\ l # NoNode /\ IsNode(e) /\ L = (A_ - E) + B_
        BY <1>2, <3>1, LinkedIs, Zenon DEF l, e, A_, B_
      <4>3. E \in Nat /\ L \in Nat
        BY <4>2, NodeIs, Zenon
      <4>4. x = l /\ n = E /\ X = L
        BY <4>1
      <4>. HIDE DEF E, L
      <4>5. E <= A_ + B_ /\ L = A_ + B_ - E
        BY <1>3, <4>2, <4>3
      <4>. QED BY <4>2, <4>3, <4>4, <4>5
    <3>2. CASE ~(IsPair(a) /\ IsPair(b))
      <4>1. r = <<NoNode, 0>>
        BY <2>4, <3>2 DEF Appended, r
      <4>. QED BY <4>1
    <3>. QED BY <3>1, <3>2
  <2>. QED BY <2>1, <2>2, <2>3, <2>4
<1>. HIDE DEF x, n, X
<1>5. CASE x = NoNode
  <2>1. held' = held /\ n = 0
    BY <1>1, <1>4, <1>5
  <2>2. heap' = heap
    BY <1>1, <1>3, <2>1
  <2>3. BlocksIn(held') = BlocksIn(held)
    BY <2>1
  <2>. QED BY <1>3, <2>1, <2>2, <2>3 DEF SxInv, H
<1>6. CASE x # NoNode
  <2>1. held' = t /\ IsNode(x) /\ n \in Nat /\ n <= A_ + B_ /\ X = A_ + B_ - n
    BY <1>1, <1>4, <1>6
  <2>2. AreNodes(t) /\ K = (H - A_ + X) - B_
    BY <1>1, <1>3, <2>1, TotalMerged, Zenon DEF t, A_, B_, X, H, a, b
  <2>. HIDE DEF K
  <2>3. K = H - n
    BY <1>3, <2>1, <2>2
  <2>. QED BY <1>1, <1>3, <2>1, <2>2, <2>3 DEF SxInv, K
<1>. QED BY <1>5, <1>6

LEMMA SxInvNext ==
  ASSUME SxInv, [SxNext]_sxVars
  PROVE  SxInv'
<1>1. CASE held = <<>> /\ \E text \in Texts : Reading(text)
  <2>1. PICK text \in Texts : Parses(text, NoNode)
    BY <1>1, Zenon DEF Reading
  <2>2. text \in Seq(STRING)
    BY TextsAssumption, Zenon
  <2>. QED BY <1>1, <2>1, <2>2, SxInvParses, Zenon
<1>2. CASE held = <<>> /\ \E w \in Written : ReadingWritten(w)
  <2>1. PICK w \in Written : Parses(w.text, w.node)
    BY <1>2, Zenon DEF ReadingWritten
  <2>. DEFINE text == w.text
              tree == w.node
  <2>2. text \in Seq(STRING) /\ Parses(text, tree)
    BY <2>1, TextsAssumption, Zenon
  <2>. HIDE DEF text, tree
  <2>. QED BY <1>2, <2>2, SxInvParses, Zenon
<1>3. CASE \E node \in Atoms : Make(node)
  BY <1>3, SxInvMake, Zenon
<1>4. CASE \E i \in DOMAIN held : Destroy(i)
  BY <1>4, SxInvDestroy, Zenon
<1>5. CASE \E i \in DOMAIN held : Pop(i)
  BY <1>5, SxInvPop, Zenon
<1>6. CASE \E i \in DOMAIN held : \E j \in DOMAIN held : ConsOf(i, j)
  BY <1>6, SxInvCons, Zenon
<1>7. CASE \E i \in DOMAIN held : \E j \in DOMAIN held : AppendOf(i, j)
  BY <1>7, SxInvAppend, Zenon
<1>8. CASE UNCHANGED sxVars
  <2>1. held' = held /\ heap' = heap
    BY <1>8 DEF sxVars
  <2>. QED BY <2>1 DEF SxInv
<1>. QED BY <1>1, <1>2, <1>3, <1>4, <1>5, <1>6, <1>7, <1>8, Zenon DEF SxNext, ByUser

\* What the operations on s-expressions allocated and did not free are the blocks of the
\* nodes that the user holds, after any calls with any texts and nodes: the parser frees
\* what it has of an expression that it gives up, at whatever depth, sx_append() frees
\* the end that it unlinks, and sx_pop() the pair that it takes apart.
THEOREM HeapIsAlwaysHeld == SxSpec => []HeapIsHeld
<1>1. SxInv => HeapIsHeld
  BY Zenon DEF SxInv, HeapIsHeld, BlocksIn
<1>2. SxInv /\ [SxNext]_sxVars => SxInv'
  BY SxInvNext
<1>. QED BY <1>1, <1>2, SxInvInit, PTL DEF SxSpec

================================================================================
