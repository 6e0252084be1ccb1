---------------------------- MODULE EndpointsProofs ----------------------------
(***************************************************************************)
(* Proofs about transfers, for sources and buffers of every size, all sets *)
(* of calls, retry policies and answers of drivers.                        *)
(*                                                                         *)
(* The octets of the source are numbered, so that order is about numbers:  *)
(* what a call holds are the last octets that were taken (Held), and what  *)
(* is in the sink was taken before those (SunkFirst).  What was taken is   *)
(* in the sink or held, until the sink refuses it (Accounted, Complete);   *)
(* if no driver answers zero, the call has put nothing else there (Exact), *)
(* and its counters say how much (Counts).                                 *)
(*                                                                         *)
(* Behind this are proofs about the drivers that are made of memory, for   *)
(* buffers of every size and lists of every length: what one call of each  *)
(* gives (Gives, GivesChunks) or takes (Takes), and from that what every   *)
(* step keeps (Kept).                                                      *)
(***************************************************************************)
EXTENDS Endpoints, EndpointDrivers, Recursion, SequenceTheorems, TLAPS

OpNames == AuxOps \cup OctetOps \cup {"none"}
Calls   == [op : OpNames, rest : Int, moved : Int, n : Nat, from : Nat, had : Nat]

Shape ==
  /\ taken \in Nat /\ put \in Nat
  /\ sunk \in Seq(Nat) /\ buf \in Seq(Nat)
  /\ call \in Calls /\ call.from <= taken /\ call.had <= Len(sunk)
  /\ pc \in {"idle", "read", "write", "get", "put"}
  /\ pc \in {"read", "write"} => call.op \in AuxOps
  /\ pc \in {"get", "put"} => call.op \in OctetOps

\* How many octets of the source a call has taken, how many it has put into the sink,
\* how many it holds, and the last one that it does not hold.
Given == taken - call.from
Moved == Len(sunk) - call.had
Ahead ==
  IF pc \in {"read", "write"} THEN Len(buf) - put
  ELSE IF pc = "put" /\ buf # <<Garbage>> THEN 1 ELSE 0
Top == taken - Ahead

Held ==
  /\ pc \in {"read", "write"} =>
       /\ put <= Len(buf) /\ Len(buf) <= AuxSize /\ Len(buf) <= taken
       /\ \A i \in 1 .. Len(buf) : buf[i] = taken - Len(buf) + i
  /\ pc = "read" => put = 0
  /\ pc = "put" => \/ taken > 0 /\ buf = <<taken>>
                   \/ nothing /\ buf = <<Garbage>>

SunkFirst == \A i \in 1 .. Len(sunk) : sunk[i] <= Top

Accounted ==
  (~nothing /\ call.op # "sts_n") =>
    /\ pc # "idle" => ~refused /\ Given = Moved + Ahead
    /\ (pc = "idle" /\ refused) => Given - Moved <= IF call.op \in AuxOps THEN AuxSize ELSE 1

IInv == Shape /\ Held /\ SunkFirst /\ InOrder /\ Accounted

\* A step that goes on with a call, or ends it.
SameCall ==
  /\ call' \in Calls /\ call'.op = call.op /\ call'.n = call.n
  /\ call'.from = call.from /\ call'.had = call.had

USE SizeAssumption

(***************************************************************************)
(* Sequences of octets.                                                    *)
(***************************************************************************)

Sorted(s) ==
  \A i, j \in 1 .. Len(s) : (i < j /\ s[i] # Garbage /\ s[j] # Garbage) => s[i] < s[j]

\* Octets that follow those of a sequence may be put behind it.
LEMMA Extended ==
  ASSUME NEW s \in Seq(Nat), NEW t \in Seq(Nat), NEW top \in Nat, Sorted(s),
         \A i \in 1 .. Len(s) : s[i] <= top,
         \A j \in 1 .. Len(t) : t[j] = top + j
  PROVE  /\ s \o t \in Seq(Nat) /\ Len(s \o t) = Len(s) + Len(t)
         /\ Sorted(s \o t)
         /\ \A i \in 1 .. Len(s \o t) : (s \o t)[i] <= top + Len(t)
<1>. DEFINE u == s \o t
<1>1. Len(s) \in Nat /\ Len(t) \in Nat
  BY LenProperties
<1>2. /\ u \in Seq(Nat) /\ Len(u) = Len(s) + Len(t)
      /\ \A i \in 1 .. Len(s) + Len(t) : u[i] = IF i <= Len(s) THEN s[i] ELSE t[i - Len(s)]
  BY ConcatProperties
<1>3. ASSUME NEW i \in 1 .. Len(u), ~(i <= Len(s))
      PROVE  u[i] = top + (i - Len(s)) /\ u[i] <= top + Len(t)
  <2>1. i - Len(s) \in 1 .. Len(t) /\ u[i] = t[i - Len(s)]
    BY <1>1, <1>2, <1>3
  <2>. QED BY <1>1, <2>1
<1>4. ASSUME NEW i \in 1 .. Len(u), i <= Len(s)
      PROVE  i \in 1 .. Len(s) /\ u[i] = s[i] /\ s[i] \in Nat /\ u[i] <= top
  <2>1. i \in 1 .. Len(s) /\ u[i] = s[i]
    BY <1>1, <1>2, <1>4
  <2>. QED BY <2>1, ElementOfSeq
<1>. HIDE DEF u
<1>5. ASSUME NEW i \in 1 .. Len(u), NEW j \in 1 .. Len(u),
             i < j, u[i] # Garbage, u[j] # Garbage
      PROVE  u[i] < u[j]
  <2>0. i \in Nat /\ j \in Nat
    BY <1>1, <1>2
  <2>1. CASE j <= Len(s)
    <3>1. i <= Len(s)
      BY <1>1, <1>5, <2>0, <2>1
    <3>2. i \in 1 .. Len(s) /\ u[i] = s[i] /\ j \in 1 .. Len(s) /\ u[j] = s[j]
      BY <1>4, <2>1, <3>1
    <3>. QED BY <1>5, <3>2 DEF Sorted
  <2>2. CASE ~(j <= Len(s)) /\ i <= Len(s)
    <3>1. u[i] <= top /\ u[i] \in Nat
      BY <1>4, <2>2
    <3>2. u[j] = top + (j - Len(s)) /\ j - Len(s) > 0
      BY <1>1, <1>3, <2>0, <2>2
    <3>. QED BY <1>1, <2>0, <3>1, <3>2
  <2>3. CASE ~(j <= Len(s)) /\ ~(i <= Len(s))
    <3>1. u[i] = top + (i - Len(s)) /\ u[j] = top + (j - Len(s))
      BY <1>3, <2>3
    <3>. QED BY <1>1, <1>5, <2>0, <3>1
  <2>. QED BY <2>1, <2>2, <2>3
<1>6. ASSUME NEW i \in 1 .. Len(u)
      PROVE  u[i] <= top + Len(t)
  BY <1>1, <1>3, <1>4
<1>. QED BY <1>2, <1>5, <1>6 DEF Sorted, u

\* So may octets that never were in the source.
LEMMA Littered ==
  ASSUME NEW s \in Seq(Nat), NEW top \in Nat, Sorted(s), \A i \in 1 .. Len(s) : s[i] <= top
  PROVE  /\ s \o <<Garbage>> \in Seq(Nat) /\ Len(s \o <<Garbage>>) = Len(s) + 1
         /\ Sorted(s \o <<Garbage>>)
         /\ \A i \in 1 .. Len(s \o <<Garbage>>) : (s \o <<Garbage>>)[i] <= top
<1>. DEFINE g == <<Garbage>>
            u == s \o g
<1>0. g \in Seq(Nat) /\ Len(g) = 1 /\ g[1] = Garbage
  BY DEF Garbage
<1>. HIDE DEF g
<1>1. /\ u \in Seq(Nat) /\ Len(u) = Len(s) + 1 /\ Len(s) \in Nat
      /\ \A i \in 1 .. Len(s) + 1 : u[i] = IF i <= Len(s) THEN s[i] ELSE g[i - Len(s)]
  <2>1. /\ u \in Seq(Nat) /\ Len(u) = Len(s) + Len(g)
        /\ \A i \in 1 .. Len(s) + Len(g) : u[i] = IF i <= Len(s) THEN s[i] ELSE g[i - Len(s)]
    BY <1>0, ConcatProperties
  <2>2. Len(s) \in Nat
    BY LenProperties
  <2>. QED BY <1>0, <2>1, <2>2
<1>2. ASSUME NEW i \in 1 .. Len(u)
      PROVE  (i \in 1 .. Len(s) /\ u[i] = s[i]) \/ u[i] = Garbage
  <2>1. CASE i <= Len(s)
    BY <1>1, <2>1
  <2>2. CASE ~(i <= Len(s))
    <3>1. i - Len(s) = 1
      BY <1>1, <2>2
    <3>. QED BY <1>0, <1>1, <2>2, <3>1
  <2>. QED BY <2>1, <2>2
<1>. HIDE DEF u
<1>3. Sorted(u)
  BY <1>2 DEF Sorted
<1>4. \A i \in 1 .. Len(u) : u[i] <= top
  BY <1>2 DEF Garbage
<1>. QED BY <1>1, <1>3, <1>4 DEF u, g

\* The octets that are read next.
LEMMA FollowingType ==
  ASSUME taken \in Nat, NEW k \in Nat
  PROVE  /\ Following(k) \in Seq(Nat) /\ Len(Following(k)) = k
         /\ \A i \in 1 .. k : Following(k)[i] = taken + i
<1>1. Following(k) \in [1 .. k -> Nat]
  BY DEF Following
<1>2. Following(k) \in Seq(Nat) /\ Len(Following(k)) = k
  BY <1>1
<1>. QED BY <1>2 DEF Following
(***************************************************************************)
(* What is known of the state.                                             *)
(***************************************************************************)

\* A call that goes on is the same call.
LEMMA CallGoesOn ==
  ASSUME call \in Calls, NEW r \in Int, NEW m \in Int
  PROVE  /\ UNCHANGED call => SameCall /\ call'.rest = call.rest /\ call'.moved = call.moved
         /\ call' = [call EXCEPT !.rest = r] =>
              SameCall /\ call'.rest = r /\ call'.moved = call.moved
         /\ call' = [call EXCEPT !.moved = m] =>
              SameCall /\ call'.rest = call.rest /\ call'.moved = m
         /\ call' = [call EXCEPT !.rest = r, !.moved = m] =>
              SameCall /\ call'.rest = r /\ call'.moved = m
<1>. DEFINE Same(d, e) == /\ d \in Calls /\ e \in Calls /\ e.op = d.op /\ e.n = d.n
                          /\ e.from = d.from /\ e.had = d.had
<1>1. ASSUME NEW d \in Calls, NEW x \in Int
      PROVE  /\ [d EXCEPT !.rest = x] = [op |-> d.op, rest |-> x, moved |-> d.moved, n |-> d.n,
                                         from |-> d.from, had |-> d.had]
             /\ [d EXCEPT !.moved = x] = [op |-> d.op, rest |-> d.rest, moved |-> x, n |-> d.n,
                                          from |-> d.from, had |-> d.had]
             /\ d.op \in OpNames /\ d.rest \in Int /\ d.moved \in Int /\ d.n \in Nat
             /\ d.from \in Nat /\ d.had \in Nat
  BY DEF Calls
<1>2. ASSUME NEW d \in Calls, NEW x \in Int
      PROVE  /\ Same(d, [d EXCEPT !.rest = x]) /\ [d EXCEPT !.rest = x].rest = x
             /\ [d EXCEPT !.rest = x].moved = d.moved
             /\ Same(d, [d EXCEPT !.moved = x]) /\ [d EXCEPT !.moved = x].moved = x
             /\ [d EXCEPT !.moved = x].rest = d.rest
  BY <1>1 DEF Calls
<1>. DEFINE d == [call EXCEPT !.rest = r]
<1>3. Same(call, d) /\ d.rest = r /\ d.moved = call.moved
  BY <1>2
<1>4. call \in Calls /\ d \in Calls
  BY <1>3
<1>5. [call EXCEPT !.rest = r, !.moved = m] = [d EXCEPT !.moved = m]
  OBVIOUS
<1>. HIDE DEF d
<1>6. LET e == [d EXCEPT !.moved = m] IN Same(d, e) /\ e.rest = d.rest /\ e.moved = m
  BY <1>2, <1>4
<1>7. LET e == [call EXCEPT !.moved = m] IN Same(call, e) /\ e.rest = call.rest /\ e.moved = m
  BY <1>2, <1>4
<1>. QED BY <1>3, <1>4, <1>5, <1>6, <1>7 DEF SameCall, d

LEMMA CallIs ==
  ASSUME IInv
  PROVE  /\ call \in Calls /\ call.rest \in Int /\ call.moved \in Int /\ call.n \in Nat
         /\ call.from \in Nat /\ call.had \in Nat
BY DEF IInv, Shape, Calls

LEMMA Sizes ==
  ASSUME IInv
  PROVE  /\ taken \in Nat /\ put \in Nat /\ sunk \in Seq(Nat) /\ buf \in Seq(Nat)
         /\ Len(sunk) \in Nat /\ Len(buf) \in Nat
BY LenProperties DEF IInv, Shape

\* What is known of a transfer that reads or writes.
LEMMA Transferring ==
  ASSUME IInv, pc \in {"read", "write"}
  PROVE  /\ put <= Len(buf) /\ Len(buf) <= AuxSize /\ Len(buf) <= taken
         /\ Ahead = Len(buf) - put /\ Ahead <= AuxSize
         /\ (pc = "read" => put = 0)
         /\ call.op \in AuxOps /\ call.op # "sts_n"
<1>1. Ahead = Len(buf) - put
  BY DEF Ahead
<1>2. put <= Len(buf) /\ Len(buf) <= AuxSize /\ Len(buf) <= taken /\ (pc = "read" => put = 0)
  BY DEF IInv, Held
<1>3. Ahead <= AuxSize
  <2>1. Len(buf) \in Nat /\ put \in Nat
    BY Sizes
  <2>. QED BY <1>1, <1>2, <2>1
<1>4. call.op \in AuxOps /\ call.op # "sts_n"
  BY DEF IInv, Shape, AuxOps
<1>. QED BY <1>1, <1>2, <1>3, <1>4

LEMMA Numbers ==
  ASSUME IInv
  PROVE  Given \in Nat /\ Moved \in Nat /\ Ahead \in Nat /\ Top \in Nat
<1>1. Given \in Nat
  <2>1. taken \in Nat /\ call.from \in Nat /\ call.from <= taken
    BY DEF IInv, Shape, Calls
  <2>. QED BY <2>1 DEF Given
<1>2. Moved \in Nat
  <2>1. Len(sunk) \in Nat /\ call.had \in Nat /\ call.had <= Len(sunk)
    BY Sizes, CallIs DEF IInv, Shape
  <2>. QED BY <2>1 DEF Moved
<1>3. Ahead \in Nat /\ Ahead <= taken
  <2>0. taken \in Nat /\ put \in Nat /\ Len(buf) \in Nat
    BY Sizes
  <2>1. CASE pc \in {"read", "write"}
    <3>1. Ahead = Len(buf) - put /\ put <= Len(buf) /\ Len(buf) <= taken
      BY <2>1, Transferring
    <3>. QED BY <2>0, <3>1
  <2>2. CASE pc = "put" /\ buf # <<Garbage>>
    <3>1. Ahead = 1 /\ taken > 0
      BY <2>2 DEF IInv, Held, Ahead
    <3>. QED BY <2>0, <3>1
  <2>3. CASE pc \notin {"read", "write"} /\ ~(pc = "put" /\ buf # <<Garbage>>)
    <3>1. Ahead = 0
      BY <2>3 DEF Ahead
    <3>. QED BY <2>0, <3>1
  <2>. QED BY <2>1, <2>2, <2>3
<1>4. Top \in Nat
  <2>1. taken \in Nat
    BY Sizes
  <2>. QED BY <1>3, <2>1 DEF Top
<1>. QED BY <1>1, <1>2, <1>3, <1>4

\* What steps that take octets, put octets, or hold fewer do to the numbers.
LEMMA Effects ==
  ASSUME IInv, SameCall, NEW k \in Nat
  PROVE  /\ taken' = taken + k => Given' = Given + k /\ taken' \in Nat /\ call'.from <= taken'
         /\ UNCHANGED taken => Given' = Given /\ taken' \in Nat /\ call'.from <= taken'
         /\ Len(sunk') = Len(sunk) + k => Moved' = Moved + k /\ call'.had <= Len(sunk')
         /\ UNCHANGED sunk => Moved' = Moved /\ call'.had <= Len(sunk')
<1>. DEFINE f == call.from
            h == call.had
            s == Len(sunk)
<1>1. /\ taken \in Nat /\ f \in Nat /\ f <= taken
      /\ s \in Nat /\ h \in Nat /\ h <= s
  BY CallIs, Sizes DEF IInv, Shape
<1>2. /\ call'.from = f /\ call'.had = h /\ Given = taken - f /\ Given' = taken' - f
      /\ Moved = s - h /\ Moved' = Len(sunk') - h
  BY DEF SameCall, Given, Moved
<1>3. UNCHANGED sunk => Len(sunk') = s
  OBVIOUS
<1>. HIDE DEF f, h, s
<1>4. taken' = taken + k => Given' = Given + k /\ taken' \in Nat /\ f <= taken'
  BY <1>1, <1>2
<1>5. Len(sunk') = s + k => Moved' = Moved + k /\ h <= Len(sunk')
  BY <1>1, <1>2
<1>. QED BY <1>1, <1>2, <1>3, <1>4, <1>5 DEF s

(***************************************************************************)
(* The invariant holds at first.                                           *)
(***************************************************************************)

LEMMA Initially == Init => IInv
<1>. SUFFICES ASSUME Init PROVE IInv
  OBVIOUS
<1>1. Len(sunk) = 0 /\ sunk \in Seq(Nat) /\ buf \in Seq(Nat)
  BY DEF Init
<1>2. call \in Calls /\ call.from = 0 /\ call.had = 0 /\ call.op = "none"
  BY DEF Init, Calls, OpNames
<1>3. taken = 0 /\ put = 0 /\ pc = "idle" /\ refused = FALSE
  BY DEF Init
<1>4. Shape /\ Held
  BY <1>1, <1>2, <1>3 DEF Shape, Held
<1>5. SunkFirst /\ InOrder
  BY <1>1 DEF SunkFirst, InOrder
<1>6. Accounted
  BY <1>3 DEF Accounted
<1>. QED BY <1>4, <1>5, <1>6 DEF IInv

(***************************************************************************)
(* And after each step.  Steps that put nothing into the sink: the octets  *)
(* that are held, and those that the source still has, come after.         *)
(***************************************************************************)

LEMMA Unmoved ==
  ASSUME IInv, UNCHANGED sunk, Top' \in Int, Top <= Top'
  PROVE  SunkFirst' /\ InOrder'
<1>1. Top \in Int /\ sunk \in Seq(Nat)
  BY Numbers, Sizes
<1>2. ASSUME NEW i \in 1 .. Len(sunk)
      PROVE  sunk[i] <= Top'
  <2>1. sunk[i] \in Nat /\ sunk[i] <= Top
    BY <1>1, ElementOfSeq DEF IInv, SunkFirst
  <2>. QED BY <1>1, <2>1
<1>. QED BY <1>2 DEF IInv, SunkFirst, InOrder

\* sts_*() is called.
LEMMA Starts ==
  ASSUME IInv, NEW op \in Ops, NEW n \in 0 .. MaxCount, Start(op, n)
  PROVE  /\ UNCHANGED <<taken, sunk>> /\ buf' = <<>> /\ Len(buf') = 0 /\ put' = 0
         /\ ~refused' /\ ~nothing' /\ n \in Nat
         /\ call' \in Calls /\ call'.op = op /\ call'.rest = n /\ call'.moved = 0 /\ call'.n = n
         /\ call'.from = taken /\ call'.had = Len(sunk)
         /\ \/ pc' = "idle"
            \/ pc' = "read" /\ op \in AuxOps
            \/ pc' = "get" /\ op \in OctetOps
         /\ Given' = 0 /\ Moved' = 0 /\ Ahead' = 0 /\ Top' = taken
<1>1. UNCHANGED <<taken, sunk>> /\ buf' = <<>> /\ put' = 0 /\ ~refused' /\ ~nothing'
  BY DEF Start
<1>2. op \in AuxOps \cup OctetOps /\ n \in Nat
  BY OpsAssumption
<1>3. taken \in Nat /\ Len(sunk) \in Nat
  BY Sizes
<1>4. call' = [op |-> op, rest |-> n, moved |-> 0, n |-> n, from |-> taken, had |-> Len(sunk)]
  BY DEF Start
<1>5. /\ call' \in Calls /\ call'.op = op /\ call'.rest = n /\ call'.moved = 0 /\ call'.n = n
      /\ call'.from = taken /\ call'.had = Len(sunk)
  BY <1>2, <1>3, <1>4 DEF Calls, OpNames
<1>6. \/ pc' = "idle"
      \/ pc' = "read" /\ op \in AuxOps
      \/ pc' = "get" /\ op \in OctetOps
  BY <1>2 DEF Start, Return, GoesOn
<1>7. Len(buf') = 0
  BY <1>1
<1>8. Ahead' = 0
  BY <1>1, <1>6, <1>7 DEF Ahead
<1>9. Given' = 0 /\ Top' = taken
  BY <1>1, <1>3, <1>5, <1>8 DEF Given, Top
<1>10. Moved' = 0
  BY <1>1, <1>3, <1>5 DEF Moved
<1>. QED BY <1>1, <1>2, <1>5, <1>6, <1>7, <1>8, <1>9, <1>10

LEMMA StartKeeps ==
  ASSUME IInv, NEW op \in Ops, NEW n \in 0 .. MaxCount, Start(op, n)
  PROVE  IInv'
<1>1. taken \in Nat /\ sunk \in Seq(Nat) /\ Len(sunk) \in Nat
  BY Sizes
<1>2. Shape'
  <2>0. buf' = <<>> /\ put' = 0 /\ UNCHANGED <<taken, sunk>>
    BY Starts
  <2>1. buf' \in Seq(Nat) /\ put' \in Nat /\ taken' \in Nat /\ sunk' \in Seq(Nat)
    BY <1>1, <2>0
  <2>2. call' \in Calls /\ call'.from <= taken' /\ call'.had <= Len(sunk')
    BY <1>1, Starts
  <2>3. /\ pc' \in {"idle", "read", "get"}
        /\ pc' = "read" => call'.op \in AuxOps
        /\ pc' = "get" => call'.op \in OctetOps
    BY Starts
  <2>. QED BY <2>1, <2>2, <2>3 DEF Shape
<1>3. Held'
  <2>1. taken' \in Nat /\ buf' = <<>> /\ Len(buf') = 0 /\ put' = 0 /\ pc' \in {"idle", "read", "get"}
    BY <1>1, Starts
  <2>. QED BY <2>1 DEF Held
<1>4. SunkFirst' /\ InOrder'
  <2>1. UNCHANGED sunk /\ Top' = taken
    BY Starts
  <2>2. Ahead \in Nat
    BY Numbers
  <2>3. Top <= taken
    BY <1>1, <2>2 DEF Top
  <2>. QED BY <1>1, <2>1, <2>3, Unmoved
<1>5. Accounted'
  <2>1. ~refused' /\ Given' = 0 /\ Moved' = 0 /\ Ahead' = 0
    BY Starts
  <2>. QED BY <2>1 DEF Accounted
<1>. QED BY <1>2, <1>3, <1>4, <1>5 DEF IInv

(***************************************************************************)
(* Transfers with an auxiliary buffer.                                     *)
(***************************************************************************)

\* source_read_multi() adds the next octets to what is held.
LEMMA Reads ==
  ASSUME IInv, ReadSome
  PROVE  /\ pc = "read" /\ pc' \in {"read", "write"} /\ put' = 0
         /\ UNCHANGED <<policy, sunk, put, call, refused, nothing, result>> /\ SameCall
         /\ \E k \in Nat :
              /\ taken' = taken + k
              /\ buf' \in Seq(Nat) /\ Len(buf') = Len(buf) + k /\ Len(buf') <= AuxSize
              /\ call.op \in Counted => Len(buf') <= call.rest
              /\ \A i \in 1 .. Len(buf') : buf'[i] = taken' - Len(buf') + i
              /\ Ahead' = Ahead + k /\ Top' = Top
<1>1. pc = "read" /\ UNCHANGED <<policy, sunk, put, call, refused, nothing, result>>
      /\ pc' \in {"read", "write"}
  BY DEF ReadSome, GoesOn
<1>2. PICK k \in 1 .. Lesser(Wanted - Len(buf), StreamLength - taken) :
        buf' = buf \o Following(k) /\ taken' = taken + k
  BY DEF ReadSome
<1>3. /\ Len(buf) \in Nat /\ buf \in Seq(Nat) /\ taken \in Nat /\ AuxSize \in Nat
      /\ StreamLength \in Nat /\ call.rest \in Int
  BY Sizes, CallIs
<1>4. Wanted \in Int /\ Wanted <= AuxSize /\ (call.op \in Counted => Wanted <= call.rest)
  BY <1>3 DEF Wanted, Lesser
<1>5. k \in Nat /\ k <= Wanted - Len(buf)
  BY <1>3, <1>4 DEF Lesser
<1>. DEFINE f == Following(k)
            size == Len(buf)
<1>6. f \in Seq(Nat) /\ Len(f) = k /\ \A i \in 1 .. k : f[i] = taken + i
  BY <1>3, <1>5, FollowingType
<1>7. put = 0 /\ \A i \in 1 .. size : buf[i] = taken - size + i
  BY <1>1 DEF IInv, Held
<1>8. size \in Nat /\ buf' = buf \o f
  BY <1>2, <1>3
<1>9. Ahead = size /\ Ahead' = Len(buf')
  <2>1. Ahead = Len(buf) - put /\ Ahead' = Len(buf') - put'
    BY <1>1 DEF Ahead
  <2>2. put' = 0
    BY <1>1, <1>7
  <2>3. Len(buf') - 0 = Len(buf')
    <3>1. Len(buf') \in Nat
      <4>. HIDE DEF f
      <4>1. buf' \in Seq(Nat)
        BY <1>3, <1>6, <1>8, ConcatProperties
      <4>. QED BY <4>1, LenProperties
    <3>. QED BY <3>1
  <2>. QED BY <1>7, <1>8, <2>1, <2>2, <2>3
<1>. HIDE DEF f
<1>10. /\ buf' \in Seq(Nat) /\ Len(buf') = size + k
       /\ \A i \in 1 .. size + k : buf'[i] = IF i <= size THEN buf[i] ELSE f[i - size]
  BY <1>3, <1>6, <1>8, ConcatProperties
<1>. HIDE DEF size
<1>11. taken' = taken + k /\ Len(buf') = size + k
  BY <1>2, <1>10
<1>12. ASSUME NEW i \in 1 .. Len(buf')
       PROVE  buf'[i] = taken' - Len(buf') + i
  <2>0. i \in Nat /\ i >= 1 /\ i <= size + k /\ i \in 1 .. size + k
    BY <1>5, <1>8, <1>11
  <2>1. CASE i <= size
    <3>1. i \in 1 .. size
      BY <1>8, <2>0, <2>1
    <3>2. buf'[i] = taken - size + i
      BY <1>7, <1>10, <2>0, <2>1, <3>1
    <3>. QED BY <1>3, <1>5, <1>8, <1>11, <2>0, <3>2
  <2>2. CASE ~(i <= size)
    <3>1. i - size \in 1 .. k
      BY <1>5, <1>8, <2>0, <2>2
    <3>2. buf'[i] = taken + (i - size)
      BY <1>6, <1>10, <2>0, <2>2, <3>1
    <3>. QED BY <1>3, <1>5, <1>8, <1>11, <2>0, <3>2
  <2>. QED BY <2>1, <2>2
<1>13. Len(buf') <= AuxSize /\ (call.op \in Counted => Len(buf') <= call.rest)
  <2>1. size + k <= Wanted
    BY <1>4, <1>5, <1>8 DEF size
  <2>. QED BY <1>3, <1>4, <1>5, <1>8, <1>11, <2>1
<1>14. Ahead' = Ahead + k
  BY <1>9, <1>11
<1>15. Top' = Top
  <2>1. Top = taken - size /\ Top' = taken' - Len(buf')
    BY <1>9 DEF Top
  <2>. QED BY <1>3, <1>5, <1>8, <1>11, <2>1
<1>16. SameCall
  BY <1>1, CallIs DEF SameCall
<1>. QED BY <1>1, <1>5, <1>7, <1>10, <1>11, <1>12, <1>13, <1>14, <1>15, <1>16 DEF size

LEMMA ReadSomeKeeps ==
  ASSUME IInv, ReadSome
  PROVE  IInv'
<1>1. pc = "read" /\ pc' \in {"read", "write"} /\ put' = 0 /\ SameCall
      /\ UNCHANGED <<sunk, call, refused, nothing>>
  BY Reads
<1>2. PICK k \in Nat :
        /\ taken' = taken + k
        /\ buf' \in Seq(Nat) /\ Len(buf') = Len(buf) + k /\ Len(buf') <= AuxSize
        /\ \A i \in 1 .. Len(buf') : buf'[i] = taken' - Len(buf') + i
        /\ Ahead' = Ahead + k /\ Top' = Top
  BY Reads
<1>3. /\ Given' = Given + k /\ taken' \in Nat /\ call'.from <= taken'
      /\ Moved' = Moved /\ call'.had <= Len(sunk')
  BY <1>1, <1>2, Effects
<1>4. Given \in Nat /\ Moved \in Nat /\ Ahead \in Nat /\ Top \in Nat
  BY Numbers
<1>5. Shape'
  <2>1. call'.op \in AuxOps /\ call' \in Calls
    BY <1>1, Transferring DEF SameCall
  <2>2. sunk' \in Seq(Nat)
    BY <1>1, Sizes
  <2>. QED BY <1>1, <1>2, <1>3, <2>1, <2>2 DEF Shape
<1>6. Held'
  <2>1. Len(buf') <= taken' /\ 0 <= Len(buf')
    <3>1. Len(buf) \in Nat /\ taken \in Nat /\ Len(buf) <= taken
      BY <1>1, Sizes, Transferring
    <3>. QED BY <1>2, <3>1
  <2>. QED BY <1>1, <1>2, <2>1 DEF Held
<1>7. SunkFirst' /\ InOrder'
  <2>1. Top' \in Int /\ Top <= Top'
    BY <1>2, <1>4
  <2>. QED BY <1>1, <2>1, Unmoved
<1>8. Accounted'
  <2>1. ~nothing => ~refused /\ Given = Moved + Ahead
    BY <1>1, Transferring DEF IInv, Accounted
  <2>2. Given = Moved + Ahead => Given' = Moved' + Ahead'
    BY <1>2, <1>3, <1>4
  <2>. QED BY <1>1, <2>1, <2>2 DEF Accounted
<1>. QED BY <1>5, <1>6, <1>7, <1>8 DEF IInv

\* A transfer that ends with an error of one of the drivers.
LEMMA FailureKeeps ==
  ASSUME IInv, pc \in {"read", "write"}, pc' = "idle",
         UNCHANGED <<taken, sunk, buf, put, call, nothing>>
  PROVE  IInv'
<1>1. SameCall
  BY CallIs DEF SameCall
<1>2. Given' = Given /\ Moved' = Moved
  BY <1>1, Effects
<1>3. Given \in Nat /\ Moved \in Nat /\ Ahead \in Nat /\ taken \in Nat
  BY Numbers, Sizes
<1>4. Ahead' = 0
  BY DEF Ahead
<1>5. Shape' /\ Held'
  BY DEF IInv, Shape, Held
<1>6. SunkFirst' /\ InOrder'
  <2>1. Top' = taken /\ Top <= taken
    BY <1>3, <1>4 DEF Top
  <2>. QED BY <1>3, <2>1, Unmoved
<1>7. Accounted'
  <2>1. ~nothing => Given = Moved + Ahead
    BY Transferring DEF IInv, Accounted
  <2>2. Ahead <= AuxSize /\ call.op \in AuxOps
    BY Transferring
  <2>3. Given = Moved + Ahead => Given - Moved <= AuxSize
    BY <1>3, <2>2
  <2>. QED BY <1>2, <2>1, <2>2, <2>3 DEF Accounted
<1>. QED BY <1>5, <1>6, <1>7 DEF IInv

\* source_get_chunk_atmost(): an error ends the call, or comes back with the next one.
LEMMA ReadFailsKeeps ==
  ASSUME IInv, ReadFails
  PROVE  IInv'
<1>1. /\ pc = "read" /\ (pc' = "idle" \/ pc' = "write")
      /\ UNCHANGED <<policy, taken, sunk, buf, put, call, refused, nothing>>
  BY DEF ReadFails, AfterReadError, Return, GoesOn
<1>2. CASE pc' = "idle"
  BY <1>1, <1>2, FailureKeeps
<1>3. CASE pc' = "write"
  <2>1. Ahead' = Ahead /\ Given' = Given /\ Moved' = Moved /\ Top' = Top
    BY <1>1, <1>3 DEF Ahead, Given, Moved, Top
  <2>2. Shape' /\ Held'
    BY <1>1, <1>3 DEF IInv, Shape, Held
  <2>3. SunkFirst' /\ InOrder'
    BY <1>1, <2>1 DEF IInv, SunkFirst, InOrder
  <2>4. Accounted'
    BY <1>1, <1>3, <2>1 DEF IInv, Accounted
  <2>. QED BY <2>2, <2>3, <2>4 DEF IInv
<1>. QED BY <1>1, <1>2, <1>3

LEMMA WriteFailsKeeps ==
  ASSUME IInv, WriteFails
  PROVE  IInv'
<1>1. /\ pc = "write" /\ pc' = "idle"
      /\ UNCHANGED <<policy, taken, sunk, buf, put, call, nothing>>
  BY DEF WriteFails, Return
<1>. QED BY <1>1, FailureKeeps

\* The octets that are written next are those that follow what the call does not hold.
LEMMA UnsentIs ==
  ASSUME IInv, pc = "write", NEW k \in 1 .. Len(buf) - put
  PROVE  /\ k \in Nat /\ k >= 1 /\ put + k <= Len(buf)
         /\ Unsent(k) \in Seq(Nat) /\ Len(Unsent(k)) = k
         /\ \A i \in 1 .. k : Unsent(k)[i] = Top + i
<1>. DEFINE size == Len(buf)
            m == put + 1
            e == put + k
<1>1. size \in Nat /\ taken \in Nat /\ put \in Nat /\ buf \in Seq(Nat) /\ put <= size
  BY Sizes, Transferring
<1>2. \A i \in 1 .. size : buf[i] = taken - size + i
  BY DEF IInv, Held
<1>3. Top = taken - (size - put)
  BY Transferring DEF Top
<1>4. k \in 1 .. size - put /\ Unsent(k) = SubSeq(buf, m, e)
  BY DEF Unsent
<1>. HIDE DEF size
<1>5. k \in Nat /\ k >= 1 /\ put + k <= size
  BY <1>1, <1>4
<1>6. m \in Int /\ e \in Int /\ m <= e /\ e - m + 1 = k /\ m >= 1 /\ e <= size
  BY <1>1, <1>5
<1>7. ASSUME NEW i \in m .. e
      PROVE  buf[i] \in Nat
  <2>1. i \in 1 .. size
    BY <1>1, <1>6
  <2>. QED BY <1>1, <2>1, ElementOfSeq DEF size
<1>8. ASSUME NEW i \in 1 .. k
      PROVE  m + i - 1 = put + i /\ put + i \in 1 .. size
  BY <1>1, <1>5
<1>. HIDE DEF m, e
<1>9. /\ SubSeq(buf, m, e) \in Seq(Nat)
      /\ Len(SubSeq(buf, m, e)) = IF m <= e THEN e - m + 1 ELSE 0
      /\ \A i \in 1 .. e - m + 1 : SubSeq(buf, m, e)[i] = buf[m + i - 1]
  BY <1>6, <1>7, SubSeqProperties
<1>10. Unsent(k) \in Seq(Nat) /\ Len(Unsent(k)) = k
  BY <1>4, <1>6, <1>9
<1>11. ASSUME NEW i \in 1 .. k
       PROVE  Unsent(k)[i] = Top + i
  <2>1. Unsent(k)[i] = buf[put + i]
    BY <1>4, <1>6, <1>8, <1>9
  <2>2. buf[put + i] = taken - size + (put + i)
    BY <1>2, <1>8
  <2>. QED BY <1>1, <1>3, <1>5, <2>1, <2>2
<1>. QED BY <1>5, <1>10, <1>11 DEF size

\* A round that is over.
LEMMA Rounds ==
  ASSUME IInv, pc = "write", RoundEnds
  PROVE  /\ SameCall /\ buf' = <<>> /\ put' = 0 /\ Ahead' = 0
         /\ call'.rest = (IF call.op \in Counted THEN call.rest - Len(buf) ELSE call.rest)
         /\ call'.moved = call.moved + Len(buf)
         /\ \/ pc' = "read"
            \/ /\ pc' = "idle" /\ result' = Success(call.moved + Len(buf))
               /\ call.op = "sts_n_aux" => ~(call.rest > Len(buf))
<1>. DEFINE r == IF call.op \in Counted THEN call.rest - Len(buf) ELSE call.rest
            m == call.moved + Len(buf)
<1>1. /\ buf' = <<>> /\ put' = 0 /\ call' = [call EXCEPT !.rest = r, !.moved = m]
      /\ \/ pc' = "read"
         \/ /\ pc' = "idle" /\ result' = Success(call.moved + Len(buf))
            /\ call.op = "sts_n_aux" => ~(call.rest > Len(buf))
  BY DEF RoundEnds, GoesOn, Return
<1>2. call \in Calls /\ r \in Int /\ m \in Int
  <2>1. call \in Calls /\ call.rest \in Int /\ call.moved \in Int /\ Len(buf) \in Int
    BY CallIs, Sizes
  <2>. QED BY <2>1
<1>. HIDE DEF r, m
<1>3. SameCall /\ call'.rest = r /\ call'.moved = m
  BY <1>1, <1>2, CallGoesOn
<1>4. Len(buf') = 0
  BY <1>1
<1>5. Ahead' = 0
  BY <1>1, <1>4 DEF Ahead
<1>. QED BY <1>1, <1>3, <1>5 DEF r, m

\* sink_write_multi() passes on some of what is held.
LEMMA Writes ==
  ASSUME IInv, WriteSome
  PROVE  /\ pc = "write" /\ UNCHANGED <<policy, taken, refused, nothing>> /\ SameCall
         /\ \E k \in 1 .. Len(buf) - put :
              /\ k \in Nat /\ sunk' = sunk \o Unsent(k) /\ Len(sunk') = Len(sunk) + k
              /\ sunk' \in Seq(Nat) /\ Sorted(sunk')
              /\ \A i \in 1 .. Len(sunk') : sunk'[i] <= Top + k
              /\ Ahead' = Ahead - k /\ Top' = Top + k
              /\ \/ put + k < Len(buf) /\ put' = put + k /\ UNCHANGED <<buf, call, pc, result>>
                 \/ put + k = Len(buf) /\ RoundEnds
<1>1. pc = "write" /\ UNCHANGED <<policy, taken, refused, nothing>>
  BY DEF WriteSome
<1>2. PICK k \in 1 .. Len(buf) - put :
        /\ sunk' = sunk \o Unsent(k)
        /\ \/ put + k < Len(buf) /\ put' = put + k /\ UNCHANGED <<buf, call, pc, result>>
           \/ put + k = Len(buf) /\ RoundEnds
  BY DEF WriteSome
<1>3. /\ k \in Nat /\ k >= 1 /\ put + k <= Len(buf)
      /\ Unsent(k) \in Seq(Nat) /\ Len(Unsent(k)) = k
      /\ \A i \in 1 .. k : Unsent(k)[i] = Top + i
  BY <1>1, UnsentIs
<1>4. sunk \in Seq(Nat) /\ Sorted(sunk) /\ Top \in Nat /\ \A i \in 1 .. Len(sunk) : sunk[i] <= Top
  <2>1. sunk \in Seq(Nat) /\ Top \in Nat
    BY Sizes, Numbers
  <2>. QED BY <2>1 DEF IInv, InOrder, Sorted, SunkFirst
<1>5. /\ sunk' \in Seq(Nat) /\ Len(sunk') = Len(sunk) + k /\ Sorted(sunk')
      /\ \A i \in 1 .. Len(sunk') : sunk'[i] <= Top + k
  <2>. DEFINE t == Unsent(k)
  <2>1. t \in Seq(Nat) /\ Len(t) = k /\ (\A i \in 1 .. Len(t) : t[i] = Top + i) /\ sunk' = sunk \o t
    BY <1>2, <1>3
  <2>. HIDE DEF t
  <2>2. /\ sunk \o t \in Seq(Nat) /\ Len(sunk \o t) = Len(sunk) + Len(t) /\ Sorted(sunk \o t)
        /\ \A i \in 1 .. Len(sunk \o t) : (sunk \o t)[i] <= Top + Len(t)
    BY <1>4, <2>1, Extended
  <2>. QED BY <2>1, <2>2
<1>6. Len(buf) \in Nat /\ put \in Nat /\ taken \in Nat /\ Ahead = Len(buf) - put /\ Ahead \in Nat
  BY <1>1, Sizes, Numbers, Transferring
<1>7. SameCall /\ Ahead' = Ahead - k
  <2>1. CASE put + k < Len(buf) /\ put' = put + k /\ UNCHANGED <<buf, call, pc, result>>
    <3>1. SameCall
      BY <2>1, CallIs DEF SameCall
    <3>2. Ahead' = Len(buf) - (put + k)
      BY <1>1, <2>1 DEF Ahead
    <3>. QED BY <1>3, <1>6, <3>1, <3>2
  <2>2. CASE put + k = Len(buf) /\ RoundEnds
    <3>1. SameCall /\ Ahead' = 0
      BY <1>1, <2>2, Rounds
    <3>2. 0 = Len(buf) - put - k
      BY <1>3, <1>6, <2>2
    <3>. QED BY <1>6, <3>1, <3>2
  <2>. QED BY <1>2, <2>1, <2>2
<1>8. Top' = Top + k
  <2>1. taken' = taken
    BY <1>1
  <2>. QED BY <1>3, <1>6, <1>7, <2>1 DEF Top
<1>. QED BY <1>1, <1>2, <1>3, <1>5, <1>7, <1>8

LEMMA WriteSomeKeeps ==
  ASSUME IInv, WriteSome
  PROVE  IInv'
<1>1. pc = "write" /\ UNCHANGED <<policy, taken, refused, nothing>> /\ SameCall
  BY Writes
<1>2. PICK k \in 1 .. Len(buf) - put :
        /\ k \in Nat /\ Len(sunk') = Len(sunk) + k
        /\ sunk' \in Seq(Nat) /\ Sorted(sunk')
        /\ \A i \in 1 .. Len(sunk') : sunk'[i] <= Top + k
        /\ Ahead' = Ahead - k /\ Top' = Top + k
        /\ \/ put + k < Len(buf) /\ put' = put + k /\ UNCHANGED <<buf, call, pc, result>>
           \/ put + k = Len(buf) /\ RoundEnds
  BY Writes
<1>3. /\ Given' = Given /\ taken' \in Nat /\ call'.from <= taken'
      /\ Moved' = Moved + k /\ call'.had <= Len(sunk')
  BY <1>1, <1>2, Effects
<1>4. Given \in Nat /\ Moved \in Nat /\ Ahead \in Nat /\ put \in Nat /\ buf \in Seq(Nat)
      /\ taken \in Nat
  BY Numbers, Sizes
<1>5. SunkFirst' /\ InOrder'
  BY <1>2 DEF SunkFirst, InOrder, Sorted
<1>6. Accounted'
  <2>1. ~nothing => ~refused /\ Given = Moved + Ahead
    BY <1>1, Transferring DEF IInv, Accounted
  <2>2. Given = Moved + Ahead => Given' = Moved' + Ahead'
    BY <1>2, <1>3, <1>4
  <2>. QED BY <1>1, <2>1, <2>2 DEF Accounted
<1>7. call'.op \in AuxOps /\ call' \in Calls
  BY <1>1, Transferring DEF SameCall
<1>8. CASE put + k < Len(buf) /\ put' = put + k /\ UNCHANGED <<buf, call, pc, result>>
  <2>1. put' \in Nat /\ put' <= Len(buf)
    <3>1. Len(buf) \in Nat /\ put' = put + k
      BY <1>8, Sizes
    <3>. QED BY <1>2, <1>4, <1>8, <3>1
  <2>2. Shape'
    BY <1>1, <1>2, <1>3, <1>4, <1>7, <1>8, <2>1 DEF Shape
  <2>3. Held'
    BY <1>1, <1>8, <2>1 DEF IInv, Held
  <2>. QED BY <1>5, <1>6, <2>2, <2>3 DEF IInv
<1>9. CASE put + k = Len(buf) /\ RoundEnds
  <2>1. buf' = <<>> /\ put' = 0 /\ pc' \in {"read", "idle"}
    BY <1>1, <1>9, Rounds
  <2>2. buf' \in Seq(Nat) /\ Len(buf') = 0
    BY <2>1
  <2>3. Shape'
    BY <1>2, <1>3, <1>7, <2>1, <2>2 DEF Shape
  <2>4. Held'
    BY <1>3, <2>1, <2>2 DEF Held
  <2>. QED BY <1>5, <1>6, <2>3, <2>4 DEF IInv
<1>. QED BY <1>2, <1>8, <1>9

(***************************************************************************)
(* Transfers by character.                                                 *)
(***************************************************************************)

LEMMA ByCharacter ==
  ASSUME IInv, pc \in {"get", "put"}
  PROVE  call.op \in OctetOps /\ call.op \notin AuxOps
BY DEF IInv, Shape, OctetOps, AuxOps

\* How a loop of sts_cbc() goes on or ends: with the same call.
LEMMA LoopsGoOn ==
  ASSUME IInv, pc \in {"get", "put"},
         \/ \E rc \in {0, 1} : OctetEnds(rc)
         \/ \E e : OctetFails(e)
  PROVE  SameCall /\ pc' \in {"idle", "get"}
<1>. DEFINE Steps == pc' \in {"idle", "get"}
<1>1. call \in Calls /\ call.op \in OctetOps /\ call.rest \in Int /\ call.moved \in Int
  BY CallIs, ByCharacter
<1>2. ASSUME UNCHANGED call PROVE SameCall
  BY <1>1, <1>2 DEF SameCall
<1>3. ASSUME NEW r \in Int, call' = [call EXCEPT !.rest = r] PROVE SameCall
  BY <1>1, <1>3, CallGoesOn
<1>4. ASSUME NEW m \in Int, call' = [call EXCEPT !.moved = m] PROVE SameCall
  BY <1>1, <1>4, CallGoesOn
<1>5. ASSUME NEW r \in Int, NEW m \in Int, call' = [call EXCEPT !.rest = r, !.moved = m]
      PROVE  SameCall
  BY <1>1, <1>5, CallGoesOn
<1>6. ASSUME NEW moved, NEW rest \in Int, InnerEnds(moved, rest)
      PROVE  SameCall /\ Steps
  <2>1. CASE UNCHANGED call
    BY <1>2, <1>6, <2>1 DEF InnerEnds, Return, GoesOn
  <2>2. CASE call' = [call EXCEPT !.rest = rest, !.moved = 0]
    <3>1. 0 \in Int /\ rest \in Int
      BY <1>6
    <3>2. SameCall
      BY <1>5, <2>2, <3>1
    <3>3. Steps
      BY <1>6 DEF InnerEnds, Return, GoesOn
    <3>. QED BY <3>2, <3>3
  <2>. QED BY <1>6, <2>1, <2>2 DEF InnerEnds
<1>7. ASSUME NEW rc \in {0, 1}, OctetEnds(rc)
      PROVE  SameCall /\ Steps
  <2>0. rc \in Int
    OBVIOUS
  <2>1. CASE call.op = "sts_n_cbc"
    <3>1. call' = [call EXCEPT !.rest = call.rest - 1] /\ Steps
      BY <1>7, <2>1 DEF OctetEnds, Return, GoesOn
    <3>. QED BY <1>1, <1>3, <3>1
  <2>2. CASE call.op \in {"sts_drain_cbc", "sts_drain"}
    BY <1>2, <1>7, <2>2 DEF OctetEnds, GoesOn
  <2>3. CASE call.op \in {"sts_atmost_cbc", "sts_n"}
    <3>1. \/ call' = [call EXCEPT !.moved = call.moved + 1] /\ pc' = "get"
          \/ InnerEnds(call.moved + rc, call.rest - call.moved - rc)
      BY <1>7, <2>3 DEF OctetEnds, GoesOn
    <3>2. call.moved + 1 \in Int /\ call.rest - call.moved - rc \in Int
      BY <1>1, <2>0
    <3>. QED BY <1>4, <1>6, <3>1, <3>2
  <2>. QED BY <1>1, <2>1, <2>2, <2>3 DEF OctetOps
<1>8. ASSUME NEW e, OctetFails(e)
      PROVE  SameCall /\ Steps
  <2>1. CASE call.op \in {"sts_n_cbc", "sts_drain_cbc", "sts_drain"}
    BY <1>2, <1>8, <2>1 DEF OctetFails, Return
  <2>2. CASE call.op \in {"sts_atmost_cbc", "sts_n"}
    <3>1. \/ InnerEnds(call.moved, call.rest - call.moved)
          \/ UNCHANGED call /\ Steps
      BY <1>8, <2>2 DEF OctetFails, Return, GoesOn
    <3>2. call.rest - call.moved \in Int
      BY <1>1
    <3>. QED BY <1>2, <1>6, <3>1, <3>2
  <2>. QED BY <1>1, <2>1, <2>2 DEF OctetOps
<1>. QED BY <1>7, <1>8

\* An error ends all loops but that of sts_n().
LEMMA ErrorsEnd ==
  ASSUME IInv, pc \in {"get", "put"}, NEW e, OctetFails(e), call.op # "sts_n"
  PROVE  pc' = "idle"
<1>1. call.op \in OctetOps
  BY ByCharacter
<1>. QED BY <1>1 DEF OctetFails, OctetOps, InnerEnds, Return

\* source_get_octet()
LEMMA Gets ==
  ASSUME IInv, GetOctet
  PROVE  /\ pc = "get" /\ pc' = "put" /\ UNCHANGED <<sunk, put, call, refused>> /\ SameCall
         /\ Ahead = 0 /\ buf' \in Seq(Nat) /\ Top' = Top
         /\ \/ /\ taken' = taken + 1 /\ UNCHANGED nothing
               /\ taken' > 0 /\ buf' = <<taken'>> /\ Ahead' = 1
            \/ /\ UNCHANGED taken /\ nothing'
               /\ buf' = <<Garbage>> /\ Ahead' = 0
<1>1. pc = "get" /\ pc' = "put" /\ UNCHANGED <<sunk, put, call, refused>>
  BY DEF GetOctet, GoesOn
<1>2. \/ buf' = Following(1) /\ taken' = taken + 1 /\ UNCHANGED nothing
      \/ buf' = <<Garbage>> /\ nothing' = TRUE /\ UNCHANGED taken
  BY DEF GetOctet
<1>3. SameCall
  BY <1>1, CallIs DEF SameCall
<1>4. Ahead = 0 /\ taken \in Nat
  BY <1>1, Sizes DEF Ahead
<1>5. CASE buf' = Following(1) /\ taken' = taken + 1 /\ UNCHANGED nothing
  <2>1. /\ Following(1) \in Seq(Nat) /\ Len(Following(1)) = 1
        /\ \A i \in 1 .. 1 : Following(1)[i] = taken + i
    BY <1>4, FollowingType
  <2>2. <<taken + 1>> \in Seq(Nat) /\ Len(<<taken + 1>>) = 1
        /\ \A i \in 1 .. 1 : <<taken + 1>>[i] = taken + i
    BY <1>4
  <2>3. Following(1) = <<taken + 1>>
    BY <2>1, <2>2, SeqEqual
  <2>4. buf' = <<taken'>> /\ taken' > 0 /\ buf' \in Seq(Nat)
    <3>1. buf' = <<taken + 1>> /\ taken' = taken + 1
      BY <1>5, <2>3
    <3>2. taken + 1 > 0
      BY <1>4
    <3>. QED BY <2>2, <3>1, <3>2
  <2>5. buf' # <<Garbage>>
    BY <2>4 DEF Garbage
  <2>6. Ahead' = 1
    BY <1>1, <2>5 DEF Ahead
  <2>7. Top' = Top
    BY <1>4, <1>5, <2>6 DEF Top
  <2>. QED BY <1>1, <1>3, <1>4, <1>5, <2>4, <2>6, <2>7
<1>6. CASE buf' = <<Garbage>> /\ nothing' = TRUE /\ UNCHANGED taken
  <2>1. Ahead' = 0
    BY <1>1, <1>6 DEF Ahead
  <2>2. buf' \in Seq(Nat)
    BY <1>6 DEF Garbage
  <2>3. Top' = Top
    BY <1>4, <1>6, <2>1 DEF Top
  <2>. QED BY <1>1, <1>3, <1>4, <1>6, <2>1, <2>2, <2>3
<1>. QED BY <1>2, <1>5, <1>6

LEMMA GetOctetKeeps ==
  ASSUME IInv, GetOctet
  PROVE  IInv'
<1>1. pc = "get" /\ pc' = "put" /\ UNCHANGED <<sunk, put, call, refused>> /\ SameCall
      /\ Ahead = 0 /\ buf' \in Seq(Nat) /\ Top' = Top
  BY Gets
<1>2. \/ taken' = taken + 1 /\ UNCHANGED nothing
         /\ taken' > 0 /\ buf' = <<taken'>> /\ Ahead' = 1
      \/ UNCHANGED taken /\ nothing' /\ buf' = <<Garbage>> /\ Ahead' = 0
  BY Gets
<1>3. /\ taken' = taken + 1 => Given' = Given + 1 /\ taken' \in Nat /\ call'.from <= taken'
      /\ UNCHANGED taken => Given' = Given /\ taken' \in Nat /\ call'.from <= taken'
      /\ Moved' = Moved /\ call'.had <= Len(sunk')
  BY <1>1, Effects
<1>4. Given \in Nat /\ Moved \in Nat /\ Top \in Nat
  BY Numbers
<1>5. Shape'
  <2>1. call'.op \in OctetOps /\ call' \in Calls
    BY <1>1, ByCharacter DEF SameCall
  <2>2. sunk' \in Seq(Nat) /\ put' \in Nat /\ taken' \in Nat /\ call'.from <= taken'
    BY <1>1, <1>2, <1>3, Sizes
  <2>. QED BY <1>1, <1>3, <2>1, <2>2 DEF Shape
<1>6. Held'
  BY <1>1, <1>2 DEF Held
<1>7. SunkFirst' /\ InOrder'
  <2>1. Top' \in Int /\ Top <= Top'
    BY <1>1, <1>4
  <2>. QED BY <1>1, <2>1, Unmoved
<1>8. Accounted'
  <2>1. CASE nothing'
    BY <2>1 DEF Accounted
  <2>2. CASE ~nothing'
    <3>1. (call.op # "sts_n") => ~refused /\ Given = Moved + 0
      BY <1>1, <1>2, <2>2 DEF IInv, Accounted
    <3>2. Given' = Given + 1 /\ Moved' = Moved /\ Ahead' = 1
      BY <1>2, <1>3, <2>2
    <3>3. Given = Moved + 0 => Given' = Moved' + Ahead'
      BY <1>4, <3>2
    <3>. QED BY <1>1, <3>1, <3>3 DEF Accounted
  <2>. QED BY <2>1, <2>2
<1>. QED BY <1>5, <1>6, <1>7, <1>8 DEF IInv

\* An error of the source, of which nothing is held.
LEMMA GetFailsKeeps ==
  ASSUME IInv, GetFails
  PROVE  IInv'
<1>1. pc = "get" /\ UNCHANGED <<policy, taken, sunk, buf, put, refused, nothing>>
  BY DEF GetFails
<1>2. PICK e : OctetFails(e)
  BY DEF GetFails
<1>3. SameCall /\ pc' \in {"idle", "get"}
  BY <1>1, <1>2, LoopsGoOn
<1>4. Ahead = 0 /\ Ahead' = 0
  BY <1>1, <1>3 DEF Ahead
<1>5. /\ Given' = Given /\ Moved' = Moved
      /\ taken' \in Nat /\ call'.from <= taken' /\ call'.had <= Len(sunk')
  BY <1>1, <1>3, Effects
<1>6. Given \in Nat /\ Moved \in Nat /\ Top \in Nat
  BY Numbers
<1>7. call'.op \in OctetOps /\ call' \in Calls /\ call.op \notin AuxOps /\ call'.op = call.op
  BY <1>1, <1>3, ByCharacter DEF SameCall
<1>8. Shape'
  <2>1. sunk' \in Seq(Nat) /\ buf' \in Seq(Nat) /\ put' \in Nat
    BY <1>1, Sizes
  <2>. QED BY <1>3, <1>5, <1>7, <2>1 DEF Shape
<1>9. Held'
  BY <1>3 DEF Held
<1>10. Accounted'
  <2>1. (~nothing /\ call.op # "sts_n") => ~refused /\ Given = Moved + 0
    BY <1>1, <1>4 DEF IInv, Accounted
  <2>2. Given = Moved + 0 => Given' = Moved' + Ahead' /\ Given' - Moved' <= 1
    BY <1>4, <1>5, <1>6
  <2>. QED BY <1>1, <1>7, <2>1, <2>2 DEF Accounted
<1>11. SunkFirst' /\ InOrder'
  <2>1. Top' = Top
    BY <1>1, <1>4 DEF Top
  <2>. QED BY <1>1, <1>6, <2>1, Unmoved
<1>. QED BY <1>8, <1>9, <1>10, <1>11 DEF IInv

\* sink_put_octet() that succeeds.
LEMMA Puts ==
  ASSUME IInv, PutOctet
  PROVE  /\ pc = "put" /\ pc' \in {"idle", "get"} /\ SameCall
         /\ UNCHANGED <<taken, put, refused, nothing>>
         /\ sunk' = sunk \o buf /\ buf' = <<>> /\ Ahead' = 0 /\ Top' = taken
         /\ sunk' \in Seq(Nat) /\ Len(sunk') = Len(sunk) + 1 /\ Sorted(sunk')
         /\ \A i \in 1 .. Len(sunk') : sunk'[i] <= taken
         /\ \/ Ahead = 1 /\ Top + 1 = taken /\ buf = <<taken>>
            \/ Ahead = 0 /\ Top = taken /\ nothing
<1>1. /\ pc = "put" /\ UNCHANGED <<taken, put, refused, nothing>>
      /\ sunk' = sunk \o buf /\ buf' = <<>>
  BY DEF PutOctet
<1>2. SameCall /\ pc' \in {"idle", "get"}
  BY <1>1, LoopsGoOn DEF PutOctet
<1>3. Ahead' = 0
  BY <1>2 DEF Ahead
<1>4. taken \in Nat /\ sunk \in Seq(Nat) /\ Sorted(sunk)
  BY Sizes DEF IInv, InOrder, Sorted
<1>5. Top' = taken
  BY <1>1, <1>3, <1>4 DEF Top
<1>6. (taken > 0 /\ buf = <<taken>>) \/ (nothing /\ buf = <<Garbage>>)
  BY <1>1 DEF IInv, Held
<1>7. CASE taken > 0 /\ buf = <<taken>>
  <2>1. buf # <<Garbage>>
    BY <1>7 DEF Garbage
  <2>2. Ahead = 1
    BY <1>1, <2>1 DEF Ahead
  <2>3. Top \in Nat /\ Top + 1 = taken
    BY <1>4, <1>7, <2>2 DEF Top
  <2>4. Len(buf) = 1 /\ buf \in Seq(Nat) /\ \A j \in 1 .. Len(buf) : buf[j] = Top + j
    BY <1>4, <1>7, <2>3
  <2>5. \A i \in 1 .. Len(sunk) : sunk[i] <= Top
    BY DEF IInv, SunkFirst
  <2>6. /\ sunk \o buf \in Seq(Nat) /\ Len(sunk \o buf) = Len(sunk) + Len(buf)
        /\ Sorted(sunk \o buf)
        /\ \A i \in 1 .. Len(sunk \o buf) : (sunk \o buf)[i] <= Top + Len(buf)
    BY <1>4, <2>3, <2>4, <2>5, Extended
  <2>. QED BY <1>1, <1>2, <1>3, <1>5, <1>7, <2>2, <2>3, <2>4, <2>6
<1>8. CASE nothing /\ buf = <<Garbage>>
  <2>1. Ahead = 0
    BY <1>1, <1>8 DEF Ahead
  <2>2. Top = taken
    BY <1>4, <2>1 DEF Top
  <2>3. \A i \in 1 .. Len(sunk) : sunk[i] <= taken
    BY <2>2 DEF IInv, SunkFirst
  <2>4. /\ sunk \o <<Garbage>> \in Seq(Nat) /\ Len(sunk \o <<Garbage>>) = Len(sunk) + 1
        /\ Sorted(sunk \o <<Garbage>>)
        /\ \A i \in 1 .. Len(sunk \o <<Garbage>>) : (sunk \o <<Garbage>>)[i] <= taken
    BY <1>4, <2>3, Littered
  <2>. QED BY <1>1, <1>2, <1>3, <1>5, <1>8, <2>1, <2>2, <2>4
<1>. QED BY <1>6, <1>7, <1>8

LEMMA PutOctetKeeps ==
  ASSUME IInv, PutOctet
  PROVE  IInv'
<1>1. /\ pc = "put" /\ pc' \in {"idle", "get"} /\ SameCall
      /\ UNCHANGED <<taken, put, refused, nothing>>
      /\ buf' = <<>> /\ Ahead' = 0 /\ Top' = taken
      /\ sunk' \in Seq(Nat) /\ Len(sunk') = Len(sunk) + 1 /\ Sorted(sunk')
      /\ \A i \in 1 .. Len(sunk') : sunk'[i] <= taken
  BY Puts
<1>2. Ahead = 1 \/ nothing
  BY Puts
<1>3. /\ Given' = Given /\ taken' \in Nat /\ call'.from <= taken'
      /\ Moved' = Moved + 1 /\ call'.had <= Len(sunk')
  BY <1>1, Effects
<1>4. Given \in Nat /\ Moved \in Nat
  BY Numbers
<1>5. Shape'
  <2>1. call'.op \in OctetOps /\ call' \in Calls
    BY <1>1, ByCharacter DEF SameCall
  <2>2. buf' \in Seq(Nat) /\ put' \in Nat
    BY <1>1, Sizes
  <2>. QED BY <1>1, <1>3, <2>1, <2>2 DEF Shape
<1>6. Held' /\ InOrder' /\ SunkFirst'
  BY <1>1 DEF Held, InOrder, Sorted, SunkFirst
<1>7. Accounted'
  <2>1. (~nothing /\ call.op # "sts_n") => ~refused /\ Given = Moved + 1
    BY <1>1, <1>2 DEF IInv, Accounted
  <2>2. Given = Moved + 1 => Given' = Moved' + Ahead'
    BY <1>1, <1>3, <1>4
  <2>. QED BY <1>1, <2>1, <2>2 DEF Accounted, SameCall
<1>. QED BY <1>5, <1>6, <1>7 DEF IInv

\* sink_put_octet() that does not: the octet is lost.
LEMMA PutLosesKeeps ==
  ASSUME IInv, PutNothing \/ PutFails
  PROVE  IInv'
<1>1. pc = "put" /\ UNCHANGED <<policy, taken, sunk, put>> /\ buf' = <<>>
  BY DEF PutNothing, PutFails
<1>2. SameCall /\ pc' \in {"idle", "get"}
  <2>1. (\E rc \in {0, 1} : OctetEnds(rc)) \/ (\E e : OctetFails(e))
    BY DEF PutNothing, PutFails
  <2>. QED BY <1>1, <2>1, LoopsGoOn
<1>3. Ahead' = 0 /\ Ahead \in {0, 1}
  BY <1>1, <1>2 DEF Ahead
<1>4. /\ Given' = Given /\ Moved' = Moved
      /\ taken' \in Nat /\ call'.from <= taken' /\ call'.had <= Len(sunk')
  BY <1>1, <1>2, Effects
<1>5. Given \in Nat /\ Moved \in Nat /\ taken \in Nat
  BY Numbers, Sizes
<1>6. Shape'
  <2>1. call'.op \in OctetOps /\ call' \in Calls
    BY <1>1, <1>2, ByCharacter DEF SameCall
  <2>2. sunk' \in Seq(Nat) /\ buf' \in Seq(Nat) /\ put' \in Nat
    BY <1>1, Sizes
  <2>. QED BY <1>2, <1>4, <2>1, <2>2 DEF Shape
<1>7. Held'
  BY <1>2 DEF Held
<1>8. SunkFirst' /\ InOrder'
  <2>1. Top' = taken /\ Top <= taken
    BY <1>1, <1>3, <1>5 DEF Top
  <2>. QED BY <1>1, <1>5, <2>1, Unmoved
<1>9. Accounted'
  <2>1. CASE PutNothing
    BY <2>1 DEF PutNothing, Accounted
  <2>2. CASE PutFails
    <3>1. UNCHANGED nothing
      BY <2>2 DEF PutFails
    <3>2. CASE nothing \/ call.op = "sts_n"
      BY <1>2, <3>1, <3>2 DEF Accounted, SameCall
    <3>3. CASE ~nothing /\ call.op # "sts_n"
      <4>1. pc' = "idle"
        BY <1>1, <2>2, <3>3, ErrorsEnd DEF PutFails
      <4>2. Given = Moved + Ahead
        BY <1>1, <3>3 DEF IInv, Accounted
      <4>3. Given' - Moved' <= 1
        BY <1>3, <1>4, <1>5, <4>2
      <4>4. call'.op \notin AuxOps
        BY <1>1, <1>2, ByCharacter DEF SameCall
      <4>. QED BY <4>1, <4>3, <4>4 DEF Accounted
    <3>. QED BY <3>2, <3>3
  <2>. QED BY <2>1, <2>2
<1>. QED BY <1>6, <1>7, <1>8, <1>9 DEF IInv

LEMMA Preserved == IInv /\ [Next]_vars => IInv'
<1>. SUFFICES ASSUME IInv, [Next]_vars
              PROVE  IInv'
  OBVIOUS
<1>1. CASE UNCHANGED vars
  BY <1>1 DEF vars, IInv, Shape, Held, SunkFirst, InOrder, Accounted, Given, Moved, Ahead, Top
<1>2. CASE Next
  BY <1>2, StartKeeps, ReadSomeKeeps, ReadFailsKeeps, WriteSomeKeeps, WriteFailsKeeps,
     GetOctetKeeps, GetFailsKeeps, PutOctetKeeps, PutLosesKeeps DEF Next
<1>. QED BY <1>1, <1>2

(***************************************************************************)
(* What has been delivered, and what a call says of it.                    *)
(***************************************************************************)

\* As long as the sink refuses nothing, all that is not held is in the sink.
Complete ==
  ~refused =>
    \A o \in call.from + 1 .. Top : \E i \in call.had + 1 .. Len(sunk) : sunk[i] = o

\* If no driver answers zero either, there is nothing else.
Exact ==
  (~refused /\ ~nothing) =>
    /\ Given = Moved + Ahead
    /\ \A i \in 1 .. Moved : sunk[call.had + i] = call.from + i

\* What the counters of a call say of what it has moved.
Counters ==
  /\ pc \in {"read", "write"} =>
       /\ call.moved = Moved - put
       /\ call.op \in Counted => call.rest = call.n - call.moved /\ Len(buf) <= call.rest
  /\ pc \in {"get", "put"} =>
       /\ call.op = "sts_n_cbc" => call.rest = call.n - Moved /\ call.rest >= 1
       /\ call.op = "sts_atmost_cbc" => call.moved = Moved /\ call.moved < call.rest
       /\ call.op = "sts_n" => call.n - call.rest + call.moved = Moved /\ call.moved < call.rest

\* What it returns.
Returned ==
  Done => /\ result.count = Moved
          /\ call.op \in {"sts_n", "sts_n_aux", "sts_n_cbc"} => Moved = call.n

Unexact == {"sts_n", "sts_atmost_cbc", "sts_drain_aux"}

Counts ==
  /\ (~refused /\ ~nothing) => Counters /\ Returned
  /\ (pc = "idle" /\ refused /\ ~nothing /\ call.op \notin Unexact) => result.error # "none"

CInv == Complete /\ Exact /\ Counts

\* What follows goes behind the octets that are in the sink.
LEMMA Appended ==
  ASSUME NEW s \in Seq(Nat), NEW t \in Seq(Nat), NEW top \in Nat,
         \A j \in 1 .. Len(t) : t[j] = top + j
  PROVE  /\ Len(s \o t) = Len(s) + Len(t)
         /\ \A i \in 1 .. Len(s) : (s \o t)[i] = s[i]
         /\ \A i \in 1 .. Len(s) + Len(t) :
              ~(i <= Len(s)) => (s \o t)[i] = top + (i - Len(s))
<1>. DEFINE u == s \o t
            m == Len(s)
            n == Len(t)
<1>1. m \in Nat /\ n \in Nat
  BY LenProperties
<1>2. Len(u) = m + n /\ \A i \in 1 .. m + n : u[i] = IF i <= m THEN s[i] ELSE t[i - m]
  BY ConcatProperties
<1>3. \A j \in 1 .. n : t[j] = top + j
  OBVIOUS
<1>. HIDE DEF u, m, n
<1>4. ASSUME NEW i \in 1 .. m PROVE u[i] = s[i]
  <2>1. i \in 1 .. m + n /\ i <= m
    BY <1>1
  <2>. QED BY <1>2, <2>1
<1>5. ASSUME NEW i \in 1 .. m + n, ~(i <= m) PROVE u[i] = top + (i - m)
  <2>. DEFINE j == i - m
  <2>1. j \in 1 .. n
    BY <1>1, <1>5
  <2>2. u[i] = t[j]
    BY <1>2, <1>5
  <2>. HIDE DEF j
  <2>3. u[i] = top + j
    BY <1>3, <2>1, <2>2
  <2>. QED BY <2>3 DEF j
<1>. QED BY <1>2, <1>4, <1>5 DEF u, m, n

\* What is put into the sink is no longer held.
LEMMA StillBalanced ==
  ASSUME Given \in Nat, Moved \in Nat, Ahead \in Nat, NEW k \in Nat,
         Given' = Given, Moved' = Moved + k, Ahead' = Ahead - k, Given = Moved + Ahead
  PROVE  Given' = Moved' + Ahead'
OBVIOUS

\* What reaches the sink is what follows.
LEMMA Delivering ==
  ASSUME IInv, Complete, Exact, SameCall, NEW t \in Seq(Nat), sunk' = sunk \o t,
         \A j \in 1 .. Len(t) : t[j] = Top + j,
         Top' = Top + Len(t), Ahead' = Ahead - Len(t), UNCHANGED <<taken, refused, nothing>>
  PROVE  Complete' /\ Exact'
<1>. DEFINE f == call.from
            h == call.had
            m == Len(sunk)
            k == Len(t)
<1>1. /\ f \in Nat /\ h \in Nat /\ k \in Nat /\ m \in Nat /\ taken \in Nat
      /\ Given \in Nat /\ Moved \in Nat /\ Ahead \in Nat /\ Top \in Nat
  BY CallIs, Sizes, Numbers, LenProperties
<1>2. call'.from = f /\ call'.had = h /\ h <= m
  BY DEF SameCall, IInv, Shape
<1>3. /\ Len(sunk') = m + k
      /\ \A i \in 1 .. m : sunk'[i] = sunk[i]
      /\ \A i \in 1 .. m + k : ~(i <= m) => sunk'[i] = Top + (i - m)
  <2>1. sunk \in Seq(Nat) /\ Top \in Nat
    BY Sizes, Numbers
  <2>. QED BY <2>1, Appended
<1>4. Given' = Given /\ Moved' = Moved + k
  BY <1>1, <1>3, Effects
<1>5. Top' = Top + k /\ Ahead' = Ahead - k
  OBVIOUS
<1>6. Moved = m - h /\ Given = taken - f /\ Top = taken - Ahead
  BY DEF Moved, Given, Top
<1>7. ~refused => \A o \in f + 1 .. Top : \E i \in h + 1 .. m : sunk[i] = o
  BY DEF Complete
<1>8. (~refused /\ ~nothing) => Given = Moved + Ahead
  BY DEF Exact
<1>9. (~refused /\ ~nothing) => \A i \in 1 .. Moved : sunk[h + i] = f + i
  BY DEF Exact
<1>. HIDE DEF f, h, m, k
<1>10. ASSUME ~refused, NEW o \in f + 1 .. Top'
      PROVE  \E i \in h + 1 .. m + k : sunk'[i] = o
  <2>1. CASE o <= Top
    <3>1. o \in f + 1 .. Top
      BY <1>1, <1>5, <2>1
    <3>2. PICK i \in h + 1 .. m : sunk[i] = o
      BY <1>7, <1>10, <3>1
    <3>3. i \in 1 .. m /\ i \in h + 1 .. m + k
      BY <1>1
    <3>. QED BY <1>3, <3>2, <3>3
  <2>2. CASE ~(o <= Top)
    <3>. DEFINE i == m + (o - Top)
    <3>1. /\ i \in 1 .. m + k /\ i \in h + 1 .. m + k /\ ~(i <= m) /\ Top + (i - m) = o
      BY <1>1, <1>2, <1>5, <2>2
    <3>. HIDE DEF i
    <3>2. sunk'[i] = o
      BY <1>3, <3>1
    <3>. QED BY <3>1, <3>2
  <2>. QED BY <2>1, <2>2
<1>11. Complete'
  BY <1>2, <1>3, <1>10 DEF Complete
<1>12. ASSUME ~refused, ~nothing, NEW i \in 1 .. Moved'
       PROVE  sunk'[h + i] = f + i
  <2>. DEFINE p == h + i
  <2>1. i \in Nat /\ i >= 1 /\ i <= m - h + k /\ p \in Nat /\ p >= 1 /\ p <= m + k
    BY <1>1, <1>2, <1>4, <1>6
  <2>2. Top = f + (m - h)
    BY <1>1, <1>6, <1>8, <1>12
  <2>3. CASE p <= m
    <3>1. i \in 1 .. Moved /\ p \in 1 .. m
      BY <1>1, <1>6, <2>1, <2>3
    <3>2. sunk[p] = f + i
      BY <1>9, <1>12, <3>1
    <3>3. sunk'[p] = sunk[p]
      BY <1>3, <3>1
    <3>. QED BY <3>2, <3>3
  <2>4. CASE ~(p <= m)
    <3>1. p \in 1 .. m + k /\ Top + (p - m) = f + i
      BY <1>1, <2>1, <2>2
    <3>. HIDE DEF p
    <3>2. sunk'[p] = f + i
      BY <1>3, <2>4, <3>1
    <3>. QED BY <3>2 DEF p
  <2>. QED BY <2>3, <2>4
<1>13. Exact'
  <2>1. Given = Moved + Ahead => Given' = Moved' + Ahead'
    BY <1>1, <1>4, <1>5, StillBalanced
  <2>. QED BY <1>2, <1>8, <1>12, <2>1 DEF Exact
<1>. QED BY <1>11, <1>13

\* Nothing reaches the sink, and what is not held stays the same.
LEMMA NothingDelivered ==
  ASSUME IInv, Complete, Exact, SameCall, UNCHANGED sunk, Top' = Top, UNCHANGED refused,
         nothing' \/ UNCHANGED nothing,
         UNCHANGED nothing => (Given = Moved + Ahead => Given' = Moved' + Ahead')
  PROVE  Complete' /\ Exact'
<1>1. Moved' = Moved
  BY Effects
<1>2. Complete'
  BY DEF Complete, SameCall
<1>3. Exact'
  <2>1. CASE refused \/ nothing'
    BY <2>1 DEF Exact
  <2>2. CASE ~refused /\ ~nothing' /\ UNCHANGED nothing
    <3>1. Given' = Moved' + Ahead'
      BY <2>2 DEF Exact
    <3>2. \A i \in 1 .. Moved : sunk[call.had + i] = call.from + i
      BY <2>2 DEF Exact
    <3>. QED BY <1>1, <3>1, <3>2 DEF Exact, SameCall
  <2>. QED BY <2>1, <2>2
<1>. QED BY <1>2, <1>3

(***************************************************************************)
(* What a call says is true at first.                                      *)
(***************************************************************************)

LEMMA CInvInit == Init => CInv
<1>. SUFFICES ASSUME Init PROVE CInv
  OBVIOUS
<1>1. /\ taken = 0 /\ Len(sunk) = 0 /\ pc = "idle" /\ refused = FALSE
      /\ call.from = 0 /\ call.had = 0 /\ call.n = 0 /\ call.op = "none" /\ result.count = 0
  BY DEF Init, Success
<1>2. Moved = 0 /\ Ahead = 0 /\ Given = 0 /\ Top = 0
  <2>1. Ahead = 0
    BY <1>1 DEF Ahead
  <2>. QED BY <1>1, <2>1 DEF Moved, Given, Top
<1>3. Complete /\ Exact
  BY <1>1, <1>2 DEF Complete, Exact
<1>4. Counters /\ Returned
  BY <1>1, <1>2 DEF Counters, Returned
<1>. QED BY <1>1, <1>3, <1>4 DEF CInv, Counts

(***************************************************************************)
(* And after each step: calls and transfers with an auxiliary buffer.      *)
(***************************************************************************)

\* What the retry machinery and the drivers say of a failure is an error.
LEMMA ErrorsAreErrors ==
  /\ \A a \in SourceAnswers : a # "none" /\ \A e \in Errors("source", a) : e # "none"
  /\ \A a \in SinkErrors : a # "none" /\ \A e \in Errors("sink", a) : e # "none"
BY ErrorsAssumption DEF SourceAnswers, Errors

LEMMA StartCounts ==
  ASSUME IInv, NEW op \in Ops, NEW n \in 0 .. MaxCount, Start(op, n)
  PROVE  CInv'
<1>1. /\ ~refused' /\ put' = 0 /\ Len(buf') = 0 /\ n \in Nat
      /\ call'.op = op /\ call'.rest = n /\ call'.moved = 0 /\ call'.n = n
      /\ call'.from = taken /\ Given' = 0 /\ Moved' = 0 /\ Ahead' = 0 /\ Top' = taken
  BY Starts
<1>2. taken \in Nat
  BY Sizes
<1>3. \/ op \in Counted /\ n = 0 /\ pc' = "idle" /\ result' \in {Failure("EINVAL"), Success(0)}
      \/ ~(op \in Counted /\ n = 0) /\ pc' \in {"read", "get"}
  BY DEF Start, Return, GoesOn
<1>4. Complete'
  <2>1. taken + 1 .. taken = {}
    BY <1>2
  <2>. QED BY <1>1, <2>1 DEF Complete
<1>5. Exact'
  BY <1>1 DEF Exact
<1>6. Counters'
  <2>1. 0 = 0 - 0 /\ n = n - 0 /\ 0 <= n /\ n - n + 0 = 0
    BY <1>1
  <2>2. op \in Counted /\ pc' \in {"read", "get"} => n >= 1 /\ 0 < n
    BY <1>1, <1>3
  <2>3. {"sts_n_cbc", "sts_atmost_cbc", "sts_n"} \subseteq Counted
    BY DEF Counted
  <2>. QED BY <1>1, <1>3, <2>1, <2>2, <2>3 DEF Counters
<1>7. Returned'
  <2>1. Done' => pc' = "idle" /\ result'.error = "none"
    BY DEF Done
  <2>2. Failure("EINVAL").error # "none" /\ Success(0).count = 0
    BY DEF Failure, Success
  <2>. QED BY <1>1, <1>3, <2>1, <2>2 DEF Returned
<1>8. Counts'
  BY <1>1, <1>6, <1>7 DEF Counts
<1>. QED BY <1>4, <1>5, <1>8 DEF CInv

LEMMA ReadSomeCounts ==
  ASSUME IInv, CInv, ReadSome
  PROVE  CInv'
<1>1. /\ pc = "read" /\ pc' \in {"read", "write"} /\ put' = 0 /\ SameCall
      /\ UNCHANGED <<sunk, put, call, refused, nothing>>
  BY Reads
<1>2. PICK k \in Nat :
        /\ taken' = taken + k /\ Ahead' = Ahead + k /\ Top' = Top
        /\ call.op \in Counted => Len(buf') <= call.rest
  BY Reads
<1>3. Given' = Given + k /\ Moved' = Moved
  BY <1>1, <1>2, Effects
<1>4. Complete' /\ Exact'
  <2>1. Given \in Nat /\ Moved \in Nat /\ Ahead \in Nat
    BY Numbers
  <2>2. Given = Moved + Ahead => Given' = Moved' + Ahead'
    BY <1>2, <1>3, <2>1
  <2>. QED BY <1>1, <1>2, <2>2, NothingDelivered DEF CInv
<1>5. (~refused /\ ~nothing) => Counters'
  <2>1. (~refused /\ ~nothing) => Counters
    BY DEF CInv, Counts
  <2>. QED BY <1>1, <1>2, <1>3, <2>1 DEF Counters
<1>6. Returned'
  BY <1>1 DEF Returned, Done
<1>7. Counts'
  BY <1>1, <1>5, <1>6 DEF Counts
<1>. QED BY <1>4, <1>7 DEF CInv

LEMMA ReadFailsCounts ==
  ASSUME IInv, CInv, ReadFails
  PROVE  CInv'
<1>1. pc = "read" /\ UNCHANGED <<taken, sunk, buf, put, call, refused, nothing>>
  BY DEF ReadFails
<1>2. PICK a \in SourceAnswers : \E e \in Errors("source", a) : AfterReadError(e)
  BY DEF ReadFails
<1>3. PICK e \in Errors("source", a) : AfterReadError(e)
  BY <1>2
<1>4. e # "none"
  BY ErrorsAreErrors
<1>5. SameCall
  BY <1>1, CallIs DEF SameCall
<1>6. Given' = Given /\ Moved' = Moved
  BY <1>1 DEF Given, Moved
<1>7. ~nothing => ~refused
  BY <1>1, Transferring DEF IInv, Accounted
<1>8. CASE buf = <<>>
  <2>1. pc' = "idle" /\ result' = AuxFailure(e)
    BY <1>3, <1>8 DEF AfterReadError, Return
  <2>2. put = 0 /\ Ahead = 0 /\ Ahead' = 0
    <3>1. Len(buf) = 0
      BY <1>8
    <3>2. put = 0 /\ Ahead = Len(buf) - put
      BY <1>1, Transferring
    <3>. QED BY <2>1, <3>1, <3>2 DEF Ahead
  <2>3. Top' = Top
    BY <1>1, <2>2 DEF Top
  <2>4. Complete' /\ Exact'
    <3>1. Ahead' = Ahead
      BY <2>2
    <3>. QED BY <1>1, <1>5, <1>6, <2>3, <3>1, NothingDelivered DEF CInv
  <2>5. Counters'
    BY <2>1 DEF Counters
  <2>6. (~refused /\ ~nothing) => Returned'
    <3>1. Done' => call.op = "sts_drain_aux" /\ result'.count = call.moved
      BY <1>4, <2>1 DEF Done, AuxFailure, Success, Failure
    <3>2. (~refused /\ ~nothing) => call.moved = Moved - put
      BY <1>1 DEF CInv, Counts, Counters
    <3>3. Moved - 0 = Moved
      BY Numbers
    <3>. QED BY <1>1, <1>6, <2>2, <3>1, <3>2, <3>3 DEF Returned
  <2>7. Counts'
    BY <1>1, <1>7, <2>5, <2>6 DEF Counts
  <2>. QED BY <2>4, <2>7 DEF CInv
<1>9. CASE buf # <<>>
  <2>1. pc' = "write"
    BY <1>3, <1>9 DEF AfterReadError, GoesOn
  <2>2. Ahead' = Ahead /\ Top' = Top
    BY <1>1, <2>1 DEF Ahead, Top
  <2>3. Complete' /\ Exact'
    BY <1>1, <1>5, <1>6, <2>2, NothingDelivered DEF CInv
  <2>4. (~refused /\ ~nothing) => Counters'
    BY <1>1, <1>6, <2>1 DEF CInv, Counts, Counters
  <2>5. Returned'
    BY <2>1 DEF Returned, Done
  <2>6. Counts'
    BY <1>1, <2>1, <2>4, <2>5 DEF Counts
  <2>. QED BY <2>3, <2>6 DEF CInv
<1>. QED BY <1>8, <1>9

LEMMA WriteSomeCounts ==
  ASSUME IInv, CInv, WriteSome
  PROVE  CInv'
<1>1. pc = "write" /\ UNCHANGED <<taken, refused, nothing>> /\ SameCall
  BY Writes
<1>2. PICK k \in 1 .. Len(buf) - put :
        /\ k \in Nat /\ sunk' = sunk \o Unsent(k) /\ Len(sunk') = Len(sunk) + k
        /\ Ahead' = Ahead - k /\ Top' = Top + k
        /\ \/ put + k < Len(buf) /\ put' = put + k /\ UNCHANGED <<buf, call, pc, result>>
           \/ put + k = Len(buf) /\ RoundEnds
  BY Writes
<1>3. Moved' = Moved + k
  BY <1>1, <1>2, Effects
<1>4. Complete' /\ Exact'
  <2>. DEFINE t == Unsent(k)
  <2>1. t \in Seq(Nat) /\ Len(t) = k /\ sunk' = sunk \o t /\ \A j \in 1 .. k : t[j] = Top + j
    BY <1>1, <1>2, UnsentIs
  <2>. HIDE DEF t
  <2>2. /\ \A j \in 1 .. Len(t) : t[j] = Top + j
        /\ Top' = Top + Len(t) /\ Ahead' = Ahead - Len(t)
    BY <1>2, <2>1
  <2>. QED BY <1>1, <2>1, <2>2, Delivering DEF CInv
<1>5. (~refused /\ ~nothing) =>
        /\ call.moved = Moved - put
        /\ call.op \in Counted => call.rest = call.n - call.moved /\ Len(buf) <= call.rest
  BY <1>1 DEF CInv, Counts, Counters
<1>6. /\ Moved \in Nat /\ put \in Nat /\ Len(buf) \in Nat /\ k \in Nat
      /\ call.rest \in Int /\ call.moved \in Int /\ call.n \in Nat
  BY <1>2, Numbers, Sizes, CallIs
<1>7. (~refused /\ ~nothing) => Counters' /\ Returned'
  <2>1. CASE put + k < Len(buf) /\ put' = put + k /\ UNCHANGED <<buf, call, pc, result>>
    <3>1. call.moved = Moved - put => call.moved = Moved' - put'
      BY <1>3, <1>6, <2>1
    <3>2. Returned'
      BY <1>1, <2>1 DEF Returned, Done
    <3>. QED BY <1>1, <1>5, <2>1, <3>1, <3>2 DEF Counters
  <2>2. CASE put + k = Len(buf) /\ RoundEnds
    <3>1. /\ buf' = <<>> /\ put' = 0
          /\ call'.rest = (IF call.op \in Counted THEN call.rest - Len(buf) ELSE call.rest)
          /\ call'.moved = call.moved + Len(buf) /\ call'.op = call.op /\ call'.n = call.n
          /\ \/ pc' = "read"
             \/ /\ pc' = "idle" /\ result' = Success(call.moved + Len(buf))
                /\ call.op = "sts_n_aux" => ~(call.rest > Len(buf))
      BY <1>1, <2>2, Rounds DEF SameCall
    <3>. DEFINE size == Len(buf)
                r == call.rest
                m == call.moved
                n == call.n
    <3>2. size \in Nat /\ r \in Int /\ m \in Int /\ n \in Nat /\ put + k = size
      BY <1>6, <2>2
    <3>3. Len(buf') = 0
      BY <3>1
    <3>4. (~refused /\ ~nothing) =>
            m = Moved - put /\ (call.op \in Counted => r = n - m /\ size <= r)
      BY <1>5
    <3>5. call'.moved = m + size /\ (call.op \in Counted => call'.rest = r - size)
      BY <3>1
    <3>6. call.op = "sts_n_aux" => call.op \in Counted
      BY DEF Counted
    <3>7. /\ call.op = "sts_n_aux" /\ pc' = "idle" => ~(r > size)
          /\ call.op \notin {"sts_n", "sts_n_cbc"}
      BY <1>1, <3>1, Transferring DEF AuxOps
    <3>. HIDE DEF size, r, m, n
    <3>8. ASSUME ~refused, ~nothing
          PROVE  m + size = Moved' /\ Moved' = Moved' - 0
      BY <1>3, <1>6, <3>2, <3>4, <3>8
    <3>9. ASSUME ~refused, ~nothing, call.op \in Counted
          PROVE  /\ call'.rest = n - call'.moved /\ 0 <= call'.rest
                 /\ ~(r > size) => m + size = n
      BY <3>2, <3>4, <3>5, <3>9
    <3>10. (~refused /\ ~nothing) => Counters'
      <4>1. call'.n = n /\ call'.op = call.op
        BY <3>1 DEF n
      <4>. QED BY <3>1, <3>3, <3>5, <3>8, <3>9, <4>1 DEF Counters
    <3>11. (~refused /\ ~nothing) => Returned'
      <4>1. Done' => pc' = "idle" /\ result'.count = m + size
        BY <3>1 DEF Done, Success, m, size
      <4>2. call'.n = n /\ call'.op = call.op
        BY <3>1 DEF n
      <4>. QED BY <3>6, <3>7, <3>8, <3>9, <4>1, <4>2 DEF Returned
    <3>. QED BY <3>10, <3>11
  <2>. QED BY <1>2, <2>1, <2>2
<1>8. ~nothing => ~refused
  BY <1>1, Transferring DEF IInv, Accounted
<1>9. Counts'
  BY <1>1, <1>7, <1>8 DEF Counts
<1>. QED BY <1>4, <1>9 DEF CInv

LEMMA WriteFailsCounts ==
  ASSUME IInv, CInv, WriteFails
  PROVE  CInv'
<1>1. refused' = TRUE /\ UNCHANGED call
  BY DEF WriteFails
<1>2. PICK a \in SinkErrors : \E e \in Errors("sink", a) : Return(AuxFailure(e))
  BY DEF WriteFails
<1>3. PICK e \in Errors("sink", a) : Return(AuxFailure(e))
  BY <1>2
<1>4. e # "none"
  BY ErrorsAreErrors
<1>5. call.op \notin Unexact => result'.error # "none"
  BY <1>3, <1>4 DEF Unexact, Return, AuxFailure, Failure
<1>. QED BY <1>1, <1>5 DEF CInv, Complete, Exact, Counts

(***************************************************************************)
(* Transfers by character.                                                 *)
(***************************************************************************)

LEMMA SameCounters ==
  ASSUME Counters, pc = "get", pc' = "put", UNCHANGED call, Moved' = Moved
  PROVE  Counters'
BY DEF Counters

LEMMA GetOctetCounts ==
  ASSUME IInv, CInv, GetOctet
  PROVE  CInv'
<1>1. pc = "get" /\ pc' = "put" /\ UNCHANGED <<sunk, put, call, refused>> /\ SameCall
      /\ Ahead = 0 /\ Top' = Top
  BY Gets
<1>2. \/ taken' = taken + 1 /\ UNCHANGED nothing /\ Ahead' = 1
      \/ UNCHANGED taken /\ nothing' /\ Ahead' = 0
  BY Gets
<1>3. /\ taken' = taken + 1 => Given' = Given + 1
      /\ UNCHANGED taken => Given' = Given
      /\ Moved' = Moved
  BY <1>1, Effects
<1>4. Complete' /\ Exact'
  <2>1. Given \in Nat /\ Moved \in Nat
    BY Numbers
  <2>2. Given = Moved + Ahead => Given' = Moved' + Ahead'
    BY <1>1, <1>2, <1>3, <2>1
  <2>3. nothing' \/ UNCHANGED nothing
    BY <1>2
  <2>. QED BY <1>1, <2>2, <2>3, NothingDelivered DEF CInv
<1>5. (~refused' /\ ~nothing') => Counters'
  <2>1. (~refused' /\ ~nothing') => Counters
    BY <1>1, <1>2 DEF CInv, Counts
  <2>. QED BY <1>1, <1>3, <2>1, SameCounters
<1>6. Returned'
  BY <1>1 DEF Returned, Done
<1>7. Counts'
  BY <1>1, <1>5, <1>6 DEF Counts
<1>. QED BY <1>4, <1>7 DEF CInv

LEMMA CountersOfLoops ==
  ASSUME pc' \in {"idle", "get"},
         pc' = "get" =>
           /\ call'.op = "sts_n_cbc" => call'.rest = call'.n - Moved' /\ call'.rest >= 1
           /\ call'.op = "sts_atmost_cbc" => call'.moved = Moved' /\ call'.moved < call'.rest
           /\ call'.op = "sts_n" => /\ call'.n - call'.rest + call'.moved = Moved'
                                   /\ call'.moved < call'.rest
  PROVE  Counters'
BY DEF Counters

\* How the loops count an octet.
LEMMA LoopsCount ==
  ASSUME IInv, pc \in {"get", "put"}, Counters, Moved' = Moved + 1, OctetEnds(1)
  PROVE  Counters' /\ Returned'
<1>. DEFINE r == call.rest
            m == call.moved
            n == call.n
<1>1. /\ call \in Calls /\ r \in Int /\ m \in Int /\ n \in Nat /\ call.op \in OctetOps
      /\ Moved \in Nat
  BY CallIs, ByCharacter, Numbers
<1>2. SameCall /\ pc' \in {"idle", "get"}
  <2>1. 1 \in {0, 1}
    OBVIOUS
  <2>. QED BY <2>1, LoopsGoOn
<1>3. call'.op = call.op /\ call'.n = n
  BY <1>2 DEF SameCall
<1>4. CASE call.op = "sts_n_cbc"
  <2>1. /\ call' = [call EXCEPT !.rest = r - 1]
        /\ \/ r = 1 /\ result' = Success(n)
           \/ r # 1 /\ pc' = "get"
    BY <1>4 DEF OctetEnds, Return, GoesOn
  <2>2. r = n - Moved /\ r >= 1
    BY <1>4 DEF Counters
  <2>3. call'.rest = r - 1
    <3>. HIDE DEF r
    <3>1. r - 1 \in Int
      BY <1>1
    <3>. QED BY <1>1, <2>1, <3>1, CallGoesOn
  <2>. HIDE DEF r, n
  <2>4. r - 1 = n - Moved' /\ (r = 1 => Moved' = n) /\ (r # 1 => r - 1 >= 1)
    BY <1>1, <2>2
  <2>5. Counters'
    <3>1. pc' = "get" => call'.rest = call'.n - Moved' /\ call'.rest >= 1
      <4>1. CASE r = 1
        BY <1>4, <4>1 DEF OctetEnds, Return, r
      <4>2. CASE r # 1
        BY <1>3, <2>3, <2>4, <4>2
      <4>. QED BY <4>1, <4>2
    <3>. QED BY <1>2, <1>3, <1>4, <3>1, CountersOfLoops
  <2>6. Returned'
    BY <1>3, <2>1, <2>4 DEF Returned, Done, Success
  <2>. QED BY <2>5, <2>6
<1>5. CASE call.op \in {"sts_drain_cbc", "sts_drain"}
  <2>1. pc' = "get"
    BY <1>5 DEF OctetEnds, GoesOn
  <2>. QED BY <1>3, <1>5, <2>1 DEF Counters, Returned, Done
<1>6. CASE call.op = "sts_atmost_cbc"
  <2>1. \/ call' = [call EXCEPT !.moved = m + 1] /\ pc' = "get" /\ m + 1 < r
        \/ pc' = "idle" /\ result' = Success(m + 1)
    BY <1>6 DEF OctetEnds, InnerEnds, Return, GoesOn
  <2>2. m = Moved
    BY <1>6 DEF Counters
  <2>3. CASE call' = [call EXCEPT !.moved = m + 1] /\ pc' = "get" /\ m + 1 < r
    <3>1. call'.moved = m + 1 /\ call'.rest = r
      <4>. HIDE DEF m
      <4>1. m + 1 \in Int
        BY <1>1
      <4>. QED BY <1>1, <2>3, <4>1, CallGoesOn
    <3>2. m + 1 = Moved'
      BY <2>2
    <3>. HIDE DEF r, m
    <3>3. Counters' /\ Returned'
      BY <1>3, <1>6, <2>3, <3>1, <3>2 DEF Counters, Returned, Done
    <3>. QED BY <3>3
  <2>4. CASE pc' = "idle" /\ result' = Success(m + 1)
    <3>1. m + 1 = Moved'
      BY <2>2
    <3>. HIDE DEF m
    <3>. QED BY <1>3, <1>6, <2>4, <3>1 DEF Counters, Returned, Done, Success
  <2>. QED BY <2>1, <2>3, <2>4
<1>7. CASE call.op = "sts_n"
  <2>1. \/ call' = [call EXCEPT !.moved = m + 1] /\ pc' = "get" /\ m + 1 < r
        \/ /\ ~(m + 1 < r) /\ call' = [call EXCEPT !.rest = r - m - 1, !.moved = 0]
           /\ \/ r - m - 1 = 0 /\ pc' = "idle" /\ result' = Success(n)
              \/ r - m - 1 # 0
    BY <1>7 DEF OctetEnds, InnerEnds, Return, GoesOn
  <2>2. n - r + m = Moved /\ m < r
    BY <1>7 DEF Counters
  <2>3. CASE call' = [call EXCEPT !.moved = m + 1] /\ pc' = "get" /\ m + 1 < r
    <3>1. call'.moved = m + 1 /\ call'.rest = r
      <4>. HIDE DEF m
      <4>1. m + 1 \in Int
        BY <1>1
      <4>. QED BY <1>1, <2>3, <4>1, CallGoesOn
    <3>. HIDE DEF r, m, n
    <3>2. n - r + (m + 1) = Moved'
      BY <1>1, <2>2
    <3>3. Counters' /\ Returned'
      BY <1>3, <1>7, <2>3, <3>1, <3>2 DEF Counters, Returned, Done
    <3>. QED BY <3>3
  <2>4. CASE ~(m + 1 < r)
    <3>. HIDE DEF r, m, n
    <3>1. r - m - 1 = 0 /\ Moved' = n
      BY <1>1, <2>2, <2>4
    <3>2. pc' = "idle" /\ result' = Success(n)
      BY <2>1, <2>4, <3>1
    <3>. QED BY <1>3, <1>7, <3>1, <3>2 DEF Counters, Returned, Done, Success
  <2>. QED BY <2>1, <2>3, <2>4
<1>. QED BY <1>1, <1>4, <1>5, <1>6, <1>7 DEF OctetOps

\* An error of the source between two octets.
LEMMA LoopsFail ==
  ASSUME IInv, pc = "get", Counters, Moved' = Moved, NEW e, e # "none", OctetFails(e)
  PROVE  Counters' /\ Returned'
<1>. DEFINE r == call.rest
            m == call.moved
            n == call.n
<1>1. /\ call \in Calls /\ r \in Int /\ m \in Int /\ n \in Nat /\ call.op \in OctetOps
      /\ Moved \in Nat
  BY CallIs, ByCharacter, Numbers
<1>2. SameCall /\ pc' \in {"idle", "get"}
  BY LoopsGoOn
<1>3. call'.op = call.op /\ call'.n = n
  BY <1>2 DEF SameCall
<1>4. ASSUME pc' = "idle", NEW f, f # "none", result' = Failure(f)
      PROVE  Counters' /\ Returned'
  BY <1>4 DEF Counters, Returned, Done, Failure
<1>5. CASE call.op \in {"sts_n_cbc", "sts_drain_cbc"}
  <2>1. pc' = "idle" /\ result' = Failure(e)
    BY <1>5 DEF OctetFails, Return
  <2>. QED BY <1>4, <2>1
<1>6. CASE call.op = "sts_drain"
  <2>1. pc' = "idle" /\ result' \in {Failure("EPIPE"), Failure(e)}
    BY <1>6 DEF OctetFails, Return
  <2>2. "EPIPE" # "none"
    OBVIOUS
  <2>. QED BY <1>4, <2>1, <2>2
<1>7. CASE call.op = "sts_atmost_cbc"
  <2>1. pc' = "idle" /\ result' \in {Success(m), Failure(e)}
    BY <1>7 DEF OctetFails, InnerEnds, Return
  <2>2. CASE result' = Failure(e)
    BY <1>4, <2>1, <2>2
  <2>3. CASE result' = Success(m)
    <3>1. m = Moved'
      BY <1>7 DEF Counters
    <3>. HIDE DEF m
    <3>. QED BY <1>3, <1>7, <2>1, <2>3, <3>1 DEF Counters, Returned, Done, Success
  <2>. QED BY <2>1, <2>2, <2>3
<1>8. CASE call.op = "sts_n"
  <2>0. n - r + m = Moved /\ m < r
    BY <1>8 DEF Counters
  <2>1. \/ /\ call' = [call EXCEPT !.rest = r - m, !.moved = 0]
           /\ \/ r - m = 0
              \/ pc' = "get"
        \/ pc' = "get" /\ UNCHANGED call
        \/ pc' = "idle" /\ result' = Failure(e)
    BY <1>8 DEF OctetFails, InnerEnds, Return, GoesOn
  <2>2. CASE pc' = "idle" /\ result' = Failure(e)
    BY <1>4, <2>2
  <2>3. CASE pc' = "get" /\ UNCHANGED call
    BY <1>8, <2>0, <2>3 DEF Counters, Returned, Done
  <2>4. CASE call' = [call EXCEPT !.rest = r - m, !.moved = 0] /\ (r - m = 0 \/ pc' = "get")
    <3>1. call'.rest = r - m /\ call'.moved = 0
      <4>. HIDE DEF r, m
      <4>1. r - m \in Int /\ 0 \in Int
        BY <1>1
      <4>. QED BY <1>1, <2>4, <4>1, CallGoesOn
    <3>. HIDE DEF r, m, n
    <3>2. n - (r - m) + 0 = Moved' /\ 0 < r - m /\ r - m # 0
      BY <1>1, <2>0
    <3>3. pc' = "get"
      BY <2>4, <3>2
    <3>. QED BY <1>3, <1>8, <3>1, <3>2, <3>3 DEF Counters, Returned, Done
  <2>. QED BY <2>1, <2>2, <2>3, <2>4
<1>. QED BY <1>1, <1>5, <1>6, <1>7, <1>8 DEF OctetOps

LEMMA GetFailsCounts ==
  ASSUME IInv, CInv, GetFails
  PROVE  CInv'
<1>1. pc = "get" /\ UNCHANGED <<taken, sunk, buf, put, refused, nothing>>
  BY DEF GetFails
<1>2. PICK a \in SourceAnswers : OctetFails(a)
  BY DEF GetFails
<1>3. a # "none"
  BY ErrorsAreErrors
<1>4. SameCall /\ pc' \in {"idle", "get"}
  BY <1>1, <1>2, LoopsGoOn
<1>5. Ahead = 0 /\ Ahead' = 0
  BY <1>1, <1>4 DEF Ahead
<1>6. Top' = Top /\ Ahead' = Ahead
  BY <1>1, <1>5 DEF Top
<1>7. Given' = Given /\ Moved' = Moved
  BY <1>1, <1>4, Effects
<1>8. Complete' /\ Exact'
  BY <1>1, <1>4, <1>6, <1>7, NothingDelivered DEF CInv
<1>9. (~refused /\ ~nothing) => Counters' /\ Returned'
  <2>1. (~refused /\ ~nothing) => Counters
    BY DEF CInv, Counts
  <2>. QED BY <1>1, <1>2, <1>3, <1>7, <2>1, LoopsFail
<1>10. Counts'
  <2>1. (~nothing /\ call.op # "sts_n") => ~refused
    BY <1>1 DEF IInv, Accounted
  <2>2. call'.op = call.op
    BY <1>4 DEF SameCall
  <2>. QED BY <1>1, <1>9, <2>1, <2>2 DEF Counts, Unexact
<1>. QED BY <1>8, <1>10 DEF CInv

LEMMA PutOctetCounts ==
  ASSUME IInv, CInv, PutOctet
  PROVE  CInv'
<1>1. /\ pc = "put" /\ SameCall /\ UNCHANGED <<taken, refused, nothing>>
      /\ sunk' = sunk \o buf /\ Len(sunk') = Len(sunk) + 1
      /\ Ahead' = 0 /\ Top' = taken
  BY Puts
<1>2. \/ Ahead = 1 /\ Top + 1 = taken /\ buf = <<taken>>
      \/ Ahead = 0 /\ Top = taken /\ nothing
  BY Puts
<1>3. Moved' = Moved + 1
  BY <1>1, Effects
<1>4. taken \in Nat /\ Top \in Nat /\ sunk \in Seq(Nat) /\ Len(sunk) \in Nat /\ buf \in Seq(Nat)
      /\ call.had \in Nat
  BY Sizes, Numbers, CallIs
<1>5. Complete' /\ Exact'
  <2>1. CASE Ahead = 1 /\ Top + 1 = taken /\ buf = <<taken>>
    <3>1. Len(buf) = 1 /\ \A j \in 1 .. Len(buf) : buf[j] = Top + j
      BY <1>4, <2>1
    <3>2. Top' = Top + Len(buf) /\ Ahead' = Ahead - Len(buf)
      BY <1>1, <2>1, <3>1
    <3>. QED BY <1>1, <1>4, <3>1, <3>2, Delivering DEF CInv
  <2>2. CASE Ahead = 0 /\ Top = taken /\ nothing
    <3>1. ASSUME ~refused, NEW o \in call.from + 1 .. Top
          PROVE  \E i \in call.had + 1 .. Len(sunk') : sunk'[i] = o
      <4>1. PICK i \in call.had + 1 .. Len(sunk) : sunk[i] = o
        BY <3>1 DEF CInv, Complete
      <4>2. i \in 1 .. Len(sunk) /\ i \in call.had + 1 .. Len(sunk')
        BY <1>1, <1>4
      <4>3. i \in 1 .. Len(sunk) + Len(buf) /\ i <= Len(sunk)
        <5>1. Len(buf) \in Nat
          BY <1>4, LenProperties
        <5>. QED BY <1>4, <4>2, <5>1
      <4>4. (sunk \o buf)[i] = sunk[i]
        BY <1>4, <4>3, ConcatProperties
      <4>. QED BY <1>1, <4>1, <4>2, <4>4
    <3>2. Complete'
      BY <1>1, <2>2, <3>1 DEF Complete, SameCall
    <3>3. Exact'
      BY <1>1, <2>2 DEF Exact
    <3>. QED BY <3>2, <3>3
  <2>. QED BY <1>2, <2>1, <2>2
<1>6. (~refused /\ ~nothing) => Counters' /\ Returned'
  <2>1. (~refused /\ ~nothing) => Counters
    BY DEF CInv, Counts
  <2>2. OctetEnds(1)
    BY DEF PutOctet
  <2>. QED BY <1>1, <1>3, <2>1, <2>2, LoopsCount
<1>7. Counts'
  <2>1. (~nothing /\ call.op # "sts_n") => ~refused
    BY <1>1 DEF IInv, Accounted
  <2>2. call'.op = call.op
    BY <1>1 DEF SameCall
  <2>. QED BY <1>1, <1>6, <2>1, <2>2 DEF Counts, Unexact
<1>. QED BY <1>5, <1>7 DEF CInv

LEMMA PutLosesCounts ==
  ASSUME IInv, CInv, PutNothing \/ PutFails
  PROVE  CInv'
<1>1. refused' = TRUE
  BY DEF PutNothing, PutFails
<1>2. (~nothing' /\ call'.op \notin Unexact) => result'.error # "none"
  <2>1. CASE PutNothing
    BY <2>1 DEF PutNothing
  <2>2. CASE PutFails
    <3>1. PICK a \in SinkErrors : OctetFails(a)
      BY <2>2 DEF PutFails
    <3>2. a # "none"
      BY ErrorsAreErrors
    <3>3. pc = "put"
      BY <2>2 DEF PutFails
    <3>4. call'.op = call.op /\ call.op \in OctetOps
      BY <3>1, <3>3, LoopsGoOn, ByCharacter DEF SameCall
    <3>5. ASSUME call.op \in {"sts_n_cbc", "sts_drain_cbc"} PROVE result' = Failure(a)
      BY <3>1, <3>5 DEF OctetFails, Return
    <3>6. ASSUME call.op = "sts_drain" PROVE result' \in {Failure("EPIPE"), Failure(a)}
      BY <3>1, <3>6 DEF OctetFails, Return
    <3>7. Failure("EPIPE").error # "none" /\ Failure(a).error # "none"
      BY <3>2 DEF Failure
    <3>8. call.op \in {"sts_n_cbc", "sts_drain_cbc", "sts_drain"} => result'.error # "none"
      BY <3>5, <3>6, <3>7
    <3>. QED BY <3>4, <3>8 DEF Unexact, OctetOps
  <2>. QED BY <2>1, <2>2
<1>. QED BY <1>1, <1>2 DEF CInv, Complete, Exact, Counts

LEMMA CountsPreserved == IInv /\ CInv /\ [Next]_vars => CInv'
<1>. SUFFICES ASSUME IInv, CInv, [Next]_vars
              PROVE  CInv'
  OBVIOUS
<1>1. CASE UNCHANGED vars
  BY <1>1 DEF vars, CInv, Complete, Exact, Counts, Counters, Returned, Done, Given, Moved, Ahead, Top
<1>2. CASE Next
  BY <1>2, StartCounts, ReadSomeCounts, ReadFailsCounts, WriteSomeCounts, WriteFailsCounts,
     GetOctetCounts, GetFailsCounts, PutOctetCounts, PutLosesCounts DEF Next
<1>. QED BY <1>1, <1>2

(***************************************************************************)
(* The theorems.                                                           *)
(***************************************************************************)

LEMMA Invariants == Spec => [](IInv /\ CInv)
<1>. QED BY Initially, Preserved, CInvInit, CountsPreserved, PTL DEF Spec

\* What Taken and Delivered are, when a call has returned.
LEMMA Sequences ==
  ASSUME IInv
  PROVE  /\ Taken \in Seq(Nat) /\ Len(Taken) = Given
         /\ \A i \in 1 .. Given : Taken[i] = call.from + i
         /\ Delivered \in Seq(Nat) /\ Len(Delivered) = Moved
         /\ \A i \in 1 .. Moved : Delivered[i] = sunk[call.had + i]
<1>. DEFINE f == call.from
            h == call.had
            m == h + 1
            k == Len(sunk)
<1>1. f \in Nat /\ h \in Nat /\ k \in Nat /\ sunk \in Seq(Nat) /\ Given \in Nat /\ Moved \in Nat
  BY CallIs, Sizes, Numbers
<1>2. Given = taken - f /\ Moved = k - h
  BY DEF Given, Moved
<1>3. Taken = [i \in 1 .. Given |-> f + i]
  BY DEF Taken, Given
<1>4. Delivered = SubSeq(sunk, m, k)
  BY DEF Delivered
<1>5. ASSUME NEW i \in m .. k PROVE sunk[i] \in Nat
  <2>1. i \in 1 .. Len(sunk)
    BY <1>1
  <2>. QED BY <1>1, <2>1, ElementOfSeq
<1>6. m \in Int /\ (m <= k => k - m + 1 = Moved) /\ (~(m <= k) => Moved = 0)
  <2>. HIDE DEF h, k
  <2>. QED BY <1>1, <1>2
<1>7. ASSUME NEW i \in 1 .. Moved PROVE i \in 1 .. k - m + 1 /\ m + i - 1 = h + i
  <2>. HIDE DEF h, k
  <2>. QED BY <1>1, <1>2
<1>. HIDE DEF f
<1>8. Taken \in Seq(Nat) /\ Len(Taken) = Given
  <2>1. Taken \in [1 .. Given -> Nat]
    BY <1>1, <1>3
  <2>. QED BY <1>1, <2>1
<1>9. \A i \in 1 .. Given : Taken[i] = f + i
  BY <1>3
<1>. HIDE DEF h, m, k
<1>10. /\ SubSeq(sunk, m, k) \in Seq(Nat)
       /\ Len(SubSeq(sunk, m, k)) = IF m <= k THEN k - m + 1 ELSE 0
       /\ \A i \in 1 .. k - m + 1 : SubSeq(sunk, m, k)[i] = sunk[m + i - 1]
  BY <1>1, <1>5, <1>6, SubSeqProperties
<1>11. Delivered \in Seq(Nat) /\ Len(Delivered) = Moved
  BY <1>4, <1>6, <1>10
<1>12. \A i \in 1 .. Moved : Delivered[i] = sunk[h + i]
  BY <1>4, <1>7, <1>10
<1>. QED BY <1>8, <1>9, <1>11, <1>12 DEF f, h

\* No call delivers an octet twice or out of order, whatever the drivers transfer of
\* what they are asked for, whichever errors they return and which of them are retried.
THEOREM TransfersKeepOrder == Spec => []InOrder
<1>1. IInv => InOrder
  BY DEF IInv
<1>. QED BY <1>1, Invariants, PTL

\* A call that ends because the sink refuses an octet, in source_get_chunk_atmost() and
\* sink_put_chunk() or in sts_cbc(), has lost no more than it had taken ahead: a buffer,
\* or one octet.
THEOREM RefusalLosesLittle == Spec => []LossIsBounded
<1>1. IInv => LossIsBounded
  <2>. SUFFICES ASSUME IInv, pc = "idle", refused, ~nothing, call.op # "sts_n"
                PROVE  Len(Taken) - Len(Delivered) <= IF call.op \in AuxOps THEN AuxSize ELSE 1
    BY DEF LossIsBounded
  <2>1. Given - Moved <= IF call.op \in AuxOps THEN AuxSize ELSE 1
    BY DEF IInv, Accounted
  <2>2. Len(Taken) = Given /\ Len(Delivered) = Moved
    BY Sequences
  <2>. QED BY <2>1, <2>2
<1>. QED BY <1>1, Invariants, PTL

\* Errors of the source lose nothing, in source_get_chunk_atmost(), which passes on what
\* it has read before one, or in sts_cbc(): what was taken is in the sink when a call
\* returns, unless the sink refused an octet.
THEOREM ErrorsLoseNothing == Spec => []SourceFailureLosesNothing
<1>1. IInv /\ CInv => SourceFailureLosesNothing
  <2>. SUFFICES ASSUME IInv, CInv, pc = "idle", ~refused
                PROVE  \A o \in call.from + 1 .. taken :
                         \E i \in call.had + 1 .. Len(sunk) : sunk[i] = o
    BY DEF SourceFailureLosesNothing
  <2>1. Ahead = 0 /\ taken \in Nat
    BY Sizes DEF Ahead
  <2>2. Top = taken
    BY <2>1 DEF Top
  <2>. QED BY <2>2 DEF CInv, Complete
<1>. QED BY <1>1, Invariants, PTL

\* What the calls of src/endpoints/core.c return is how many octets they have moved, and
\* those that promise n octets have moved n.
THEOREM CountsAreExact == Spec => []SuccessIsExact
<1>1. IInv /\ CInv => SuccessIsExact
  <2>. SUFFICES ASSUME IInv, CInv, Done, ~nothing, refused => call.op \notin Unexact
                PROVE  /\ Delivered = Taken /\ result.count = Len(Taken)
                       /\ call.op \in {"sts_n", "sts_n_aux", "sts_n_cbc"} => result.count = call.n
    BY DEF SuccessIsExact, Unexact
  <2>1. pc = "idle" /\ result.error = "none"
    BY DEF Done
  <2>2. ~refused
    BY <2>1 DEF CInv, Counts
  <2>3. /\ result.count = Moved
        /\ call.op \in {"sts_n", "sts_n_aux", "sts_n_cbc"} => Moved = call.n
    BY <2>2 DEF CInv, Counts, Returned
  <2>4. Given = Moved
    <3>1. Ahead = 0 /\ Moved \in Nat
      BY <2>1, Numbers DEF Ahead
    <3>2. Given = Moved + Ahead
      BY <2>2 DEF CInv, Exact
    <3>. QED BY <3>1, <3>2
  <2>5. \A i \in 1 .. Moved : sunk[call.had + i] = call.from + i
    BY <2>2 DEF CInv, Exact
  <2>6. Delivered = Taken /\ Len(Taken) = Moved
    <3>1. /\ Taken \in Seq(Nat) /\ Len(Taken) = Moved
          /\ Delivered \in Seq(Nat) /\ Len(Delivered) = Moved
      BY <2>4, Sequences
    <3>2. ASSUME NEW i \in 1 .. Moved PROVE Delivered[i] = Taken[i]
      BY <2>4, <2>5, Sequences
    <3>. QED BY <3>1, <3>2, SeqEqual
  <2>. QED BY <2>3, <2>6
<1>. QED BY <1>1, Invariants, PTL

HIDE SizeAssumption

(***************************************************************************)
(* The drivers that are made of memory.  First byte buffers, as the        *)
(* drivers use them: what each operation does to the octets that there are *)
(* to read.                                                                *)
(***************************************************************************)

Octet == 0 .. OctetValues - 1

\* The marks are in order, and their differences do not wrap around.
Buffers ==
  {b \in [data : Seq(Octet), used : Nat, offset : Nat] :
     /\ b.offset <= b.used /\ b.used <= Len(b.data)
     /\ Len(b.data) < 4 * PipeSize}

LEMMA BufferFields ==
  ASSUME NEW b \in Buffers
  PROVE  /\ b = [data |-> b.data, used |-> b.used, offset |-> b.offset]
         /\ b.data \in Seq(Octet) /\ b.used \in Nat /\ b.offset \in Nat
         /\ Len(b.data) \in Nat /\ Len(b.data) < 4 * PipeSize
         /\ b.offset <= b.used /\ b.used <= Len(b.data)
<1>1. b \in [data : Seq(Octet), used : Nat, offset : Nat]
  BY DEF Buffers
<1>2. b.data \in Seq(Octet) /\ b.used \in Nat /\ b.offset \in Nat
  BY <1>1
<1>3. b = [data |-> b.data, used |-> b.used, offset |-> b.offset]
  BY <1>1
<1>4. Len(b.data) \in Nat
  BY <1>2, LenProperties
<1>. QED BY <1>2, <1>3, <1>4 DEF Buffers

LEMMA BufferOf ==
  ASSUME NEW data \in Seq(Octet), NEW used \in Nat, NEW offset \in Nat,
         offset <= used, used <= Len(data), Len(data) < 4 * PipeSize
  PROVE  [data |-> data, used |-> used, offset |-> offset] \in Buffers
<1>. QED BY DEF Buffers

\* What n octets from a position on are.
LEMMA Part ==
  ASSUME NEW s \in Seq(Octet), NEW m \in Nat, NEW n \in Nat, m + n <= Len(s)
  PROVE  /\ SubSeq(s, m + 1, m + n) \in Seq(Octet)
         /\ Len(SubSeq(s, m + 1, m + n)) = n
         /\ \A i \in 1 .. n : SubSeq(s, m + 1, m + n)[i] = s[m + i]
<1>. DEFINE a == m + 1
            b == m + n
<1>1. a \in Int /\ b \in Int /\ b - a + 1 = n /\ (a <= b <=> n # 0)
  OBVIOUS
<1>2. ASSUME NEW i \in a .. b
      PROVE  s[i] \in Octet
  <2>1. i \in 1 .. Len(s)
    BY LenProperties
  <2>. QED BY <2>1, ElementOfSeq
<1>3. \A i \in 1 .. n : a + i - 1 = m + i
  OBVIOUS
<1>. HIDE DEF a, b
<1>4. /\ SubSeq(s, a, b) \in Seq(Octet)
      /\ Len(SubSeq(s, a, b)) = IF a <= b THEN b - a + 1 ELSE 0
      /\ \A i \in 1 .. b - a + 1 : SubSeq(s, a, b)[i] = s[a + i - 1]
  BY <1>1, <1>2, SubSeqProperties
<1>5. Len(SubSeq(s, a, b)) = n
  BY <1>1, <1>4
<1>6. \A i \in 1 .. n : SubSeq(s, a, b)[i] = s[m + i]
  BY <1>1, <1>3, <1>4
<1>. QED BY <1>4, <1>5, <1>6 DEF a, b

LEMMA Unwrapped ==
  ASSUME NEW x \in Nat, x < 4 * PipeSize
  PROVE  x % (4 * PipeSize) = x
<1>1. PipeSize \in Nat \ {0}
  BY PipeAssumption
<1>. DEFINE w == 4 * PipeSize
<1>2. w \in Nat /\ w > 0 /\ x < w
  BY <1>1
<1>. HIDE DEF w
<1>3. x % w = x
  BY <1>2
<1>. QED BY <1>3 DEF w

\* What there is to read of a buffer.
LEMMA UnreadIs ==
  ASSUME NEW b \in Buffers
  PROVE  /\ D!Rest(b) = b.used - b.offset /\ D!Rest(b) \in Nat
         /\ UnreadOf(b) = SubSeq(b.data, b.offset + 1, b.used)
         /\ UnreadOf(b) \in Seq(Octet) /\ Len(UnreadOf(b)) = D!Rest(b)
         /\ \A i \in 1 .. D!Rest(b) : UnreadOf(b)[i] = b.data[b.offset + i]
<1>. DEFINE n == b.used - b.offset
            m == b.offset
            s == b.data
<1>1. n \in Nat /\ n < 4 * PipeSize /\ m \in Nat /\ m + n = b.used /\ m + n <= Len(s)
      /\ s \in Seq(Octet)
  BY BufferFields, PipeAssumption
<1>2. D!Rest(b) = n
  BY <1>1, Unwrapped DEF D!Rest
<1>3. UnreadOf(b) = SubSeq(s, m + 1, m + n)
  BY <1>2 DEF UnreadOf, D!Unread
<1>. HIDE DEF n, m, s
<1>4. /\ SubSeq(s, m + 1, m + n) \in Seq(Octet) /\ Len(SubSeq(s, m + 1, m + n)) = n
      /\ \A i \in 1 .. n : SubSeq(s, m + 1, m + n)[i] = s[m + i]
  BY <1>1, Part
<1>5. SubSeq(s, m + 1, m + n) = SubSeq(b.data, b.offset + 1, b.used)
  BY <1>1 DEF m, s
<1>6. UnreadOf(b) \in Seq(Octet) /\ Len(UnreadOf(b)) = n
  BY <1>3, <1>4
<1>7. \A i \in 1 .. n : UnreadOf(b)[i] = s[m + i]
  BY <1>3, <1>4
<1>8. \A i \in 1 .. D!Rest(b) : UnreadOf(b)[i] = b.data[b.offset + i]
  BY <1>2, <1>7 DEF m, s
<1>9. D!Rest(b) = b.used - b.offset
  BY <1>2 DEF n
<1>. QED BY <1>1, <1>2, <1>3, <1>5, <1>6, <1>8, <1>9

\* byte_buffer_consume_at_most(): what it copies is what there was to read first.
LEMMA Consuming ==
  ASSUME NEW b \in Buffers, NEW n \in Nat, NEW r, r = D!ConsumeAtMost(b, n)
  PROVE  \/ /\ r.rc = "ENODATA" /\ r.buf = b /\ D!Rest(b) = 0 /\ UnreadOf(b) = <<>>
         \/ /\ r.rc = "ok" /\ r.buf \in Buffers /\ D!Rest(b) > 0
            /\ r.out \in Seq(Octet) /\ Len(r.out) \in Nat /\ Len(r.out) <= n
            /\ n > 0 => Len(r.out) > 0
            /\ UnreadOf(b) = r.out \o UnreadOf(r.buf)
<1>. DEFINE rest == D!Rest(b)
            m == IF n > rest THEN rest ELSE n
<1>0. rest \in Nat /\ m \in Nat /\ m <= rest /\ m <= n
  BY UnreadIs
<1>1. CASE rest = 0
  <2>1. r = D!Refuses(b, "ENODATA")
    BY <1>1 DEF D!ConsumeAtMost
  <2>2. r.rc = "ENODATA" /\ r.buf = b
    BY <2>1 DEF D!Refuses
  <2>. DEFINE u == UnreadOf(b)
  <2>3. u \in Seq(Octet) /\ Len(u) = 0
    BY <1>1, UnreadIs
  <2>. HIDE DEF u
  <2>4. u = <<>>
    BY <2>3, EmptySeq
  <2>. QED BY <1>1, <2>2, <2>4 DEF u
<1>2. CASE rest # 0
  <2>. DEFINE c == [b EXCEPT !.offset = @ + m]
  <2>1. r = D!Extracts(c, D!Unread(b, m))
    BY <1>2 DEF D!ConsumeAtMost
  <2>2. r.rc = "ok" /\ r.buf = c /\ r.out = D!Unread(b, m)
    BY <2>1 DEF D!Extracts
  <2>. DEFINE o == b.offset
              f == b.used
              s == b.data
  <2>3. /\ s \in Seq(Octet) /\ Len(s) \in Nat /\ Len(s) < 4 * PipeSize
        /\ o \in Nat /\ f \in Nat /\ f <= Len(s) /\ o + m <= f /\ rest = f - o
    BY <1>0, BufferFields, UnreadIs
  <2>4. c = [data |-> s, used |-> f, offset |-> o + m]
    BY BufferFields
  <2>5. r.out = SubSeq(s, o + 1, o + m)
    BY <2>2 DEF D!Unread
  <2>6. UnreadOf(b) = SubSeq(s, o + 1, f)
    BY UnreadIs
  <2>. HIDE DEF o, f, s, m, c, rest
  <2>7. c \in Buffers
    <3>1. o + m \in Nat
      BY <1>0, <2>3
    <3>. QED BY <2>3, <2>4, <3>1, BufferOf
  <2>8. UnreadOf(c) = SubSeq(s, o + m + 1, f)
    <3>1. c.data = s /\ c.offset = o + m /\ c.used = f
      BY <2>4
    <3>. QED BY <2>7, <3>1, UnreadIs
  <2>9. r.out \in Seq(Octet) /\ Len(r.out) = m
    <3>1. o + m <= Len(s)
      BY <1>0, <2>3
    <3>. QED BY <1>0, <2>3, <2>5, <3>1, Part
  <2>10. SubSeq(s, o + 1, f) = SubSeq(s, o + 1, o + m) \o SubSeq(s, o + m + 1, f)
    <3>. DEFINE k == o + m
    <3>1. o + 1 \in 1 .. Len(s) + 1 /\ k \in (o + 1) - 1 .. Len(s) /\ f \in k .. Len(s)
      BY <1>0, <2>3
    <3>. HIDE DEF k
    <3>2. SubSeq(s, o + 1, k) \o SubSeq(s, k + 1, f) = SubSeq(s, o + 1, f)
      BY <2>3, <3>1, ConcatAdjacentSubSeq
    <3>. QED BY <3>2 DEF k
  <2>11. UnreadOf(b) = r.out \o UnreadOf(r.buf)
    BY <2>2, <2>5, <2>6, <2>8, <2>10
  <2>12. n > 0 => m > 0
    BY <1>0, <1>2 DEF m
  <2>13. D!Rest(b) > 0
    BY <1>0, <1>2 DEF rest
  <2>. QED BY <1>0, <2>2, <2>7, <2>9, <2>11, <2>12, <2>13
<1>. QED BY <1>1, <1>2

\* memcpy() behind the octets that are filled.
LEMMA Patched ==
  ASSUME NEW s \in Seq(Octet), NEW at \in Nat, NEW chunk \in Seq(Octet)
  PROVE  /\ D!Patch(s, at, chunk) \in Seq(Octet) /\ Len(D!Patch(s, at, chunk)) = Len(s)
         /\ \A i \in 1 .. Len(s) :
              D!Patch(s, at, chunk)[i] =
                IF i \in at + 1 .. at + Len(chunk) THEN chunk[i - at] ELSE s[i]
<1>. DEFINE p == D!Patch(s, at, chunk)
            N == Len(s)
            E(i) == IF i \in at + 1 .. at + Len(chunk) THEN chunk[i - at] ELSE s[i]
<1>1. N \in Nat /\ DOMAIN s = 1 .. N /\ Len(chunk) \in Nat
  BY LenProperties
<1>2. ASSUME NEW i \in 1 .. N
      PROVE  E(i) \in Octet
  <2>1. CASE i \in at + 1 .. at + Len(chunk)
    <3>1. i - at \in 1 .. Len(chunk)
      BY <1>1, <2>1
    <3>2. chunk[i - at] \in Octet
      BY <3>1, ElementOfSeq
    <3>. QED BY <2>1, <3>2
  <2>2. CASE i \notin at + 1 .. at + Len(chunk)
    <3>1. s[i] \in Octet
      BY ElementOfSeq
    <3>. QED BY <2>2, <3>1
  <2>. QED BY <2>1, <2>2
<1>3. p = [i \in 1 .. N |-> E(i)]
  BY <1>1 DEF D!Patch
<1>. HIDE DEF p, E, N
<1>4. p \in [1 .. N -> Octet]
  BY <1>2, <1>3
<1>5. p \in Seq(Octet) /\ Len(p) = N
  BY <1>1, <1>4
<1>6. \A i \in 1 .. N : p[i] = E(i)
  BY <1>3
<1>. QED BY <1>5, <1>6 DEF p, E, N

\* What n octets of a memory that was copied to are.
LEMMA Alike ==
  ASSUME NEW s \in Seq(Octet), NEW t \in Seq(Octet), NEW m \in Nat, NEW n \in Nat, NEW k \in Nat,
         m + n <= Len(s), k + n <= Len(t), \A i \in 1 .. n : s[m + i] = t[k + i]
  PROVE  SubSeq(s, m + 1, m + n) = SubSeq(t, k + 1, k + n)
<1>. DEFINE u == SubSeq(s, m + 1, m + n)
            v == SubSeq(t, k + 1, k + n)
<1>1. u \in Seq(Octet) /\ Len(u) = n /\ \A i \in 1 .. n : u[i] = s[m + i]
  BY Part
<1>2. v \in Seq(Octet) /\ Len(v) = n /\ \A i \in 1 .. n : v[i] = t[k + i]
  BY Part
<1>. HIDE DEF u, v
<1>3. \A i \in 1 .. Len(u) : u[i] = v[i]
  BY <1>1, <1>2
<1>4. u = v
  BY <1>1, <1>2, <1>3, SeqEqual
<1>. QED BY <1>4 DEF u, v

\* byte_buffer_add() puts the octets behind those that there were to read.
LEMMA Adding ==
  ASSUME NEW b \in Buffers, NEW data \in Seq(Octet), NEW r, r = D!Add(b, data)
  PROVE  \/ r.rc = "ENOMEM" /\ r.buf = b
         \/ r.rc = "ok" /\ r.buf \in Buffers /\ UnreadOf(r.buf) = UnreadOf(b) \o data
<1>. DEFINE s == b.data
            o == b.offset
            f == b.used
            l == Len(data)
            N == Len(s)
<1>1. /\ s \in Seq(Octet) /\ N \in Nat /\ N < 4 * PipeSize
      /\ o \in Nat /\ f \in Nat /\ o <= f /\ f <= N /\ l \in Nat
  BY BufferFields, LenProperties
<1>2. CASE D!Size(b) < f + l
  <2>1. r = D!Refuses(b, "ENOMEM")
    BY <1>2 DEF D!Add
  <2>. QED BY <2>1 DEF D!Refuses
<1>3. CASE ~(D!Size(b) < f + l)
  <2>. DEFINE t == D!Patch(s, f, data)
              c == [b EXCEPT !.data = D!Patch(@, b.used, data), !.used = @ + Len(data)]
  <2>1. f + l <= N
    BY <1>1, <1>3 DEF D!Size
  <2>2. r = D!Succeeds(c)
    BY <1>3 DEF D!Add
  <2>3. r.rc = "ok" /\ r.buf = c
    BY <2>2 DEF D!Succeeds
  <2>4. c = [data |-> t, used |-> f + l, offset |-> o]
    <3>1. ASSUME NEW e, NEW x, e = [data |-> e.data, used |-> e.used, offset |-> e.offset]
          PROVE  /\ [e EXCEPT !.data = x] = [data |-> x, used |-> e.used, offset |-> e.offset]
                 /\ [e EXCEPT !.used = x] = [data |-> e.data, used |-> x, offset |-> e.offset]
      BY <3>1
    <3>. DEFINE d == [b EXCEPT !.data = t]
    <3>2. d = [data |-> t, used |-> f, offset |-> o]
      BY <3>1, BufferFields
    <3>3. c = [d EXCEPT !.used = f + l]
      OBVIOUS
    <3>. HIDE DEF d
    <3>4. d = [data |-> d.data, used |-> d.used, offset |-> d.offset]
      BY <3>2
    <3>5. [d EXCEPT !.used = f + l] = [data |-> d.data, used |-> f + l, offset |-> d.offset]
      BY <3>1, <3>4
    <3>6. d.data = t /\ d.offset = o
      BY <3>2
    <3>. QED BY <3>3, <3>5, <3>6
  <2>5. /\ t \in Seq(Octet) /\ Len(t) = N
        /\ \A i \in 1 .. N : t[i] = IF i \in f + 1 .. f + l THEN data[i - f] ELSE s[i]
    BY <1>1, Patched
  <2>6. UnreadOf(b) = SubSeq(s, o + 1, f) /\ Len(UnreadOf(b)) = f - o
    BY UnreadIs
  <2>. HIDE DEF c, t, s, o, f, l, N
  <2>7. c \in Buffers
    <3>1. f + l \in Nat /\ o <= f + l
      BY <1>1
    <3>. QED BY <1>1, <2>1, <2>4, <2>5, <3>1, BufferOf
  <2>8. UnreadOf(c) = SubSeq(t, o + 1, f + l)
    <3>1. c.data = t /\ c.offset = o /\ c.used = f + l
      BY <2>4
    <3>. QED BY <2>7, <3>1, UnreadIs
  <2>9. SubSeq(t, o + 1, f + l) = SubSeq(t, o + 1, f) \o SubSeq(t, f + 1, f + l)
    <3>. DEFINE k == f + l
    <3>1. o + 1 \in 1 .. Len(t) + 1 /\ f \in (o + 1) - 1 .. Len(t) /\ k \in f .. Len(t)
      BY <1>1, <2>1, <2>5
    <3>. HIDE DEF k
    <3>2. SubSeq(t, o + 1, f) \o SubSeq(t, f + 1, k) = SubSeq(t, o + 1, k)
      BY <2>5, <3>1, ConcatAdjacentSubSeq
    <3>. QED BY <3>2 DEF k
  <2>10. SubSeq(t, o + 1, f) = SubSeq(s, o + 1, f)
    <3>. DEFINE n == f - o
    <3>1. n \in Nat /\ o + n = f /\ o + n <= N
      BY <1>1
    <3>2. ASSUME NEW i \in 1 .. n
          PROVE  t[o + i] = s[o + i]
      <4>. DEFINE j == o + i
      <4>1. j \in 1 .. N /\ j \notin f + 1 .. f + l
        BY <1>1, <3>1
      <4>. HIDE DEF j
      <4>2. t[j] = s[j]
        BY <2>5, <4>1
      <4>. QED BY <4>2 DEF j
    <3>. HIDE DEF n
    <3>3. SubSeq(t, o + 1, o + n) = SubSeq(s, o + 1, o + n)
      BY <1>1, <2>5, <3>1, <3>2, Alike DEF N
    <3>. QED BY <3>1, <3>3
  <2>11. SubSeq(t, f + 1, f + l) = data
    <3>1. ASSUME NEW i \in 1 .. l
          PROVE  t[f + i] = data[0 + i]
      <4>. DEFINE j == f + i
      <4>1. j \in 1 .. N /\ j \in f + 1 .. f + l /\ j - f = i /\ 0 + i = i
        BY <1>1, <2>1
      <4>. HIDE DEF j
      <4>2. t[j] = data[j - f]
        BY <2>5, <4>1
      <4>. QED BY <4>1, <4>2 DEF j
    <3>2. f + l <= Len(t) /\ 0 + l <= Len(data) /\ 0 \in Nat
      BY <1>1, <2>1, <2>5 DEF l
    <3>3. SubSeq(t, f + 1, f + l) = SubSeq(data, 0 + 1, 0 + l)
      BY <1>1, <2>5, <3>1, <3>2, Alike
    <3>4. SubSeq(data, 1, Len(data)) = data
      BY SubSeqFull
    <3>5. 0 + 1 = 1 /\ 0 + l = Len(data)
      BY <1>1 DEF l
    <3>. QED BY <3>3, <3>4, <3>5
  <2>12. UnreadOf(c) = UnreadOf(b) \o data
    BY <2>6, <2>8, <2>9, <2>10, <2>11
  <2>. QED BY <2>3, <2>7, <2>12
<1>. QED BY <1>2, <1>3

\* byte_buffer_rewind() moves what there is to read to the front.
LEMMA Rewinding ==
  ASSUME NEW b \in Buffers, NEW r, r = D!Rewind(b)
  PROVE  r.buf \in Buffers /\ UnreadOf(r.buf) = UnreadOf(b)
<1>. DEFINE s == b.data
            o == b.offset
            n == D!Rest(b)
            u == UnreadOf(b)
            t == D!Patch(s, 0, u)
            c == [data |-> t, used |-> n, offset |-> 0]
<1>1. /\ s \in Seq(Octet) /\ Len(s) \in Nat /\ Len(s) < 4 * PipeSize
      /\ o \in Nat /\ o + n <= Len(s)
  BY BufferFields, UnreadIs
<1>2. u \in Seq(Octet) /\ Len(u) = n /\ n \in Nat /\ \A i \in 1 .. n : u[i] = s[o + i]
  BY UnreadIs
<1>3. r.buf = b \/ r.buf = c
  BY DEF D!Rewind, D!Refuses, D!Succeeds, UnreadOf
<1>. HIDE DEF s, o, n, u
<1>4. /\ t \in Seq(Octet) /\ Len(t) = Len(s)
      /\ \A i \in 1 .. Len(s) : t[i] = IF i \in 0 + 1 .. 0 + Len(u) THEN u[i - 0] ELSE s[i]
  <2>1. 0 \in Nat
    OBVIOUS
  <2>. QED BY <1>1, <1>2, <2>1, Patched
<1>. HIDE DEF t
<1>5. c \in Buffers
  <2>1. 0 \in Nat /\ 0 <= n /\ n <= Len(t) /\ Len(t) < 4 * PipeSize
    BY <1>1, <1>2, <1>4
  <2>. QED BY <1>2, <1>4, <2>1, BufferOf
<1>6. UnreadOf(c) = u
  <2>1. c.data = t /\ c.used = n /\ c.offset = 0
    OBVIOUS
  <2>. HIDE DEF c
  <2>2. D!Rest(c) = n
    BY <1>2, <1>5, <2>1, UnreadIs
  <2>3. /\ UnreadOf(c) \in Seq(Octet) /\ Len(UnreadOf(c)) = n
        /\ \A i \in 1 .. n : UnreadOf(c)[i] = t[0 + i]
    BY <1>5, <2>1, <2>2, UnreadIs
  <2>4. ASSUME NEW i \in 1 .. n
        PROVE  UnreadOf(c)[i] = u[i]
    <3>1. 0 + i = i /\ i - 0 = i /\ i \in 1 .. Len(s) /\ i \in 0 + 1 .. 0 + Len(u)
      BY <1>1, <1>2
    <3>. QED BY <1>4, <2>3, <3>1
  <2>. QED BY <1>2, <2>3, <2>4, SeqEqual
<1>. QED BY <1>3, <1>5, <1>6 DEF u

(***************************************************************************)
(* One call of a driver of a pipe.                                         *)
(***************************************************************************)

Failures == [flag : {"none", "until success", "until failure"}, at : Nat, number : {0, EIO}]
Ends    == [error : Failures, accesses : Nat]
Pipes   == [buf : Buffers, chunksize : Nat, read : Ends, write : Ends]
Answers == [rc : Int, octets : Seq(Octet), pipe : Pipes]

\* A read of n octets at most that returned a.
Gives(p, n, a) ==
  /\ a \in Answers
  /\ UnreadOf(p.buf) = a.octets \o UnreadOf(a.pipe.buf)
  /\ a.rc > 0 => a.rc = Len(a.octets) /\ a.rc <= n
  /\ a.rc <= 0 => a.octets = <<>>
  /\ a.rc = ENODATA => UnreadOf(a.pipe.buf) = <<>>

\* A write of data that returned a.
Takes(p, data, a) ==
  /\ a \in Answers
  /\ a.rc <= Len(data)
  /\ a.octets = SubSeq(data, 1, a.rc)
  /\ UnreadOf(a.pipe.buf) = UnreadOf(p.buf) \o a.octets

LEMMA UnreadType == ASSUME NEW b \in Buffers PROVE UnreadOf(b) \in Seq(Octet)
BY UnreadIs

LEMMA Codes ==
  /\ EIO \in Int /\ EIO < 0 /\ EIO # ENODATA
  /\ EAGAIN \in Int /\ EAGAIN < 0 /\ EAGAIN # ENODATA
  /\ ENOMEM \in Int /\ ENOMEM < 0 /\ ENOMEM # ENODATA
  /\ ENODATA \in Int /\ ENODATA < 0
  /\ Code("ENODATA") = ENODATA /\ Code("ENOMEM") = ENOMEM
BY DEF EIO, EAGAIN, ENOMEM, ENODATA, Code

LEMMA PipeFields ==
  ASSUME NEW p \in Pipes
  PROVE  /\ p.buf \in Buffers /\ p.chunksize \in Nat /\ p.read \in Ends /\ p.write \in Ends
         /\ p.read.error \in Failures /\ p.write.error \in Failures
         /\ p.read.error.number \in {0, EIO} /\ p.write.error.number \in {0, EIO}
         /\ p.read.accesses \in Nat /\ p.write.accesses \in Nat
<1>1. p.buf \in Buffers /\ p.chunksize \in Nat /\ p.read \in Ends /\ p.write \in Ends
  BY DEF Pipes
<1>. QED BY <1>1 DEF Ends, Failures

LEMMA WithBuffer ==
  ASSUME NEW p \in Pipes, NEW b \in Buffers
  PROVE  [p EXCEPT !.buf = b] \in Pipes /\ [p EXCEPT !.buf = b].buf = b
BY DEF Pipes

LEMMA AnswerIs ==
  ASSUME NEW rc \in Int, NEW octets \in Seq(Octet), NEW p \in Pipes
  PROVE  /\ Answer(rc, octets, p) \in Answers
         /\ Answer(rc, octets, p).rc = rc
         /\ Answer(rc, octets, p).octets = octets
         /\ Answer(rc, octets, p).pipe = p
BY DEF Answer, Answers

LEMMA AnswerFields ==
  ASSUME NEW a \in Answers
  PROVE  /\ a.rc \in Int /\ a.octets \in Seq(Octet) /\ a.pipe \in Pipes /\ a.pipe.buf \in Buffers
         /\ a = Answer(a.rc, a.octets, a.pipe) /\ Len(a.octets) \in Nat
         /\ UnreadOf(a.pipe.buf) \in Seq(Octet)
<1>1. a.rc \in Int /\ a.octets \in Seq(Octet) /\ a.pipe \in Pipes
  BY DEF Answers
<1>2. a = [rc |-> a.rc, octets |-> a.octets, pipe |-> a.pipe]
  BY DEF Answers
<1>3. a.pipe.buf \in Buffers
  BY <1>1, PipeFields
<1>4. Len(a.octets) \in Nat
  BY <1>1, LenProperties
<1>. QED BY <1>1, <1>2, <1>3, <1>4, UnreadType DEF Answer

LEMMA Recounted ==
  ASSUME NEW p \in Pipes, NEW q, q = CountRead(p) \/ q = CountWrite(p)
  PROVE  q \in Pipes /\ q.buf = p.buf
<1>1. \A end \in Ends : [end EXCEPT !.accesses = @ + 1] \in Ends
  BY DEF Ends
<1>2. CASE q = CountRead(p)
  <2>. DEFINE e == [p.read EXCEPT !.accesses = @ + 1]
  <2>1. q = [p EXCEPT !.read = e]
    BY <1>2 DEF CountRead
  <2>2. e \in Ends
    BY <1>1, PipeFields
  <2>. HIDE DEF e
  <2>. QED BY <2>1, <2>2 DEF Pipes
<1>3. CASE q = CountWrite(p)
  <2>. DEFINE e == [p.write EXCEPT !.accesses = @ + 1]
  <2>1. q = [p EXCEPT !.write = e]
    BY <1>3 DEF CountWrite
  <2>2. e \in Ends
    BY <1>1, PipeFields
  <2>. HIDE DEF e
  <2>. QED BY <2>1, <2>2 DEF Pipes
<1>. QED BY <1>2, <1>3

LEMMA NothingFirst ==
  ASSUME NEW s \in Seq(Octet)
  PROVE  <<>> \in Seq(Octet) /\ <<>> \o s = s /\ s \o <<>> = s
BY ConcatEmptySeq, EmptySeq

\* A call that fails: with ENODATA, only if there is nothing to read.
LEMMA FailedRead ==
  ASSUME NEW p \in Pipes, NEW q \in Pipes, q.buf = p.buf, NEW n \in Nat, NEW rc \in Int, rc <= 0,
         rc = ENODATA => UnreadOf(p.buf) = <<>>
  PROVE  Gives(p, n, Answer(rc, <<>>, q))
<1>. DEFINE a == Answer(rc, <<>>, q)
            u == UnreadOf(p.buf)
<1>1. u \in Seq(Octet)
  BY PipeFields, UnreadType
<1>2. <<>> \in Seq(Octet) /\ u = <<>> \o u
  BY <1>1, NothingFirst
<1>3. a \in Answers /\ a.rc = rc /\ a.octets = <<>> /\ a.pipe = q
  <2>1. ASSUME NEW none, none \in Seq(Octet)
        PROVE  /\ Answer(rc, none, q) \in Answers /\ Answer(rc, none, q).rc = rc
               /\ Answer(rc, none, q).octets = none /\ Answer(rc, none, q).pipe = q
    BY <2>1, AnswerIs
  <2>. QED BY <1>2, <2>1, Zenon
<1>4. a.rc = rc /\ ~(rc > 0)
  BY <1>3
<1>. HIDE DEF a
<1>5. UnreadOf(a.pipe.buf) = u
  BY <1>3
<1>6. Gives(p, n, a)
  BY <1>2, <1>3, <1>4, <1>5 DEF Gives
<1>. QED BY <1>6 DEF a

LEMMA FailedWrite ==
  ASSUME NEW p \in Pipes, NEW q \in Pipes, q.buf = p.buf, NEW data \in Seq(Octet),
         NEW rc \in Int, rc <= 0
  PROVE  Takes(p, data, Answer(rc, <<>>, q))
<1>. DEFINE a == Answer(rc, <<>>, q)
            u == UnreadOf(p.buf)
<1>1. u \in Seq(Octet) /\ Len(data) \in Nat
  BY PipeFields, UnreadType, LenProperties
<1>2. <<>> \in Seq(Octet) /\ u = u \o <<>>
  BY <1>1, NothingFirst
<1>3. a \in Answers /\ a.rc = rc /\ a.octets = <<>> /\ a.pipe = q
  <2>1. ASSUME NEW none, none \in Seq(Octet)
        PROVE  /\ Answer(rc, none, q) \in Answers /\ Answer(rc, none, q).rc = rc
               /\ Answer(rc, none, q).octets = none /\ Answer(rc, none, q).pipe = q
    BY <2>1, AnswerIs
  <2>. QED BY <1>2, <2>1, Zenon
<1>. HIDE DEF a
<1>4. UnreadOf(a.pipe.buf) = u
  BY <1>3
<1>5. rc <= Len(data) /\ 1 \in Int /\ rc < 1
  BY <1>1
<1>6. SubSeq(data, 1, rc) = <<>>
  BY <1>5, SubSeqEmpty
<1>7. Takes(p, data, a)
  BY <1>2, <1>3, <1>4, <1>5, <1>6 DEF Takes
<1>. QED BY <1>7 DEF a

\* The driver of byte buffers.
LEMMA ReadBufferGives ==
  ASSUME NEW p \in Pipes, NEW q \in Pipes, q.buf = p.buf, NEW n \in Nat
  PROVE  Gives(p, n, ReadBuffer(q, n))
<1>. DEFINE r == D!ConsumeAtMost(q.buf, n)
            a == ReadBuffer(q, n)
            b == p.buf
<1>1. b \in Buffers
  BY PipeFields
<1>2. r = D!ConsumeAtMost(b, n)
  OBVIOUS
<1>3. a = IF r.rc = "ok" THEN Answer(Len(r.out), r.out, [q EXCEPT !.buf = r.buf])
          ELSE Answer(Code(r.rc), <<>>, q)
  BY DEF ReadBuffer
<1>. HIDE DEF r, a
<1>4. CASE r.rc = "ENODATA" /\ D!Rest(b) = 0 /\ UnreadOf(b) = <<>>
  <2>1. a = Answer(ENODATA, <<>>, q)
    BY <1>3, <1>4, Codes
  <2>2. ENODATA \in Int /\ ENODATA <= 0
    BY Codes
  <2>. QED BY <1>4, <2>1, <2>2, FailedRead DEF a
<1>5. CASE /\ r.rc = "ok" /\ r.buf \in Buffers
           /\ r.out \in Seq(Octet) /\ Len(r.out) \in Nat /\ Len(r.out) <= n
           /\ UnreadOf(b) = r.out \o UnreadOf(r.buf)
  <2>. DEFINE o == r.out
              l == Len(o)
              c == [q EXCEPT !.buf = r.buf]
  <2>0. o \in Seq(Octet) /\ l \in Nat /\ l <= n
    BY <1>5
  <2>1. a = Answer(l, o, c)
    BY <1>3, <1>5
  <2>2. c \in Pipes /\ c.buf = r.buf
    BY <1>5, WithBuffer
  <2>. HIDE DEF c, o, l
  <2>3. l \in Int
    BY <2>0
  <2>4. a \in Answers /\ a.rc = l /\ a.octets = o /\ a.pipe = c
    BY <2>0, <2>1, <2>2, <2>3, AnswerIs
  <2>5. UnreadOf(b) = a.octets \o UnreadOf(a.pipe.buf)
    BY <1>5, <2>2, <2>4 DEF o
  <2>6. l <= 0 => o = <<>>
    BY <2>0, EmptySeq DEF l
  <2>7. a.rc = Len(a.octets)
    BY <2>4 DEF l
  <2>8. l # ENODATA
    BY <2>0, Codes
  <2>9. Gives(p, n, a)
    BY <2>0, <2>4, <2>5, <2>6, <2>7, <2>8 DEF Gives
  <2>. QED BY <2>9 DEF a
<1>6. \/ r.rc = "ENODATA" /\ D!Rest(b) = 0 /\ UnreadOf(b) = <<>>
      \/ /\ r.rc = "ok" /\ r.buf \in Buffers
         /\ r.out \in Seq(Octet) /\ Len(r.out) \in Nat /\ Len(r.out) <= n
         /\ UnreadOf(b) = r.out \o UnreadOf(r.buf)
  BY <1>1, <1>2, Consuming, Zenon
<1>. QED BY <1>4, <1>5, <1>6, Zenon

LEMMA WriteBufferTakes ==
  ASSUME NEW p \in Pipes, NEW q \in Pipes, q.buf = p.buf, NEW data \in Seq(Octet)
  PROVE  Takes(p, data, WriteBuffer(q, data))
<1>. DEFINE r == D!Add(q.buf, data)
            a == WriteBuffer(q, data)
            b == p.buf
            l == Len(data)
<1>1. b \in Buffers /\ l \in Nat /\ l \in Int
  BY PipeFields, LenProperties
<1>2. r = D!Add(b, data)
  OBVIOUS
<1>3. a = IF r.rc = "ok" THEN Answer(l, data, [q EXCEPT !.buf = r.buf])
          ELSE Answer(Code(r.rc), <<>>, q)
  BY DEF WriteBuffer
<1>. HIDE DEF r, a
<1>4. CASE r.rc = "ENOMEM"
  <2>1. a = Answer(ENOMEM, <<>>, q)
    BY <1>3, <1>4, Codes
  <2>2. ENOMEM \in Int /\ ENOMEM <= 0
    BY Codes
  <2>. QED BY <2>1, <2>2, FailedWrite DEF a
<1>5. CASE r.rc = "ok" /\ r.buf \in Buffers /\ UnreadOf(r.buf) = UnreadOf(b) \o data
  <2>. DEFINE c == [q EXCEPT !.buf = r.buf]
  <2>1. a = Answer(l, data, c)
    BY <1>3, <1>5
  <2>2. c \in Pipes /\ c.buf = r.buf
    BY <1>5, WithBuffer
  <2>. HIDE DEF c
  <2>3. SubSeq(data, 1, l) = data
    BY SubSeqFull
  <2>. HIDE DEF l
  <2>4. a \in Answers /\ a.rc = l /\ a.octets = data /\ a.pipe = c
    BY <1>1, <2>1, <2>2, AnswerIs
  <2>5. UnreadOf(a.pipe.buf) = UnreadOf(b) \o a.octets
    BY <1>5, <2>2, <2>4
  <2>6. a.rc <= Len(data)
    BY <1>1, <2>4 DEF l
  <2>7. Takes(p, data, a)
    BY <2>3, <2>4, <2>5, <2>6 DEF Takes
  <2>. QED BY <2>7 DEF a
<1>. QED BY <1>1, <1>2, <1>4, <1>5, Adding

\* The drivers of instrumentable buffers, which fail when they are told to.
LEMMA ReadOctetGives ==
  ASSUME NEW p \in Pipes
  PROVE  Gives(p, 1, ReadOctet(p))
<1>. DEFINE q == CountRead(p)
            e == p.read.error.number
<1>1. q \in Pipes /\ q.buf = p.buf
  BY Recounted
<1>2. e \in Int /\ e <= 0 /\ e # ENODATA
  BY PipeFields, Codes DEF ENODATA
<1>3. ReadOctet(p) = Answer(e, <<>>, q) \/ ReadOctet(p) = ReadBuffer(q, 1)
  BY DEF ReadOctet
<1>. HIDE DEF q, e
<1>4. Gives(p, 1, Answer(e, <<>>, q))
  BY <1>1, <1>2, FailedRead
<1>5. Gives(p, 1, ReadBuffer(q, 1))
  BY <1>1, ReadBufferGives
<1>. QED BY <1>3, <1>4, <1>5

LEMMA ReadBlockGives ==
  ASSUME NEW p \in Pipes, NEW n \in Nat
  PROVE  Gives(p, n, ReadBlock(p, n))
<1>. DEFINE q == CountRead(p)
            e == p.read.error.number
            m == Smaller(n, p.chunksize)
            a == ReadBuffer(q, m)
<1>1. q \in Pipes /\ q.buf = p.buf
  BY Recounted
<1>2. e \in Int /\ e <= 0 /\ e # ENODATA
  BY PipeFields, Codes DEF ENODATA
<1>3. m \in Nat /\ m <= n
  BY PipeFields DEF Smaller
<1>4. ReadBlock(p, n) = Answer(e, <<>>, q) \/ ReadBlock(p, n) = a
  BY DEF ReadBlock
<1>. HIDE DEF q, e, m, a
<1>5. Gives(p, n, Answer(e, <<>>, q))
  BY <1>1, <1>2, FailedRead
<1>6. Gives(p, m, a)
  BY <1>1, <1>3, ReadBufferGives DEF a
<1>7. Gives(p, n, a)
  <2>1. a.rc \in Int
    BY <1>6, AnswerFields DEF Gives
  <2>2. a.rc <= m => a.rc <= n
    BY <1>3, <2>1
  <2>. QED BY <1>6, <2>2 DEF Gives
<1>. QED BY <1>4, <1>5, <1>7

LEMMA WriteOctetTakes ==
  ASSUME NEW p \in Pipes, NEW data \in Seq(Octet)
  PROVE  Takes(p, data, WriteOctet(p, data))
<1>. DEFINE q == CountWrite(p)
            e == p.write.error.number
<1>1. q \in Pipes /\ q.buf = p.buf
  BY Recounted
<1>2. e \in Int /\ e <= 0
  BY PipeFields, Codes
<1>3. WriteOctet(p, data) = Answer(e, <<>>, q) \/ WriteOctet(p, data) = WriteBuffer(q, data)
  BY DEF WriteOctet
<1>. HIDE DEF q, e
<1>. QED BY <1>1, <1>2, <1>3, FailedWrite, WriteBufferTakes

LEMMA WriteBlockTakes ==
  ASSUME NEW p \in Pipes, NEW data \in Seq(Octet)
  PROVE  Takes(p, data, WriteBlock(p, data))
<1>. DEFINE q == CountWrite(p)
            e == p.write.error.number
            m == Smaller(Len(data), p.chunksize)
            d == SubSeq(data, 1, m)
            a == WriteBuffer(q, d)
<1>1. q \in Pipes /\ q.buf = p.buf
  BY Recounted
<1>2. e \in Int /\ e <= 0
  BY PipeFields, Codes
<1>3. m \in Nat /\ m <= Len(data) /\ Len(data) \in Nat
  BY PipeFields, LenProperties DEF Smaller
<1>4. WriteBlock(p, data) = Answer(e, <<>>, q) \/ WriteBlock(p, data) = a
  BY DEF WriteBlock
<1>. HIDE DEF q, e, m, a
<1>5. Takes(p, data, Answer(e, <<>>, q))
  BY <1>1, <1>2, FailedWrite
<1>6. d \in Seq(Octet) /\ Len(d) = m
  <2>1. 0 \in Nat /\ 0 + m <= Len(data) /\ 0 + 1 = 1 /\ 0 + m = m
    BY <1>3
  <2>2. SubSeq(data, 0 + 1, 0 + m) \in Seq(Octet) /\ Len(SubSeq(data, 0 + 1, 0 + m)) = m
    BY <1>3, <2>1, Part
  <2>. QED BY <2>1, <2>2
<1>7. Takes(p, d, a)
  BY <1>1, <1>6, WriteBufferTakes DEF a
<1>8. Takes(p, data, a)
  <2>1. a \in Answers /\ a.rc \in Int /\ a.rc <= m /\ a.octets = SubSeq(d, 1, a.rc)
    BY <1>6, <1>7, AnswerFields DEF Takes
  <2>2. SubSeq(d, 1, a.rc) = SubSeq(data, 1, a.rc)
    <3>. DEFINE k == a.rc
    <3>0. k \in Int /\ k <= m
      BY <2>1
    <3>. HIDE DEF k
    <3>1. CASE k < 1
      <4>1. SubSeq(d, 1, k) = <<>> /\ SubSeq(data, 1, k) = <<>>
        BY <3>0, <3>1, SubSeqEmpty
      <4>. QED BY <4>1 DEF k
    <3>2. CASE ~(k < 1)
      <4>1. /\ 1 \in 1 .. Len(data) /\ m \in 1 .. Len(data)
            /\ 1 \in 1 .. m - 1 + 1 /\ k \in 1 .. m - 1 + 1 /\ 1 + 1 - 1 = 1 /\ 1 + k - 1 = k
        BY <1>3, <3>0, <3>2
      <4>2. SubSeq(SubSeq(data, 1, m), 1, k) = SubSeq(data, 1 + 1 - 1, 1 + k - 1)
        BY <4>1, SubSeqOfSubSeq
      <4>3. SubSeq(SubSeq(data, 1, m), 1, k) = SubSeq(data, 1, k)
        BY <4>1, <4>2
      <4>. QED BY <4>3 DEF k
    <3>. QED BY <3>1, <3>2
  <2>3. a.rc <= Len(data)
    BY <1>3, <2>1
  <2>. QED BY <1>7, <2>1, <2>2, <2>3 DEF Takes
<1>. QED BY <1>4, <1>5, <1>8

(***************************************************************************)
(* Calls of a driver for octets until one transfers nothing.               *)
(***************************************************************************)

MoreRead(a)           == IF a.rc > 0 THEN Behind(a, ReadOctet(a.pipe)) ELSE a
MoreWritten(a, datum) == IF a.rc > 0 THEN Behind(a, WriteOctet(a.pipe, <<datum>>)) ELSE a

\* What k calls have read, and what k calls have written.
HasRead(p, k, a) ==
  /\ a \in Answers /\ Len(a.octets) <= k
  /\ UnreadOf(p.buf) = a.octets \o UnreadOf(a.pipe.buf)
  /\ a.rc = ENODATA => UnreadOf(a.pipe.buf) = <<>>
  /\ (a.rc > 0 /\ k > 0) => a.octets # <<>>

HasWritten(p, data, k, a) ==
  /\ a \in Answers /\ Len(a.octets) <= k
  /\ a.octets = SubSeq(data, 1, Len(a.octets))
  /\ a.rc > 0 => Len(a.octets) = k
  /\ UnreadOf(a.pipe.buf) = UnreadOf(p.buf) \o a.octets

LEMMA BehindIs ==
  ASSUME NEW a \in Answers, NEW r \in Answers
  PROVE  /\ Behind(a, r) \in Answers
         /\ Behind(a, r).rc = r.rc /\ Behind(a, r).pipe = r.pipe
         /\ Behind(a, r).octets = a.octets \o r.octets
         /\ Len(a.octets \o r.octets) = Len(a.octets) + Len(r.octets)
<1>. DEFINE o == a.octets \o r.octets
<1>1. o \in Seq(Octet) /\ Len(o) = Len(a.octets) + Len(r.octets)
  BY AnswerFields, ConcatProperties
<1>2. Behind(a, r) = [r EXCEPT !.octets = o]
  BY DEF Behind
<1>. HIDE DEF o
<1>3. Behind(a, r) \in Answers /\ Behind(a, r).rc = r.rc /\ Behind(a, r).pipe = r.pipe
      /\ Behind(a, r).octets = o
  BY <1>1, <1>2 DEF Answers
<1>. QED BY <1>1, <1>3 DEF o

LEMMA AdaptedIs ==
  ASSUME NEW a \in Answers
  PROVE  /\ Adapted(a) \in Answers
         /\ Adapted(a).octets = a.octets /\ Adapted(a).pipe = a.pipe
         /\ a.octets # <<>> => Adapted(a).rc = Len(a.octets) /\ Len(a.octets) > 0
         /\ a.octets = <<>> => Adapted(a).rc = IF a.rc = 0 THEN EAGAIN ELSE a.rc
<1>. DEFINE l == Len(a.octets)
<1>1. l \in Nat /\ l \in Int /\ EAGAIN \in Int
  BY AnswerFields, Codes
<1>2. a.octets # <<>> => l > 0
  BY AnswerFields, EmptySeq
<1>3. \A x \in Int : /\ [a EXCEPT !.rc = x] \in Answers /\ [a EXCEPT !.rc = x].rc = x
                     /\ [a EXCEPT !.rc = x].octets = a.octets /\ [a EXCEPT !.rc = x].pipe = a.pipe
  BY DEF Answers
<1>4. Adapted(a) = IF a.octets # <<>> THEN [a EXCEPT !.rc = l]
                   ELSE IF a.rc = 0 THEN [a EXCEPT !.rc = EAGAIN] ELSE a
  BY DEF Adapted
<1>. HIDE DEF l
<1>5. CASE a.octets # <<>>
  <2>1. Adapted(a) = [a EXCEPT !.rc = l]
    BY <1>4, <1>5
  <2>. QED BY <1>1, <1>2, <1>3, <1>5, <2>1 DEF l
<1>6. CASE a.octets = <<>> /\ a.rc = 0
  <2>1. Adapted(a) = [a EXCEPT !.rc = EAGAIN]
    BY <1>4, <1>6
  <2>. QED BY <1>1, <1>3, <1>6, <2>1
<1>7. CASE a.octets = <<>> /\ a.rc # 0
  BY <1>4, <1>7
<1>. QED BY <1>5, <1>6, <1>7

LEMMA ReadsOneMore ==
  ASSUME NEW p \in Pipes, NEW k \in Nat, NEW a, HasRead(p, k, a)
  PROVE  HasRead(p, k + 1, MoreRead(a))
<1>0. a \in Answers /\ Len(a.octets) \in Nat /\ Len(a.octets) <= k /\ a.rc \in Int
  BY AnswerFields DEF HasRead
<1>1. CASE ~(a.rc > 0)
  <2>1. MoreRead(a) = a
    BY <1>1 DEF MoreRead
  <2>2. Len(a.octets) <= k + 1
    BY <1>0
  <2>. QED BY <1>1, <2>1, <2>2 DEF HasRead
<1>2. CASE a.rc > 0
  <2>. DEFINE r == ReadOctet(a.pipe)
              b == Behind(a, r)
              x == a.octets
              y == r.octets
              z == UnreadOf(r.pipe.buf)
  <2>1. Gives(a.pipe, 1, r)
    BY <1>0, AnswerFields, ReadOctetGives
  <2>. HIDE DEF r
  <2>2. r \in Answers /\ y \in Seq(Octet) /\ z \in Seq(Octet) /\ x \in Seq(Octet) /\ Len(y) \in Nat
        /\ r.rc \in Int
    BY <1>0, <2>1, AnswerFields DEF Gives
  <2>3. b \in Answers /\ b.rc = r.rc /\ b.pipe = r.pipe /\ b.octets = x \o y
        /\ Len(x \o y) = Len(x) + Len(y)
    BY <1>0, <2>2, BehindIs
  <2>4. UnreadOf(a.pipe.buf) = y \o z /\ UnreadOf(p.buf) = x \o UnreadOf(a.pipe.buf)
    BY <2>1 DEF Gives, HasRead
  <2>5. /\ r.rc > 0 => r.rc = Len(y) /\ r.rc <= 1
        /\ r.rc <= 0 => y = <<>>
        /\ r.rc = ENODATA => z = <<>>
    BY <2>1 DEF Gives
  <2>6. MoreRead(a) = b
    BY <1>2 DEF MoreRead, r
  <2>. HIDE DEF b, x, y, z
  <2>7. x \o (y \o z) = (x \o y) \o z
    <3>1. x \in Seq(Octet) /\ y \in Seq(Octet) /\ z \in Seq(Octet)
      BY <2>2
    <3>. QED BY <3>1, ConcatAssociative, SMTT(30)
  <2>8. Len(y) <= 1
    <3>1. y = <<>> => Len(y) = 0
      BY EmptySeq
    <3>. QED BY <2>2, <2>5, <3>1
  <2>9. UnreadOf(p.buf) = b.octets \o UnreadOf(b.pipe.buf)
    BY <2>3, <2>4, <2>7 DEF z
  <2>10. b.rc = ENODATA => UnreadOf(b.pipe.buf) = <<>>
    BY <2>3, <2>5 DEF z
  <2>11. Len(b.octets) <= k + 1
    BY <1>0, <2>2, <2>3, <2>8 DEF x
  <2>12. b.rc > 0 => b.octets # <<>>
    <3>1. b.rc > 0 => Len(b.octets) > 0
      BY <1>0, <2>2, <2>3, <2>5 DEF x
    <3>2. b.octets = <<>> => Len(b.octets) = 0
      BY EmptySeq
    <3>. QED BY <3>1, <3>2
  <2>13. HasRead(p, k + 1, b)
    BY <2>3, <2>9, <2>10, <2>11, <2>12 DEF HasRead
  <2>. QED BY <2>6, <2>13
<1>. QED BY <1>1, <1>2

LEMMA WritesOneMore ==
  ASSUME NEW p \in Pipes, NEW data \in Seq(Octet), NEW k \in Nat, k + 1 <= Len(data),
         NEW a, HasWritten(p, data, k, a)
  PROVE  HasWritten(p, data, k + 1, MoreWritten(a, data[k + 1]))
<1>0. a \in Answers /\ Len(a.octets) \in Nat /\ Len(a.octets) <= k /\ a.rc \in Int
  BY AnswerFields DEF HasWritten
<1>1. CASE ~(a.rc > 0)
  <2>1. MoreWritten(a, data[k + 1]) = a
    BY <1>1 DEF MoreWritten
  <2>2. Len(a.octets) <= k + 1
    BY <1>0
  <2>. QED BY <1>1, <2>1, <2>2 DEF HasWritten
<1>2. CASE a.rc > 0
  <2>. DEFINE d == <<data[k + 1]>>
              r == WriteOctet(a.pipe, d)
              b == Behind(a, r)
              x == a.octets
              y == r.octets
              u == UnreadOf(p.buf)
  <2>0. d \in Seq(Octet) /\ Len(d) = 1
    <3>1. k + 1 \in 1 .. Len(data)
      BY LenProperties
    <3>2. data[k + 1] \in Octet
      BY <3>1, ElementOfSeq
    <3>. QED BY <3>2
  <2>1. Takes(a.pipe, d, r)
    <3>. HIDE DEF d
    <3>. QED BY <1>0, <2>0, AnswerFields, WriteOctetTakes
  <2>. HIDE DEF r
  <2>2. r \in Answers /\ y \in Seq(Octet) /\ x \in Seq(Octet) /\ u \in Seq(Octet)
        /\ Len(y) \in Nat /\ r.rc \in Int
    BY <1>0, <2>1, AnswerFields, PipeFields, UnreadType DEF Takes
  <2>3. b \in Answers /\ b.rc = r.rc /\ b.pipe = r.pipe /\ b.octets = x \o y
        /\ Len(x \o y) = Len(x) + Len(y)
    BY <1>0, <2>2, BehindIs
  <2>4. UnreadOf(r.pipe.buf) = UnreadOf(a.pipe.buf) \o y /\ UnreadOf(a.pipe.buf) = u \o x
    BY <2>1 DEF Takes, HasWritten
  <2>5. r.rc <= 1 /\ y = SubSeq(d, 1, r.rc)
    BY <2>0, <2>1 DEF Takes
  <2>6. MoreWritten(a, data[k + 1]) = b
    BY <1>2 DEF MoreWritten, r
  <2>7. x = SubSeq(data, 1, k) /\ Len(x) = k
    BY <1>2 DEF HasWritten
  <2>. HIDE DEF b, x, y, u
  <2>8. UnreadOf(b.pipe.buf) = u \o (x \o y)
    <3>0. u \in Seq(Octet) /\ x \in Seq(Octet) /\ y \in Seq(Octet)
      BY <2>2
    <3>. HIDE DEF d
    <3>1. (u \o x) \o y = u \o (x \o y)
      BY <3>0, ConcatAssociative, SMTT(30)
    <3>. QED BY <2>3, <2>4, <3>1
  <2>9. CASE r.rc > 0
    <3>1. r.rc = 1
      BY <2>2, <2>5, <2>9
    <3>2. y = d
      <4>. HIDE DEF d
      <4>1. SubSeq(d, 1, Len(d)) = d
        BY <2>0, SubSeqFull
      <4>. QED BY <2>0, <2>5, <3>1, <4>1
    <3>3. x \o d = SubSeq(data, 1, k + 1)
      <4>. DEFINE m == k + 1
      <4>1. m \in 1 .. Len(data) /\ 1 \in 1 .. Len(data) /\ m - 1 = k
        BY LenProperties
      <4>. HIDE DEF m
      <4>2. SubSeq(data, 1, m) = SubSeq(data, 1, m - 1) \o <<data[m]>>
        BY <4>1, SubSeqRecursiveSecond
      <4>. QED BY <2>7, <4>1, <4>2 DEF m
    <3>4. Len(b.octets) = k + 1 /\ b.octets = SubSeq(data, 1, k + 1)
      <4>1. Len(x \o y) = k + 1
        <5>. HIDE DEF d
        <5>. QED BY <2>0, <2>3, <2>7, <3>2
      <4>. QED BY <2>3, <3>2, <3>3, <4>1
    <3>5. Len(b.octets) <= k + 1
      BY <3>4
    <3>6. HasWritten(p, data, k + 1, b)
      <4>1. UnreadOf(b.pipe.buf) = UnreadOf(p.buf) \o b.octets
        BY <2>3, <2>8 DEF u
      <4>. QED BY <2>3, <3>4, <3>5, <4>1 DEF HasWritten
    <3>. QED BY <2>6, <3>6
  <2>10. CASE ~(r.rc > 0)
    <3>1. y = <<>>
      <4>. DEFINE c == r.rc
      <4>1. 1 \in Int /\ c \in Int /\ c < 1
        BY <2>2, <2>10
      <4>. HIDE DEF c
      <4>2. SubSeq(d, 1, c) = <<>>
        BY <4>1, SubSeqEmpty
      <4>. QED BY <2>5, <4>2 DEF c
    <3>2. x \o <<>> = x
      BY <2>2, NothingFirst
    <3>3. b.octets = x
      BY <2>3, <3>1, <3>2
    <3>4. Len(b.octets) <= k + 1 /\ b.octets = SubSeq(data, 1, Len(b.octets))
      BY <2>7, <3>3
    <3>5. ~(b.rc > 0)
      BY <2>3, <2>10
    <3>6. UnreadOf(b.pipe.buf) = UnreadOf(p.buf) \o b.octets
      BY <2>3, <2>8 DEF u
    <3>7. HasWritten(p, data, k + 1, b)
      BY <2>3, <3>4, <3>5, <3>6 DEF HasWritten
    <3>. QED BY <2>6, <3>7
  <2>. QED BY <2>9, <2>10
<1>. QED BY <1>1, <1>2

MoreTypes(a, datum) == MoreRead(a) \in Answers /\ MoreWritten(a, datum) \in Answers

LEMMA MoreType ==
  ASSUME NEW a \in Answers, NEW datum \in Octet
  PROVE  MoreTypes(a, datum)
<1>1. a.pipe \in Pipes
  BY AnswerFields
<1>2. ReadOctet(a.pipe) \in Answers
  BY <1>1, ReadOctetGives DEF Gives
<1>3. WriteOctet(a.pipe, <<datum>>) \in Answers
  <2>1. <<datum>> \in Seq(Octet)
    OBVIOUS
  <2>. QED BY <1>1, <2>1, WriteOctetTakes DEF Takes
<1>4. Behind(a, ReadOctet(a.pipe)) \in Answers
  BY <1>2, BehindIs
<1>5. Behind(a, WriteOctet(a.pipe, <<datum>>)) \in Answers
  BY <1>3, BehindIs
<1>. QED BY <1>4, <1>5 DEF MoreTypes, MoreRead, MoreWritten

ReadCalls(f, p, n) ==
  f = [k \in 0 .. n |-> IF k = 0 THEN Answer(1, <<>>, p) ELSE MoreRead(f[k - 1])]

WriteCalls(f, p, data) ==
  f = [k \in 0 .. Len(data) |->
         IF k = 0 THEN Answer(1, <<>>, p) ELSE MoreWritten(f[k - 1], data[k])]

LEMMA FirstCall ==
  ASSUME NEW p \in Pipes
  PROVE  /\ Answer(1, <<>>, p) \in Answers
         /\ HasRead(p, 0, Answer(1, <<>>, p))
         /\ \A data \in Seq(Octet) : HasWritten(p, data, 0, Answer(1, <<>>, p))
<1>. DEFINE a == Answer(1, <<>>, p)
            u == UnreadOf(p.buf)
<1>1. u \in Seq(Octet)
  BY PipeFields, UnreadType
<1>2. <<>> \in Seq(Octet) /\ <<>> \o u = u /\ u \o <<>> = u /\ Len(<<>>) = 0
  BY <1>1, NothingFirst, EmptySeq
<1>3. a \in Answers /\ a.rc = 1 /\ a.octets = <<>> /\ a.pipe = p
  <2>1. ASSUME NEW none, none \in Seq(Octet)
        PROVE  /\ Answer(1, none, p) \in Answers /\ Answer(1, none, p).rc = 1
               /\ Answer(1, none, p).octets = none /\ Answer(1, none, p).pipe = p
    BY <2>1, AnswerIs
  <2>. QED BY <1>2, <2>1, Zenon
<1>4. a.rc # ENODATA /\ Len(a.octets) <= 0 /\ Len(a.octets) = 0
  <2>. HIDE DEF a
  <2>. QED BY <1>2, <1>3, Codes
<1>5. ASSUME NEW data \in Seq(Octet)
      PROVE  a.octets = SubSeq(data, 1, Len(a.octets))
  <2>1. 1 \in Int /\ 0 \in Int /\ 0 < 1
    OBVIOUS
  <2>2. SubSeq(data, 1, 0) = <<>>
    BY <2>1, SubSeqEmpty
  <2>. QED BY <1>3, <1>4, <2>2
<1>. HIDE DEF a
<1>6. UnreadOf(a.pipe.buf) = u /\ a.octets \o u = u /\ u \o a.octets = u
  BY <1>2, <1>3
<1>7. HasRead(p, 0, a)
  BY <1>3, <1>4, <1>6 DEF HasRead
<1>8. ASSUME NEW data \in Seq(Octet)
      PROVE  HasWritten(p, data, 0, a)
  BY <1>3, <1>4, <1>5, <1>6 DEF HasWritten
<1>. QED BY <1>3, <1>7, <1>8 DEF a

LEMMA ReadCallsExist ==
  ASSUME NEW p \in Pipes, NEW n \in Nat
  PROVE  \E f : ReadCalls(f, p, n)
<1>. DEFINE first == Answer(1, <<>>, p)
            step == [k \in 1 .. n |-> [a \in Answers |-> MoreRead(a)]]
<1>1. first \in Answers
  BY FirstCall
<1>2. step \in [1 .. n -> [Answers -> Answers]]
  <2>1. 0 \in Octet
    BY PipeAssumption DEF Octet
  <2>2. \A a \in Answers : MoreRead(a) \in Answers
    BY <2>1, MoreType DEF MoreTypes
  <2>. QED BY <2>2
<1>. HIDE DEF first, step
<1>3. PICK g : Iterates(g, Answers, first, n, step)
  BY <1>1, <1>2, Iteration
<1>4. g \in [0 .. n -> Answers] /\ g[0] = first /\ \A k \in 1 .. n : g[k] = step[k][g[k - 1]]
  BY <1>3 DEF Iterates
<1>5. ASSUME NEW k \in 1 .. n
      PROVE  g[k] = MoreRead(g[k - 1])
  <2>1. k - 1 \in 0 .. n
    OBVIOUS
  <2>2. g[k - 1] \in Answers
    BY <1>4, <2>1
  <2>3. step[k][g[k - 1]] = MoreRead(g[k - 1])
    BY <2>2 DEF step
  <2>. QED BY <1>4, <2>3
<1>6. g = [k \in 0 .. n |-> IF k = 0 THEN first ELSE MoreRead(g[k - 1])]
  <2>1. g = [k \in 0 .. n |-> g[k]]
    BY <1>4
  <2>2. \A k \in 0 .. n : k # 0 => k \in 1 .. n
    OBVIOUS
  <2>3. \A k \in 0 .. n : g[k] = IF k = 0 THEN first ELSE MoreRead(g[k - 1])
    BY <1>4, <1>5, <2>2
  <2>. QED BY <2>1, <2>3
<1>. QED BY <1>6 DEF ReadCalls, first

LEMMA WriteCallsExist ==
  ASSUME NEW p \in Pipes, NEW data \in Seq(Octet)
  PROVE  \E f : WriteCalls(f, p, data)
<1>. DEFINE n == Len(data)
            first == Answer(1, <<>>, p)
            step == [k \in 1 .. n |-> [a \in Answers |-> MoreWritten(a, data[k])]]
<1>1. first \in Answers /\ n \in Nat
  BY FirstCall, LenProperties
<1>2. step \in [1 .. n -> [Answers -> Answers]]
  <2>1. \A k \in 1 .. n : data[k] \in Octet
    BY ElementOfSeq
  <2>2. \A k \in 1 .. n : \A a \in Answers : MoreWritten(a, data[k]) \in Answers
    BY <2>1, MoreType DEF MoreTypes
  <2>. QED BY <2>2
<1>. HIDE DEF first, step, n
<1>3. PICK g : Iterates(g, Answers, first, n, step)
  BY <1>1, <1>2, Iteration
<1>4. g \in [0 .. n -> Answers] /\ g[0] = first /\ \A k \in 1 .. n : g[k] = step[k][g[k - 1]]
  BY <1>3 DEF Iterates
<1>5. ASSUME NEW k \in 1 .. n
      PROVE  g[k] = MoreWritten(g[k - 1], data[k])
  <2>1. k - 1 \in 0 .. n
    BY <1>1
  <2>2. g[k - 1] \in Answers
    BY <1>4, <2>1
  <2>3. step[k][g[k - 1]] = MoreWritten(g[k - 1], data[k])
    BY <2>2 DEF step
  <2>. QED BY <1>4, <2>3
<1>6. g = [k \in 0 .. n |-> IF k = 0 THEN first ELSE MoreWritten(g[k - 1], data[k])]
  <2>1. g = [k \in 0 .. n |-> g[k]]
    BY <1>4
  <2>2. \A k \in 0 .. n : k # 0 => k \in 1 .. n
    BY <1>1
  <2>3. \A k \in 0 .. n : g[k] = IF k = 0 THEN first ELSE MoreWritten(g[k - 1], data[k])
    BY <1>4, <1>5, <2>2
  <2>. QED BY <2>1, <2>3
<1>. QED BY <1>6 DEF WriteCalls, first, n

\* source_adapt(): what it moved is in the answer.
LEMMA ReadOctetsGives ==
  ASSUME NEW p \in Pipes, NEW n \in Nat, n > 0
  PROVE  Gives(p, n, ReadOctets(p, n))
<1>. DEFINE first == Answer(1, <<>>, p)
            f == CHOOSE f : ReadCalls(f, p, n)
<1>1. ReadOctets(p, n) = Adapted(f[n])
  BY Zenon DEF ReadOctets, ReadCalls, MoreRead
<1>2. ReadCalls(f, p, n)
  BY ReadCallsExist, Zenon
<1>. HIDE DEF f, first
<1>3. \A k \in 0 .. n : f[k] = IF k = 0 THEN first ELSE MoreRead(f[k - 1])
  <2>1. f = [k \in 0 .. n |-> IF k = 0 THEN first ELSE MoreRead(f[k - 1])]
    BY <1>2 DEF ReadCalls, first
  <2>. QED BY <2>1, Zenon
<1>. DEFINE T == {k \in Nat : k <= n => HasRead(p, k, f[k])}
<1>4. 0 \in T
  <2>1. 0 \in 0 .. n
    OBVIOUS
  <2>2. f[0] = first
    BY <1>3, <2>1
  <2>. QED BY <2>2, FirstCall DEF first
<1>5. ASSUME NEW k \in T PROVE k + 1 \in T
  <2>. SUFFICES ASSUME k + 1 <= n PROVE HasRead(p, k + 1, f[k + 1])
    OBVIOUS
  <2>1. k \in Nat /\ k <= n /\ k + 1 \in 0 .. n /\ k + 1 # 0 /\ (k + 1) - 1 = k
    OBVIOUS
  <2>2. f[k + 1] = MoreRead(f[k])
    BY <1>3, <2>1
  <2>. QED BY <2>1, <2>2, ReadsOneMore
<1>6. n \in T
  <2>1. T \in SUBSET Nat
    OBVIOUS
  <2>. HIDE DEF T
  <2>. QED BY <1>4, <1>5, <2>1, Induction
<1>. DEFINE a == f[n]
            b == Adapted(a)
<1>7. HasRead(p, n, a)
  BY <1>6
<1>. HIDE DEF a, T
<1>8. a \in Answers /\ a.rc \in Int /\ Len(a.octets) \in Nat /\ Len(a.octets) <= n
  BY <1>7, AnswerFields DEF HasRead
<1>9. /\ b \in Answers /\ b.octets = a.octets /\ b.pipe = a.pipe
      /\ a.octets # <<>> => b.rc = Len(a.octets) /\ Len(a.octets) > 0
      /\ a.octets = <<>> => b.rc = IF a.rc = 0 THEN EAGAIN ELSE a.rc
  BY <1>8, AdaptedIs
<1>. HIDE DEF b
<1>10. a.octets = <<>> => a.rc <= 0
  BY <1>7, <1>8 DEF HasRead
<1>11. b.rc > 0 => b.rc = Len(b.octets) /\ b.rc <= n
  BY <1>8, <1>9, <1>10, Codes
<1>12. b.rc <= 0 => b.octets = <<>>
  BY <1>8, <1>9
<1>13. b.rc = ENODATA => UnreadOf(b.pipe.buf) = <<>>
  <2>1. b.rc = ENODATA => a.octets = <<>>
    BY <1>8, <1>9, Codes
  <2>2. b.rc = ENODATA => a.rc = ENODATA
    BY <1>9, <2>1, Codes
  <2>. QED BY <1>7, <1>9, <2>2 DEF HasRead
<1>14. UnreadOf(p.buf) = b.octets \o UnreadOf(b.pipe.buf)
  BY <1>7, <1>9 DEF HasRead
<1>15. Gives(p, n, b)
  BY <1>9, <1>11, <1>12, <1>13, <1>14 DEF Gives
<1>. QED BY <1>1, <1>15 DEF a, b

\* sink_adapt()
LEMMA WriteOctetsTakes ==
  ASSUME NEW p \in Pipes, NEW data \in Seq(Octet), Len(data) > 0
  PROVE  Takes(p, data, WriteOctets(p, data))
<1>. DEFINE n == Len(data)
            first == Answer(1, <<>>, p)
            f == CHOOSE f : WriteCalls(f, p, data)
<1>0. n \in Nat
  BY LenProperties
<1>1. WriteOctets(p, data) = Adapted(f[n])
  BY Zenon DEF WriteOctets, WriteCalls, MoreWritten
<1>2. WriteCalls(f, p, data)
  BY WriteCallsExist, Zenon
<1>. HIDE DEF f, first, n
<1>3. \A k \in 0 .. n : f[k] = IF k = 0 THEN first ELSE MoreWritten(f[k - 1], data[k])
  <2>1. f = [k \in 0 .. n |-> IF k = 0 THEN first ELSE MoreWritten(f[k - 1], data[k])]
    BY <1>2 DEF WriteCalls, first, n
  <2>. QED BY <2>1, Zenon
<1>. DEFINE T == {k \in Nat : k <= n => HasWritten(p, data, k, f[k])}
<1>4. 0 \in T
  <2>1. 0 \in 0 .. n
    BY <1>0
  <2>2. f[0] = first
    BY <1>3, <2>1
  <2>. QED BY <2>2, FirstCall DEF first
<1>5. ASSUME NEW k \in T PROVE k + 1 \in T
  <2>. SUFFICES ASSUME k + 1 <= n PROVE HasWritten(p, data, k + 1, f[k + 1])
    OBVIOUS
  <2>1. k \in Nat /\ k <= n /\ k + 1 \in 0 .. n /\ k + 1 # 0 /\ (k + 1) - 1 = k
    BY <1>0
  <2>2. f[k + 1] = MoreWritten(f[k], data[k + 1])
    BY <1>3, <2>1
  <2>. QED BY <2>1, <2>2, WritesOneMore DEF n
<1>6. n \in T
  <2>1. T \in SUBSET Nat
    OBVIOUS
  <2>. HIDE DEF T
  <2>. QED BY <1>0, <1>4, <1>5, <2>1, Induction
<1>. DEFINE a == f[n]
            b == Adapted(a)
            l == Len(a.octets)
<1>7. HasWritten(p, data, n, a)
  BY <1>0, <1>6
<1>. HIDE DEF a, T
<1>8. a \in Answers /\ a.rc \in Int /\ l \in Nat /\ l <= n
  BY <1>7, AnswerFields DEF HasWritten
<1>9. /\ b \in Answers /\ b.octets = a.octets /\ b.pipe = a.pipe
      /\ a.octets # <<>> => b.rc = l /\ l > 0
      /\ a.octets = <<>> => b.rc = IF a.rc = 0 THEN EAGAIN ELSE a.rc
  BY <1>8, AdaptedIs
<1>10. a.octets = <<>> => a.rc <= 0
  <2>1. n > 0
    BY DEF n
  <2>2. a.octets = <<>> => l = 0
    BY EmptySeq
  <2>3. a.rc > 0 => l = n
    BY <1>7 DEF HasWritten
  <2>. HIDE DEF l
  <2>. QED BY <1>0, <1>8, <2>1, <2>2, <2>3
<1>11. a.octets = SubSeq(data, 1, l) /\ UnreadOf(a.pipe.buf) = UnreadOf(p.buf) \o a.octets
  BY <1>7 DEF HasWritten
<1>. HIDE DEF b, l
<1>12. b.rc \in Int /\ b.rc <= n
  BY <1>0, <1>8, <1>9, <1>10, Codes
<1>13. b.octets = SubSeq(data, 1, b.rc)
  <2>1. CASE a.octets # <<>>
    BY <1>9, <1>11, <2>1
  <2>2. CASE a.octets = <<>>
    <3>. DEFINE c == b.rc
    <3>1. 1 \in Int /\ c \in Int /\ c < 1
      BY <1>8, <1>9, <1>10, <1>12, <2>2, Codes
    <3>. HIDE DEF c
    <3>2. SubSeq(data, 1, c) = <<>>
      BY <3>1, SubSeqEmpty
    <3>. QED BY <1>9, <2>2, <3>2 DEF c
  <2>. QED BY <2>1, <2>2
<1>14. Takes(p, data, b)
  BY <1>9, <1>11, <1>12, <1>13 DEF Takes, n
<1>. QED BY <1>1, <1>14 DEF a, b

(***************************************************************************)
(* Lists of buffers.                                                       *)
(***************************************************************************)

ChunkLists == {l \in [chunk : Seq(Buffers), active : Nat] : l.active <= Len(l.chunk)}

From(f, chunk) ==
  f = [i \in 0 .. Len(chunk) |->
         IF i = Len(chunk) THEN <<>> ELSE UnreadOf(chunk[i + 1]) \o f[i + 1]]

LEMMA ListFields ==
  ASSUME NEW l \in ChunkLists
  PROVE  l.chunk \in Seq(Buffers) /\ l.active \in Nat /\ Len(l.chunk) \in Nat
         /\ l.active <= Len(l.chunk) /\ l.active \in 0 .. Len(l.chunk)
<1>1. l \in [chunk : Seq(Buffers), active : Nat] /\ l.active <= Len(l.chunk)
  BY DEF ChunkLists
<1>2. l.chunk \in Seq(Buffers) /\ l.active \in Nat
  BY <1>1
<1>3. Len(l.chunk) \in Nat
  BY <1>2, LenProperties
<1>. QED BY <1>1, <1>2, <1>3

LEMMA PutInFront ==
  ASSUME NEW b \in Buffers, NEW s \in Seq(Octet)
  PROVE  UnreadOf(b) \o s \in Seq(Octet)
BY UnreadType, ConcatProperties

LEMMA RemaindersExist ==
  ASSUME NEW chunk \in Seq(Buffers)
  PROVE  \E f : From(f, chunk)
<1>. DEFINE N == Len(chunk)
            S == Seq(Octet)
            More(k, s) == UnreadOf(chunk[N - k + 1]) \o s
            step == [k \in 1 .. N |-> [s \in S |-> More(k, s)]]
<1>1. N \in Nat
  BY LenProperties
<1>2. ASSUME NEW k \in 1 .. N, NEW s \in S
      PROVE  More(k, s) \in S
  <2>. DEFINE j == N - k + 1
  <2>1. j \in 1 .. N
    BY <1>1
  <2>. HIDE DEF j
  <2>2. chunk[j] \in Buffers
    BY <2>1, ElementOfSeq
  <2>3. UnreadOf(chunk[j]) \o s \in S
    BY <2>2, PutInFront
  <2>. QED BY <2>3 DEF j
<1>. HIDE DEF More, N, S
<1>3. step \in [1 .. N -> [S -> S]]
  BY <1>2
<1>4. <<>> \in S
  BY EmptySeq DEF S
<1>. HIDE DEF step
<1>5. PICK g : Iterates(g, S, <<>>, N, step)
  BY <1>1, <1>3, <1>4, Iteration
<1>6. g \in [0 .. N -> S] /\ g[0] = <<>> /\ \A k \in 1 .. N : g[k] = step[k][g[k - 1]]
  BY <1>5 DEF Iterates
<1>7. ASSUME NEW k \in 1 .. N
      PROVE  g[k] = More(k, g[k - 1])
  <2>1. k - 1 \in 0 .. N
    BY <1>1
  <2>2. g[k - 1] \in S
    BY <1>6, <2>1
  <2>3. step[k][g[k - 1]] = More(k, g[k - 1])
    BY <2>2 DEF step
  <2>. QED BY <1>6, <2>3
<1>. DEFINE f == [i \in 0 .. N |-> g[N - i]]
<1>8. ASSUME NEW i \in 0 .. N
      PROVE  f[i] = IF i = N THEN <<>> ELSE UnreadOf(chunk[i + 1]) \o f[i + 1]
  <2>1. CASE i = N
    <3>1. N - i = 0
      BY <1>1, <2>1
    <3>. QED BY <1>6, <2>1, <3>1
  <2>2. CASE i # N
    <3>. DEFINE k == N - i
    <3>1. k \in 1 .. N /\ k - 1 = N - (i + 1) /\ i + 1 \in 0 .. N /\ N - k + 1 = i + 1
      BY <1>1, <2>2
    <3>2. f[i] = g[k] /\ f[i + 1] = g[k - 1]
      BY <3>1
    <3>. HIDE DEF k, f
    <3>3. f[i] = More(k, f[i + 1])
      BY <1>7, <3>1, <3>2
    <3>4. More(k, f[i + 1]) = UnreadOf(chunk[i + 1]) \o f[i + 1]
      BY <3>1 DEF More
    <3>. QED BY <2>2, <3>3, <3>4
  <2>. QED BY <2>1, <2>2
<1>9. f = [i \in 0 .. N |-> f[i]]
  OBVIOUS
<1>. HIDE DEF f
<1>10. f = [i \in 0 .. N |-> IF i = N THEN <<>> ELSE UnreadOf(chunk[i + 1]) \o f[i + 1]]
  BY <1>8, <1>9
<1>. QED BY <1>10 DEF From, N

LEMMA RemaindersAre ==
  ASSUME NEW chunk \in Seq(Buffers)
  PROVE  /\ Remainders(chunk)[Len(chunk)] = <<>>
         /\ \A i \in 0 .. Len(chunk) - 1 :
              Remainders(chunk)[i] = UnreadOf(chunk[i + 1]) \o Remainders(chunk)[i + 1]
         /\ \A i \in 0 .. Len(chunk) : Remainders(chunk)[i] \in Seq(Octet)
<1>. DEFINE N == Len(chunk)
            R == Remainders(chunk)
            f == CHOOSE f : From(f, chunk)
<1>0. N \in Nat
  BY LenProperties
<1>1. R = f
  BY Zenon DEF Remainders, From
<1>2. From(f, chunk)
  BY RemaindersExist, Zenon
<1>. HIDE DEF R, f, N
<1>3. \A i \in 0 .. N : R[i] = IF i = N THEN <<>> ELSE UnreadOf(chunk[i + 1]) \o R[i + 1]
  <2>1. f = [i \in 0 .. N |-> IF i = N THEN <<>> ELSE UnreadOf(chunk[i + 1]) \o f[i + 1]]
    BY <1>2 DEF From, N
  <2>2. \A i \in 0 .. N : f[i] = IF i = N THEN <<>> ELSE UnreadOf(chunk[i + 1]) \o f[i + 1]
    BY <2>1, Zenon
  <2>. QED BY <1>1, <2>2
<1>4. R[N] = <<>>
  BY <1>0, <1>3
<1>5. ASSUME NEW i \in 0 .. N - 1
      PROVE  R[i] = UnreadOf(chunk[i + 1]) \o R[i + 1]
  <2>1. i \in 0 .. N /\ i # N
    BY <1>0
  <2>. QED BY <1>3, <2>1
<1>. DEFINE T == {d \in Nat : d <= N => R[N - d] \in Seq(Octet)}
<1>6. 0 \in T
  <2>1. N - 0 = N /\ <<>> \in Seq(Octet)
    BY <1>0, EmptySeq
  <2>. QED BY <1>4, <2>1
<1>7. ASSUME NEW d \in T PROVE d + 1 \in T
  <2>. SUFFICES ASSUME d + 1 <= N PROVE R[N - (d + 1)] \in Seq(Octet)
    OBVIOUS
  <2>. DEFINE i == N - (d + 1)
  <2>1. i \in 0 .. N - 1 /\ i + 1 = N - d /\ i + 1 \in 1 .. N /\ d <= N
    BY <1>0
  <2>2. R[i + 1] \in Seq(Octet)
    BY <2>1
  <2>. HIDE DEF i
  <2>3. chunk[i + 1] \in Buffers
    BY <2>1, ElementOfSeq DEF N
  <2>4. UnreadOf(chunk[i + 1]) \o R[i + 1] \in Seq(Octet)
    BY <2>2, <2>3, PutInFront
  <2>. QED BY <1>5, <2>1, <2>4 DEF i
<1>8. \A d \in Nat : d \in T
  <2>1. T \in SUBSET Nat
    OBVIOUS
  <2>. HIDE DEF T
  <2>. QED BY <1>6, <1>7, <2>1, Induction
<1>9. ASSUME NEW i \in 0 .. N
      PROVE  R[i] \in Seq(Octet)
  <2>1. N - i \in Nat /\ N - i <= N /\ N - (N - i) = i
    BY <1>0
  <2>2. N - i \in T
    BY <1>8, <2>1
  <2>. QED BY <2>1, <2>2
<1>. QED BY <1>4, <1>5, <1>9 DEF R, N

\* Buffers that have nothing to read add nothing.
LEMMA EmptyOnes ==
  ASSUME NEW chunk \in Seq(Buffers), NEW i \in Nat, NEW j \in Nat, i <= j, j <= Len(chunk),
         \A k \in i .. j - 1 : UnreadOf(chunk[k + 1]) = <<>>
  PROVE  Remainders(chunk)[i] = Remainders(chunk)[j]
<1>. DEFINE N == Len(chunk)
            R == Remainders(chunk)
            T == {d \in Nat : d <= j - i => R[j - d] = R[j]}
<1>0. N \in Nat
  BY LenProperties
<1>1. 0 \in T
  <2>1. j - 0 = j
    OBVIOUS
  <2>. QED BY <2>1
<1>2. ASSUME NEW d \in T PROVE d + 1 \in T
  <2>. SUFFICES ASSUME d + 1 <= j - i PROVE R[j - (d + 1)] = R[j]
    OBVIOUS
  <2>. DEFINE k == j - (d + 1)
  <2>1. k \in 0 .. N - 1 /\ k + 1 = j - d /\ k \in i .. j - 1 /\ d <= j - i /\ k + 1 \in 0 .. N
    BY <1>0
  <2>2. R[k + 1] = R[j]
    BY <2>1
  <2>. HIDE DEF k, R
  <2>3. R[k] = UnreadOf(chunk[k + 1]) \o R[k + 1] /\ R[k + 1] \in Seq(Octet)
    BY <2>1, RemaindersAre DEF R
  <2>4. UnreadOf(chunk[k + 1]) = <<>>
    BY <2>1
  <2>5. <<>> \o R[k + 1] = R[k + 1]
    BY <2>3, NothingFirst
  <2>6. R[k] = R[j]
    BY <2>2, <2>3, <2>4, <2>5
  <2>. QED BY <2>6 DEF k, R
<1>3. j - i \in T
  <2>1. T \in SUBSET Nat /\ j - i \in Nat
    OBVIOUS
  <2>. HIDE DEF T
  <2>. QED BY <1>1, <1>2, <2>1, Induction
<1>4. j - i <= j - i /\ j - (j - i) = i
  OBVIOUS
<1>. QED BY <1>3, <1>4

\* What is left from a buffer on depends on that one and those behind it.
LEMMA SameBehind ==
  ASSUME NEW chunk \in Seq(Buffers), NEW other \in Seq(Buffers), Len(other) = Len(chunk),
         NEW a \in Nat, a <= Len(chunk),
         \A k \in 1 .. Len(chunk) : k > a => other[k] = chunk[k]
  PROVE  Remainders(other)[a] = Remainders(chunk)[a]
<1>. DEFINE N == Len(chunk)
            R == Remainders(chunk)
            Q == Remainders(other)
            T == {d \in Nat : d <= N - a => Q[N - d] = R[N - d]}
<1>0. N \in Nat
  BY LenProperties
<1>1. 0 \in T
  <2>1. N - 0 = N
    BY <1>0
  <2>2. R[N] = <<>> /\ Q[N] = <<>>
    BY RemaindersAre
  <2>. QED BY <2>1, <2>2
<1>2. ASSUME NEW d \in T PROVE d + 1 \in T
  <2>. SUFFICES ASSUME d + 1 <= N - a PROVE Q[N - (d + 1)] = R[N - (d + 1)]
    OBVIOUS
  <2>. DEFINE k == N - (d + 1)
  <2>1. k \in 0 .. N - 1 /\ k + 1 = N - d /\ k + 1 > a /\ d <= N - a /\ k + 1 \in 1 .. N
    BY <1>0
  <2>2. Q[k + 1] = R[k + 1]
    BY <2>1
  <2>. HIDE DEF k, R, Q
  <2>3. R[k] = UnreadOf(chunk[k + 1]) \o R[k + 1]
    BY <2>1, RemaindersAre DEF R
  <2>4. Q[k] = UnreadOf(other[k + 1]) \o Q[k + 1]
    BY <2>1, RemaindersAre DEF Q
  <2>5. other[k + 1] = chunk[k + 1]
    BY <2>1
  <2>6. Q[k] = R[k]
    BY <2>2, <2>3, <2>4, <2>5
  <2>. QED BY <2>6 DEF k, R, Q
<1>3. N - a \in T
  <2>1. T \in SUBSET Nat /\ N - a \in Nat
    BY <1>0
  <2>. HIDE DEF T
  <2>. QED BY <1>1, <1>2, <2>1, Induction
<1>4. N - a <= N - a /\ N - (N - a) = a
  BY <1>0
<1>. QED BY <1>3, <1>4

LEMMA NextActiveIs ==
  ASSUME NEW l \in ChunkLists, NEW a, a = NextActive(l)
  PROVE  /\ a \in Nat /\ l.active <= a /\ a <= Len(l.chunk)
         /\ \A k \in l.active .. a - 1 : D!Rest(l.chunk[k + 1]) = 0
         /\ a < Len(l.chunk) => D!Rest(l.chunk[a + 1]) > 0
<1>. DEFINE N == Len(l.chunk)
            from == l.active
            found == {i \in from .. N - 1 : D!Rest(l.chunk[i + 1]) > 0}
<1>0. N \in Nat /\ from \in Nat /\ from <= N
  BY ListFields
<1>1. a = IF found = {} THEN N ELSE CHOOSE i \in found : \A j \in found : i <= j
  BY DEF NextActive
<1>2. ASSUME NEW k \in from .. N - 1, k \notin found
      PROVE  D!Rest(l.chunk[k + 1]) = 0
  <2>. DEFINE i == k + 1
  <2>1. i \in 1 .. Len(l.chunk) /\ l.chunk \in Seq(Buffers)
    BY <1>0, ListFields
  <2>. HIDE DEF i
  <2>2. l.chunk[i] \in Buffers
    BY <2>1, ElementOfSeq
  <2>. DEFINE b == l.chunk[i]
  <2>3. D!Rest(b) \in Nat
    BY <2>2, UnreadIs
  <2>4. ~(D!Rest(b) > 0)
    BY <1>2 DEF i
  <2>. HIDE DEF b
  <2>5. D!Rest(b) = 0
    BY <2>3, <2>4
  <2>. QED BY <2>5 DEF b, i
<1>3. CASE found = {}
  <2>1. a = N
    BY <1>1, <1>3
  <2>2. \A k \in from .. N - 1 : D!Rest(l.chunk[k + 1]) = 0
    BY <1>2, <1>3
  <2>. QED BY <1>0, <2>1, <2>2
<1>4. CASE found # {}
  <2>1. found \in SUBSET Nat
    BY <1>0
  <2>2. \E i \in found : \A j \in found : i <= j
    <3>. HIDE DEF found
    <3>. QED BY <1>4, <2>1, LeastNumber
  <2>3. a \in found /\ \A j \in found : a <= j
    <3>. HIDE DEF found
    <3>. QED BY <1>1, <1>4, <2>2
  <2>4. a \in from .. N - 1 /\ D!Rest(l.chunk[a + 1]) > 0
    BY <2>3
  <2>5. ASSUME NEW k \in from .. a - 1
        PROVE  D!Rest(l.chunk[k + 1]) = 0
    <3>1. k \in from .. N - 1 /\ ~(a <= k)
      BY <1>0, <2>4
    <3>2. k \notin found
      BY <2>3, <3>1
    <3>. QED BY <1>2, <3>1, <3>2
  <2>6. a \in Nat /\ from <= a /\ a <= N
    BY <1>0, <2>4
  <2>. QED BY <2>4, <2>5, <2>6
<1>. QED BY <1>3, <1>4

\* What is left of a list.
LeftIn(l) == Remainders(l.chunk)[l.active]

GivesChunks(l, n, a) ==
  /\ a.pipe \in ChunkLists /\ a.rc \in Int /\ a.octets \in Seq(Octet)
  /\ LeftIn(l) = a.octets \o LeftIn(a.pipe)
  /\ a.rc > 0 => a.rc = Len(a.octets) /\ a.rc <= n
  /\ a.rc <= 0 => a.octets = <<>>
  /\ a.rc = ENODATA => LeftIn(a.pipe) = <<>>

LEMMA LeftInType ==
  ASSUME NEW l \in ChunkLists
  PROVE  LeftIn(l) \in Seq(Octet)
BY ListFields, RemaindersAre DEF LeftIn

\* read_from_chunks(): the end of the list is the end of what is left, whatever buffers
\* without octets there are.
LEMMA ReadChunksGives ==
  ASSUME NEW l \in ChunkLists, NEW n \in Nat, n > 0
  PROVE  GivesChunks(l, n, ReadChunks(l, n))
<1>. DEFINE a == NextActive(l)
            c == l.chunk
            N == Len(c)
            R == Remainders(c)
            r == D!ConsumeAtMost(c[a + 1], n)
            z == ReadChunks(l, n)
<1>1. /\ c \in Seq(Buffers) /\ N \in Nat /\ a \in Nat /\ l.active <= a /\ a <= N /\ l.active \in Nat
      /\ \A k \in l.active .. a - 1 : D!Rest(c[k + 1]) = 0
      /\ a < N => D!Rest(c[a + 1]) > 0
  BY ListFields, NextActiveIs
<1>2. z = IF a = N THEN Answer(ENODATA, <<>>, [l EXCEPT !.active = a])
          ELSE Answer(Len(r.out), r.out, [chunk |-> [c EXCEPT ![a + 1] = r.buf], active |-> a])
  BY DEF ReadChunks
<1>3. [l EXCEPT !.active = a] = [chunk |-> c, active |-> a]
  BY DEF ChunkLists
<1>. HIDE DEF a, c, r, z, N, R
<1>4. R[l.active] = R[a]
  <2>1. ASSUME NEW k \in l.active .. a - 1
        PROVE  UnreadOf(c[k + 1]) = <<>>
    <3>. DEFINE i == k + 1
                b == c[i]
    <3>1. i \in 1 .. N /\ D!Rest(b) = 0
      BY <1>1
    <3>2. b \in Buffers
      <4>. HIDE DEF i
      <4>. QED BY <1>1, <3>1, ElementOfSeq DEF N
    <3>. HIDE DEF b
    <3>3. UnreadOf(b) \in Seq(Octet) /\ Len(UnreadOf(b)) = 0
      BY <3>1, <3>2, UnreadIs
    <3>4. UnreadOf(b) = <<>>
      BY <3>3, EmptySeq
    <3>. QED BY <3>4 DEF b
  <2>. QED BY <1>1, <2>1, EmptyOnes DEF N, R
<1>5. LeftIn(l) = R[a]
  BY <1>4 DEF LeftIn, R, c
<1>6. R[a] \in Seq(Octet)
  <2>1. a \in 0 .. N
    BY <1>1
  <2>. QED BY <1>1, <2>1, RemaindersAre DEF N, R
<1>7. CASE a = N
  <2>. DEFINE m == [chunk |-> c, active |-> a]
              o == <<>>
  <2>1. m \in ChunkLists
    BY <1>1, <1>7 DEF ChunkLists, N
  <2>2. z = Answer(ENODATA, o, m)
    BY <1>2, <1>3, <1>7
  <2>3. LeftIn(m) = R[a] /\ R[a] = <<>>
    <3>1. R[N] = <<>>
      BY <1>1, RemaindersAre DEF N, R
    <3>. QED BY <1>7, <3>1 DEF LeftIn, R
  <2>4. o \in Seq(Octet) /\ R[a] = o \o R[a]
    BY <1>6, NothingFirst
  <2>5. ENODATA \in Int /\ ENODATA < 0
    BY Codes
  <2>. HIDE DEF m
  <2>6. z.rc = ENODATA /\ z.octets = <<>> /\ z.pipe = m
    BY <2>2 DEF Answer
  <2>7. z.rc \in Int /\ ~(z.rc > 0)
    BY <2>5, <2>6
  <2>8. LeftIn(l) = z.octets \o LeftIn(z.pipe)
    BY <1>5, <2>3, <2>4, <2>6
  <2>9. GivesChunks(l, n, z)
    BY <2>1, <2>3, <2>4, <2>6, <2>7, <2>8 DEF GivesChunks
  <2>. QED BY <2>9 DEF z
<1>8. CASE a # N
  <2>. DEFINE i == a + 1
              b == c[i]
              d == [c EXCEPT ![i] = r.buf]
              m == [chunk |-> d, active |-> a]
              o == r.out
              k == Len(o)
  <2>1. i \in 1 .. N /\ a \in 0 .. N - 1 /\ a < N
    BY <1>1, <1>8
  <2>2. b \in Buffers
    <3>. HIDE DEF i
    <3>. QED BY <1>1, <2>1, ElementOfSeq DEF N
  <2>3. D!Rest(b) > 0 /\ r = D!ConsumeAtMost(b, n)
    BY <1>1, <2>1 DEF r
  <2>. HIDE DEF b
  <2>4. /\ r.buf \in Buffers /\ o \in Seq(Octet) /\ k \in Nat /\ k <= n /\ k > 0
        /\ UnreadOf(b) = o \o UnreadOf(r.buf)
    <3>1. ~(D!Rest(b) = 0)
      BY <2>3
    <3>. QED BY <2>2, <2>3, <3>1, Consuming
  <2>5. /\ d \in Seq(Buffers) /\ Len(d) = N
        /\ \A j \in 1 .. N : d[j] = IF j = i THEN r.buf ELSE c[j]
    <3>. HIDE DEF i
    <3>. QED BY <1>1, <2>1, <2>4, ExceptSeq DEF N
  <2>6. z = Answer(k, o, m)
    BY <1>2, <1>8
  <2>. HIDE DEF d
  <2>7. m \in ChunkLists
    <3>1. m \in [chunk : Seq(Buffers), active : Nat]
      BY <1>1, <2>5
    <3>2. m.active <= Len(m.chunk)
      BY <1>1, <2>5
    <3>. HIDE DEF m
    <3>. QED BY <3>1, <3>2 DEF ChunkLists
  <2>8. Remainders(d)[i] = R[i]
    <3>1. \A j \in 1 .. N : j > i => d[j] = c[j]
      BY <2>1, <2>5
    <3>2. i \in Nat /\ i <= N
      BY <2>1
    <3>. HIDE DEF i
    <3>. QED BY <1>1, <2>5, <3>1, <3>2, SameBehind DEF N, R
  <2>9. R[a] = UnreadOf(b) \o R[i] /\ R[i] \in Seq(Octet)
    <3>1. i \in 0 .. N
      BY <2>1
    <3>. QED BY <1>1, <2>1, <3>1, RemaindersAre DEF N, R, b
  <2>10. LeftIn(m) = UnreadOf(r.buf) \o R[i]
    <3>1. a \in 0 .. Len(d) - 1
      BY <2>1, <2>5
    <3>2. Remainders(d)[a] = UnreadOf(d[i]) \o Remainders(d)[i]
      BY <2>5, <3>1, RemaindersAre
    <3>3. d[i] = r.buf
      BY <2>1, <2>5
    <3>4. LeftIn(m) = Remainders(d)[a]
      BY DEF LeftIn
    <3>. QED BY <2>8, <3>2, <3>3, <3>4
  <2>. HIDE DEF o, k, m, i
  <2>11. (o \o UnreadOf(r.buf)) \o R[i] = o \o (UnreadOf(r.buf) \o R[i])
    <3>. DEFINE v == UnreadOf(r.buf)
                w == R[i]
    <3>1. v \in Seq(Octet)
      BY <2>4, UnreadType
    <3>2. o \in Seq(Octet) /\ w \in Seq(Octet)
      BY <2>4, <2>9
    <3>. HIDE DEF v, w
    <3>3. (o \o v) \o w = o \o (v \o w)
      BY <3>1, <3>2, ConcatAssociative, SMTT(30)
    <3>. QED BY <3>3 DEF v, w
  <2>12. LeftIn(l) = o \o LeftIn(m)
    BY <1>5, <2>4, <2>9, <2>10, <2>11
  <2>13. z.rc = k /\ z.octets = o /\ z.pipe = m
    BY <2>6 DEF Answer
  <2>14. z.rc \in Int /\ ~(z.rc <= 0) /\ z.rc # ENODATA /\ z.rc <= n
    BY <2>4, <2>13, Codes
  <2>15. z.rc = Len(z.octets)
    BY <2>13 DEF k
  <2>16. GivesChunks(l, n, z)
    BY <2>4, <2>7, <2>12, <2>13, <2>14, <2>15 DEF GivesChunks
  <2>. QED BY <2>16 DEF z
<1>. QED BY <1>7, <1>8

(***************************************************************************)
(* The steps.                                                              *)
(***************************************************************************)

Kinds == {"buffer", "octet", "block"}

\* A list has no sink, and a pipe no list.
DriverInv ==
  /\ pipe \in Pipes /\ chunks \in ChunkLists
  /\ \/ source = "chunks" /\ sink = "none"
     \/ source \in Kinds /\ sink \in Kinds

LeftOf(s, p, l) == IF s = "chunks" THEN LeftIn(l) ELSE UnreadOf(p.buf)

LEMMA LeftIs ==
  Left = LeftOf(source, pipe, chunks) /\ Left' = LeftOf(source', pipe', chunks')
BY DEF Left, LeftOf, LeftIn

\* What a step promises, of what was left and is left.
Kept(x, y, a) ==
  /\ (a.op = "read" /\ a.rc > 0) => a.rc = Len(a.octets) /\ a.rc <= a.n /\ x = a.octets \o y
  /\ (a.op = "read" /\ a.rc <= 0) => y = x /\ (a.rc = ENODATA => x = <<>>)
  /\ a.op = "read" => a.rc \in Int
  /\ a.op = "write" => y = x \o a.octets
  /\ a.op = "attach" => y = <<>>
  /\ a.op \notin {"read", "write", "attach"} => y = x

Steps == DriverInv' /\ Kept(Left, Left', answer')

LEMMA FreshIs == Fresh \in Pipes /\ UnreadOf(Fresh.buf) = <<>>
<1>. DEFINE zeros == [i \in 1 .. PipeSize |-> 0]
            b == D!Space(D!Null, zeros).buf
            c == [data |-> zeros, used |-> 0, offset |-> 0]
<1>0. PipeSize \in Nat /\ PipeSize > 0 /\ 0 \in Octet
  BY PipeAssumption DEF Octet
<1>1. zeros \in Seq(Octet) /\ Len(zeros) = PipeSize /\ zeros # <<>>
  BY <1>0
<1>2. ~(zeros = <<>> \/ 0 > Len(zeros) \/ 0 > 0)
  BY <1>0, <1>1
<1>3. b = c
  <2>. HIDE DEF zeros
  <2>. QED BY <1>2 DEF D!Space, D!Set, D!Succeeds
<1>4. Fresh = [buf |-> b, chunksize |-> 0, read |-> Reset, write |-> Reset]
  BY DEF Fresh
<1>. HIDE DEF zeros, b
<1>5. c \in Buffers
  <2>1. 0 \in Nat /\ 0 <= 0 /\ 0 <= Len(zeros) /\ Len(zeros) < 4 * PipeSize
    BY <1>0, <1>1
  <2>. QED BY <1>1, <2>1, BufferOf
<1>6. UnreadOf(c) = <<>>
  <2>1. c.used = 0 /\ c.offset = 0
    OBVIOUS
  <2>. HIDE DEF c
  <2>. DEFINE u == UnreadOf(c)
  <2>2. u \in Seq(Octet) /\ Len(u) = 0
    BY <1>5, <2>1, UnreadIs
  <2>. HIDE DEF u
  <2>3. u = <<>>
    BY <2>2, EmptySeq
  <2>. QED BY <2>3 DEF u
<1>. HIDE DEF c
<1>7. Reset \in Ends
  BY DEF Reset, NoError, Ends, Failures
<1>8. Fresh \in Pipes /\ Fresh.buf = c
  BY <1>3, <1>4, <1>5, <1>7 DEF Pipes
<1>. QED BY <1>6, <1>8

LEMMA ListsAre ==
  ASSUME NEW list \in Lists
  PROVE  [chunk |-> list, active |-> 0] \in ChunkLists
<1>. DEFINE X == [data : Seq(Octet), used : Nat, offset : Nat]
            N == Len(list)
<1>1. /\ list \in Seq(X)
      /\ \A i \in 1 .. N :
           /\ list[i].offset <= list[i].used /\ list[i].used <= Len(list[i].data)
           /\ Len(list[i].data) < 4 * PipeSize
  BY ListsAssumption DEF Octet
<1>2. ASSUME NEW i \in 1 .. N
      PROVE  list[i] \in Buffers
  <2>1. list[i] \in X
    <3>. HIDE DEF X
    <3>. QED BY <1>1, ElementOfSeq
  <2>. QED BY <1>1, <2>1 DEF Buffers
<1>. HIDE DEF X
<1>3. N \in Nat /\ list \in [1 .. N -> X]
  BY <1>1, LenProperties
<1>4. list \in [1 .. N -> Buffers]
  BY <1>2, <1>3
<1>5. list \in Seq(Buffers)
  BY <1>3, <1>4, SeqDef
<1>. QED BY <1>3, <1>5 DEF ChunkLists

LEMMA DriversBegin == DriverInit => DriverInv
<1>. SUFFICES ASSUME DriverInit PROVE DriverInv
  OBVIOUS
<1>1. pipe \in Pipes
  BY FreshIs DEF DriverInit
<1>2. chunks \in ChunkLists
  <2>1. CASE chunks = [chunk |-> <<>>, active |-> 0]
    <3>. DEFINE none == <<>>
    <3>1. none \in Seq(Buffers) /\ Len(none) = 0
      BY EmptySeq
    <3>. HIDE DEF none
    <3>2. [chunk |-> none, active |-> 0] \in ChunkLists
      BY <3>1 DEF ChunkLists
    <3>. QED BY <2>1, <3>2 DEF none
  <2>2. CASE chunks \in [chunk : Lists, active : {0}]
    <3>1. chunks.chunk \in Lists /\ chunks = [chunk |-> chunks.chunk, active |-> 0]
      BY <2>2
    <3>. QED BY <3>1, ListsAre
  <2>. QED BY <2>1, <2>2 DEF DriverInit
<1>3. \/ source = "chunks" /\ sink = "none"
      \/ source \in Kinds /\ sink \in Kinds
  BY DEF DriverInit, Kinds
<1>. QED BY <1>1, <1>2, <1>3 DEF DriverInv

LEMMA ReadSteps ==
  ASSUME DriverInv, NEW n \in 1 .. MaxAsked, Read(n)
  PROVE  Steps
<1>0. n \in Nat /\ n > 0
  BY PipeAssumption
<1>1. PICK r : /\ source = "chunks" => r = ReadChunks(chunks, n)
               /\ source = "buffer" => r = ReadBuffer(pipe, n)
               /\ source = "octet" => r = ReadOctets(pipe, n)
               /\ source = "block" => r = ReadBlock(pipe, n)
               /\ answer' = [op |-> "read", n |-> n, rc |-> r.rc, octets |-> r.octets]
               /\ IF source = "chunks" THEN chunks' = r.pipe /\ UNCHANGED pipe
                  ELSE pipe' = r.pipe /\ UNCHANGED chunks
               /\ UNCHANGED <<source, sink>>
  BY DEF Read
<1>. DEFINE x == Left
            y == Left'
<1>2. DriverInv' /\ x = r.octets \o y /\ y \in Seq(Octet) /\ r.rc \in Int
      /\ (r.rc > 0 => r.rc = Len(r.octets) /\ r.rc <= n)
      /\ (r.rc <= 0 => r.octets = <<>>)
      /\ (r.rc = ENODATA => y = <<>>)
  <2>1. CASE source = "chunks"
    <3>1. GivesChunks(chunks, n, r)
      BY <1>0, <1>1, <2>1, ReadChunksGives DEF DriverInv
    <3>2. x = LeftIn(chunks) /\ y = LeftIn(r.pipe)
      BY <1>1, <2>1, LeftIs DEF LeftOf
    <3>. HIDE DEF x, y
    <3>3. y \in Seq(Octet)
      BY <3>1, <3>2, LeftInType DEF GivesChunks
    <3>4. DriverInv'
      BY <1>1, <2>1, <3>1 DEF DriverInv, GivesChunks
    <3>. QED BY <3>1, <3>2, <3>3, <3>4 DEF GivesChunks
  <2>2. CASE source # "chunks"
    <3>1. pipe \in Pipes /\ source \in Kinds /\ sink \in Kinds
      BY <2>2 DEF DriverInv
    <3>2. Gives(pipe, n, r)
      <4>1. CASE source = "buffer"
        BY <1>0, <1>1, <3>1, <4>1, ReadBufferGives
      <4>2. CASE source = "octet"
        BY <1>0, <1>1, <3>1, <4>2, ReadOctetsGives
      <4>3. CASE source = "block"
        BY <1>0, <1>1, <3>1, <4>3, ReadBlockGives
      <4>. QED BY <3>1, <4>1, <4>2, <4>3 DEF Kinds
    <3>3. x = UnreadOf(pipe.buf) /\ y = UnreadOf(r.pipe.buf)
      BY <1>1, <2>2, LeftIs DEF LeftOf
    <3>4. r \in Answers /\ r.pipe \in Pipes /\ r.rc \in Int /\ UnreadOf(r.pipe.buf) \in Seq(Octet)
      BY <3>2, AnswerFields DEF Gives
    <3>. HIDE DEF x, y
    <3>5. DriverInv'
      BY <1>1, <2>2, <3>1, <3>4 DEF DriverInv
    <3>. QED BY <3>2, <3>3, <3>4, <3>5 DEF Gives
  <2>. QED BY <2>1, <2>2
<1>. HIDE DEF x, y
<1>3. answer'.op = "read" /\ answer'.n = n /\ answer'.rc = r.rc /\ answer'.octets = r.octets
  BY <1>1
<1>4. r.rc <= 0 => y = x
  BY <1>2, NothingFirst
<1>5. r.rc = ENODATA => r.rc <= 0
  BY Codes
<1>6. Kept(x, y, answer')
  <2>1. r.rc = ENODATA => x = <<>>
    BY <1>2, <1>4, <1>5
  <2>. QED BY <1>2, <1>3, <1>4, <2>1 DEF Kept
<1>. QED BY <1>2, <1>6 DEF Steps, x, y

LEMMA WriteSteps ==
  ASSUME DriverInv, NEW n \in 1 .. MaxAsked, NEW data \in [1 .. n -> 0 .. OctetValues - 1],
         Write(data)
  PROVE  Steps
<1>0. data \in Seq(Octet) /\ Len(data) > 0
  <2>1. n \in Nat /\ n > 0 /\ data \in [1 .. n -> Octet]
    BY PipeAssumption DEF Octet
  <2>2. data \in Seq(Octet)
    BY <2>1, SeqDef
  <2>3. Len(data) = n
    BY <2>1
  <2>. QED BY <2>1, <2>2, <2>3
<1>1. PICK r : /\ sink = "buffer" => r = WriteBuffer(pipe, data)
               /\ sink = "octet" => r = WriteOctets(pipe, data)
               /\ sink = "block" => r = WriteBlock(pipe, data)
               /\ answer' = [op |-> "write", n |-> 0, rc |-> r.rc, octets |-> SubSeq(data, 1, r.rc)]
               /\ pipe' = r.pipe
               /\ UNCHANGED <<source, sink, chunks>>
  BY DEF Write
<1>2. pipe \in Pipes /\ source \in Kinds /\ sink \in Kinds /\ source # "chunks"
  BY DEF Write, DriverInv, Kinds
<1>3. Takes(pipe, data, r)
  <2>1. CASE sink = "buffer"
    BY <1>0, <1>1, <1>2, <2>1, WriteBufferTakes
  <2>2. CASE sink = "octet"
    BY <1>0, <1>1, <1>2, <2>2, WriteOctetsTakes
  <2>3. CASE sink = "block"
    BY <1>0, <1>1, <1>2, <2>3, WriteBlockTakes
  <2>. QED BY <1>2, <2>1, <2>2, <2>3 DEF Kinds
<1>4. Left = UnreadOf(pipe.buf) /\ Left' = UnreadOf(r.pipe.buf)
  BY <1>1, <1>2, LeftIs DEF LeftOf
<1>5. r.pipe \in Pipes
  BY <1>3, AnswerFields DEF Takes
<1>6. DriverInv'
  BY <1>1, <1>2, <1>5 DEF DriverInv
<1>7. answer'.op = "write" /\ answer'.octets = r.octets
  BY <1>1, <1>3 DEF Takes
<1>8. Left' = Left \o answer'.octets
  BY <1>3, <1>4, <1>7 DEF Takes
<1>9. Kept(Left, Left', answer')
  BY <1>7, <1>8 DEF Kept
<1>. QED BY <1>6, <1>9 DEF Steps

\* The owner of the memory.
LEMMA OwnerSteps ==
  ASSUME DriverInv, source # "chunks", NEW op, NEW p \in Pipes, Owner(op, p),
         \/ op = "attach" /\ UnreadOf(p.buf) = <<>>
         \/ op \in {"rewind", "set"} /\ UnreadOf(p.buf) = UnreadOf(pipe.buf)
  PROVE  Steps
<1>1. pipe' = p /\ answer'.op = op /\ UNCHANGED <<source, sink, chunks>>
  BY DEF Owner
<1>2. Left = UnreadOf(pipe.buf) /\ Left' = UnreadOf(p.buf)
  BY <1>1, LeftIs DEF LeftOf
<1>3. DriverInv'
  BY <1>1 DEF DriverInv
<1>4. Kept(Left, Left', answer')
  BY <1>1, <1>2 DEF Kept
<1>. QED BY <1>3, <1>4 DEF Steps

\* What the owner sets beside the buffer.
LEMMA PartsSet ==
  /\ \A q \in Pipes : /\ \A n \in Nat : [q EXCEPT !.chunksize = n] \in Pipes
                                       /\ [q EXCEPT !.chunksize = n].buf = q.buf
                     /\ \A end \in Ends : /\ [q EXCEPT !.read = end] \in Pipes
                                          /\ [q EXCEPT !.read = end].buf = q.buf
                                          /\ [q EXCEPT !.write = end] \in Pipes
                                          /\ [q EXCEPT !.write = end].buf = q.buf
  /\ \A end \in Ends : /\ \A e \in Failures : [end EXCEPT !.error = e] \in Ends
                       /\ [end EXCEPT !.accesses = 0] \in Ends
<1>1. \A q \in Pipes : /\ \A n \in Nat : [q EXCEPT !.chunksize = n] \in Pipes
                                         /\ [q EXCEPT !.chunksize = n].buf = q.buf
                       /\ \A end \in Ends : /\ [q EXCEPT !.read = end] \in Pipes
                                            /\ [q EXCEPT !.read = end].buf = q.buf
                                            /\ [q EXCEPT !.write = end] \in Pipes
                                            /\ [q EXCEPT !.write = end].buf = q.buf
  BY DEF Pipes
<1>2. \A end \in Ends : /\ \A e \in Failures : [end EXCEPT !.error = e] \in Ends
                        /\ [end EXCEPT !.accesses = 0] \in Ends
  BY DEF Ends
<1>. QED BY <1>1, <1>2, Zenon

LEMMA ErrorsSet ==
  ASSUME NEW p \in Pipes, NEW e \in Failures, NEW f \in Failures
  PROVE  /\ [p EXCEPT !.read.error = e, !.write.error = f] \in Pipes
         /\ [p EXCEPT !.read.error = e, !.write.error = f].buf = p.buf
         /\ [p EXCEPT !.write.error = f, !.read.error = e] \in Pipes
         /\ [p EXCEPT !.write.error = f, !.read.error = e].buf = p.buf
<1>1. ASSUME NEW q \in Pipes, NEW a \in Failures
      PROVE  /\ [q EXCEPT !.read.error = a] \in Pipes /\ [q EXCEPT !.read.error = a].buf = q.buf
             /\ [q EXCEPT !.write.error = a] \in Pipes /\ [q EXCEPT !.write.error = a].buf = q.buf
  <2>. DEFINE r == [q.read EXCEPT !.error = a]
              w == [q.write EXCEPT !.error = a]
  <2>1. r \in Ends /\ w \in Ends
    BY PartsSet, PipeFields
  <2>2. [q EXCEPT !.read.error = a] = [q EXCEPT !.read = r]
        /\ [q EXCEPT !.write.error = a] = [q EXCEPT !.write = w]
    OBVIOUS
  <2>. HIDE DEF r, w
  <2>3. [q EXCEPT !.read = r] \in Pipes /\ [q EXCEPT !.read = r].buf = q.buf
    BY PartsSet, <2>1, Zenon
  <2>4. [q EXCEPT !.write = w] \in Pipes /\ [q EXCEPT !.write = w].buf = q.buf
    BY PartsSet, <2>1, Zenon
  <2>. QED BY <2>2, <2>3, <2>4, Zenon
<1>. DEFINE q == [p EXCEPT !.read.error = e]
            v == [p EXCEPT !.write.error = f]
<1>2. q \in Pipes /\ q.buf = p.buf /\ v \in Pipes /\ v.buf = p.buf
  BY <1>1
<1>3. [p EXCEPT !.read.error = e, !.write.error = f] = [q EXCEPT !.write.error = f]
      /\ [p EXCEPT !.write.error = f, !.read.error = e] = [v EXCEPT !.read.error = e]
  OBVIOUS
<1>. HIDE DEF q, v
<1>4. /\ [q EXCEPT !.write.error = f] \in Pipes /\ [q EXCEPT !.write.error = f].buf = q.buf
      /\ [v EXCEPT !.read.error = e] \in Pipes /\ [v EXCEPT !.read.error = e].buf = v.buf
  BY <1>1, <1>2
<1>. QED BY <1>2, <1>3, <1>4

LEMMA Instructed ==
  ASSUME NEW p \in Pipes
  PROVE  /\ \A n \in Nat : [p EXCEPT !.chunksize = n] \in Pipes
                           /\ [p EXCEPT !.chunksize = n].buf = p.buf
         /\ [p EXCEPT !.read.accesses = 0] \in Pipes
         /\ [p EXCEPT !.read.accesses = 0].buf = p.buf
         /\ [p EXCEPT !.write.accesses = 0] \in Pipes
         /\ [p EXCEPT !.write.accesses = 0].buf = p.buf
<1>. DEFINE r == [p.read EXCEPT !.accesses = 0]
            w == [p.write EXCEPT !.accesses = 0]
<1>1. r \in Ends /\ w \in Ends
  BY PartsSet, PipeFields
<1>2. [p EXCEPT !.read.accesses = 0] = [p EXCEPT !.read = r]
      /\ [p EXCEPT !.write.accesses = 0] = [p EXCEPT !.write = w]
  OBVIOUS
<1>. HIDE DEF r, w
<1>3. [p EXCEPT !.read = r] \in Pipes /\ [p EXCEPT !.read = r].buf = p.buf
  BY PartsSet, <1>1, Zenon
<1>4. [p EXCEPT !.write = w] \in Pipes /\ [p EXCEPT !.write = w].buf = p.buf
  BY PartsSet, <1>1, Zenon
<1>. QED BY <1>2, <1>3, <1>4, PartsSet, Zenon

LEMMA OwnersSteps ==
  ASSUME DriverInv,
         \/ Compact \/ Attach \/ ResetStats
         \/ \E n \in 0 .. MaxAsked : Chunksize(n)
         \/ \E error \in Orders : Tell(error)
  PROVE  Steps
<1>1. pipe \in Pipes
  BY DEF DriverInv
<1>2. source # "chunks"
  BY DEF Compact, Attach, ResetStats, Chunksize, Tell, Instrumented, DriverInv, Kinds
<1>3. CASE Compact
  <2>. DEFINE b == pipe.buf
              r == D!Rewind(b)
              p == [pipe EXCEPT !.buf = r.buf]
  <2>1. Owner("rewind", p)
    BY <1>3 DEF Compact
  <2>2. r.buf \in Buffers /\ UnreadOf(r.buf) = UnreadOf(b)
    BY <1>1, PipeFields, Rewinding
  <2>. HIDE DEF r
  <2>3. p \in Pipes /\ p.buf = r.buf
    BY <1>1, <2>2, WithBuffer
  <2>. HIDE DEF p
  <2>. QED BY <1>2, <2>1, <2>2, <2>3, OwnerSteps
<1>4. CASE Attach
  BY <1>2, <1>4, FreshIs, OwnerSteps DEF Attach
<1>5. CASE ResetStats
  <2>1. PICK p \in {[pipe EXCEPT !.read.accesses = 0], [pipe EXCEPT !.write.accesses = 0]} :
          Owner("set", p)
    BY <1>5 DEF ResetStats
  <2>2. p \in Pipes /\ p.buf = pipe.buf
    BY <1>1, <2>1, Instructed
  <2>. QED BY <1>2, <2>1, <2>2, OwnerSteps
<1>6. ASSUME NEW n \in 0 .. MaxAsked, Chunksize(n)
      PROVE  Steps
  <2>. DEFINE p == [pipe EXCEPT !.chunksize = n]
  <2>1. Owner("set", p)
    BY <1>6 DEF Chunksize
  <2>2. n \in Nat
    BY PipeAssumption
  <2>3. p \in Pipes /\ p.buf = pipe.buf
    BY <1>1, <2>2, Instructed
  <2>. HIDE DEF p
  <2>. QED BY <1>2, <2>1, <2>3, OwnerSteps
<1>7. ASSUME NEW error \in Orders, Tell(error)
      PROVE  Steps
  <2>1. error \in Failures /\ NoError \in Failures
    <3>1. NoError \in Failures
      BY DEF NoError, Failures
    <3>2. CASE error \in [flag : {"until success", "until failure"}, at : 1 .. PipeSize,
                          number : {0, EIO}]
      <4>. DEFINE Places == 1 .. PipeSize
      <4>1. \A place \in Places : place \in Nat
        BY PipeAssumption
      <4>. HIDE DEF Places
      <4>2. error \in [flag : {"until success", "until failure"}, at : Places, number : {0, EIO}]
        BY <3>2 DEF Places
      <4>3. error \in Failures
        BY <4>1, <4>2 DEF Failures
      <4>. QED BY <3>1, <4>3
    <3>. QED BY <3>1, <3>2 DEF Orders
  <2>2. PICK p \in {[pipe EXCEPT !.read.error = error, !.write.error = NoError],
                    [pipe EXCEPT !.write.error = error, !.read.error = NoError]} : Owner("set", p)
    BY <1>7 DEF Tell
  <2>3. p \in Pipes /\ p.buf = pipe.buf
    <3>. DEFINE reads  == [pipe EXCEPT !.read.error = error, !.write.error = NoError]
                writes == [pipe EXCEPT !.write.error = error, !.read.error = NoError]
    <3>1. reads \in Pipes /\ reads.buf = pipe.buf /\ writes \in Pipes /\ writes.buf = pipe.buf
      <4>1. ASSUME NEW e \in Failures, NEW f \in Failures
            PROVE  /\ [pipe EXCEPT !.read.error = e, !.write.error = f] \in Pipes
                   /\ [pipe EXCEPT !.read.error = e, !.write.error = f].buf = pipe.buf
                   /\ [pipe EXCEPT !.write.error = f, !.read.error = e] \in Pipes
                   /\ [pipe EXCEPT !.write.error = f, !.read.error = e].buf = pipe.buf
        BY <1>1, ErrorsSet, Zenon
      <4>. QED BY <2>1, <4>1
    <3>. HIDE DEF reads, writes
    <3>. QED BY <2>2, <3>1 DEF reads, writes
  <2>. QED BY <1>2, <2>2, <2>3, OwnerSteps
<1>. QED BY <1>3, <1>4, <1>5, <1>6, <1>7

LEMMA EveryStep == DriverInv /\ DriverNext => Steps
BY ReadSteps, WriteSteps, OwnersSteps DEF DriverNext

\* Every driver reports what it transferred and nothing else, so that of what the source
\* has to give nothing is lost, doubled or reordered, whatever a call moved inside before
\* it failed; and ENODATA, for which transfers stop, means that nothing is left.
THEOREM DriversReportAll == DriverSpec => DriversKeepContract
<1>1. DriverInv /\ [DriverNext]_driverVars => DriverInv'
  <2>1. DriverInv /\ UNCHANGED driverVars => DriverInv'
    BY DEF DriverInv, driverVars
  <2>. QED BY <2>1, EveryStep DEF Steps
<1>2. DriverInv /\ [DriverNext]_driverVars =>
        [CASE answer'.op = "read" /\ answer'.rc > 0 ->
                /\ answer'.rc = Len(answer'.octets) /\ answer'.rc <= answer'.n
                /\ Left = answer'.octets \o Left'
           [] answer'.op = "read" /\ answer'.rc <= 0 ->
                /\ Left' = Left
                /\ answer'.rc = ENODATA => Left = <<>>
           [] answer'.op = "write" ->
                Left' = Left \o answer'.octets
           [] answer'.op = "attach" -> Left' = <<>>
           [] OTHER -> Left' = Left]_driverVars
  <2>1. ASSUME Kept(Left, Left', answer')
        PROVE  CASE answer'.op = "read" /\ answer'.rc > 0 ->
                      /\ answer'.rc = Len(answer'.octets) /\ answer'.rc <= answer'.n
                      /\ Left = answer'.octets \o Left'
                 [] answer'.op = "read" /\ answer'.rc <= 0 ->
                      /\ Left' = Left
                      /\ answer'.rc = ENODATA => Left = <<>>
                 [] answer'.op = "write" ->
                      Left' = Left \o answer'.octets
                 [] answer'.op = "attach" -> Left' = <<>>
                 [] OTHER -> Left' = Left
    <3>1. CASE answer'.op = "read" /\ answer'.rc > 0
      BY <2>1, <3>1 DEF Kept
    <3>2. CASE answer'.op = "read" /\ ~(answer'.rc > 0)
      <4>1. answer'.rc <= 0
        BY <2>1, <3>2 DEF Kept
      <4>. QED BY <2>1, <3>2, <4>1 DEF Kept
    <3>3. CASE answer'.op # "read"
      BY <2>1, <3>3 DEF Kept
    <3>. QED BY <3>1, <3>2, <3>3
  <2>. QED BY <2>1, EveryStep DEF Steps
<1>. QED BY <1>1, <1>2, DriversBegin, PTL DEF DriverSpec, DriversKeepContract
================================================================================
