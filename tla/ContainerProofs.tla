----------------------------- MODULE ContainerProofs -----------------------------
(***************************************************************************)
(* Proofs about the containers of octets, for memory of every size and     *)
(* items of every kind: the ring is a bounded queue and its iterators show *)
(* what it held, the byte buffer is a log with a mark, and numbers that    *)
(* are stored in memory are read from it.                                  *)
(***************************************************************************)
EXTENDS RingIterator, ByteBufferUser, Numbers, Recursion, SequenceTheorems, TLAPS

(***************************************************************************)
(* The ring.                                                               *)
(*                                                                         *)
(* The argument is about ContentOf(d, h, t), the items between two indices: *)
(* moving the tail drops the oldest item (DropOldest), storing at the head *)
(* of a ring that is not full appends one (AppendNewest).  A put into a    *)
(* full ring that overrides is one after the other.                        *)
(***************************************************************************)

Tails == Slot \cup {DataSize}

ContentOf(d, h, t) == [i \in 1 .. Size(h, t) |-> d[SlotOf(t, i)]]

\* octet_ring_advance_head() without the remainder.
LEMMA SuccLemma ==
  \A i \in Slot : Succ(i) \in Slot /\ Succ(i) = IF i = DataSize - 1 THEN 0 ELSE i + 1
  BY DataSizeAssumption, SMTT(30) DEF Slot, Succ

\* octet_ring_size() of all pairs of indices: empty and full are its extremes.
LEMMA SizeLemma ==
  ASSUME NEW h \in Slot, NEW t \in Tails
  PROVE  /\ Size(h, t) \in 0 .. DataSize
         /\ Size(h, t) = 0 <=> t = DataSize
         /\ Size(h, t) = DataSize <=> t = h
  BY DataSizeAssumption DEF Slot, Tails, Size, Empty

\* The occupied slots are slots, and the head is not one of them.
LEMMA SlotOfLemma ==
  ASSUME NEW h \in Slot, NEW t \in Tails, t # h, NEW i \in 1 .. Size(h, t)
  PROVE  SlotOf(t, i) \in Slot /\ SlotOf(t, i) # h
  BY DataSizeAssumption DEF Slot, Tails, Size, Empty, SlotOf

LEMMA ContentType ==
  ASSUME NEW h \in Slot, NEW t \in Tails, NEW d \in [Slot -> Item]
  PROVE  /\ ContentOf(d, h, t) \in Seq(Item)
         /\ Len(ContentOf(d, h, t)) = Size(h, t)
<1>1. ASSUME NEW i \in 1 .. Size(h, t) PROVE SlotOf(t, i) \in Slot
  BY DataSizeAssumption DEF Slot, Tails, Size, Empty, SlotOf
<1>2. Size(h, t) \in Nat
  BY SizeLemma, DataSizeAssumption
<1>3. ContentOf(d, h, t) \in [1 .. Size(h, t) -> Item]
  BY <1>1 DEF ContentOf
<1>. QED
  BY <1>2, <1>3

LEMMA AdvanceTailLemma ==
  ASSUME NEW h \in Slot, NEW t \in Slot
  PROVE  /\ AdvanceTail(h, t) \in Tails
         /\ AdvanceTail(h, t) # h
         /\ Size(h, AdvanceTail(h, t)) = Size(h, t) - 1
         /\ \A i \in 1 .. Size(h, t) - 1 :
              SlotOf(AdvanceTail(h, t), i) = SlotOf(t, i + 1)
<1>1. Succ(t) = IF t = DataSize - 1 THEN 0 ELSE t + 1
  BY SuccLemma
<1>. QED
  BY <1>1, DataSizeAssumption DEF Slot, Tails, AdvanceTail, Size, Empty, SlotOf

\* Moving the tail drops the oldest item.
LEMMA DropOldest ==
  ASSUME NEW h \in Slot, NEW t \in Slot, NEW d \in [Slot -> Item]
  PROVE  /\ ContentOf(d, h, t) # << >>
         /\ ContentOf(d, h, AdvanceTail(h, t)) = Tail(ContentOf(d, h, t))
         /\ d[t] = Head(ContentOf(d, h, t))
<1>. DEFINE old == ContentOf(d, h, t)
            n == Size(h, t)
            t1 == AdvanceTail(h, t)
            new == ContentOf(d, h, t1)
<1>1. t \in Tails /\ t1 \in Tails /\ Size(h, t1) = n - 1
      /\ \A i \in 1 .. n - 1 : SlotOf(t1, i) = SlotOf(t, i + 1)
  BY AdvanceTailLemma DEF Tails
<1>2. old \in Seq(Item) /\ Len(old) = n /\ new \in Seq(Item) /\ Len(new) = n - 1
  BY <1>1, ContentType
<1>3. n \in 1 .. DataSize
  BY <1>1, SizeLemma, DataSizeAssumption DEF Slot
<1>4. old # << >>
  BY <1>2, <1>3
<1>5. Tail(old) \in Seq(Item) /\ Len(Tail(old)) = n - 1
      /\ \A i \in 1 .. n - 1 : Tail(old)[i] = old[i + 1]
  BY <1>2, <1>3, <1>4
<1>6. ASSUME NEW i \in 1 .. n - 1 PROVE new[i] = old[i + 1]
  <2>1. new[i] = d[SlotOf(t1, i)]
    BY <1>1 DEF ContentOf
  <2>2. i + 1 \in 1 .. n
    BY <1>3
  <2>3. old[i + 1] = d[SlotOf(t, i + 1)]
    BY <2>2 DEF ContentOf
  <2>. QED
    BY <1>1, <2>1, <2>3
<1>7. new = Tail(old)
  BY <1>2, <1>5, <1>6, SeqEqual
<1>8. d[t] = Head(old)
  <2>1. SlotOf(t, 1) = t
    BY DataSizeAssumption DEF Slot, SlotOf
  <2>2. old[1] = d[SlotOf(t, 1)]
    BY <1>3 DEF ContentOf
  <2>. QED
    BY <1>2, <1>4, <2>1, <2>2
<1>. QED
  BY <1>4, <1>7, <1>8

\* Storing at the head of a ring that is not full appends the item.
LEMMA AppendNewest ==
  ASSUME NEW h \in Slot, NEW t \in Tails, t # h, NEW d \in [Slot -> Item], NEW x \in Item
  PROVE  ContentOf([d EXCEPT ![h] = x], Succ(h), IF Empty(t) THEN h ELSE t)
           = Append(ContentOf(d, h, t), x)
<1>. DEFINE old == ContentOf(d, h, t)
            n == Size(h, t)
            h1 == Succ(h)
            t1 == IF Empty(t) THEN h ELSE t
            d1 == [d EXCEPT ![h] = x]
            new == ContentOf(d1, h1, t1)
<1>1. h1 \in Slot /\ h1 = IF h = DataSize - 1 THEN 0 ELSE h + 1
  BY SuccLemma
<1>2. t1 \in Slot /\ t1 \in Tails
  BY DEF Tails, Empty
<1>3. d1 \in [Slot -> Item]
  OBVIOUS
<1>4. n \in 0 .. DataSize /\ n \in Nat
  BY SizeLemma, DataSizeAssumption
<1>5. Size(h1, t1) = n + 1
  BY <1>1, DataSizeAssumption DEF Slot, Tails, Size, Empty
<1>6. SlotOf(t1, n + 1) = h
  BY DataSizeAssumption DEF Slot, Tails, Size, Empty, SlotOf
<1>7. ASSUME NEW i \in 1 .. n PROVE SlotOf(t1, i) = SlotOf(t, i)
  BY DataSizeAssumption DEF Slot, Tails, Size, Empty
<1>8. old \in Seq(Item) /\ Len(old) = n /\ new \in Seq(Item) /\ Len(new) = n + 1
  BY <1>1, <1>2, <1>3, <1>5, ContentType
<1>9. Append(old, x) \in Seq(Item) /\ Len(Append(old, x)) = n + 1
      /\ Append(old, x)[n + 1] = x
      /\ \A i \in 1 .. n : Append(old, x)[i] = old[i]
  BY <1>4, <1>8
<1>10. ASSUME NEW i \in 1 .. n + 1 PROVE new[i] = Append(old, x)[i]
  <2>1. new[i] = d1[SlotOf(t1, i)]
    BY <1>5 DEF ContentOf
  <2>2. CASE i = n + 1
    BY <1>6, <1>9, <2>1, <2>2
  <2>3. CASE i # n + 1
    <3>1. i \in 1 .. n
      BY <1>4, <2>3
    <3>2. SlotOf(t, i) \in Slot /\ SlotOf(t, i) # h
      BY <3>1, SlotOfLemma
    <3>3. new[i] = d[SlotOf(t, i)]
      BY <1>7, <2>1, <3>1, <3>2
    <3>4. old[i] = d[SlotOf(t, i)]
      BY <3>1 DEF ContentOf
    <3>. QED
      BY <1>9, <3>1, <3>3, <3>4
  <2>. QED
    BY <2>2, <2>3
<1>. QED
  BY <1>8, <1>9, <1>10, SeqEqual

\* The indices stay in the memory, or at the encoding of the empty ring: the
\* type of the state is an invariant by itself.
LEMMA InitType == Init => TypeOK
<1>1. 0 \in Slot
  BY DataSizeAssumption DEF Slot
<1>. QED
  BY <1>1, ZeroAssumption DEF Init, TypeOK

LEMMA StoreType ==
  ASSUME TypeOK, NEW x \in Item, NEW t \in Tails, Store(x, t)
  PROVE  TypeOK'
<1>1. Succ(head) \in Slot
  BY SuccLemma DEF TypeOK
<1>. QED
  BY <1>1 DEF TypeOK, Store, Tails

LEMMA StepType == TypeOK /\ [Next]_vars => TypeOK'
<1>. SUFFICES ASSUME TypeOK, [Next]_vars
              PROVE  TypeOK'
  OBVIOUS
<1>1. ASSUME NEW x \in Item, Put(x) PROVE TypeOK'
  <2>1. CASE Rejects
    BY <1>1, <2>1 DEF Put, TypeOK, vars
  <2>2. CASE ~Rejects
    <3>. DEFINE t == IF Full(head, tail) THEN AdvanceTail(head, tail) ELSE tail
    <3>1. t \in Tails
      BY AdvanceTailLemma DEF TypeOK, Tails, Full
    <3>2. Store(x, t)
      BY <1>1, <2>2 DEF Put
    <3>. QED
      BY <3>1, <3>2, StoreType
  <2>. QED
    BY <2>1, <2>2
<1>2. CASE Get
  <2>1. ~Empty(tail) => tail \in Slot /\ AdvanceTail(head, tail) \in Tails
    BY AdvanceTailLemma DEF TypeOK, Empty
  <2>. QED
    BY <1>2, <2>1, ZeroAssumption DEF Get, TypeOK, Tails
<1>3. CASE Clear
  BY <1>3 DEF Clear, TypeOK
<1>4. ASSUME NEW state \in BOOLEAN, OverrideIfFull(state) PROVE TypeOK'
  BY <1>4 DEF OverrideIfFull, TypeOK
<1>5. CASE UNCHANGED vars
  BY <1>5 DEF vars, TypeOK
<1>. QED
  BY <1>1, <1>2, <1>3, <1>4, <1>5 DEF Next

\* Both indices of include/ufw/ring-buffer.h stay in bounds in every behaviour.
THEOREM TypeCorrect == Spec => []TypeOK
  BY InitType, StepType, PTL DEF Spec

(***************************************************************************)
(* The refinement: one lemma per operation.                                *)
(***************************************************************************)

LEMMA ContentIsContentOf == Content = ContentOf(data, head, tail)
  BY DEF Content, ContentOf

LEMMA ContentIsContentOfNext == Content' = ContentOf(data', head', tail')
  BY DEF Content, ContentOf, SlotOf, Size, Empty

LEMMA InitRefines == Init => Fifo!FifoInit
<1>. SUFFICES ASSUME Init PROVE Content = << >>
  BY DEF Init, Fifo!FifoInit
<1>1. head \in Slot /\ tail \in Tails /\ data \in [Slot -> Item] /\ tail = DataSize
  BY InitType DEF Init, TypeOK, Tails
<1>2. Len(Content) = 0 /\ Content \in Seq(Item)
  BY <1>1, ContentType, SizeLemma, ContentIsContentOf
<1>. QED
  BY <1>2

\* octet_ring_put() of all three kinds.
LEMMA PutRefines ==
  ASSUME TypeOK, NEW x \in Item, Put(x)
  PROVE  Fifo!FifoPut(x)
<1>1. head \in Slot /\ tail \in Tails /\ data \in [Slot -> Item]
  BY DEF TypeOK, Tails
<1>2. Content \in Seq(Item) /\ Len(Content) = Size(head, tail)
  BY <1>1, ContentType, ContentIsContentOf
<1>3. Len(Content) \in 0 .. DataSize /\ (Len(Content) = DataSize <=> Full(head, tail))
  BY <1>1, <1>2, SizeLemma DEF Full
<1>4. CASE Rejects
  <2>1. Content' = Content
    BY <1>4, ContentIsContentOf, ContentIsContentOfNext DEF Put, vars
  <2>. QED
    BY <1>3, <1>4, <2>1 DEF Put, Rejects, vars, Fifo!FifoPut
<1>5. CASE ~Rejects /\ ~Full(head, tail)
  <2>1. Store(x, tail)
    BY <1>5 DEF Put
  <2>2. Content' = Append(Content, x)
    BY <1>1, <1>5, <2>1, AppendNewest, ContentIsContentOf, ContentIsContentOfNext
       DEF Store, Full
  <2>. QED
    BY <1>3, <1>5, <2>1, <2>2, DataSizeAssumption DEF Store, Fifo!FifoPut
<1>6. CASE ~Rejects /\ Full(head, tail)
  <2>. DEFINE t == AdvanceTail(head, tail)
  <2>1. Store(x, t) /\ override
    BY <1>6 DEF Put, Rejects, TypeOK
  <2>2. tail \in Slot /\ t \in Tails /\ t # head
    BY <1>1, <1>6, AdvanceTailLemma DEF Full
  <2>3. Content' = Append(ContentOf(data, head, t), x)
    BY <1>1, <2>1, <2>2, AppendNewest, ContentIsContentOfNext DEF Store
  <2>4. Content' = Append(Tail(Content), x)
    BY <1>1, <2>2, <2>3, DropOldest, ContentIsContentOf
  <2>. QED
    BY <1>3, <1>6, <2>1, <2>4 DEF Store, Fifo!FifoPut
<1>. QED
  BY <1>4, <1>5, <1>6

\* octet_ring_get() of an empty ring, and of one with something in it.
LEMMA GetRefines ==
  ASSUME TypeOK, Get
  PROVE  Fifo!FifoGet
<1>1. head \in Slot /\ tail \in Tails /\ data \in [Slot -> Item]
  BY DEF TypeOK, Tails
<1>2. Content \in Seq(Item) /\ Len(Content) = Size(head, tail)
  BY <1>1, ContentType, ContentIsContentOf
<1>3. CASE Empty(tail)
  <2>1. Len(Content) = 0
    BY <1>1, <1>2, <1>3, SizeLemma DEF Empty
  <2>2. Content = << >>
    BY <1>2, <2>1
  <2>3. Content' = Content
    BY <1>3, ContentIsContentOf, ContentIsContentOfNext DEF Get
  <2>. QED
    BY <1>3, <2>2, <2>3 DEF Get, Fifo!FifoGet
<1>4. CASE ~Empty(tail)
  <2>1. tail \in Slot
    BY <1>1, <1>4 DEF Tails, Empty
  <2>2. Content # << >> /\ data[tail] = Head(Content)
        /\ ContentOf(data, head, AdvanceTail(head, tail)) = Tail(Content)
    BY <1>1, <2>1, DropOldest, ContentIsContentOf
  <2>3. Content' = Tail(Content)
    BY <1>4, <2>2, ContentIsContentOfNext DEF Get
  <2>. QED
    BY <1>4, <2>2, <2>3 DEF Get, Fifo!FifoGet
<1>. QED
  BY <1>3, <1>4

\* octet_ring_clear()
LEMMA ClearRefines ==
  ASSUME TypeOK, Clear
  PROVE  Fifo!FifoClear
<1>1. head' \in Slot /\ tail' \in Tails /\ data' \in [Slot -> Item] /\ tail' = DataSize
  BY DEF TypeOK, Tails, Clear
<1>2. Len(Content') = 0 /\ Content' \in Seq(Item)
  BY <1>1, ContentType, SizeLemma, ContentIsContentOfNext
<1>3. Content' = << >>
  BY <1>2
<1>. QED
  BY <1>3 DEF Clear, Fifo!FifoClear

LEMMA StepRefines == TypeOK /\ [Next]_vars => [Fifo!FifoNext]_(Fifo!fifoVars)
<1>. SUFFICES ASSUME TypeOK, [Next]_vars
              PROVE  [Fifo!FifoNext]_(Fifo!fifoVars)
  OBVIOUS
<1>1. ASSUME NEW x \in Item, Put(x) PROVE Fifo!FifoNext
  BY <1>1, PutRefines DEF Fifo!FifoNext
<1>2. CASE Get
  BY <1>2, GetRefines DEF Fifo!FifoNext
<1>3. CASE Clear
  BY <1>3, ClearRefines DEF Fifo!FifoNext
<1>4. ASSUME NEW state \in BOOLEAN, OverrideIfFull(state) PROVE Fifo!FifoNext
  <2>1. Content' = Content
    BY <1>4, ContentIsContentOf, ContentIsContentOfNext DEF OverrideIfFull
  <2>. QED
    BY <1>4, <2>1 DEF OverrideIfFull, Fifo!FifoNext, Fifo!FifoSetOverride
<1>5. CASE UNCHANGED vars
  <2>1. Content' = Content
    BY <1>5, ContentIsContentOf, ContentIsContentOfNext DEF vars
  <2>. QED
    BY <1>5, <2>1 DEF vars, Fifo!fifoVars
<1>. QED
  BY <1>1, <1>2, <1>3, <1>4, <1>5 DEF Next

\* The functions of include/ufw/ring-buffer.h implement the bounded queue of
\* BoundedFifo, for every memory size and every set of items.
THEOREM RingImplementsFifo == Spec => ImplementsFifo
<1>1. Spec => []TypeOK
  BY TypeCorrect
<1>. QED
  BY <1>1, InitRefines, StepRefines, PTL DEF Spec, ImplementsFifo, Fifo!FifoSpec

(***************************************************************************)
(* Iterators.  What is ahead of one are the slots it will still visit.     *)
(* They hold the items of the snapshot, and the ring does not store into   *)
(* them before it has stored into as many others as spare says: that is    *)
(* how far they lie behind head.                                           *)
(***************************************************************************)

Upcoming(i, mode, j) ==
  IF mode = "old_to_new" THEN IF i + j < DataSize THEN i + j ELSE i + j - DataSize
  ELSE IF i >= j THEN i - j ELSE i - j + DataSize

Distance(h, s) == IF s >= h THEN s - h ELSE s - h + DataSize

IterShape ==
  /\ iter \in [steps : 0 .. DataSize, index : 0 .. DataSize, mode : Modes]
  /\ iter.steps # 0 => iter.index \in Slot
  /\ snap \in Seq(Item) /\ iter.steps <= Len(snap)
  /\ spare \in Int

StillThere ==
  spare >= 0 =>
    \A j \in 0 .. iter.steps - 1 :
      /\ data[Upcoming(iter.index, iter.mode, j)] = snap[Len(snap) - iter.steps + 1 + j]
      /\ Distance(head, Upcoming(iter.index, iter.mode, j)) >= spare

IterInv == TypeOK /\ IterShape /\ StillThere

\* The slots ahead are slots, and one step ahead is what the next one visits.
LEMMA UpcomingType ==
  ASSUME NEW i \in Slot, NEW mode \in Modes, NEW j \in 0 .. DataSize - 1
  PROVE  /\ Upcoming(i, mode, j) \in Slot
         /\ Upcoming(i, mode, 0) = i
  BY DataSizeAssumption DEF Slot, Modes, Upcoming

LEMMA StepIndexIs ==
  ASSUME NEW i \in Slot, NEW mode \in Modes
  PROVE  /\ StepIndex(i, mode) \in Slot
         /\ \A j \in 0 .. DataSize - 2 :
              Upcoming(StepIndex(i, mode), mode, j) = Upcoming(i, mode, j + 1)
<1>1. Succ(i) \in Slot /\ Succ(i) = IF i = DataSize - 1 THEN 0 ELSE i + 1
  BY SuccLemma
<1>2. CASE mode = "old_to_new"
  <2>1. StepIndex(i, mode) = Succ(i)
    BY <1>2 DEF StepIndex
  <2>. QED BY <1>1, <1>2, <2>1, DataSizeAssumption DEF Slot, Upcoming
<1>3. CASE mode = "new_to_old"
  <2>1. StepIndex(i, mode) = IF i = 0 THEN DataSize - 1 ELSE i - 1
    BY <1>3 DEF StepIndex
  <2>. QED BY <1>3, <2>1, DataSizeAssumption DEF Slot, Upcoming
<1>. QED BY <1>2, <1>3 DEF Modes

\* A store moves head one slot closer to all others.
LEMMA StoreComesCloser ==
  ASSUME NEW h \in Slot, NEW s \in Slot, Distance(h, s) >= 1
  PROVE  s # h /\ Distance(Succ(h), s) = Distance(h, s) - 1
<1>1. Succ(h) \in Slot /\ Succ(h) = IF h = DataSize - 1 THEN 0 ELSE h + 1
  BY SuccLemma
<1>. QED BY <1>1, DataSizeAssumption DEF Slot, Distance

\* Where rb_iter() starts, and what is ahead: all items, in its direction.
LEMMA StartAhead ==
  ASSUME TypeOK, NEW mode \in Modes
  PROVE  /\ IterStart(mode) \in 0 .. DataSize
         /\ Size(head, tail) # 0 => IterStart(mode) \in Slot
         /\ \A j \in 0 .. Size(head, tail) - 1 :
              Upcoming(IterStart(mode), mode, j)
                = SlotOf(tail, IF mode = "old_to_new" THEN j + 1 ELSE Size(head, tail) - j)
<1>1. head \in Slot /\ tail \in Tails
  BY DEF TypeOK, Tails
<1>2. CASE mode = "old_to_new"
  <2>1. IterStart(mode) = tail
    BY <1>2 DEF IterStart
  <2>2. Size(head, tail) # 0 => tail \in Slot
    BY <1>1, SizeLemma DEF Tails
  <2>3. tail \in 0 .. DataSize
    BY <1>1, DataSizeAssumption DEF Tails, Slot
  <2>. QED BY <1>1, <1>2, <2>1, <2>2, <2>3, DataSizeAssumption DEF Upcoming, SlotOf, Slot, Size, Empty
<1>3. CASE mode = "new_to_old"
  <2>1. IterStart(mode) = IF head = 0 THEN DataSize - 1 ELSE head - 1
    BY <1>3 DEF IterStart
  <2>2. IterStart(mode) \in Slot /\ IterStart(mode) \in 0 .. DataSize
    BY <1>1, <2>1, DataSizeAssumption DEF Slot
  <2>3. ASSUME NEW j \in 0 .. Size(head, tail) - 1
        PROVE  Upcoming(IterStart(mode), mode, j) = SlotOf(tail, Size(head, tail) - j)
    <3>1. Upcoming(IterStart(mode), mode, j)
            = IF IterStart(mode) >= j THEN IterStart(mode) - j ELSE IterStart(mode) - j + DataSize
      BY <1>3 DEF Upcoming
    <3>. QED BY <1>1, <2>1, <3>1, DataSizeAssumption DEF Tails, SlotOf, Slot, Size, Empty
  <2>. QED BY <1>3, <2>2, <2>3
<1>. QED BY <1>2, <1>3 DEF Modes

\* The occupied slots are those that head reaches last.
LEMMA OccupiedAreFar ==
  ASSUME NEW h \in Slot, NEW t \in Tails, NEW i \in 1 .. Size(h, t)
  PROVE  SlotOf(t, i) \in Slot /\ Distance(h, SlotOf(t, i)) >= DataSize - Size(h, t)
  BY DataSizeAssumption DEF Slot, Tails, Size, Empty, SlotOf, Distance

LEMMA ConstructStep ==
  ASSUME IterInv, NEW mode \in Modes, Construct(mode)
  PROVE  IterInv'
<1>. DEFINE n == Size(head, tail)
            at == IterStart(mode)
<1>1. /\ iter' = [steps |-> n, index |-> at, mode |-> mode]
      /\ snap' = IF mode = "old_to_new" THEN Content ELSE Reversed(Content)
      /\ spare' = DataSize - n
      /\ UNCHANGED vars
  BY DEF Construct
<1>2. head \in Slot /\ tail \in Tails /\ data \in [Slot -> Item]
  BY DEF IterInv, TypeOK, Tails
<1>3. n \in 0 .. DataSize
  BY <1>2, SizeLemma
<1>4. Content \in Seq(Item) /\ Len(Content) = n
  BY <1>2, ContentType, ContentIsContentOf
<1>5. ASSUME NEW i \in 1 .. n PROVE Content[i] = data[SlotOf(tail, i)]
  BY DEF Content
<1>6. /\ at \in 0 .. DataSize
      /\ n # 0 => at \in Slot
      /\ \A j \in 0 .. n - 1 :
           Upcoming(at, mode, j) = SlotOf(tail, IF mode = "old_to_new" THEN j + 1 ELSE n - j)
  BY StartAhead DEF IterInv
<1>. HIDE DEF n, at
<1>7. /\ snap' \in Seq(Item) /\ Len(snap') = n
      /\ \A j \in 0 .. n - 1 :
           snap'[1 + j] = Content[IF mode = "old_to_new" THEN j + 1 ELSE n - j]
  <2>1. CASE mode = "old_to_new"
    BY <1>1, <1>3, <1>4, <2>1
  <2>2. CASE mode # "old_to_new"
    <3>1. snap' = [i \in 1 .. n |-> Content[n + 1 - i]]
      BY <1>1, <1>4, <2>2 DEF Reversed
    <3>2. \A i \in 1 .. n : n + 1 - i \in 1 .. n
      BY <1>3
    <3>3. snap' \in [1 .. n -> Item]
      BY <1>4, <3>1, <3>2
    <3>4. snap' \in Seq(Item) /\ Len(snap') = n
      BY <1>3, <3>3
    <3>5. ASSUME NEW j \in 0 .. n - 1 PROVE snap'[1 + j] = Content[n - j]
      <4>1. 1 + j \in 1 .. n /\ n + 1 - (1 + j) = n - j
        BY <1>3
      <4>. QED BY <3>1, <4>1
    <3>. QED BY <2>2, <3>4, <3>5
  <2>. QED BY <2>1, <2>2
<1>8. ASSUME NEW j \in 0 .. n - 1
      PROVE  /\ data[Upcoming(at, mode, j)] = snap'[1 + j]
             /\ Distance(head, Upcoming(at, mode, j)) >= DataSize - n
  <2>. DEFINE i == IF mode = "old_to_new" THEN j + 1 ELSE n - j
  <2>1. i \in 1 .. n
    BY <1>3
  <2>2. Upcoming(at, mode, j) = SlotOf(tail, i) /\ snap'[1 + j] = Content[i]
    BY <1>6, <1>7
  <2>. HIDE DEF i
  <2>3. Content[i] = data[SlotOf(tail, i)]
    BY <1>5, <2>1
  <2>4. Distance(head, SlotOf(tail, i)) >= DataSize - n
    BY <1>2, <2>1, OccupiedAreFar DEF n
  <2>. QED BY <2>2, <2>3, <2>4
<1>9. TypeOK'
  BY <1>1 DEF IterInv, TypeOK, vars
<1>10. IterShape'
  <2>1. iter' \in [steps : 0 .. DataSize, index : 0 .. DataSize, mode : Modes]
    BY <1>1, <1>3, <1>6
  <2>2. iter'.steps = n /\ iter'.index = at
    BY <1>1
  <2>3. n \in Int /\ n <= Len(snap') /\ spare' \in Int
    BY <1>1, <1>3, <1>7, DataSizeAssumption
  <2>. QED BY <1>6, <1>7, <2>1, <2>2, <2>3 DEF IterShape
<1>11. StillThere'
  <2>1. iter'.steps = n /\ iter'.index = at /\ iter'.mode = mode /\ Len(snap') - n + 1 = 1
    BY <1>1, <1>3, <1>7
  <2>2. data' = data /\ head' = head /\ spare' = DataSize - n
    BY <1>1 DEF vars
  <2>3. ASSUME NEW j \in 0 .. n - 1
        PROVE  /\ data'[Upcoming(at, mode, j)] = snap'[Len(snap') - n + 1 + j]
               /\ Distance(head', Upcoming(at, mode, j)) >= spare'
    BY <1>8, <2>1, <2>2
  <2>. QED BY <2>1, <2>3 DEF StillThere, Upcoming, Distance
<1>. QED BY <1>9, <1>10, <1>11 DEF IterInv

LEMMA AdvanceStep ==
  ASSUME IterInv, Advance
  PROVE  IterInv'
<1>. DEFINE n == iter.steps
            at == iter.index
            mode == iter.mode
            next == StepIndex(at, mode)
<1>1. /\ n # 0 /\ UNCHANGED <<vars, snap, spare>>
      /\ iter' = [iter EXCEPT !.index = StepIndex(@, iter.mode), !.steps = @ - 1]
  BY DEF Advance, IterDone
<1>2. n \in 1 .. DataSize /\ at \in Slot /\ mode \in Modes /\ n <= Len(snap) /\ Len(snap) \in Nat
  BY <1>1 DEF IterInv, IterShape
<1>3. iter' = [steps |-> n - 1, index |-> next, mode |-> mode]
  BY <1>1 DEF IterInv, IterShape
<1>4. next \in Slot /\ \A j \in 0 .. DataSize - 2 : Upcoming(next, mode, j) = Upcoming(at, mode, j + 1)
  BY <1>2, StepIndexIs
<1>. HIDE DEF next
<1>5. TypeOK'
  BY <1>1 DEF IterInv, TypeOK, vars
<1>6. IterShape'
  <2>1. next \in 0 .. DataSize /\ n - 1 \in 0 .. DataSize /\ n - 1 <= Len(snap)
    BY <1>2, <1>4, DataSizeAssumption DEF Slot
  <2>2. iter' \in [steps : 0 .. DataSize, index : 0 .. DataSize, mode : Modes]
    BY <1>2, <1>3, <2>1
  <2>3. iter'.steps = n - 1 /\ iter'.index = next
    BY <1>3
  <2>4. snap' = snap /\ spare' = spare /\ snap \in Seq(Item) /\ spare \in Int
    BY <1>1 DEF IterInv, IterShape
  <2>. QED BY <1>4, <2>1, <2>2, <2>3, <2>4 DEF IterShape
<1>7. StillThere'
  <2>1. iter'.steps = n - 1 /\ iter'.index = next /\ iter'.mode = mode
    BY <1>3
  <2>2. data' = data /\ head' = head /\ spare' = spare /\ snap' = snap
    BY <1>1 DEF vars
  <2>3. ASSUME spare >= 0, NEW j \in 0 .. n - 1 - 1
        PROVE  /\ data[Upcoming(next, mode, j)] = snap[Len(snap) - (n - 1) + 1 + j]
               /\ Distance(head, Upcoming(next, mode, j)) >= spare
    <3>1. j + 1 \in 0 .. n - 1 /\ j \in 0 .. DataSize - 2
          /\ Len(snap) - (n - 1) + 1 + j = Len(snap) - n + 1 + (j + 1)
      BY <1>2, DataSizeAssumption
    <3>2. Upcoming(next, mode, j) = Upcoming(at, mode, j + 1)
      BY <1>4, <3>1
    <3>3. /\ data[Upcoming(at, mode, j + 1)] = snap[Len(snap) - n + 1 + (j + 1)]
          /\ Distance(head, Upcoming(at, mode, j + 1)) >= spare
      BY <2>3, <3>1 DEF IterInv, StillThere
    <3>. QED BY <3>1, <3>2, <3>3
  <2>. QED BY <2>1, <2>2, <2>3 DEF StillThere, Upcoming, Distance
<1>. QED BY <1>5, <1>6, <1>7 DEF IterInv

\* A store reuses the slot at head, which is none of those ahead, or spare says so.
LEMMA PutStep ==
  ASSUME IterInv, NEW x \in Item, Put(x),
         spare' = IF Rejects \/ spare = -1 THEN spare ELSE spare - 1,
         UNCHANGED <<iter, snap>>
  PROVE  IterInv'
<1>1. TypeOK'
  BY StepType DEF IterInv, Next
<1>2. IterShape'
  BY DEF IterInv, IterShape
<1>3. StillThere'
  <2>1. CASE Rejects
    BY <2>1 DEF Put, vars, IterInv, StillThere, Upcoming, Distance
  <2>2. CASE ~Rejects
    <3>1. data' = [data EXCEPT ![head] = x] /\ head' = Succ(head)
      BY <2>2 DEF Put, Store
    <3>2. head \in Slot /\ data \in [Slot -> Item]
      BY DEF IterInv, TypeOK
    <3>3. ASSUME spare' >= 0 PROVE spare' = spare - 1 /\ spare >= 1
      BY <2>2, <3>3 DEF IterInv, IterShape
    <3>4. ASSUME spare' >= 0, NEW j \in 0 .. iter.steps - 1
          PROVE  LET s == Upcoming(iter.index, iter.mode, j)
                 IN  data'[s] = data[s] /\ Distance(head', s) >= spare'
      <4>. DEFINE s == Upcoming(iter.index, iter.mode, j)
      <4>1. iter.index \in Slot /\ iter.mode \in Modes /\ j \in 0 .. DataSize - 1
        BY DataSizeAssumption DEF IterInv, IterShape
      <4>2. s \in Slot
        BY <4>1, UpcomingType
      <4>3. Distance(head, s) >= spare
        BY <3>3, <3>4 DEF IterInv, StillThere, IterShape
      <4>. HIDE DEF s
      <4>4. Distance(head, s) \in Int /\ spare \in Int
        BY <3>2, <4>2, DataSizeAssumption DEF Distance, Slot, IterInv, IterShape
      <4>5. s # head /\ Distance(Succ(head), s) = Distance(head, s) - 1
        BY <3>2, <3>3, <3>4, <4>2, <4>3, <4>4, StoreComesCloser
      <4>6. data'[s] = data[s]
        BY <3>1, <3>2, <4>2, <4>5
      <4>7. Distance(head', s) >= spare'
        BY <3>1, <3>3, <3>4, <4>3, <4>4, <4>5
      <4>. QED BY <4>6, <4>7 DEF s
    <3>5. ASSUME spare' >= 0, NEW j \in 0 .. iter.steps - 1
          PROVE  data[Upcoming(iter.index, iter.mode, j)] = snap[Len(snap) - iter.steps + 1 + j]
      BY <3>3, <3>5 DEF IterInv, StillThere, IterShape
    <3>. QED BY <3>4, <3>5 DEF StillThere, Upcoming, Distance
  <2>. QED BY <2>1, <2>2
<1>. QED BY <1>1, <1>2, <1>3 DEF IterInv

\* The other calls store nothing.
LEMMA OtherCallsKeep ==
  ASSUME IterInv, Next, UNCHANGED <<data, head, iterVars>>
  PROVE  IterInv'
<1>1. TypeOK'
  BY StepType DEF IterInv
<1>. QED BY <1>1 DEF IterInv, IterShape, StillThere, Upcoming, Distance, iterVars

LEMMA IterInitially == IterInit => IterInv
<1>. SUFFICES ASSUME IterInit PROVE IterInv
  OBVIOUS
<1>1. TypeOK
  BY InitType DEF IterInit
<1>2. iter = [steps |-> 0, index |-> 0, mode |-> "old_to_new"] /\ snap = <<>> /\ spare = DataSize
  BY DEF IterInit
<1>3. IterShape
  BY <1>2, DataSizeAssumption DEF IterShape, Modes
<1>4. StillThere
  BY <1>2 DEF StillThere
<1>. QED BY <1>1, <1>3, <1>4 DEF IterInv

LEMMA IterStep == IterInv /\ [IterNext]_<<vars, iterVars>> => IterInv'
<1>. SUFFICES ASSUME IterInv, [IterNext]_<<vars, iterVars>> PROVE IterInv'
  OBVIOUS
<1>1. ASSUME NEW mode \in Modes, Construct(mode) PROVE IterInv'
  BY <1>1, ConstructStep
<1>2. CASE Advance
  BY <1>2, AdvanceStep
<1>3. CASE UseRing
  <2>1. ASSUME NEW x \in Item, Put(x),
               spare' = IF Rejects \/ spare = -1 THEN spare ELSE spare - 1, UNCHANGED <<iter, snap>>
        PROVE  IterInv'
    BY <2>1, PutStep
  <2>2. ASSUME Get \/ Clear, UNCHANGED iterVars PROVE IterInv'
    BY <2>2, OtherCallsKeep DEF Next, Get, Clear
  <2>3. ASSUME NEW state \in BOOLEAN, OverrideIfFull(state), UNCHANGED iterVars PROVE IterInv'
    BY <2>3, OtherCallsKeep DEF Next, OverrideIfFull
  <2>. QED BY <1>3, <2>1, <2>2, <2>3 DEF UseRing
<1>4. CASE UNCHANGED <<vars, iterVars>>
  BY <1>4 DEF IterInv, TypeOK, IterShape, StillThere, Upcoming, Distance, vars, iterVars
<1>. QED BY <1>1, <1>2, <1>3, <1>4 DEF IterNext

LEMMA IterInvariant == IterSpec => []IterInv
  BY IterInitially, IterStep, PTL DEF IterSpec

\* octet_ring_inspect() of src/ring-buffer-iter.c's iterators reads slots of the ring, in
\* whatever ways the ring was used since they were made.
THEOREM InspectsInBounds == IterSpec => []InspectInBounds
<1>1. IterInv => InspectInBounds
  BY DEF IterInv, IterShape, InspectInBounds, IterDone
<1>. QED BY <1>1, IterInvariant, PTL

\* An iterator yields the items the ring held when it was made, in its direction, until a
\* store reuses one of their slots; fetched and cleared items among them.
THEOREM YieldsSnapshot == IterSpec => []IterYieldsSnapshot
<1>1. IterInv => IterYieldsSnapshot
  <2>. SUFFICES ASSUME IterInv, iter.steps # 0, spare >= 0
                PROVE  data[iter.index] = snap[Len(snap) - iter.steps + 1]
    BY DEF IterYieldsSnapshot, IterDone
  <2>1. /\ iter.index \in Slot /\ iter.mode \in Modes /\ iter.steps \in 1 .. DataSize
        /\ Len(snap) \in Nat
    BY DEF IterInv, IterShape
  <2>2. 0 \in 0 .. iter.steps - 1 /\ 0 \in 0 .. DataSize - 1
    BY <2>1, DataSizeAssumption
  <2>3. data[Upcoming(iter.index, iter.mode, 0)] = snap[Len(snap) - iter.steps + 1 + 0]
    BY <2>2 DEF IterInv, StillThere
  <2>4. Upcoming(iter.index, iter.mode, 0) = iter.index
    BY <2>1, <2>2, UpcomingType
  <2>5. Len(snap) - iter.steps + 1 + 0 = Len(snap) - iter.steps + 1
    BY <2>1
  <2>. QED BY <2>3, <2>4, <2>5
<1>. QED BY <1>1, IterInvariant, PTL

(***************************************************************************)
(* The byte buffer: its marks.                                             *)
(***************************************************************************)

\* A position that byte_buffer_getpos() may have saved.
Position == {p \in [used : 0 .. BufferSize, offset : 0 .. BufferSize] : p.offset <= p.used}

Memory == [1 .. BufferSize -> Octet]

Fitting(b) ==
  /\ b \in [data : Memory, used : 0 .. BufferSize, offset : 0 .. BufferSize]
  /\ b.offset <= b.used

\* The marks of the buffer alone do not suffice: setpos brings back those of an
\* earlier time, which must have been in order as well.
IInv == Fitting(buf) /\ saved \in Position

USE BufferAssumption DEF Octet, Memory

\* Differences of marks that are in order do not wrap around.
LEMMA NoWrap ==
  ASSUME NEW n \in 0 .. BufferSize
  PROVE  n % SizeWord = n
<1>. QED OBVIOUS

LEMMA Length_ ==
  ASSUME NEW b, Fitting(b)
  PROVE  /\ Len(b.data) = BufferSize /\ DOMAIN b.data = 1 .. BufferSize
         /\ b.data \in Seq(Octet)
<1>. QED BY DEF Fitting

LEMMA Distances ==
  ASSUME NEW b, Fitting(b)
  PROVE  B!Rest(b) = b.used - b.offset /\ B!Avail(b) = BufferSize - b.used
<1>1. b.used - b.offset \in 0 .. BufferSize /\ BufferSize - b.used \in 0 .. BufferSize
  BY DEF Fitting
<1>. QED BY <1>1, NoWrap, Length_ DEF B!Rest, B!Avail, B!Size

LEMMA ChunkType ==
  ASSUME NEW chunk \in Chunks
  PROVE  /\ chunk \in Seq(Octet) /\ Len(chunk) \in Nat
         /\ \A i \in 1 .. Len(chunk) : chunk[i] \in Octet
<1>1. PICK n \in 0 .. BufferSize + 1 : chunk \in [1 .. n -> Octet]
  BY DEF Chunks
<1>. QED BY <1>1

\* memcpy() and memmove() keep the memory's size.
LEMMA PatchType ==
  ASSUME NEW block \in Memory, NEW at \in Nat, NEW chunk \in Seq(Octet)
  PROVE  B!Patch(block, at, chunk) \in Memory
<1>1. ASSUME NEW i \in 1 .. BufferSize, i \in at + 1 .. at + Len(chunk)
      PROVE  chunk[i - at] \in Octet
  BY <1>1
<1>. QED BY <1>1 DEF B!Patch

LEMMA UnreadType ==
  ASSUME NEW b, Fitting(b), NEW n \in Nat, n <= b.used - b.offset
  PROVE  B!Unread(b, n) \in Seq(Octet)
<1>1. b.offset + 1 \in Nat /\ b.offset + n \in Nat /\ b.offset + n <= BufferSize
  BY DEF Fitting
<1>2. ASSUME NEW i \in b.offset + 1 .. b.offset + n
      PROVE  i \in 1 .. BufferSize /\ b.data[i] \in Octet
  <2>1. b.offset \in Nat /\ b.data \in Memory
    BY DEF Fitting
  <2>. HIDE DEF Octet
  <2>2. i \in 1 .. BufferSize
    BY <1>1, <2>1
  <2>. QED BY <2>1, <2>2
<1>. QED BY <1>1, <1>2, Length_ DEF B!Unread

(***************************************************************************)
(* Each operation leaves a buffer that fits, with or without success.      *)
(***************************************************************************)

\* A buffer with other marks, or with other octets.
LEMMA Remarked ==
  ASSUME NEW b, Fitting(b), NEW block \in Memory,
         NEW used \in 0 .. BufferSize, NEW offset \in 0 .. used
  PROVE  Fitting([data |-> block, used |-> used, offset |-> offset])
<1>. QED BY DEF Fitting

LEMMA BufferIs ==
  ASSUME NEW b, Fitting(b)
  PROVE  b = [data |-> b.data, used |-> b.used, offset |-> b.offset]
<1>1. ASSUME NEW D, NEW U, NEW M, b \in [data : D, used : U, offset : M]
      PROVE  b = [data |-> b.data, used |-> b.used, offset |-> b.offset]
  BY <1>1
<1>. QED BY <1>1 DEF Fitting

LEMMA OneField ==
  ASSUME NEW c, c = [data |-> c.data, used |-> c.used, offset |-> c.offset], NEW x
  PROVE  /\ [c EXCEPT !.data = x] = [data |-> x, used |-> c.used, offset |-> c.offset]
         /\ [c EXCEPT !.used = x] = [data |-> c.data, used |-> x, offset |-> c.offset]
         /\ [c EXCEPT !.offset = x] = [data |-> c.data, used |-> c.used, offset |-> x]
OBVIOUS

LEMMA OffsetSet ==
  ASSUME NEW b, Fitting(b), NEW offset
  PROVE  [b EXCEPT !.offset = offset] = [data |-> b.data, used |-> b.used, offset |-> offset]
BY BufferIs, OneField

LEMMA MarksSet ==
  ASSUME NEW b, Fitting(b), NEW used, NEW offset
  PROVE  [b EXCEPT !.used = used, !.offset = offset] = [data |-> b.data, used |-> used, offset |-> offset]
<1>. DEFINE c == [b EXCEPT !.used = used]
<1>1. c = [data |-> b.data, used |-> used, offset |-> b.offset]
  BY BufferIs, OneField
<1>. SUFFICES [c EXCEPT !.offset = offset] = [data |-> b.data, used |-> used, offset |-> offset]
  OBVIOUS
<1>. HIDE DEF c
<1>2. c = [data |-> c.data, used |-> c.used, offset |-> c.offset]
  BY <1>1
<1>3. [c EXCEPT !.offset = offset] = [data |-> c.data, used |-> c.used, offset |-> offset]
  BY <1>2, OneField
<1>. QED BY <1>1, <1>3

LEMMA MemorySet ==
  ASSUME NEW b, Fitting(b), NEW block, NEW used
  PROVE  [b EXCEPT !.data = block, !.used = used] = [data |-> block, used |-> used, offset |-> b.offset]
<1>. DEFINE c == [b EXCEPT !.data = block]
<1>1. c = [data |-> block, used |-> b.used, offset |-> b.offset]
  BY BufferIs, OneField
<1>. SUFFICES [c EXCEPT !.used = used] = [data |-> block, used |-> used, offset |-> b.offset]
  OBVIOUS
<1>. HIDE DEF c
<1>2. c = [data |-> c.data, used |-> c.used, offset |-> c.offset]
  BY <1>1
<1>3. [c EXCEPT !.used = used] = [data |-> c.data, used |-> used, offset |-> c.offset]
  BY <1>2, OneField
<1>. QED BY <1>1, <1>3

\* byte_buffer_add()
LEMMA AddFits ==
  ASSUME NEW b, Fitting(b), NEW chunk \in Chunks
  PROVE  Fitting(B!Add(b, chunk).buf)
<1>1. CASE B!Size(b) < b.used + Len(chunk)
  BY <1>1 DEF B!Add, B!Refuses
<1>2. CASE ~(B!Size(b) < b.used + Len(chunk))
  <2>1. b.used \in Nat /\ b.used + Len(chunk) \in 0 .. BufferSize /\ b.offset \in 0 .. b.used + Len(chunk)
    BY <1>2, ChunkType, Length_ DEF Fitting, B!Size
  <2>2. B!Patch(b.data, b.used, chunk) \in Memory
    BY <2>1, ChunkType, PatchType DEF Fitting
  <2>3. B!Add(b, chunk).buf = [data |-> B!Patch(b.data, b.used, chunk),
                               used |-> b.used + Len(chunk), offset |-> b.offset]
    BY <1>2 DEF B!Add, B!Succeeds, Fitting
  <2>. QED BY <2>1, <2>2, <2>3, Remarked
<1>. QED BY <1>1, <1>2

\* byte_buffer_consume(), _consume_at_most() and _markread()
LEMMA ReadsFit ==
  ASSUME NEW b, Fitting(b), NEW n \in Counts
  PROVE  /\ Fitting(B!Consume(b, n).buf)
         /\ Fitting(B!ConsumeAtMost(b, n).buf)
         /\ Fitting(B!MarkRead(b, n).buf)
<1>. DEFINE Moved(k) == [b EXCEPT !.offset = @ + k]
<1>1. n \in Nat /\ b.used \in 0 .. BufferSize /\ b.offset \in 0 .. b.used
  BY DEF Counts, Fitting
<1>2. ASSUME NEW k \in Nat, ~(k > B!Rest(b))
      PROVE  Fitting(Moved(k))
  <2>1. b.offset + k \in 0 .. b.used
    BY <1>1, <1>2, Distances
  <2>2. Moved(k) = [data |-> b.data, used |-> b.used, offset |-> b.offset + k]
    <3>. DEFINE o == b.offset + k
    <3>1. o \in 0 .. BufferSize
      BY <1>1, <2>1
    <3>. HIDE DEF o
    <3>2. [b EXCEPT !.offset = o] = [data |-> b.data, used |-> b.used, offset |-> o]
      BY OffsetSet
    <3>. QED BY <3>2 DEF o
  <2>3. b.data \in Memory
    BY DEF Fitting
  <2>. QED BY <1>1, <2>1, <2>2, <2>3, Remarked
<1>3. B!Rest(b) \in Nat
  BY <1>1, Distances
<1>4. Fitting(B!Consume(b, n).buf)
  BY <1>1, <1>2 DEF B!Consume, B!Refuses, B!Extracts
<1>5. Fitting(B!MarkRead(b, n).buf)
  BY <1>1, <1>2 DEF B!MarkRead, B!Refuses, B!Succeeds
<1>6. Fitting(B!ConsumeAtMost(b, n).buf)
  <2>. DEFINE m == IF n > B!Rest(b) THEN B!Rest(b) ELSE n
  <2>1. m \in Nat /\ ~(m > B!Rest(b))
    BY <1>1, <1>3
  <2>2. Fitting(Moved(m))
    BY <2>1, <1>2
  <2>3. B!ConsumeAtMost(b, n).buf = (IF B!Rest(b) = 0 THEN b ELSE Moved(m))
    BY DEF B!ConsumeAtMost, B!Refuses, B!Extracts
  <2>. QED BY <2>2, <2>3
<1>. QED BY <1>4, <1>5, <1>6

\* byte_buffer_rewind()
LEMMA RewindFits ==
  ASSUME NEW b, Fitting(b)
  PROVE  Fitting(B!Rewind(b).buf)
<1>1. B!Rest(b) = b.used - b.offset /\ B!Rest(b) \in 0 .. BufferSize
  BY Distances DEF Fitting
<1>2. B!Patch(b.data, 0, B!Unread(b, B!Rest(b))) \in Memory
  <2>1. B!Unread(b, B!Rest(b)) \in Seq(Octet)
    BY <1>1, UnreadType
  <2>2. b.data \in Memory /\ 0 \in Nat
    BY DEF Fitting
  <2>. QED BY <2>1, <2>2, PatchType
<1>3. Fitting([data |-> B!Patch(b.data, 0, B!Unread(b, B!Rest(b))),
               used |-> B!Rest(b), offset |-> 0])
  BY <1>1, <1>2, Remarked
<1>. QED BY <1>3 DEF B!Rewind, B!Refuses, B!Succeeds

\* byte_buffer_reset(), _clear(), _repeat(), _fill() and _fillx()
LEMMA MarksFit ==
  ASSUME NEW b, Fitting(b)
  PROVE  /\ Fitting(B!Reset(b)) /\ Fitting(B!Clear(b)) /\ Fitting(B!Repeat(b))
         /\ \A datum \in Octet : Fitting(B!Fill(b, datum))
         /\ \A init, increment \in Octet : Fitting(B!FillX(b, init, increment, Base))
<1>1. B!Size(b) = BufferSize /\ DOMAIN b.data = 1 .. BufferSize /\ 0 \in Octet
  BY Length_ DEF B!Size
<1>2. B!Reset(b) = [data |-> b.data, used |-> 0, offset |-> 0]
  <2>1. 0 \in 0 .. BufferSize /\ b.data \in Memory
    BY DEF Fitting
  <2>. QED BY <2>1, MarksSet, Zenon DEF B!Reset
<1>3. Fitting(B!Reset(b))
  BY <1>2, Remarked DEF Fitting
<1>4. Fitting(B!Repeat(b))
  <2>1. 0 \in 0 .. BufferSize /\ b.data \in Memory
    BY DEF Fitting
  <2>2. B!Repeat(b) = [data |-> b.data, used |-> b.used, offset |-> 0]
    BY OffsetSet DEF B!Repeat
  <2>. QED BY <2>2, Remarked DEF Fitting
<1>5. Fitting(B!Clear(b))
  <2>. DEFINE zeroes == [i \in DOMAIN b.data |-> 0]
  <2>1. zeroes \in Memory
    BY <1>1
  <2>2. B!Clear(b) = [data |-> zeroes, used |-> 0, offset |-> 0]
    BY <1>2 DEF B!Clear
  <2>. QED BY <2>1, <2>2, Remarked
<1>6. ASSUME NEW block \in Memory
      PROVE  Fitting([b EXCEPT !.data = block, !.used = BufferSize])
  <2>1. BufferSize \in 0 .. BufferSize /\ b.offset \in 0 .. BufferSize
    BY DEF Fitting
  <2>2. [b EXCEPT !.data = block, !.used = BufferSize]
          = [data |-> block, used |-> BufferSize, offset |-> b.offset]
    BY MemorySet
  <2>. QED BY <2>1, <2>2, Remarked
<1>7. ASSUME NEW datum \in Octet
      PROVE  Fitting(B!Fill(b, datum))
  <2>. DEFINE block == [i \in DOMAIN b.data |-> datum]
  <2>1. block \in Memory
    BY <1>1
  <2>2. B!Fill(b, datum) = [b EXCEPT !.data = block, !.used = BufferSize]
    BY <1>1 DEF B!Fill
  <2>. QED BY <2>1, <2>2, <1>6
<1>8. ASSUME NEW init \in Octet, NEW increment \in Octet
      PROVE  Fitting(B!FillX(b, init, increment, Base))
  <2>. DEFINE block == [i \in DOMAIN b.data |-> (init + (i - 1) * increment) % Base]
  <2>1. ASSUME NEW i \in 1 .. BufferSize
        PROVE  (init + (i - 1) * increment) % Base \in Octet
    <3>1. ASSUME NEW k \in Int, NEW x \in Int
          PROVE  k * x \in Int
      OBVIOUS
    <3>2. i - 1 \in Int /\ increment \in Int /\ init \in Int
      OBVIOUS
    <3>3. (i - 1) * increment \in Int
      BY <3>1, <3>2
    <3>4. ASSUME NEW x \in Int
          PROVE  x % Base \in Octet
      OBVIOUS
    <3>. HIDE DEF Octet
    <3>5. init + (i - 1) * increment \in Int
      BY <3>2, <3>3
    <3>. QED BY <3>4, <3>5
  <2>2. block \in Memory
    BY <1>1, <2>1
  <2>3. B!FillX(b, init, increment, Base) = [b EXCEPT !.data = block, !.used = BufferSize]
    BY <1>1 DEF B!FillX
  <2>. QED BY <2>2, <2>3, <1>6
<1>. QED BY <1>3, <1>4, <1>5, <1>7, <1>8

\* byte_buffer_fill_cb()
LEMMA FillCbFits ==
  ASSUME NEW b, Fitting(b), NEW at \in 0 .. BufferSize, NEW chunk \in Chunks,
         at + Len(chunk) <= BufferSize
  PROVE  Fitting(B!FillCb(b, at, chunk))
<1>1. at + Len(chunk) \in 0 .. BufferSize /\ at \in 0 .. at + Len(chunk)
  BY ChunkType
<1>2. B!Patch(b.data, at, chunk) \in Memory
  <2>1. b.data \in Memory /\ at \in Nat /\ chunk \in Seq(Octet)
    BY ChunkType DEF Fitting
  <2>. QED BY <2>1, PatchType
<1>. QED BY <1>1, <1>2, Remarked DEF B!FillCb

\* byte_buffer_setpos() to a position of any time
LEMMA SetPosFits ==
  ASSUME NEW b, Fitting(b), NEW pos \in Position
  PROVE  Fitting(B!SetPos(b, pos).buf)
<1>. QED BY DEF B!SetPos, B!Refuses, B!Succeeds, Fitting, Position

(***************************************************************************)
(* The theorem.                                                            *)
(***************************************************************************)

LEMMA Initially == BufferInit => IInv
<1>. DEFINE block == [i \in 1 .. BufferSize |-> 0]
<1>1. block \in Memory /\ Len(block) = BufferSize /\ block # <<>>
  <2>1. 1 \in DOMAIN block
    OBVIOUS
  <2>. QED BY <2>1
<1>2. B!Space(B!Null, block).buf = [data |-> block, used |-> 0, offset |-> 0]
  BY <1>1 DEF B!Space, B!Set, B!Succeeds
<1>. QED BY <1>1, <1>2 DEF BufferInit, IInv, Fitting, Position, B!GetPos, B!Null

LEMMA Preserved == IInv /\ [BufferNext]_bufferVars => IInv'
<1>. SUFFICES ASSUME IInv, [BufferNext]_bufferVars
              PROVE  IInv'
  OBVIOUS
<1>. USE DEF IInv
<1>1. ASSUME NEW op, NEW r, NEW octets, Call(op, r, octets), Fitting(r.buf)
      PROVE  IInv'
  BY <1>1 DEF Call
<1>2. ASSUME NEW op, NEW b, CallVoid(op, b), Fitting(b)
      PROVE  IInv'
  BY <1>2 DEF CallVoid, Call, B!Succeeds
<1>3. ASSUME NEW chunk \in Chunks, Call("add", B!Add(buf, chunk), chunk)
      PROVE  IInv'
  BY <1>3, <1>1, AddFits
<1>4. ASSUME NEW n \in Counts,
             \/ LET r == B!Consume(buf, n) IN Call("consume", r, r.out)
             \/ LET r == B!ConsumeAtMost(buf, n) IN Call("consume_at_most", r, r.out)
             \/ Call("markread", B!MarkRead(buf, n), <<>>)
      PROVE  IInv'
  BY <1>4, <1>1, ReadsFit
<1>5. CASE Call("rewind", B!Rewind(buf), <<>>)
  BY <1>5, <1>1, RewindFits
<1>6. CASE \/ CallVoid("reset", B!Reset(buf))
           \/ CallVoid("reset", B!Clear(buf))
           \/ CallVoid("repeat", B!Repeat(buf))
  BY <1>6, <1>2, MarksFit
<1>7. ASSUME NEW init \in Octet, NEW increment \in Octet,
             \/ CallVoid("fill", B!Fill(buf, init))
             \/ CallVoid("fill", B!FillX(buf, init, increment, Base))
      PROVE  IInv'
  BY <1>7, <1>2, MarksFit
<1>8. ASSUME NEW at \in 0 .. BufferSize, NEW chunk \in Chunks, at + Len(chunk) <= BufferSize,
             Call("fill_cb", B!Succeeds(B!FillCb(buf, at, chunk)), chunk)
      PROVE  IInv'
  BY <1>8, <1>1, FillCbFits DEF B!Succeeds
<1>9. CASE Save
  BY <1>9 DEF Save, B!GetPos, Position, Fitting
<1>10. CASE Call("setpos", B!SetPos(buf, saved), <<>>)
  BY <1>10, <1>1, SetPosFits
<1>11. CASE UNCHANGED bufferVars
  BY <1>11 DEF bufferVars
<1>. QED BY <1>3, <1>4, <1>5, <1>6, <1>7, <1>8, <1>9, <1>10, <1>11 DEF BufferNext

\* The marks of a byte buffer stay in order and inside of the memory whatever is
\* called, so that no difference of them wraps around in byte_buffer_rest() and
\* byte_buffer_avail(), for memory of every size.
THEOREM MarksStayInOrder == BufferSpec => []BufferFits
<1>1. IInv => BufferFits
  <2>. SUFFICES ASSUME IInv PROVE BufferFits
    OBVIOUS
  <2>1. B!Rest(buf) = buf.used - buf.offset /\ B!Avail(buf) = BufferSize - buf.used
    BY Distances DEF IInv
  <2>2. B!Size(buf) = BufferSize
    BY Length_ DEF IInv, B!Size
  <2>. QED BY <2>1, <2>2 DEF IInv, Fitting, BufferFits, B!ReadPtr, B!WritePtr
<1>. QED BY <1>1, Initially, Preserved, PTL DEF BufferSpec

(***************************************************************************)
(* The byte buffer: a log with a mark.                                     *)
(*                                                                         *)
(* The log of a buffer is LogOf(b), the octets up to the fill mark.  Each  *)
(* operation is one lemma: the logs of the buffer in front of and behind   *)
(* the call are related as the abstract operation says.                    *)
(***************************************************************************)

LogOf(b) == SubSeq(b.data, 1, b.used)

HIDE DEF Octet, Memory

\* What is known of n octets behind a position, of memory or of a log.
LEMMA Segment ==
  ASSUME NEW s, NEW from \in Nat, NEW n \in Nat, \A i \in 1 .. n : s[from + i] \in Octet
  PROVE  /\ SubSeq(s, from + 1, from + n) \in Seq(Octet)
         /\ Len(SubSeq(s, from + 1, from + n)) = n
         /\ \A i \in 1 .. n : SubSeq(s, from + 1, from + n)[i] = s[from + i]
<1>. DEFINE m == from + 1
            k == from + n
<1>1. m \in Int /\ k \in Int /\ k - m + 1 = n /\ (m <= k <=> n # 0)
  OBVIOUS
<1>2. ASSUME NEW i \in m .. k
      PROVE  s[i] \in Octet
  <2>1. i - from \in 1 .. n /\ from + (i - from) = i
    OBVIOUS
  <2>. QED BY <2>1
<1>3. \A i \in 1 .. n : m + i - 1 = from + i
  OBVIOUS
<1>. HIDE DEF m, k
<1>4. /\ SubSeq(s, m, k) \in Seq(Octet)
      /\ Len(SubSeq(s, m, k)) = IF m <= k THEN k - m + 1 ELSE 0
      /\ \A i \in 1 .. k - m + 1 : SubSeq(s, m, k)[i] = s[m + i - 1]
  BY <1>1, <1>2, SubSeqProperties
<1>5. Len(SubSeq(s, m, k)) = n
  BY <1>1, <1>4
<1>6. ASSUME NEW i \in 1 .. n
      PROVE  SubSeq(s, m, k)[i] = s[from + i]
  BY <1>1, <1>3, <1>4
<1>. QED BY <1>4, <1>5, <1>6 DEF m, k

LEMMA LogType ==
  ASSUME NEW b, Fitting(b)
  PROVE  /\ LogOf(b) \in Seq(Octet) /\ Len(LogOf(b)) = b.used
         /\ \A i \in 1 .. b.used : LogOf(b)[i] = b.data[i]
<1>. DEFINE s == SubSeq(b.data, 0 + 1, 0 + b.used)
<1>1. b.used \in Nat /\ 0 \in Nat /\ \A i \in 1 .. b.used : 0 + i = i /\ b.data[0 + i] \in Octet
  BY DEF Fitting, Memory
<1>2. /\ s \in Seq(Octet) /\ Len(s) = b.used
      /\ \A i \in 1 .. b.used : s[i] = b.data[0 + i]
  BY <1>1, Segment
<1>3. s = LogOf(b)
  BY <1>1 DEF LogOf
<1>. HIDE DEF s
<1>4. \A i \in 1 .. b.used : s[i] = b.data[i]
  BY <1>1, <1>2
<1>. QED BY <1>2, <1>3, <1>4

\* Octets behind the mark are the same ones in the log and in memory.
LEMMA UnreadOctets ==
  ASSUME NEW b, Fitting(b), NEW n \in 0 .. b.used - b.offset
  PROVE  /\ B!Unread(b, n) \in Seq(Octet) /\ Len(B!Unread(b, n)) = n
         /\ \A i \in 1 .. n : B!Unread(b, n)[i] = b.data[b.offset + i]
<1>. DEFINE block == b.data
            from == b.offset
            s == SubSeq(block, from + 1, from + n)
<1>1. from \in Nat /\ n \in Nat
  BY DEF Fitting
<1>2. \A i \in 1 .. n : block[from + i] \in Octet
  BY DEF Fitting, Memory
<1>3. B!Unread(b, n) = s
  BY DEF B!Unread
<1>. HIDE DEF block, from
<1>4. s \in Seq(Octet) /\ Len(s) = n /\ \A i \in 1 .. n : s[i] = block[from + i]
  <2>1. s \in Seq(Octet)
    BY <1>1, <1>2, Segment, Zenon
  <2>2. Len(s) = n
    BY <1>1, <1>2, Segment, Zenon
  <2>3. \A i \in 1 .. n : s[i] = block[from + i]
    BY <1>1, <1>2, Segment, Zenon
  <2>. QED BY <2>1, <2>2, <2>3, Zenon
<1>. HIDE DEF s
<1>. QED BY <1>3, <1>4 DEF block, from

LEMMA LogPart ==
  ASSUME NEW b, Fitting(b), NEW n \in 0 .. b.used - b.offset
  PROVE  SubSeq(LogOf(b), b.offset + 1, b.offset + n) = B!Unread(b, n)
<1>. DEFINE s == SubSeq(LogOf(b), b.offset + 1, b.offset + n)
            t == B!Unread(b, n)
<1>1. b.offset \in Nat /\ n \in Nat
  BY DEF Fitting
<1>2. t \in Seq(Octet) /\ Len(t) = n /\ \A i \in 1 .. n : t[i] = b.data[b.offset + i]
  BY UnreadOctets
<1>3. ASSUME NEW i \in 1 .. n
      PROVE  LogOf(b)[b.offset + i] = b.data[b.offset + i] /\ LogOf(b)[b.offset + i] \in Octet
  <2>1. b.offset + i \in 1 .. b.used /\ b.data[b.offset + i] \in Octet
    BY DEF Fitting, Memory
  <2>. QED BY <2>1, LogType
<1>4. s \in Seq(Octet) /\ Len(s) = n /\ \A i \in 1 .. n : s[i] = LogOf(b)[b.offset + i]
  BY <1>1, <1>3, Segment
<1>. HIDE DEF s, t
<1>5. ASSUME NEW i \in 1 .. n
      PROVE  s[i] = t[i]
  BY <1>2, <1>3, <1>4
<1>6. s = t
  BY <1>2, <1>4, <1>5, SeqEqual
<1>. QED BY <1>6 DEF s, t

\* What memcpy() leaves in front of a chunk, and what it puts there.
LEMMA Front ==
  ASSUME NEW block \in Memory, NEW at \in Nat, NEW chunk \in Seq(Octet),
         NEW i \in 1 .. BufferSize, i <= at
  PROVE  B!Patch(block, at, chunk)[i] = block[i]
<1>. QED BY DEF B!Patch, Memory

LEMMA Chunk ==
  ASSUME NEW block \in Memory, NEW at \in Nat, NEW chunk \in Seq(Octet),
         NEW k \in 1 .. Len(chunk), at + k <= BufferSize
  PROVE  B!Patch(block, at, chunk)[at + k] = chunk[k]
<1>. DEFINE j == at + k
<1>1. j \in DOMAIN block /\ j \in at + 1 .. at + Len(chunk) /\ j - at = k
  BY DEF Memory
<1>. HIDE DEF j
<1>2. B!Patch(block, at, chunk)[j] = chunk[j - at]
  BY <1>1 DEF B!Patch
<1>. QED BY <1>1, <1>2 DEF j

(***************************************************************************)
(* The logs in front of and behind each operation.                         *)
(***************************************************************************)

\* byte_buffer_add() appends.
LEMMA AddAppends ==
  ASSUME NEW b, Fitting(b), NEW chunk \in Chunks, b.used + Len(chunk) <= BufferSize
  PROVE  /\ LogOf(B!Add(b, chunk).buf) = LogOf(b) \o chunk
         /\ B!Add(b, chunk).buf.offset = b.offset
         /\ B!Add(b, chunk).rc = "ok"
<1>. DEFINE c    == B!Add(b, chunk).buf
            used == b.used + Len(chunk)
            s    == LogOf(b) \o chunk
<1>1. /\ chunk \in Seq(Octet) /\ Len(chunk) \in Nat /\ b.used \in Nat /\ b.data \in Memory
      /\ b.offset \in 0 .. BufferSize /\ used \in 0 .. BufferSize
      /\ ~(B!Size(b) < b.used + Len(chunk))
  BY ChunkType, Length_ DEF Fitting, B!Size
<1>2. c = [data |-> B!Patch(b.data, b.used, chunk), used |-> used, offset |-> b.offset]
  BY <1>1 DEF B!Add, B!Succeeds, Fitting
<1>3. Fitting(c)
  BY AddFits
<1>4. LogOf(c) \in Seq(Octet) /\ Len(LogOf(c)) = used
      /\ \A i \in 1 .. used : LogOf(c)[i] = c.data[i]
  BY <1>2, <1>3, LogType
<1>5. /\ s \in Seq(Octet) /\ Len(s) = used
      /\ \A i \in 1 .. used : s[i] = IF i <= b.used THEN LogOf(b)[i] ELSE chunk[i - b.used]
  <2>1. LogOf(b) \in Seq(Octet) /\ Len(LogOf(b)) = b.used
    BY LogType
  <2>. QED BY <1>1, <2>1, ConcatProperties
<1>6. ASSUME NEW i \in 1 .. used
      PROVE  LogOf(c)[i] = s[i]
  <2>1. i \in 1 .. BufferSize
    BY <1>1
  <2>2. CASE i <= b.used
    <3>1. c.data[i] = b.data[i]
      BY <1>1, <1>2, <2>1, <2>2, Front
    <3>2. LogOf(b)[i] = b.data[i]
      BY <1>1, <2>2, LogType
    <3>. QED BY <1>4, <1>5, <2>2, <3>1, <3>2
  <2>3. CASE ~(i <= b.used)
    <3>. DEFINE k == i - b.used
    <3>1. k \in 1 .. Len(chunk) /\ b.used + k = i /\ b.used + k <= BufferSize
      BY <1>1, <2>1, <2>3
    <3>. HIDE DEF k
    <3>2. B!Patch(b.data, b.used, chunk)[b.used + k] = chunk[k]
      BY <1>1, <3>1, Chunk
    <3>3. c.data[i] = chunk[k]
      BY <1>2, <3>1, <3>2
    <3>. QED BY <1>4, <1>5, <2>3, <3>3 DEF k
  <2>. QED BY <2>2, <2>3
<1>7. LogOf(c) = s
  BY <1>4, <1>5, <1>6, SeqEqual
<1>8. c.offset = b.offset
  BY <1>2
<1>9. B!Add(b, chunk).rc = "ok"
  BY <1>1 DEF B!Add, B!Succeeds
<1>. QED BY <1>7, <1>8, <1>9

\* byte_buffer_rewind() keeps what is unread, and nothing else.
LEMMA RewindDrops ==
  ASSUME NEW b, Fitting(b)
  PROVE  /\ LogOf(B!Rewind(b).buf) = B!Unread(b, b.used - b.offset)
         /\ B!Rewind(b).buf.offset = 0
         /\ B!Rewind(b).rc = "ok"
<1>. DEFINE n    == b.used - b.offset
            left == B!Unread(b, n)
<1>1. /\ b.data \in Memory /\ b.data # <<>> /\ n \in 0 .. BufferSize
      /\ b.offset \in 0 .. BufferSize /\ b.used \in b.offset .. BufferSize
      /\ b.offset + n = b.used
  <2>1. b.data # <<>>
    BY Length_
  <2>. QED BY <2>1 DEF Fitting
<1>2. B!Rest(b) = n
  BY Distances
<1>3. left \in Seq(Octet) /\ Len(left) = n /\ \A i \in 1 .. n : left[i] = b.data[b.offset + i]
  <2>1. n \in 0 .. b.used - b.offset
    BY <1>1
  <2>. QED BY <2>1, UnreadOctets
<1>4. CASE b.offset = 0
  <2>1. B!Rewind(b).buf = b /\ B!Rewind(b).rc = "ok"
    BY <1>1, <1>4 DEF B!Rewind, B!Succeeds
  <2>2. LogOf(b) = left
    BY <1>1, <1>4 DEF LogOf, B!Unread
  <2>. QED BY <1>4, <2>1, <2>2
<1>5. CASE b.offset # 0
  <2>. DEFINE c == [data |-> B!Patch(b.data, 0, left), used |-> n, offset |-> 0]
  <2>1. B!Rewind(b).buf = c /\ B!Rewind(b).rc = "ok"
    BY <1>1, <1>2, <1>5 DEF B!Rewind, B!Succeeds
  <2>2. Fitting(c)
    BY <2>1, RewindFits
  <2>3. LogOf(c) \in Seq(Octet) /\ Len(LogOf(c)) = n /\ \A i \in 1 .. n : LogOf(c)[i] = c.data[i]
    BY <2>2, LogType
  <2>4. ASSUME NEW i \in 1 .. n
        PROVE  LogOf(c)[i] = left[i]
    <3>1. i \in 1 .. Len(left) /\ 0 + i <= BufferSize /\ 0 + i = i /\ 0 \in Nat
      BY <1>1, <1>3
    <3>. HIDE DEF n, left
    <3>2. B!Patch(b.data, 0, left)[0 + i] = left[i]
      BY <1>1, <1>3, <3>1, Chunk
    <3>. QED BY <2>3, <3>1, <3>2
  <2>5. LogOf(c) = left
    BY <1>3, <2>3, <2>4, SeqEqual
  <2>. QED BY <2>1, <2>5
<1>. QED BY <1>4, <1>5

\* byte_buffer_setpos() and the octets that two positions have in common.
LEMMA CommonStart ==
  ASSUME NEW b, Fitting(b), NEW used \in 0 .. BufferSize, NEW offset \in 0 .. used,
         NEW i \in 1 .. used, i <= b.used
  PROVE  LogOf([data |-> b.data, used |-> used, offset |-> offset])[i] = LogOf(b)[i]
<1>. DEFINE c == [data |-> b.data, used |-> used, offset |-> offset]
<1>1. Fitting(c)
  BY Remarked DEF Fitting
<1>2. LogOf(c)[i] = c.data[i]
  BY <1>1, LogType
<1>3. LogOf(b)[i] = b.data[i]
  BY LogType DEF Fitting
<1>. QED BY <1>2, <1>3

\* byte_buffer_fill_cb() replaces what is behind a position.
LEMMA FillCbOverwrites ==
  ASSUME NEW b, Fitting(b), NEW at \in 0 .. BufferSize, NEW chunk \in Chunks,
         at + Len(chunk) <= BufferSize
  PROVE  LET new == LogOf(B!FillCb(b, at, chunk))
         IN  /\ Len(new) = at + Len(chunk)
             /\ SubSeq(new, at + 1, Len(new)) = chunk
             /\ \A i \in 1 .. at : i <= b.used => new[i] = LogOf(b)[i]
<1>. DEFINE c   == B!FillCb(b, at, chunk)
            new == LogOf(c)
            n   == Len(chunk)
            s   == SubSeq(new, at + 1, at + n)
<1>1. /\ chunk \in Seq(Octet) /\ n \in Nat /\ b.data \in Memory /\ at \in Nat
      /\ at + n \in 0 .. BufferSize
  BY ChunkType DEF Fitting
<1>2. c = [data |-> B!Patch(b.data, at, chunk), used |-> at + n, offset |-> at]
  BY DEF B!FillCb
<1>3. Fitting(c)
  BY FillCbFits
<1>4. /\ new \in Seq(Octet) /\ Len(new) = at + n
      /\ \A i \in 1 .. at + n : new[i] = B!Patch(b.data, at, chunk)[i]
  BY <1>2, <1>3, LogType
<1>5. ASSUME NEW i \in 1 .. at, i <= b.used
      PROVE  new[i] = LogOf(b)[i]
  <2>1. i \in 1 .. BufferSize /\ i <= at /\ i \in 1 .. at + n /\ i \in 1 .. b.used
    BY <1>1, <1>5 DEF Fitting
  <2>2. new[i] = b.data[i]
    BY <1>1, <1>4, <2>1, Front
  <2>. QED BY <2>1, <2>2, LogType
<1>6. s \in Seq(Octet) /\ Len(s) = n /\ \A i \in 1 .. n : s[i] = new[at + i]
  <2>. HIDE DEF new, n
  <2>1. ASSUME NEW i \in 1 .. n
        PROVE  new[at + i] \in Octet
    <3>1. at + i \in 1 .. Len(new)
      BY <1>1, <1>4
    <3>. QED BY <1>4, <3>1, ElementOfSeq, Zenon
  <2>2. n \in Nat /\ at \in Nat
    BY <1>1, Zenon
  <2>3. s \in Seq(Octet)
    BY <2>1, <2>2, Segment, Zenon
  <2>4. Len(s) = n
    BY <2>1, <2>2, Segment, Zenon
  <2>5. \A i \in 1 .. n : s[i] = new[at + i]
    BY <2>1, <2>2, Segment, Zenon
  <2>. QED BY <2>3, <2>4, <2>5, Zenon
<1>7. ASSUME NEW i \in 1 .. n
      PROVE  s[i] = chunk[i]
  <2>1. at + i <= BufferSize /\ at + i \in 1 .. at + n /\ i \in 1 .. Len(chunk)
    BY <1>1
  <2>2. B!Patch(b.data, at, chunk)[at + i] = chunk[i]
    BY <1>1, <2>1, Chunk
  <2>. HIDE DEF new, n, s
  <2>. QED BY <1>4, <1>6, <2>1, <2>2
<1>8. s = chunk
  BY <1>1, <1>6, <1>7, SeqEqual
<1>. QED BY <1>4, <1>5, <1>8

\* byte_buffer_fill() and _fillx(): all of the memory is the log.
LEMMA FullLog ==
  ASSUME NEW b, Fitting(b), b.used = BufferSize
  PROVE  LogOf(b) \in [1 .. BufferSize -> Octet]
<1>. QED BY LogType, LenProperties

(***************************************************************************)
(* Each call is a step of the tape.                                        *)
(***************************************************************************)

\* The tape behind a call with the result r.
LEMMA Seen ==
  ASSUME NEW op, NEW r, NEW octets, Call(op, r, octets)
  PROVE  /\ LogOf(buf)' = LogOf(r.buf)
         /\ buf'.offset = r.buf.offset
         /\ call' = [op |-> op, rc |-> r.rc, octets |-> IF r.rc = "ok" THEN octets ELSE <<>>]
<1>. QED BY DEF Call, LogOf

\* A call that fails changes nothing.
LEMMA Failing ==
  ASSUME NEW op, NEW errno, errno # "ok", NEW octets, Call(op, B!Refuses(buf, errno), octets)
  PROVE  Tape!Fails(op, errno)
<1>. QED BY DEF Call, B!Refuses, Tape!Fails, Tape!Returns

LEMMA AddStep ==
  ASSUME Fitting(buf), NEW chunk \in Chunks, Call("add", B!Add(buf, chunk), chunk)
  PROVE  Tape!Append_(chunk)
<1>1. Len(LogOf(buf)) = buf.used /\ buf.used \in Nat /\ Len(chunk) \in Nat /\ B!Size(buf) = BufferSize
  BY LogType, ChunkType, Length_ DEF Fitting, B!Size
<1>2. CASE buf.used + Len(chunk) <= BufferSize
  <2>1. LogOf(buf)' = LogOf(buf) \o chunk /\ buf'.offset = buf.offset
        /\ call' = [op |-> "add", rc |-> "ok", octets |-> chunk]
    BY <1>2, AddAppends, Seen
  <2>2. ~(Len(LogOf(buf)) + Len(chunk) > BufferSize)
    BY <1>1, <1>2
  <2>. QED BY <2>1, <2>2 DEF Tape!Append_, Tape!Returns, LogOf
<1>3. CASE ~(buf.used + Len(chunk) <= BufferSize)
  <2>1. B!Add(buf, chunk) = B!Refuses(buf, "ENOMEM")
    BY <1>1, <1>3 DEF B!Add
  <2>2. Tape!Fails("add", "ENOMEM")
    BY <2>1, Failing
  <2>. QED BY <1>1, <1>3, <2>2 DEF Tape!Append_, LogOf
<1>. QED BY <1>2, <1>3

\* byte_buffer_consume(), _consume_at_most() and _markread() once there is enough.
LEMMA Moving ==
  ASSUME Fitting(buf), NEW n \in 0 .. buf.used - buf.offset, NEW op, NEW octets,
         NEW out, Call(op, [rc |-> "ok", buf |-> [buf EXCEPT !.offset = @ + n], out |-> out], octets)
  PROVE  /\ buf'.offset = buf.offset + n
         /\ LogOf(buf)' = LogOf(buf)
         /\ call' = [op |-> op, rc |-> "ok", octets |-> octets]
         /\ Tape!Unread(n) = B!Unread(buf, n)
<1>1. Tape!Unread(n) = B!Unread(buf, n)
  BY LogPart DEF Tape!Unread, LogOf
<1>2. [buf EXCEPT !.offset = @ + n] = [data |-> buf.data, used |-> buf.used, offset |-> buf.offset + n]
  BY DEF Fitting
<1>. QED BY <1>1, <1>2 DEF Call, LogOf

LEMMA Left_ ==
  ASSUME Fitting(buf)
  PROVE  Tape!Left = B!Rest(buf) /\ B!Rest(buf) = buf.used - buf.offset /\ B!Rest(buf) \in Nat
<1>1. Len(LogOf(buf)) = buf.used
  BY LogType
<1>. QED BY <1>1, Distances DEF Tape!Left, LogOf, Fitting

LEMMA ConsumeStep ==
  ASSUME Fitting(buf), NEW n \in Counts,
         Call("consume", B!Consume(buf, n), B!Consume(buf, n).out)
  PROVE  Tape!Take(n)
<1>1. n \in Nat
  BY DEF Counts
<1>2. CASE n > B!Rest(buf)
  <2>1. B!Consume(buf, n) = B!Refuses(buf, "ENODATA")
    BY <1>2 DEF B!Consume
  <2>2. Tape!Fails("consume", "ENODATA")
    BY <2>1, Failing
  <2>. QED BY <1>2, <2>2, Left_ DEF Tape!Take
<1>3. CASE ~(n > B!Rest(buf))
  <2>1. n \in 0 .. buf.used - buf.offset
    BY <1>1, <1>3, Left_
  <2>2. B!Consume(buf, n) = [rc |-> "ok", buf |-> [buf EXCEPT !.offset = @ + n], out |-> B!Unread(buf, n)]
    BY <1>3 DEF B!Consume, B!Extracts
  <2>3. B!Consume(buf, n).out = B!Unread(buf, n)
    BY <2>2
  <2>4. /\ buf'.offset = buf.offset + n /\ LogOf(buf)' = LogOf(buf)
        /\ call' = [op |-> "consume", rc |-> "ok", octets |-> Tape!Unread(n)]
    BY <2>1, <2>2, <2>3, Moving
  <2>. QED BY <1>3, <2>4, Left_ DEF Tape!Take, Tape!Returns, LogOf
<1>. QED BY <1>2, <1>3

LEMMA ConsumeAtMostStep ==
  ASSUME Fitting(buf), NEW n \in Counts,
         Call("consume_at_most", B!ConsumeAtMost(buf, n), B!ConsumeAtMost(buf, n).out)
  PROVE  Tape!TakeSome(n)
<1>. DEFINE m == IF n > B!Rest(buf) THEN B!Rest(buf) ELSE n
<1>1. n \in Nat
  BY DEF Counts
<1>2. CASE B!Rest(buf) = 0
  <2>1. B!ConsumeAtMost(buf, n) = B!Refuses(buf, "ENODATA")
    BY <1>2 DEF B!ConsumeAtMost
  <2>2. Tape!Fails("consume_at_most", "ENODATA")
    BY <2>1, Failing
  <2>. QED BY <1>2, <2>2, Left_ DEF Tape!TakeSome
<1>3. CASE B!Rest(buf) # 0
  <2>1. m \in 0 .. buf.used - buf.offset
    BY <1>1, Left_
  <2>2. B!ConsumeAtMost(buf, n)
          = [rc |-> "ok", buf |-> [buf EXCEPT !.offset = @ + m], out |-> B!Unread(buf, m)]
    BY <1>3 DEF B!ConsumeAtMost, B!Extracts
  <2>3. B!ConsumeAtMost(buf, n).out = B!Unread(buf, m)
    BY <2>2
  <2>. HIDE DEF m
  <2>4. /\ buf'.offset = buf.offset + m /\ LogOf(buf)' = LogOf(buf)
        /\ call' = [op |-> "consume_at_most", rc |-> "ok", octets |-> Tape!Unread(m)]
    BY <2>1, <2>2, <2>3, Moving
  <2>5. m = IF n > Tape!Left THEN Tape!Left ELSE n
    BY Left_ DEF m
  <2>. QED BY <1>3, <2>4, <2>5, Left_ DEF Tape!TakeSome, Tape!Returns, LogOf
<1>. QED BY <1>2, <1>3

LEMMA MarkReadStep ==
  ASSUME Fitting(buf), NEW n \in Counts, Call("markread", B!MarkRead(buf, n), <<>>)
  PROVE  Tape!Skip(n)
<1>1. n \in Nat
  BY DEF Counts
<1>2. CASE n > B!Rest(buf)
  <2>1. B!MarkRead(buf, n) = B!Refuses(buf, "ENOMEM")
    BY <1>2 DEF B!MarkRead
  <2>2. Tape!Fails("markread", "ENOMEM")
    BY <2>1, Failing
  <2>. QED BY <1>2, <2>2, Left_ DEF Tape!Skip
<1>3. CASE ~(n > B!Rest(buf))
  <2>1. n \in 0 .. buf.used - buf.offset
    BY <1>1, <1>3, Left_
  <2>2. B!MarkRead(buf, n) = [rc |-> "ok", buf |-> [buf EXCEPT !.offset = @ + n], out |-> <<>>]
    BY <1>3 DEF B!MarkRead, B!Succeeds
  <2>3. /\ buf'.offset = buf.offset + n /\ LogOf(buf)' = LogOf(buf)
        /\ call' = [op |-> "markread", rc |-> "ok", octets |-> <<>>]
    BY <2>1, <2>2, Moving
  <2>. QED BY <1>3, <2>3, Left_ DEF Tape!Skip, Tape!Returns, LogOf
<1>. QED BY <1>2, <1>3

LEMMA RewindStep ==
  ASSUME Fitting(buf), Call("rewind", B!Rewind(buf), <<>>)
  PROVE  Tape!Drop
<1>. DEFINE n == buf.used - buf.offset
<1>1. n \in 0 .. n /\ Tape!Left = n
  BY Left_
<1>2. Tape!Unread(n) = B!Unread(buf, n)
  BY <1>1, LogPart DEF Tape!Unread, LogOf
<1>3. LogOf(buf)' = B!Unread(buf, n) /\ buf'.offset = 0
      /\ call' = [op |-> "rewind", rc |-> "ok", octets |-> <<>>]
  BY RewindDrops, Seen
<1>. QED BY <1>1, <1>2, <1>3 DEF Tape!Drop, Tape!Returns, LogOf

LEMMA ResetStep ==
  ASSUME Fitting(buf), CallVoid("reset", B!Reset(buf)) \/ CallVoid("reset", B!Clear(buf))
  PROVE  Tape!Empty
<1>1. B!Reset(buf) = [data |-> buf.data, used |-> 0, offset |-> 0]
  <2>1. 0 \in 0 .. BufferSize /\ buf.data \in Memory
    BY DEF Fitting
  <2>. QED BY <2>1, MarksSet, Zenon DEF B!Reset
<1>2. B!Clear(buf) = [data |-> [i \in DOMAIN buf.data |-> 0], used |-> 0, offset |-> 0]
  BY <1>1 DEF B!Clear
<1>3. buf'.used = 0 /\ buf'.offset = 0 /\ call' = [op |-> "reset", rc |-> "ok", octets |-> <<>>]
  BY <1>1, <1>2 DEF CallVoid, Call, B!Succeeds
<1>4. SubSeq(buf'.data, 1, buf'.used) = <<>>
  BY <1>3, SubSeqEmpty
<1>. QED BY <1>3, <1>4 DEF Tape!Empty, Tape!Returns

LEMMA RepeatStep ==
  ASSUME Fitting(buf), CallVoid("repeat", B!Repeat(buf))
  PROVE  Tape!Again
<1>1. 0 \in 0 .. BufferSize /\ buf.data \in Memory
  BY DEF Fitting
<1>2. B!Repeat(buf) = [data |-> buf.data, used |-> buf.used, offset |-> 0]
  BY OffsetSet DEF B!Repeat
<1>3. buf' = B!Repeat(buf) /\ call' = [op |-> "repeat", rc |-> "ok", octets |-> <<>>]
  BY DEF CallVoid, Call, B!Succeeds
<1>4. buf'.data = buf.data /\ buf'.used = buf.used /\ buf'.offset = 0
  BY <1>2, <1>3
<1>. QED BY <1>3, <1>4 DEF Tape!Again, Tape!Returns

LEMMA FillStep ==
  ASSUME Fitting(buf), NEW b, Fitting(b), b.used = BufferSize, b.offset = buf.offset,
         CallVoid("fill", b)
  PROVE  Tape!Refill
<1>1. LogOf(b) \in [1 .. BufferSize -> Octet]
  BY FullLog
<1>2. buf' = b /\ call' = [op |-> "fill", rc |-> "ok", octets |-> <<>>]
  BY DEF CallVoid, Call, B!Succeeds
<1>. QED BY <1>1, <1>2 DEF Tape!Refill, Tape!Returns, LogOf

LEMMA FillCbStep ==
  ASSUME Fitting(buf), NEW at \in 0 .. BufferSize, NEW chunk \in Chunks,
         at + Len(chunk) <= BufferSize,
         Call("fill_cb", B!Succeeds(B!FillCb(buf, at, chunk)), chunk)
  PROVE  Tape!Overwrite(at, chunk)
<1>1. Len(LogOf(buf)) = buf.used
  BY LogType
<1>2. buf' = B!FillCb(buf, at, chunk) /\ call' = [op |-> "fill_cb", rc |-> "ok", octets |-> chunk]
  BY DEF Call, B!Succeeds
<1>3. buf'.offset = at
  BY <1>2 DEF B!FillCb
<1>4. /\ Len(LogOf(buf')) = at + Len(chunk)
      /\ SubSeq(LogOf(buf'), at + 1, Len(LogOf(buf'))) = chunk
      /\ \A i \in 1 .. at : i <= buf.used => LogOf(buf')[i] = LogOf(buf)[i]
  BY <1>2, FillCbOverwrites
<1>. QED BY <1>1, <1>2, <1>3, <1>4 DEF Tape!Overwrite, Tape!Returns, Tape!SameStart, LogOf

LEMMA SetPosStep ==
  ASSUME Fitting(buf), saved \in Position, Call("setpos", B!SetPos(buf, saved), <<>>)
  PROVE  Tape!GoTo
<1>1. CASE saved.offset >= B!Size(buf) \/ saved.used > B!Size(buf)
  <2>1. B!SetPos(buf, saved) = B!Refuses(buf, "EINVAL")
    BY <1>1 DEF B!SetPos
  <2>2. Tape!Fails("setpos", "EINVAL")
    BY <2>1, Failing
  <2>. QED BY <2>2 DEF Tape!GoTo
<1>2. CASE ~(saved.offset >= B!Size(buf) \/ saved.used > B!Size(buf))
  <2>. DEFINE c == [data |-> buf.data, used |-> saved.used, offset |-> saved.offset]
  <2>1. saved.used \in 0 .. BufferSize /\ saved.offset \in 0 .. BufferSize
        /\ saved.offset \in 0 .. saved.used /\ buf.data \in Memory
    BY DEF Position, Fitting
  <2>2. [buf EXCEPT !.used = saved.used, !.offset = saved.offset] = c
    <3>1. ASSUME NEW used \in 0 .. BufferSize, NEW offset \in 0 .. BufferSize
          PROVE  [buf EXCEPT !.used = used, !.offset = offset]
                   = [data |-> buf.data, used |-> used, offset |-> offset]
      BY MarksSet, Zenon
    <3>. QED BY <2>1, <3>1
  <2>3. buf' = c /\ call' = [op |-> "setpos", rc |-> "ok", octets |-> <<>>]
    BY <1>2, <2>2 DEF B!SetPos, Call, B!Succeeds
  <2>4. Fitting(c)
    BY <2>1, Remarked
  <2>5. Len(LogOf(c)) = saved.used /\ Len(LogOf(buf)) = buf.used
    BY <2>4, LogType
  <2>6. \A i \in 1 .. saved.used : i <= buf.used => LogOf(c)[i] = LogOf(buf)[i]
    BY <2>1, CommonStart
  <2>7. LogOf(buf)' = LogOf(c) /\ buf'.offset = saved.offset
    BY <2>3 DEF LogOf
  <2>. HIDE DEF c
  <2>8. Len(LogOf(buf)') = saved.used /\ buf'.offset <= Len(LogOf(buf)')
    BY <2>1, <2>5, <2>7
  <2>9. Tape!SameStart(Len(LogOf(buf)'))
    BY <2>5, <2>6, <2>7, <2>8 DEF Tape!SameStart, LogOf
  <2>. QED BY <2>3, <2>8, <2>9 DEF Tape!GoTo, Tape!Returns, LogOf
<1>. QED BY <1>1, <1>2

(***************************************************************************)
(* The theorem.                                                            *)
(***************************************************************************)

LEMMA TapeBegins == BufferInit => Tape!TapeInit
<1>. DEFINE block == [i \in 1 .. BufferSize |-> 0]
<1>1. block \in Memory /\ Len(block) = BufferSize /\ block # <<>>
  <2>1. 1 \in DOMAIN block
    OBVIOUS
  <2>. QED BY <2>1 DEF Memory, Octet
<1>2. B!Space(B!Null, block).buf = [data |-> block, used |-> 0, offset |-> 0]
  BY <1>1 DEF B!Space, B!Set, B!Succeeds
<1>3. SubSeq(block, 1, 0) = <<>>
  BY SubSeqEmpty
<1>. QED BY <1>2, <1>3 DEF BufferInit, Tape!TapeInit

LEMMA TapeMoves == IInv /\ IInv' /\ [BufferNext]_bufferVars => [Tape!TapeNext]_(Tape!tapeVars)
<1>. SUFFICES ASSUME IInv, [BufferNext]_bufferVars
              PROVE  [Tape!TapeNext]_(Tape!tapeVars)
  OBVIOUS
<1>. USE DEF IInv
<1>0. Chunks = Tape!Chunks /\ Counts = Tape!Counts
  BY DEF Chunks, Counts, Tape!Chunks, Tape!Counts
<1>1. ASSUME NEW chunk \in Chunks, Call("add", B!Add(buf, chunk), chunk)
      PROVE  Tape!TapeNext
  BY <1>0, <1>1, AddStep DEF Tape!TapeNext
<1>2. ASSUME NEW n \in Counts, LET r == B!Consume(buf, n) IN Call("consume", r, r.out)
      PROVE  Tape!TapeNext
  BY <1>0, <1>2, ConsumeStep DEF Tape!TapeNext
<1>3. ASSUME NEW n \in Counts,
             LET r == B!ConsumeAtMost(buf, n) IN Call("consume_at_most", r, r.out)
      PROVE  Tape!TapeNext
  BY <1>0, <1>3, ConsumeAtMostStep DEF Tape!TapeNext
<1>4. ASSUME NEW n \in Counts, Call("markread", B!MarkRead(buf, n), <<>>)
      PROVE  Tape!TapeNext
  BY <1>0, <1>4, MarkReadStep DEF Tape!TapeNext
<1>5. CASE Call("rewind", B!Rewind(buf), <<>>)
  BY <1>5, RewindStep DEF Tape!TapeNext
<1>6. CASE CallVoid("reset", B!Reset(buf)) \/ CallVoid("reset", B!Clear(buf))
  BY <1>6, ResetStep DEF Tape!TapeNext
<1>7. CASE CallVoid("repeat", B!Repeat(buf))
  BY <1>7, RepeatStep DEF Tape!TapeNext
<1>8. ASSUME NEW b, CallVoid("fill", b), Fitting(b), b.used = BufferSize, b.offset = buf.offset
      PROVE  Tape!TapeNext
  BY <1>8, FillStep DEF Tape!TapeNext
<1>9. ASSUME NEW block \in Memory
      PROVE  [buf EXCEPT !.data = block, !.used = BufferSize]
               = [data |-> block, used |-> BufferSize, offset |-> buf.offset]
  <2>1. BufferSize \in 0 .. BufferSize /\ buf.offset \in 0 .. BufferSize
    BY DEF Fitting
  <2>. QED BY MemorySet
<1>10. ASSUME NEW datum \in Octet, CallVoid("fill", B!Fill(buf, datum))
       PROVE  Tape!TapeNext
  <2>1. B!Size(buf) = BufferSize /\ DOMAIN buf.data = 1 .. BufferSize
    BY Length_ DEF B!Size
  <2>2. B!Fill(buf, datum).used = BufferSize /\ B!Fill(buf, datum).offset = buf.offset
    BY <2>1 DEF B!Fill, Fitting
  <2>. QED BY <1>10, <2>2, <1>8, MarksFit
<1>11. ASSUME NEW init \in Octet, NEW increment \in Octet,
              CallVoid("fill", B!FillX(buf, init, increment, Base))
       PROVE  Tape!TapeNext
  <2>1. B!Size(buf) = BufferSize
    BY Length_ DEF B!Size
  <2>2. /\ B!FillX(buf, init, increment, Base).used = BufferSize
        /\ B!FillX(buf, init, increment, Base).offset = buf.offset
    BY <2>1 DEF B!FillX, Fitting
  <2>. QED BY <1>11, <2>2, <1>8, MarksFit
<1>12. ASSUME NEW at \in 0 .. BufferSize, NEW chunk \in Chunks, at + Len(chunk) <= BufferSize,
              Call("fill_cb", B!Succeeds(B!FillCb(buf, at, chunk)), chunk)
       PROVE  Tape!TapeNext
  BY <1>0, <1>12, FillCbStep DEF Tape!TapeNext
<1>13. CASE Save
  BY <1>13 DEF Save, Tape!tapeVars
<1>14. CASE Call("setpos", B!SetPos(buf, saved), <<>>)
  BY <1>14, SetPosStep DEF Tape!TapeNext
<1>15. CASE UNCHANGED bufferVars
  BY <1>15 DEF bufferVars, Tape!tapeVars
<1>. QED BY <1>1, <1>2, <1>3, <1>4, <1>5, <1>6, <1>7, <1>10, <1>11, <1>12, <1>13, <1>14, <1>15
            DEF BufferNext

\* The operations of byte-buffer.c implement a log with a mark: what is copied out
\* is what was put in, in order, through every move of the octets in memory, and
\* a call that fails changes nothing, for memory of every size.
THEOREM BufferImplementsTape == BufferSpec => ImplementsTape
<1>. QED BY Initially, Preserved, TapeBegins, TapeMoves, PTL DEF BufferSpec, ImplementsTape, Tape!TapeSpec

(***************************************************************************)
(* Numbers.                                                                *)
(*                                                                         *)
(* Words: whatever function stores one, memory is as Laid(), and whatever  *)
(* function fetches one sees WordIn() of it (SetIs, RefIs), with the sign  *)
(* of the type extended.  This is the stored integer if and only if it is  *)
(* in range (UnsignedFits, SignedFits): an integer is the sum of what its  *)
(* digits stand for, and w digits stand for less than Power(w).            *)
(*                                                                         *)
(* Varints: the octets are the digits with marks (OctetsAre), and octets   *)
(* that begin with those of a number are taken for it (NumberIsFound),     *)
(* from memory (DecodeFinds) and from a source (SourceFinds).              *)
(***************************************************************************)

\* The octet order of the memory behind a call.
InMemory(order, host) == IF order = "native" THEN host ELSE order

\* A word in memory that was blank, and what of a memory is read as a word.
Laid(w, o, x) ==
  [i \in 1 .. 10 |-> IF i - 1 \in 1 .. w THEN (IF o = "little" THEN x[i - 1] ELSE x[w + 2 - i])
                     ELSE Bits - 1]

WordIn(m, w, o) ==
  [i \in 1 .. F!Container(w) |->
     IF i <= w THEN (IF o = "little" THEN m[i + 1] ELSE m[w + 2 - i]) ELSE 0]

IntegerFor(w) == [1 .. F!Container(w) -> Digit]

LEMMA BitsAreNumbers == Bits \in Nat /\ Bits >= 2 /\ 0 \in Digit /\ Bits - 1 \in Digit
  BY BitsAssumption DEF Digit

LEMMA ContainerIs ==
  ASSUME NEW w \in F!Widths
  PROVE  w \in Nat /\ w >= 2 /\ w <= 8 /\ F!Container(w) \in Nat /\ w <= F!Container(w)
         /\ F!Container(w) <= 8
  BY DEF F!Widths, F!Container

LEMMA IntegerIs ==
  ASSUME NEW w \in F!Widths, NEW x \in IntegerFor(w)
  PROVE  x \in Seq(Digit) /\ Len(x) = F!Container(w) /\ DOMAIN x = 1 .. F!Container(w)
<1>. DEFINE C == F!Container(w)
<1>1. C \in Nat
  BY ContainerIs
<1>2. x \in [1 .. C -> Digit]
  BY DEF IntegerFor
<1>. HIDE DEF C
<1>3. x \in Seq(Digit) /\ Len(x) = C /\ DOMAIN x = 1 .. C
  BY <1>1, <1>2
<1>. QED BY <1>3 DEF C

\* The swapped word: the w octets that are used are turned around.
LEMMA SwapIs ==
  ASSUME NEW w \in F!Widths, NEW x \in IntegerFor(w)
  PROVE  /\ F!Swap(x, w) \in IntegerFor(w)
         /\ F!Swap(x, w) = [i \in 1 .. F!Container(w) |-> IF i <= w THEN x[w + 1 - i] ELSE 0]
<1>. DEFINE C == F!Container(w)
            y == [i \in 1 .. C |-> IF i <= w THEN x[w + 1 - i] ELSE 0]
<1>1. F!Swap(x, w) = y
  <2>1. Len(x) = C
    BY IntegerIs
  <2>. QED BY <2>1, Zenon DEF F!Swap
<1>2. C \in Nat /\ w \in Nat /\ w <= C
  BY ContainerIs
<1>3. x \in [1 .. C -> Digit]
  BY DEF IntegerFor
<1>. HIDE DEF C
<1>4. y \in [1 .. C -> Digit]
  <2>1. ASSUME NEW i \in 1 .. C, i <= w PROVE x[w + 1 - i] \in Digit
    <3>1. w + 1 - i \in 1 .. C
      BY <1>2, <2>1
    <3>. QED BY <1>3, <3>1
  <2>. QED BY <2>1, BitsAreNumbers
<1>. HIDE DEF y
<1>5. F!Swap(x, w) \in [1 .. C -> Digit] /\ F!Swap(x, w) = y
  BY <1>1, <1>4, Zenon
<1>. QED BY <1>5, Zenon DEF C, y, IntegerFor

LEMMA SetNative ==
  ASSUME NEW w \in F!Widths, NEW host \in Hosts, NEW x \in IntegerFor(w)
  PROVE  F!SetUnsignedNative(Blank, Pointer, w, host, x) = Laid(w, host, x)
<1>. DEFINE C == F!Container(w)
            src == [i \in 1 .. C |-> IF host = "little" THEN x[i] ELSE x[C + 1 - i]]
            lead == IF host = "big" THEN C - w ELSE 0
            set == [i \in 1 .. 10 |-> IF i - 1 \in 1 .. w THEN src[i - 1 + lead] ELSE Blank[i]]
<1>1. F!Image(x, host) = src
  <2>1. Len(x) = C
    BY IntegerIs
  <2>. QED BY <2>1, Zenon DEF F!Image
<1>2. F!Lead(w, host) = lead
  BY Zenon DEF F!Lead
<1>3. F!SetUnsignedNative(Blank, Pointer, w, host, x) = set
  <2>. DEFINE Spread(s, l, n) == [i \in 1 .. n |-> IF i - 1 \in 1 .. w THEN s[i - 1 + l] ELSE Blank[i]]
  <2>1. F!SetUnsignedNative(Blank, Pointer, w, host, x)
          = Spread(F!Image(x, host), F!Lead(w, host), Len(Blank))
    BY Zenon DEF F!SetUnsignedNative, Pointer
  <2>2. Len(Blank) = 10
    BY DEF Blank
  <2>3. Spread(src, lead, 10) = set
    BY Zenon
  <2>. HIDE DEF Spread, src, lead, set
  <2>. QED BY <1>1, <1>2, <2>1, <2>2, <2>3, Zenon
<1>4. C \in Nat /\ w \in Nat /\ w <= C
  BY ContainerIs
<1>5. ASSUME NEW i \in 1 .. 10
      PROVE  set[i] = Laid(w, host, x)[i]
  <2>1. CASE i - 1 \notin 1 .. w
    <3>1. set[i] = Bits - 1
      BY <2>1 DEF Blank
    <3>2. Laid(w, host, x)[i] = Bits - 1
      BY <2>1 DEF Laid
    <3>. QED BY <3>1, <3>2, Zenon
  <2>2. CASE i - 1 \in 1 .. w /\ host = "little"
    <3>. HIDE DEF C
    <3>1. i - 1 + 0 \in 1 .. C /\ i - 1 + 0 = i - 1
      BY <1>4, <2>2
    <3>2. lead = 0 /\ set[i] = src[i - 1 + lead]
      BY <2>2
    <3>3. src[i - 1] = x[i - 1]
      BY <2>2, <3>1
    <3>4. Laid(w, host, x)[i] = x[i - 1]
      BY <2>2 DEF Laid
    <3>. HIDE DEF src, lead, set
    <3>. QED BY <3>1, <3>2, <3>3, <3>4, Zenon
  <2>3. CASE i - 1 \in 1 .. w /\ host = "big"
    <3>. HIDE DEF C
    <3>. DEFINE j == i - 1 + (C - w)
    <3>1. j \in 1 .. C /\ C + 1 - j = w + 2 - i
      BY <1>4, <2>3
    <3>2. lead = C - w /\ set[i] = src[i - 1 + lead]
      BY <2>3
    <3>3. src[j] = x[C + 1 - j]
      BY <2>3, <3>1
    <3>4. Laid(w, host, x)[i] = x[w + 2 - i]
      BY <2>3 DEF Laid
    <3>. HIDE DEF src, lead, set
    <3>. QED BY <3>1, <3>2, <3>3, <3>4, Zenon
  <2>. QED BY <2>1, <2>2, <2>3 DEF Hosts
<1>6. set = Laid(w, host, x)
  <2>1. /\ set = [i \in 1 .. 10 |-> set[i]]
        /\ Laid(w, host, x) = [i \in 1 .. 10 |-> Laid(w, host, x)[i]]
    BY DEF Laid
  <2>. HIDE DEF set
  <2>. QED BY <1>5, <2>1, Zenon
<1>. HIDE DEF set
<1>. QED BY <1>3, <1>6, Zenon

LEMMA LaidSwapped ==
  ASSUME NEW w \in F!Widths, NEW x \in IntegerFor(w)
  PROVE  /\ Laid(w, "little", F!Swap(x, w)) = Laid(w, "big", x)
         /\ Laid(w, "big", F!Swap(x, w)) = Laid(w, "little", x)
<1>. DEFINE C == F!Container(w)
            y == F!Swap(x, w)
<1>1. C \in Nat /\ w \in Nat /\ w <= C
  BY ContainerIs
<1>2. ASSUME NEW k \in 1 .. w PROVE y[k] = x[w + 1 - k]
  <2>1. y = [i \in 1 .. C |-> IF i <= w THEN x[w + 1 - i] ELSE 0]
    BY SwapIs, Zenon
  <2>. HIDE DEF C, y
  <2>2. k \in 1 .. C /\ k <= w
    BY <1>1
  <2>. QED BY <2>1, <2>2
<1>. HIDE DEF C, y
<1>3. ASSUME NEW i \in 1 .. 10, i - 1 \in 1 .. w
      PROVE  y[i - 1] = x[w + 2 - i] /\ y[w + 2 - i] = x[i - 1]
  <2>1. w + 2 - i \in 1 .. w /\ w + 1 - (i - 1) = w + 2 - i /\ w + 1 - (w + 2 - i) = i - 1
    BY <1>1, <1>3
  <2>2. y[i - 1] = x[w + 1 - (i - 1)] /\ y[w + 2 - i] = x[w + 1 - (w + 2 - i)]
    BY <1>2, <1>3, <2>1, Zenon
  <2>. QED BY <2>1, <2>2, Zenon
<1>4. Laid(w, "little", y) = Laid(w, "big", x)
  BY <1>3 DEF Laid
<1>5. Laid(w, "big", y) = Laid(w, "little", x)
  BY <1>3 DEF Laid
<1>. QED BY <1>4, <1>5, Zenon DEF y

\* All functions bf_set_*() leave the word in its order.
LEMMA SetIs ==
  ASSUME NEW kind \in {"u", "s", "f"}, NEW w \in F!Widths, NEW order \in Orders,
         NEW host \in Hosts, NEW x \in IntegerFor(w), mem = Blank
  PROVE  Set(kind, w, order, host, x) = Laid(w, InMemory(order, host), x)
<1>1. ASSUME NEW y \in IntegerFor(w)
      PROVE  F!SetUnsignedNative(mem, Pointer, w, host, y) = Laid(w, host, y)
  BY SetNative, Zenon
<1>2. F!SetUnsignedBig(mem, Pointer, w, host, x) = Laid(w, "big", x)
  <2>1. CASE host = "big"
    BY <1>1, <2>1, Zenon DEF F!SetUnsignedBig
  <2>2. CASE host # "big"
    <3>1. host = "little"
      BY <2>2, Zenon DEF Hosts
    <3>2. F!SetUnsignedBig(mem, Pointer, w, host, x)
            = F!SetUnsignedNative(mem, Pointer, w, host, F!Swap(x, w))
      BY <2>2, Zenon DEF F!SetUnsignedBig
    <3>3. F!Swap(x, w) \in IntegerFor(w)
      BY SwapIs, Zenon
    <3>. QED BY <1>1, <3>1, <3>2, <3>3, LaidSwapped, Zenon
  <2>. QED BY <2>1, <2>2
<1>3. F!SetUnsignedLittle(mem, Pointer, w, host, x) = Laid(w, "little", x)
  <2>1. CASE host = "little"
    BY <1>1, <2>1, Zenon DEF F!SetUnsignedLittle
  <2>2. CASE host # "little"
    <3>1. host = "big"
      BY <2>2, Zenon DEF Hosts
    <3>2. F!SetUnsignedLittle(mem, Pointer, w, host, x)
            = F!SetUnsignedNative(mem, Pointer, w, host, F!Swap(x, w))
      BY <2>2, Zenon DEF F!SetUnsignedLittle
    <3>3. F!Swap(x, w) \in IntegerFor(w)
      BY SwapIs, Zenon
    <3>. QED BY <1>1, <3>1, <3>2, <3>3, LaidSwapped, Zenon
  <2>. QED BY <2>1, <2>2
<1>4. F!SetUnsignedNative(mem, Pointer, w, host, x) = Laid(w, host, x)
  BY <1>1, Zenon
<1>. DEFINE native == F!SetUnsignedNative(mem, Pointer, w, host, x)
            big    == F!SetUnsignedBig(mem, Pointer, w, host, x)
            little == F!SetUnsignedLittle(mem, Pointer, w, host, x)
<1>5. Set(kind, w, order, host, x)
        = CASE order = "native" -> native [] order = "little" -> little [] order = "big" -> big
  <2>. HIDE DEF native, big, little
  <2>1. CASE kind = "f"
    <3>1. Set(kind, w, order, host, x) = F!SetFloat(mem, Pointer, w, order, host, x)
      BY <2>1 DEF Set
    <3>. QED BY <3>1, Zenon DEF F!SetFloat, native, big, little
  <2>2. CASE kind = "u"
    BY <2>2 DEF Set, Orders, native, big, little
  <2>3. CASE kind = "s"
    BY <2>3 DEF Set, Orders, native, big, little, F!SetSignedNative, F!SetSignedBig, F!SetSignedLittle
  <2>. QED BY <2>1, <2>2, <2>3
<1>. HIDE DEF native, big, little
<1>6. InMemory(order, host) = IF order = "native" THEN host ELSE order
  BY Zenon DEF InMemory
<1>7. CASE order = "native"
  <2>1. Set(kind, w, order, host, x) = native
    BY <1>5, <1>7
  <2>. QED BY <1>4, <1>6, <1>7, <2>1, Zenon DEF native
<1>8. CASE order = "little"
  <2>1. Set(kind, w, order, host, x) = little /\ order # "native"
    BY <1>5, <1>8
  <2>. QED BY <1>3, <1>6, <1>8, <2>1, Zenon DEF little
<1>9. CASE order = "big"
  <2>1. Set(kind, w, order, host, x) = big /\ order # "native"
    BY <1>5, <1>9
  <2>. QED BY <1>2, <1>6, <1>9, <2>1, Zenon DEF big
<1>. QED BY <1>7, <1>8, <1>9 DEF Orders

MemoryImage == [1 .. 10 -> Digit]

LEMMA WordInType ==
  ASSUME NEW w \in F!Widths, NEW m \in MemoryImage, NEW o \in Hosts
  PROVE  WordIn(m, w, o) \in IntegerFor(w)
<1>. DEFINE C == F!Container(w)
<1>1. C \in Nat /\ w \in Nat /\ w <= C /\ w <= 8
  BY ContainerIs
<1>. HIDE DEF C
<1>2. ASSUME NEW i \in 1 .. C, i <= w
      PROVE  (IF o = "little" THEN m[i + 1] ELSE m[w + 2 - i]) \in Digit
  <2>1. i + 1 \in 1 .. 10 /\ w + 2 - i \in 1 .. 10
    BY <1>1, <1>2
  <2>. QED BY <2>1 DEF MemoryImage
<1>3. [i \in 1 .. C |-> IF i <= w THEN (IF o = "little" THEN m[i + 1] ELSE m[w + 2 - i]) ELSE 0]
        \in [1 .. C -> Digit]
  BY <1>2, BitsAreNumbers
<1>. QED BY <1>3, Zenon DEF C, WordIn, IntegerFor

LEMMA RefNative ==
  ASSUME NEW w \in F!Widths, NEW m \in MemoryImage, NEW host \in Hosts
  PROVE  F!RefUnsignedNative(m, Pointer, w, host) = WordIn(m, w, host)
<1>. DEFINE C == F!Container(w)
            lead == IF host = "big" THEN C - w ELSE 0
            dst == [i \in 1 .. C |-> IF i - lead \in 1 .. w THEN m[1 + i - lead] ELSE 0]
            ref == [i \in 1 .. C |-> IF host = "little" THEN dst[i] ELSE dst[C + 1 - i]]
<1>1. F!Lead(w, host) = lead
  BY Zenon DEF F!Lead
<1>2. C \in Nat /\ w \in Nat /\ w <= C
  BY ContainerIs
<1>3. F!RefUnsignedNative(m, Pointer, w, host) = ref
  <2>. DEFINE Got(l, n) == [i \in 1 .. n |-> IF i - l \in 1 .. w THEN m[1 + i - l] ELSE 0]
              Im(d, n) == [i \in 1 .. n |-> IF host = "little" THEN d[i] ELSE d[n + 1 - i]]
  <2>1. F!RefUnsignedNative(m, Pointer, w, host) = F!Image(Got(F!Lead(w, host), C), host)
    BY Zenon DEF F!RefUnsignedNative, Pointer
  <2>2. Got(lead, C) = dst
    BY Zenon
  <2>3. F!Image(dst, host) = Im(dst, Len(dst))
    BY Zenon DEF F!Image
  <2>4. Len(dst) = C
    <3>. HIDE DEF C
    <3>. QED BY <1>2
  <2>5. Im(dst, C) = ref
    BY Zenon
  <2>. HIDE DEF Got, Im, C, lead, dst, ref
  <2>. QED BY <1>1, <2>1, <2>2, <2>3, <2>4, <2>5, Zenon
<1>. HIDE DEF C
<1>4. ASSUME NEW i \in 1 .. C
      PROVE  ref[i] = IF i <= w THEN (IF host = "little" THEN m[i + 1] ELSE m[w + 2 - i]) ELSE 0
  <2>1. CASE host = "little"
    <3>1. ref[i] = dst[i] /\ lead = 0
      BY <2>1
    <3>2. dst[i] = IF i - lead \in 1 .. w THEN m[1 + i - lead] ELSE 0
      OBVIOUS
    <3>3. (i - 0 \in 1 .. w <=> i <= w) /\ 1 + i - 0 = i + 1
      BY <1>2
    <3>. HIDE DEF ref, dst, lead
    <3>. QED BY <2>1, <3>1, <3>2, <3>3, Zenon
  <2>2. CASE host = "big"
    <3>. DEFINE j == C + 1 - i
    <3>1. ref[i] = dst[j] /\ lead = C - w /\ j \in 1 .. C
      BY <1>2, <2>2
    <3>2. dst[j] = IF j - lead \in 1 .. w THEN m[1 + j - lead] ELSE 0
      BY <3>1
    <3>3. (j - (C - w) \in 1 .. w <=> i <= w) /\ 1 + j - (C - w) = w + 2 - i
      BY <1>2
    <3>4. host # "little"
      BY <2>2
    <3>. HIDE DEF ref, dst, lead, j
    <3>. QED BY <3>1, <3>2, <3>3, <3>4, Zenon
  <2>. QED BY <2>1, <2>2 DEF Hosts
<1>5. ref = WordIn(m, w, host)
  <2>1. ref = [i \in 1 .. C |-> ref[i]]
    OBVIOUS
  <2>. HIDE DEF ref
  <2>. QED BY <1>4, <2>1, Zenon DEF WordIn, C
<1>. HIDE DEF ref
<1>. QED BY <1>3, <1>5, Zenon

LEMMA WordSwapped ==
  ASSUME NEW w \in F!Widths, NEW m \in MemoryImage
  PROVE  /\ F!Swap(WordIn(m, w, "little"), w) = WordIn(m, w, "big")
         /\ F!Swap(WordIn(m, w, "big"), w) = WordIn(m, w, "little")
<1>. DEFINE C == F!Container(w)
            l == WordIn(m, w, "little")
            b == WordIn(m, w, "big")
<1>1. C \in Nat /\ w \in Nat /\ w <= C
  BY ContainerIs
<1>2. /\ F!Swap(l, w) = [i \in 1 .. C |-> IF i <= w THEN l[w + 1 - i] ELSE 0]
      /\ F!Swap(b, w) = [i \in 1 .. C |-> IF i <= w THEN b[w + 1 - i] ELSE 0]
  <2>1. l \in IntegerFor(w) /\ b \in IntegerFor(w)
    BY WordInType DEF Hosts
  <2>. HIDE DEF l, b
  <2>. QED BY <2>1, SwapIs, Zenon
<1>3. /\ l = [i \in 1 .. C |-> IF i <= w THEN m[i + 1] ELSE 0]
      /\ b = [i \in 1 .. C |-> IF i <= w THEN m[w + 2 - i] ELSE 0]
  <2>1. "big" # "little"
    OBVIOUS
  <2>. QED BY <2>1, Zenon DEF WordIn
<1>. HIDE DEF C, l, b
<1>4. ASSUME NEW i \in 1 .. C, i <= w
      PROVE  l[w + 1 - i] = m[w + 2 - i] /\ b[w + 1 - i] = m[i + 1]
  <2>1. w + 1 - i \in 1 .. C /\ w + 1 - i <= w /\ (w + 1 - i) + 1 = w + 2 - i /\ w + 2 - (w + 1 - i) = i + 1
    BY <1>1, <1>4
  <2>. QED BY <1>3, <2>1
<1>5. F!Swap(l, w) = b /\ F!Swap(b, w) = l
  BY <1>2, <1>3, <1>4
<1>. QED BY <1>5, Zenon DEF l, b

\* What bf_ref_*() makes of the octets above a word that is narrower than its type.
Extended(kind, w, x) == IF kind = "s" THEN F!SignExtend(x, w) ELSE x

\* All functions bf_ref_*() read the word in its order.
LEMMA RefIs ==
  ASSUME NEW kind \in {"u", "s", "f"}, NEW w \in F!Widths, NEW order \in Orders,
         NEW host \in Hosts, mem \in MemoryImage
  PROVE  Ref(kind, w, order, host) = Extended(kind, w, WordIn(mem, w, InMemory(order, host)))
<1>. DEFINE native == F!RefUnsignedNative(mem, Pointer, w, host)
            big    == F!RefUnsignedBig(mem, Pointer, w, host)
            little == F!RefUnsignedLittle(mem, Pointer, w, host)
            word(o) == WordIn(mem, w, o)
<1>1. native = word(host)
  BY RefNative, Zenon
<1>2. big = word("big")
  <2>1. CASE host = "big"
    BY <1>1, <2>1, Zenon DEF F!RefUnsignedBig
  <2>2. CASE host # "big"
    <3>1. host = "little"
      BY <2>2, Zenon DEF Hosts
    <3>2. big = F!Swap(native, w)
      BY <2>2, Zenon DEF F!RefUnsignedBig
    <3>. HIDE DEF big, native
    <3>. QED BY <1>1, <3>1, <3>2, WordSwapped, Zenon
  <2>. QED BY <2>1, <2>2
<1>3. little = word("little")
  <2>1. CASE host = "little"
    BY <1>1, <2>1, Zenon DEF F!RefUnsignedLittle
  <2>2. CASE host # "little"
    <3>1. host = "big"
      BY <2>2, Zenon DEF Hosts
    <3>2. little = F!Swap(native, w)
      BY <2>2, Zenon DEF F!RefUnsignedLittle
    <3>. HIDE DEF little, native
    <3>. QED BY <1>1, <3>1, <3>2, WordSwapped, Zenon
  <2>. QED BY <2>1, <2>2
<1>. HIDE DEF native, big, little, word
<1>. DEFINE plain == CASE order = "native" -> native [] order = "little" -> little [] order = "big" -> big
<1>4. plain = word(InMemory(order, host))
  <2>1. CASE order = "native"
    <3>1. plain = native /\ InMemory(order, host) = host
      BY <2>1 DEF InMemory
    <3>. HIDE DEF plain
    <3>. QED BY <1>1, <3>1, Zenon
  <2>2. CASE order = "little"
    <3>1. plain = little /\ InMemory(order, host) = "little"
      BY <2>2 DEF InMemory
    <3>. HIDE DEF plain
    <3>. QED BY <1>3, <3>1, Zenon
  <2>3. CASE order = "big"
    <3>1. plain = big /\ InMemory(order, host) = "big"
      BY <2>3 DEF InMemory
    <3>. HIDE DEF plain
    <3>. QED BY <1>2, <3>1, Zenon
  <2>. QED BY <2>1, <2>2, <2>3 DEF Orders
<1>5. Ref(kind, w, order, host) = Extended(kind, w, plain)
  <2>1. CASE kind = "f"
    <3>1. Ref(kind, w, order, host) = F!RefFloat(mem, Pointer, w, order, host)
      BY <2>1 DEF Ref
    <3>2. F!RefFloat(mem, Pointer, w, order, host) = plain
      BY Zenon DEF F!RefFloat, native, big, little
    <3>3. kind # "s"
      BY <2>1
    <3>. HIDE DEF plain
    <3>. QED BY <3>1, <3>2, <3>3, Zenon DEF Extended
  <2>2. CASE kind = "u"
    <3>1. Ref(kind, w, order, host) = plain
      BY <2>2 DEF Ref, Orders, native, big, little
    <3>2. kind # "s"
      BY <2>2
    <3>. HIDE DEF plain
    <3>. QED BY <3>1, <3>2, Zenon DEF Extended
  <2>3. CASE kind = "s"
    <3>1. CASE order = "native"
      <4>1. Ref(kind, w, order, host) = F!RefSignedNative(mem, Pointer, w, host) /\ plain = native
        BY <2>3, <3>1 DEF Ref
      <4>. HIDE DEF plain
      <4>. QED BY <2>3, <4>1, Zenon DEF Extended, F!RefSignedNative, native
    <3>2. CASE order = "little"
      <4>1. Ref(kind, w, order, host) = F!RefSignedLittle(mem, Pointer, w, host) /\ plain = little
        BY <2>3, <3>2 DEF Ref
      <4>. HIDE DEF plain
      <4>. QED BY <2>3, <4>1, Zenon DEF Extended, F!RefSignedLittle, little
    <3>3. CASE order = "big"
      <4>1. Ref(kind, w, order, host) = F!RefSignedBig(mem, Pointer, w, host) /\ plain = big
        BY <2>3, <3>3 DEF Ref
      <4>. HIDE DEF plain
      <4>. QED BY <2>3, <4>1, Zenon DEF Extended, F!RefSignedBig, big
    <3>. QED BY <3>1, <3>2, <3>3 DEF Orders
  <2>. QED BY <2>1, <2>2, <2>3
<1>. HIDE DEF plain
<1>. QED BY <1>4, <1>5, Zenon DEF word

\* The octets of an integer that fit into a word.
Low(w, x) == [i \in 1 .. F!Container(w) |-> IF i <= w THEN x[i] ELSE 0]

\* What was laid into memory is read again, all else was left alone.
LEMMA LaidIs ==
  ASSUME NEW w \in F!Widths, NEW x \in IntegerFor(w), NEW o \in Hosts
  PROVE  /\ Laid(w, o, x) \in MemoryImage
         /\ WordIn(Laid(w, o, x), w, o) = Low(w, x)
<1>. DEFINE C == F!Container(w)
            m == Laid(w, o, x)
            at(i) == IF i - 1 \in 1 .. w THEN (IF o = "little" THEN x[i - 1] ELSE x[w + 2 - i])
                     ELSE Bits - 1
<1>1. C \in Nat /\ w \in Nat /\ w <= C /\ w <= 8
  BY ContainerIs
<1>2. x \in [1 .. C -> Digit]
  BY Zenon DEF IntegerFor
<1>. HIDE DEF C
<1>3. ASSUME NEW i \in 1 .. 10 PROVE at(i) \in Digit
  <2>1. CASE i - 1 \in 1 .. w
    <3>1. i - 1 \in 1 .. C /\ w + 2 - i \in 1 .. C
      BY <1>1, <2>1
    <3>. QED BY <1>2, <2>1, <3>1
  <2>2. CASE i - 1 \notin 1 .. w
    BY <2>2, BitsAreNumbers
  <2>. QED BY <2>1, <2>2
<1>4. m = [i \in 1 .. 10 |-> at(i)]
  BY Zenon DEF Laid
<1>5. m \in MemoryImage /\ \A i \in 1 .. 10 : m[i] = at(i)
  <2>. HIDE DEF m, at
  <2>. QED BY <1>3, <1>4 DEF MemoryImage
<1>6. ASSUME NEW i \in 1 .. C
      PROVE  (IF i <= w THEN (IF o = "little" THEN m[i + 1] ELSE m[w + 2 - i]) ELSE 0)
               = IF i <= w THEN x[i] ELSE 0
  <2>1. CASE i <= w /\ o = "little"
    <3>1. i + 1 \in 1 .. 10 /\ (i + 1) - 1 \in 1 .. w /\ (i + 1) - 1 = i
      BY <1>1, <2>1
    <3>2. m[i + 1] = at(i + 1)
      BY <1>5, <3>1, Zenon
    <3>3. at(i + 1) = x[i]
      BY <2>1, <3>1, Zenon
    <3>. HIDE DEF m, at
    <3>. QED BY <2>1, <3>2, <3>3, Zenon
  <2>2. CASE i <= w /\ o # "little"
    <3>. DEFINE j == w + 2 - i
    <3>1. j \in 1 .. 10 /\ j - 1 \in 1 .. w /\ w + 2 - j = i
      BY <1>1, <2>2
    <3>2. m[j] = at(j)
      BY <1>5, <3>1, Zenon
    <3>. HIDE DEF j
    <3>3. at(j) = x[i]
      BY <2>2, <3>1, Zenon
    <3>. HIDE DEF m, at
    <3>. QED BY <2>2, <3>2, <3>3, Zenon DEF j
  <2>3. CASE ~(i <= w)
    BY <2>3, Zenon
  <2>. QED BY <2>1, <2>2, <2>3
<1>7. WordIn(m, w, o) = Low(w, x)
  <2>. HIDE DEF m
  <2>. QED BY <1>6, Zenon DEF WordIn, Low, C
<1>. QED BY <1>5, <1>7, Zenon

\* An integer as a function whose digits are numbers.
LEMMA IntegerDigits ==
  ASSUME NEW w \in F!Widths, NEW x \in IntegerFor(w)
  PROVE  /\ DigitsTo(x, Bits, F!Container(w))
         /\ \A i \in 1 .. F!Container(w) : x[i] \in Digit /\ x[i] \in 0 .. Bits - 1
  BY DEF IntegerFor, DigitsTo, Digit

LEMMA PowerIs ==
  ASSUME NEW w \in Nat
  PROVE  \E power : Powers(power, Bits, w) /\ F!Power(w) = power[w]
<1>. DEFINE power == CHOOSE f : f = [i \in 0 .. w |-> IF i = 0 THEN 1 ELSE Bits * f[i - 1]]
<1>1. F!Power(w) = power[w]
  BY Zenon DEF F!Power
<1>2. ArePowers(power, Bits, w)
  BY Zenon DEF ArePowers
<1>. HIDE DEF power
<1>3. Powers(power, Bits, w)
  BY <1>2, BitsAreNumbers, PowersExist, Zenon
<1>. QED BY <1>1, <1>3, Zenon

LEMMA NumberIs ==
  ASSUME NEW w \in F!Widths, NEW x \in IntegerFor(w)
  PROVE  \E from : /\ SumsUp(from, Bits, x, F!Container(w))
                   /\ from[F!Container(w) + 1] = 0 /\ from[1] \in Nat
                   /\ F!Number(x) = from[1]
<1>. DEFINE C == F!Container(w)
            P(f) == f = [i \in 1 .. Len(x) + 1 |-> IF i > Len(x) THEN 0 ELSE x[i] + Bits * f[i + 1]]
            from == CHOOSE f : P(f)
<1>1. F!Number(x) = from[1]
  BY Zenon DEF F!Number
<1>2. Len(x) = C
  BY IntegerIs, Zenon
<1>3. \A f : P(f) <=> Adds(f, Bits, x, C)
  BY <1>2, Zenon DEF Adds
<1>4. IsTheSum(from, Bits, x, C)
  <2>. HIDE DEF P
  <2>1. from = CHOOSE f : P(f)
    BY Zenon
  <2>. HIDE DEF from
  <2>. QED BY <1>3, <2>1, Zenon DEF IsTheSum
<1>5. DigitsTo(x, Bits, C) /\ C \in Nat /\ Bits \in Nat
  BY IntegerDigits, ContainerIs, BitsAreNumbers, Zenon
<1>. HIDE DEF from, C
<1>6. SumsUp(from, Bits, x, C) /\ from[C + 1] = 0 /\ from[1] \in Nat
  BY <1>4, <1>5, SumExists, Zenon
<1>. QED BY <1>1, <1>6, Zenon DEF C

\* An unsigned integer is in the range of a word if it is all in its low octets.
LEMMA UnsignedFits ==
  ASSUME NEW w \in F!Widths, NEW x \in IntegerFor(w)
  PROVE  Low(w, x) = x <=> F!InRange(x, w, FALSE)
<1>. DEFINE C == F!Container(w)
<1>1. C \in Nat /\ w \in Nat /\ w <= C /\ w \in 0 .. C /\ 0 \in {0, -1} /\ 1 \in Int
  BY ContainerIs
<1>2. Bits \in Nat /\ Bits >= 2 /\ DigitsTo(x, Bits, C)
  BY IntegerDigits, BitsAreNumbers, Zenon
<1>3. PICK from : /\ SumsUp(from, Bits, x, C)
                  /\ from[C + 1] = 0 /\ from[1] \in Nat
                  /\ F!Number(x) = from[1]
  BY NumberIs, Zenon
<1>4. PICK power : Powers(power, Bits, w) /\ F!Power(w) = power[w]
  BY <1>1, PowerIs, Zenon
<1>5. F!InRange(x, w, FALSE) <=> from[1] < power[w]
  BY <1>3, <1>4, Zenon DEF F!InRange
<1>6. Low(w, x) = [i \in 1 .. C |-> IF i <= w THEN x[i] ELSE 0] /\ x = [i \in 1 .. C |-> x[i]]
  <2>1. x \in [1 .. C -> Digit]
    BY Zenon DEF IntegerFor
  <2>2. x = [i \in 1 .. C |-> x[i]]
    <3>. HIDE DEF C
    <3>. QED BY <2>1
  <2>. QED BY <2>2, Zenon DEF Low
<1>. HIDE DEF C
<1>7. from[1] < 1 * power[w] <=> from[w + 1] < 1
  <2>1. w <= w
    BY <1>1
  <2>. QED BY <1>1, <1>2, <1>3, <1>4, <2>1, BelowPower
<1>8. 1 * power[w] = power[w] /\ from[w + 1] \in Int
  <2>1. power[w] \in Nat
    BY <1>1, <1>4 DEF Powers
  <2>2. w + 1 \in 1 .. C + 1
    BY <1>1
  <2>3. from \in [1 .. C + 1 -> Int]
    BY <1>3, Zenon DEF SumsUp
  <2>. QED BY <2>1, <2>2, <2>3
<1>9. from[w + 1] = 0 <=> IsFilled(from, x, w, C, Bits, 0)
  BY <1>1, <1>2, <1>3, FilledWith, Zenon
<1>10. from[w + 1] >= 0
  <2>1. from[1] < 0 * power[w] <=> from[w + 1] < 0
    <3>1. w <= w /\ 0 \in Int
      BY <1>1
    <3>. QED BY <1>1, <1>2, <1>3, <1>4, <3>1, BelowPower, Zenon
  <2>2. 0 * power[w] = 0
    <3>1. power[w] \in Nat
      BY <1>1, <1>4 DEF Powers
    <3>. QED BY <3>1
  <2>3. ~(from[1] < 0)
    BY <1>3
  <2>4. ~(from[w + 1] < 0)
    BY <2>1, <2>2, <2>3, Zenon
  <2>. QED BY <1>8, <2>4
<1>11. from[w + 1] < 1 <=> from[w + 1] = 0
  BY <1>8, <1>10
<1>12. (\A i \in w + 1 .. C : x[i] = 0) <=> Low(w, x) = x
  <2>1. \A i \in w + 1 .. C : i \in 1 .. C /\ ~(i <= w)
    BY <1>1
  <2>2. \A i \in 1 .. C : i <= w \/ i \in w + 1 .. C
    BY <1>1
  <2>3. ASSUME Low(w, x) = x, NEW i \in w + 1 .. C PROVE x[i] = 0
    <3>1. Low(w, x)[i] = 0
      BY <1>6, <2>1
    <3>. QED BY <2>3, <3>1
  <2>4. ASSUME \A i \in w + 1 .. C : x[i] = 0 PROVE Low(w, x) = x
    <3>1. ASSUME NEW i \in 1 .. C PROVE (IF i <= w THEN x[i] ELSE 0) = x[i]
      BY <2>2, <2>4
    <3>. QED BY <1>6, <3>1, Zenon
  <2>. QED BY <2>3, <2>4
<1>13. Filling(0, Bits) = 0
  BY DEF Filling
<1>14. F!InRange(x, w, FALSE) <=> from[w + 1] = 0
  BY <1>5, <1>7, <1>8, <1>11, Zenon
<1>15. from[w + 1] = 0 <=> \A i \in w + 1 .. C : x[i] = 0
  BY <1>3, <1>9, <1>13, Zenon DEF IsFilled
<1>. QED BY <1>12, <1>14, <1>15, Zenon

LEMMA HalfIs == Bits \div 2 \in Nat /\ Bits \div 2 >= 1 /\ Bits = 2 * (Bits \div 2)
  BY BitsAssumption

\* With the digits that are missing, w digits stand for a number of one sign.
LEMMA SignIsSeen ==
  ASSUME NEW h \in Nat, h >= 1, NEW d \in 0 .. 2 * h - 1, NEW a \in Int
  PROVE  /\ d >= h => (~(d + (2 * h) * a < -h) /\ d + (2 * h) * a < h <=> a = -1)
         /\ d < h => (~(d + (2 * h) * a < -h) /\ d + (2 * h) * a < h <=> a = 0)
<1>. DEFINE m == (2 * h) * a
<1>1. /\ a >= 1 => m >= 2 * h
      /\ a <= -2 => m <= -4 * h
      /\ a = 0 => m = 0
      /\ a = -1 => m = -2 * h
      /\ m \in Int
  <2>1. a >= 1 => m >= 2 * h
    OBVIOUS
  <2>2. a <= -2 => m <= -4 * h
    <3>. SUFFICES ASSUME a <= -2 PROVE m <= -4 * h
      OBVIOUS
    <3>1. (2 * h) * a <= (2 * h) * (-2)
      OBVIOUS
    <3>2. (2 * h) * (-2) = -4 * h
      OBVIOUS
    <3>. QED BY <3>1, <3>2
  <2>. QED BY <2>1, <2>2
<1>2. a >= 1 \/ a <= -2 \/ a = 0 \/ a = -1
  OBVIOUS
<1>. HIDE DEF m
<1>3. /\ d >= h => (~(d + m < -h) /\ d + m < h <=> a = -1)
      /\ d < h => (~(d + m < -h) /\ d + m < h <=> a = 0)
  BY <1>1, <1>2
<1>. QED BY <1>3 DEF m

\* The sum that starts with the digit of the sign: the number in two's complement.
LEMMA SignedIs ==
  ASSUME NEW w \in F!Widths, NEW x \in IntegerFor(w)
  PROVE  \E s : /\ SumsUp(s, Bits, x, F!Container(w))
                /\ s[F!Container(w) + 1]
                     = IF x[F!Container(w)] >= Bits \div 2 THEN -1 ELSE 0
                /\ F!Signed(x) = s[1]
<1>. DEFINE C == F!Container(w)
            neg == IF x[C] >= Bits \div 2 THEN 1 ELSE 0
<1>1. C \in Nat /\ C >= 1 /\ neg \in Nat /\ Bits \in Nat /\ Len(x) = C
  BY ContainerIs, IntegerIs, BitsAreNumbers
<1>2. PICK from : /\ SumsUp(from, Bits, x, C)
                  /\ from[C + 1] = 0 /\ from[1] \in Nat
                  /\ F!Number(x) = from[1]
  BY NumberIs, Zenon
<1>3. PICK power : Powers(power, Bits, C) /\ F!Power(C) = power[C]
  BY <1>1, PowerIs, Zenon
<1>4. DigitsTo(x, Bits, C)
  BY IntegerDigits, Zenon
<1>5. F!Signed(x) = IF x[C] >= Bits \div 2 THEN from[1] - power[C] ELSE from[1]
  BY <1>1, <1>2, <1>3, Zenon DEF F!Signed
<1>6. /\ from \in [1 .. C + 1 -> Int]
      /\ \A i \in 1 .. C : from[i] = x[i] + Bits * from[i + 1]
  BY <1>2, Zenon DEF SumsUp
<1>7. power \in [0 .. C -> Nat] /\ power[0] = 1 /\ \A k \in 1 .. C : power[k] = Bits * power[k - 1]
  BY <1>3, Zenon DEF Powers
<1>. DEFINE s == [i \in 1 .. C + 1 |-> from[i] - neg * power[C + 1 - i]]
<1>8. s[C + 1] = IF x[C] >= Bits \div 2 THEN -1 ELSE 0
  <2>. HIDE DEF C
  <2>1. s[C + 1] = from[C + 1] - neg * power[0]
    BY <1>1
  <2>. QED BY <1>2, <1>7, <2>1
<1>9. F!Signed(x) = s[1]
  <2>. DEFINE c == x[C] >= Bits \div 2
  <2>1. s[1] = from[1] - neg * power[C]
    <3>. HIDE DEF C
    <3>1. 1 \in 1 .. C + 1 /\ C + 1 - 1 = C
      BY <1>1
    <3>. HIDE DEF neg
    <3>. QED BY <3>1
  <2>2. power[C] \in Nat /\ from[1] \in Nat
    <3>1. C \in 0 .. C
      BY <1>1
    <3>. QED BY <1>2, <1>7, <3>1
  <2>3. neg = IF c THEN 1 ELSE 0
    BY Zenon
  <2>4. F!Signed(x) = IF c THEN from[1] - power[C] ELSE from[1]
    BY <1>5, Zenon
  <2>. HIDE DEF s, neg, C, c
  <2>5. CASE c
    <3>1. neg * power[C] = power[C]
      BY <2>2, <2>3, <2>5
    <3>. QED BY <2>1, <2>4, <2>5, <3>1
  <2>6. CASE ~c
    <3>1. neg * power[C] = 0
      BY <2>2, <2>3, <2>6
    <3>. QED BY <2>1, <2>2, <2>4, <2>6, <3>1
  <2>. QED BY <2>5, <2>6
<1>. HIDE DEF neg, C
<1>10. s \in [1 .. C + 1 -> Int]
  <2>1. ASSUME NEW i \in 1 .. C + 1 PROVE from[i] - neg * power[C + 1 - i] \in Int
    <3>1. C + 1 - i \in 0 .. C
      BY <1>1
    <3>2. power[C + 1 - i] \in Nat /\ from[i] \in Int
      BY <1>6, <1>7, <3>1
    <3>3. neg * power[C + 1 - i] \in Int
      BY <1>1, <3>2
    <3>. QED BY <3>2, <3>3
  <2>. QED BY <2>1
<1>11. ASSUME NEW i \in 1 .. C PROVE s[i] = x[i] + Bits * s[i + 1]
  <2>. DEFINE k == C + 1 - i
              f1 == from[i + 1]
              q == power[k - 1]
  <2>1. /\ i \in 1 .. C + 1 /\ i + 1 \in 1 .. C + 1 /\ C + 1 - (i + 1) = k - 1 /\ k \in 1 .. C
        /\ k - 1 \in 0 .. C
    BY <1>1
  <2>2. s[i] = from[i] - neg * power[k] /\ s[i + 1] = f1 - neg * q
    BY <2>1
  <2>3. from[i] = x[i] + Bits * f1 /\ power[k] = Bits * q
    BY <1>6, <1>7, <2>1
  <2>4. f1 \in Int /\ q \in Nat
    BY <1>6, <1>7, <2>1
  <2>5. x[i] \in Int
    BY <1>4 DEF DigitsTo
  <2>. DEFINE d == x[i]
  <2>. HIDE DEF f1, q, s, k, d
  <2>6. (d + Bits * f1) - neg * (Bits * q) = d + Bits * (f1 - neg * q)
    <3>1. Bits * (f1 - neg * q) = Bits * f1 - Bits * (neg * q)
      BY <1>1, <2>4
    <3>2. Bits * (neg * q) = neg * (Bits * q)
      BY <1>1, <2>4
    <3>3. Bits * f1 \in Int /\ neg * (Bits * q) \in Int /\ d \in Int
      BY <1>1, <2>4, <2>5 DEF d
    <3>. QED BY <3>1, <3>2, <3>3
  <2>. QED BY <2>2, <2>3, <2>6, Zenon DEF d
<1>12. SumsUp(s, Bits, x, C)
  <2>. HIDE DEF s
  <2>. QED BY <1>10, <1>11, Zenon DEF SumsUp
<1>. HIDE DEF s
<1>. QED BY <1>8, <1>9, <1>12, Zenon DEF C

\* A signed integer is in the range of a word if the octets above it are its sign.
LEMMA SignedFits ==
  ASSUME NEW w \in F!Widths, NEW x \in IntegerFor(w)
  PROVE  F!SignExtend(Low(w, x), w) = x <=> F!InRange(x, w, TRUE)
<1>. DEFINE C == F!Container(w)
            h == Bits \div 2
            t == IF x[w] >= h THEN -1 ELSE 0
            all == \A i \in w + 1 .. C : x[i] = Filling(t, Bits)
<1>1. /\ C \in Nat /\ w \in Nat /\ w >= 2 /\ w <= C /\ w \in 0 .. C /\ w \in 1 .. C /\ C \in 1 .. C
      /\ h \in Nat /\ h >= 1 /\ Bits = 2 * h /\ Bits \in Nat /\ Bits >= 2
  BY ContainerIs, HalfIs, BitsAreNumbers
<1>2. DigitsTo(x, Bits, C) /\ \A i \in 1 .. C : x[i] \in 0 .. Bits - 1
  BY IntegerDigits, Zenon
<1>3. PICK s : /\ SumsUp(s, Bits, x, C)
               /\ s[C + 1] = IF x[C] >= h THEN -1 ELSE 0
               /\ F!Signed(x) = s[1]
  BY SignedIs, Zenon
<1>4. PICK power : Powers(power, Bits, w) /\ F!Power(w) = power[w]
  BY <1>1, PowerIs, Zenon
<1>5. /\ F!SignExtend(Low(w, x), w)
           = [i \in 1 .. C |-> IF i <= w THEN x[i] ELSE Filling(t, Bits)]
      /\ x = [i \in 1 .. C |-> x[i]]
  <2>1. x \in [1 .. C -> Digit]
    BY Zenon DEF IntegerFor
  <2>2. Low(w, x) = [i \in 1 .. C |-> IF i <= w THEN x[i] ELSE 0]
    BY Zenon DEF Low
  <2>. HIDE DEF C, h
  <2>3. Len(Low(w, x)) = C /\ Low(w, x)[w] = x[w]
    BY <1>1, <2>2
  <2>. DEFINE ext(n, top) == [i \in 1 .. n |-> IF i > w /\ top >= h THEN Bits - 1 ELSE Low(w, x)[i]]
  <2>4. F!SignExtend(Low(w, x), w) = ext(Len(Low(w, x)), Low(w, x)[w])
    BY Zenon DEF F!SignExtend, h
  <2>5. F!SignExtend(Low(w, x), w) = ext(C, x[w])
    <3>. HIDE DEF ext
    <3>. QED BY <2>3, <2>4, Zenon
  <2>6. ASSUME NEW i \in 1 .. C
        PROVE  (IF i > w /\ x[w] >= h THEN Bits - 1 ELSE Low(w, x)[i])
                 = IF i <= w THEN x[i] ELSE Filling(t, Bits)
    <3>1. Low(w, x)[i] = IF i <= w THEN x[i] ELSE 0
      BY <2>2
    <3>2. i > w <=> ~(i <= w)
      BY <1>1
    <3>3. Filling(t, Bits) = IF x[w] >= h THEN Bits - 1 ELSE 0
      BY DEF Filling
    <3>. QED BY <3>1, <3>2, <3>3, Zenon
  <2>7. x = [i \in 1 .. C |-> x[i]]
    BY <2>1
  <2>8. ext(C, x[w]) = [i \in 1 .. C |-> IF i <= w THEN x[i] ELSE Filling(t, Bits)]
    <3>. HIDE DEF t
    <3>. QED BY <2>6, Zenon
  <2>. HIDE DEF ext, t
  <2>. QED BY <2>5, <2>7, <2>8, Zenon
<1>6. F!SignExtend(Low(w, x), w) = x <=> all
  <2>. DEFINE f == Filling(t, Bits)
              e == [i \in 1 .. C |-> IF i <= w THEN x[i] ELSE f]
  <2>1. \A i \in w + 1 .. C : i \in 1 .. C /\ ~(i <= w)
    BY <1>1
  <2>2. \A i \in 1 .. C : i <= w \/ i \in w + 1 .. C
    BY <1>1
  <2>. HIDE DEF f, C
  <2>3. ASSUME e = x, NEW i \in w + 1 .. C PROVE x[i] = f
    <3>1. e[i] = f
      BY <2>1
    <3>. QED BY <2>3, <3>1, Zenon
  <2>4. ASSUME \A i \in w + 1 .. C : x[i] = f PROVE e = x
    <3>1. ASSUME NEW i \in 1 .. C PROVE (IF i <= w THEN x[i] ELSE f) = x[i]
      BY <2>2, <2>4, Zenon
    <3>. QED BY <1>5, <3>1, Zenon
  <2>5. F!SignExtend(Low(w, x), w) = e
    BY <1>5, Zenon DEF f
  <2>6. all <=> \A i \in w + 1 .. C : x[i] = f
    BY Zenon DEF f
  <2>. HIDE DEF e, all
  <2>. QED BY <2>3, <2>4, <2>5, <2>6, Zenon
<1>. HIDE DEF C, h
<1>7. s \in [1 .. C + 1 -> Int] /\ s[w] = x[w] + Bits * s[w + 1] /\ w + 1 \in 1 .. C + 1 /\ 1 \in 1 .. C + 1
  <2>1. s \in [1 .. C + 1 -> Int] /\ s[w] = x[w] + Bits * s[w + 1]
    BY <1>1, <1>3, Zenon DEF SumsUp
  <2>. QED BY <1>1, <2>1
<1>. DEFINE p == power[w - 1]
<1>8. p \in Nat /\ power[w] = Bits * p
  <2>1. w - 1 \in 0 .. w /\ w \in 1 .. w
    BY <1>1
  <2>. QED BY <1>4, <2>1 DEF Powers
<1>9. F!Power(w) \div 2 = h * p
  <2>. HIDE DEF p
  <2>1. Bits * p = 2 * (h * p) /\ h * p \in Nat
    BY <1>1, <1>8
  <2>. DEFINE a == h * p
  <2>2. a \in Nat
    BY <2>1
  <2>3. F!Power(w) = 2 * a
    BY <1>4, <1>8, <2>1, Zenon
  <2>. HIDE DEF a
  <2>4. (2 * a) \div 2 = a
    BY <2>2
  <2>. QED BY <2>3, <2>4, Zenon DEF a
<1>10. F!InRange(x, w, TRUE) <=> ~(s[1] < (-h) * p) /\ s[1] < h * p
  <2>. DEFINE a == h * p
  <2>. HIDE DEF p
  <2>1. F!InRange(x, w, TRUE) <=> s[1] >= -1 * a /\ s[1] < a
    BY <1>3, <1>9, Zenon DEF F!InRange
  <2>2. (-h) * p = -1 * a /\ a \in Int
    BY <1>1, <1>8
  <2>3. s[1] \in Int
    BY <1>7
  <2>. HIDE DEF a
  <2>4. s[1] >= -1 * a <=> ~(s[1] < -1 * a)
    BY <2>2, <2>3
  <2>. QED BY <2>1, <2>2, <2>4, Zenon DEF a
<1>11. /\ s[1] < h * p <=> s[w] < h
       /\ s[1] < (-h) * p <=> s[w] < -h
  <2>. DEFINE v == w - 1
              g == -h
  <2>1. v \in 0 .. C /\ v <= w /\ v + 1 = w /\ h \in Int /\ g \in Int
    BY <1>1
  <2>. HIDE DEF v, g
  <2>2. s[1] < h * power[v] <=> s[v + 1] < h
    BY <1>1, <1>2, <1>3, <1>4, <2>1, BelowPower, Zenon
  <2>3. s[1] < g * power[v] <=> s[v + 1] < g
    BY <1>1, <1>2, <1>3, <1>4, <2>1, BelowPower, Zenon
  <2>. QED BY <2>1, <2>2, <2>3, Zenon DEF v, g
<1>12. F!InRange(x, w, TRUE) <=> s[w + 1] = t
  <2>. DEFINE d == x[w]
              a == s[w + 1]
  <2>1. d \in 0 .. 2 * h - 1 /\ a \in Int /\ s[w] = d + (2 * h) * a
    BY <1>1, <1>2, <1>7
  <2>2. t = IF d >= h THEN -1 ELSE 0
    BY Zenon
  <2>3. F!InRange(x, w, TRUE) <=> ~(s[w] < -h) /\ s[w] < h
    <3>. HIDE DEF p
    <3>. QED BY <1>10, <1>11, Zenon
  <2>. HIDE DEF d, a, t
  <2>4. /\ d >= h => (~(d + (2 * h) * a < -h) /\ d + (2 * h) * a < h <=> a = -1)
        /\ d < h => (~(d + (2 * h) * a < -h) /\ d + (2 * h) * a < h <=> a = 0)
    BY <1>1, <2>1, SignIsSeen
  <2>5. d < h <=> ~(d >= h)
    BY <1>1, <2>1
  <2>6. F!InRange(x, w, TRUE) <=> a = t
    BY <2>1, <2>2, <2>3, <2>4, <2>5, Zenon
  <2>. QED BY <2>6 DEF a
<1>13. s[w + 1] = t <=> s[C + 1] = t /\ all
  <2>1. t \in {0, -1}
    OBVIOUS
  <2>. HIDE DEF t
  <2>2. s[w + 1] = t <=> IsFilled(s, x, w, C, Bits, t)
    <3>1. /\ Bits \in Nat /\ Bits >= 2 /\ C \in Nat /\ w \in 0 .. C
          /\ DigitsTo(x, Bits, C) /\ SumsUp(s, Bits, x, C)
      BY <1>1, <1>2, <1>3
    <3>. HIDE DEF C
    <3>. QED BY <3>1, <2>1, FilledWith
  <2>. QED BY <2>2, Zenon DEF IsFilled
<1>14. ASSUME all PROVE s[C + 1] = t
  <2>1. CASE w = C
    BY <1>3, <2>1, Zenon
  <2>2. CASE w # C
    <3>1. C \in w + 1 .. C
      BY <1>1, <2>2
    <3>2. x[C] = Filling(t, Bits)
      BY <1>14, <3>1, Zenon
    <3>3. CASE x[w] >= h
      <4>1. t = -1 /\ x[C] = Bits - 1
        BY <3>2, <3>3 DEF Filling
      <4>2. x[C] >= h
        BY <1>1, <4>1
      <4>. HIDE DEF t
      <4>. QED BY <1>3, <4>1, <4>2, Zenon
    <3>4. CASE ~(x[w] >= h)
      <4>1. t = 0 /\ x[C] = 0
        BY <3>2, <3>4 DEF Filling
      <4>2. ~(x[C] >= h)
        BY <1>1, <4>1
      <4>. HIDE DEF t
      <4>. QED BY <1>3, <4>1, <4>2, Zenon
    <3>. QED BY <3>3, <3>4
  <2>. QED BY <2>1, <2>2
<1>. HIDE DEF all, t
<1>. QED BY <1>6, <1>12, <1>13, <1>14, Zenon

(***************************************************************************)
(* Variable length integers.                                               *)
(***************************************************************************)

Bitses == {32, 64}

LEMMA WidthIs ==
  ASSUME NEW bits \in Bitses
  PROVE  V!MaxOctets(bits) \in Nat /\ V!MaxOctets(bits) <= WideOctets /\ V!Modulus(bits) \in Nat
<1>1. CASE bits = 32
  BY <1>1, VarintAssumption DEF V!MaxOctets, V!Modulus
<1>2. CASE bits = 64
  BY <1>2, VarintAssumption DEF V!MaxOctets, V!Modulus
<1>. QED BY <1>1, <1>2 DEF Bitses

\* The octets of a number, as its digits from some sequence of what is left of it.
LEMMA OctetsAre ==
  ASSUME NEW n \in Nat
  PROVE  /\ V!Length(n) \in Nat /\ V!Length(n) >= 1
         /\ \E left : /\ Lefts(left, DataValues, n, V!Length(n)) /\ left[V!Length(n)] = 0
                      /\ IsEncoding(V!OctetsOf(n), left, DataValues, V!Length(n))
<1>. DEFINE D == DataValues
            L == V!Length(n)
            o == V!OctetsOf(n)
<1>0. D \in Nat /\ D >= 2
  BY VarintAssumption
<1>1. IsLeft(V!Left(n), D, n)
  BY Zenon DEF V!Left, IsLeft
<1>2. IsEnd(L, V!Left(n), n)
  BY Zenon DEF V!Length, IsEnd
<1>. HIDE DEF D, L
<1>3. L \in 1 .. n + 1 /\ RunsOut(V!Left(n), D, n, L)
  BY <1>0, <1>1, <1>2, DigitsEnd, Zenon
<1>4. PICK left : Lefts(left, D, n, L) /\ left[L] = 0 /\ \A i \in 0 .. L : V!Left(n)[i] = left[i]
  BY <1>3, Zenon DEF RunsOut
<1>5. L \in Nat /\ L >= 1
  BY <1>3
<1>6. AreOctets(o, left, D, L)
  <2>. DEFINE oct(i) == (left[i - 1] % D) + (IF i < L THEN D ELSE 0)
  <2>2. o = [i \in 1 .. L |-> (V!Left(n)[i - 1] % D) + (IF i < L THEN D ELSE 0)]
    BY Zenon DEF V!OctetsOf, D, L
  <2>3. ASSUME NEW i \in 1 .. L
        PROVE  (V!Left(n)[i - 1] % D) + (IF i < L THEN D ELSE 0) = oct(i)
    <3>1. i - 1 \in 0 .. L
      BY <1>5
    <3>. QED BY <1>4, <3>1, Zenon
  <2>4. o = [i \in 1 .. L |-> oct(i)]
    <3>. HIDE DEF o, oct
    <3>. QED BY <2>2, <2>3, Zenon
  <2>. HIDE DEF o
  <2>. QED BY <2>4, Zenon DEF AreOctets
<1>7. left \in [0 .. L -> Nat]
  BY <1>4, Zenon DEF Lefts
<1>. HIDE DEF o
<1>8. IsEncoding(o, left, D, L)
  BY <1>0, <1>5, <1>6, <1>7, EncodingIs, Zenon
<1>. QED BY <1>4, <1>5, <1>8, Zenon DEF o, D, L

LEMMA OctetsType ==
  ASSUME NEW n \in Nat
  PROVE  /\ V!Length(n) \in Nat /\ V!Length(n) >= 1
         /\ V!OctetsOf(n) \in Seq(Nat) /\ Len(V!OctetsOf(n)) = V!Length(n)
  BY OctetsAre, Zenon DEF IsEncoding

\* Octets that begin with those of a number are taken for this number.
LEMMA NumberIsFound ==
  ASSUME NEW bits \in Bitses, NEW u \in Nat, u < V!Modulus(bits),
         V!Length(u) <= V!MaxOctets(bits),
         NEW s \in Seq(Nat), V!Length(u) <= Len(s),
         BeginsWithOctets(s, V!OctetsOf(u), V!Length(u))
  PROVE  /\ V!Ends(s, V!MaxOctets(bits)) # {}
         /\ V!EndOf(s, V!MaxOctets(bits)) = V!Length(u)
         /\ V!NumberIn(s, V!Length(u), bits) = u
<1>. DEFINE D == DataValues
            L == V!Length(u)
            o == V!OctetsOf(u)
            max == V!MaxOctets(bits)
            E == V!Ends(s, max)
<1>1. /\ D \in Nat /\ D >= 2 /\ L \in Nat /\ L >= 1 /\ max \in Nat /\ L <= max
      /\ V!Modulus(bits) \in Nat /\ Len(s) \in Nat /\ L <= Len(s)
  BY VarintAssumption, OctetsType, WidthIs
<1>2. PICK left : Lefts(left, D, u, L) /\ left[L] = 0 /\ IsEncoding(o, left, D, L)
  BY OctetsAre, Zenon
<1>3. \A i \in 1 .. L : s[i] = o[i] /\ (s[i] < D <=> i = L)
  BY <1>2, Zenon DEF IsEncoding, BeginsWithOctets
<1>4. \A i : i \in E <=> i \in 1 .. max /\ i <= Len(s) /\ s[i] < D
  BY Zenon DEF V!Ends, V!Done, D
<1>5. BeginsWithOctets(s, o, L)
  BY Zenon
<1>6. V!EndOf(s, max) = CHOOSE i \in E : \A j \in E : i <= j
  BY Zenon DEF V!EndOf
<1>. DEFINE from == CHOOSE f : f = [i \in 1 .. L + 1 |->
                                      IF i > L THEN 0 ELSE (s[i] % D) + D * f[i + 1]]
<1>7. V!NumberIn(s, L, bits) = from[1] % V!Modulus(bits)
  BY Zenon DEF V!NumberIn, D
<1>8. SumsDigits(from, s, D, L)
  BY Zenon DEF SumsDigits
<1>. HIDE DEF D, L, o, max, E, from
<1>9. \A i \in E : L <= i
  <2>1. ASSUME NEW i \in E, i < L PROVE FALSE
    <3>1. i \in 1 .. max /\ i <= Len(s) /\ s[i] < D
      BY <1>4
    <3>2. i \in 1 .. L /\ i # L
      BY <1>1, <2>1, <3>1
    <3>. QED BY <1>3, <3>1, <3>2, Zenon
  <2>2. \A i \in E : i \in Nat
    BY <1>4
  <2>. QED BY <1>1, <2>1, <2>2
<1>10. L \in E
  <2>1. L \in 1 .. L /\ L \in 1 .. max
    BY <1>1
  <2>2. s[L] < D
    BY <1>3, <2>1, Zenon
  <2>. QED BY <1>1, <1>4, <2>1, <2>2, Zenon
<1>11. V!EndOf(s, max) = L
  <2>. DEFINE Is(i) == \A j \in E : i <= j
  <2>1. V!EndOf(s, max) = CHOOSE i \in E : Is(i)
    BY <1>6, Zenon
  <2>2. \A i \in E : Is(i) <=> i = L
    <3>1. \A i \in E : i \in Nat
      BY <1>4
    <3>. QED BY <1>1, <1>9, <1>10, <3>1
  <2>. HIDE DEF Is
  <2>. QED BY <1>10, <2>1, <2>2, Zenon
<1>12. from[1] = u
  <2>1. u \in Nat /\ Lefts(left, D, u, L) /\ left[L] = 0 /\ IsEncoding(o, left, D, L)
    BY <1>2, Zenon
  <2>. QED BY <1>1, <1>5, <1>8, <2>1, EncodingIsRead, Zenon
<1>13. u % V!Modulus(bits) = u
  <2>. DEFINE m == V!Modulus(bits)
  <2>1. m \in Nat /\ u < m
    BY <1>1
  <2>. HIDE DEF m
  <2>2. u % m = u
    BY <2>1
  <2>. QED BY <2>2 DEF m
<1>. QED BY <1>7, <1>10, <1>11, <1>12, <1>13, Zenon DEF E, L, max

\* A number with room behind the marks is put between its octets' marks.
LEMMA EncodePuts ==
  ASSUME NEW bits \in Bitses, NEW u \in Nat, NEW d \in Seq(Nat), NEW at \in Nat,
         at + V!MaxOctets(bits) <= Len(d), Len(d) < SizeMax
  PROVE  V!Encode([data |-> d, used |-> at, offset |-> at], u, bits).buf
           = [data |-> V!BB!Patch(d, at, V!OctetsOf(u)), used |-> at + V!Length(u), offset |-> at]
<1>. DEFINE b == [data |-> d, used |-> at, offset |-> at]
            o == V!OctetsOf(u)
            good(dd, n) == [rc |-> Len(o), buf |-> [b EXCEPT !.data = dd, !.used = n], out |-> <<>>]
<1>1. b.data = d /\ b.used = at /\ b.offset = at
  OBVIOUS
<1>2. V!BB!Avail(b) = Len(d) - at
  <2>1. V!BB!Avail(b) = (Len(d) - at) % SizeMax
    BY <1>1, Zenon DEF V!BB!Avail, V!BB!Size
  <2>2. Len(d) - at \in Nat /\ Len(d) - at < SizeMax /\ SizeMax \in Nat
    BY WidthIs, VarintAssumption
  <2>. DEFINE free == Len(d) - at
  <2>. HIDE DEF free
  <2>3. free \in Nat /\ free < SizeMax /\ SizeMax \in Nat
    BY <2>2, Zenon DEF free
  <2>4. free % SizeMax = free
    BY <2>3
  <2>. QED BY <2>1, <2>4, Zenon DEF free
<1>3. ~(V!BB!Avail(b) < V!MaxOctets(bits))
  BY <1>2, WidthIs
<1>4. V!Encode(b, u, bits) = good(V!BB!Patch(b.data, b.offset, o), b.offset + Len(o))
  <2>1. V!Encode(b, u, bits)
          = IF V!BB!Avail(b) < V!MaxOctets(bits) THEN V!BB!Refuses(b, "EINVAL")
            ELSE good(V!BB!Patch(b.data, b.offset, o), b.offset + Len(o))
    <3>. HIDE DEF b
    <3>. QED BY Zenon DEF V!Encode, o
  <2>. HIDE DEF b, good
  <2>. QED BY <1>3, <2>1, Zenon
<1>5. V!Encode(b, u, bits) = good(V!BB!Patch(d, at, o), at + V!Length(u))
  <2>1. Len(o) = V!Length(u)
    BY OctetsType
  <2>. HIDE DEF b, good, o
  <2>. QED BY <1>1, <1>4, <2>1, Zenon
<1>. DEFINE dd == V!BB!Patch(d, at, o)
            n == at + V!Length(u)
<1>. HIDE DEF dd, n, o
<1>6. good(dd, n).buf = [data |-> dd, used |-> n, offset |-> at]
  OBVIOUS
<1>. HIDE DEF good, b
<1>. QED BY <1>5, <1>6, Zenon DEF dd, n, o, b

LiesAt(p, at, octets, L) == \A i \in 1 .. L : p[at + i] = octets[i]

\* The octets in the memory.
LEMMA PatchIs ==
  ASSUME NEW u \in Nat, NEW d \in Seq(Nat), NEW at \in Nat, at + V!Length(u) <= Len(d)
  PROVE  LET p == V!BB!Patch(d, at, V!OctetsOf(u))
         IN  /\ p \in Seq(Nat) /\ Len(p) = Len(d)
             /\ LiesAt(p, at, V!OctetsOf(u), V!Length(u))
<1>. DEFINE o == V!OctetsOf(u)
            L == V!Length(u)
            p == [i \in 1 .. Len(d) |-> IF i \in at + 1 .. at + L THEN o[i - at] ELSE d[i]]
<1>1. L \in Nat /\ o \in Seq(Nat) /\ Len(o) = L /\ Len(d) \in Nat
  BY OctetsType
<1>2. V!BB!Patch(d, at, o) = p
  <2>1. DOMAIN d = 1 .. Len(d)
    OBVIOUS
  <2>. HIDE DEF o, L
  <2>2. V!BB!Patch(d, at, o)
          = [i \in DOMAIN d |-> IF i \in at + 1 .. at + Len(o) THEN o[i - at] ELSE d[i]]
    BY Zenon DEF V!BB!Patch
  <2>. QED BY <1>1, <2>1, <2>2, Zenon
<1>. HIDE DEF o, L
<1>3. ASSUME NEW i \in 1 .. Len(d)
      PROVE  (IF i \in at + 1 .. at + L THEN o[i - at] ELSE d[i]) \in Nat
  <2>1. CASE i \in at + 1 .. at + L
    <3>1. i - at \in 1 .. Len(o)
      BY <1>1, <2>1
    <3>2. o[i - at] \in Nat
      BY <1>1, <3>1, ElementOfSeq, Zenon
    <3>. QED BY <2>1, <3>2
  <2>2. CASE i \notin at + 1 .. at + L
    <3>1. d[i] \in Nat
      BY ElementOfSeq, Zenon
    <3>. QED BY <2>2, <3>1
  <2>. QED BY <2>1, <2>2
<1>4. p \in Seq(Nat) /\ Len(p) = Len(d)
  BY <1>1, <1>3
<1>5. ASSUME NEW i \in 1 .. L PROVE p[at + i] = o[i]
  <2>1. at + i \in 1 .. Len(d) /\ at + i \in at + 1 .. at + L /\ at + i - at = i
    BY <1>1 DEF L
  <2>. QED BY <2>1
<1>. HIDE DEF p
<1>6. /\ p \in Seq(Nat) /\ Len(p) = Len(d)
      /\ LiesAt(p, at, o, L)
  BY <1>4, <1>5, Zenon DEF LiesAt
<1>. QED BY <1>2, <1>6, Zenon DEF o, L

\* What varint_*_to_sink() puts are the octets of the number.
LEMMA SinkGetsOctets ==
  ASSUME NEW bits \in Bitses, NEW u \in Nat, V!Length(u) <= V!MaxOctets(bits)
  PROVE  V!ToSink(u, bits) = V!OctetsOf(u)
<1>. DEFINE o == V!OctetsOf(u)
            L == V!Length(u)
            max == V!MaxOctets(bits)
            zeros == [i \in 1 .. max |-> 0]
            b == [data |-> zeros, used |-> 0, offset |-> 0]
            e == V!Encode(b, u, bits).buf
            p == V!BB!Patch(zeros, 0, o)
<1>1. L \in Nat /\ L >= 1 /\ o \in Seq(Nat) /\ Len(o) = L /\ max \in Nat /\ L <= max /\ max < SizeMax
  BY OctetsType, WidthIs, VarintAssumption
<1>. HIDE DEF max
<1>2. zeros \in Seq(Nat) /\ Len(zeros) = max
  BY <1>1
<1>3. V!BB!Space(V!BB!Null, zeros).buf = b
  <2>1. zeros # <<>>
    <3>1. Len(<<>>) = 0
      OBVIOUS
    <3>. HIDE DEF zeros
    <3>2. Len(zeros) # 0
      BY <1>1, <1>2
    <3>. QED BY <3>1, <3>2, Zenon
  <2>2. V!BB!Space(V!BB!Null, zeros) = V!BB!Succeeds(b)
    <3>1. ~(zeros = <<>> \/ 0 > Len(zeros) \/ 0 > 0)
      <4>. HIDE DEF zeros
      <4>. QED BY <1>1, <1>2, <2>1
    <3>. HIDE DEF zeros
    <3>. QED BY <3>1, Zenon DEF V!BB!Space, V!BB!Set, b
  <2>. HIDE DEF b
  <2>. QED BY <2>2 DEF V!BB!Succeeds
<1>4. V!ToSink(u, bits) = SubSeq(e.data, 1, e.used)
  <2>. DEFINE z(m) == [i \in 1 .. m |-> 0]
              c == V!Encode(V!BB!Space(V!BB!Null, zeros).buf, u, bits).buf
  <2>1. V!ToSink(u, bits) = SubSeq(c.data, 1, c.used)
    BY Zenon DEF V!ToSink, max
  <2>2. c = e
    <3>. HIDE DEF zeros, b
    <3>. QED BY <1>3, Zenon
  <2>. HIDE DEF c, e
  <2>. QED BY <2>1, <2>2, Zenon
<1>. HIDE DEF zeros
<1>5. e = [data |-> p, used |-> 0 + L, offset |-> 0]
  <2>1. 0 \in Nat /\ 0 + max <= Len(zeros) /\ Len(zeros) < SizeMax
    BY <1>1, <1>2
  <2>2. 0 + V!MaxOctets(bits) <= Len(zeros)
    BY <2>1 DEF max
  <2>3. bits \in Bitses /\ u \in Nat /\ zeros \in Seq(Nat)
    BY <1>2
  <2>. HIDE DEF max
  <2>. QED BY <2>1, <2>2, <2>3, EncodePuts
<1>6. p \in Seq(Nat) /\ Len(p) = max /\ \A i \in 1 .. L : p[0 + i] = o[i]
  <2>1. 0 \in Nat /\ 0 + L <= Len(zeros)
    BY <1>1, <1>2
  <2>2. p \in Seq(Nat) /\ Len(p) = Len(zeros) /\ LiesAt(p, 0, o, L)
    BY <1>2, <2>1, PatchIs, Zenon
  <2>. QED BY <1>2, <2>2, Zenon DEF LiesAt
<1>. HIDE DEF e, p, o, L
<1>7. e.data = p /\ e.used = L
  BY <1>1, <1>5
<1>8. SubSeq(p, 1, L) = o
  <2>1. SubSeq(p, 1, L) = [i \in 1 .. L |-> p[i]]
    BY <1>1, <1>6
  <2>2. \A i \in 1 .. L : p[i] = o[i]
    BY <1>6
  <2>3. o = [i \in 1 .. L |-> o[i]]
    BY <1>1
  <2>. QED BY <2>1, <2>2, <2>3, Zenon
<1>. QED BY <1>4, <1>7, <1>8, Zenon DEF o

\* varint_decode_*() of memory that has the octets of a number at the marks.
LEMMA DecodeFinds ==
  ASSUME NEW bits \in Bitses, NEW u \in Nat, u < V!Modulus(bits),
         V!Length(u) <= V!MaxOctets(bits),
         NEW d \in Seq(Nat), NEW at \in Nat, at + V!Length(u) <= Len(d),
         NEW b, b = [data |-> V!BB!Patch(d, at, V!OctetsOf(u)),
                     used |-> at + V!Length(u), offset |-> at]
  PROVE  /\ V!Decode(b, bits).n = u
         /\ V!Decode(b, bits).buf.used = at + V!Length(u)
         /\ V!Decode(b, bits).buf.offset = at + V!Length(u)
<1>. DEFINE p == V!BB!Patch(d, at, V!OctetsOf(u))
            o == V!OctetsOf(u)
            L == V!Length(u)
            max == V!MaxOctets(bits)
            s == SubSeq(p, at + 1, Len(p))
<1>1. L \in Nat /\ L >= 1 /\ Len(d) \in Nat
  BY OctetsType
<1>2. p \in Seq(Nat) /\ Len(p) = Len(d) /\ LiesAt(p, at, o, L)
  BY PatchIs, Zenon
<1>3. b.data = p /\ b.used = at + L /\ b.offset = at
  <2>1. b = [data |-> p, used |-> at + L, offset |-> at]
    BY Zenon
  <2>. HIDE DEF p, L
  <2>. QED BY <2>1
<1>4. u < V!Modulus(bits) /\ L <= max /\ at + L <= Len(d)
  BY Zenon
<1>. HIDE DEF p, o, L, max
<1>5. s \in Seq(Nat) /\ Len(s) = Len(d) - at /\ \A i \in 1 .. Len(d) - at : s[i] = p[at + i]
  <2>1. at + 1 \in 1 .. Len(p) + 1 /\ Len(p) \in at .. Len(p)
    BY <1>1, <1>2, <1>4
  <2>2. Len(s) = Len(d) - at /\ \A i \in 1 .. Len(d) - at : s[i] = p[at + i]
    BY <1>1, <1>2, <1>4
  <2>3. \A i \in 1 .. Len(d) - at : p[at + i] \in Nat
    <3>1. \A i \in 1 .. Len(d) - at : at + i \in 1 .. Len(p)
      BY <1>1, <1>2, <1>4
    <3>. QED BY <1>2, <3>1, ElementOfSeq, Zenon
  <2>4. s \in Seq(Nat)
    BY <1>1, <1>2, <1>4, <2>3
  <2>. QED BY <2>2, <2>4, Zenon
<1>. HIDE DEF s
<1>6. L <= Len(s) /\ BeginsWithOctets(s, o, L)
  <2>1. L <= Len(s) /\ \A i \in 1 .. L : i \in 1 .. Len(d) - at
    BY <1>1, <1>4, <1>5
  <2>. QED BY <1>2, <1>5, <2>1, Zenon DEF LiesAt, BeginsWithOctets
<1>7. V!Ends(s, max) # {} /\ V!EndOf(s, max) = L /\ V!NumberIn(s, L, bits) = u
  <2>1. L <= max
    BY <1>4, Zenon
  <2>. QED BY <1>4, <1>5, <1>6, <2>1, NumberIsFound, Zenon DEF L, o, max
<1>. DEFINE decoded(k, m) == [rc |-> k, n |-> m, buf |-> [b EXCEPT !.offset = b.offset + k]]
<1>8. V!Decode(b, bits)
        = LET octets == SubSeq(b.data, b.offset + 1, Len(b.data))
          IN  IF V!Ends(octets, max) = {} THEN [rc |-> "EILSEQ", n |-> 0, buf |-> b]
              ELSE decoded(V!EndOf(octets, max), V!NumberIn(octets, V!EndOf(octets, max), bits))
  BY Zenon DEF V!Decode, max
<1>9. SubSeq(b.data, b.offset + 1, Len(b.data)) = s
  BY <1>3, Zenon DEF s
<1>10. V!Decode(b, bits) = decoded(L, u)
  <2>. HIDE DEF decoded
  <2>. QED BY <1>7, <1>8, <1>9, Zenon
<1>11. decoded(L, u).n = u
  OBVIOUS
<1>12. decoded(L, u).buf = [b EXCEPT !.offset = at + L]
  BY <1>3
<1>13. b = [data |-> p, used |-> at + L, offset |-> at]
  BY Zenon DEF p, L
<1>. DEFINE b2 == [b EXCEPT !.offset = at + L]
<1>14. b2.used = at + L /\ b2.offset = at + L
  BY <1>13
<1>. HIDE DEF decoded, b2
<1>. QED BY <1>10, <1>11, <1>12, <1>14, Zenon DEF L, b2

\* varint_*_from_source() of the octets that were put into a sink.
LEMMA SourceFinds ==
  ASSUME NEW bits \in Bitses, NEW u \in Nat, u < V!Modulus(bits),
         V!Length(u) <= V!MaxOctets(bits)
  PROVE  V!FromSource(V!OctetsOf(u), bits, "EIO") = [rc |-> "ok", n |-> u, taken |-> V!Length(u)]
<1>. DEFINE o == V!OctetsOf(u)
            L == V!Length(u)
            max == V!MaxOctets(bits)
            found(k, m) == [rc |-> "ok", n |-> m, taken |-> k]
<1>1. L \in Nat /\ o \in Seq(Nat) /\ Len(o) = L
  BY OctetsType
<1>2. BeginsWithOctets(o, o, L)
  BY Zenon DEF BeginsWithOctets
<1>3. V!Ends(o, max) # {} /\ V!EndOf(o, max) = L /\ V!NumberIn(o, L, bits) = u
  <2>1. L <= Len(o)
    BY <1>1
  <2>. QED BY <1>1, <1>2, <2>1, NumberIsFound, Zenon
<1>4. V!FromSource(o, bits, "EIO")
        = IF V!Ends(o, max) # {} THEN found(V!EndOf(o, max), V!NumberIn(o, V!EndOf(o, max), bits))
          ELSE IF Len(o) >= max THEN [rc |-> "EILSEQ", n |-> 0, taken |-> max]
          ELSE [rc |-> "EIO", n |-> 0, taken |-> Len(o)]
  BY Zenon DEF V!FromSource, max
<1>5. V!FromSource(o, bits, "EIO") = found(L, u)
  <2>. HIDE DEF found, o, L, max
  <2>. QED BY <1>3, <1>4, Zenon
<1>. QED BY <1>5, Zenon

\* Two's complement there and back.
LEMMA SignReturns ==
  ASSUME NEW bits \in Bitses, NEW signed \in BOOLEAN,
         NEW n \in IF signed THEN -(V!Modulus(bits) \div 2) .. V!Modulus(bits) \div 2 - 1
                   ELSE 0 .. V!Modulus(bits) - 1
  PROVE  /\ V!Unsigned(n, bits) \in Nat /\ V!Unsigned(n, bits) < V!Modulus(bits)
         /\ Sign(V!Unsigned(n, bits), bits, signed) = n
<1>. DEFINE m == V!Modulus(bits)
            u == V!Unsigned(n, bits)
<1>1. m \in Nat
  BY WidthIs
<1>2. u = n % m
  BY Zenon DEF V!Unsigned
<1>3. Sign(u, bits, signed) = IF signed THEN IF u >= m \div 2 THEN u - m ELSE u ELSE u
  BY Zenon DEF Sign, V!SignedOf
<1>4. signed \in BOOLEAN /\ n \in IF signed THEN -(m \div 2) .. m \div 2 - 1 ELSE 0 .. m - 1
  BY Zenon
<1>. HIDE DEF m, u
<1>5. CASE ~signed
  <2>1. n \in 0 .. m - 1
    BY <1>4, <1>5, Zenon
  <2>2. u = n
    BY <1>1, <1>2, <2>1
  <2>3. u \in Nat /\ u < m
    BY <1>1, <2>1, <2>2
  <2>. QED BY <1>3, <1>5, <2>2, <2>3, Zenon DEF m, u
<1>6. CASE signed
  <2>. DEFINE q == m \div 2
  <2>1. n \in -q .. q - 1
    BY <1>4, <1>6, Zenon
  <2>2. q \in Nat /\ 2 * q <= m
    BY <1>1
  <2>3. Sign(u, bits, signed) = IF u >= q THEN u - m ELSE u
    BY <1>3, <1>6, Zenon
  <2>. HIDE DEF q
  <2>4. CASE n >= 0
    <3>1. n % m = n
      BY <1>1, <2>1, <2>2, <2>4
    <3>2. u \in Nat /\ u < m /\ ~(u >= q)
      BY <1>1, <1>2, <2>1, <2>2, <2>4, <3>1
    <3>. QED BY <1>2, <2>3, <3>1, <3>2, Zenon DEF m, u
  <2>5. CASE n < 0
    <3>1. n % m = n + m
      BY <1>1, <2>1, <2>2, <2>5
    <3>2. u \in Nat /\ u < m /\ u >= q /\ u - m = n
      BY <1>1, <1>2, <2>1, <2>2, <2>5, <3>1
    <3>. QED BY <2>3, <3>2, Zenon DEF m, u
  <2>6. n >= 0 \/ n < 0
    BY <2>1, <2>2
  <2>. QED BY <2>4, <2>5, <2>6
<1>. QED BY <1>5, <1>6

LEMMA LengthFits ==
  ASSUME NEW bits \in Bitses, NEW u \in Nat, u < V!Modulus(bits)
  PROVE  V!Length(u) <= V!MaxOctets(bits)
<1>1. CASE bits = 32
  <2>1. V!MaxOctets(bits) = NarrowOctets /\ V!Modulus(bits) = Narrow
    BY <1>1 DEF V!MaxOctets, V!Modulus
  <2>2. u \in 0 .. Narrow - 1
    BY <2>1, VarintAssumption
  <2>. QED BY <2>1, <2>2, VarintAssumption, Zenon
<1>2. CASE bits = 64
  <2>1. V!MaxOctets(bits) = WideOctets /\ V!Modulus(bits) = Wide
    BY <1>2 DEF V!MaxOctets, V!Modulus
  <2>2. u \in 0 .. Wide - 1
    BY <2>1, VarintAssumption
  <2>. QED BY <2>1, <2>2, VarintAssumption, Zenon
<1>. QED BY <1>1, <1>2 DEF Bitses

(***************************************************************************)
(* What is stored and how it lies in memory.                               *)
(***************************************************************************)

IsWord(r) ==
  /\ r.kind \in {"u", "s", "f"} /\ r.w \in F!Widths /\ (r.kind = "f" => r.w \in Floats)
  /\ r.order \in Orders /\ r.host \in Hosts /\ r.x \in IntegerFor(r.w)

IsVarint(r) ==
  /\ r.bits \in Bitses /\ r.signed \in BOOLEAN /\ r.at \in -1 .. 2
  /\ r.n \in IF r.signed THEN -(V!Modulus(r.bits) \div 2) .. V!Modulus(r.bits) \div 2 - 1
             ELSE 0 .. V!Modulus(r.bits) - 1

WordInv ==
  /\ IsWord(stored)
  /\ mem = Laid(stored.w, InMemory(stored.order, stored.host), stored.x)
  /\ fetched # Nothing => fetched = Extended(stored.kind, stored.w, Low(stored.w, stored.x))

\* The octets of the number, and the marks around them.
VarintLies(p, r) ==
  LET u == V!Unsigned(r.n, r.bits)
  IN  IF r.at = -1 THEN p = [data |-> V!OctetsOf(u), used |-> V!Length(u), offset |-> 0]
      ELSE p = [data |-> V!BB!Patch(StaleBuffer(r.at).data, r.at, V!OctetsOf(u)),
                used |-> r.at + V!Length(u), offset |-> r.at]

VarintRead ==
  /\ fetched = <<stored.n>>
  /\ place.offset = place.used
  /\ place.used = (IF stored.at = -1 THEN 0 ELSE stored.at)
                  + V!Length(V!Unsigned(stored.n, stored.bits))

VarintInv ==
  /\ IsVarint(stored)
  /\ fetched = Nothing => VarintLies(place, stored)
  /\ fetched # Nothing => VarintRead

NumbersInv ==
  /\ stored.kind \in {"none", "u", "s", "f", "varint"}
  /\ stored.kind = "none" => mem = Blank /\ fetched = Nothing
  /\ stored.kind \in {"u", "s", "f"} => WordInv
  /\ stored.kind = "varint" => VarintInv

LEMMA NumbersInitially == NumberInit => NumbersInv
<1>. SUFFICES ASSUME NumberInit PROVE NumbersInv
  OBVIOUS
<1>1. stored.kind = "none" /\ mem = Blank /\ fetched = Nothing
  BY DEF NumberInit
<1>2. "none" \notin {"u", "s", "f"} /\ "none" # "varint"
  OBVIOUS
<1>. QED BY <1>1, <1>2 DEF NumbersInv

LEMMA StoreWordStep ==
  ASSUME NumbersInv, NEW kind \in {"u", "s", "f"}, NEW w \in F!Widths, NEW order \in Orders,
         NEW host \in Hosts, kind = "f" => w \in Floats,
         NEW x \in [1 .. F!Container(w) -> Digit], StoreWord(kind, w, order, host, x)
  PROVE  NumbersInv'
<1>. DEFINE r == [kind |-> kind, w |-> w, order |-> order, host |-> host, x |-> x]
<1>1. mem = Blank /\ fetched = Nothing
  BY DEF StoreWord, NumbersInv
<1>2. x \in IntegerFor(w)
  BY Zenon DEF IntegerFor
<1>3. mem' = Laid(w, InMemory(order, host), x) /\ stored' = r /\ fetched' = fetched
  <2>1. Set(kind, w, order, host, x) = Laid(w, InMemory(order, host), x)
    <3>1. kind \in {"u", "s", "f"} /\ w \in F!Widths /\ order \in Orders /\ host \in Hosts
      OBVIOUS
    <3>. QED BY <1>1, <1>2, <3>1, SetIs
  <2>. QED BY <2>1, Zenon DEF StoreWord
<1>4. r.kind = kind /\ r.w = w /\ r.order = order /\ r.host = host /\ r.x = x
  OBVIOUS
<1>. HIDE DEF r
<1>5. IsWord(r)
  <2>1. kind = "f" => w \in Floats
    OBVIOUS
  <2>. QED BY <1>2, <1>4, <2>1, Zenon DEF IsWord
<1>6. stored'.kind \in {"u", "s", "f"} /\ stored'.kind # "none" /\ stored'.kind # "varint"
      /\ stored'.kind \in {"none", "u", "s", "f", "varint"}
  <2>1. kind # "none" /\ kind # "varint" /\ kind \in {"none", "u", "s", "f", "varint"}
    OBVIOUS
  <2>. QED BY <1>3, <1>4, <2>1, Zenon
<1>7. WordInv'
  BY <1>1, <1>3, <1>4, <1>5, Zenon DEF WordInv
<1>. QED BY <1>6, <1>7, Zenon DEF NumbersInv

\* What another machine, or this one, reads.
LEMMA FetchWordStep ==
  ASSUME NumbersInv, NEW host \in Hosts, FetchWord(host)
  PROVE  NumbersInv'
<1>. DEFINE kind == stored.kind
            w == stored.w
            x == stored.x
            o == InMemory(stored.order, stored.host)
<1>1. WordInv /\ kind \in {"u", "s", "f"}
  BY DEF FetchWord, NumbersInv
<1>2. IsWord(stored) /\ mem = Laid(w, o, x)
  BY <1>1, Zenon DEF WordInv
<1>3. w \in F!Widths /\ stored.order \in Orders /\ stored.host \in Hosts /\ x \in IntegerFor(w)
  BY <1>2, Zenon DEF IsWord
<1>4. InMemory(stored.order, host) = o /\ o \in Hosts
  <2>1. stored.order = "native" => host = stored.host
    BY DEF FetchWord
  <2>2. stored.order # "native" => stored.order \in Hosts
    BY <1>3 DEF Orders, Hosts
  <2>. QED BY <1>3, <2>1, <2>2, Zenon DEF InMemory
<1>5. fetched' = Ref(kind, w, stored.order, host) /\ mem' = mem /\ stored' = stored
  BY Zenon DEF FetchWord
<1>. HIDE DEF kind, w, x, o
<1>6. mem \in MemoryImage /\ WordIn(mem, w, o) = Low(w, x)
  BY <1>2, <1>3, <1>4, LaidIs, Zenon
<1>7. fetched' = Extended(kind, w, Low(w, x))
  <2>1. Ref(kind, w, stored.order, host) = Extended(kind, w, WordIn(mem, w, InMemory(stored.order, host)))
    BY <1>1, <1>3, <1>6, RefIs, Zenon
  <2>. QED BY <1>4, <1>5, <1>6, <2>1, Zenon
<1>8. WordInv'
  BY <1>2, <1>5, <1>7, Zenon DEF WordInv, kind, w, x, o
<1>9. kind # "none" /\ kind # "varint" /\ kind \in {"none", "u", "s", "f", "varint"}
  BY <1>1
<1>. QED BY <1>1, <1>5, <1>8, <1>9, Zenon DEF NumbersInv, kind

LEMMA StaleIs ==
  ASSUME NEW at \in 0 .. 2, NEW bits \in Bitses
  PROVE  /\ StaleBuffer(at) = [data |-> StaleBuffer(at).data, used |-> at, offset |-> at]
         /\ StaleBuffer(at).data \in Seq(Nat) /\ Len(StaleBuffer(at).data) < SizeMax
         /\ at + V!MaxOctets(bits) <= Len(StaleBuffer(at).data)
<1>. DEFINE d == [i \in 1 .. WideOctets + 3 |-> 2 * DataValues - 1]
<1>1. StaleBuffer(at) = [data |-> d, used |-> at, offset |-> at]
  BY Zenon DEF StaleBuffer
<1>2. 2 * DataValues - 1 \in Nat /\ WideOctets + 3 \in Nat
  BY VarintAssumption
<1>3. d \in Seq(Nat) /\ Len(d) = WideOctets + 3
  <2>. DEFINE k == 2 * DataValues - 1
              n == WideOctets + 3
  <2>1. k \in Nat /\ n \in Nat
    BY <1>2
  <2>. HIDE DEF k, n
  <2>2. [i \in 1 .. n |-> k] \in Seq(Nat) /\ Len([i \in 1 .. n |-> k]) = n
    BY <2>1
  <2>. QED BY <2>2, Zenon DEF k, n
<1>. HIDE DEF d
<1>4. StaleBuffer(at).data = d
  BY <1>1
<1>5. Len(d) < SizeMax
  BY <1>3, VarintAssumption
<1>6. at + V!MaxOctets(bits) <= Len(d)
  BY <1>3, WidthIs, VarintAssumption
<1>. QED BY <1>1, <1>3, <1>4, <1>5, <1>6, Zenon

LEMMA StoreVarintStep ==
  ASSUME NumbersInv, NEW bits \in Bitses, NEW signed \in BOOLEAN, NEW at \in -1 .. 2,
         NEW n \in IF signed THEN -(V!Modulus(bits) \div 2) .. V!Modulus(bits) \div 2 - 1
                   ELSE 0 .. V!Modulus(bits) - 1,
         StoreVarint(bits, signed, n, at)
  PROVE  NumbersInv'
<1>. DEFINE u == V!Unsigned(n, bits)
            r == [kind |-> "varint", bits |-> bits, signed |-> signed, n |-> n, at |-> at]
            L == V!Length(u)
            o == V!OctetsOf(u)
<1>1. u \in Nat /\ u < V!Modulus(bits)
  BY SignReturns, Zenon
<1>2. L <= V!MaxOctets(bits)
  BY <1>1, LengthFits, Zenon
<1>3. stored' = r /\ fetched' = Nothing /\ mem' = mem
  BY DEF StoreVarint, NumbersInv
<1>4. place' = IF at = -1 THEN [data |-> V!ToSink(u, bits), used |-> Len(V!ToSink(u, bits)), offset |-> 0]
               ELSE V!Encode(StaleBuffer(at), u, bits).buf
  BY Zenon DEF StoreVarint
<1>5. r.kind = "varint" /\ r.bits = bits /\ r.signed = signed /\ r.n = n /\ r.at = at
  OBVIOUS
<1>. HIDE DEF r
<1>6. IsVarint(r)
  BY <1>5, Zenon DEF IsVarint
<1>7. VarintLies(place', r)
  <2>1. CASE at = -1
    <3>1. V!ToSink(u, bits) = o /\ Len(o) = L
      BY <1>1, <1>2, SinkGetsOctets, OctetsType, Zenon
    <3>2. place' = [data |-> o, used |-> L, offset |-> 0]
      <4>. HIDE DEF u, o, L
      <4>. QED BY <1>4, <2>1, <3>1, Zenon
    <3>. QED BY <1>5, <2>1, <3>2, Zenon DEF VarintLies, u, o, L
  <2>2. CASE at # -1
    <3>. DEFINE d == StaleBuffer(at).data
    <3>1. at \in 0 .. 2 /\ at \in Nat
      BY <2>2
    <3>2. /\ StaleBuffer(at) = [data |-> d, used |-> at, offset |-> at]
          /\ d \in Seq(Nat) /\ Len(d) < SizeMax /\ at + V!MaxOctets(bits) <= Len(d)
      BY <3>1, StaleIs, Zenon
    <3>. HIDE DEF d, u
    <3>3. V!Encode([data |-> d, used |-> at, offset |-> at], u, bits).buf
            = [data |-> V!BB!Patch(d, at, o), used |-> at + L, offset |-> at]
      <4>1. bits \in Bitses /\ u \in Nat
        BY <1>1, Zenon
      <4>. QED BY <3>1, <3>2, <4>1, EncodePuts
    <3>4. place' = [data |-> V!BB!Patch(d, at, o), used |-> at + L, offset |-> at]
      <4>. HIDE DEF o, L
      <4>. QED BY <1>4, <2>2, <3>2, <3>3, Zenon
    <3>. QED BY <1>5, <2>2, <3>4, Zenon DEF VarintLies, u, d
  <2>. QED BY <2>1, <2>2
<1>8. VarintInv'
  BY <1>3, <1>6, <1>7, Zenon DEF VarintInv
<1>9. stored'.kind = "varint" /\ "varint" \notin {"u", "s", "f"} /\ "varint" # "none"
  BY <1>3, <1>5
<1>. QED BY <1>8, <1>9, Zenon DEF NumbersInv

LEMMA FetchVarintStep ==
  ASSUME NumbersInv, FetchVarint
  PROVE  NumbersInv'
<1>. DEFINE bits == stored.bits
            signed == stored.signed
            n == stored.n
            at == stored.at
            u == V!Unsigned(n, bits)
            L == V!Length(u)
            o == V!OctetsOf(u)
            read == IF at = -1 THEN V!FromSource(place.data, bits, "EIO") ELSE V!Decode(place, bits)
<1>1. stored.kind = "varint" /\ fetched = Nothing /\ stored' = stored /\ mem' = mem
  BY Zenon DEF FetchVarint
<1>2. IsVarint(stored) /\ VarintLies(place, stored)
  BY <1>1, Zenon DEF NumbersInv, VarintInv
<1>3. /\ bits \in Bitses /\ signed \in BOOLEAN /\ at \in -1 .. 2
      /\ n \in IF signed THEN -(V!Modulus(bits) \div 2) .. V!Modulus(bits) \div 2 - 1
               ELSE 0 .. V!Modulus(bits) - 1
  BY <1>2, Zenon DEF IsVarint
<1>4. /\ fetched' = <<Sign(read.n, bits, signed)>>
      /\ place' = IF at = -1 THEN [place EXCEPT !.offset = read.taken] ELSE read.buf
  BY Zenon DEF FetchVarint
<1>5. IF at = -1 THEN place = [data |-> o, used |-> L, offset |-> 0]
      ELSE place = [data |-> V!BB!Patch(StaleBuffer(at).data, at, o), used |-> at + L, offset |-> at]
  BY <1>2, Zenon DEF VarintLies
<1>. HIDE DEF bits, signed, n, at
<1>6. u \in Nat /\ u < V!Modulus(bits) /\ Sign(u, bits, signed) = n
  BY <1>3, SignReturns, Zenon
<1>. HIDE DEF u
<1>7. L <= V!MaxOctets(bits) /\ L \in Nat
  BY <1>3, <1>6, LengthFits, OctetsType, Zenon
<1>8. /\ read.n = u
      /\ place'.offset = place'.used
      /\ place'.used = (IF at = -1 THEN 0 ELSE at) + L
  <2>1. CASE at = -1
    <3>1. place = [data |-> o, used |-> L, offset |-> 0]
      BY <1>5, <2>1, Zenon
    <3>2. read = [rc |-> "ok", n |-> u, taken |-> L]
      <4>1. V!FromSource(o, bits, "EIO") = [rc |-> "ok", n |-> u, taken |-> L]
        BY <1>3, <1>6, <1>7, SourceFinds, Zenon
      <4>2. read = V!FromSource(place.data, bits, "EIO")
        BY <2>1, Zenon
      <4>3. place.data = o
        <5>. HIDE DEF o, L
        <5>. QED BY <3>1
      <4>. HIDE DEF read
      <4>. QED BY <4>1, <4>2, <4>3, Zenon
    <3>. HIDE DEF read, L, o
    <3>3. read.n = u /\ read.taken = L
      BY <3>2
    <3>4. place' = [place EXCEPT !.offset = L]
      BY <1>4, <2>1, <3>3, Zenon
    <3>5. place'.offset = L /\ place'.used = L
      BY <3>1, <3>4
    <3>6. L = 0 + L
      BY <1>7
    <3>. QED BY <2>1, <3>3, <3>5, <3>6, Zenon
  <2>2. CASE at # -1
    <3>. DEFINE d == StaleBuffer(at).data
    <3>1. at \in 0 .. 2 /\ at \in Nat
      BY <1>3, <2>2
    <3>2. d \in Seq(Nat) /\ at + V!MaxOctets(bits) <= Len(d)
      BY <1>3, <3>1, StaleIs, Zenon
    <3>3. at + L <= Len(d)
      BY <1>3, <1>7, <3>1, <3>2, WidthIs
    <3>4. place = [data |-> V!BB!Patch(d, at, o), used |-> at + L, offset |-> at]
      BY <1>5, <2>2, Zenon
    <3>. HIDE DEF d
    <3>5. /\ V!Decode(place, bits).n = u
          /\ V!Decode(place, bits).buf.used = at + L
          /\ V!Decode(place, bits).buf.offset = at + L
      <4>1. bits \in Bitses /\ u \in Nat /\ u < V!Modulus(bits) /\ L <= V!MaxOctets(bits)
        BY <1>3, <1>6, <1>7, Zenon
      <4>2. d \in Seq(Nat) /\ at \in Nat /\ at + L <= Len(d)
        BY <3>1, <3>2, <3>3, Zenon
      <4>. HIDE DEF bits
      <4>. QED BY <4>1, <4>2, <3>4, DecodeFinds
    <3>6. read = V!Decode(place, bits)
      BY <2>2, Zenon
    <3>. HIDE DEF read, L, o
    <3>7. place' = V!Decode(place, bits).buf
      BY <1>4, <2>2, <3>6, Zenon
    <3>. QED BY <2>2, <3>5, <3>6, <3>7, Zenon
  <2>. QED BY <2>1, <2>2
<1>. HIDE DEF read, L, o
<1>9. fetched' = <<n>>
  BY <1>4, <1>6, <1>8, Zenon
<1>10. VarintRead'
  BY <1>1, <1>8, <1>9, Zenon DEF VarintRead, n, at, bits, u, L
<1>11. fetched' # Nothing
  <2>1. Len(<<n>>) = 1 /\ Len(<<>>) = 0
    OBVIOUS
  <2>. QED BY <1>9, <2>1 DEF Nothing
<1>12. VarintInv'
  BY <1>1, <1>2, <1>10, <1>11, Zenon DEF VarintInv
<1>13. stored'.kind = "varint" /\ "varint" \notin {"u", "s", "f"} /\ "varint" # "none"
  BY <1>1
<1>. QED BY <1>12, <1>13, Zenon DEF NumbersInv

LEMMA ReuseStep ==
  ASSUME Reuse
  PROVE  NumbersInv'
<1>1. stored'.kind = "none" /\ mem' = Blank /\ fetched' = Nothing
  BY DEF Reuse
<1>2. "none" \notin {"u", "s", "f"} /\ "none" # "varint"
  OBVIOUS
<1>. QED BY <1>1, <1>2, Zenon DEF NumbersInv

LEMMA NumbersStep == NumbersInv /\ [NumberNext]_numberVars => NumbersInv'
<1>. SUFFICES ASSUME NumbersInv, [NumberNext]_numberVars PROVE NumbersInv'
  OBVIOUS
<1>1. ASSUME NEW kind \in {"u", "s", "f"}, NEW w \in F!Widths, NEW order \in Orders,
             NEW host \in Hosts, kind = "f" => w \in Floats,
             NEW x \in [1 .. F!Container(w) -> Digit], StoreWord(kind, w, order, host, x)
      PROVE  NumbersInv'
  BY <1>1, StoreWordStep, Zenon
<1>2. ASSUME NEW host \in Hosts, FetchWord(host) PROVE NumbersInv'
  BY <1>2, FetchWordStep, Zenon
<1>3. ASSUME NEW bits \in {32, 64}, NEW signed \in BOOLEAN, NEW at \in -1 .. 2,
             NEW n \in IF signed THEN -(V!Modulus(bits) \div 2) .. V!Modulus(bits) \div 2 - 1
                       ELSE 0 .. V!Modulus(bits) - 1,
             StoreVarint(bits, signed, n, at)
      PROVE  NumbersInv'
  <2>1. bits \in Bitses
    BY Zenon DEF Bitses
  <2>. QED BY <1>3, <2>1, StoreVarintStep, Zenon
<1>4. CASE FetchVarint
  BY <1>4, FetchVarintStep, Zenon
<1>5. CASE Reuse
  BY <1>5, ReuseStep, Zenon
<1>6. CASE UNCHANGED numberVars
  BY <1>6, Zenon DEF numberVars, NumbersInv, WordInv, VarintInv, VarintRead
<1>. QED BY <1>1, <1>2, <1>3, <1>4, <1>5, <1>6, Zenon DEF NumberNext

LEMMA NumbersInvSuffices == NumbersInv => NumbersTravel
<1>. SUFFICES ASSUME NumbersInv PROVE NumbersTravel
  OBVIOUS
<1>1. ASSUME stored.kind \in {"u", "s", "f"}
      PROVE  WordLiesInOrder /\ (fetched # Nothing => (fetched = stored.x <=> Fits))
  <2>. DEFINE kind == stored.kind
              w == stored.w
              x == stored.x
              order == stored.order
              o == InMemory(order, stored.host)
  <2>1. IsWord(stored) /\ mem = Laid(w, o, x)
        /\ (fetched # Nothing => fetched = Extended(kind, w, Low(w, x)))
    BY <1>1, Zenon DEF NumbersInv, WordInv
  <2>2. /\ kind \in {"u", "s", "f"} /\ w \in F!Widths /\ (kind = "f" => w \in Floats)
        /\ x \in IntegerFor(w)
    BY <2>1, Zenon DEF IsWord
  <2>3. (order = "little" => o = "little") /\ (order = "big" => o = "big")
    BY DEF InMemory
  <2>4. WordLiesInOrder
    <3>. HIDE DEF w, x, o, order
    <3>1. DOMAIN mem = 1 .. 10
      BY <2>1 DEF Laid
    <3>2. ASSUME NEW i \in 1 .. 10
          PROVE  LET k == i - Pointer
                 IN  IF k \notin 1 .. w THEN mem[i] = Bits - 1
                     ELSE (order = "little" => mem[i] = x[k]) /\ (order = "big" => mem[i] = x[w + 1 - k])
      <4>1. i - Pointer = i - 1 /\ w + 1 - (i - 1) = w + 2 - i
        BY <2>2, ContainerIs DEF Pointer
      <4>2. mem[i] = IF i - 1 \in 1 .. w THEN (IF o = "little" THEN x[i - 1] ELSE x[w + 2 - i])
                     ELSE Bits - 1
        BY <2>1 DEF Laid
      <4>3. "big" # "little"
        OBVIOUS
      <4>. QED BY <2>3, <4>1, <4>2, <4>3, Zenon
    <3>. QED BY <3>1, <3>2, Zenon DEF WordLiesInOrder, w, x, order
  <2>5. ASSUME fetched # Nothing PROVE fetched = x <=> Fits
    <3>1. fetched = Extended(kind, w, Low(w, x))
      BY <2>1, <2>5
    <3>2. CASE kind = "f"
      <4>1. kind # "s" /\ w \in {4, 8}
        BY <2>2, <3>2 DEF Floats
      <4>2. fetched = Low(w, x)
        BY <3>1, <4>1, Zenon DEF Extended
      <4>3. Low(w, x) = x
        <5>1. F!Container(w) = w /\ w \in Nat
          BY <4>1 DEF F!Container
        <5>2. x \in [1 .. w -> Digit]
          BY <2>2, <5>1, Zenon DEF IntegerFor
        <5>3. Low(w, x) = [i \in 1 .. w |-> IF i <= w THEN x[i] ELSE 0]
          BY <5>1, Zenon DEF Low
        <5>. HIDE DEF w, x
        <5>4. x = [i \in 1 .. w |-> x[i]] /\ \A i \in 1 .. w : i <= w
          BY <5>1, <5>2
        <5>. QED BY <5>3, <5>4
      <4>4. Fits
        BY <3>2 DEF Fits
      <4>. QED BY <4>2, <4>3, <4>4, Zenon
    <3>3. CASE kind = "u"
      <4>1. kind # "s" /\ kind # "f"
        BY <3>3
      <4>2. fetched = Low(w, x)
        BY <3>1, <4>1, Zenon DEF Extended
      <4>3. Fits <=> F!InRange(x, w, FALSE)
        <5>1. (kind = "s") = FALSE
          BY <4>1
        <5>2. Fits <=> kind = "f" \/ F!InRange(x, w, kind = "s")
          BY Zenon DEF Fits
        <5>. HIDE DEF kind
        <5>. QED BY <4>1, <5>1, <5>2, Zenon
      <4>4. Low(w, x) = x <=> F!InRange(x, w, FALSE)
        BY <2>2, UnsignedFits, Zenon
      <4>. QED BY <4>2, <4>3, <4>4, Zenon
    <3>4. CASE kind = "s"
      <4>1. kind # "f"
        BY <3>4
      <4>2. fetched = F!SignExtend(Low(w, x), w)
        BY <3>1, <3>4, Zenon DEF Extended
      <4>3. Fits <=> F!InRange(x, w, TRUE)
        <5>1. (kind = "s") = TRUE
          BY <3>4
        <5>2. Fits <=> kind = "f" \/ F!InRange(x, w, kind = "s")
          BY Zenon DEF Fits
        <5>. HIDE DEF kind
        <5>. QED BY <4>1, <5>1, <5>2, Zenon
      <4>4. F!SignExtend(Low(w, x), w) = x <=> F!InRange(x, w, TRUE)
        BY <2>2, SignedFits, Zenon
      <4>. QED BY <4>2, <4>3, <4>4, Zenon
    <3>. QED BY <2>2, <3>2, <3>3, <3>4
  <2>. QED BY <2>4, <2>5
<1>2. stored.kind = "varint" /\ fetched # Nothing => VarintRead
  BY Zenon DEF NumbersInv, VarintInv
<1>. QED BY <1>1, <1>2, Zenon DEF NumbersTravel, VarintRead

\* Numbers in words of two to eight octets and in variable length encodings are read
\* as they were stored, for octets of every even number of values, machines of both
\* octet orders, and integers of every width that the encodings are long enough for.
THEOREM NumbersAlwaysTravel == NumberSpec => []NumbersTravel
<1>1. NumberSpec => []NumbersInv
  BY NumbersInitially, NumbersStep, PTL DEF NumberSpec
<1>. QED BY <1>1, NumbersInvSuffices, PTL
================================================================================
