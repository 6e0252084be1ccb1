------------------------------- MODULE OctetRing -------------------------------
(***************************************************************************)
(* The macro-generated ring buffer of include/ufw/ring-buffer.h, as it is  *)
(* instantiated for octets by src/octet-ring.c.                            *)
(*                                                                         *)
(* The buffer keeps two indices into its memory.  The interesting part is  *)
(* that three situations share them: head = tail means "full", and "empty" *)
(* is encoded by moving tail outside of the memory, tail = DataSize.       *)
(***************************************************************************)
EXTENDS Integers, Sequences

CONSTANTS DataSize,   \* c->datasize, fixed by octet_ring_init()
          Item,       \* the octets the user stores
          Zero        \* 0u: initial memory contents, and get() of an empty ring

ASSUME DataSizeAssumption == DataSize \in Nat \ {0}
ASSUME ZeroAssumption     == Zero \in Item

VARIABLES data,       \* c->data
          head,       \* c->head: the next slot to write
          tail,       \* c->tail: the oldest item, or DataSize when empty
          override,   \* c->override_if_full
          got         \* what the last octet_ring_get() returned

vars == <<data, head, tail, override, got>>

Slot == 0 .. DataSize - 1

\* A defect the checks must notice: an index that runs off the end.
SuccNoWrap(i) == i + 1

Succ(i) == (i + 1) % DataSize

Empty(t)   == t = DataSize
Full(h, t) == h = t

Size(h, t) == IF Empty(t) THEN 0
              ELSE IF t < h THEN h - t
              ELSE (DataSize - t) + h

\* A defect the checks must notice: the tail forgets to mark the empty ring.
AdvanceTailUnmarked(h, t) == Succ(t)

\* octet_ring_advance_tail(): catching up with head means nothing is left.
AdvanceTail(h, t) == LET n == Succ(t) IN IF n = h THEN DataSize ELSE n

Init ==
  /\ data = [i \in Slot |-> Zero]
  /\ head = 0
  /\ tail = DataSize
  /\ override = FALSE
  /\ got = Zero

\* The part of octet_ring_put() behind its early return; t is the tail after
\* a full ring has given up its oldest item.
Store(x, t) ==
  /\ data' = [data EXCEPT ![head] = x]
  /\ head' = Succ(head)
  /\ tail' = IF Empty(t) THEN head ELSE t
  /\ UNCHANGED <<override, got>>

Rejects == Full(head, tail) /\ ~override

Put(x) ==
  \/ /\ Rejects
     /\ UNCHANGED vars
  \/ /\ ~Rejects
     /\ Store(x, IF Full(head, tail) THEN AdvanceTail(head, tail) ELSE tail)

Get ==
  /\ \/ /\ Empty(tail)
        /\ got' = Zero
        /\ UNCHANGED tail
     \/ /\ ~Empty(tail)
        /\ got' = data[tail]
        /\ tail' = AdvanceTail(head, tail)
  /\ UNCHANGED <<data, head, override>>

\* octet_ring_clear() leaves head where it is: the next item goes there.
Clear ==
  /\ tail' = DataSize
  /\ UNCHANGED <<data, head, override, got>>

OverrideIfFull(state) ==
  /\ override' = state
  /\ UNCHANGED <<data, head, tail, got>>

Next ==
  \/ \E x \in Item : Put(x)
  \/ Get
  \/ Clear
  \/ \E state \in BOOLEAN : OverrideIfFull(state)

Spec == Init /\ [][Next]_vars

(***************************************************************************)
(* Properties                                                              *)
(***************************************************************************)

\* The slot that holds the i-th oldest item of a ring whose oldest is at t.
SlotOf(t, i) == IF t + i - 1 < DataSize THEN t + i - 1 ELSE t + i - 1 - DataSize

\* The items in the ring, oldest first.
Content == [i \in 1 .. Size(head, tail) |-> data[SlotOf(tail, i)]]

\* Both indices stay inside of the memory, except for the value that encodes
\* the empty ring; everything else is of the type ring-buffer.h gives it.
TypeOK ==
  /\ data \in [Slot -> Item]
  /\ head \in Slot
  /\ tail \in Slot \cup {DataSize}
  /\ override \in BOOLEAN
  /\ got \in Item

Fifo == INSTANCE BoundedFifo WITH Capacity <- DataSize, queue <- Content

\* octet_ring_put(), _get(), _clear() and _override_if_full() implement a
\* bounded first-in-first-out queue: no item is lost, duplicated or reordered
\* by the index arithmetic, at any position of the wrap-around, whatever the
\* order of calls, and whether or not the ring overwrites when it is full.
ImplementsFifo == Fifo!FifoSpec
================================================================================
