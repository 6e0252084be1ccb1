----------------------------- MODULE RingIterator -----------------------------
(***************************************************************************)
(* Iterators over the ring of OctetRing (include/ufw/ring-buffer-iter.h    *)
(* and src/ring-buffer-iter.c), used while the ring keeps changing.        *)
(*                                                                         *)
(* An iterator copies positions out of the ring when it is made and never  *)
(* looks at the ring's indices again.  octet_ring_inspect() then reads the *)
(* memory of the ring as it is by that time.                               *)
(***************************************************************************)
EXTENDS OctetRing

VARIABLES iter,   \* the rb_iter of the user
          snap,   \* history: the items at construction, in iteration order
          spare   \* history: stores until a slot of the snapshot is rewritten;
                  \* -1 when that has happened

iterVars == <<iter, snap, spare>>

Modes == {"old_to_new", "new_to_old"}

Reversed(s) == [i \in 1 .. Len(s) |-> s[Len(s) + 1 - i]]

\* A defect the checks must notice: the newest item taken to be at head.
StartAtHead(mode) == IF mode = "old_to_new" THEN tail ELSE head

IterStart(mode) ==
  IF mode = "old_to_new" THEN tail
  ELSE IF head = 0 THEN DataSize - 1 ELSE head - 1

IterDone == iter.steps = 0

IterInit ==
  /\ Init
  /\ iter = [steps |-> 0, index |-> 0, mode |-> "old_to_new"]
  /\ snap = <<>>
  /\ spare = DataSize

Construct(mode) ==
  /\ iter' = [steps |-> Size(head, tail), index |-> IterStart(mode), mode |-> mode]
  /\ snap' = IF mode = "old_to_new" THEN Content ELSE Reversed(Content)
  /\ spare' = DataSize - Size(head, tail)
  /\ UNCHANGED vars

\* A defect the checks must notice: the step backwards wraps around one slot too far.
StepIndexTooFar(i, mode) ==
  IF mode = "old_to_new" THEN Succ(i)
  ELSE IF i = 0 THEN DataSize ELSE i - 1

StepIndex(i, mode) ==
  IF mode = "old_to_new" THEN Succ(i)
  ELSE IF i = 0 THEN DataSize - 1 ELSE i - 1

\* The user's loop calls rb_iter_advance() only while rb_iter_done() is false.
Advance ==
  /\ ~IterDone
  /\ iter' = [iter EXCEPT !.index = StepIndex(@, iter.mode), !.steps = @ - 1]
  /\ UNCHANGED <<vars, snap, spare>>

\* The ring is used while an iterator exists.
UseRing ==
  \/ \E x \in Item : /\ Put(x)
                     /\ spare' = IF Rejects \/ spare = -1 THEN spare ELSE spare - 1
                     /\ UNCHANGED <<iter, snap>>
  \/ (Get \/ Clear) /\ UNCHANGED iterVars
  \/ \E state \in BOOLEAN : OverrideIfFull(state) /\ UNCHANGED iterVars

IterNext ==
  \/ \E mode \in Modes : Construct(mode)
  \/ Advance
  \/ UseRing

IterSpec == IterInit /\ [][IterNext]_<<vars, iterVars>>

\* octet_ring_inspect() indexes the memory with what the iterator holds: as
\* long as the iterator is not done this is a slot of the ring, however the
\* ring was changed since the iterator was made.
InspectInBounds == ~IterDone => iter.index \in Slot

\* Until a store reuses one of their slots, an iterator yields exactly the
\* items that were in the ring when it was made, in its direction, even when
\* they have been fetched or cleared from the ring in the meantime.
IterYieldsSnapshot ==
  (~IterDone /\ spare >= 0) => data[iter.index] = snap[Len(snap) - iter.steps + 1]
================================================================================
