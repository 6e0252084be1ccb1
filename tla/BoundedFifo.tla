------------------------------ MODULE BoundedFifo ------------------------------
(***************************************************************************)
(* What a ring buffer of include/ufw/ring-buffer.h promises its user: a    *)
(* queue of at most Capacity items, first in first out.  Storing into a    *)
(* full queue either has no effect or drops the oldest item, depending on  *)
(* a switch the user may flip at any time.                                 *)
(***************************************************************************)
EXTENDS Naturals, Sequences

CONSTANTS Capacity,  \* number of items the queue can hold
          Item,      \* the items that can be stored
          Zero       \* what get() returns when there is nothing to return

VARIABLES queue,     \* oldest item first
          override,  \* TRUE: a full queue drops its oldest item on put
          got        \* what the last get() returned

fifoVars == <<queue, override, got>>

FifoInit ==
  /\ queue = <<>>
  /\ override = FALSE
  /\ got = Zero

FifoPut(x) ==
  /\ \/ /\ Len(queue) < Capacity
        /\ queue' = Append(queue, x)
     \/ /\ Len(queue) = Capacity
        /\ override
        /\ queue' = Append(Tail(queue), x)
     \/ /\ Len(queue) = Capacity
        /\ ~override
        /\ queue' = queue
  /\ UNCHANGED <<override, got>>

FifoGet ==
  /\ \/ /\ queue = <<>>
        /\ got' = Zero
        /\ queue' = queue
     \/ /\ queue # <<>>
        /\ got' = Head(queue)
        /\ queue' = Tail(queue)
  /\ UNCHANGED override

FifoClear ==
  /\ queue' = <<>>
  /\ UNCHANGED <<override, got>>

FifoSetOverride(state) ==
  /\ override' = state
  /\ UNCHANGED <<queue, got>>

FifoNext ==
  \/ \E x \in Item : FifoPut(x)
  \/ FifoGet
  \/ FifoClear
  \/ \E state \in BOOLEAN : FifoSetOverride(state)

FifoSpec == FifoInit /\ [][FifoNext]_fifoVars
================================================================================
