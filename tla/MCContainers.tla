----------------------------- MODULE MCContainers -----------------------------
(***************************************************************************)
(* The containers of octets for TLC: a run of this module takes a ring     *)
(* with an iterator, a byte buffer, or memory with numbers in it, and      *)
(* leaves the others alone.                                                *)
(***************************************************************************)
EXTENDS RingIterator, ByteBufferUser, Numbers

VARIABLE unit  \* the container in use

allVars == <<unit, vars, iterVars, bufferVars, numberVars>>

MCInit ==
  /\ unit \in {"ring", "buffer", "memory"}
  /\ IterInit
  /\ BufferInit
  /\ NumberInit

MCNext ==
  /\ UNCHANGED unit
  /\ \/ unit = "ring" /\ IterNext /\ UNCHANGED <<bufferVars, numberVars>>
     \/ unit = "buffer" /\ BufferNext /\ UNCHANGED <<vars, iterVars, numberVars>>
     \/ unit = "memory" /\ NumberNext /\ UNCHANGED <<vars, iterVars, bufferVars>>

MCSpec == MCInit /\ [][MCNext]_allVars
================================================================================
