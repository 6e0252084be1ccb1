------------------------- MODULE MCVersionedPersistence -------------------------
(***************************************************************************)
(* VersionedPersistence for TLC: two versions of a program, the second of  *)
(* which has a longer payload.  A medium of zeroes agrees with the first   *)
(* in the version, but not in the length.                                  *)
(***************************************************************************)
EXTENDS VersionedPersistence

MCSpecs == {[version |-> 0, length |-> 1], [version |-> 1, length |-> 2]}
================================================================================
