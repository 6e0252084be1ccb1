------------------------------ MODULE MCEndpoints ------------------------------
(***************************************************************************)
(* Endpoints for TLC: a run of this module is one of transfers between     *)
(* drivers of any kind, or of calls of the library's own drivers.          *)
(***************************************************************************)
EXTENDS Endpoints, EndpointDrivers

VARIABLE level  \* which of the two

levelVars == <<level, vars, driverVars>>

\* Buffers without octets are in front, in the middle and at the end, and one is used up
\* to its middle.
MCLists ==
  LET full  == [data |-> <<0, 1, 1>>, used |-> 3, offset |-> 0]
      half  == [data |-> <<1, 0, 1>>, used |-> 2, offset |-> 1]
      empty == [data |-> <<1, 1>>, used |-> 0, offset |-> 0]
  IN  UNION {[1 .. n -> {full, half, empty}] : n \in 0 .. 3}

\* Whichever of the two is not in use begins in one state only.
MCInit ==
  /\ Init
  /\ DriverInit
  /\ \/ level = "transfers" /\ chunks.chunk = <<>> /\ source = "chunks"
     \/ level = "drivers" /\ policy = [source |-> {}, sink |-> {}]

MCNext ==
  /\ UNCHANGED level
  /\ \/ level = "transfers" /\ Next /\ UNCHANGED driverVars
     \/ level = "drivers" /\ DriverNext /\ UNCHANGED vars

MCSpec == MCInit /\ [][MCNext]_levelVars
================================================================================
