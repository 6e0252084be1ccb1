------------------------------- MODULE OctetTape -------------------------------
(***************************************************************************)
(* What a byte buffer promises, without memory: a log of octets that grows *)
(* at its end up to a capacity, and a mark in it up to which the octets    *)
(* have been processed.  A call succeeds with exactly what it promises, or *)
(* fails and changes nothing.                                              *)
(***************************************************************************)
EXTENDS Naturals, Sequences

CONSTANTS Capacity, Octet

VARIABLES log,   \* the octets, oldest first
          mark,  \* how many of them have been processed
          call   \* the last call: its name, its return code, its octets in or out

tapeVars == <<log, mark, call>>

Chunks == UNION {[1 .. n -> Octet] : n \in 0 .. Capacity + 1}
Counts == 0 .. Capacity + 1

Returns(op, rc, octets) == call' = [op |-> op, rc |-> rc, octets |-> octets]
Fails(op, rc) == Returns(op, rc, <<>>) /\ UNCHANGED <<log, mark>>

Unread(n) == SubSeq(log, mark + 1, mark + n)
Left      == Len(log) - mark

Append_(chunk) ==
  IF Len(log) + Len(chunk) > Capacity THEN Fails("add", "ENOMEM")
  ELSE log' = log \o chunk /\ UNCHANGED mark /\ Returns("add", "ok", chunk)

Take(n) ==
  IF n > Left THEN Fails("consume", "ENODATA")
  ELSE mark' = mark + n /\ UNCHANGED log /\ Returns("consume", "ok", Unread(n))

TakeSome(n) ==
  LET m == IF n > Left THEN Left ELSE n
  IN  IF Left = 0 THEN Fails("consume_at_most", "ENODATA")
      ELSE mark' = mark + m /\ UNCHANGED log /\ Returns("consume_at_most", "ok", Unread(m))

Skip(n) ==
  IF n > Left THEN Fails("markread", "ENOMEM")
  ELSE mark' = mark + n /\ UNCHANGED log /\ Returns("markread", "ok", <<>>)

\* What was processed is given up, and nothing else.
Drop   == log' = Unread(Left) /\ mark' = 0 /\ Returns("rewind", "ok", <<>>)
Empty  == log' = <<>> /\ mark' = 0 /\ Returns("reset", "ok", <<>>)
Again  == mark' = 0 /\ UNCHANGED log /\ Returns("repeat", "ok", <<>>)

\* All of the capacity is filled anew; the mark stays.
Refill == /\ log' \in [1 .. Capacity -> Octet]
          /\ UNCHANGED mark
          /\ Returns("fill", "ok", <<>>)

SameStart(n) == \A i \in 1 .. n : i <= Len(log) => log'[i] = log[i]

\* From position at on, the octets are these, and the ones in front are kept.
Overwrite(at, chunk) ==
  /\ at + Len(chunk) <= Capacity
  /\ Len(log') = at + Len(chunk) /\ SubSeq(log', at + 1, Len(log')) = chunk
  /\ SameStart(at)
  /\ mark' = at
  /\ Returns("fill_cb", "ok", chunk)

\* Back to a position: the octets both positions have in common stay, and the
\* mark is among those of the position.
GoTo ==
  \/ /\ SameStart(Len(log'))
     /\ mark' <= Len(log')
     /\ Returns("setpos", "ok", <<>>)
  \/ Fails("setpos", "EINVAL")

TapeInit == log = <<>> /\ mark = 0 /\ call = [op |-> "none", rc |-> "ok", octets |-> <<>>]

TapeNext ==
  \/ \E chunk \in Chunks : Append_(chunk)
  \/ \E n \in Counts : Take(n) \/ TakeSome(n) \/ Skip(n)
  \/ Drop \/ Empty \/ Again \/ Refill
  \/ \E at \in 0 .. Capacity, chunk \in Chunks : Overwrite(at, chunk)
  \/ GoTo

TapeSpec == TapeInit /\ [][TapeNext]_tapeVars
================================================================================
