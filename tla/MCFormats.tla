------------------------------- MODULE MCFormats -------------------------------
(***************************************************************************)
(* The formats for TLC, one per run: frames of rfc1055.c, frames with a    *)
(* length in front, and s-expressions.                                     *)
(***************************************************************************)
EXTENDS Slip, LengthPrefix, SExpression

VARIABLE format  \* the one in use

formatVars == <<format, vars, lenpVars, sxVars>>

\* Nothing, a frame of a few octets, one of the most that a prefix of one octet can
\* announce, and one that is one octet too long for it.
MCPayloads == {<<>>, <<2, 1>>, <<1, 2, 3>>, <<1, 1, 1, 1>>}

\* Chunks without octets are in front, in the middle and at the end.
MCChunkings == {<<<<1>>, <<2>>>>, <<<<>>, <<1>>>>, <<<<1>>, <<>>, <<1>>>>, <<<<2>>, <<>>>>}

\* One that is used up to its middle, and one with unread octets and no room.
MCBuffers ==
  {[data |-> <<1, 2, 3>>, used |-> 2, offset |-> 1],
   [data |-> <<1, 2, 3>>, used |-> 3, offset |-> 0]}

\* Every text of up to five of these characters.
MCTexts == UNION {[1 .. n -> {"(", ")", " ", "1", "a", "#", "x"}] : n \in 0 .. 5}

MCNames == {<<"a">>}

\* Integers of one and of two digits in both notations, symbols, and lists of them
\* in one another up to three deep; no list holds an empty one.
MCTrees ==
  LET Leaves  == {Integer(2), Integer(12), Integer(10), Symbol(<<"a">>), Symbol(<<"x", "-", "2">>)}
      Lists   == {EmptyList} \cup {Cons(a, EmptyList) : a \in Leaves}
                 \cup {Cons(a, Cons(b, EmptyList)) : a, b \in Leaves}
      Nested  == {Cons(l, Cons(a, EmptyList)) : l \in Lists \ {EmptyList}, a \in Leaves}
  IN  Leaves \cup Lists \cup Nested \cup {Cons(a, Cons(n, EmptyList)) : a \in Leaves, n \in Nested}

\* How an expression is written, with a gap between any two and after the first and
\* before the last parenthesis.
RECURSIVE WriteTail(_, _)

WriteExp(node, gap) ==
  CASE node.type = "INTEGER" -> IF node.u64 = 10 THEN <<"#", "x", "a">>
                                ELSE IF node.u64 = 12 THEN <<"1", "2">> ELSE <<"2">>
    [] node.type = "SYMBOL" -> node.symbol
    [] OTHER -> <<"(">> \o WriteTail(node, gap)

WriteTail(node, gap) ==
  IF IsNull(node) THEN gap \o <<")">>
  ELSE gap \o WriteExp(node.car, gap) \o (IF IsNull(node.cdr) THEN <<>> ELSE <<" ">>)
       \o WriteTail(node.cdr, gap)

MCWritten ==
  {[node |-> tree, text |-> gap \o WriteExp(tree, gap) \o gap] :
     tree \in MCTrees, gap \in {<<>>, <<" ">>, <<" ", " ">>}}

MCInit ==
  /\ format \in {"slip", "length prefix", "s-expression"}
  /\ Init
  /\ LenpInit
  /\ SxInit

MCNext ==
  /\ UNCHANGED format
  /\ \/ format = "slip" /\ Next /\ UNCHANGED <<lenpVars, sxVars>>
     \/ format = "length prefix" /\ LenpNext /\ UNCHANGED <<vars, sxVars>>
     \/ format = "s-expression" /\ SxNext /\ UNCHANGED <<vars, lenpVars>>

MCSpec == MCInit /\ [][MCNext]_formatVars
================================================================================
