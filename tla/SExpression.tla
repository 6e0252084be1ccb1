------------------------------ MODULE SExpression ------------------------------
(***************************************************************************)
(* The parser for s-expressions and the operations on lists of src/sx.c,   *)
(* with what they do to the heap.  A text is a sequence of characters that *)
(* ends like a C string; positions in it count from 0.  A node is a tree;  *)
(* the heap is the number of blocks that were allocated and not freed.     *)
(***************************************************************************)
EXTENDS Integers, Sequences

CONSTANTS
  Texts,     \* what is parsed
  Numerals,  \* the integers a user makes nodes of
  Names,     \* the symbols a user makes nodes of
  Written,   \* expressions that were written down: the node it was, and the text
  MaxBlocks  \* bound of the blocks in the heap when something is added

ASSUME TextsAssumption ==
  Texts \subseteq Seq(STRING) /\ \A w \in Written : w.text \in Seq(STRING)

VARIABLES
  held,     \* the nodes the user owns
  heap,     \* how many blocks are allocated
  written,  \* history: the expression that the text which was parsed stands for
  parsed    \* what the last call of the parser returned

sxVars == <<held, heap, written, parsed>>

(***************************************************************************)
(* Nodes.  A node says how many blocks sx_destroy() frees: those that      *)
(* make_node() and its callers allocate for it, which are the node and the *)
(* string or the pair it points to, and all that are behind car and cdr.   *)
(***************************************************************************)

PairBlocks == 2

NoNode         == [type |-> "NULL", blocks |-> 0]
EmptyList      == [type |-> "EMPTY_LIST", blocks |-> 1]
Integer(n)     == [type |-> "INTEGER", u64 |-> n, blocks |-> 1]
Symbol(name)   == [type |-> "SYMBOL", symbol |-> name, blocks |-> 2]
Cons(car, cdr) == [type |-> "PAIR", car |-> car, cdr |-> cdr,
                   blocks |-> PairBlocks + car.blocks + cdr.blocks]

IsPair(node) == node.type = "PAIR"
IsNull(node) == node.type = "EMPTY_LIST"

Atoms == {Integer(n) : n \in Numerals} \cup {Symbol(name) : name \in Names} \cup {EmptyList}

(***************************************************************************)
(* Characters.                                                             *)
(***************************************************************************)

DigitValue == [c \in {"0", "1", "2", "9", "a", "f"} |->
                 CASE c = "0" -> 0 [] c = "1" -> 1 [] c = "2" -> 2
                   [] c = "9" -> 9 [] c = "a" -> 10 [] c = "f" -> 15]

Space     == {" "}
Delimiter == {"(", ")"} \cup Space              \* nextisdelimiter()
DecDigits == {"0", "1", "2", "9"}               \* isdigit()
HexDigits == DOMAIN DigitValue \cup {"A"}       \* isxdigit()
SymInit   == {"a", "f", "x", "A", "+"}          \* issyminitch()
Sym       == SymInit \cup DecDigits \cup {"-"}  \* issymch()

At(text, i) == IF i < Len(text) THEN text[i + 1] ELSE "NUL"

\* The first position from i on whose character is not in the class; or the end.
Skip(text, i, class) ==
  CHOOSE j \in i .. Len(text) :
    /\ j = Len(text) \/ At(text, j) \notin class
    /\ \A k \in i .. j - 1 : At(text, k) \in class

\* The number parse_integer_() makes of the characters from i to j - 1; all that
\* digit2int() does not know, the capital letters among them, are 0.
Number(text, i, j, base) ==
  LET Digit(c) == IF c \in DOMAIN DigitValue THEN DigitValue[c] ELSE 0
      value[k \in i .. j] == IF k = i THEN 0 ELSE value[k - 1] * base + Digit(At(text, k - 1))
  IN  value[j]

(***************************************************************************)
(* The parser.  A result is the status, the position, the node, and how    *)
(* many blocks were allocated on the way.                                  *)
(***************************************************************************)

Result(status, position, node) ==
  [status |-> status, position |-> position, node |-> node, blocks |-> node.blocks]

\* A defect the checks must notice: the end of the text delimits nothing.
AtomNeverLast(text, j, node, broken) ==
  IF At(text, j) \notin Delimiter THEN Result(broken, j, NoNode) ELSE Result("SUCCESS", j, node)

\* A symbol or an integer that ends before position j.
Atom(text, j, node, broken) ==
  IF j < Len(text) /\ At(text, j) \notin Delimiter THEN Result(broken, j, NoNode)
  ELSE Result("SUCCESS", j, node)

LookingAt(text, i) ==
  CASE At(text, i) = "#" /\ Len(text) > i + 1 /\ At(text, i + 1) = "x"
         /\ At(text, i + 2) \in HexDigits -> "INT_HEX"
    [] At(text, i) = "(" -> "PAREN_OPEN"
    [] At(text, i) = ")" -> "PAREN_CLOSE"
    [] At(text, i) \in DecDigits -> "INT_DEC"
    [] At(text, i) \in SymInit -> "SYMBOL"
    [] OTHER -> "UNKNOWN"

Integral(text, i, j, base) ==
  Atom(text, j, Integer(Number(text, i, j, base)), "BROKEN_INTEGER")

Symbolic(text, i, j) == Atom(text, j, Symbol(SubSeq(text, i + 1, j)), "BROKEN_SYMBOL")

\* The token at i, where there is no white space.
TokenAt(text, i, what) ==
  CASE what = "END"         -> Result("SUCCESS", i, NoNode)
    [] what = "INT_DEC"     -> Integral(text, i, Skip(text, i, DecDigits), 10)
    [] what = "INT_HEX"     -> Integral(text, i, Skip(text, i + 2, HexDigits), 16)
    [] what = "SYMBOL"      -> Symbolic(text, i, Skip(text, i, Sym))
    [] what = "PAREN_OPEN"  -> Result("FOUND_LIST", i + 1, NoNode)
    [] what = "PAREN_CLOSE" -> Result("SUCCESS", i + 1, EmptyList)
    [] what = "UNKNOWN"     -> Result("UNKNOWN_INPUT", i, NoNode)

TokenBehindSpace(text, i) ==
  TokenAt(text, i, IF i >= Len(text) THEN "END" ELSE LookingAt(text, i))

\* sx_parse_token()
ParseToken(text, i) == TokenBehindSpace(text, Skip(text, i, Space))

IsEmptyListp(r) == r.status = "SUCCESS" /\ IsNull(r.node)
IsError(r)      == r.status \notin {"SUCCESS", "FOUND_LIST"}

\* sx_parse_() of what does not begin a list.
Ended(text, i, r) ==
  IF i >= Len(text) /\ r.node = NoNode THEN [r EXCEPT !.status = "UNEXPECTED_END"] ELSE r

Paired(car, cdr) ==
  [status |-> cdr.status, position |-> cdr.position, node |-> Cons(car.node, cdr.node),
   blocks |-> car.blocks + cdr.blocks + PairBlocks]

\* sx_parse_list().  A closing parenthesis is an empty list, and every empty list
\* closes the list it is in.
ParseList(text) ==
  LET list[i \in 0 .. Len(text)] ==
        IF i >= Len(text) THEN Result("UNEXPECTED_END", 0, NoNode)
        ELSE LET r   == ParseToken(text, i)
                 car == IF r.status = "FOUND_LIST" THEN list[r.position] ELSE Ended(text, i, r)
             IN  IF IsEmptyListp(car) \/ IsError(car) THEN car
                 ELSE Paired(car, list[car.position])
  IN  list

\* sx_parse_()
ParseExp(text, i) ==
  LET r == ParseToken(text, i)
  IN  IF r.status = "FOUND_LIST" THEN ParseList(text)[r.position] ELSE Ended(text, i, r)

\* sx_parse(): what the parser has of a broken expression is destroyed.  The result,
\* with the blocks that remain.
Cleaned(r) ==
  IF IsError(r) THEN [r EXCEPT !.node = NoNode, !.blocks = @ - r.node.blocks] ELSE r

Parse(text, i) == Cleaned(ParseExp(text, i))

(***************************************************************************)
(* The machine.                                                            *)
(***************************************************************************)

NotParsed == [status |-> "NONE", position |-> 0]

SxInit == held = <<>> /\ heap = 0 /\ written = NoNode /\ parsed = NotParsed

Without(nodes, i) == SubSeq(nodes, 1, i - 1) \o SubSeq(nodes, i + 1, Len(nodes))
Keep(node) == IF node = NoNode THEN <<>> ELSE <<node>>

\* One node is what became of two.
Merged(i, j, node) == Without([held EXCEPT ![i] = node], j)

Returned(text, r) ==
  /\ held' = Keep(r.node)
  /\ heap' = heap + r.blocks
  /\ parsed' = [status |-> r.status, position |-> r.position, node |-> r.node, text |-> text]

\* sx_parse_string()
Parses(text, tree) == Returned(text, Parse(text, 0)) /\ written' = tree

Reading(text) == Parses(text, NoNode)

ReadingWritten(w) == Parses(w.text, w.node)

ByUser(action) == action /\ written' = NoNode /\ parsed' = NotParsed

\* sx_make_integer(), sx_make_symbol() and sx_make_empty_list()
Make(node) ==
  /\ heap <= MaxBlocks
  /\ held' = Append(held, node)
  /\ heap' = heap + node.blocks

\* sx_destroy()
Destroy(i) ==
  /\ held' = Without(held, i)
  /\ heap' = heap - held[i].blocks

\* sx_cons() takes both nodes.
ConsOf(i, j) ==
  /\ i # j /\ heap <= MaxBlocks
  /\ held' = Merged(i, j, Cons(held[i], held[j]))
  /\ heap' = heap + PairBlocks

\* sx_pop() takes the pair apart, and hands out what is no pair.
Pop(i) ==
  /\ IsPair(held[i])
  /\ held' = [held EXCEPT ![i] = held[i].cdr] \o Keep(held[i].car)
  /\ heap' = heap - PairBlocks

\* What is left of a list behind each of its pairs, of which there are fewer than
\* blocks; in the end, what is no pair.
Rests(a) ==
  LET rest[k \in 0 .. a.blocks] ==
        IF k = 0 THEN a ELSE IF IsPair(rest[k - 1]) THEN rest[k - 1].cdr ELSE rest[k - 1]
  IN  rest

EndOfList(a) == Rests(a)[a.blocks]

\* List a with b instead of its end.
Linked(a, b) ==
  LET rest == Rests(a)
      linked[k \in 0 .. a.blocks] ==
        IF IsPair(rest[k]) THEN Cons(rest[k].car, linked[k + 1]) ELSE b
  IN  linked[0]

\* A defect the checks must notice: the end of the first list is unlinked, and no more.
AppendedLeaks(a, b) ==
  IF a = NoNode \/ b = NoNode THEN <<NoNode, 0>>
  ELSE IF IsNull(a) THEN <<b, 1>>
  ELSE IF IsNull(b) THEN <<a, 1>>
  ELSE IF IsPair(a) /\ IsPair(b) THEN <<Linked(a, b), 0>>
  ELSE <<NoNode, 0>>

\* sx_append(): what it returns, and how many blocks it destroys.
Appended(a, b) ==
  IF a = NoNode \/ b = NoNode THEN <<NoNode, 0>>
  ELSE IF IsNull(a) THEN <<b, a.blocks>>
  ELSE IF IsNull(b) THEN <<a, b.blocks>>
  ELSE IF IsPair(a) /\ IsPair(b) THEN <<Linked(a, b), EndOfList(a).blocks>>
  ELSE <<NoNode, 0>>

\* A user keeps both nodes if sx_append() returns NULL.
AppendOf(i, j) ==
  LET r == Appended(held[i], held[j])
  IN  /\ i # j
      /\ heap' = heap - r[2]
      /\ held' = IF r[1] = NoNode THEN held
                 ELSE Merged(i, j, r[1])

SxNext ==
  \/ /\ held = <<>> /\ parsed = NotParsed    \* bound: one text at a time
     /\ \/ \E text \in Texts : Reading(text)
        \/ \E w \in Written : ReadingWritten(w)
  \/ \E node \in Atoms : ByUser(Make(node))
  \/ \E i \in DOMAIN held :
       ByUser(\/ Destroy(i)
            \/ Pop(i)
            \/ \E j \in DOMAIN held : ConsOf(i, j) \/ AppendOf(i, j))

SxSpec == SxInit /\ [][SxNext]_sxVars

(***************************************************************************)
(* Properties                                                              *)
(***************************************************************************)

\* sx_parse() leaves nothing in the heap when it fails, at whatever depth, and
\* sx_pop(), sx_append(), sx_cons() and sx_destroy() hand on every node and free the
\* ones that nobody has any more: what is allocated is what the user holds.
HeapIsHeld ==
  LET sum[n \in 0 .. Len(held)] == IF n = 0 THEN 0 ELSE sum[n - 1] + held[n].blocks
  IN  heap = sum[Len(held)]

\* An expression that is written down is read again by sx_parse_string(), with the
\* nesting, the order and the numbers it had, up to where it ends, however it is spaced.
\* (Written has no lists with empty lists in them, which sx_parse_list() ends early.)
WrittenIsRead ==
  written # NoNode =>
    /\ parsed.status = "SUCCESS" /\ parsed.node = written
    /\ \A i \in parsed.position + 1 .. Len(parsed.text) : parsed.text[i] \in Space
================================================================================
