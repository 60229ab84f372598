------------------------------- MODULE Source -------------------------------
(***************************************************************************)
(* The abstract syntax tree (ast.h) as its visits in the order in which    *)
(* both semantic.c and tac.c come to its nodes: a statement before what is *)
(* in it, the operands of an expression from left to right before their    *)
(* operator, a block followed by its statements and its end.  The grammar  *)
(* of parser.y allows any tree, for an expression can be parenthesised.    *)
(* A position in this sequence stands for a node, and for its source line. *)
(*                                                                         *)
(* The rest of the module says, without a symbol table, which declaration  *)
(* a use of a name denotes: what LANGUAGE_SPEC.md calls lexical scoping,   *)
(* as it can be read off the sequence.                                     *)
(***************************************************************************)
EXTENDS Integers, Sequences, FiniteSets, FiniteSetsExt, Language

Arithmetic == {"+", "-", "*", "/"}
Relational == {"<", ">", "<=", ">="}
Equality == {"==", "!="}
Logical == {"&&", "||"}
BinaryOperators == Arithmetic \cup {"%"} \cup Relational \cup Equality \cup Logical

Declaration(n, ty, initialized) ==
  [kind |-> "declaration", name |-> n, type |-> ty, initialized |-> initialized]
Assignment(n) == [kind |-> "assignment", name |-> n]
PrintOf(n) == [kind |-> "print", name |-> n]
If(hasElse) == [kind |-> "if", hasElse |-> hasElse]
While == [kind |-> "while"]
Block == [kind |-> "block"]
EndBlock == [kind |-> "end"]
Identifier(n) == [kind |-> "identifier", name |-> n]
Literal(ty) == [kind |-> "literal", type |-> ty]
Binary(op) == [kind |-> "binary", operator |-> op]
Unary == [kind |-> "unary"]

Statements ==
  {Declaration(n, ty, i) : n \in Names, ty \in Types, i \in BOOLEAN}
    \cup {Assignment(n) : n \in Names} \cup {PrintOf(n) : n \in Names}
    \cup {If(e) : e \in BOOLEAN} \cup {While, Block}

Expressions ==
  {Identifier(n) : n \in Names} \cup {Literal(ty) : ty \in Types}
    \cup {Binary(op) : op \in BinaryOperators} \cup {Unary}

Visits == Statements \cup Expressions \cup {EndBlock}

IsExpression(v) == v.kind \in {"identifier", "literal", "binary", "unary"}
Declares(v) == v.kind = "declaration"
Uses(v) == v.kind \in {"identifier", "assignment", "print"}

-----------------------------------------------------------------------------
(* Blocks.  Position 0 stands for the program. *)

Before(ast, p, kind) == Cardinality({q \in DOMAIN ast : q < p /\ ast[q].kind = kind})

\* How many blocks are open when position p is come to.
Level(ast, p) == Before(ast, p, "block") - Before(ast, p, "end")

OpenAt(ast, b, p) ==
  \/ b = 0
  \/ /\ b < p
     /\ ast[b].kind = "block"
     /\ \A q \in b + 1 .. p : Level(ast, q) > Level(ast, b)

\* The innermost block open at p.
BlockAt(ast, p) == Max({b \in 0 .. p - 1 : OpenAt(ast, b, p)})

\* The blocks, numbered from 1 as they open; the program is number 0.
Ordinal(ast, b) == IF b = 0 THEN 0 ELSE Before(ast, b, "block") + 1

-----------------------------------------------------------------------------
(* Declarations. *)

\* The declaration at d is over when p is come to: p is not in its initializer.
Over(ast, d, p) ==
  \/ ~ast[d].initialized /\ d < p
  \/ \E q \in d + 1 .. p : q \notin DOMAIN ast \/ ~IsExpression(ast[q])

DeclarationsOf(ast, n, p) ==
  {d \in DOMAIN ast : /\ d < p
                      /\ Declares(ast[d]) /\ ast[d].name = n
                      /\ Over(ast, d, p)}

\* Those in the blocks still open.
InScope(ast, n, p) ==
  {d \in DeclarationsOf(ast, n, p) : OpenAt(ast, BlockAt(ast, d), p)}

\* The declaration that n denotes at p: in the innermost block that has one,
\* the first.  0 when there is none.
Denoted(ast, n, p) ==
  LET S == InScope(ast, n, p)
      innermost == Max({BlockAt(ast, d) : d \in S})
  IN  IF S = {} THEN 0 ELSE Min({d \in S : BlockAt(ast, d) = innermost})

\* The declaration at p repeats one of its own block.
Repeats(ast, p) ==
  \E d \in DeclarationsOf(ast, ast[p].name, p) : BlockAt(ast, d) = BlockAt(ast, p)

-----------------------------------------------------------------------------
(* Expressions. *)

\* What a visit adds to the number of operands that wait for an operator.
Weight(v) == CASE v.kind = "binary" -> -1
               [] v.kind = "unary" -> 0
               [] OTHER -> 1

\* The first position of the expression whose root is at r: the shortest part
\* of the sequence, ending in r, that makes one operand of nothing.
FirstOf(ast, r) ==
  LET total(q) == Cardinality({i \in q .. r : Weight(ast[i]) = 1})
                  - Cardinality({i \in q .. r : Weight(ast[i]) = -1})
  IN  Max({q \in 1 .. r : /\ \A i \in q .. r : IsExpression(ast[i])
                          /\ total(q) = 1})

\* The last position of the expression that belongs to the statement at p.
LastOf(ast, p) ==
  Max({q \in p .. Len(ast) : \A i \in p + 1 .. q : IsExpression(ast[i])})

\* The positions of the node at p and of what it is made of.
Within(ast, p) ==
  IF IsExpression(ast[p]) THEN FirstOf(ast, p) .. p ELSE p .. LastOf(ast, p)
=============================================================================
