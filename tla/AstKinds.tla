------------------------------ MODULE AstKinds ------------------------------
(* The kinds of ast.h, and which kinds the children of a node may have. *)
EXTENDS Integers, Sequences

Literals == {"int_literal", "float_literal", "bool_literal"}
Expressions == Literals \cup {"identifier", "binary_expression", "unary_expression"}
Statements == {"block", "declaration", "assignment", "if", "while", "print"}
Containers == {"program", "block"}
Named == {"declaration", "assignment", "print", "identifier"}
AllKinds == Expressions \cup Statements \cup Containers

\* A variant of Slots where anything may be the else branch.
SlotsAnyElse(kind) ==
  CASE kind = "declaration" -> <<Expressions \cup {"null"}>>
    [] kind = "if" -> <<Expressions, {"block"}, AllKinds \cup {"null"}>>
    [] kind = "while" -> <<Expressions, {"block"}>>
    [] kind = "binary_expression" -> <<Expressions, Expressions>>
    [] kind \in {"assignment", "unary_expression"} -> <<Expressions>>
    [] OTHER -> << >>

\* The children that a constructor takes, in the order of its parameters, each
\* with the kinds it accepts; "null" where NULL is accepted.
Slots(kind) ==
  CASE kind = "declaration" -> <<Expressions \cup {"null"}>>
    [] kind = "if" -> <<Expressions, {"block"}, {"block", "null"}>>
    [] kind = "while" -> <<Expressions, {"block"}>>
    [] kind = "binary_expression" -> <<Expressions, Expressions>>
    [] kind \in {"assignment", "unary_expression"} -> <<Expressions>>
    [] OTHER -> << >>

\* Children of these kinds make a node of that kind.
Fit(kind, kinds) ==
  IF kind \in Containers
  THEN \A i \in DOMAIN kinds : kinds[i] \in Statements
  ELSE /\ Len(kinds) = Len(Slots(kind))
       /\ \A i \in DOMAIN kinds : kinds[i] \in Slots(kind)[i]
=============================================================================
