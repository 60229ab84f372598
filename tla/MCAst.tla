------------------------------- MODULE MCAst --------------------------------
(* Instances of the syntax tree for TLC. *)
EXTENDS AstRefinement

Five == 1 .. 5

\* A constructor of each shape: with and without a name, with children that may
\* be missing, with two of the same kind, with a list; statements for the lists.
MCKinds == {"program", "block", "print", "int_literal", "identifier",
            "binary_expression", "declaration", "if", "while"}
=============================================================================
