----------------------------- MODULE MCAstPrint -----------------------------
(* An instance of the printing of trees for TLC: every kind of node. *)
EXTENDS AstPrint

Of(kind, children) == [kind |-> kind, note |-> 1, children |-> children]
Leaves == {[kind |-> k, note |-> n, children |-> << >>] :
             k \in Literals \cup {"identifier"}, n \in {1, 2}}
Two == {t \in Leaves : t.kind = "int_literal"}

Operations == {Of("unary_expression", <<a>>) : a \in Leaves}
                \cup {Of("binary_expression", <<a, b>>) : a, b \in Two}
Nested == Two \cup {Of("binary_expression", <<a, b>>) : a \in Operations, b \in Two}

Plain == {Of("print", << >>)} \cup {Of("declaration", <<a>>) : a \in Two \cup {NoTree}}
           \cup {Of("assignment", <<a>>) : a \in Nested}

Lists(statements) == {<< >>} \cup {<<a>> : a \in statements}
                       \cup {<<a, b>> : a, b \in statements}
Small == {Of("print", << >>), Of("block", << >>), Of("declaration", <<NoTree>>)}
Blocks == {Of("block", s) : s \in Lists(Small)}

Compound == {Of("if", <<a, b, c>>) : a \in Two, b \in Blocks, c \in Blocks \cup {NoTree}}
              \cup {Of("while", <<a, b>>) : a \in Two, b \in Blocks}

SomeTrees == {Of("program", <<s>>) : s \in Plain \cup Compound}
               \cup {Of("program", <<a, b>>) : a, b \in Blocks}
=============================================================================
