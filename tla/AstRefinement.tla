--------------------------- MODULE AstRefinement ----------------------------
(* The nodes of ast.c implement the trees that its client thinks of. *)
EXTENDS Ast

\* The tree below every node that is not being destroyed.
TreeAt ==
  LET tree[a \in DOMAIN heap] ==
        [kind |-> heap[a].kind,
         children |-> [i \in DOMAIN heap[a].children |->
                         LET child == heap[a].children[i]
                         IN  IF child = Null
                             THEN [kind |-> "null", children |-> << >>]
                             ELSE tree[child]]]
  IN  [a \in owned |-> tree[a]]

Trees == INSTANCE SyntaxTrees WITH trees <- TreeAt

\* ast.c is an implementation of SyntaxTrees: no failure, no growth of a list
\* and no destruction shows in a tree but the one it is about.
ImplementsTrees == Trees!Spec
=============================================================================
