---------------------------- MODULE SyntaxTrees -----------------------------
(***************************************************************************)
(* What ast.h promises its client: trees.  The client has some, each by    *)
(* the address of its root; a constructor makes one of several, a          *)
(* statement goes to the end of a program or a block, and a tree that is   *)
(* destroyed is gone.  What fails changes nothing ("on failure, ownership  *)
(* remains with the caller"), and nothing that is done to one tree is seen *)
(* in another.                                                             *)
(***************************************************************************)
EXTENDS AstKinds

CONSTANT Addresses
VARIABLE trees  \* address of a root -> [kind, children]

Null == 0
None == [kind |-> "null", children |-> << >>]

Tree(a) == IF a = Null THEN None ELSE trees[a]
KindsOf(children) == [i \in DOMAIN children |-> children[i].kind]

\* Every tree may go only to one place.
Distinct(s) == \A i, j \in DOMAIN s : s[i] = s[j] /\ s[i] # Null => i = j

Init == trees = [a \in {} |-> None]

Make(a, kind, arguments) ==
  LET children == [i \in DOMAIN arguments |-> Tree(arguments[i])]
      kept == DOMAIN trees \ {arguments[i] : i \in DOMAIN arguments}
  IN  /\ Distinct(arguments)
      /\ Fit(kind, KindsOf(children))
      /\ trees' = [r \in kept \cup {a} |->
                     IF r = a THEN [kind |-> kind, children |-> children] ELSE trees[r]]

AddStatement(container, statement) ==
  /\ container # statement
  /\ trees[container].kind \in Containers
  /\ trees[statement].kind \in Statements
  /\ trees' = [r \in DOMAIN trees \ {statement} |->
                 IF r = container
                 THEN [trees[r] EXCEPT !.children = Append(@, trees[statement])]
                 ELSE trees[r]]

Destroy(a) == trees' = [r \in DOMAIN trees \ {a} |-> trees[r]]

Next ==
  \/ \E a \in Addresses \ DOMAIN trees, kind \in AllKinds :
       \E arguments \in [DOMAIN Slots(kind) -> DOMAIN trees \cup {Null}] :
         Make(a, kind, arguments)
  \/ \E container, statement \in DOMAIN trees : AddStatement(container, statement)
  \/ \E a \in DOMAIN trees : Destroy(a)

Spec == Init /\ [][Next]_trees
=============================================================================
