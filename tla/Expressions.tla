----------------------------- MODULE Expressions ----------------------------
(***************************************************************************)
(* The expressions of parser.y: eight layers of nonterminals, which group  *)
(* operators without any precedence declared, and the trees that their     *)
(* actions build.  Bison's parser for them shifts an operator when the     *)
(* layer on top of its stack goes on with it; otherwise it reduces to the  *)
(* next layer.                                                             *)
(*                                                                         *)
(* An operator stands for those of its layer, "id" for every primary but   *)
(* the parentheses; "end" for whatever follows the expression.  A node has *)
(* the position it gets its source line from, and its operands.            *)
(***************************************************************************)
EXTENDS Integers, SequencesExt, FiniteSetsExt

CONSTANT MaxTokens  \* in an expression
ASSUME MaxTokensAssumption == MaxTokens \in Nat

VARIABLES input, lookahead, stack, status
vars == <<input, lookahead, stack, status>>

\* A variant of Layers with the two logical operators the other way round.
LayersSwapped == <<"&&", "||", "==", "<", "+", "*">>

\* The layer of logical_or_expression is number 1, that of
\* multiplicative_expression 6, unary_expression 7 and primary_expression 8.
Layers == <<"||", "&&", "==", "<", "+", "*">>
Unary == 7
Primary == 8

Operators == {"||", "&&", "==", "<", "+", "*"}
Tokens == Operators \cup {"id", "!", "(", ")"}
LayerOf(op) == CHOOSE k \in DOMAIN Layers : Layers[k] = op

\* equality_expression and relational_expression have one operator at most.
AtMostOne == {"==", "<"}

Node(at, operands) == [at |-> at, operands |-> operands]
NoNode == Node(0, << >>)

\* On the stack: a token and where it is, or what a layer has derived.
Token(name, at) == [name |-> name, layer |-> 0, tree |-> Node(at, << >>)]
Derived(layer, tree) == [name |-> "expression", layer |-> layer, tree |-> tree]
Nothing == Token("none", 0)

Init == /\ input = << >> /\ lookahead = Nothing
        /\ stack = << >> /\ status = "running"

-----------------------------------------------------------------------------
Top == IF stack = << >> THEN Nothing ELSE Last(stack)
Below(n) == IF Len(stack) > n THEN stack[Len(stack) - n] ELSE Nothing
Without(n) == SubSeq(stack, 1, Len(stack) - n)

Read ==
  /\ status = "running" /\ lookahead = Nothing
  /\ \/ \E t \in Tokens : /\ Len(input) < MaxTokens
                          /\ input' = Append(input, t)
                          /\ lookahead' = Token(t, Len(input) + 1)
     \/ /\ lookahead' = Token("end", Len(input) + 1)
        /\ UNCHANGED input
  /\ UNCHANGED <<stack, status>>

\* A variant of GoesOn that goes on after two operands of == or < as well.
GoesOnAgain(op) ==
  IF op \in AtMostOne THEN Top.layer = LayerOf(op) + 1
  ELSE Top.layer = LayerOf(op)

\* The layer on top goes on with this operator.
GoesOn(op) ==
  IF op \in AtMostOne
  THEN Top.layer = LayerOf(op) + 1 /\ Below(1).name # op
  ELSE Top.layer = LayerOf(op)

CanShift ==
  IF Top.layer = 0 THEN lookahead.name \in {"id", "!", "("}
  ELSE \/ lookahead.name \in Operators /\ GoesOn(lookahead.name)
       \/ lookahead.name = ")" /\ Top.layer = 1 /\ Below(1).name = "("

Decided == status = "running" /\ lookahead # Nothing

Shift ==
  /\ Decided /\ CanShift
  /\ CASE lookahead.name = "id" -> stack' = Append(stack, Derived(Primary, lookahead.tree))
       [] lookahead.name = ")" -> stack' = Append(Without(2), Derived(Primary, Top.tree))
       [] OTHER -> stack' = Append(stack, lookahead)
  /\ lookahead' = Nothing
  /\ UNCHANGED <<input, status>>

Reduces == Decided /\ ~CanShift /\ Top.layer > 1
Becomes(n, layer, tree) == /\ stack' = Append(Without(n), Derived(layer, tree))
                           /\ UNCHANGED <<input, lookahead, status>>

EndsUnary == Top.layer = Unary /\ Below(1).name = "!"
EndsBinary == Below(1).name \in Operators /\ Top.layer = LayerOf(Below(1).name) + 1

ReduceUnary ==
  /\ Reduces /\ EndsUnary
  /\ Becomes(2, Unary, Node(Below(1).tree.at, <<Top.tree>>))

ReduceBinary ==
  /\ Reduces /\ EndsBinary
  /\ Becomes(3, Top.layer - 1, Node(Below(1).tree.at, <<Below(2).tree, Top.tree>>))

\* $$ = $1
ReduceUnit ==
  /\ Reduces /\ ~EndsUnary /\ ~EndsBinary
  /\ Becomes(1, Top.layer - 1, Top.tree)

Finish ==
  /\ Decided /\ ~CanShift /\ Top.layer \in {0, 1}
  /\ status' = IF lookahead.name = "end" /\ Len(stack) = 1 /\ Top.layer = 1
               THEN "accepted" ELSE "rejected"
  /\ UNCHANGED <<input, lookahead, stack>>

Next == Read \/ Shift \/ ReduceUnary \/ ReduceBinary \/ ReduceUnit \/ Finish

Spec == Init /\ [][Next]_vars

-----------------------------------------------------------------------------
(* Properties. *)

\* The table of precedences of GRAMMAR.md, lowest first.
Strength(op) ==
  CASE op = "||" -> 1 [] op = "&&" -> 2 [] op = "==" -> 3
    [] op = "<" -> 4 [] op = "+" -> 5 [] op = "*" -> 6
LeftAssociative == {"||", "&&", "+", "*"}

\* The tree of a sequence of tokens by that table, NoNode when it is no
\* expression: the root is the weakest operator outside parentheses, the last
\* of equal ones; operators that do not associate must be alone.
Grouped(s) ==
  LET depth(i, p) == Cardinality({q \in i .. p - 1 : s[q] = "("})
                     - Cardinality({q \in i .. p - 1 : s[q] = ")"})
      tree[i \in 1 .. Len(s) + 1, j \in 0 .. Len(s)] ==
        LET outside == {p \in i .. j : s[p] \in Operators /\ depth(i, p) = 0}
            weakest == Min({Strength(s[p]) : p \in outside})
            roots == {p \in outside : Strength(s[p]) = weakest}
            root == Max(roots)
        IN  IF i > j THEN NoNode
            ELSE IF outside # {}
            THEN LET left == tree[i, root - 1]
                     right == tree[root + 1, j]
                 IN  IF /\ left # NoNode /\ right # NoNode
                        /\ s[root] \in LeftAssociative \/ Cardinality(roots) = 1
                     THEN Node(root, <<left, right>>) ELSE NoNode
            ELSE IF s[i] = "!"
            THEN IF tree[i + 1, j] = NoNode THEN NoNode ELSE Node(i, <<tree[i + 1, j]>>)
            ELSE IF s[i] = "(" /\ s[j] = ")" THEN tree[i + 1, j - 1]
            ELSE IF i = j /\ s[i] = "id" THEN Node(i, << >>)
            ELSE NoNode
  IN  tree[1, Len(s)]

\* An expression that begins with s, if there is one.
Completed(s) ==
  LET whole == IF s = << >> \/ Last(s) \notin {"id", ")"} THEN Append(s, "id") ELSE s
      open == Cardinality({q \in DOMAIN whole : whole[q] = "("})
              - Cardinality({q \in DOMAIN whole : whole[q] = ")"})
  IN  whole \o [k \in 1 .. Max({open, 0}) |-> ")"]

\* The tree of an expression that was accepted is grouped by the table of
\* precedences, and its nodes have the line of their operator.
\* (D-402 of DECISIONS.md: the layers alone decide.)
GroupsByTable == status = "accepted" => stack[1].tree = Grouped(input)

\* A token is rejected only when no expression goes on with it, and the end
\* only when there is none; chains of comparisons are rejected, and nothing
\* else that the table has a tree for.
RejectedIsNoExpression ==
  status = "rejected" =>
    Grouped(IF lookahead.name = "end" THEN input ELSE Completed(input)) = NoNode

\* The error is at the first wrong token, the line of which is reported: what
\* was shifted before can be completed.
ShiftedCanBeCompleted ==
  LET shifted == IF lookahead.name \in {"none", "end"} THEN input ELSE Front(input)
  IN  Grouped(Completed(shifted)) # NoNode

\* So errors are found where they are: everything that the table has a tree for
\* is an expression, and what is not is rejected at its first wrong token.
ErrorsExact == RejectedIsNoExpression /\ ShiftedCanBeCompleted
=============================================================================
