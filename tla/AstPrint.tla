------------------------------ MODULE AstPrint ------------------------------
(***************************************************************************)
(* ast_print.c: a tree as an outline, a line for each node and one for     *)
(* each role of a child, deeper by their depth.  A line is its depth and   *)
(* what it says; of a node it says the kind and what is called its note    *)
(* here: source line, name, type, operator or value.  print_node calls     *)
(* itself: todo is what its calls have still to print.                     *)
(***************************************************************************)
EXTENDS AstKinds, SequencesExt, FiniteSetsExt

CONSTANT Trees  \* [kind, note, children]; NULL is a tree of kind "null"

ASSUME TreesAssumption ==
  \A t \in Trees : t.kind # "null" /\ Fit(t.kind, [i \in DOMAIN t.children |->
                                                     t.children[i].kind])

VARIABLES
  tree, todo,
  output, ferror,  \* what was written; the error flag of the stream
  answer           \* of ast_print, when it has one

vars == <<tree, todo, output, ferror, answer>>

NoTree == [kind |-> "null", note |-> 0, children |-> << >>]

\* The stream may have failed before.
Init ==
  /\ tree = NoTree /\ todo = << >>
  /\ output = << >> /\ ferror \in BOOLEAN
  /\ answer = "none"

Node(depth, t) == [depth |-> depth, is |-> "node", tree |-> t]
Label(depth, text) == [depth |-> depth, is |-> "label", text |-> text]
Line(depth, kind, note) == [depth |-> depth, kind |-> kind, note |-> note]

\* The labels of the children, in the order of Slots.
Roles(kind) ==
  CASE kind = "declaration" -> <<"Initializer">>
    [] kind = "assignment" -> <<"Value">>
    [] kind = "if" -> <<"Condition", "Then", "Else">>
    [] kind = "while" -> <<"Condition", "Body">>
    [] kind = "binary_expression" -> <<"Left", "Right">>
    [] kind = "unary_expression" -> <<"Operand">>
    [] OTHER -> << >>

\* What print_node prints after the line of a node.
Parts(depth, t) ==
  IF t.kind \in Containers
  THEN IF t.children = << >> THEN <<Label(depth + 1, "<empty>")>>
       ELSE [i \in DOMAIN t.children |-> Node(depth + 1, t.children[i])]
  ELSE FlattenSeq([i \in DOMAIN t.children |->
         IF t.children[i].kind = "null" THEN << >>
         ELSE <<Label(depth + 1, Roles(t.kind)[i]), Node(depth + 2, t.children[i])>>])

Begin(t) ==
  /\ answer = "none" /\ tree = NoTree
  /\ tree' = t
  /\ todo' = <<Node(0, t)>>
  /\ UNCHANGED <<output, ferror, answer>>

Upcoming == Head(todo)

\* A write that fails ends all the calls.
Broken ==
  /\ ferror' = TRUE
  /\ answer' = "false"
  /\ todo' = << >>
  /\ UNCHANGED <<tree, output>>

PrintNode ==
  /\ todo # << >> /\ Upcoming.is = "node"
  /\ \/ /\ output' = Append(output, Line(Upcoming.depth, Upcoming.tree.kind, Upcoming.tree.note))
        /\ todo' = Parts(Upcoming.depth, Upcoming.tree) \o Tail(todo)
        /\ UNCHANGED <<tree, ferror, answer>>
     \/ Broken

\* print_label
PrintLabel ==
  /\ todo # << >> /\ Upcoming.is = "label"
  /\ \/ /\ output' = Append(output, Line(Upcoming.depth, "label", Upcoming.text))
        /\ todo' = Tail(todo)
        /\ UNCHANGED <<tree, ferror, answer>>
     \/ Broken

\* A variant of Finish that does not ask whether the stream has failed.
FinishUnchecked ==
  /\ tree # NoTree /\ todo = << >> /\ answer = "none"
  /\ answer' = "true"
  /\ UNCHANGED <<tree, todo, output, ferror>>

\* The writes were accepted: the stream itself may have failed before.
Finish ==
  /\ tree # NoTree /\ todo = << >> /\ answer = "none"
  /\ answer' = IF ferror THEN "false" ELSE "true"
  /\ UNCHANGED <<tree, todo, output, ferror>>

Next == (\E t \in Trees : Begin(t)) \/ PrintNode \/ PrintLabel \/ Finish

Spec == Init /\ [][Next]_vars

-----------------------------------------------------------------------------
(* Properties. *)

\* The tree that an outline stands for, by what is written alone: the lines
\* that belong to one are those after it that are deeper.
ReadBack(lines) ==
  LET end(k) == Min({j \in k + 1 .. Len(lines) : lines[j].depth <= lines[k].depth}
                      \cup {Len(lines) + 1})
      under(k, d) == SetToSortSeq({j \in k + 1 .. end(k) - 1 :
                                     lines[j].depth = lines[k].depth + d}, <)
      tree_[k \in DOMAIN lines] ==
        LET kind == lines[k].kind
            statements == SelectSeq(under(k, 1), LAMBDA j : lines[j].kind # "label")
            child(role) ==
              LET at == {j \in Range(under(k, 1)) :
                           lines[j].kind = "label" /\ lines[j].note = role}
              IN  IF at = {} THEN NoTree ELSE tree_[Min(at) + 1]
            roles == Roles(kind)
        IN  [kind |-> kind, note |-> lines[k].note,
             children |-> IF kind \in Containers
                          THEN [i \in DOMAIN statements |-> tree_[statements[i]]]
                          ELSE [i \in DOMAIN roles |-> child(roles[i])]]
  IN  tree_[1]

\* When ast_print answers that it has printed the tree, it has: the outline
\* tells the whole tree, with nothing lost or ambiguous, and no write to the
\* stream has failed.
PrintedTellsTree == answer = "true" => ReadBack(output) = tree /\ ~ferror
=============================================================================
