-------------------------------- MODULE Tac ---------------------------------
(***************************************************************************)
(* The generation of three-address code, tac.c.  It walks the tree of a    *)
(* program, which is a value now, and builds the symbol table again.  The  *)
(* C call stack is todo and operands (the operand texts not used yet),     *)
(* context is the TacContext without its program, which is code.  A step   *)
(* is a visit of a node, the return to the statement an expression or a    *)
(* block belongs to, or the start or the end of tac_generate.              *)
(*                                                                         *)
(* An identifier is a stem and the number that its last digits spell, 0    *)
(* for none: <<"x", 0>>, <<"t", 1>>.  An operand text adds the scope ID    *)
(* after the @, 0 for none, so that two texts are equal when the strings   *)
(* of the program are: a global t1 and the first temporary are both        *)
(* <<"t", 1, 0>>.  The text of a literal is no identifier's.               *)
(*                                                                         *)
(* When an allocation fails or something is amiss the function returns,    *)
(* and so do all its callers, which free what they own: one step, Abort.   *)
(***************************************************************************)
EXTENDS Source, ScopeTable, SequencesExt

CONSTANTS Programs,  \* the syntax trees it may be given
          Failures,  \* "allocation" in it when allocations can fail
          SizeMax    \* SIZE_MAX, where the numbers of temporaries and labels end

ASSUME ProgramsAssumption == Programs \subseteq Seq(Visits)
ASSUME SizeMaxAssumption == SizeMax \in Nat \ {0}
ASSUME IdentifiersAssumption == \A n \in Names : n \in {n[1]} \X Nat
ASSUME NoLiteralAssumption == \A n \in Names : n[1] \notin {"1", ""}

VARIABLES program, next, todo, operands, context, code, status, output

vars == <<program, next, todo, operands, context, code, status, output>>

\* The stems there are: those of names, of temporaries, and of other texts.
Stems == {n[1] : n \in Names} \cup {"t", "1", ""}

Text == Stems \X Nat \X Nat

\* make_storage_name: "x", or "x@2" when it is declared in scope 2.
StorageName(n, id) == <<n[1], n[2], id>>
Temporary(k) == <<"t", k, 0>>
LiteralText == <<"1", 0, 0>>
NoText == <<"", 0, 0>>
NoLabel == 0

\* An instruction.  Operator texts are left out: no step depends on them.
Instruction ==
  [kind : {"ASSIGNMENT", "UNARY", "BINARY", "PRINT", "LABEL", "JUMP",
           "JUMP_IF_FALSE"},
   result : Text, first : Text, second : Text, label : Nat]

Plain(kind, result, first, second) ==
  [kind |-> kind, result |-> result, first |-> first, second |-> second,
   label |-> NoLabel]
Control(kind, condition, label) ==
  [kind |-> kind, result |-> NoText, first |-> condition, second |-> NoText,
   label |-> label]
Label(l) == Control("LABEL", NoText, l)
Jump(l) == Control("JUMP", NoText, l)
JumpIfFalse(text, l) == Control("JUMP_IF_FALSE", text, l)

Binding == [symbol : Nat, storage : Text]

Context == [symbols : Table, bindings : Seq(Binding), reserved : SUBSET Text,
            next_temporary : 0 .. SizeMax, next_label : 0 .. SizeMax]

\* What is left to do of a statement list, of a statement whose expression is
\* being generated, of one whose block comes next or is being generated.
Todo == [at : {"list"}]
  \cup [at : {"declaration"}, line : Nat, name : Names, type : Types]
  \cup [at : {"assignment"}, target : Text]
  \cup [at : {"if"}, hasElse : BOOLEAN]
  \cup [at : {"while"}, start : Nat, exit : Nat]
  \cup [at : {"then"}, entered : BOOLEAN, hasElse : BOOLEAN, no : Nat, end : Nat]
  \cup [at : {"else"}, entered : BOOLEAN, end : Nat]
  \cup [at : {"body"}, entered : BOOLEAN, start : Nat, exit : Nat]

Statuses == {"none", "running", "SUCCESS", "ALLOCATION_FAILURE", "INTERNAL_ERROR"}

\* The type invariant; there is a program for the caller only when it is the
\* whole code, and never a part (tac.h: no partial program is returned), and
\* the counters stop at SIZE_MAX, where numbers would be given out again.
TypeOK ==
  /\ program \in Programs \cup {<< >>}
  /\ next \in Nat
  /\ todo \in Seq(Todo)
  /\ operands \in Seq(Text)
  /\ context \in Context
  /\ code \in Seq(Instruction)
  /\ status \in Statuses
  /\ output \in {<< >>, <<code>>}

NewContext(reserved) ==
  [symbols |-> NewTable, bindings |-> << >>, reserved |-> reserved,
   next_temporary |-> 1, next_label |-> 1]

Init ==
  /\ program = << >> /\ next = 1
  /\ todo = << >>
  /\ operands = << >>
  /\ context = NewContext({})
  /\ code = << >>
  /\ status = "none"
  /\ output = << >>

-----------------------------------------------------------------------------
At(where) == todo # << >> /\ Last(todo).at = where

Pop == Front(todo)

Come(v) == /\ status = "running"
           /\ next \in DOMAIN program
           /\ program[next] = v

\* Come to node v, of which the rest of the action says what becomes.
Visit(v) == Come(v) /\ next' = next + 1 /\ UNCHANGED <<program, status, output>>

Return == status = "running" /\ UNCHANGED <<program, next, status, output>>

Emit(instructions) == code' = code \o instructions

\* tac_generate gives up: there is no program.
Abort(failure) ==
  /\ status' = failure
  /\ todo' = << >>
  /\ operands' = << >>
  /\ code' = << >>
  /\ output' = << >>
  /\ UNCHANGED <<program, next, context>>

-----------------------------------------------------------------------------
(* Names. *)

BindingsOf(c, symbol) == {i \in DOMAIN c.bindings : c.bindings[i].symbol = symbol}

\* Variants of Resolve that ask for the name alone: the first declaration, the
\* last one, whatever its scope.
ResolveFirst(c, n) ==
  LET named == {i \in DOMAIN c.bindings : c.symbols.symbols[c.bindings[i].symbol].name = n}
  IN  IF named = {} THEN NoText ELSE c.bindings[First(named)].storage
ResolveLast(c, n) ==
  LET named == {i \in DOMAIN c.bindings : c.symbols.symbols[c.bindings[i].symbol].name = n}
  IN  IF named = {} THEN NoText ELSE c.bindings[Newest(named)].storage

\* resolve_storage_name
Resolve(c, n) ==
  LET symbol == LookupActive(c.symbols, n)
      found == BindingsOf(c, symbol)
  IN  IF symbol = Null \/ found = {} THEN NoText
      ELSE c.bindings[First(found)].storage

\* insert_declaration and remember_binding
Remember(c, d) ==
  LET symbols == Insert(c.symbols, d.name, d.type, d.line)
      symbol == LookupCurrent(symbols, d.name)
      id == symbols.symbols[symbol].scope_id
  IN  [c EXCEPT !.symbols = symbols,
                !.bindings = Append(@, [symbol |-> symbol,
                                        storage |-> StorageName(d.name, id)])]

\* reserve_global_storage_names: the declarations of the program's own list.
GlobalNames(ast) ==
  {StorageName(ast[d].name, 0) :
     d \in {e \in DOMAIN ast : Declares(ast[e]) /\ BlockAt(ast, e) = 0}}

\* A variant of IsNextTemporary that does not look at the reserved texts.
IsNextNumber(c, k) == k = c.next_temporary

\* make_temporary takes the first number whose text is not reserved.
IsNextTemporary(c, k) ==
  /\ k >= c.next_temporary
  /\ Temporary(k) \notin c.reserved
  /\ \A j \in c.next_temporary .. k - 1 : Temporary(j) \in c.reserved

Temporaries(c) == {k \in c.next_temporary .. SizeMax - 1 : IsNextTemporary(c, k)}

TakeTemporary(c, k) ==
  [c EXCEPT !.next_temporary = k + 1,
            !.reserved = @ \cup {Temporary(k)}]

\* make_label, n times; the variant counts one too far.
HasLabelsBeyond(c, n) == c.next_label + n <= SizeMax + 1
HasLabels(c, n) == c.next_label + n <= SizeMax
TakeLabels(c, n) == [c EXCEPT !.next_label = @ + n]

-----------------------------------------------------------------------------
(* Statements. *)

\* A variant of GenerateDeclaration that declares before the initializer too.
GenerateDeclarationEarly(n, ty, initialized) ==
  /\ At("list")
  /\ Visit(Declaration(n, ty, initialized))
  /\ LET d == [at |-> "declaration", line |-> next, name |-> n, type |-> ty]
     IN  /\ LookupCurrent(context.symbols, n) = Null
         /\ context' = Remember(context, d)
         /\ todo' = IF initialized THEN Append(todo, d) ELSE todo
  /\ UNCHANGED <<operands, code>>

GenerateDeclaration(n, ty, initialized) ==
  /\ At("list")
  /\ Visit(Declaration(n, ty, initialized))
  /\ LET d == [at |-> "declaration", line |-> next, name |-> n, type |-> ty]
     IN  IF initialized
           THEN todo' = Append(todo, d) /\ UNCHANGED context
           ELSE /\ LookupCurrent(context.symbols, n) = Null
                /\ context' = Remember(context, d)
                /\ UNCHANGED todo
  /\ UNCHANGED <<operands, code>>

\* A declaration of a name that its scope has already.
RefuseDeclaration(n, ty) ==
  /\ At("list")
  /\ Come(Declaration(n, ty, FALSE))
  /\ LookupCurrent(context.symbols, n) # Null
  /\ Abort("INTERNAL_ERROR")

\* The target is resolved before the value is generated.
GenerateAssignment(n) ==
  /\ At("list")
  /\ Visit(Assignment(n))
  /\ Resolve(context, n) # NoText
  /\ todo' = Append(todo, [at |-> "assignment", target |-> Resolve(context, n)])
  /\ UNCHANGED <<operands, context, code>>

GeneratePrint(n) ==
  /\ At("list")
  /\ Visit(PrintOf(n))
  /\ Resolve(context, n) # NoText
  /\ Emit(<<Plain("PRINT", NoText, Resolve(context, n), NoText)>>)
  /\ UNCHANGED <<todo, operands, context>>

\* A name that is not bound, where a statement or an expression uses it.
RefuseUse(n) ==
  /\ \/ At("list") /\ (Come(Assignment(n)) \/ Come(PrintOf(n)))
     \/ Come(Identifier(n))
  /\ Resolve(context, n) = NoText
  /\ Abort("INTERNAL_ERROR")

GenerateIf(hasElse) ==
  /\ At("list")
  /\ Visit(If(hasElse))
  /\ todo' = Append(todo, [at |-> "if", hasElse |-> hasElse])
  /\ UNCHANGED <<operands, context, code>>

GenerateWhile ==
  /\ At("list")
  /\ Visit(While)
  /\ HasLabels(context, 2)
  /\ LET start == context.next_label
     IN  /\ todo' = Append(todo, [at |-> "while", start |-> start, exit |-> start + 1])
         /\ Emit(<<Label(start)>>)
  /\ context' = TakeLabels(context, 2)
  /\ UNCHANGED operands

RefuseWhile ==
  /\ At("list")
  /\ Come(While)
  /\ ~HasLabels(context, 2)
  /\ Abort("INTERNAL_ERROR")

\* The statement that owns the block that comes next, or no statement.
OwnsNextBlock == \/ At("list")
                 \/ /\ At("then") \/ At("else") \/ At("body")
                    /\ ~Last(todo).entered

EnterBlock ==
  /\ OwnsNextBlock
  /\ Visit(Block)
  /\ context' = [context EXCEPT !.symbols = EnterScope(@)]
  /\ todo' = (IF At("list") THEN todo
              ELSE [todo EXCEPT ![Len(todo)].entered = TRUE])
             \o <<[at |-> "list"]>>
  /\ UNCHANGED <<operands, code>>

\* A variant of LeaveBlock that does not exit the scope.
LeaveBlockOnly ==
  /\ At("list") /\ Len(todo) > 1
  /\ Visit(EndBlock)
  /\ todo' = Pop
  /\ UNCHANGED <<operands, code, context>>

LeaveBlock ==
  /\ At("list") /\ Len(todo) > 1
  /\ Visit(EndBlock)
  /\ context' = [context EXCEPT !.symbols = ExitScope(@)]
  /\ todo' = Pop
  /\ UNCHANGED <<operands, code>>

-----------------------------------------------------------------------------
(* Expressions. *)

GenerateIdentifier(n) ==
  /\ Visit(Identifier(n))
  /\ Resolve(context, n) # NoText
  /\ operands' = Append(operands, Resolve(context, n))
  /\ UNCHANGED <<todo, context, code>>

GenerateLiteral(ty) ==
  /\ Visit(Literal(ty))
  /\ operands' = Append(operands, LiteralText)
  /\ UNCHANGED <<todo, context, code>>

GenerateUnary ==
  /\ Visit(Unary)
  /\ \E k \in Temporaries(context) :
       /\ context' = TakeTemporary(context, k)
       /\ Emit(<<Plain("UNARY", Temporary(k), Last(operands), NoText)>>)
       /\ operands' = Append(Front(operands), Temporary(k))
  /\ UNCHANGED todo

GenerateBinary(op) ==
  /\ Visit(Binary(op))
  /\ \E k \in Temporaries(context) :
       /\ context' = TakeTemporary(context, k)
       /\ Emit(<<Plain("BINARY", Temporary(k), Last(Front(operands)), Last(operands))>>)
       /\ operands' = Append(Front(Front(operands)), Temporary(k))
  /\ UNCHANGED todo

\* A variant of RefuseOperator that goes on looking for a number.
RefuseOperatorNever ==
  /\ \/ Come(Unary)
     \/ \E op \in BinaryOperators : Come(Binary(op))
  /\ Temporaries(context) = {}
  /\ Return
  /\ UNCHANGED <<todo, operands, context, code>>

\* The numbers of the temporaries are used up.
RefuseOperator ==
  /\ \/ Come(Unary)
     \/ \E op \in BinaryOperators : Come(Binary(op))
  /\ Temporaries(context) = {}
  /\ Abort("INTERNAL_ERROR")

-----------------------------------------------------------------------------
(* Back in a statement. *)

\* The expression of the statement is all generated.
ExpressionComes == next \in DOMAIN program /\ IsExpression(program[next])

ExpressionDone(where) ==
  /\ status = "running"
  /\ At(where)
  /\ ~ExpressionComes

AfterExpression(where) == ExpressionDone(where) /\ Return /\ operands' = << >>

FinishDeclaration ==
  /\ AfterExpression("declaration")
  /\ LookupCurrent(context.symbols, Last(todo).name) = Null
  /\ context' = Remember(context, Last(todo))
  /\ Emit(<<Plain("ASSIGNMENT", Resolve(context', Last(todo).name), operands[1], NoText)>>)
  /\ todo' = Pop

RefuseInitialized ==
  /\ ExpressionDone("declaration")
  /\ LookupCurrent(context.symbols, Last(todo).name) # Null
  /\ Abort("INTERNAL_ERROR")

FinishAssignment ==
  /\ AfterExpression("assignment")
  /\ Emit(<<Plain("ASSIGNMENT", Last(todo).target, operands[1], NoText)>>)
  /\ todo' = Pop
  /\ UNCHANGED context

\* The labels of an if are made when its condition has been generated; the
\* variant takes the end label without making it.
LabelOfIf == 1
LabelsOfIf == IF Last(todo).hasElse THEN 2 ELSE 1

FinishIfCondition ==
  /\ AfterExpression("if")
  /\ HasLabels(context, LabelsOfIf)
  /\ LET no == context.next_label
         hasElse == Last(todo).hasElse
     IN  /\ Emit(<<JumpIfFalse(operands[1], no)>>)
         /\ todo' = Append(Pop, [at |-> "then", entered |-> FALSE,
                                 hasElse |-> hasElse, no |-> no,
                                 end |-> IF hasElse THEN no + 1 ELSE NoLabel])
  /\ context' = TakeLabels(context, LabelsOfIf)

RefuseIf ==
  /\ ExpressionDone("if")
  /\ ~HasLabels(context, LabelsOfIf)
  /\ Abort("INTERNAL_ERROR")

\* A variant of FinishWhileCondition that has the loop come back to its body.
FinishWhileConditionOnce ==
  /\ AfterExpression("while")
  /\ LET loop == Last(todo)
         start == context.next_label
     IN  /\ Emit(<<JumpIfFalse(operands[1], loop.exit), Label(start)>>)
         /\ todo' = Append(Pop, [at |-> "body", entered |-> FALSE,
                                 start |-> start, exit |-> loop.exit])
  /\ context' = TakeLabels(context, 1)

FinishWhileCondition ==
  /\ AfterExpression("while")
  /\ LET loop == Last(todo)
     IN  /\ Emit(<<JumpIfFalse(operands[1], loop.exit)>>)
         /\ todo' = Append(Pop, [at |-> "body", entered |-> FALSE,
                                 start |-> loop.start, exit |-> loop.exit])
  /\ UNCHANGED context

AfterBlock(where) ==
  /\ Return
  /\ At(where) /\ Last(todo).entered
  /\ UNCHANGED <<operands, context>>

FinishThen ==
  /\ AfterBlock("then")
  /\ LET branch == Last(todo)
     IN  IF branch.hasElse
           THEN /\ Emit(<<Jump(branch.end), Label(branch.no)>>)
                /\ todo' = Append(Pop, [at |-> "else", entered |-> FALSE,
                                        end |-> branch.end])
           ELSE /\ Emit(<<Label(branch.no)>>)
                /\ todo' = Pop

FinishElse ==
  /\ AfterBlock("else")
  /\ Emit(<<Label(Last(todo).end)>>)
  /\ todo' = Pop

FinishBody ==
  /\ AfterBlock("body")
  /\ Emit(<<Jump(Last(todo).start), Label(Last(todo).exit)>>)
  /\ todo' = Pop

-----------------------------------------------------------------------------
Begin(ast) ==
  /\ status = "none"
  /\ program' = ast /\ next' = 1
  /\ operands' = << >> /\ code' = << >> /\ output' = << >>
  /\ context' = NewContext(GlobalNames(ast))
  /\ todo' = <<[at |-> "list"]>>
  /\ status' = "running"

BeginFails(ast) ==
  /\ "allocation" \in Failures
  /\ status = "none"
  /\ program' = ast /\ next' = 1
  /\ operands' = << >> /\ code' = << >> /\ output' = << >>
  /\ context' = NewContext({})
  /\ todo' = << >>
  /\ status' = "ALLOCATION_FAILURE"

End ==
  /\ status = "running"
  /\ todo = <<[at |-> "list"]>>
  /\ next \notin DOMAIN program
  /\ status' = "SUCCESS"
  /\ output' = <<code>>
  /\ todo' = << >>
  /\ UNCHANGED <<program, next, operands, context, code>>

\* What comes next allocates: the copy of a text, an instruction, a binding, a
\* scope, a symbol.  A function that finds something amiss before does not.
Allocates ==
  \/ \E n \in Names :
       \/ /\ (At("list") /\ Come(PrintOf(n))) \/ Come(Identifier(n))
          /\ Resolve(context, n) # NoText
       \/ /\ \/ At("list") /\ \E ty \in Types : Come(Declaration(n, ty, FALSE))
             \/ ExpressionDone("declaration") /\ Last(todo).name = n
          /\ LookupCurrent(context.symbols, n) = Null
  \/ \E ty \in Types : Come(Literal(ty))
  \/ /\ Come(Unary) \/ \E op \in BinaryOperators : Come(Binary(op))
     /\ context.next_temporary < SizeMax
  \/ OwnsNextBlock /\ Come(Block)
  \/ /\ (At("list") /\ Come(While)) \/ ExpressionDone("if")
     /\ HasLabels(context, 1)
  \/ ExpressionDone("assignment") \/ ExpressionDone("while")
  \/ (At("then") \/ At("else") \/ At("body")) /\ Last(todo).entered

\* A variant of AllocationFails that goes on without a print it has no memory for.
AllocationIgnored ==
  /\ "allocation" \in Failures
  /\ Allocates
  /\ At("list")
  /\ \E n \in Names : Visit(PrintOf(n))
  /\ UNCHANGED <<todo, operands, context, code>>

AllocationFails ==
  /\ "allocation" \in Failures
  /\ status = "running"
  /\ Allocates
  /\ Abort("ALLOCATION_FAILURE")

Generate ==
  \/ \E n \in Names : \/ \E ty \in Types : \/ \E i \in BOOLEAN : GenerateDeclaration(n, ty, i)
                                           \/ RefuseDeclaration(n, ty)
                      \/ GenerateAssignment(n) \/ GeneratePrint(n)
                      \/ GenerateIdentifier(n) \/ RefuseUse(n)
  \/ \E hasElse \in BOOLEAN : GenerateIf(hasElse)
  \/ GenerateWhile \/ RefuseWhile
  \/ EnterBlock \/ LeaveBlock
  \/ \E ty \in Types : GenerateLiteral(ty)
  \/ \E op \in BinaryOperators : GenerateBinary(op)
  \/ GenerateUnary \/ RefuseOperator

Finish ==
  \/ FinishDeclaration \/ RefuseInitialized \/ FinishAssignment
  \/ FinishIfCondition \/ RefuseIf \/ FinishWhileCondition
  \/ FinishThen \/ FinishElse \/ FinishBody

\* The caller is done with the program, if there is one: tac_program_destroy.
Destroy ==
  /\ status \notin {"none", "running"}
  /\ program' = << >> /\ next' = 1
  /\ todo' = << >> /\ operands' = << >>
  /\ context' = NewContext({})
  /\ code' = << >> /\ output' = << >>
  /\ status' = "none"

Step == Generate \/ Finish \/ End \/ AllocationFails

Next == (\E ast \in Programs : Begin(ast) \/ BeginFails(ast)) \/ Step \/ Destroy

Spec == Init /\ [][Next]_vars

-----------------------------------------------------------------------------
\* Every call ends, whatever the program: with a TAC program, or with a
\* failure at a name, an allocation or a number that is used up.
\* (The loop of make_temporary, and that each function returns.)
GenerationEnds == status = "running" ~> status # "running"

\* A program that was not analyzed is not generated either when a name in it
\* is not declared, not in scope or declared twice: the generator's own table
\* finds it out.  (resolve_storage_name, insert_declaration.)
SuccessIsWellScoped ==
  status = "SUCCESS" =>
    \A p \in DOMAIN program :
      /\ Uses(program[p]) => Denoted(program, program[p].name, p) # 0
      /\ Declares(program[p]) => ~Repeats(program, p)

\* In the program that is handed out, every label is at one place and every
\* jump goes to a label that is there.  (generate_if, generate_while.)
LabelsResolve ==
  output # << >> =>
    LET labels(S) == {code[i].label : i \in {j \in DOMAIN code : code[j].kind \in S}}
    IN  /\ \A i, j \in DOMAIN code :
             /\ code[i].kind = "LABEL" /\ code[j].kind = "LABEL"
             /\ code[i].label = code[j].label
             => i = j
        /\ labels({"JUMP", "JUMP_IF_FALSE"}) \subseteq labels({"LABEL"})

=============================================================================
