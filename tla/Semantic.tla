------------------------------ MODULE Semantic ------------------------------
(***************************************************************************)
(* Semantic analysis, semantic.c: one pass over a program with a symbol    *)
(* table.  The C call stack is todo (what the analysis is in the middle    *)
(* of) and operands (the ExpressionResults not used yet); context is the   *)
(* SemanticContext.  A step is a visit of a node of the tree, the return   *)
(* to the statement that an expression belongs to, or the start or the end *)
(* of semantic_analyze.                                                    *)
(*                                                                         *)
(* The program is not known beforehand: every visit is chosen as it comes, *)
(* and ast is the program so far.  An allocation of the symbol table can   *)
(* fail, and so can writing to the diagnostics stream.                     *)
(***************************************************************************)
EXTENDS Source, ScopeTable, SequencesExt

CONSTANTS Vocabularies,  \* sets of visits; a program is made of one of them
          Failures,      \* what can fail
          MaxVisits      \* bound: see Room

ASSUME TypesAssumption == Types = {"int", "float", "bool"}
ASSUME VocabulariesAssumption == \A V \in Vocabularies : V \subseteq Visits
ASSUME FailuresAssumption == Failures \subseteq {"allocation", "output"}
ASSUME MaxVisitsAssumption == MaxVisits \in Nat

VARIABLES ast, todo, operands, context, status

vars == <<ast, todo, operands, context, status>>

Codes == {"SEM_UNDECLARED", "SEM_SCOPE_VIOLATION", "SEM_REDECLARATION",
          "SEM_TYPE_MISMATCH", "SEM_INVALID_OPERATOR", "SEM_INVALID_ASSIGNMENT"}

\* An ExpressionResult; that of an error has type int.
Operand == [valid : BOOLEAN, type : Types]
OfType(ty) == [valid |-> TRUE, type |-> ty]
Error == [valid |-> FALSE, type |-> "int"]

\* What is left to do of a statement list; of a declaration, an assignment
\* or a condition whose expression is being analyzed; of an if or a while
\* whose blocks, as many as "left", are still to come.
Todo == [at : {"list"}]
  \cup [at : {"declaration"}, line : Nat, name : Names, type : Types,
        redeclared : BOOLEAN]
  \cup [at : {"assignment"}, line : Nat, target : Operand]
  \cup [at : {"condition"}, blocks : 1 .. 2]
  \cup [at : {"blocks"}, left : 1 .. 2]

\* A line of the diagnostics stream: its code, and the node it is about.
Diagnostic == [code : Codes, line : Nat]

Context == [symbols : Table, diagnostics : Seq(Diagnostic), error_count : Nat,
            internal_failure : BOOLEAN]

Statuses == {"none", "running", "SUCCESS", "ERRORS", "INTERNAL_ERROR"}

\* The type invariant.  A statement waits for as many blocks as it has left,
\* never for none (the AST_NODE_IF case of analyze_statement).
TypeOK ==
  /\ ast \in Seq(Visits)
  /\ todo \in Seq(Todo)
  /\ operands \in Seq(Operand)
  /\ context \in Context
  /\ status \in Statuses

NewContext == [symbols |-> NewTable, diagnostics |-> << >>, error_count |-> 0,
               internal_failure |-> FALSE]

Init ==
  /\ ast = << >>
  /\ todo = << >>
  /\ operands = << >>
  /\ context = NewContext
  /\ status = "none"

-----------------------------------------------------------------------------
(* What functions do to the context. *)

Written == IF "output" \in Failures THEN BOOLEAN ELSE {TRUE}
Allocated == IF "allocation" \in Failures THEN BOOLEAN ELSE {TRUE}

Fail(c) == [c EXCEPT !.internal_failure = TRUE]

\* A variant of Report that forgets a diagnostic that could not be written.
ReportLost(c, code, line, written) ==
  IF written
    THEN [c EXCEPT !.diagnostics = Append(@, [code |-> code, line |-> line]),
                   !.error_count = @ + 1]
    ELSE c

\* report_semantic_error: what was not written is not counted.
Report(c, code, line, written) ==
  IF written
    THEN [c EXCEPT !.diagnostics = Append(@, [code |-> code, line |-> line]),
                   !.error_count = @ + 1]
    ELSE Fail(c)

ReportIf(condition, c, code, line, written) ==
  IF condition THEN Report(c, code, line, written) ELSE c

\* resolve_identifier, in two parts: what it returns, what it reports.
Resolved(c, n) ==
  LET symbol == LookupActive(c.symbols, n)
  IN  IF symbol # Null THEN OfType(c.symbols.symbols[symbol].type) ELSE Error

\* A variant of ReportUnresolved that looks into the current scope only.
ReportUnresolvedLocally(c, n, line, written) ==
  ReportIf(LookupCurrent(c.symbols, n) = Null, c,
           IF LookupHistory(c.symbols, n) # Null THEN "SEM_SCOPE_VIOLATION"
                                                 ELSE "SEM_UNDECLARED",
           line, written)

ReportUnresolved(c, n, line, written) ==
  ReportIf(LookupActive(c.symbols, n) = Null, c,
           IF LookupHistory(c.symbols, n) # Null THEN "SEM_SCOPE_VIOLATION"
                                                 ELSE "SEM_UNDECLARED",
           line, written)

IsNumeric(ty) == ty \in {"int", "float"}

\* analyze_binary_expression: the operands it accepts and what it makes of them.
Accepts(op, l, r) ==
  \/ op \in Arithmetic \cup Relational /\ IsNumeric(l) /\ IsNumeric(r)
  \/ op = "%" /\ l = "int" /\ r = "int"
  \/ op \in Equality /\ IsNumeric(l) /\ IsNumeric(r)
  \/ op \in Equality /\ l = "bool" /\ r = "bool"
  \/ op \in Logical /\ l = "bool" /\ r = "bool"

TypeOfBinary(op, l, r) ==
  CASE op \in Arithmetic -> IF "float" \in {l, r} THEN "float" ELSE "int"
    [] op = "%" -> "int"
    [] OTHER -> "bool"

CodeOfBinary(op) ==
  IF op \in Equality THEN "SEM_TYPE_MISMATCH" ELSE "SEM_INVALID_OPERATOR"

\* insert_declaration
InsertDeclaration(c, d, allocated) ==
  IF allocated
    THEN [c EXCEPT !.symbols = Insert(@, d.name, d.type, d.line)]
    ELSE Fail(c)

\* A variant of Declare that inserts after an internal failure as well.
DeclareAnyway(c, d, mismatch, written, allocated) ==
  LET after == ReportIf(~d.redeclared /\ mismatch, c, "SEM_TYPE_MISMATCH",
                        d.line, written)
  IN  IF ~d.redeclared THEN InsertDeclaration(after, d, allocated) ELSE after

\* The end of analyze_declaration, d, with the result of its initializer.
Declare(c, d, mismatch, written, allocated) ==
  LET after == ReportIf(~d.redeclared /\ mismatch, c, "SEM_TYPE_MISMATCH",
                        d.line, written)
  IN  IF ~d.redeclared /\ ~after.internal_failure
        THEN InsertDeclaration(after, d, allocated)
        ELSE after

-----------------------------------------------------------------------------
(* Where the analysis is. *)

At(where) == todo # << >> /\ Last(todo).at = where

Pop == Front(todo)
Push(item) == Append(todo, item)

\* What precedes an expression in the tree has been dealt with.
ExpressionExpected == At("declaration") \/ At("assignment") \/ At("condition")

\* The whole expression of a statement may have been analyzed.
ExpressionDone == Len(operands) = 1

\* The bound on programs.  What is needed to complete one is always allowed.
Room == Len(ast) < MaxVisits

Here == Len(ast) + 1

\* The bound on what programs are made of.
CanCome(v) == \E V \in Vocabularies : Range(ast) \cup {v} \subseteq V

Visit(v) ==
  /\ CanCome(v)
  /\ status = "running"
  /\ ast' = Append(ast, v)
  /\ UNCHANGED status

\* The loop of analyze_statement_list comes to a statement.
VisitStatement(v) ==
  /\ Visit(v)
  /\ At("list")
  /\ ~context.internal_failure
  /\ Room
  /\ UNCHANGED operands

VisitDeclaration(n, ty, initialized) ==
  /\ VisitStatement(Declaration(n, ty, initialized))
  /\ \E written \in Written, allocated \in Allocated :
       LET redeclared == LookupCurrent(context.symbols, n) # Null
           c == ReportIf(redeclared, context, "SEM_REDECLARATION", Here, written)
           d == [at |-> "declaration", line |-> Here, name |-> n, type |-> ty,
                 redeclared |-> redeclared]
       IN  IF initialized
             THEN context' = c /\ todo' = Push(d)
             ELSE /\ context' = Declare(c, d, FALSE, written, allocated)
                  /\ UNCHANGED todo

\* The target is resolved before the value is looked at.
VisitAssignment(n) ==
  /\ VisitStatement(Assignment(n))
  /\ \E written \in Written :
       context' = ReportUnresolved(context, n, Here, written)
  /\ todo' = Push([at |-> "assignment", line |-> Here,
                   target |-> Resolved(context, n)])

VisitPrint(n) ==
  /\ VisitStatement(PrintOf(n))
  /\ \E written \in Written :
       context' = ReportUnresolved(context, n, Here, written)
  /\ UNCHANGED todo

VisitIf(hasElse) ==
  /\ VisitStatement(If(hasElse))
  /\ todo' = Push([at |-> "condition", blocks |-> IF hasElse THEN 2 ELSE 1])
  /\ UNCHANGED context

VisitWhile ==
  /\ VisitStatement(While)
  /\ todo' = Push([at |-> "condition", blocks |-> 1])
  /\ UNCHANGED context

\* analyze_block: without a scope the block is not analyzed, and nothing of
\* it is a visit.
EnterBlock(rest) ==
  \E allocated \in Allocated :
    IF allocated
      THEN /\ context' = [context EXCEPT !.symbols = EnterScope(@)]
           /\ todo' = Append(rest, [at |-> "list"])
           /\ ast' = Append(ast, Block)
      ELSE /\ context' = Fail(context)
           /\ todo' = rest
           /\ UNCHANGED ast

VisitBlockStatement ==
  /\ CanCome(Block) /\ status = "running"
  /\ At("list") /\ ~context.internal_failure /\ Room
  /\ EnterBlock(todo)
  /\ UNCHANGED <<operands, status>>

\* A variant of VisitOwnBlock that counts the blocks one too far.
VisitOwnBlockAgain ==
  /\ status = "running"
  /\ At("blocks")
  /\ EnterBlock(Append(Pop, [at |-> "blocks", left |-> Last(todo).left - 1]))
  /\ UNCHANGED <<operands, status>>

\* The blocks of an if or of a while are analyzed whatever its condition was.
VisitOwnBlock ==
  /\ status = "running"
  /\ At("blocks")
  /\ LET left == Last(todo).left
     IN  EnterBlock(IF left = 1 THEN Pop
                    ELSE Append(Pop, [at |-> "blocks", left |-> left - 1]))
  /\ UNCHANGED <<operands, status>>

\* A variant of LeaveBlock that does not exit the scope.
LeaveBlockOnly ==
  /\ Visit(EndBlock)
  /\ At("list") /\ Len(todo) > 1
  /\ todo' = Pop
  /\ UNCHANGED <<operands, context>>

\* The loop of the list ends, early after an internal failure.
LeaveBlock ==
  /\ Visit(EndBlock)
  /\ At("list") /\ Len(todo) > 1
  /\ todo' = Pop
  /\ context' = IF AtGlobal(context.symbols)
                  THEN Fail(context)
                  ELSE [context EXCEPT !.symbols = ExitScope(@)]
  /\ UNCHANGED operands

-----------------------------------------------------------------------------
VisitExpression(v) ==
  /\ Visit(v)
  /\ ExpressionExpected
  /\ UNCHANGED todo

VisitIdentifier(n) ==
  /\ VisitExpression(Identifier(n))
  /\ operands = << >> \/ Room
  /\ \E written \in Written :
       context' = ReportUnresolved(context, n, Here, written)
  /\ operands' = Append(operands, Resolved(context, n))

VisitLiteral(ty) ==
  /\ VisitExpression(Literal(ty))
  /\ operands = << >> \/ Room
  /\ operands' = Append(operands, OfType(ty))
  /\ UNCHANGED context

VisitUnary ==
  /\ VisitExpression(Unary)
  /\ operands # << >> /\ Room
  /\ LET operand == Last(operands)
         usable == operand.valid /\ ~context.internal_failure
     IN  \E written \in Written :
           /\ context' = ReportIf(usable /\ operand.type # "bool", context,
                                  "SEM_INVALID_OPERATOR", Here, written)
           /\ operands' = Append(Front(operands),
                                 IF usable /\ operand.type = "bool"
                                   THEN OfType("bool") ELSE Error)

VisitBinary(op) ==
  /\ VisitExpression(Binary(op))
  /\ Len(operands) >= 2
  /\ LET right == Last(operands)
         left == Last(Front(operands))
         usable == left.valid /\ right.valid /\ ~context.internal_failure
         accepted == Accepts(op, left.type, right.type)
     IN  \E written \in Written :
           /\ context' = ReportIf(usable /\ ~accepted, context,
                                  CodeOfBinary(op), Here, written)
           /\ operands' = Append(Front(Front(operands)),
                                 IF usable /\ accepted
                                   THEN OfType(TypeOfBinary(op, left.type, right.type))
                                   ELSE Error)

-----------------------------------------------------------------------------
(* Back in the statement, with the result of its expression. *)

ReturnTo(where) ==
  /\ status = "running"
  /\ At(where)
  /\ ExpressionDone
  /\ operands' = << >>
  /\ UNCHANGED <<ast, status>>

\* A variant of FinishDeclaration that takes an error for an int.
FinishDeclarationTrusting ==
  /\ ReturnTo("declaration")
  /\ \E written \in Written, allocated \in Allocated :
       context' = Declare(context, Last(todo), operands[1].type # Last(todo).type,
                          written, allocated)
  /\ todo' = Pop

FinishDeclaration ==
  /\ ReturnTo("declaration")
  /\ LET d == Last(todo)
         value == operands[1]
     IN  \E written \in Written, allocated \in Allocated :
           context' = Declare(context, d, value.valid /\ value.type # d.type,
                              written, allocated)
  /\ todo' = Pop

FinishAssignment ==
  /\ ReturnTo("assignment")
  /\ LET target == Last(todo).target
         value == operands[1]
     IN  \E written \in Written :
           context' = ReportIf(target.valid /\ value.valid
                                 /\ target.type # value.type,
                               context, "SEM_INVALID_ASSIGNMENT",
                               Last(todo).line, written)
  /\ todo' = Pop

\* The condition of an if or of a while; the report is at the condition.
FinishCondition ==
  /\ ReturnTo("condition")
  /\ LET value == operands[1]
     IN  \E written \in Written :
           context' = ReportIf(value.valid /\ value.type # "bool", context,
                               "SEM_TYPE_MISMATCH", Len(ast), written)
  /\ todo' = Append(Pop, [at |-> "blocks", left |-> Last(todo).blocks])

-----------------------------------------------------------------------------
\* semantic_analyze begins, on some program; the last one is forgotten.
Begin ==
  /\ status # "running"
  /\ ast' = << >>
  /\ operands' = << >>
  /\ context' = NewContext
  /\ \E allocated \in Allocated :
       IF allocated
         THEN status' = "running" /\ todo' = <<[at |-> "list"]>>
         ELSE status' = "INTERNAL_ERROR" /\ todo' = << >>

\* A program that was parsed has a statement.  The diagnostics stream may be in
\* error without a report of this analysis having failed.
End ==
  /\ status = "running"
  /\ todo = <<[at |-> "list"]>>
  /\ ast # << >> \/ context.internal_failure
  /\ \E sound \in Written :
       status' = IF context.internal_failure \/ ~sound THEN "INTERNAL_ERROR"
                 ELSE IF context.error_count # 0 THEN "ERRORS"
                 ELSE "SUCCESS"
  /\ todo' = << >>
  /\ UNCHANGED <<ast, operands, context>>

VisitNode ==
  \/ \E n \in Names : \/ \E ty \in Types, i \in BOOLEAN : VisitDeclaration(n, ty, i)
                      \/ VisitAssignment(n) \/ VisitPrint(n) \/ VisitIdentifier(n)
  \/ \E hasElse \in BOOLEAN : VisitIf(hasElse)
  \/ VisitWhile \/ VisitBlockStatement \/ VisitOwnBlock \/ LeaveBlock
  \/ \E ty \in Types : VisitLiteral(ty)
  \/ \E op \in BinaryOperators : VisitBinary(op)
  \/ VisitUnary

Finish == FinishDeclaration \/ FinishAssignment \/ FinishCondition

Next == Begin \/ VisitNode \/ Finish \/ End

Spec == Init /\ [][Next]_vars

-----------------------------------------------------------------------------
Analyzed == status \in {"SUCCESS", "ERRORS"}

Reported(code) ==
  {context.diagnostics[i].line : i \in {j \in DOMAIN context.diagnostics :
                                          context.diagnostics[j].code = code}}

\* The analysis reports a name as undeclared, as used outside its scope, or as
\* declared again exactly where the text says so, and once: whatever was
\* reported before, an initializer does not see its own declaration, a name
\* with a bad initializer or a second declaration stays declared, and a block
\* that was left is told from a name that never was.
\* (resolve_identifier, analyze_declaration.)
ScopingAsRead ==
  Analyzed =>
    LET uses == {p \in DOMAIN ast : Uses(ast[p])}
        declared(p) == DeclarationsOf(ast, ast[p].name, p) # {}
        inScope(p) == InScope(ast, ast[p].name, p) # {}
    IN  /\ \A i, j \in DOMAIN context.diagnostics :
             context.diagnostics[i] = context.diagnostics[j] => i = j
        /\ Reported("SEM_UNDECLARED") = {p \in uses : ~declared(p)}
        /\ Reported("SEM_SCOPE_VIOLATION") =
             {p \in uses : declared(p) /\ ~inScope(p)}
        /\ Reported("SEM_REDECLARATION") =
             {p \in DOMAIN ast : Declares(ast[p]) /\ Repeats(ast, p)}

TypeCodes == {"SEM_TYPE_MISMATCH", "SEM_INVALID_OPERATOR", "SEM_INVALID_ASSIGNMENT"}

\* One mistake is reported once: a report that a type is wrong is never about
\* a node in which something was already reported.  (The valid flag of
\* ExpressionResult, through operators, declarations, assignments, conditions.)
NoCascade ==
  \A i, j \in DOMAIN context.diagnostics :
    i < j /\ context.diagnostics[j].code \in TypeCodes
      => context.diagnostics[i].line \notin Within(ast, context.diagnostics[j].line)

\* The scope of the table and the block of the program go together, whatever
\* fails: the current scope is that of the innermost open block, every symbol
\* is owned by the scope of the block that declares it, and the IDs number
\* the blocks in the order of the text.  (analyze_block; tac.c counts the
\* same blocks again and must come to the same IDs.)
ScopesFollowBlocks ==
  LET frameOf(b) == Ordinal(ast, b) + 1
      symbols == context.symbols
  IN  /\ symbols.current = frameOf(BlockAt(ast, Here))
      /\ \A i \in DOMAIN symbols.symbols :
           LET symbol == symbols.symbols[i]
           IN  /\ symbol.owner = frameOf(BlockAt(ast, symbol.line))
               /\ symbol.scope_id = Ordinal(ast, BlockAt(ast, symbol.line))

\* A program is accepted only if every name in it is declared, in scope and
\* declared once, also when reports cannot be written or memory runs out.
\* (A lost diagnostic must not turn into SUCCESS: report_semantic_error.)
AcceptedIsWellScoped ==
  status = "SUCCESS" =>
    \A p \in DOMAIN ast :
      /\ Uses(ast[p]) => Denoted(ast, ast[p].name, p) # 0
      /\ Declares(ast[p]) => ~Repeats(ast, p)

\* After an internal failure nothing is declared and no statement is begun:
\* what is left is to return.  (The loop at semantic.c:405, the condition at
\* :374.)
FailureStops ==
  [][status = "running" /\ context.internal_failure =>
       /\ context'.symbols.symbols = context.symbols.symbols
       /\ context'.internal_failure
       /\ ast' # ast => IsExpression(Last(ast')) \/ Last(ast').kind \in {"block", "end"}]_vars
=============================================================================
