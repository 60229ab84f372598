--------------------------- MODULE SemanticProofs ---------------------------
(***************************************************************************)
(* The semantic analysis for any vocabularies, any bounds and whatever     *)
(* fails.  The inductive invariant has three parts: the types, what is     *)
(* left to do, and how the frames, the symbols and the reports correspond  *)
(* to the blocks, the declarations and the uses in the text so far.  The   *)
(* last two sections add where the operands that wait are in that text,    *)
(* and that what is accepted consists of whole expressions.                *)
(***************************************************************************)
EXTENDS Semantic, SourceProofs

\* Only what comes last can wait for an expression.
CallStack(items, depth) == Calls(items, depth, {"list", "blocks"})

\* While it runs, the analysis is in the list of the program, and in one list
\* more for each scope that is open.
Underway ==
  /\ status # "running" => todo = << >>
  /\ status = "running" => CallStack(todo, CurrentFrame(context.symbols).depth)
  /\ operands # << >> => ExpressionExpected

\* A declaration that waits for its initializer is in the text, in the block
\* that is still the innermost one, and repeats a name of the block if it did
\* when it came.
Waiting ==
  At("declaration") =>
    LET d == Last(todo)
    IN  /\ d.line \in DOMAIN ast
        /\ BlockAt(ast, d.line) = BlockAt(ast, Here)
        /\ d.redeclared <=> LookupCurrent(context.symbols, d.name) # Null

Placed == PlacedIn(ast, context.symbols)

Structured == TypeOK /\ Underway /\ Waiting /\ Placed

-----------------------------------------------------------------------------
(* Symbols and declarations. *)

\* The declaration at d waits for its initializer.
PendingIn(items, d) ==
  items # << >> /\ Last(items).at = "declaration" /\ Last(items).line = d

DeclaredIn(text, items, d) ==
  d \in DOMAIN text /\ Declares(text[d]) /\ ~PendingIn(items, d)

Declared(d) == DeclaredIn(ast, todo, d)

\* What follows a declaration in the text tells whether it still waits: only
\* expressions, or a statement that is waiting for its own.
Separated ==
  /\ At("declaration") =>
       LET d == Last(todo)
       IN  /\ d.line \in DOMAIN ast
           /\ ast[d.line] = Declaration(d.name, d.type, TRUE)
           /\ \A q \in d.line + 1 .. Len(ast) : IsExpression(ast[q])
  /\ ExpressionExpected =>
       /\ ast # << >>
       /\ \A d \in DOMAIN ast :
            Declared(d) => \E q \in d + 1 .. Len(ast) : ~IsExpression(ast[q])

\* The symbols are the declarations that are over, but for repeated ones.
Bound ==
  /\ \A i \in DOMAIN context.symbols.symbols :
       LET symbol == context.symbols.symbols[i]
       IN  Declared(symbol.line) /\ ast[symbol.line].name = symbol.name
  /\ ~context.internal_failure =>
       \A d \in DOMAIN ast :
         Declared(d) =>
           \E i \in DOMAIN context.symbols.symbols :
             /\ context.symbols.symbols[i].name = ast[d].name
             /\ context.symbols.symbols[i].owner =
                  Ordinal(ast, BlockAt(ast, d)) + 1

-----------------------------------------------------------------------------
(* Reports. *)

ReportedIn(diagnostics, code, p) ==
  \E i \in DOMAIN diagnostics : diagnostics[i] = [code |-> code, line |-> p]

ReportedAt(code, p) == ReportedIn(context.diagnostics, code, p)

\* What was reported about the name at p is what the text says.
NameReported(text, diagnostics, p) ==
  LET declared == DeclarationsOf(text, text[p].name, p) # {}
      inScope == InScope(text, text[p].name, p) # {}
  IN  /\ ReportedIn(diagnostics, "SEM_UNDECLARED", p) <=>
           Uses(text[p]) /\ ~declared
      /\ ReportedIn(diagnostics, "SEM_SCOPE_VIOLATION", p) <=>
           Uses(text[p]) /\ declared /\ ~inScope
      /\ ReportedIn(diagnostics, "SEM_REDECLARATION", p) <=>
           Declares(text[p]) /\ Repeats(text, p)

NamesReported ==
  ~context.internal_failure =>
    \A p \in DOMAIN ast : NameReported(ast, context.diagnostics, p)

\* No report comes twice, and every report is about a node of the program.
ReportedOnce ==
  /\ \A i \in DOMAIN context.diagnostics :
       context.diagnostics[i].line \in DOMAIN ast
  /\ \A i, j \in DOMAIN context.diagnostics :
       context.diagnostics[i] = context.diagnostics[j] => i = j

\* What can be reported at the end of a statement was not reported yet.
Unreported ==
  /\ At("declaration") => ~ReportedAt("SEM_TYPE_MISMATCH", Last(todo).line)
  /\ At("assignment") => /\ Last(todo).line \in DOMAIN ast
                         /\ ~ReportedAt("SEM_INVALID_ASSIGNMENT", Last(todo).line)
  /\ operands # << >> /\ Last(operands).valid =>
       \A i \in DOMAIN context.diagnostics :
         context.diagnostics[i].line # Len(ast)

\* What is not written is not counted, and SUCCESS means that nothing failed
\* and nothing was reported.
ErrorsCounted ==
  /\ context.error_count = Len(context.diagnostics)
  /\ Analyzed => ~context.internal_failure
  /\ status = "SUCCESS" => context.error_count = 0

\* The invariant: the structure of the analysis, and what it has said so far.
Said == /\ Separated /\ Bound
        /\ NamesReported /\ ReportedOnce /\ Unreported /\ ErrorsCounted

IInv == Structured /\ Said

-----------------------------------------------------------------------------
(* What the parts of a step do. *)

\* A place in the analysis has the fields that its kind has.
LEMMA TodoFields ==
  ASSUME NEW item \in Todo
  PROVE  /\ item.at = "declaration" =>
              /\ item.line \in Nat /\ item.name \in Names
              /\ item.type \in Types /\ item.redeclared \in BOOLEAN
         /\ item.at = "assignment" => item.line \in Nat /\ item.target \in Operand
         /\ item.at = "condition" => item.blocks \in 1 .. 2
         /\ item.at = "blocks" => item.left \in 1 .. 2
  BY DEF Todo

\* What can be pushed.
LEMMA TodoItems ==
  /\ [at |-> "list"] \in Todo
  /\ \A left \in 1 .. 2 : [at |-> "blocks", left |-> left] \in Todo
  /\ \A blocks \in 1 .. 2 : [at |-> "condition", blocks |-> blocks] \in Todo
  /\ \A line \in Nat, target \in Operand :
       [at |-> "assignment", line |-> line, target |-> target] \in Todo
  /\ \A line \in Nat, n \in Names, ty \in Types, redeclared \in BOOLEAN :
       [at |-> "declaration", line |-> line, name |-> n, type |-> ty,
        redeclared |-> redeclared] \in Todo
  BY DEF Todo

\* A call, from a list or between the blocks of a statement, and a return.
LEMMA CallStackPush ==
  ASSUME NEW items \in Seq(Todo), NEW depth \in Nat, CallStack(items, depth),
         Last(items).at \in {"list", "blocks"}, NEW item \in Todo
  PROVE  /\ Append(items, item) \in Seq(Todo)
         /\ CallStack(Append(items, item),
                      IF item.at = "list" THEN depth + 1 ELSE depth)
  BY CallsPush DEF CallStack

LEMMA CallStackPop ==
  ASSUME NEW items \in Seq(Todo), NEW depth \in Nat, CallStack(items, depth),
         Last(items).at # "list" \/ Len(items) > 1
  PROVE  /\ Front(items) \in Seq(Todo)
         /\ Last(Front(items)).at \in {"list", "blocks"}
         /\ IF Last(items).at = "list"
              THEN depth > 0 /\ CallStack(Front(items), depth - 1)
              ELSE CallStack(Front(items), depth)
  BY CallsPop DEF CallStack

\* A report is written, or the failure to write it is noted.
LEMMA ReportEffect ==
  ASSUME NEW c \in Context, NEW code \in Codes, NEW line \in Nat,
         NEW written \in BOOLEAN
  PROVE  LET r == Report(c, code, line, written)
         IN  /\ r \in Context /\ r.symbols = c.symbols
             /\ \/ /\ r.diagnostics =
                        Append(c.diagnostics, [code |-> code, line |-> line])
                   /\ r.error_count = c.error_count + 1
                   /\ r.internal_failure = c.internal_failure
                \/ /\ r.diagnostics = c.diagnostics
                   /\ r.error_count = c.error_count
                   /\ r.internal_failure
  <1> DEFINE report == [code |-> code, line |-> line]
             longer == Append(c.diagnostics, report)
             more == c.error_count + 1
  <1>1. /\ c.diagnostics \in Seq(Diagnostic) /\ c.error_count \in Nat
        /\ c.symbols \in Table /\ c.internal_failure \in BOOLEAN
        /\ report \in Diagnostic
    BY DEF Context, Diagnostic
  <1>2. longer \in Seq(Diagnostic) /\ more \in Nat
    BY <1>1
  <1>3. CASE written = TRUE
    <2>1. Report(c, code, line, written) =
            [c EXCEPT !.diagnostics = longer, !.error_count = more]
      BY <1>3 DEF Report
    <2> HIDE DEF longer, more
    <2>2. [c EXCEPT !.diagnostics = longer, !.error_count = more] \in Context
      BY <1>2 DEF Context
    <2>3. LET r == [c EXCEPT !.diagnostics = longer, !.error_count = more]
          IN  /\ r.symbols = c.symbols /\ r.diagnostics = longer
              /\ r.error_count = more
              /\ r.internal_failure = c.internal_failure
      BY DEF Context
    <2> QED BY <2>1, <2>2, <2>3 DEF longer, more
  <1>4. CASE written = FALSE
    BY <1>4 DEF Report, Fail, Context
  <1> QED BY <1>3, <1>4

\* A declaration that is new is inserted, unless something failed.
LEMMA InsertEffect ==
  ASSUME NEW c \in Context, WellFormed(c.symbols), NEW allocated \in BOOLEAN,
         NEW d, d.line \in Nat, d.name \in Names, d.type \in Types,
         LookupCurrent(c.symbols, d.name) = Null
  PROVE  LET r == InsertDeclaration(c, d, allocated)
         IN  /\ r \in Context /\ r.diagnostics = c.diagnostics
             /\ r.error_count = c.error_count
             /\ \/ /\ r.symbols = c.symbols /\ r.internal_failure
                \/ /\ r.symbols = Insert(c.symbols, d.name, d.type, d.line)
                   /\ r.internal_failure = c.internal_failure
  <1> DEFINE inserted == Insert(c.symbols, d.name, d.type, d.line)
  <1>1. inserted \in Table
    BY InsertKeepsWellFormed DEF WellFormed
  <1>2. CASE allocated = TRUE
    <2>1. InsertDeclaration(c, d, allocated) = [c EXCEPT !.symbols = inserted]
      BY <1>2 DEF InsertDeclaration
    <2> HIDE DEF inserted
    <2>2. LET r == [c EXCEPT !.symbols = inserted]
          IN  /\ r \in Context /\ r.symbols = inserted
              /\ r.internal_failure = c.internal_failure
              /\ r.diagnostics = c.diagnostics /\ r.error_count = c.error_count
      BY <1>1 DEF Context
    <2> QED BY <2>1, <2>2 DEF inserted
  <1>3. CASE allocated = FALSE
    BY <1>3 DEF InsertDeclaration, Fail, Context
  <1> QED BY <1>2, <1>3

\* The end of a declaration, after its type was reported as wrong or not.
DeclareAfter(after, d, allocated) ==
  IF ~d.redeclared /\ ~after.internal_failure
    THEN InsertDeclaration(after, d, allocated)
    ELSE after

\* A declaration whose initializer was analyzed.
CanDeclare(c, d) ==
  /\ c \in Context /\ WellFormed(c.symbols)
  /\ d.line \in Nat /\ d.name \in Names /\ d.type \in Types
  /\ d.redeclared \in BOOLEAN
  /\ ~d.redeclared => LookupCurrent(c.symbols, d.name) = Null

\* The name is bound if it is new, unless something failed; at most the type
\* was reported as wrong.
IsDeclared(c, d, r) ==
  /\ r \in Context
  /\ c.internal_failure => r.internal_failure
  /\ \/ r.symbols = c.symbols
     \/ /\ r.symbols = Insert(c.symbols, d.name, d.type, d.line)
        /\ ~d.redeclared /\ ~c.internal_failure
  /\ ~r.internal_failure /\ ~d.redeclared =>
       r.symbols = Insert(c.symbols, d.name, d.type, d.line)
  /\ \/ /\ r.diagnostics = c.diagnostics
        /\ r.error_count = c.error_count
     \/ /\ r.diagnostics =
             Append(c.diagnostics, [code |-> "SEM_TYPE_MISMATCH",
                                    line |-> d.line])
        /\ r.error_count = c.error_count + 1

\* That is what the end of a declaration does.
LEMMA DeclareEffect ==
  ASSUME NEW c, NEW d, CanDeclare(c, d),
         NEW written \in BOOLEAN, NEW allocated \in BOOLEAN, NEW after,
         after = c \/ after = Report(c, "SEM_TYPE_MISMATCH", d.line, written)
  PROVE  IsDeclared(c, d, DeclareAfter(after, d, allocated))
  <1> USE DEF CanDeclare
  <1> DEFINE report == Report(c, "SEM_TYPE_MISMATCH", d.line, written)
             r == DeclareAfter(after, d, allocated)
  <1>1. "SEM_TYPE_MISMATCH" \in Codes /\ c.internal_failure \in BOOLEAN
    BY DEF Codes, Context
  <1>2. /\ report \in Context /\ report.symbols = c.symbols
        /\ \/ /\ report.diagnostics =
                   Append(c.diagnostics, [code |-> "SEM_TYPE_MISMATCH",
                                          line |-> d.line])
              /\ report.error_count = c.error_count + 1
              /\ report.internal_failure = c.internal_failure
           \/ /\ report.diagnostics = c.diagnostics
              /\ report.error_count = c.error_count
              /\ report.internal_failure
    BY <1>1, ReportEffect
  <1>3. after = c \/ after = report
    OBVIOUS
  <1> HIDE DEF report
  <1>4. /\ after \in Context /\ after.symbols = c.symbols
        /\ c.internal_failure => after.internal_failure
        /\ \/ /\ after.diagnostics = c.diagnostics
              /\ after.error_count = c.error_count
           \/ /\ after.diagnostics =
                   Append(c.diagnostics, [code |-> "SEM_TYPE_MISMATCH",
                                          line |-> d.line])
              /\ after.error_count = c.error_count + 1
    BY <1>2, <1>3
  <1>5. CASE d.redeclared \/ after.internal_failure
    BY <1>4, <1>5 DEF DeclareAfter, IsDeclared
  <1>6. CASE ~d.redeclared /\ ~after.internal_failure
    <2>1. r = InsertDeclaration(after, d, allocated)
      BY <1>6 DEF DeclareAfter
    <2>2. /\ r \in Context /\ r.diagnostics = after.diagnostics
          /\ r.error_count = after.error_count
          /\ \/ /\ r.symbols = after.symbols /\ r.internal_failure
             \/ /\ r.symbols = Insert(after.symbols, d.name, d.type, d.line)
                /\ r.internal_failure = after.internal_failure
      BY <1>4, <1>6, <2>1, InsertEffect
    <2> QED BY <1>1, <1>4, <1>6, <2>2 DEF IsDeclared
  <1> QED BY <1>5, <1>6

-----------------------------------------------------------------------------
(* Steps. *)

\* A step that reports at most, and leaves the table alone.
Reporting ==
  \/ context' = context
  \/ \E code \in Codes, line \in Nat, written \in BOOLEAN :
       context' = Report(context, code, line, written)

\* What fails has failed for good.
LEMMA ReportingEffect ==
  ASSUME TypeOK, Reporting
  PROVE  /\ context' \in Context /\ context'.symbols = context.symbols
         /\ context.internal_failure => context'.internal_failure
  <1>1. context \in Context /\ context.internal_failure \in BOOLEAN
    BY DEF TypeOK, Context
  <1>2. CASE context' = context
    BY <1>1, <1>2
  <1>3. CASE \E code \in Codes, line \in Nat, written \in BOOLEAN :
               context' = Report(context, code, line, written)
    <2>1. PICK code \in Codes, line \in Nat, written \in BOOLEAN :
                 context' = Report(context, code, line, written)
      BY <1>3
    <2> DEFINE r == Report(context, code, line, written)
    <2>2. /\ r \in Context /\ r.symbols = context.symbols
          /\ context.internal_failure => r.internal_failure
      BY <1>1, ReportEffect
    <2> QED BY <2>1, <2>2
  <1> QED BY <1>2, <1>3 DEF Reporting

\* A visit of an expression.
LEMMA ExpressionKeeps ==
  ASSUME Structured, NEW v \in Expressions, VisitExpression(v), Reporting,
         operands' \in Seq(Operand)
  PROVE  Structured'
  <1>1. /\ ast \in Seq(Visits) /\ v \in Visits /\ v.kind \notin {"block", "end"}
        /\ ast' = Append(ast, v) /\ status' = status /\ todo' = todo
        /\ ExpressionExpected /\ context \in Context
        /\ status = "running"
    BY DEF Structured, TypeOK, VisitExpression, Visit, Visits, Expressions,
           Identifier, Literal, Binary, Unary
  <1>2. context' \in Context /\ context'.symbols = context.symbols
    BY ReportingEffect DEF Structured
  <1>3. TypeOK'
    BY <1>1, <1>2 DEF Structured, TypeOK
  <1>4. Underway'
    BY <1>1, <1>2 DEF Structured, Underway, ExpressionExpected, At
  <1>5. Placed'
    BY <1>1, <1>2, TextKeepsPlaces DEF Structured, Placed
  <1>6. Waiting'
    <2> SUFFICES ASSUME At("declaration") PROVE Waiting'
      BY <1>1 DEF Waiting, At
    <2> DEFINE d == Last(todo)
    <2>1. /\ d.line \in DOMAIN ast /\ BlockAt(ast, d.line) = BlockAt(ast, Here)
          /\ d.redeclared <=> LookupCurrent(context.symbols, d.name) # Null
      BY DEF Structured, Waiting
    <2>2. /\ d.line \in 1 .. Len(ast) + 1 /\ d.line \in DOMAIN ast'
          /\ Here' = Len(ast) + 2 /\ Here = Len(ast) + 1
      BY <1>1, <2>1 DEF Here
    <2>3. BlockAt(ast', d.line) = BlockAt(ast, d.line)
      BY <1>1, <2>2, BlockAtAppend
    <2>4. BlockAt(ast', Here') = BlockAt(ast, Here)
      BY <1>1, <2>2, InnermostStays
    <2> QED BY <1>1, <1>2, <2>1, <2>2, <2>3, <2>4 DEF Waiting, At
  <1> QED BY <1>3, <1>4, <1>5, <1>6 DEF Structured

\* The result of a name.
LEMMA ResolvedType ==
  ASSUME TypeOK, WellFormed(context.symbols), NEW n \in Names
  PROVE  Resolved(context, n) \in Operand
  <1>1. Error \in Operand /\ \A ty \in Types : OfType(ty) \in Operand
    BY TypesAssumption DEF Operand, Error, OfType
  <1>2. LookupActive(context.symbols, n) # Null =>
          context.symbols.symbols[LookupActive(context.symbols, n)].type \in Types
    <2> DEFINE i == LookupActive(context.symbols, n)
    <2>1. i # Null => i \in DOMAIN context.symbols.symbols
      BY FindAnswer DEF LookupActive
    <2>2. context.symbols.symbols \in Seq(Symbol)
      BY DEF WellFormed, Table
    <2> HIDE DEF i
    <2>3. i # Null => context.symbols.symbols[i] \in Symbol
      BY <2>1, <2>2
    <2> QED BY <2>3 DEF Symbol, i
  <1> QED BY <1>1, <1>2 DEF Resolved

\* Written and Allocated are BOOLEAN or a part of it.
LEMMA Outcomes == Written \subseteq BOOLEAN /\ Allocated \subseteq BOOLEAN
  BY DEF Written, Allocated

\* A report of an unresolved name is a report.
LEMMA UnresolvedReports ==
  ASSUME TypeOK, NEW n, NEW written \in BOOLEAN,
         context' = ReportUnresolved(context, n, Here, written)
  PROVE  Reporting
  <1>1. Here \in Nat
    BY DEF TypeOK, Here
  <1>2. {"SEM_SCOPE_VIOLATION", "SEM_UNDECLARED"} \subseteq Codes
    BY DEF Codes
  <1> QED BY <1>1, <1>2 DEF ReportUnresolved, ReportIf, Reporting

\* The visits of expressions.
LEMMA ExpressionSteps ==
  ASSUME Structured,
         \/ \E n \in Names : VisitIdentifier(n)
         \/ \E ty \in Types : VisitLiteral(ty)
         \/ \E op \in BinaryOperators : VisitBinary(op)
         \/ VisitUnary
  PROVE  Structured' /\ Reporting
  <1>1. /\ TypeOK /\ WellFormed(context.symbols) /\ Here \in Nat
        /\ operands \in Seq(Operand) /\ context \in Context
    BY DEF Structured, TypeOK, Placed, PlacedIn, Here
  <1>2. Error \in Operand /\ \A ty \in Types : OfType(ty) \in Operand
    BY TypesAssumption DEF Operand, Error, OfType
  <1>3. ASSUME NEW n \in Names, VisitIdentifier(n)
        PROVE  Structured' /\ Reporting
    <2>1. Identifier(n) \in Expressions /\ VisitExpression(Identifier(n))
      BY <1>3 DEF VisitIdentifier, Expressions
    <2>2. Reporting
      BY <1>1, <1>3, Outcomes, UnresolvedReports DEF VisitIdentifier
    <2>3. operands' \in Seq(Operand)
      BY <1>1, <1>3, ResolvedType DEF VisitIdentifier
    <2> QED BY <2>1, <2>2, <2>3, ExpressionKeeps
  <1>4. ASSUME NEW ty \in Types, VisitLiteral(ty)
        PROVE  Structured' /\ Reporting
    <2>1. Literal(ty) \in Expressions /\ VisitExpression(Literal(ty))
      BY <1>4 DEF VisitLiteral, Expressions
    <2>2. Reporting /\ operands' \in Seq(Operand)
      BY <1>1, <1>2, <1>4 DEF VisitLiteral, Reporting
    <2> QED BY <2>1, <2>2, ExpressionKeeps
  <1>5. ASSUME NEW op \in BinaryOperators, VisitBinary(op)
        PROVE  Structured' /\ Reporting
    <2>1. Binary(op) \in Expressions /\ VisitExpression(Binary(op))
      BY <1>5 DEF VisitBinary, Expressions
    <2>2. Reporting
      <3>1. CodeOfBinary(op) \in Codes
        BY DEF CodeOfBinary, Codes
      <3> QED BY <1>1, <1>5, <3>1, Outcomes DEF VisitBinary, ReportIf, Reporting
    <2>3. operands' \in Seq(Operand)
      <3>1. \A l, r \in Types : TypeOfBinary(op, l, r) \in Types
        BY TypesAssumption DEF TypeOfBinary
      <3>2. /\ Front(operands) \in Seq(Operand)
            /\ Len(Front(operands)) = Len(operands) - 1
            /\ Last(operands) \in Operand /\ Len(operands) >= 2
            /\ Len(operands) \in Nat
        <4>1. Len(operands) >= 2 /\ operands # << >>
          BY <1>5 DEF VisitBinary
        <4> QED BY <1>1, <4>1, LastAndFront
      <3>3. /\ Front(operands) # << >>
            /\ Front(Front(operands)) \in Seq(Operand)
            /\ Last(Front(operands)) \in Operand
        <4>1. Front(operands) # << >>
          BY <3>2
        <4> QED BY <3>2, <4>1, LastAndFront
      <3>4. /\ Last(operands).type \in Types
            /\ Last(Front(operands)).type \in Types
        BY <3>2, <3>3 DEF Operand
      <3>5. PICK result \in Operand :
              operands' = Append(Front(Front(operands)), result)
        BY <1>2, <1>5, <3>1, <3>4 DEF VisitBinary
      <3> QED BY <3>3, <3>5, LastOfAppend
    <2> QED BY <2>1, <2>2, <2>3, ExpressionKeeps
  <1>6. ASSUME VisitUnary
        PROVE  Structured' /\ Reporting
    <2>1. Unary \in Expressions /\ VisitExpression(Unary)
      BY <1>6 DEF VisitUnary, Expressions
    <2>2. Reporting
      <3>1. "SEM_INVALID_OPERATOR" \in Codes
        BY DEF Codes
      <3> QED BY <1>1, <1>6, <3>1, Outcomes DEF VisitUnary, ReportIf, Reporting
    <2>3. operands' \in Seq(Operand)
      <3>1. Front(operands) \in Seq(Operand)
        BY <1>1, <1>6, LastAndFront DEF VisitUnary
      <3>2. PICK result \in Operand :
              operands' = Append(Front(operands), result)
        BY <1>2, <1>6, TypesAssumption DEF VisitUnary
      <3> QED BY <3>1, <3>2, LastOfAppend
    <2> QED BY <2>1, <2>2, <2>3, ExpressionKeeps
  <1> QED BY <1>3, <1>4, <1>5, <1>6

\* A visit of a statement that neither declares nor opens a block.
LEMMA StatementKeeps ==
  ASSUME Structured, NEW v \in Visits, v.kind \notin {"block", "end"},
         VisitStatement(v), Reporting,
         \/ todo' = todo
         \/ \E item \in Todo : /\ item.at \in {"assignment", "condition"}
                               /\ todo' = Push(item)
  PROVE  Structured'
  <1>1. /\ ast \in Seq(Visits) /\ ast' = Append(ast, v) /\ status' = status
        /\ status = "running" /\ operands' = operands /\ context \in Context
        /\ At("list") /\ todo \in Seq(Todo)
    BY DEF Structured, TypeOK, VisitStatement, Visit
  <1>2. context' \in Context /\ context'.symbols = context.symbols
    BY ReportingEffect DEF Structured
  <1>3. operands = << >>
    BY <1>1 DEF Structured, Underway, ExpressionExpected, At
  <1>4. CallStack(todo, CurrentFrame(context.symbols).depth)
    BY <1>1 DEF Structured, Underway
  <1>5. CurrentFrame(context.symbols).depth \in Nat
    BY WellFormedIndices DEF Structured, Placed, PlacedIn
  <1>6. /\ todo' \in Seq(Todo) /\ todo' # << >> /\ Last(todo').at # "declaration"
        /\ CallStack(todo', CurrentFrame(context.symbols).depth)
    <2>1. CASE todo' = todo
      BY <1>1, <1>4, <2>1 DEF At
    <2>2. CASE todo' # todo
      <3>1. PICK item \in Todo : /\ item.at \in {"assignment", "condition"}
                                 /\ todo' = Append(todo, item)
        BY <2>2 DEF Push
      <3>2. Last(todo).at = "list"
        BY <1>1 DEF At
      <3>3. CallStack(Append(todo, item), CurrentFrame(context.symbols).depth)
        BY <1>1, <1>4, <1>5, <3>1, <3>2, CallStackPush
      <3>4. Last(todo') = item /\ todo' \in Seq(Todo) /\ todo' # << >>
        BY <1>1, <3>1, LastOfAppend
      <3> QED BY <3>1, <3>3, <3>4
    <2> QED BY <2>1, <2>2
  <1>7. TypeOK'
    BY <1>1, <1>2, <1>6 DEF Structured, TypeOK
  <1>8. Underway'
    BY <1>1, <1>2, <1>3, <1>6 DEF Underway
  <1>9. Placed'
    BY <1>1, <1>2, TextKeepsPlaces DEF Structured, Placed
  <1>10. Waiting'
    BY <1>6 DEF Waiting, At
  <1> QED BY <1>7, <1>8, <1>9, <1>10 DEF Structured

\* The visits of the other simple statements.
LEMMA StatementSteps ==
  ASSUME Structured,
         \/ \E n \in Names : VisitAssignment(n) \/ VisitPrint(n)
         \/ \E hasElse \in BOOLEAN : VisitIf(hasElse)
         \/ VisitWhile
  PROVE  Structured' /\ Reporting
  <1>1. /\ TypeOK /\ WellFormed(context.symbols) /\ Here \in Nat
    BY DEF Structured, TypeOK, Placed, PlacedIn, Here
  <1>2. ASSUME NEW n \in Names, VisitAssignment(n)
        PROVE  Structured' /\ Reporting
    <2> DEFINE item == [at |-> "assignment", line |-> Here,
                        target |-> Resolved(context, n)]
    <2>1. /\ Assignment(n) \in Visits /\ Assignment(n).kind \notin {"block", "end"}
          /\ VisitStatement(Assignment(n)) /\ todo' = Push(item)
      BY <1>2 DEF VisitAssignment, Assignment, Visits, Statements
    <2>2. Reporting
      BY <1>1, <1>2, Outcomes, UnresolvedReports DEF VisitAssignment
    <2>3. item \in Todo /\ item.at = "assignment"
      BY <1>1, ResolvedType, TodoItems
    <2> QED BY <2>1, <2>2, <2>3, StatementKeeps
  <1>3. ASSUME NEW n \in Names, VisitPrint(n)
        PROVE  Structured' /\ Reporting
    <2>1. /\ PrintOf(n) \in Visits /\ PrintOf(n).kind \notin {"block", "end"}
          /\ VisitStatement(PrintOf(n)) /\ todo' = todo
      BY <1>3 DEF VisitPrint, PrintOf, Visits, Statements
    <2>2. Reporting
      BY <1>1, <1>3, Outcomes, UnresolvedReports DEF VisitPrint
    <2> QED BY <2>1, <2>2, StatementKeeps
  <1>4. ASSUME NEW hasElse \in BOOLEAN, VisitIf(hasElse)
        PROVE  Structured' /\ Reporting
    <2>1. /\ If(hasElse) \in Visits /\ If(hasElse).kind \notin {"block", "end"}
          /\ VisitStatement(If(hasElse)) /\ Reporting
      BY <1>4 DEF VisitIf, If, Visits, Statements, Reporting
    <2>2. PICK blocks \in 1 .. 2 :
            todo' = Push([at |-> "condition", blocks |-> blocks])
      BY <1>4 DEF VisitIf
    <2>3. [at |-> "condition", blocks |-> blocks] \in Todo
      BY TodoItems
    <2> QED BY <2>1, <2>2, <2>3, StatementKeeps
  <1>5. ASSUME VisitWhile
        PROVE  Structured' /\ Reporting
    <2>1. /\ While \in Visits /\ While.kind \notin {"block", "end"}
          /\ VisitStatement(While) /\ Reporting
          /\ todo' = Push([at |-> "condition", blocks |-> 1])
      BY <1>5 DEF VisitWhile, While, Visits, Statements, Reporting
    <2>2. [at |-> "condition", blocks |-> 1] \in Todo
      BY TodoItems
    <2> QED BY <2>1, <2>2, StatementKeeps
  <1> QED BY <1>2, <1>3, <1>4, <1>5

\* A declaration is visited: it waits for its initializer or is bound at once.
LEMMA DeclarationStep ==
  ASSUME Structured, NEW n \in Names, NEW ty \in Types,
         NEW initialized \in BOOLEAN, VisitDeclaration(n, ty, initialized)
  PROVE  Structured'
  <1> DEFINE v == Declaration(n, ty, initialized)
             t == context.symbols
             redeclared == LookupCurrent(t, n) # Null
             d == [at |-> "declaration", line |-> Here, name |-> n, type |-> ty,
                   redeclared |-> redeclared]
  <1>1. /\ ast \in Seq(Visits) /\ ast' = Append(ast, v) /\ status' = status
        /\ status = "running" /\ operands' = operands /\ context \in Context
        /\ At("list") /\ todo \in Seq(Todo) /\ operands \in Seq(Operand)
    BY DEF Structured, TypeOK, VisitDeclaration, VisitStatement, Visit
  <1>2. v \in Visits /\ v.kind \notin {"block", "end"} /\ Here = Len(ast) + 1
    BY DEF Visits, Statements, Declaration, Here
  <1>3. operands = << >> /\ Last(todo).at = "list" /\ todo # << >>
    BY <1>1 DEF Structured, Underway, ExpressionExpected, At
  <1>4. CallStack(todo, CurrentFrame(t).depth) /\ PlacedIn(ast, t)
    BY <1>1 DEF Structured, Underway, Placed
  <1>5. CurrentFrame(t).depth \in Nat /\ WellFormed(t)
    BY <1>4, WellFormedIndices DEF PlacedIn
  <1>6. d \in Todo /\ Here \in Nat /\ redeclared \in BOOLEAN
    <2>1. Here \in Nat
      BY <1>1, <1>2
    <2>2. redeclared \in BOOLEAN
      OBVIOUS
    <2> HIDE DEF redeclared
    <2> QED BY <2>1, <2>2, TodoItems
  <1> HIDE DEF v, redeclared
  <1>14. /\ d.line = Here /\ d.name = n /\ d.type = ty
         /\ d.redeclared = redeclared
    OBVIOUS
  <1>15. redeclared <=> LookupCurrent(t, n) # Null
    BY DEF redeclared
  <1>7. /\ ast' \in Seq(Visits) /\ Here \in DOMAIN ast' /\ Len(ast') = Here
        /\ Here' = Len(ast) + 2
    BY <1>1, <1>2 DEF Here
  <1>8. PlacedIn(ast', t)
    BY <1>1, <1>2, <1>4, TextKeepsPlaces
  <1>9. BlockAt(ast', Here) = BlockAt(ast', Len(ast') + 1)
    <2>1. BlockAt(ast', Here) = BlockAt(ast, Here)
      BY <1>1, <1>2, BlockAtAppend
    <2>2. BlockAt(ast', Len(ast) + 2) = BlockAt(ast, Here)
      BY <1>1, <1>2, InnermostStays
    <2> QED BY <1>2, <1>7, <2>1, <2>2
  <1>10. PICK written \in Written, allocated \in Allocated :
           LET c == ReportIf(redeclared, context, "SEM_REDECLARATION", Here, written)
           IN  IF initialized
                 THEN context' = c /\ todo' = Push(d)
                 ELSE /\ context' = Declare(c, d, FALSE, written, allocated)
                      /\ todo' = todo
    BY DEF VisitDeclaration, redeclared
  <1> DEFINE c == ReportIf(redeclared, context, "SEM_REDECLARATION", Here, written)
  <1>11. c \in Context /\ c.symbols = t
    <2> DEFINE r == Report(context, "SEM_REDECLARATION", Here, written)
    <2>1. "SEM_REDECLARATION" \in Codes /\ written \in BOOLEAN
      BY Outcomes DEF Codes
    <2>2. r \in Context /\ r.symbols = t
      BY <1>1, <1>6, <2>1, ReportEffect
    <2>3. c = IF redeclared THEN r ELSE context
      BY Zenon DEF ReportIf
    <2>4. context \in Context /\ context.symbols = t
      BY <1>1
    <2> HIDE DEF r, c
    <2> QED BY <2>2, <2>3, <2>4
  <1> HIDE DEF c
  <1>12. CASE initialized = TRUE
    <2>1. context' = c /\ todo' = Append(todo, d)
      BY <1>10, <1>12 DEF c, Push
    <2>2. /\ Last(todo') = d /\ todo' \in Seq(Todo) /\ todo' # << >>
      BY <1>1, <1>6, <2>1, LastOfAppend
    <2>3. CallStack(Append(todo, d), CurrentFrame(t).depth)
      BY <1>1, <1>3, <1>4, <1>5, <1>6, CallStackPush
    <2>4. TypeOK'
      BY <1>1, <1>7, <1>11, <2>1, <2>2 DEF Structured, TypeOK
    <2>5. Underway'
      BY <1>1, <1>3, <1>11, <2>1, <2>3 DEF Underway
    <2>6. Placed'
      BY <1>8, <1>11, <2>1 DEF Placed
    <2>7. Waiting'
      <3> HIDE DEF d
      <3>1. /\ d.line \in DOMAIN ast'
            /\ BlockAt(ast', d.line) = BlockAt(ast', Len(ast') + 1)
            /\ d.redeclared <=> LookupCurrent(context'.symbols, d.name) # Null
        BY <1>7, <1>9, <1>11, <1>14, <1>15, <2>1
      <3> QED BY <2>2, <3>1 DEF Waiting, At, Here
    <2> QED BY <2>4, <2>5, <2>6, <2>7 DEF Structured
  <1>13. CASE initialized = FALSE
    <2>1. context' = Declare(c, d, FALSE, written, allocated) /\ todo' = todo
      BY <1>10, <1>13 DEF c
    <2>2. ~d.redeclared => LookupCurrent(c.symbols, d.name) = Null
      BY <1>11, <1>14, <1>15
    <2>3. /\ context' \in Context
          /\ \/ context'.symbols = t
             \/ /\ context'.symbols = Insert(t, n, ty, Here)
                /\ LookupCurrent(t, n) = Null
      <3>1. CanDeclare(c, d) /\ written \in BOOLEAN /\ allocated \in BOOLEAN
        BY <1>5, <1>6, <1>11, <1>14, <2>2, Outcomes DEF CanDeclare
      <3> HIDE DEF d
      <3>2. context' = DeclareAfter(c, d, allocated)
        BY <2>1 DEF Declare, ReportIf, DeclareAfter
      <3>3. IsDeclared(c, d, context')
        BY <3>1, <3>2, DeclareEffect
      <3> QED BY <1>11, <1>14, <1>15, <3>3 DEF IsDeclared
    <2>4. /\ PlacedIn(ast', context'.symbols)
          /\ CurrentFrame(context'.symbols) = CurrentFrame(t)
      BY <1>7, <1>8, <1>9, <2>3, InsertKeepsPlaces
    <2>5. TypeOK'
      BY <1>1, <1>7, <2>1, <2>3 DEF Structured, TypeOK
    <2>6. Underway'
      BY <1>1, <1>3, <1>4, <2>1, <2>4 DEF Underway
    <2>7. Waiting' /\ Placed'
      BY <1>3, <2>1, <2>4 DEF Waiting, At, Placed
    <2> QED BY <2>5, <2>6, <2>7 DEF Structured
  <1> QED BY <1>12, <1>13

\* A block is entered, or there is no memory for its scope.
LEMMA EnterBlockKeeps ==
  ASSUME Structured, status = "running", NEW rest \in Seq(Todo),
         CallStack(rest, CurrentFrame(context.symbols).depth),
         Last(rest).at \in {"list", "blocks"},
         operands = << >>, EnterBlock(rest), UNCHANGED <<operands, status>>
  PROVE  Structured' /\ ~ExpressionExpected'
  <1> DEFINE t == context.symbols
             k == CurrentFrame(t).depth
  <1>1. /\ ast \in Seq(Visits) /\ context \in Context /\ operands \in Seq(Operand)
        /\ operands' = << >> /\ status' = "running" /\ "running" \in Statuses
        /\ PlacedIn(ast, t) /\ rest # << >>
    BY DEF Structured, TypeOK, Placed, CallStack, Calls, Statuses
  <1>2. k \in Nat /\ WellFormed(t) /\ Chain(t)
    BY <1>1, WellFormedIndices DEF PlacedIn
  <1>3. CASE /\ context' = [context EXCEPT !.symbols = EnterScope(@)]
             /\ todo' = Append(rest, [at |-> "list"])
             /\ ast' = Append(ast, Block)
    <2> DEFINE u == EnterScope(t)
    <2>1. Block \in Visits /\ Block.kind = "block"
      BY DEF Visits, Statements, Block
    <2>2. WellFormed(u) /\ Chain(u)
      BY <1>2, EnterKeepsWellFormed, EnterKeepsChain
    <2>3. FramesMatch(Append(ast, Block), u)
      BY <1>1, <1>2, <2>1, EnterKeepsFrames DEF PlacedIn
    <2>4. SymbolsPlaced(Append(ast, Block), u)
      <3>1. SymbolsPlaced(Append(ast, Block), t)
        BY <1>1, <2>1, TextKeepsSymbols DEF PlacedIn
      <3>2. u.symbols = t.symbols
        BY DEF EnterScope
      <3> HIDE DEF u, t
      <3> QED BY <3>1, <3>2 DEF SymbolsPlaced
    <2>5. CurrentFrame(u).depth = k + 1
      <3>1. t.frames \in Seq(Frame) /\ Len(t.frames) \in Nat
        BY <1>2, FrameFields DEF WellFormed
      <3> QED BY <3>1 DEF EnterScope, CurrentFrame
    <2>6. /\ CallStack(todo', k + 1) /\ todo' \in Seq(Todo)
          /\ todo' # << >> /\ Last(todo').at = "list"
      <3> DEFINE list == [at |-> "list"]
      <3>1. list \in Todo /\ list.at = "list"
        BY TodoItems
      <3> HIDE DEF list, k
      <3>2. CallStack(Append(rest, list), k + 1)
        BY <1>2, <3>1, CallStackPush DEF k
      <3>3. /\ Append(rest, list) \in Seq(Todo) /\ Append(rest, list) # << >>
            /\ Last(Append(rest, list)) = list
        BY <3>1, LastOfAppend
      <3> QED BY <1>3, <3>1, <3>2, <3>3 DEF list
    <2> HIDE DEF u, k
    <2>7. context' \in Context /\ context'.symbols = u
      <3>1. u \in Table
        BY <2>2 DEF WellFormed
      <3>2. context' = [context EXCEPT !.symbols = u]
        BY <1>3 DEF u
      <3> QED BY <1>1, <3>1, <3>2 DEF Context
    <2>8. ast' \in Seq(Visits)
      BY <1>1, <1>3, <2>1
    <2>9. TypeOK'
      BY <1>1, <2>6, <2>7, <2>8 DEF TypeOK
    <2>10. Underway'
      BY <1>1, <2>5, <2>6, <2>7 DEF Underway
    <2>11. Placed' /\ Waiting' /\ ~ExpressionExpected'
      BY <1>3, <2>2, <2>3, <2>4, <2>6, <2>7
         DEF Placed, PlacedIn, Waiting, At, ExpressionExpected
    <2> QED BY <2>9, <2>10, <2>11 DEF Structured
  <1>4. CASE context' = Fail(context) /\ todo' = rest /\ ast' = ast
    <2>1. context' \in Context /\ context'.symbols = t
      BY <1>1, <1>4 DEF Fail, Context
    <2> HIDE DEF t, k
    <2>2. TypeOK'
      BY <1>1, <1>4, <2>1 DEF TypeOK
    <2>3. Underway'
      BY <1>1, <1>4, <2>1 DEF Underway, t
    <2>4. Placed' /\ Waiting' /\ ~ExpressionExpected'
      BY <1>1, <1>4, <2>1 DEF Placed, Waiting, At, ExpressionExpected, t
    <2> QED BY <2>2, <2>3, <2>4 DEF Structured
  <1> QED BY <1>3, <1>4 DEF EnterBlock

\* A block in a list, and a block of an if or of a while.
LEMMA EnterSteps ==
  ASSUME Structured, VisitBlockStatement \/ VisitOwnBlock
  PROVE  Structured' /\ ~ExpressionExpected'
  <1> DEFINE k == CurrentFrame(context.symbols).depth
  <1>1. /\ status = "running" /\ todo \in Seq(Todo) /\ todo # << >>
        /\ Last(todo).at \in {"list", "blocks"}
        /\ UNCHANGED <<operands, status>>
    BY DEF Structured, TypeOK, VisitBlockStatement, VisitOwnBlock, At
  <1>2. operands = << >> /\ CallStack(todo, k)
    BY <1>1 DEF Structured, Underway, ExpressionExpected, At
  <1>3. k \in Nat
    BY WellFormedIndices DEF Structured, Placed, PlacedIn
  <1> HIDE DEF k
  <1>4. CASE VisitBlockStatement
    <2>1. EnterBlock(todo)
      BY <1>4 DEF VisitBlockStatement
    <2> QED BY <1>1, <1>2, <2>1, EnterBlockKeeps DEF k
  <1>5. CASE VisitOwnBlock
    <2> DEFINE left == Last(todo).left
               next == [at |-> "blocks", left |-> left - 1]
    <2>1. Last(todo).at = "blocks" /\ left \in 1 .. 2
      <3>1. Last(todo).at = "blocks" /\ Last(todo) \in Todo
        BY <1>1, <1>5, LastAndFront DEF VisitOwnBlock, At
      <3> QED BY <3>1, TodoFields
    <2>2. /\ Front(todo) \in Seq(Todo) /\ CallStack(Front(todo), k)
          /\ Last(Front(todo)).at \in {"list", "blocks"}
      BY <1>1, <1>2, <1>3, <2>1, CallStackPop
    <2>3. CASE left = 1
      <3>1. EnterBlock(Front(todo))
        BY <1>5, <2>3 DEF VisitOwnBlock, Pop
      <3> QED BY <1>1, <1>2, <2>2, <3>1, EnterBlockKeeps DEF k
    <2>4. CASE left # 1
      <3>1. next \in Todo /\ next.at = "blocks"
        <4>1. left - 1 \in 1 .. 2
          BY <2>1, <2>4
        <4> QED BY <4>1, TodoItems
      <3>2. EnterBlock(Append(Front(todo), next))
        BY <1>5, <2>4 DEF VisitOwnBlock, Pop
      <3> HIDE DEF next
      <3>3. CallStack(Append(Front(todo), next), k)
        BY <1>3, <2>2, <3>1, CallStackPush
      <3>4. /\ Append(Front(todo), next) \in Seq(Todo)
            /\ Last(Append(Front(todo), next)).at = "blocks"
        BY <2>2, <3>1, LastOfAppend
      <3> QED BY <1>1, <1>2, <3>2, <3>3, <3>4, EnterBlockKeeps DEF k
    <2> QED BY <2>3, <2>4
  <1> QED BY <1>4, <1>5

\* A block is left.  Its scope is never the global one.
LEMMA LeaveStep ==
  ASSUME Structured, LeaveBlock
  PROVE  /\ Structured' /\ ~ExpressionExpected' /\ ~AtGlobal(context.symbols)
         /\ context' = [context EXCEPT !.symbols = ExitScope(@)]
  <1> DEFINE t == context.symbols
             u == ExitScope(t)
             k == CurrentFrame(t).depth
  <1>1. /\ ast \in Seq(Visits) /\ context \in Context /\ operands \in Seq(Operand)
        /\ status = "running" /\ status' = status /\ operands' = operands
        /\ ast' = Append(ast, EndBlock) /\ status \in Statuses
        /\ todo \in Seq(Todo) /\ todo # << >> /\ Last(todo).at = "list"
        /\ Len(todo) > 1 /\ todo' = Front(todo) /\ PlacedIn(ast, t)
    BY DEF Structured, TypeOK, Placed, LeaveBlock, Visit, At, Pop
  <1>2. operands = << >> /\ CallStack(todo, k)
    BY <1>1 DEF Structured, Underway, ExpressionExpected, At
  <1>3. k \in Nat /\ WellFormed(t) /\ Chain(t) /\ t \in Table
    BY <1>1, WellFormedIndices DEF PlacedIn, WellFormed
  <1>4. /\ Front(todo) \in Seq(Todo) /\ Last(Front(todo)).at \in {"list", "blocks"}
        /\ k > 0 /\ CallStack(Front(todo), k - 1)
    BY <1>1, <1>2, <1>3, CallStackPop
  <1>5. ~AtGlobal(t)
    <2>1. t.current \in DOMAIN t.frames
      BY <1>3, WellFormedIndices
    <2>2. t.frames[t.current].parent = Null => t.frames[t.current].depth = 0
      BY <1>3, <2>1 DEF WellFormed, Rooted
    <2> QED BY <1>4, <2>2 DEF AtGlobal, CurrentFrame
  <1>6. context' = [context EXCEPT !.symbols = u]
    BY <1>5 DEF LeaveBlock
  <1>7. WellFormed(u) /\ Chain(u)
    BY <1>3, <1>5, ExitKeepsWellFormed, ExitKeepsChain
  <1>8. EndBlock \in Visits /\ EndBlock.kind = "end"
    BY DEF Visits, EndBlock
  <1>9. FramesMatch(Append(ast, EndBlock), u)
    BY <1>1, <1>3, <1>5, <1>8, ExitKeepsFrames DEF PlacedIn
  <1>10. CurrentFrame(u).depth = k - 1
    <2>1. CurrentFrame(u).depth = Level(Append(ast, EndBlock), Len(ast) + 2)
      <3>1. Len(Append(ast, EndBlock)) + 1 = Len(ast) + 2
        BY <1>1
      <3> QED BY <1>9, <3>1 DEF FramesMatch
    <2>2. k = Level(ast, Len(ast) + 1)
      BY <1>1 DEF PlacedIn, FramesMatch
    <2>3. Level(Append(ast, EndBlock), Len(ast) + 2) = Level(ast, Len(ast) + 1) - 1
      BY <1>1, <1>8, LevelAppend
    <2> QED BY <2>1, <2>2, <2>3
  <1>11. SymbolsPlaced(Append(ast, EndBlock), u)
    <2>1. SymbolsPlaced(Append(ast, EndBlock), t)
      BY <1>1, <1>8, TextKeepsSymbols DEF PlacedIn
    <2>2. u.symbols = t.symbols
      BY <1>3 DEF ExitScope, Table
    <2> HIDE DEF u, t
    <2> QED BY <2>1, <2>2 DEF SymbolsPlaced
  <1>12. Front(todo) # << >>
    BY <1>4 DEF CallStack, Calls
  <1> HIDE DEF u, k, t
  <1>13. context' \in Context /\ context'.symbols = u
    <2>1. u \in Table
      BY <1>7 DEF WellFormed
    <2> QED BY <1>1, <1>6, <2>1 DEF Context
  <1>14. TypeOK'
    BY <1>1, <1>4, <1>8, <1>13 DEF TypeOK
  <1>15. Underway'
    BY <1>1, <1>2, <1>4, <1>10, <1>13 DEF Underway
  <1>16. Placed'
    BY <1>1, <1>7, <1>9, <1>11, <1>13 DEF Placed, PlacedIn
  <1>17. Waiting' /\ ~ExpressionExpected'
    BY <1>1, <1>4 DEF Waiting, At, ExpressionExpected
  <1> QED BY <1>5, <1>6, <1>14, <1>15, <1>16, <1>17 DEF Structured, t, u

\* The return to a statement with the value of its expression.
LEMMA ReturnPops ==
  ASSUME Structured, NEW where, where # "list", ReturnTo(where)
  PROVE  /\ todo \in Seq(Todo) /\ todo # << >>
         /\ Last(todo) \in Todo /\ Last(todo).at = where
         /\ Front(todo) \in Seq(Todo) /\ Front(todo) # << >>
         /\ CallStack(Front(todo), CurrentFrame(context.symbols).depth)
         /\ Last(Front(todo)).at \in {"list", "blocks"}
         /\ status = "running" /\ status' = status /\ ast' = ast
         /\ operands' = << >> /\ CurrentFrame(context.symbols).depth \in Nat
         /\ ast \in Seq(Visits) /\ context \in Context /\ status \in Statuses
         /\ Placed
  <1>1. /\ status = "running" /\ status' = status /\ ast' = ast
        /\ operands' = << >> /\ todo # << >> /\ Last(todo).at = where
        /\ todo \in Seq(Todo) /\ ast \in Seq(Visits) /\ context \in Context
        /\ status \in Statuses /\ Placed
    BY DEF ReturnTo, Structured, TypeOK, At
  <1>2. CallStack(todo, CurrentFrame(context.symbols).depth)
    BY <1>1 DEF Structured, Underway
  <1>3. CurrentFrame(context.symbols).depth \in Nat
    BY WellFormedIndices DEF Structured, Placed, PlacedIn
  <1>4. Last(todo) \in Todo
    BY <1>1, LastAndFront
  <1>5. /\ Front(todo) \in Seq(Todo) /\ Last(Front(todo)).at \in {"list", "blocks"}
        /\ CallStack(Front(todo), CurrentFrame(context.symbols).depth)
    BY <1>1, <1>2, <1>3, CallStackPop
  <1>6. Front(todo) # << >>
    BY <1>5 DEF CallStack, Calls
  <1> QED BY <1>1, <1>3, <1>4, <1>5, <1>6

\* The end of a declaration with an initializer.
LEMMA FinishDeclarationStep ==
  ASSUME Structured, FinishDeclaration
  PROVE  /\ Structured' /\ ~ExpressionExpected'
         /\ IsDeclared(context, Last(todo), context')
  <1> DEFINE d == Last(todo)
             t == context.symbols
  <1>1. ReturnTo("declaration")
    BY DEF FinishDeclaration
  <1>2. /\ todo # << >> /\ d \in Todo /\ d.at = "declaration"
        /\ Front(todo) \in Seq(Todo) /\ Front(todo) # << >>
        /\ CallStack(Front(todo), CurrentFrame(t).depth)
        /\ Last(Front(todo)).at \in {"list", "blocks"}
        /\ status = "running" /\ status' = status /\ ast' = ast
        /\ operands' = << >> /\ ast \in Seq(Visits) /\ context \in Context
        /\ status \in Statuses /\ PlacedIn(ast, t)
    BY <1>1, ReturnPops DEF Placed
  <1>3. /\ d.line \in Nat /\ d.name \in Names /\ d.type \in Types
        /\ d.redeclared \in BOOLEAN
    BY <1>2, TodoFields
  <1>4. /\ d.line \in DOMAIN ast /\ BlockAt(ast, d.line) = BlockAt(ast, Len(ast) + 1)
        /\ ~d.redeclared => LookupCurrent(t, d.name) = Null
    BY <1>2 DEF Structured, Waiting, At, Here
  <1>5. CanDeclare(context, d)
    BY <1>2, <1>3, <1>4 DEF CanDeclare, PlacedIn
  <1>6. PICK written \in BOOLEAN, allocated \in BOOLEAN :
          context' = Declare(context, d, operands[1].valid
                                           /\ operands[1].type # d.type,
                             written, allocated)
    BY Outcomes DEF FinishDeclaration
  <1>7. PICK after : /\ \/ after = context
                        \/ after = Report(context, "SEM_TYPE_MISMATCH", d.line,
                                          written)
                     /\ context' = DeclareAfter(after, d, allocated)
    BY <1>6 DEF Declare, ReportIf, DeclareAfter
  <1> HIDE DEF d
  <1>8. IsDeclared(context, d, context')
    BY <1>5, <1>7, DeclareEffect
  <1>9. /\ PlacedIn(ast, context'.symbols)
        /\ CurrentFrame(context'.symbols) = CurrentFrame(t)
    <2>1. CASE context'.symbols = t
      BY <1>2, <2>1
    <2>2. CASE /\ context'.symbols = Insert(t, d.name, d.type, d.line)
               /\ ~d.redeclared
      BY <1>2, <1>3, <1>4, <2>2, InsertKeepsPlaces
    <2> QED BY <1>8, <2>1, <2>2 DEF IsDeclared
  <1>10. todo' = Front(todo)
    BY DEF FinishDeclaration, Pop
  <1>11. TypeOK'
    <2>1. operands' \in Seq(Operand)
      BY <1>2
    <2>2. context' \in Context
      BY <1>8 DEF IsDeclared
    <2> QED BY <1>2, <1>10, <2>1, <2>2 DEF TypeOK
  <1>12. Underway'
    BY <1>2, <1>9, <1>10 DEF Underway
  <1>13. Placed' /\ Waiting' /\ ~ExpressionExpected'
    BY <1>2, <1>9, <1>10 DEF Placed, Waiting, At, ExpressionExpected
  <1> QED BY <1>8, <1>11, <1>12, <1>13 DEF Structured, d

\* The end of an assignment, and of a condition.
LEMMA FinishSteps ==
  ASSUME Structured, FinishAssignment \/ FinishCondition
  PROVE  Structured' /\ ~ExpressionExpected' /\ Reporting
  <1> DEFINE t == context.symbols
  <1>1. PICK where \in {"assignment", "condition"} : ReturnTo(where)
    BY DEF FinishAssignment, FinishCondition
  <1>2. /\ todo # << >> /\ Last(todo) \in Todo /\ Last(todo).at = where
        /\ Front(todo) \in Seq(Todo) /\ Front(todo) # << >>
        /\ CallStack(Front(todo), CurrentFrame(t).depth)
        /\ Last(Front(todo)).at \in {"list", "blocks"}
        /\ status = "running" /\ status' = status /\ ast' = ast
        /\ operands' = << >> /\ ast \in Seq(Visits) /\ context \in Context
        /\ status \in Statuses /\ PlacedIn(ast, t)
        /\ CurrentFrame(t).depth \in Nat
    <2>1. where # "list"
      OBVIOUS
    <2> QED BY <1>1, <2>1, ReturnPops DEF Placed
  <1>3. {"SEM_INVALID_ASSIGNMENT", "SEM_TYPE_MISMATCH"} \subseteq Codes
    BY DEF Codes
  <1>4. Reporting
    <2>1. CASE FinishAssignment
      <3>1. Last(todo).line \in Nat
        <4>1. where = "assignment"
          BY <1>2, <2>1 DEF FinishAssignment, ReturnTo, At
        <4> QED BY <1>2, <4>1, TodoFields
      <3> QED BY <1>3, <2>1, <3>1, Outcomes DEF FinishAssignment, ReportIf, Reporting
    <2>2. CASE FinishCondition
      <3>1. Len(ast) \in Nat
        BY <1>2
      <3> QED BY <1>3, <2>2, <3>1, Outcomes DEF FinishCondition, ReportIf, Reporting
    <2> QED BY <2>1, <2>2 DEF FinishAssignment, FinishCondition
  <1>5. context' \in Context /\ context'.symbols = t
    BY <1>4, ReportingEffect DEF Structured
  <1>6. /\ todo' \in Seq(Todo) /\ todo' # << >>
        /\ Last(todo').at \in {"list", "blocks"}
        /\ CallStack(todo', CurrentFrame(t).depth)
    <2>1. CASE FinishAssignment
      BY <1>2, <2>1 DEF FinishAssignment, Pop
    <2>2. CASE FinishCondition
      <3> DEFINE item == [at |-> "blocks", left |-> Last(todo).blocks]
      <3>1. item \in Todo /\ item.at = "blocks"
        <4>1. where = "condition"
          BY <1>2, <2>2 DEF FinishCondition, ReturnTo, At
        <4>2. Last(todo).blocks \in 1 .. 2
          BY <1>2, <4>1, TodoFields
        <4> QED BY <4>2, TodoItems
      <3>2. todo' = Append(Front(todo), item)
        BY <2>2 DEF FinishCondition, Pop
      <3> HIDE DEF item, t
      <3>3. CallStack(Append(Front(todo), item), CurrentFrame(t).depth)
        BY <1>2, <3>1, CallStackPush
      <3>4. /\ Append(Front(todo), item) \in Seq(Todo)
            /\ Append(Front(todo), item) # << >>
            /\ Last(Append(Front(todo), item)) = item
        BY <1>2, <3>1, LastOfAppend
      <3> QED BY <3>1, <3>2, <3>3, <3>4
    <2> QED BY <2>1, <2>2 DEF FinishAssignment, FinishCondition
  <1>7. TypeOK'
    <2>1. operands' \in Seq(Operand)
      BY <1>2
    <2> QED BY <1>2, <1>5, <1>6, <2>1 DEF TypeOK
  <1>8. Underway'
    BY <1>2, <1>5, <1>6 DEF Underway
  <1>9. Placed' /\ Waiting' /\ ~ExpressionExpected'
    BY <1>2, <1>5, <1>6 DEF Placed, Waiting, At, ExpressionExpected
  <1> QED BY <1>4, <1>7, <1>8, <1>9 DEF Structured

\* The new context has a table that is in order.
LEMMA NewContextTyped == NewContext \in Context
  BY NewIsPlaced DEF NewContext, Context, PlacedIn, WellFormed

\* The analysis of a program begins, with a new table.
LEMMA BeginStep ==
  ASSUME Structured, Begin
  PROVE  Structured'
  <1> DEFINE list == [at |-> "list"]
  <1>1. /\ ast' = << >> /\ operands' = << >> /\ context' = NewContext
        /\ \/ status' = "running" /\ todo' = <<list>>
           \/ status' = "INTERNAL_ERROR" /\ todo' = << >>
    BY DEF Begin
  <1>2. list \in Todo /\ list.at = "list"
    BY TodoItems
  <1>3. NewContext.symbols = NewTable
    BY DEF NewContext
  <1>4. CallStack(<<list>>, 0)
    <2> HIDE DEF list
    <2>1. ListsOf(<<list>>) = {1}
      BY <1>2 DEF ListsOf
    <2>2. Cardinality(ListsOf(<<list>>)) = 1
      BY <2>1, FS_Singleton
    <2> QED BY <1>2, <2>2 DEF CallStack, Calls
  <1> HIDE DEF list
  <1>5. TypeOK'
    <2>1. ast' \in Seq(Visits) /\ operands' \in Seq(Operand)
      BY <1>1
    <2>2. << >> \in Seq(Todo) /\ <<list>> \in Seq(Todo)
      BY <1>2
    <2> QED BY <1>1, <2>1, <2>2, NewContextTyped DEF TypeOK, Statuses
  <1>6. Underway'
    BY <1>1, <1>3, <1>4, NewIsPlaced DEF Underway
  <1>7. Placed'
    BY <1>1, <1>3, NewIsPlaced DEF Placed
  <1>8. Waiting'
    BY <1>1, <1>2 DEF Waiting, At, Last
  <1> QED BY <1>5, <1>6, <1>7, <1>8 DEF Structured

\* The result is found, and there is nothing left to do.
LEMMA EndStep ==
  ASSUME Structured, End
  PROVE  Structured'
  <1>1. /\ todo' = << >> /\ ast' = ast /\ operands' = operands
        /\ context' = context /\ todo = <<[at |-> "list"]>>
        /\ status' \in {"INTERNAL_ERROR", "ERRORS", "SUCCESS"}
    BY DEF End
  <1>2. operands = << >>
    BY <1>1 DEF Structured, Underway, ExpressionExpected, At, Last
  <1>3. TypeOK'
    BY <1>1 DEF Structured, TypeOK, Statuses
  <1>4. Underway' /\ Waiting'
    BY <1>1, <1>2 DEF Underway, Waiting, At
  <1>5. Placed'
    BY <1>1 DEF Structured, Placed
  <1> QED BY <1>3, <1>4, <1>5 DEF Structured

\* The analysis starts with a table that fits the empty program.
LEMMA InitStructured == Init => Structured
  <1> SUFFICES ASSUME Init PROVE Structured
    OBVIOUS
  <1>1. /\ ast = << >> /\ todo = << >> /\ operands = << >>
        /\ context = NewContext /\ status = "none"
        /\ context.symbols = NewTable
    BY DEF Init, NewContext
  <1>2. TypeOK
    <2>1. ast \in Seq(Visits) /\ todo \in Seq(Todo) /\ operands \in Seq(Operand)
      BY <1>1
    <2> QED BY <1>1, <2>1, NewContextTyped DEF TypeOK, Statuses
  <1>3. Underway /\ Waiting
    BY <1>1 DEF Underway, Waiting, At
  <1>4. Placed
    BY <1>1, NewIsPlaced DEF Placed
  <1> QED BY <1>2, <1>3, <1>4 DEF Structured

\* Every step keeps the types, the call stack, and the frames and the symbols
\* in their places.
LEMMA NextStructured == Structured /\ [Next]_vars => Structured'
  <1> SUFFICES ASSUME Structured, [Next]_vars PROVE Structured'
    OBVIOUS
  <1>1. CASE Begin
    BY <1>1, BeginStep
  <1>2. CASE VisitNode
    <2>1. CASE \E n \in Names, ty \in Types, i \in BOOLEAN :
                 VisitDeclaration(n, ty, i)
      BY <2>1, DeclarationStep
    <2>2. CASE \/ \E n \in Names : VisitAssignment(n) \/ VisitPrint(n)
               \/ \E hasElse \in BOOLEAN : VisitIf(hasElse)
               \/ VisitWhile
      BY <2>2, StatementSteps
    <2>3. CASE VisitBlockStatement \/ VisitOwnBlock
      BY <2>3, EnterSteps
    <2>4. CASE LeaveBlock
      BY <2>4, LeaveStep
    <2>5. CASE \/ \E n \in Names : VisitIdentifier(n)
               \/ \E ty \in Types : VisitLiteral(ty)
               \/ \E op \in BinaryOperators : VisitBinary(op)
               \/ VisitUnary
      BY <2>5, ExpressionSteps
    <2> QED BY <1>2, <2>1, <2>2, <2>3, <2>4, <2>5 DEF VisitNode
  <1>3. CASE Finish
    BY <1>3, FinishDeclarationStep, FinishSteps DEF Finish
  <1>4. CASE End
    BY <1>4, EndStep
  <1>5. CASE UNCHANGED vars
    BY <1>5 DEF vars, Structured, TypeOK, Underway, Waiting, Placed, At, Here,
                ExpressionExpected
  <1> QED BY <1>1, <1>2, <1>3, <1>4, <1>5 DEF Next

\* The scope of the table and the block of the program go together because
\* the frames and the symbols are in their places.
LEMMA StructuredFollowsBlocks == Structured => ScopesFollowBlocks
  <1> SUFFICES ASSUME Structured PROVE ScopesFollowBlocks
    OBVIOUS
  <1> DEFINE t == context.symbols
  <1>1. ast \in Seq(Visits) /\ PlacedIn(ast, t) /\ WellFormed(t)
    BY DEF Structured, TypeOK, Placed, PlacedIn
  <1>2. t.current = Ordinal(ast, BlockAt(ast, Here)) + 1
    BY <1>1, CurrentIsInnermost DEF PlacedIn, Here
  <1>3. ASSUME NEW i \in DOMAIN t.symbols
        PROVE  LET b == BlockAt(ast, t.symbols[i].line)
               IN  /\ t.symbols[i].owner = Ordinal(ast, b) + 1
                   /\ t.symbols[i].scope_id = Ordinal(ast, b)
    <2> DEFINE b == BlockAt(ast, t.symbols[i].line)
    <2>1. t.symbols[i].owner = Ordinal(ast, b) + 1
      BY <1>1 DEF PlacedIn, SymbolsPlaced
    <2>2. t.symbols[i].scope_id = t.symbols[i].owner - 1
      BY <1>1 DEF WellFormed, Owned
    <2>3. Ordinal(ast, b) \in Nat
      BY <1>1, BeforeCounts DEF Ordinal
    <2> QED BY <2>1, <2>2, <2>3
  <1> QED BY <1>2, <1>3 DEF ScopesFollowBlocks

\* The variables keep their types: an operand is a valid result or an error of
\* type int, and a statement waits for one block or two.
THEOREM TypeCorrect == Spec => []TypeOK
  <1>1. Structured => TypeOK
    BY DEF Structured
  <1> QED BY <1>1, InitStructured, NextStructured, PTL DEF Spec

\* The scope that the analysis is in is that of the innermost open block, every
\* symbol is owned by the scope of the block that declares it, and scope IDs
\* number the blocks as they come in the text: for every program, however deep,
\* and whatever memory or output fails (analyze_block, semantic.c).
THEOREM BlocksFollowed == Spec => []ScopesFollowBlocks
  BY InitStructured, NextStructured, StructuredFollowsBlocks, PTL DEF Spec

\* What a step may do after an internal failure.
Stopping ==
  /\ context'.symbols.symbols = context.symbols.symbols
  /\ context'.internal_failure
  /\ ast' # ast => IsExpression(Last(ast')) \/ Last(ast').kind \in {"block", "end"}

\* Every step of a running analysis that failed does no more than that: the
\* actions that begin a statement are disabled, and a declaration that waited
\* for its initializer is not inserted.
LEMMA NextStops ==
  Structured /\ [Next]_vars =>
    [status = "running" /\ context.internal_failure => Stopping]_vars
  <1> SUFFICES ASSUME Structured, Next, status = "running",
                      context.internal_failure
               PROVE  Stopping
    BY DEF Stopping
  <1>1. /\ ast \in Seq(Visits) /\ context \in Context /\ TypeOK
        /\ WellFormed(context.symbols)
    BY DEF Structured, TypeOK, Placed, PlacedIn
  <1>2. ASSUME Reporting
        PROVE  context'.symbols.symbols = context.symbols.symbols
                 /\ context'.internal_failure
    BY <1>1, <1>2, ReportingEffect
  <1>3. ASSUME NEW v \in Visits, ast' = Append(ast, v)
        PROVE  Last(ast') = v
    BY <1>1, <1>3, LastOfAppend
  <1>4. CASE VisitNode
    <2>1. CASE \/ \E n \in Names : VisitIdentifier(n)
               \/ \E ty \in Types : VisitLiteral(ty)
               \/ \E op \in BinaryOperators : VisitBinary(op)
               \/ VisitUnary
      <3>1. PICK v \in Expressions : VisitExpression(v)
        BY <2>1 DEF VisitIdentifier, VisitLiteral, VisitBinary, VisitUnary,
                    Expressions
      <3>2. ast' = Append(ast, v) /\ v \in Visits /\ IsExpression(v)
        BY <3>1 DEF VisitExpression, Visit, Visits, Expressions, IsExpression,
                    Identifier, Literal, Binary, Unary
      <3>3. Reporting
        BY <2>1, ExpressionSteps
      <3>4. Last(ast') = v
        BY <1>3, <3>2
      <3> QED BY <1>2, <3>2, <3>3, <3>4 DEF Stopping
    <2>2. CASE VisitOwnBlock
      <3>1. PICK rest : EnterBlock(rest)
        BY <2>2 DEF VisitOwnBlock
      <3>2. CASE /\ context' = [context EXCEPT !.symbols = EnterScope(@)]
                 /\ ast' = Append(ast, Block)
        <4>1. EnterScope(context.symbols).symbols = context.symbols.symbols
          BY DEF EnterScope
        <4>2. context'.symbols = EnterScope(context.symbols)
                /\ context'.internal_failure
          BY <1>1, <3>2 DEF Context
        <4>3. Last(ast') = Block /\ Block.kind = "block"
          BY <1>3, <3>2 DEF Block, Visits, Statements
        <4> QED BY <4>1, <4>2, <4>3 DEF Stopping
      <3>3. CASE context' = Fail(context) /\ ast' = ast
        BY <1>1, <3>3 DEF Fail, Context, Stopping
      <3> QED BY <3>1, <3>2, <3>3 DEF EnterBlock
    <2>3. CASE LeaveBlock
      <3>1. context' = [context EXCEPT !.symbols = ExitScope(@)]
        BY <2>3, LeaveStep
      <3>2. ExitScope(context.symbols).symbols = context.symbols.symbols
        BY <1>1 DEF ExitScope, WellFormed, Table
      <3>3. context'.symbols = ExitScope(context.symbols)
              /\ context'.internal_failure
        BY <1>1, <3>1 DEF Context
      <3>4. ast' = Append(ast, EndBlock) /\ EndBlock \in Visits
        BY <2>3 DEF LeaveBlock, Visit, Visits
      <3>5. Last(ast').kind = "end"
        BY <1>3, <3>4 DEF EndBlock
      <3> QED BY <3>2, <3>3, <3>5 DEF Stopping
    <2> QED BY <1>4, <2>1, <2>2, <2>3
            DEF VisitNode, VisitDeclaration, VisitAssignment, VisitPrint,
                VisitIf, VisitWhile, VisitBlockStatement, VisitStatement
  <1>5. CASE FinishDeclaration
    <2>1. ast' = ast
      BY <1>5 DEF FinishDeclaration, ReturnTo
    <2>2. IsDeclared(context, Last(todo), context')
      BY <1>5, FinishDeclarationStep
    <2>3. context'.symbols = context.symbols /\ context'.internal_failure
      BY <2>2 DEF IsDeclared
    <2> QED BY <2>1, <2>3 DEF Stopping
  <1>6. CASE FinishAssignment \/ FinishCondition
    <2>1. ast' = ast
      BY <1>6 DEF FinishAssignment, FinishCondition, ReturnTo
    <2> QED BY <1>2, <1>6, <2>1, FinishSteps DEF Stopping
  <1>7. CASE End
    BY <1>7 DEF End, Stopping
  <1> QED BY <1>4, <1>5, <1>6, <1>7 DEF Next, Finish, Begin

\* After an internal failure nothing is declared, the failure is not forgotten
\* and no statement is begun, for every program and every failure (the loop of
\* analyze_statement_list, the condition before insert_declaration).
THEOREM StopsAfterFailure == Spec => FailureStops
  <1>1. Spec => [][status = "running" /\ context.internal_failure => Stopping]_vars
    BY InitStructured, NextStructured, NextStops, PTL DEF Spec
  <1> QED BY <1>1 DEF FailureStops, Stopping

-----------------------------------------------------------------------------
(* What the text says, and what the table answers. *)

\* The declarations of name n that are not waiting for their initializers.
Named(n) == {d \in DOMAIN ast : Declared(d) /\ ast[d].name = n}

\* What the text says about the visit that comes next: the declarations it
\* sees are those that are not waiting.
LEMMA SaidOfNext ==
  ASSUME ast \in Seq(Visits), Separated, NEW v \in Visits, NEW n,
         \/ At("list") /\ ~IsExpression(v)
         \/ ExpressionExpected /\ IsExpression(v)
  PROVE  LET new == Append(ast, v)
         IN  /\ DeclarationsOf(new, n, Here) = Named(n)
             /\ InScope(new, n, Here) =
                  {d \in Named(n) : OpenAt(ast, BlockAt(ast, d), Here)}
             /\ Declares(v) /\ v.name = n =>
                  (Repeats(new, Here) <=>
                     \E d \in Named(n) : BlockAt(ast, d) = BlockAt(ast, Here))
  <1> DEFINE new == Append(ast, v)
             h == Here
             D == {d \in DOMAIN ast : Declared(d)}
  <1>1. /\ h \in Nat \ {0} /\ DOMAIN ast = 1 .. h - 1 /\ DOMAIN new = 1 .. h
        /\ \A q \in DOMAIN ast : q \in DOMAIN new /\ new[q] = ast[q]
        /\ new[h] = v /\ h = Len(ast) + 1
    BY DEF Here
  <1>2. ASSUME NEW d \in DOMAIN ast, Declares(ast[d])
        PROVE  Over(new, d, h) <=> Declared(d)
    <2>1. /\ h \in d + 1 .. h /\ d < h
          /\ \A q \in d + 1 .. h : q \in DOMAIN new
          /\ \A q \in d + 1 .. Len(ast) : q \in d + 1 .. h /\ new[q] = ast[q]
          /\ \A q \in d + 1 .. h : q = h \/ q \in d + 1 .. Len(ast)
      BY <1>1
    <2> HIDE DEF new, h
    <2>2. CASE At("list") /\ ~IsExpression(v)
      <3>1. Over(new, d, h)
        BY <1>1, <2>1, <2>2 DEF Over
      <3>2. ~PendingIn(todo, d)
        BY <2>2 DEF PendingIn, At
      <3> QED BY <1>2, <3>1, <3>2 DEF Declared, DeclaredIn
    <2>3. CASE ExpressionExpected /\ IsExpression(v)
      <3>1. CASE PendingIn(todo, d)
        <4>1. /\ ast[d].initialized
              /\ \A q \in d + 1 .. Len(ast) : IsExpression(ast[q])
          BY <3>1 DEF Separated, PendingIn, At, Declaration
        <4>2. ~Over(new, d, h)
          BY <1>1, <2>1, <2>3, <4>1 DEF Over
        <4> QED BY <3>1, <4>2 DEF Declared, DeclaredIn
      <3>2. CASE ~PendingIn(todo, d)
        <4>1. Declared(d)
          BY <1>2, <3>2 DEF Declared, DeclaredIn
        <4>2. PICK q \in d + 1 .. Len(ast) : ~IsExpression(ast[q])
          BY <2>3, <4>1 DEF Separated
        <4>3. Over(new, d, h)
          BY <2>1, <4>2 DEF Over
        <4> QED BY <4>1, <4>3
      <3> QED BY <3>1, <3>2
    <2> QED BY <2>2, <2>3
  <1>3. \A d \in DOMAIN ast : Declared(d) => Declares(ast[d])
    BY DEF Declared, DeclaredIn
  <1>4. \A d \in DOMAIN ast : d \in D <=> Declares(ast[d]) /\ Over(new, d, h)
    <2> HIDE DEF new, h
    <2> QED BY <1>2, <1>3
  <1>5. D \in SUBSET DOMAIN ast /\ NamedIn(ast, D, n) = Named(n)
    BY DEF NamedIn, Named
  <1> HIDE DEF D
  <1> QED BY <1>1, <1>4, <1>5, NextSees

\* The three searches answer what the text says: whether a declaration is in
\* the blocks still open, in any block, in the innermost one.
LEMMA Resolution ==
  ASSUME Structured, Bound, ~context.internal_failure, NEW n
  PROVE  LET t == context.symbols
         IN  /\ LookupActive(t, n) # Null <=>
                  \E d \in Named(n) : OpenAt(ast, BlockAt(ast, d), Here)
             /\ LookupActive(t, n) = Null =>
                  (LookupHistory(t, n) # Null <=> Named(n) # {})
             /\ LookupCurrent(t, n) # Null <=>
                  \E d \in Named(n) : BlockAt(ast, d) = BlockAt(ast, Here)
  <1> DEFINE D == {d \in DOMAIN ast : Declared(d)}
  <1>1. /\ ast \in Seq(Visits) /\ PlacedIn(ast, context.symbols)
        /\ Here = Len(ast) + 1
    BY DEF Structured, TypeOK, Placed, Here
  <1>2. D \in SUBSET DOMAIN ast /\ NamedIn(ast, D, n) = Named(n)
    BY DEF NamedIn, Named
  <1>3. \A d : Declared(d) => d \in D
    BY DEF Declared, DeclaredIn
  <1>4. /\ SymbolsDeclared(ast, context.symbols, D)
        /\ DeclaredBound(ast, context.symbols, D)
    BY <1>3 DEF Bound, SymbolsDeclared, DeclaredBound
  <1> HIDE DEF D
  <1> QED BY <1>1, <1>2, <1>4, SearchesSee

-----------------------------------------------------------------------------
(* Steps, and what was separated, bound and reported. *)

\* The diagnostics c has more than b: at most one, of one of these codes and
\* at this line.
MoreReported(b, c, codes, line) ==
  /\ b.internal_failure => c.internal_failure
  /\ \/ /\ c.diagnostics = b.diagnostics /\ c.error_count = b.error_count
     \/ \E code \in codes :
          /\ c.diagnostics = Append(b.diagnostics, [code |-> code, line |-> line])
          /\ c.error_count = b.error_count + 1

\* What one more report says.
LEMMA ReportedInAppend ==
  ASSUME NEW ds \in Seq(Diagnostic), NEW c \in Codes, NEW p \in Nat
  PROVE  LET more == Append(ds, [code |-> c, line |-> p])
         IN  \A code, q : ReportedIn(more, code, q) <=>
                            ReportedIn(ds, code, q) \/ (code = c /\ q = p)
  <1> DEFINE e == [code |-> c, line |-> p]
             more == Append(ds, e)
  <1>1. /\ DOMAIN ds = 1 .. Len(ds) /\ Len(ds) \in Nat
        /\ DOMAIN more = 1 .. Len(ds) + 1 /\ more[Len(ds) + 1] = e
        /\ \A i \in DOMAIN ds : i \in DOMAIN more /\ more[i] = ds[i]
        /\ \A i \in DOMAIN more : i = Len(ds) + 1 \/ i \in DOMAIN ds
        /\ Len(ds) + 1 \in DOMAIN more
    OBVIOUS
  <1> SUFFICES ASSUME NEW code, NEW q
               PROVE  ReportedIn(more, code, q) <=>
                        ReportedIn(ds, code, q) \/ (code = c /\ q = p)
    OBVIOUS
  <1>2. [code |-> code, line |-> q] = e <=> code = c /\ q = p
    OBVIOUS
  <1> HIDE DEF e, more
  <1> QED BY <1>1, <1>2 DEF ReportedIn

\* Reports come at most once more: the others are those there were.
LEMMA MoreIsReported ==
  ASSUME NEW b \in Context, NEW c, NEW codes \in SUBSET Codes, NEW line \in Nat,
         MoreReported(b, c, codes, line)
  PROVE  \A code, p :
           /\ ReportedIn(b.diagnostics, code, p) => ReportedIn(c.diagnostics, code, p)
           /\ ReportedIn(c.diagnostics, code, p) =>
                \/ ReportedIn(b.diagnostics, code, p)
                \/ code \in codes /\ p = line
  <1>1. b.diagnostics \in Seq(Diagnostic)
    BY DEF Context
  <1>2. CASE c.diagnostics = b.diagnostics
    BY <1>2
  <1>3. CASE \E code \in codes :
               c.diagnostics = Append(b.diagnostics, [code |-> code, line |-> line])
    BY <1>1, <1>3, ReportedInAppend
  <1> QED BY <1>2, <1>3 DEF MoreReported

\* A report that was not there before makes no two the same, and is about the
\* program if it is about a node of it.
LEMMA MoreIsOnce ==
  ASSUME NEW b \in Context, NEW c, NEW codes \in SUBSET Codes, NEW line \in Nat,
         MoreReported(b, c, codes, line), b.error_count = Len(b.diagnostics),
         \A i, j \in DOMAIN b.diagnostics :
           b.diagnostics[i] = b.diagnostics[j] => i = j,
         \A code \in codes : ~ReportedIn(b.diagnostics, code, line),
         NEW S, \A i \in DOMAIN b.diagnostics : b.diagnostics[i].line \in S,
         c.diagnostics # b.diagnostics => line \in S
  PROVE  /\ c.error_count = Len(c.diagnostics)
         /\ \A i, j \in DOMAIN c.diagnostics :
              c.diagnostics[i] = c.diagnostics[j] => i = j
         /\ \A i \in DOMAIN c.diagnostics : c.diagnostics[i].line \in S
  <1>1. b.diagnostics \in Seq(Diagnostic) /\ b.error_count \in Nat
    BY DEF Context
  <1>2. CASE c.diagnostics = b.diagnostics /\ c.error_count = b.error_count
    BY <1>2
  <1>3. CASE \E code \in codes :
               /\ c.diagnostics = Append(b.diagnostics, [code |-> code, line |-> line])
               /\ c.error_count = b.error_count + 1
    <2>1. PICK code \in codes :
                 /\ c.diagnostics = Append(b.diagnostics,
                                           [code |-> code, line |-> line])
                 /\ c.error_count = b.error_count + 1
      BY <1>3
    <2> DEFINE e == [code |-> code, line |-> line]
               ds == b.diagnostics
               n == Len(ds)
               more == Append(ds, e)
    <2>2. /\ n \in Nat /\ DOMAIN ds = 1 .. n /\ DOMAIN more = 1 .. n + 1
          /\ more[n + 1] = e /\ Len(more) = n + 1
          /\ \A i \in DOMAIN ds : more[i] = ds[i]
          /\ \A i \in DOMAIN more : i = n + 1 \/ i \in DOMAIN ds
      BY <1>1
    <2>3. e.line = line /\ more # ds
      BY <2>2
    <2>4. \A i \in DOMAIN ds : ds[i] # e
      BY DEF ReportedIn
    <2>5. n + 1 \notin DOMAIN ds
      BY <2>2
    <2> HIDE DEF e, more, n
    <2>6. ASSUME NEW i \in DOMAIN more, NEW j \in DOMAIN more, more[i] = more[j]
          PROVE  i = j
      BY <2>2, <2>4, <2>6
    <2>7. \A i \in DOMAIN more : more[i].line \in S
      BY <2>1, <2>2, <2>3 DEF more, e
    <2>8. c.diagnostics = more /\ c.error_count = n + 1
      BY <2>1 DEF more, e, n
    <2> QED BY <2>2, <2>6, <2>7, <2>8
  <1> QED BY <1>2, <1>3 DEF MoreReported

\* A report is one more, and it is there unless it could not be written.
LEMMA ReportIsMore ==
  ASSUME NEW b \in Context, NEW code \in Codes, NEW line \in Nat,
         NEW written \in BOOLEAN, NEW codes, code \in codes
  PROVE  LET c == Report(b, code, line, written)
         IN  /\ MoreReported(b, c, codes, line)
             /\ ~c.internal_failure => ReportedIn(c.diagnostics, code, line)
  <1> DEFINE c == Report(b, code, line, written)
  <1>1. /\ b.diagnostics \in Seq(Diagnostic) /\ b.internal_failure \in BOOLEAN
        /\ \/ /\ c.diagnostics =
                   Append(b.diagnostics, [code |-> code, line |-> line])
              /\ c.error_count = b.error_count + 1
              /\ c.internal_failure = b.internal_failure
           \/ /\ c.diagnostics = b.diagnostics
              /\ c.error_count = b.error_count
              /\ c.internal_failure
    BY ReportEffect DEF Context
  <1> HIDE DEF c
  <1>2. MoreReported(b, c, codes, line)
    BY <1>1 DEF MoreReported
  <1>3. ~c.internal_failure => ReportedIn(c.diagnostics, code, line)
    <2>1. ReportedIn(Append(b.diagnostics, [code |-> code, line |-> line]),
                     code, line)
      BY <1>1, ReportedInAppend
    <2> QED BY <1>1, <2>1
  <1> QED BY <1>2, <1>3 DEF c

\* A step that reports nothing.
LEMMA SameReported ==
  ASSUME NEW b, NEW c, NEW codes, NEW line, c.diagnostics = b.diagnostics,
         c.error_count = b.error_count, b.internal_failure => c.internal_failure
  PROVE  MoreReported(b, c, codes, line)
  BY DEF MoreReported

\* The text stays or is one visit longer.
Grown == ast' = ast \/ \E v \in Visits : ast' = Append(ast, v)

\* What there was in the text is there, in the same block.
LEMMA GrownKeeps ==
  ASSUME ast \in Seq(Visits), Grown
  PROVE  \A d \in DOMAIN ast :
           /\ d \in DOMAIN ast' /\ ast'[d] = ast[d]
           /\ Ordinal(ast', BlockAt(ast', d)) = Ordinal(ast, BlockAt(ast, d))
  <1>1. CASE ast' = ast
    BY <1>1
  <1>2. CASE \E v \in Visits : ast' = Append(ast, v)
    <2>1. PICK v \in Visits : ast' = Append(ast, v)
      BY <1>2
    <2> TAKE d \in DOMAIN ast
    <2>2. /\ d \in DOMAIN ast' /\ ast'[d] = ast[d]
          /\ d \in 1 .. Len(ast) + 1 /\ d \in Nat \ {0}
      BY <2>1
    <2>3. BlockAt(ast', d) = BlockAt(ast, d)
      BY <2>1, <2>2, BlockAtAppend
    <2>4. BlockAt(ast, d) \in 0 .. Len(ast) + 1
      BY <2>2, InnermostBlock
    <2> QED BY <2>1, <2>2, <2>3, <2>4, OrdinalAppend
  <1> QED BY <1>1, <1>2 DEF Grown

\* The same declarations are over when none is begun and none ends.
LEMMA DeclaredStays ==
  ASSUME ast \in Seq(Visits),
         \/ ast' = ast
         \/ \E v \in Visits : ~Declares(v) /\ ast' = Append(ast, v),
         \A d : PendingIn(todo', d) <=> PendingIn(todo, d)
  PROVE  \A d : DeclaredIn(ast', todo', d) <=> Declared(d)
  <1>1. ASSUME NEW d
        PROVE  d \in DOMAIN ast' /\ Declares(ast'[d]) <=>
                 d \in DOMAIN ast /\ Declares(ast[d])
    <2>1. CASE ast' = ast
      BY <2>1
    <2>2. CASE \E v \in Visits : ~Declares(v) /\ ast' = Append(ast, v)
      <3>1. PICK v \in Visits : ~Declares(v) /\ ast' = Append(ast, v)
        BY <2>2
      <3>2. /\ DOMAIN ast' = DOMAIN ast \cup {Len(ast) + 1}
            /\ ast'[Len(ast) + 1] = v /\ Len(ast) + 1 \notin DOMAIN ast
            /\ \A q \in DOMAIN ast : ast'[q] = ast[q]
        BY <3>1
      <3> QED BY <3>1, <3>2
    <2> QED BY <2>1, <2>2
  <1> QED BY <1>1 DEF Declared, DeclaredIn

\* Symbols and declarations still correspond when neither changes.
LEMMA BoundStays ==
  ASSUME Structured, Bound, Grown,
         context'.symbols.symbols = context.symbols.symbols,
         context.internal_failure => context'.internal_failure,
         \A d : DeclaredIn(ast', todo', d) <=> Declared(d)
  PROVE  Bound'
  <1> DEFINE symbols == context.symbols.symbols
  <1>1. \A d \in DOMAIN ast :
          /\ d \in DOMAIN ast' /\ ast'[d] = ast[d]
          /\ Ordinal(ast', BlockAt(ast', d)) = Ordinal(ast, BlockAt(ast, d))
    BY GrownKeeps DEF Structured, TypeOK
  <1>2. \A d : Declared(d) => d \in DOMAIN ast
    BY DEF Declared, DeclaredIn
  <1>3. \A i \in DOMAIN symbols :
          /\ DeclaredIn(ast', todo', symbols[i].line)
          /\ ast'[symbols[i].line].name = symbols[i].name
    BY <1>1, <1>2 DEF Bound
  <1>4. ASSUME ~context'.internal_failure, NEW d, DeclaredIn(ast', todo', d)
        PROVE  \E i \in DOMAIN symbols :
                 /\ symbols[i].name = ast'[d].name
                 /\ symbols[i].owner = Ordinal(ast', BlockAt(ast', d)) + 1
    <2>1. Declared(d) /\ d \in DOMAIN ast /\ ~context.internal_failure
      BY <1>2, <1>4
    <2>2. PICK i \in DOMAIN symbols :
                 /\ symbols[i].name = ast[d].name
                 /\ symbols[i].owner = Ordinal(ast, BlockAt(ast, d)) + 1
      BY <2>1 DEF Bound
    <2> QED BY <1>1, <2>1, <2>2
  <1> QED BY <1>3, <1>4 DEF Bound, Declared

\* They still correspond when a declaration is over and bound: a symbol is
\* inserted for it, or there was one for its name in its block.
LEMMA BoundGrows ==
  ASSUME Structured, Bound, Grown,
         NEW n, NEW ty, NEW p \in DOMAIN ast', ast'[p].name = n,
         \/ context'.symbols.symbols = context.symbols.symbols
         \/ context'.symbols = Insert(context.symbols, n, ty, p),
         context.internal_failure => context'.internal_failure,
         \A d : DeclaredIn(ast', todo', d) <=> (Declared(d) \/ d = p),
         ~context'.internal_failure =>
           \E i \in DOMAIN context'.symbols.symbols :
             /\ context'.symbols.symbols[i].name = n
             /\ context'.symbols.symbols[i].owner =
                  Ordinal(ast', BlockAt(ast', p)) + 1
  PROVE  Bound'
  <1> DEFINE old == context.symbols.symbols
             new == context'.symbols.symbols
  <1>1. \A d \in DOMAIN ast :
          /\ d \in DOMAIN ast' /\ ast'[d] = ast[d]
          /\ Ordinal(ast', BlockAt(ast', d)) = Ordinal(ast, BlockAt(ast, d))
    BY GrownKeeps DEF Structured, TypeOK
  <1>2. \A d : Declared(d) => d \in DOMAIN ast
    BY DEF Declared, DeclaredIn
  <1>3. old \in Seq(Symbol)
    BY DEF Structured, Placed, PlacedIn, WellFormed, Table
  <1>4. /\ \A i \in DOMAIN old : i \in DOMAIN new /\ new[i] = old[i]
        /\ \A i \in DOMAIN new :
             \/ i \in DOMAIN old /\ new[i] = old[i]
             \/ new[i].line = p /\ new[i].name = n
    <2>1. CASE new = old
      BY <2>1
    <2>2. CASE context'.symbols = Insert(context.symbols, n, ty, p)
      <3>1. PICK s : new = Append(old, s) /\ s.line = p /\ s.name = n
        <4>1. context.symbols \in Table
          BY DEF Structured, Placed, PlacedIn, WellFormed
        <4> QED BY <2>2, <4>1 DEF Insert, Table
      <3> HIDE DEF old, new
      <3> QED BY <1>3, <3>1
    <2> QED BY <2>1, <2>2
  <1>5. ASSUME NEW i \in DOMAIN new
        PROVE  /\ DeclaredIn(ast', todo', new[i].line)
               /\ ast'[new[i].line].name = new[i].name
    <2>1. CASE i \in DOMAIN old /\ new[i] = old[i]
      <3>1. Declared(old[i].line) /\ ast[old[i].line].name = old[i].name
        BY <2>1 DEF Bound
      <3> QED BY <1>1, <1>2, <2>1, <3>1
    <2>2. CASE new[i].line = p /\ new[i].name = n
      BY <2>2
    <2> QED BY <1>4, <2>1, <2>2
  <1>6. ASSUME ~context'.internal_failure, NEW d, DeclaredIn(ast', todo', d)
        PROVE  \E i \in DOMAIN new :
                 /\ new[i].name = ast'[d].name
                 /\ new[i].owner = Ordinal(ast', BlockAt(ast', d)) + 1
    <2>1. CASE d = p
      BY <1>6, <2>1
    <2>2. CASE Declared(d)
      <3>1. PICK i \in DOMAIN old :
                   /\ old[i].name = ast[d].name
                   /\ old[i].owner = Ordinal(ast, BlockAt(ast, d)) + 1
        BY <1>2, <1>6, <2>2 DEF Bound
      <3> QED BY <1>1, <1>2, <1>4, <2>2, <3>1
    <2> QED BY <1>6, <2>1, <2>2
  <1> QED BY <1>5, <1>6 DEF Bound, Declared

\* What is new in the text is reported as it should be, and nothing is
\* reported about names elsewhere.
LEMMA NamesGrow ==
  ASSUME Structured, Said, NEW v \in Visits, ast' = Append(ast, v),
         NEW codes \in SUBSET Codes, MoreReported(context, context', codes, Here),
         ~context'.internal_failure =>
           NameReported(ast', context'.diagnostics, Here)
  PROVE  NamesReported'
  <1>1. /\ ast \in Seq(Visits) /\ context \in Context /\ Here \in Nat
        /\ DOMAIN ast' = DOMAIN ast \cup {Here} /\ Here \notin DOMAIN ast
    BY DEF Structured, TypeOK, Here
  <1> SUFFICES ASSUME ~context'.internal_failure, NEW p \in DOMAIN ast, p # Here
               PROVE  NameReported(ast', context'.diagnostics, p)
    BY <1>1 DEF NamesReported
  <1>2. NameReported(ast, context.diagnostics, p)
    BY DEF Said, NamesReported, MoreReported
  <1>3. ast'[p] = ast[p]
    BY <1>1
  <1>4. /\ DeclarationsOf(ast', ast[p].name, p) = DeclarationsOf(ast, ast[p].name, p)
        /\ InScope(ast', ast[p].name, p) = InScope(ast, ast[p].name, p)
        /\ Repeats(ast', p) <=> Repeats(ast, p)
    BY <1>1, SaidStays
  <1>5. \A code : ReportedIn(context'.diagnostics, code, p) <=>
                    ReportedIn(context.diagnostics, code, p)
    <2>1. \A code, q :
            /\ ReportedIn(context.diagnostics, code, q) =>
                 ReportedIn(context'.diagnostics, code, q)
            /\ ReportedIn(context'.diagnostics, code, q) =>
                 \/ ReportedIn(context.diagnostics, code, q)
                 \/ code \in codes /\ q = Here
      BY <1>1, MoreIsReported
    <2> QED BY <2>1
  <1>6. /\ (ReportedIn(context'.diagnostics, "SEM_UNDECLARED", p) <=>
             ReportedIn(context.diagnostics, "SEM_UNDECLARED", p))
        /\ (ReportedIn(context'.diagnostics, "SEM_SCOPE_VIOLATION", p) <=>
             ReportedIn(context.diagnostics, "SEM_SCOPE_VIOLATION", p))
        /\ (ReportedIn(context'.diagnostics, "SEM_REDECLARATION", p) <=>
             ReportedIn(context.diagnostics, "SEM_REDECLARATION", p))
    BY <1>5
  <1> QED BY <1>2, <1>3, <1>4, <1>6 DEF NameReported

\* No position after the program has been reported.
LEMMA NothingAhead ==
  ASSUME Structured, Said
  PROVE  /\ Here \in Nat /\ Here \notin DOMAIN ast
         /\ \A code : ~ReportedAt(code, Here)
  <1>1. Here \in Nat /\ Here \notin DOMAIN ast
    BY DEF Structured, TypeOK, Here
  <1>2. \A i \in DOMAIN context.diagnostics : context.diagnostics[i].line # Here
    BY <1>1 DEF Said, ReportedOnce
  <1> QED BY <1>1, <1>2 DEF ReportedAt, ReportedIn

\* A visit of a node without a name.
LEMMA NamelessGrow ==
  ASSUME Structured, Said, NEW v \in Visits, ~Uses(v), ~Declares(v),
         ast' = Append(ast, v), MoreReported(context, context', TypeCodes, Here)
  PROVE  NamesReported'
  <1>1. TypeCodes \in SUBSET Codes /\ context \in Context /\ ast \in Seq(Visits)
    BY DEF TypeCodes, Codes, Structured, TypeOK
  <1>2. ast'[Here] = v
    BY <1>1 DEF Here
  <1>3. \A code : ReportedIn(context'.diagnostics, code, Here) => code \in TypeCodes
    <2>1. \A code : ~ReportedIn(context.diagnostics, code, Here)
      BY NothingAhead DEF ReportedAt
    <2> QED BY <1>1, <2>1, NothingAhead, MoreIsReported
  <1>4. NameReported(ast', context'.diagnostics, Here)
    BY <1>2, <1>3 DEF NameReported, TypeCodes
  <1> QED BY <1>1, <1>4, NamesGrow

\* The end of a statement.
LEMMA NamesStay ==
  ASSUME Structured, Said, ast' = ast, NEW line \in Nat,
         MoreReported(context, context', TypeCodes, line)
  PROVE  NamesReported'
  <1>1. TypeCodes \in SUBSET Codes /\ context \in Context
    BY DEF TypeCodes, Codes, Structured, TypeOK
  <1> SUFFICES ASSUME ~context'.internal_failure, NEW p \in DOMAIN ast
               PROVE  NameReported(ast, context'.diagnostics, p)
    BY DEF NamesReported
  <1>2. NameReported(ast, context.diagnostics, p)
    BY DEF Said, NamesReported, MoreReported
  <1>3. \A code : code \notin TypeCodes =>
          (ReportedIn(context'.diagnostics, code, p) <=>
             ReportedIn(context.diagnostics, code, p))
    BY <1>1, MoreIsReported
  <1>4. {"SEM_UNDECLARED", "SEM_SCOPE_VIOLATION", "SEM_REDECLARATION"}
          \cap TypeCodes = {}
    BY DEF TypeCodes
  <1> QED BY <1>2, <1>3, <1>4 DEF NameReported

\* A step that reports something new, if anything, while the analysis runs.
LEMMA RunningSaid ==
  ASSUME Structured, Said, Grown, status' = "running",
         NEW codes \in SUBSET Codes, NEW line \in Nat,
         MoreReported(context, context', codes, line),
         \A code \in codes : ~ReportedAt(code, line),
         context'.diagnostics # context.diagnostics => line \in DOMAIN ast',
         Separated', Bound', NamesReported', Unreported'
  PROVE  Said'
  <1>1. context \in Context /\ ast \in Seq(Visits)
    BY DEF Structured, TypeOK
  <1>2. \A d \in DOMAIN ast : d \in DOMAIN ast'
    BY <1>1, GrownKeeps
  <1>3. /\ context.error_count = Len(context.diagnostics)
        /\ \A i, j \in DOMAIN context.diagnostics :
             context.diagnostics[i] = context.diagnostics[j] => i = j
        /\ \A code \in codes : ~ReportedIn(context.diagnostics, code, line)
        /\ \A i \in DOMAIN context.diagnostics :
             context.diagnostics[i].line \in DOMAIN ast'
    BY <1>2 DEF Said, ErrorsCounted, ReportedOnce, ReportedAt
  <1>4. /\ context'.error_count = Len(context'.diagnostics)
        /\ \A i, j \in DOMAIN context'.diagnostics :
             context'.diagnostics[i] = context'.diagnostics[j] => i = j
        /\ \A i \in DOMAIN context'.diagnostics :
             context'.diagnostics[i].line \in DOMAIN ast'
    BY <1>1, <1>3, MoreIsOnce
  <1>5. ReportedOnce' /\ ErrorsCounted'
    BY <1>4 DEF ReportedOnce, ErrorsCounted, Analyzed
  <1> QED BY <1>5 DEF Said

\* Back in a list or between blocks, nothing waits for an expression.
LEMMA ReturnedSaid ==
  ASSUME Structured', ~ExpressionExpected'
  PROVE  /\ Separated' /\ Unreported' /\ operands' = << >>
         /\ \A d : ~PendingIn(todo', d)
  <1>1. operands' = << >>
    BY DEF Structured, Underway
  <1>2. ~At("declaration")' /\ ~At("assignment")'
    BY DEF ExpressionExpected
  <1>3. Separated'
    BY <1>2 DEF Separated, ExpressionExpected
  <1>4. Unreported'
    BY <1>1, <1>2 DEF Unreported
  <1>5. \A d : ~PendingIn(todo', d)
    BY <1>2 DEF PendingIn, At
  <1> QED BY <1>1, <1>3, <1>4, <1>5

\* The symbol that was inserted for a declaration.
LEMMA InsertedSymbol ==
  ASSUME NEW t \in Table, NEW n, NEW ty, NEW line, NEW text, NEW u,
         u = Insert(t, n, ty, line), SymbolsPlaced(text, u)
  PROVE  \E i \in DOMAIN u.symbols :
           /\ u.symbols[i].name = n
           /\ u.symbols[i].owner = Ordinal(text, BlockAt(text, line)) + 1
  <1>1. t.symbols \in Seq(Symbol)
    BY DEF Table
  <1>2. PICK s : u.symbols = Append(t.symbols, s) /\ s.line = line /\ s.name = n
    <2> DEFINE new == [name |-> n, type |-> ty, line |-> line,
                       scope_id |-> CurrentFrame(t).id,
                       scope_depth |-> CurrentFrame(t).depth, owner |-> t.current]
    <2>1. u.symbols = Append(t.symbols, new)
      BY DEF Insert, Table
    <2>2. new.line = line /\ new.name = n
      OBVIOUS
    <2> HIDE DEF new
    <2> QED BY <2>1, <2>2
  <1> DEFINE i == Len(t.symbols) + 1
  <1>3. i \in DOMAIN u.symbols /\ u.symbols[i] = s
    BY <1>1, <1>2
  <1> HIDE DEF i
  <1>4. u.symbols[i].owner = Ordinal(text, BlockAt(text, line)) + 1
    BY <1>2, <1>3 DEF SymbolsPlaced
  <1> QED BY <1>2, <1>3, <1>4

\* The symbol that a repeated declaration repeats.
LEMMA RepeatedSymbol ==
  ASSUME NEW V, NEW text \in Seq(V), NEW t, PlacedIn(text, t), NEW n,
         LookupCurrent(t, n) # Null
  PROVE  \E i \in DOMAIN t.symbols :
           /\ t.symbols[i].name = n
           /\ t.symbols[i].owner =
                Ordinal(text, BlockAt(text, Len(text) + 1)) + 1
  <1>1. WellFormed(t) /\ FramesMatch(text, t)
    BY DEF PlacedIn
  <1>2. LookupCurrent(t, n) \in Holding(t, t.current, n)
    BY <1>1, LookupInScopeAnswer DEF LookupCurrent
  <1>3. t.current = Ordinal(text, BlockAt(text, Len(text) + 1)) + 1
    BY <1>1, CurrentIsInnermost
  <1> QED BY <1>2, <1>3 DEF Holding

\* The start of a block says nothing.
LEMMA EnterSaid ==
  ASSUME Structured, Said, VisitBlockStatement \/ VisitOwnBlock
  PROVE  Said'
  <1>1. Structured' /\ ~ExpressionExpected'
    BY EnterSteps
  <1>2. /\ Separated' /\ Unreported' /\ \A d : ~PendingIn(todo', d)
    BY <1>1, ReturnedSaid
  <1>3. \A d : ~PendingIn(todo, d)
    BY DEF VisitBlockStatement, VisitOwnBlock, At, PendingIn
  <1>4. /\ status' = "running" /\ ast \in Seq(Visits) /\ context \in Context
        /\ Here \in Nat
    BY DEF VisitBlockStatement, VisitOwnBlock, Structured, TypeOK, Here
  <1>5. PICK rest : EnterBlock(rest)
    BY DEF VisitBlockStatement, VisitOwnBlock
  <1>6. CASE /\ context' = [context EXCEPT !.symbols = EnterScope(@)]
             /\ ast' = Append(ast, Block)
    <2>1. /\ context'.diagnostics = context.diagnostics
          /\ context'.error_count = context.error_count
          /\ context.internal_failure => context'.internal_failure
          /\ context'.symbols.symbols = context.symbols.symbols
      BY <1>4, <1>6 DEF Context, EnterScope
    <2>2. /\ Block \in Visits /\ ~Uses(Block) /\ ~Declares(Block)
      BY DEF Block, Visits, Statements, Uses, Declares
    <2>3. NamesReported'
      BY <1>6, <2>1, <2>2, SameReported, NamelessGrow
    <2>4. Grown
      BY <1>6, <2>2 DEF Grown
    <2>5. Bound'
      <3>1. \A d : DeclaredIn(ast', todo', d) <=> Declared(d)
        BY <1>2, <1>3, <1>4, <1>6, <2>2, DeclaredStays
      <3> QED BY <2>1, <2>4, <3>1, BoundStays DEF Said
    <2>6. MoreReported(context, context', {}, Here)
      BY <2>1, SameReported
    <2> QED BY <1>2, <1>4, <2>1, <2>3, <2>4, <2>5, <2>6, RunningSaid
  <1>7. CASE context' = Fail(context) /\ ast' = ast
    <2>1. /\ context'.diagnostics = context.diagnostics
          /\ context'.error_count = context.error_count
          /\ context.internal_failure => context'.internal_failure
          /\ context'.symbols.symbols = context.symbols.symbols
      BY <1>4, <1>7 DEF Context, Fail
    <2>2. NamesReported'
      BY <1>4, <1>7, <2>1, SameReported, NamesStay
    <2>3. Grown
      BY <1>7 DEF Grown
    <2>4. Bound'
      <3>1. \A d : DeclaredIn(ast', todo', d) <=> Declared(d)
        BY <1>2, <1>3, <1>4, <1>7, DeclaredStays
      <3> QED BY <2>1, <2>3, <3>1, BoundStays DEF Said
    <2>5. MoreReported(context, context', {}, Here)
      BY <2>1, SameReported
    <2> QED BY <1>2, <1>4, <2>1, <2>2, <2>3, <2>4, <2>5, RunningSaid
  <1> QED BY <1>5, <1>6, <1>7 DEF EnterBlock

\* So does its end.
LEMMA LeaveSaid ==
  ASSUME Structured, Said, LeaveBlock
  PROVE  Said'
  <1>1. /\ Structured' /\ ~ExpressionExpected'
        /\ context' = [context EXCEPT !.symbols = ExitScope(@)]
    BY LeaveStep
  <1>2. /\ Separated' /\ Unreported' /\ \A d : ~PendingIn(todo', d)
    BY <1>1, ReturnedSaid
  <1>3. \A d : ~PendingIn(todo, d)
    BY DEF LeaveBlock, At, PendingIn
  <1>4. /\ status' = "running" /\ ast \in Seq(Visits) /\ context \in Context
        /\ Here \in Nat /\ ast' = Append(ast, EndBlock)
        /\ context.symbols \in Table
    BY DEF LeaveBlock, Visit, Structured, TypeOK, Placed, PlacedIn, WellFormed,
           Here
  <1>5. /\ context'.diagnostics = context.diagnostics
        /\ context'.error_count = context.error_count
        /\ context.internal_failure => context'.internal_failure
        /\ context'.symbols = ExitScope(context.symbols)
    BY <1>1, <1>4 DEF Context
  <1>6. context'.symbols.symbols = context.symbols.symbols
    BY <1>4, <1>5 DEF ExitScope, Table
  <1>7. EndBlock \in Visits /\ ~Uses(EndBlock) /\ ~Declares(EndBlock)
    BY DEF EndBlock, Visits, Uses, Declares
  <1>8. NamesReported'
    BY <1>4, <1>5, <1>7, SameReported, NamelessGrow
  <1>9. Grown
    BY <1>4, <1>7 DEF Grown
  <1>10. Bound'
    <2>1. \A d : DeclaredIn(ast', todo', d) <=> Declared(d)
      BY <1>2, <1>3, <1>4, <1>7, DeclaredStays
    <2> QED BY <1>5, <1>6, <1>9, <2>1, BoundStays DEF Said
  <1>11. MoreReported(context, context', {}, Here)
    BY <1>5, SameReported
  <1> QED BY <1>2, <1>4, <1>5, <1>8, <1>9, <1>10, <1>11, RunningSaid

\* The end of a declaration binds its name, unless it is bound in the block.
LEMMA FinishDeclarationSaid ==
  ASSUME Structured, Said, FinishDeclaration
  PROVE  Said'
  <1> DEFINE d == Last(todo)
             t == context.symbols
  <1>1. /\ Structured' /\ ~ExpressionExpected'
        /\ IsDeclared(context, d, context')
    BY FinishDeclarationStep
  <1>2. /\ Separated' /\ Unreported' /\ \A x : ~PendingIn(todo', x)
    BY <1>1, ReturnedSaid
  <1>3. ReturnTo("declaration")
    BY DEF FinishDeclaration
  <1>4. /\ todo # << >> /\ d \in Todo /\ d.at = "declaration"
        /\ status' = "running" /\ ast' = ast /\ PlacedIn(ast, t)
        /\ ast \in Seq(Visits) /\ context \in Context
    BY <1>3, ReturnPops DEF Placed
  <1>5. d.line \in Nat /\ d.redeclared \in BOOLEAN
    BY <1>4, TodoFields
  <1>6. /\ d.line \in DOMAIN ast
        /\ BlockAt(ast, d.line) = BlockAt(ast, Len(ast) + 1)
        /\ d.redeclared <=> LookupCurrent(t, d.name) # Null
    BY <1>4 DEF Structured, Waiting, At, Here
  <1>7. ast[d.line].name = d.name /\ Declares(ast[d.line])
    BY <1>4 DEF Said, Separated, At, Declaration, Declares
  <1>8. \A x : PendingIn(todo, x) <=> x = d.line
    BY <1>4 DEF PendingIn
  <1>9. \A x : DeclaredIn(ast', todo', x) <=> (Declared(x) \/ x = d.line)
    BY <1>2, <1>4, <1>6, <1>7, <1>8 DEF Declared, DeclaredIn
  <1>10. Grown
    BY <1>4 DEF Grown
  <1>11. ~ReportedAt("SEM_TYPE_MISMATCH", d.line)
    BY <1>4 DEF Said, Unreported, At
  <1> HIDE DEF d
  <1>12. /\ MoreReported(context, context', {"SEM_TYPE_MISMATCH"}, d.line)
         /\ MoreReported(context, context', TypeCodes, d.line)
    BY <1>1 DEF IsDeclared, MoreReported, TypeCodes
  <1>13. NamesReported'
    BY <1>4, <1>5, <1>12, NamesStay
  <1>14. t \in Table /\ SymbolsPlaced(ast', context'.symbols)
    BY <1>1, <1>4 DEF PlacedIn, WellFormed, Structured, Placed
  <1>15. ~context'.internal_failure =>
           \E i \in DOMAIN context'.symbols.symbols :
             /\ context'.symbols.symbols[i].name = d.name
             /\ context'.symbols.symbols[i].owner =
                  Ordinal(ast', BlockAt(ast', d.line)) + 1
    <2> SUFFICES ASSUME ~context'.internal_failure
                 PROVE  \E i \in DOMAIN context'.symbols.symbols :
                          /\ context'.symbols.symbols[i].name = d.name
                          /\ context'.symbols.symbols[i].owner =
                               Ordinal(ast', BlockAt(ast', d.line)) + 1
      OBVIOUS
    <2>1. CASE d.redeclared
      <3>1. context'.symbols = t
        BY <1>1, <2>1 DEF IsDeclared
      <3>2. LookupCurrent(t, d.name) # Null
        BY <1>6, <2>1
      <3> HIDE DEF t
      <3> QED BY <1>4, <1>6, <3>1, <3>2, RepeatedSymbol
    <2>2. CASE ~d.redeclared
      <3>1. context'.symbols = Insert(t, d.name, d.type, d.line)
        BY <1>1, <2>2 DEF IsDeclared
      <3> HIDE DEF t
      <3> QED BY <1>14, <3>1, InsertedSymbol
    <2> QED BY <2>1, <2>2
  <1>16. Bound'
    <2>1. /\ \/ context'.symbols.symbols = context.symbols.symbols
             \/ context'.symbols = Insert(context.symbols, d.name, d.type, d.line)
          /\ context.internal_failure => context'.internal_failure
      BY <1>1 DEF IsDeclared
    <2>2. d.line \in DOMAIN ast' /\ ast'[d.line].name = d.name
      BY <1>4, <1>6, <1>7
    <2>3. Bound
      BY DEF Said
    <2> QED BY <1>9, <1>10, <1>15, <2>1, <2>2, <2>3, BoundGrows
  <1>17. "SEM_TYPE_MISMATCH" \in Codes /\ d.line \in DOMAIN ast'
    BY <1>4, <1>6 DEF Codes
  <1> QED BY <1>2, <1>4, <1>5, <1>10, <1>11, <1>12, <1>13, <1>16, <1>17,
             RunningSaid

\* A report or none.
LEMMA ReportIfIsMore ==
  ASSUME NEW b \in Context, NEW condition \in BOOLEAN, NEW code \in Codes,
         NEW line \in Nat, NEW written \in BOOLEAN, NEW codes,
         condition => code \in codes
  PROVE  MoreReported(b, ReportIf(condition, b, code, line, written), codes, line)
  <1>1. CASE condition = TRUE
    BY <1>1, ReportIsMore DEF ReportIf
  <1>2. CASE condition = FALSE
    BY <1>2, SameReported DEF ReportIf
  <1> QED BY <1>1, <1>2

\* What the end of an assignment or of a condition reports is a type that is
\* wrong, and it was not reported there before.
LEMMA FinishReports ==
  ASSUME Structured, Said, FinishAssignment \/ FinishCondition
  PROVE  \E codes \in SUBSET TypeCodes, line \in DOMAIN ast :
           /\ MoreReported(context, context', codes, line)
           /\ \A code \in codes : ~ReportedAt(code, line)
  <1>1. context \in Context /\ ast \in Seq(Visits) /\ operands \in Seq(Operand)
    BY DEF Structured, TypeOK
  <1>2. {"SEM_INVALID_ASSIGNMENT", "SEM_TYPE_MISMATCH"} \subseteq Codes \cap TypeCodes
    BY DEF Codes, TypeCodes
  <1>3. CASE FinishAssignment
    <2> DEFINE line == Last(todo).line
               code == "SEM_INVALID_ASSIGNMENT"
    <2>1. At("assignment")
      BY <1>3 DEF FinishAssignment, ReturnTo
    <2>2. line \in DOMAIN ast /\ ~ReportedAt(code, line)
      BY <2>1 DEF Said, Unreported
    <2>3. PICK condition \in BOOLEAN, written \in BOOLEAN :
            context' = ReportIf(condition, context, code, line, written)
      <3>1. PICK written \in Written :
              context' = ReportIf(Last(todo).target.valid /\ operands[1].valid
                                    /\ Last(todo).target.type # operands[1].type,
                                  context, code, line, written)
        BY <1>3 DEF FinishAssignment
      <3>2. written \in BOOLEAN
        BY Outcomes
      <3> DEFINE condition == /\ Last(todo).target.valid /\ operands[1].valid
                              /\ Last(todo).target.type # operands[1].type
      <3>3. CASE condition
        BY <3>1, <3>2, <3>3 DEF ReportIf
      <3>4. CASE ~condition
        BY <3>1, <3>2, <3>4 DEF ReportIf
      <3> QED BY <3>3, <3>4
    <2>4. line \in Nat
      BY <1>1, <2>2
    <2>5. MoreReported(context, context', {code}, line)
      BY <1>1, <1>2, <2>3, <2>4, ReportIfIsMore
    <2> QED BY <1>2, <2>2, <2>5
  <1>4. CASE FinishCondition
    <2> DEFINE line == Len(ast)
               code == "SEM_TYPE_MISMATCH"
               condition == operands[1].valid /\ operands[1].type # "bool"
    <2>1. At("condition") /\ Len(operands) = 1
      BY <1>4 DEF FinishCondition, ReturnTo, ExpressionDone
    <2>2. line \in DOMAIN ast /\ line \in Nat
      BY <1>1, <2>1 DEF Said, Separated, ExpressionExpected
    <2>3. PICK written \in Written :
            context' = ReportIf(condition, context, code, line, written)
      BY <1>4 DEF FinishCondition
    <2>4. written \in BOOLEAN
      BY Outcomes
    <2>5. CASE condition
      <3>1. operands # << >> /\ Last(operands) = operands[1]
        <4>1. Len(operands) = 1
          BY <2>1
        <4>2. operands # << >>
          BY <4>1
        <4> QED BY <4>1, <4>2 DEF Last
      <3>2. ~ReportedAt(code, line)
        <4>1. \A i \in DOMAIN context.diagnostics :
                context.diagnostics[i].line # line
          BY <2>5, <3>1 DEF Said, Unreported
        <4>2. [code |-> code, line |-> line].line = line
          OBVIOUS
        <4> HIDE DEF line
        <4> QED BY <4>1, <4>2 DEF ReportedAt, ReportedIn
      <3>3. context' = Report(context, code, line, written)
        BY <2>3, <2>5 DEF ReportIf
      <3>4. MoreReported(context, context', {code}, line)
        BY <1>1, <1>2, <2>2, <2>4, <3>3, ReportIsMore
      <3> QED BY <1>2, <2>2, <3>2, <3>4
    <2>6. CASE ~condition
      <3>1. context' = context
        BY <2>3, <2>6 DEF ReportIf
      <3>2. MoreReported(context, context', {}, line)
        BY <3>1, SameReported
      <3> QED BY <2>2, <3>2
    <2> QED BY <2>5, <2>6
  <1> QED BY <1>3, <1>4

\* The end of an assignment or of a condition says that a type is wrong, if
\* anything.
LEMMA FinishSaid ==
  ASSUME Structured, Said, FinishAssignment \/ FinishCondition
  PROVE  Said'
  <1>1. Structured' /\ ~ExpressionExpected' /\ Reporting
    BY FinishSteps
  <1>2. Separated' /\ Unreported' /\ \A d : ~PendingIn(todo', d)
    BY <1>1, ReturnedSaid
  <1>3. PICK where \in {"assignment", "condition"} : ReturnTo(where)
    BY DEF FinishAssignment, FinishCondition
  <1>4. /\ Last(todo).at = where /\ status' = "running" /\ ast' = ast
        /\ ast \in Seq(Visits)
    <2>1. where # "list"
      OBVIOUS
    <2> QED BY <1>3, <2>1, ReturnPops
  <1>5. \A d : ~PendingIn(todo, d)
    BY <1>4 DEF PendingIn
  <1>6. /\ context'.symbols = context.symbols
        /\ context.internal_failure => context'.internal_failure
    BY <1>1, ReportingEffect DEF Structured
  <1>7. Grown
    BY <1>4 DEF Grown
  <1>8. Bound'
    <2>1. \A d : DeclaredIn(ast', todo', d) <=> Declared(d)
      BY <1>2, <1>4, <1>5, DeclaredStays
    <2> QED BY <1>6, <1>7, <2>1, BoundStays DEF Said
  <1>9. PICK codes \in SUBSET TypeCodes, line \in DOMAIN ast :
          /\ MoreReported(context, context', codes, line)
          /\ \A code \in codes : ~ReportedAt(code, line)
    BY FinishReports
  <1>10. line \in Nat /\ line \in DOMAIN ast' /\ codes \in SUBSET Codes
    BY <1>4 DEF TypeCodes, Codes
  <1>11. NamesReported'
    <2>1. MoreReported(context, context', TypeCodes, line)
      BY <1>9 DEF MoreReported
    <2> QED BY <1>4, <1>10, <2>1, NamesStay
  <1> QED BY <1>2, <1>4, <1>7, <1>8, <1>9, <1>10, <1>11, RunningSaid

\* A visit in an expression: what is in error has been reported, and nothing
\* was reported about what is not.
LEMMA ExpressionSaid ==
  ASSUME Structured, Said, NEW v \in Expressions, VisitExpression(v),
         context'.symbols = context.symbols,
         NEW codes \in SUBSET Codes, MoreReported(context, context', codes, Here),
         NamesReported',
         Last(operands').valid => context'.diagnostics = context.diagnostics
  PROVE  Said'
  <1>1. /\ ast \in Seq(Visits) /\ v \in Visits /\ IsExpression(v) /\ ~Declares(v)
        /\ ast' = Append(ast, v) /\ status' = "running" /\ todo' = todo
        /\ ExpressionExpected /\ context \in Context
    BY DEF Structured, TypeOK, VisitExpression, Visit, Visits, Expressions,
           Identifier, Literal, Binary, Unary, IsExpression, Declares
  <1>2. /\ Here \in Nat /\ Here = Len(ast) + 1 /\ Len(ast') = Here
        /\ DOMAIN ast' = DOMAIN ast \cup {Here} /\ Here \notin DOMAIN ast
        /\ ast'[Here] = v /\ \A q \in DOMAIN ast : ast'[q] = ast[q]
        /\ DOMAIN ast = 1 .. Len(ast) /\ Len(ast) \in Nat /\ ast' # << >>
    BY <1>1 DEF Here
  <1>3. \A d : DeclaredIn(ast', todo', d) <=> Declared(d)
    BY <1>1, DeclaredStays
  <1>4. Grown
    BY <1>1 DEF Grown
  <1>5. Bound'
    BY <1>3, <1>4, BoundStays DEF Said, MoreReported
  <1>6. Separated'
    <2>1. ASSUME At("declaration")
          PROVE  LET d == Last(todo)
                 IN  /\ d.line \in DOMAIN ast'
                     /\ ast'[d.line] = Declaration(d.name, d.type, TRUE)
                     /\ \A q \in d.line + 1 .. Len(ast') : IsExpression(ast'[q])
      <3> DEFINE d == Last(todo)
      <3>1. /\ d.line \in DOMAIN ast
            /\ ast[d.line] = Declaration(d.name, d.type, TRUE)
            /\ \A q \in d.line + 1 .. Len(ast) : IsExpression(ast[q])
        BY <2>1 DEF Said, Separated
      <3> HIDE DEF d
      <3>2. ASSUME NEW q \in d.line + 1 .. Len(ast')
            PROVE  IsExpression(ast'[q])
        <4>1. q = Here \/ (q \in d.line + 1 .. Len(ast) /\ q \in DOMAIN ast)
          BY <1>2, <3>1
        <4> QED BY <1>1, <1>2, <3>1, <4>1
      <3> QED BY <1>2, <3>1, <3>2 DEF d
    <2>2. ASSUME NEW d, DeclaredIn(ast', todo', d)
          PROVE  \E q \in d + 1 .. Len(ast') : ~IsExpression(ast'[q])
      <3>1. Declared(d) /\ d \in DOMAIN ast
        BY <1>3, <2>2 DEF Declared, DeclaredIn
      <3>2. PICK q \in d + 1 .. Len(ast) : ~IsExpression(ast[q])
        BY <1>1, <3>1 DEF Said, Separated
      <3>3. d \in Nat /\ Len(ast') = Len(ast) + 1
        BY <1>2, <3>1
      <3>4. q \in DOMAIN ast /\ q \in d + 1 .. Len(ast')
        BY <1>2, <3>3
      <3>5. ast'[q] = ast[q]
        BY <1>2, <3>4
      <3> QED BY <3>2, <3>4, <3>5
    <2> QED BY <1>1, <1>2, <2>1, <2>2 DEF Separated, At, Declared
  <1>7. \A code, p : p \in DOMAIN ast /\ ReportedIn(context'.diagnostics, code, p)
                       => ReportedAt(code, p)
    <2>1. \A code, p : ReportedIn(context'.diagnostics, code, p) =>
                         \/ ReportedIn(context.diagnostics, code, p)
                         \/ p = Here
      <3>1. context \in Context /\ Here \in Nat
        BY <1>1, <1>2
      <3>2. \A code, p :
              /\ ReportedIn(context.diagnostics, code, p) =>
                   ReportedIn(context'.diagnostics, code, p)
              /\ ReportedIn(context'.diagnostics, code, p) =>
                   \/ ReportedIn(context.diagnostics, code, p)
                   \/ code \in codes /\ p = Here
        BY <3>1, MoreIsReported
      <3> QED BY <3>2
    <2> QED BY <1>2, <2>1 DEF ReportedAt
  <1>8. Unreported'
    <2>1. At("declaration") =>
            ~ReportedIn(context'.diagnostics, "SEM_TYPE_MISMATCH", Last(todo).line)
      BY <1>7 DEF Said, Separated, Unreported
    <2>2. At("assignment") =>
            /\ Last(todo).line \in DOMAIN ast'
            /\ ~ReportedIn(context'.diagnostics, "SEM_INVALID_ASSIGNMENT",
                           Last(todo).line)
      BY <1>2, <1>7 DEF Said, Unreported
    <2>3. ASSUME Last(operands').valid, NEW i \in DOMAIN context'.diagnostics
          PROVE  context'.diagnostics[i].line # Len(ast')
      <3>1. context.diagnostics[i].line \in DOMAIN ast
        BY <2>3 DEF Said, ReportedOnce
      <3> QED BY <1>2, <2>3, <3>1
    <2> QED BY <1>1, <2>1, <2>2, <2>3 DEF Unreported, At, ReportedAt
  <1>9. \A code \in codes : ~ReportedAt(code, Here)
    BY NothingAhead
  <1> QED BY <1>1, <1>2, <1>4, <1>5, <1>6, <1>8, <1>9, RunningSaid

\* A use of a name is reported as the text says, and only if the name does
\* not denote anything.
LEMMA UseReported ==
  ASSUME Structured, Said, NEW v \in Visits, ast' = Append(ast, v), Uses(v),
         \/ At("list") /\ ~IsExpression(v)
         \/ ExpressionExpected /\ IsExpression(v),
         NEW written \in BOOLEAN,
         context' = ReportUnresolved(context, v.name, Here, written)
  PROVE  /\ MoreReported(context, context',
                         {"SEM_UNDECLARED", "SEM_SCOPE_VIOLATION"}, Here)
         /\ NamesReported'
         /\ LookupActive(context.symbols, v.name) # Null => context' = context
  <1> DEFINE n == v.name
             t == context.symbols
             code == IF LookupHistory(t, n) # Null THEN "SEM_SCOPE_VIOLATION"
                                                   ELSE "SEM_UNDECLARED"
             codes == {"SEM_UNDECLARED", "SEM_SCOPE_VIOLATION"}
  <1>1. /\ context \in Context /\ ast \in Seq(Visits) /\ Here \in Nat
        /\ ast'[Here] = v /\ ~Declares(v)
    BY DEF Structured, TypeOK, Here, Uses, Declares
  <1>2. code \in codes /\ codes \in SUBSET Codes /\ code \in Codes
    BY DEF Codes
  <1>3. LookupActive(t, n) # Null => context' = context
    BY DEF ReportUnresolved, ReportIf
  <1>4. LookupActive(t, n) = Null =>
          context' = Report(context, code, Here, written)
    BY DEF ReportUnresolved, ReportIf
  <1> HIDE DEF code, codes
  <1>5. /\ MoreReported(context, context', codes, Here)
        /\ MoreReported(context, context', {code}, Here)
        /\ LookupActive(t, n) = Null /\ ~context'.internal_failure =>
             ReportedIn(context'.diagnostics, code, Here)
    <2>1. CASE LookupActive(t, n) # Null
      BY <1>3, <2>1, SameReported
    <2>2. CASE LookupActive(t, n) = Null
      <3>1. code \in {code}
        OBVIOUS
      <3>2. MoreReported(context, context', codes, Here)
        BY <1>1, <1>2, <1>4, <2>2, ReportIsMore
      <3> QED BY <1>1, <1>2, <1>4, <2>2, <3>1, <3>2, ReportIsMore
    <2> QED BY <2>1, <2>2
  <1>6. ASSUME ~context'.internal_failure
        PROVE  NameReported(ast', context'.diagnostics, Here)
    <2>1. ~context.internal_failure
      BY <1>5, <1>6 DEF MoreReported
    <2>2. \A x : ReportedIn(context'.diagnostics, x, Here) <=>
                   LookupActive(t, n) = Null /\ x = code
      <3>1. \A x : ~ReportedIn(context.diagnostics, x, Here)
        BY NothingAhead DEF ReportedAt
      <3>2. CASE LookupActive(t, n) # Null
        BY <1>3, <3>1, <3>2
      <3>3. CASE LookupActive(t, n) = Null
        <4>1. {code} \in SUBSET Codes
          BY <1>2
        <4>2. \A x : ReportedIn(context'.diagnostics, x, Here) =>
                       ReportedIn(context.diagnostics, x, Here) \/ x \in {code}
          BY <1>1, <1>5, <4>1, MoreIsReported
        <4> QED BY <1>5, <1>6, <3>1, <3>3, <4>2
      <3> QED BY <3>2, <3>3
    <2>3. /\ LookupActive(t, n) # Null <=>
               \E d \in Named(n) : OpenAt(ast, BlockAt(ast, d), Here)
          /\ LookupActive(t, n) = Null =>
               (LookupHistory(t, n) # Null <=> Named(n) # {})
      <3>1. Bound
        BY DEF Said
      <3> QED BY <2>1, <3>1, Resolution
    <2>4. /\ DeclarationsOf(ast', n, Here) = Named(n)
          /\ InScope(ast', n, Here) =
               {d \in Named(n) : OpenAt(ast, BlockAt(ast, d), Here)}
      <3>1. Separated
        BY DEF Said
      <3> QED BY <1>1, <3>1, SaidOfNext
    <2>5. /\ InScope(ast', n, Here) # {} <=> LookupActive(t, n) # Null
          /\ LookupActive(t, n) # Null => DeclarationsOf(ast', n, Here) # {}
          /\ LookupActive(t, n) = Null =>
               (LookupHistory(t, n) # Null <=> DeclarationsOf(ast', n, Here) # {})
      BY <2>3, <2>4
    <2> HIDE DEF t
    <2> QED BY <1>1, <2>2, <2>5 DEF NameReported, code
  <1>7. NamesReported'
    BY <1>2, <1>5, <1>6, NamesGrow
  <1> QED BY <1>3, <1>5, <1>7 DEF codes

\* A visit in an expression that says at most that a type is wrong.
LEMMA TypeReported ==
  ASSUME Structured, Said, NEW v \in Expressions, VisitExpression(v), ~Uses(v),
         NEW code \in TypeCodes, NEW written \in BOOLEAN,
         context' = context \/ context' = Report(context, code, Here, written),
         Last(operands').valid => context' = context
  PROVE  Said'
  <1>1. /\ context \in Context /\ Here \in Nat /\ ast' = Append(ast, v)
        /\ v \in Visits /\ ~Declares(v)
        /\ code \in Codes /\ TypeCodes \in SUBSET Codes
    BY DEF Structured, TypeOK, Here, VisitExpression, Visit, Visits, Expressions,
           Identifier, Literal, Binary, Unary, Declares, TypeCodes, Codes
  <1>2. /\ MoreReported(context, context', TypeCodes, Here)
        /\ context'.symbols = context.symbols
    <2>1. CASE context' = context
      BY <2>1, SameReported
    <2>2. CASE context' = Report(context, code, Here, written)
      <3>1. MoreReported(context, context', TypeCodes, Here)
        BY <1>1, <2>2, ReportIsMore
      <3>2. context'.symbols = context.symbols
        BY <1>1, <2>2, ReportEffect
      <3> QED BY <3>1, <3>2
    <2> QED BY <2>1, <2>2
  <1>3. NamesReported'
    BY <1>1, <1>2, NamelessGrow
  <1> QED BY <1>1, <1>2, <1>3, ExpressionSaid

\* The visits of expressions say what they should.
LEMMA ExpressionsSaid ==
  ASSUME Structured, Said,
         \/ \E n \in Names : VisitIdentifier(n)
         \/ \E ty \in Types : VisitLiteral(ty)
         \/ \E op \in BinaryOperators : VisitBinary(op)
         \/ VisitUnary
  PROVE  Said'
  <1>1. /\ TypeOK /\ WellFormed(context.symbols) /\ operands \in Seq(Operand)
        /\ context \in Context /\ ~Error.valid
    BY DEF Structured, TypeOK, Placed, PlacedIn, Error
  <1>2. Error \in Operand /\ \A ty \in Types : OfType(ty) \in Operand
    BY TypesAssumption DEF Operand, Error, OfType
  <1>3. ASSUME NEW n \in Names, VisitIdentifier(n)
        PROVE  Said'
    <2> DEFINE v == Identifier(n)
               codes == {"SEM_UNDECLARED", "SEM_SCOPE_VIOLATION"}
    <2>1. /\ v \in Expressions /\ VisitExpression(v) /\ Uses(v) /\ v.name = n
          /\ IsExpression(v) /\ v \in Visits
      BY <1>3 DEF VisitIdentifier, Expressions, Identifier, Uses, IsExpression,
                  Visits
    <2>2. ExpressionExpected /\ ast' = Append(ast, v)
      BY <2>1 DEF VisitExpression, Visit
    <2>3. PICK written \in BOOLEAN :
            context' = ReportUnresolved(context, v.name, Here, written)
      BY <1>3, <2>1, Outcomes DEF VisitIdentifier
    <2>4. Last(operands') = Resolved(context, n)
      <3>1. Resolved(context, n) \in Operand
        BY <1>1, ResolvedType
      <3>2. operands' = Append(operands, Resolved(context, n))
        BY <1>3 DEF VisitIdentifier
      <3> QED BY <1>1, <3>1, <3>2, LastOfAppend
    <2> HIDE DEF v
    <2>5. /\ MoreReported(context, context', codes, Here) /\ NamesReported'
          /\ LookupActive(context.symbols, v.name) # Null => context' = context
      BY <2>1, <2>2, <2>3, UseReported
    <2>6. Last(operands').valid => context' = context
      BY <1>1, <2>1, <2>4, <2>5 DEF Resolved
    <2>7. context'.symbols = context.symbols
      BY <1>1, <2>3, UnresolvedReports, ReportingEffect
    <2>8. codes \in SUBSET Codes
      BY DEF Codes
    <2> QED BY <2>1, <2>5, <2>6, <2>7, <2>8, ExpressionSaid
  <1>4. ASSUME NEW ty \in Types, VisitLiteral(ty)
        PROVE  Said'
    <2>1. /\ Literal(ty) \in Expressions /\ VisitExpression(Literal(ty))
          /\ ~Uses(Literal(ty)) /\ context' = context
      BY <1>4 DEF VisitLiteral, Expressions, Literal, Uses
    <2>2. "SEM_TYPE_MISMATCH" \in TypeCodes /\ TRUE \in BOOLEAN
      BY DEF TypeCodes
    <2> QED BY <2>1, <2>2, TypeReported
  <1>5. ASSUME NEW op \in BinaryOperators, VisitBinary(op)
        PROVE  Said'
    <2> DEFINE right == Last(operands)
               left == Last(Front(operands))
               usable == left.valid /\ right.valid /\ ~context.internal_failure
               accepted == Accepts(op, left.type, right.type)
    <2>1. /\ Binary(op) \in Expressions /\ VisitExpression(Binary(op))
          /\ ~Uses(Binary(op)) /\ CodeOfBinary(op) \in TypeCodes
      BY <1>5 DEF VisitBinary, Expressions, Binary, Uses, CodeOfBinary, TypeCodes
    <2>2. PICK written \in Written :
            context' = ReportIf(usable /\ ~accepted, context, CodeOfBinary(op),
                                Here, written)
      BY <1>5 DEF VisitBinary
    <2>3. written \in BOOLEAN
      BY Outcomes
    <2>4. ~(usable /\ accepted) => operands' = Append(Front(Front(operands)), Error)
      BY <1>5 DEF VisitBinary
    <2>5. Front(Front(operands)) \in Seq(Operand)
      <3>1. /\ Front(operands) \in Seq(Operand)
            /\ Len(Front(operands)) = Len(operands) - 1
            /\ Len(operands) >= 2 /\ Len(operands) \in Nat
        <4>1. Len(operands) >= 2 /\ operands # << >>
          BY <1>5 DEF VisitBinary
        <4> QED BY <1>1, <4>1, LastAndFront
      <3>2. Front(operands) # << >>
        BY <3>1
      <3> QED BY <3>1, <3>2, LastAndFront
    <2> HIDE DEF usable, accepted
    <2>6. CASE usable /\ accepted
      <3>1. context' = context
        BY <2>2, <2>6 DEF ReportIf
      <3> QED BY <2>1, <2>3, <3>1, TypeReported
    <2>7. CASE ~(usable /\ accepted)
      <3>1. ~Last(operands').valid
        <4>1. Last(Append(Front(Front(operands)), Error)) = Error
          BY <1>2, <2>5, LastOfAppend
        <4> QED BY <1>1, <2>4, <2>7, <4>1
      <3>2. \/ context' = context
            \/ context' = Report(context, CodeOfBinary(op), Here, written)
        BY <2>2 DEF ReportIf
      <3> QED BY <2>1, <2>3, <3>1, <3>2, TypeReported
    <2> QED BY <2>6, <2>7
  <1>6. ASSUME VisitUnary
        PROVE  Said'
    <2> DEFINE operand == Last(operands)
               usable == operand.valid /\ ~context.internal_failure
               code == "SEM_INVALID_OPERATOR"
    <2>1. /\ Unary \in Expressions /\ VisitExpression(Unary)
          /\ ~Uses(Unary) /\ code \in TypeCodes
      BY <1>6 DEF VisitUnary, Expressions, Unary, Uses, TypeCodes
    <2>2. PICK written \in Written :
            context' = ReportIf(usable /\ operand.type # "bool", context, code,
                                Here, written)
      BY <1>6 DEF VisitUnary
    <2>3. written \in BOOLEAN
      BY Outcomes
    <2>4. ~(usable /\ operand.type = "bool") =>
            operands' = Append(Front(operands), Error)
      BY <1>6 DEF VisitUnary
    <2>5. Front(operands) \in Seq(Operand)
      BY <1>1, <1>6, LastAndFront DEF VisitUnary
    <2> HIDE DEF usable, operand
    <2>6. CASE usable /\ operand.type = "bool"
      <3>1. context' = context
        BY <2>2, <2>6 DEF ReportIf
      <3> QED BY <2>1, <2>3, <3>1, TypeReported
    <2>7. CASE ~(usable /\ operand.type = "bool")
      <3>1. ~Last(operands').valid
        <4>1. Last(Append(Front(operands), Error)) = Error
          BY <1>2, <2>5, LastOfAppend
        <4> QED BY <1>1, <2>4, <2>7, <4>1
      <3>2. \/ context' = context
            \/ context' = Report(context, code, Here, written)
        BY <2>2 DEF ReportIf
      <3> QED BY <2>1, <2>3, <3>1, <3>2, TypeReported
    <2> QED BY <2>6, <2>7
  <1> QED BY <1>3, <1>4, <1>5, <1>6

\* A visit of a statement that does not declare.
LEMMA StatementSaid ==
  ASSUME Structured, Said, NEW v \in Visits, ~Declares(v), ~IsExpression(v),
         VisitStatement(v), context'.symbols = context.symbols,
         NEW codes \in SUBSET Codes, "SEM_INVALID_ASSIGNMENT" \notin codes,
         MoreReported(context, context', codes, Here), NamesReported',
         \/ todo' = todo
         \/ \E item \in Todo : /\ item.at \in {"assignment", "condition"}
                               /\ item.at = "assignment" => item.line = Here
                               /\ todo' = Push(item)
  PROVE  Said'
  <1>1. /\ ast \in Seq(Visits) /\ ast' = Append(ast, v) /\ status' = "running"
        /\ operands' = operands /\ At("list") /\ todo \in Seq(Todo)
        /\ context \in Context
    BY DEF Structured, TypeOK, VisitStatement, Visit
  <1>2. /\ Here \in Nat /\ Len(ast') = Here /\ ast' # << >>
        /\ DOMAIN ast' = DOMAIN ast \cup {Here} /\ Here \in DOMAIN ast'
        /\ ast'[Here] = v /\ DOMAIN ast = 1 .. Here - 1
    BY <1>1 DEF Here
  <1>3. operands' = << >> /\ todo # << >> /\ Last(todo).at = "list"
    BY <1>1 DEF Structured, Underway, ExpressionExpected, At
  <1>4. /\ todo' # << >> /\ Last(todo').at # "declaration"
        /\ Last(todo').at = "assignment" => Last(todo').line = Here
    <2>1. CASE todo' = todo
      BY <1>3, <2>1
    <2>2. CASE todo' # todo
      <3>1. PICK item \in Todo : /\ item.at \in {"assignment", "condition"}
                                 /\ item.at = "assignment" => item.line = Here
                                 /\ todo' = Append(todo, item)
        BY <2>2 DEF Push
      <3>2. Last(todo') = item /\ todo' # << >>
        BY <1>1, <3>1, LastOfAppend
      <3> QED BY <3>1, <3>2
    <2> QED BY <2>1, <2>2
  <1>5. \A d : ~PendingIn(todo, d) /\ ~PendingIn(todo', d)
    BY <1>3, <1>4 DEF PendingIn
  <1>6. \A d : DeclaredIn(ast', todo', d) <=> Declared(d)
    BY <1>1, <1>5, DeclaredStays
  <1>7. Grown
    BY <1>1 DEF Grown
  <1>8. Bound'
    BY <1>6, <1>7, BoundStays DEF Said, MoreReported
  <1>9. Separated'
    <2>1. ASSUME NEW d, DeclaredIn(ast', todo', d)
          PROVE  \E q \in d + 1 .. Len(ast') : ~IsExpression(ast'[q])
      <3>1. d \in DOMAIN ast
        BY <1>6, <2>1 DEF Declared, DeclaredIn
      <3>2. Here \in d + 1 .. Len(ast')
        BY <1>2, <3>1
      <3> QED BY <1>2, <3>2
    <2> QED BY <1>2, <1>4, <2>1 DEF Separated, At, Declared
  <1>10. \A code \in codes : ~ReportedAt(code, Here)
    BY NothingAhead
  <1>11. Unreported'
    <2>1. ~ReportedIn(context'.diagnostics, "SEM_INVALID_ASSIGNMENT", Here)
      <3>1. ~ReportedIn(context.diagnostics, "SEM_INVALID_ASSIGNMENT", Here)
        BY NothingAhead DEF ReportedAt
      <3> QED BY <1>1, <1>2, <3>1, MoreIsReported
    <2> QED BY <1>2, <1>3, <1>4, <2>1 DEF Unreported, At, ReportedAt
  <1> QED BY <1>1, <1>2, <1>7, <1>8, <1>9, <1>10, <1>11, RunningSaid

\* The visits of the other simple statements say what they should.
LEMMA StatementsSaid ==
  ASSUME Structured, Said,
         \/ \E n \in Names : VisitAssignment(n) \/ VisitPrint(n)
         \/ \E hasElse \in BOOLEAN : VisitIf(hasElse)
         \/ VisitWhile
  PROVE  Said'
  <1> DEFINE codes == {"SEM_UNDECLARED", "SEM_SCOPE_VIOLATION"}
  <1>1. /\ TypeOK /\ WellFormed(context.symbols) /\ Here \in Nat
        /\ codes \in SUBSET Codes /\ "SEM_INVALID_ASSIGNMENT" \notin codes
    BY DEF Structured, TypeOK, Placed, PlacedIn, Here, Codes
  <1> HIDE DEF codes
  <1>2. ASSUME NEW v \in Visits, ~Declares(v), ~IsExpression(v), Uses(v),
               VisitStatement(v), NEW written \in BOOLEAN,
               context' = ReportUnresolved(context, v.name, Here, written)
        PROVE  /\ MoreReported(context, context', codes, Here) /\ NamesReported'
               /\ context'.symbols = context.symbols
    <2>1. At("list") /\ ast' = Append(ast, v)
      BY <1>2 DEF VisitStatement, Visit
    <2>2. MoreReported(context, context', codes, Here) /\ NamesReported'
      BY <1>2, <2>1, UseReported DEF codes
    <2>3. context'.symbols = context.symbols
      BY <1>1, <1>2, UnresolvedReports, ReportingEffect
    <2> QED BY <2>2, <2>3
  <1>3. ASSUME NEW v \in Visits, ~Declares(v), ~Uses(v), VisitStatement(v),
               context' = context
        PROVE  MoreReported(context, context', {}, Here) /\ NamesReported'
    <2>1. ast' = Append(ast, v)
      BY <1>3 DEF VisitStatement, Visit
    <2>2. /\ MoreReported(context, context', {}, Here)
          /\ MoreReported(context, context', TypeCodes, Here)
      BY <1>3, SameReported
    <2> QED BY <1>3, <2>1, <2>2, NamelessGrow
  <1>4. ASSUME NEW n \in Names, VisitAssignment(n)
        PROVE  Said'
    <2> DEFINE v == Assignment(n)
               item == [at |-> "assignment", line |-> Here,
                        target |-> Resolved(context, n)]
    <2>1. /\ v \in Visits /\ ~Declares(v) /\ ~IsExpression(v) /\ Uses(v)
          /\ VisitStatement(v) /\ v.name = n /\ todo' = Push(item)
      BY <1>4 DEF VisitAssignment, Assignment, Visits, Statements, Declares,
                  IsExpression, Uses
    <2>2. PICK written \in BOOLEAN :
            context' = ReportUnresolved(context, v.name, Here, written)
      BY <1>4, <2>1, Outcomes DEF VisitAssignment
    <2>3. item \in Todo /\ item.at = "assignment" /\ item.line = Here
      BY <1>1, ResolvedType, TodoItems
    <2> HIDE DEF v, item
    <2>4. /\ MoreReported(context, context', codes, Here) /\ NamesReported'
          /\ context'.symbols = context.symbols
      BY <1>2, <2>1, <2>2
    <2> QED BY <1>1, <2>1, <2>3, <2>4, StatementSaid
  <1>5. ASSUME NEW n \in Names, VisitPrint(n)
        PROVE  Said'
    <2> DEFINE v == PrintOf(n)
    <2>1. /\ v \in Visits /\ ~Declares(v) /\ ~IsExpression(v) /\ Uses(v)
          /\ VisitStatement(v) /\ v.name = n /\ todo' = todo
      BY <1>5 DEF VisitPrint, PrintOf, Visits, Statements, Declares,
                  IsExpression, Uses
    <2>2. PICK written \in BOOLEAN :
            context' = ReportUnresolved(context, v.name, Here, written)
      BY <1>5, <2>1, Outcomes DEF VisitPrint
    <2> HIDE DEF v
    <2>3. /\ MoreReported(context, context', codes, Here) /\ NamesReported'
          /\ context'.symbols = context.symbols
      BY <1>2, <2>1, <2>2
    <2> QED BY <1>1, <2>1, <2>3, StatementSaid
  <1>6. ASSUME NEW v \in Visits, ~Declares(v), ~Uses(v), ~IsExpression(v),
               VisitStatement(v), context' = context, NEW blocks \in 1 .. 2,
               todo' = Push([at |-> "condition", blocks |-> blocks])
        PROVE  Said'
    <2> DEFINE item == [at |-> "condition", blocks |-> blocks]
    <2>1. item \in Todo /\ item.at = "condition"
      BY TodoItems
    <2>2. todo' = Push(item)
      BY <1>6
    <2> HIDE DEF item
    <2>3. MoreReported(context, context', {}, Here) /\ NamesReported'
      BY <1>3, <1>6
    <2>4. context'.symbols = context.symbols /\ {} \in SUBSET Codes
      BY <1>6
    <2> QED BY <1>6, <2>1, <2>2, <2>3, <2>4, StatementSaid
  <1>7. ASSUME NEW hasElse \in BOOLEAN, VisitIf(hasElse)
        PROVE  Said'
    <2>1. /\ If(hasElse) \in Visits /\ ~Declares(If(hasElse))
          /\ ~Uses(If(hasElse)) /\ ~IsExpression(If(hasElse))
          /\ VisitStatement(If(hasElse)) /\ context' = context
      BY <1>7 DEF VisitIf, If, Visits, Statements, Declares, IsExpression, Uses
    <2>2. PICK blocks \in 1 .. 2 :
            todo' = Push([at |-> "condition", blocks |-> blocks])
      BY <1>7 DEF VisitIf
    <2> QED BY <1>6, <2>1, <2>2
  <1>8. ASSUME VisitWhile
        PROVE  Said'
    <2>1. /\ While \in Visits /\ ~Declares(While) /\ ~Uses(While)
          /\ ~IsExpression(While) /\ VisitStatement(While) /\ context' = context
          /\ 1 \in 1 .. 2 /\ todo' = Push([at |-> "condition", blocks |-> 1])
      BY <1>8 DEF VisitWhile, While, Visits, Statements, Declares, IsExpression,
                  Uses
    <2> QED BY <1>6, <2>1
  <1> QED BY <1>4, <1>5, <1>7, <1>8

\* A declaration is reported as repeated as the text says, which is when the
\* block has its name.
LEMMA RepeatReported ==
  ASSUME Structured, Said, NEW v \in Visits, Declares(v), At("list"),
         NEW written \in BOOLEAN, NEW c,
         \/ /\ LookupCurrent(context.symbols, v.name) # Null
            /\ c = Report(context, "SEM_REDECLARATION", Here, written)
         \/ /\ LookupCurrent(context.symbols, v.name) = Null
            /\ c = context
  PROVE  /\ c \in Context /\ c.symbols = context.symbols
         /\ MoreReported(context, c, {"SEM_REDECLARATION"}, Here)
         /\ ~c.internal_failure =>
              NameReported(Append(ast, v), c.diagnostics, Here)
  <1> DEFINE n == v.name
             t == context.symbols
             code == "SEM_REDECLARATION"
             new == Append(ast, v)
  <1>1. /\ context \in Context /\ ast \in Seq(Visits) /\ Here \in Nat
        /\ new[Here] = v /\ ~IsExpression(v) /\ ~Uses(v) /\ code \in Codes
    BY DEF Structured, TypeOK, Here, IsExpression, Uses, Declares, Codes
  <1>2. /\ c \in Context /\ c.symbols = t
        /\ MoreReported(context, c, {code}, Here)
        /\ LookupCurrent(t, n) # Null /\ ~c.internal_failure =>
             ReportedIn(c.diagnostics, code, Here)
    <2>1. CASE LookupCurrent(t, n) # Null
      <3>1. c = Report(context, code, Here, written)
        BY <2>1
      <3>2. c \in Context /\ c.symbols = t
        BY <1>1, <3>1, ReportEffect
      <3>3. /\ MoreReported(context, c, {code}, Here)
            /\ ~c.internal_failure => ReportedIn(c.diagnostics, code, Here)
        BY <1>1, <3>1, ReportIsMore
      <3> QED BY <3>2, <3>3
    <2>2. CASE LookupCurrent(t, n) = Null
      BY <1>1, <2>2, SameReported
    <2> QED BY <2>1, <2>2
  <1> HIDE DEF new
  <1>3. ASSUME ~c.internal_failure
        PROVE  NameReported(new, c.diagnostics, Here)
    <2>1. ~context.internal_failure
      BY <1>2, <1>3 DEF MoreReported
    <2>2. \A x : ReportedIn(c.diagnostics, x, Here) <=>
                   LookupCurrent(t, n) # Null /\ x = code
      <3>1. \A x : ~ReportedIn(context.diagnostics, x, Here)
        BY NothingAhead DEF ReportedAt
      <3>2. CASE LookupCurrent(t, n) = Null
        BY <3>1, <3>2
      <3>3. CASE LookupCurrent(t, n) # Null
        <4>1. {code} \in SUBSET Codes
          BY <1>1
        <4>2. \A x : ReportedIn(c.diagnostics, x, Here) =>
                       ReportedIn(context.diagnostics, x, Here) \/ x \in {code}
          BY <1>1, <1>2, <4>1, MoreIsReported
        <4> QED BY <1>2, <1>3, <3>1, <3>3, <4>2
      <3> QED BY <3>2, <3>3
    <2>3. LookupCurrent(t, n) # Null <=>
            \E d \in Named(n) : BlockAt(ast, d) = BlockAt(ast, Here)
      <3>1. Bound
        BY DEF Said
      <3> QED BY <2>1, <3>1, Resolution
    <2>4. Repeats(new, Here) <=>
            \E d \in Named(n) : BlockAt(ast, d) = BlockAt(ast, Here)
      <3>1. Separated
        BY DEF Said
      <3> QED BY <1>1, <3>1, SaidOfNext DEF new
    <2>5. Repeats(new, Here) <=> LookupCurrent(t, n) # Null
      BY <2>3, <2>4
    <2> HIDE DEF t
    <2> QED BY <1>1, <2>2, <2>5 DEF NameReported
  <1> QED BY <1>2, <1>3 DEF new

\* A declaration that is visited: its name is reported if it repeats one, and
\* bound if nothing has to be computed first.
LEMMA DeclarationSaid ==
  ASSUME Structured, Said, NEW n \in Names, NEW ty \in Types,
         NEW initialized \in BOOLEAN, VisitDeclaration(n, ty, initialized)
  PROVE  Said'
  <1> DEFINE v == Declaration(n, ty, initialized)
             t == context.symbols
             redeclared == LookupCurrent(t, n) # Null
             d == [at |-> "declaration", line |-> Here, name |-> n, type |-> ty,
                   redeclared |-> redeclared]
             codes == {"SEM_REDECLARATION"}
  <1>1. /\ ast \in Seq(Visits) /\ ast' = Append(ast, v) /\ status' = "running"
        /\ operands' = operands /\ context \in Context
        /\ At("list") /\ todo \in Seq(Todo) /\ PlacedIn(ast, t)
        /\ t \in Table /\ WellFormed(t)
    BY DEF Structured, TypeOK, VisitDeclaration, VisitStatement, Visit, Placed,
           PlacedIn, WellFormed
  <1>2. /\ v \in Visits /\ Declares(v) /\ ~IsExpression(v) /\ v.name = n
        /\ v.initialized = initialized
        /\ codes \in SUBSET Codes /\ "SEM_TYPE_MISMATCH" \notin codes
    BY DEF Visits, Statements, Declaration, Declares, IsExpression, Codes
  <1>3. operands' = << >> /\ todo # << >> /\ Last(todo).at = "list"
    BY <1>1 DEF Structured, Underway, ExpressionExpected, At
  <1>4. /\ Here \in Nat /\ Len(ast') = Here /\ ast' # << >>
        /\ DOMAIN ast' = DOMAIN ast \cup {Here} /\ Here \notin DOMAIN ast
        /\ ast'[Here] = v /\ DOMAIN ast = 1 .. Here - 1
        /\ Here = Len(ast) + 1
        /\ \A q \in DOMAIN ast : ast'[q] = ast[q]
    BY <1>1 DEF Here
  <1>5. PICK written \in Written, allocated \in Allocated :
          LET c == ReportIf(redeclared, context, "SEM_REDECLARATION", Here, written)
          IN  IF initialized
                THEN context' = c /\ todo' = Push(d)
                ELSE /\ context' = Declare(c, d, FALSE, written, allocated)
                     /\ todo' = todo
    BY DEF VisitDeclaration
  <1>6. written \in BOOLEAN /\ allocated \in BOOLEAN
    BY Outcomes
  <1> DEFINE c == ReportIf(redeclared, context, "SEM_REDECLARATION", Here, written)
  <1>7. d \in Todo
    <2>1. redeclared \in BOOLEAN
      OBVIOUS
    <2> HIDE DEF redeclared
    <2> QED BY <1>4, <2>1, TodoItems
  <1>8. /\ d.at = "declaration" /\ d.line = Here /\ d.name = n /\ d.type = ty
        /\ d.redeclared = redeclared /\ redeclared \in BOOLEAN
    OBVIOUS
  <1>9. /\ c \in Context /\ c.symbols = t /\ MoreReported(context, c, codes, Here)
        /\ ~c.internal_failure => NameReported(ast', c.diagnostics, Here)
    <2>1. \/ /\ LookupCurrent(t, v.name) # Null
             /\ c = Report(context, "SEM_REDECLARATION", Here, written)
          \/ /\ LookupCurrent(t, v.name) = Null
             /\ c = context
      BY <1>2 DEF ReportIf
    <2> HIDE DEF c, v, redeclared
    <2> QED BY <1>1, <1>2, <1>6, <2>1, RepeatReported
  <1>10. redeclared <=> LookupCurrent(t, n) # Null
    OBVIOUS
  <1> HIDE DEF c, d, redeclared, codes
  <1>11. /\ \A x : ~PendingIn(todo, x) /\ ~PendingIn(todo, Here)
         /\ \A code \in codes : ~ReportedAt(code, Here)
         /\ Grown
    BY <1>1, <1>2, <1>3, NothingAhead DEF PendingIn, Grown
  <1>12. CASE initialized = TRUE
    <2>1. context' = c /\ todo' = Append(todo, d)
      BY <1>5, <1>12 DEF c, Push
    <2>2. Last(todo') = d /\ todo' # << >>
      BY <1>1, <1>7, <2>1, LastOfAppend
    <2>3. NamesReported'
      BY <1>1, <1>2, <1>9, <2>1, NamesGrow
    <2>4. \A x : PendingIn(todo', x) <=> x = Here
      BY <1>8, <2>2 DEF PendingIn
    <2>5. \A x : DeclaredIn(ast', todo', x) <=> Declared(x)
      BY <1>4, <1>11, <2>4 DEF DeclaredIn, Declared
    <2>6. Bound'
      BY <1>9, <1>11, <2>1, <2>5, BoundStays DEF Said, MoreReported
    <2>7. Separated'
      <3>1. \A q \in Here + 1 .. Len(ast') : IsExpression(ast'[q])
        BY <1>4
      <3>2. ASSUME NEW x, DeclaredIn(ast', todo', x)
            PROVE  \E q \in x + 1 .. Len(ast') : ~IsExpression(ast'[q])
        <4>1. x \in DOMAIN ast
          BY <2>5, <3>2 DEF Declared, DeclaredIn
        <4>2. Here \in x + 1 .. Len(ast')
          BY <1>4, <4>1
        <4> QED BY <1>2, <1>4, <4>2
      <3>3. Here \in DOMAIN ast' /\ ast'[Here] = Declaration(n, ty, TRUE)
        BY <1>4, <1>12
      <3> QED BY <1>4, <1>8, <2>2, <3>1, <3>2, <3>3 DEF Separated, At, Declared
    <2>8. Unreported'
      <3>1. ~ReportedIn(context'.diagnostics, "SEM_TYPE_MISMATCH", Here)
        <4>1. ~ReportedIn(context.diagnostics, "SEM_TYPE_MISMATCH", Here)
          BY NothingAhead DEF ReportedAt
        <4> QED BY <1>1, <1>2, <1>4, <1>9, <2>1, <4>1, MoreIsReported
      <3> QED BY <1>3, <1>8, <2>2, <3>1 DEF Unreported, At, ReportedAt
    <2>9. Here \in DOMAIN ast' /\ MoreReported(context, context', codes, Here)
      BY <1>4, <1>9, <2>1
    <2> QED BY <1>1, <1>2, <1>4, <1>11, <2>3, <2>6, <2>7, <2>8, <2>9, RunningSaid
  <1>13. CASE initialized = FALSE
    <2>1. context' = DeclareAfter(c, d, allocated) /\ todo' = todo
      BY <1>5, <1>13 DEF c, Declare, ReportIf, DeclareAfter
    <2>2. CanDeclare(c, d)
      BY <1>1, <1>4, <1>8, <1>9, <1>10 DEF CanDeclare
    <2>3. IsDeclared(c, d, context')
      BY <1>6, <2>1, <2>2, DeclareEffect
    <2>4. /\ context'.diagnostics = c.diagnostics
          /\ context'.error_count = c.error_count
      BY <1>9, <2>1 DEF DeclareAfter, InsertDeclaration, Fail, Context
    <2>5. /\ context'.symbols = t \/ context'.symbols = Insert(t, n, ty, Here)
          /\ ~context'.internal_failure => ~c.internal_failure
          /\ ~context'.internal_failure /\ ~redeclared =>
               context'.symbols = Insert(t, n, ty, Here)
          /\ redeclared => context'.symbols = t
      <3> HIDE DEF t
      <3> QED BY <1>8, <1>9, <2>3 DEF IsDeclared
    <2>6. MoreReported(context, context', codes, Here)
      BY <1>9, <2>4, <2>5 DEF MoreReported
    <2>7. NamesReported'
      <3>1. ~context'.internal_failure =>
              NameReported(ast', context'.diagnostics, Here)
        BY <1>9, <2>4, <2>5
      <3> QED BY <1>1, <1>2, <2>6, <3>1, NamesGrow
    <2>8. \A x : DeclaredIn(ast', todo', x) <=> (Declared(x) \/ x = Here)
      BY <1>2, <1>4, <1>11, <2>1 DEF DeclaredIn, Declared
    <2>9. Structured' /\ ~ExpressionExpected'
      BY <1>3, <2>1, DeclarationStep DEF ExpressionExpected, At
    <2>10. Separated' /\ Unreported'
      BY <2>9, ReturnedSaid
    <2>11. ~context'.internal_failure =>
             \E i \in DOMAIN context'.symbols.symbols :
               /\ context'.symbols.symbols[i].name = n
               /\ context'.symbols.symbols[i].owner =
                    Ordinal(ast', BlockAt(ast', Here)) + 1
      <3> SUFFICES ASSUME ~context'.internal_failure
                   PROVE  \E i \in DOMAIN context'.symbols.symbols :
                            /\ context'.symbols.symbols[i].name = n
                            /\ context'.symbols.symbols[i].owner =
                                 Ordinal(ast', BlockAt(ast', Here)) + 1
        OBVIOUS
      <3>1. CASE redeclared
        <4>1. context'.symbols = t /\ LookupCurrent(t, n) # Null
          BY <1>10, <2>5, <3>1
        <4>2. PICK i \in DOMAIN t.symbols :
                     /\ t.symbols[i].name = n
                     /\ t.symbols[i].owner =
                          Ordinal(ast, BlockAt(ast, Len(ast) + 1)) + 1
          <5> HIDE DEF t
          <5> QED BY <1>1, <4>1, RepeatedSymbol
        <4>3. BlockAt(ast', Here) = BlockAt(ast, Here)
          BY <1>1, <1>2, <1>4, BlockAtAppend
        <4>4. BlockAt(ast, Here) \in 0 .. Len(ast) + 1
          BY <1>1, <1>4, InnermostBlock
        <4>5. Ordinal(ast', BlockAt(ast', Here)) = Ordinal(ast, BlockAt(ast, Here))
          BY <1>1, <1>2, <4>3, <4>4, OrdinalAppend
        <4> QED BY <1>4, <4>1, <4>2, <4>5
      <3>2. CASE ~redeclared
        <4>1. context'.symbols = Insert(t, n, ty, Here)
          BY <2>5, <3>2
        <4>2. SymbolsPlaced(ast', context'.symbols)
          BY <2>9 DEF Structured, Placed, PlacedIn
        <4> HIDE DEF t
        <4> QED BY <1>1, <4>1, <4>2, InsertedSymbol
      <3> QED BY <3>1, <3>2
    <2>12. Bound'
      <3>1. /\ \/ context'.symbols.symbols = context.symbols.symbols
               \/ context'.symbols = Insert(context.symbols, n, ty, Here)
            /\ context.internal_failure => context'.internal_failure
        BY <2>5, <2>6 DEF MoreReported
      <3>2. Here \in DOMAIN ast' /\ ast'[Here].name = n /\ Bound
        BY <1>2, <1>4 DEF Said
      <3> QED BY <1>11, <2>8, <2>11, <3>1, <3>2, BoundGrows
    <2>13. Here \in DOMAIN ast'
      BY <1>4
    <2> QED BY <1>1, <1>2, <1>4, <1>11, <2>6, <2>7, <2>10, <2>12, <2>13,
               RunningSaid
  <1> QED BY <1>12, <1>13

\* Nothing was said about a program that has not begun.
LEMMA NewSaid ==
  ASSUME ast = << >>, operands = << >>, context = NewContext,
         status \notin {"SUCCESS", "ERRORS"}, ~ExpressionExpected
  PROVE  Said
  <1>1. /\ DOMAIN ast = {} /\ context.diagnostics = << >>
        /\ context.error_count = 0 /\ context.symbols.symbols = << >>
    BY DEF NewContext, NewTable
  <1>2. DOMAIN context.diagnostics = {} /\ DOMAIN context.symbols.symbols = {}
    BY <1>1
  <1>3. Separated /\ Unreported
    BY DEF Separated, Unreported, ExpressionExpected
  <1>4. Bound /\ NamesReported /\ ReportedOnce
    BY <1>1, <1>2 DEF Bound, NamesReported, ReportedOnce
  <1>5. ErrorsCounted
    BY <1>1 DEF ErrorsCounted, Analyzed
  <1> QED BY <1>3, <1>4, <1>5 DEF Said

\* The analysis begins: the reports of the last one are forgotten.
LEMMA BeginSaid ==
  ASSUME Begin
  PROVE  Said'
  <1>1. /\ ast' = << >> /\ operands' = << >> /\ context' = NewContext
        /\ status' \notin {"SUCCESS", "ERRORS"}
        /\ todo' = <<[at |-> "list"]>> \/ todo' = << >>
    BY DEF Begin
  <1>2. ~ExpressionExpected'
    BY <1>1 DEF ExpressionExpected, At, Last
  <1>3. /\ DOMAIN ast' = {} /\ context'.diagnostics = << >>
        /\ context'.error_count = 0 /\ context'.symbols.symbols = << >>
    BY <1>1 DEF NewContext, NewTable
  <1>4. DOMAIN context'.diagnostics = {} /\ DOMAIN context'.symbols.symbols = {}
    BY <1>3
  <1>5. Separated' /\ Unreported'
    BY <1>1, <1>2 DEF Separated, Unreported, ExpressionExpected
  <1>6. Bound' /\ NamesReported' /\ ReportedOnce'
    BY <1>3, <1>4 DEF Bound, NamesReported, ReportedOnce
  <1>7. ErrorsCounted'
    BY <1>1, <1>3 DEF ErrorsCounted, Analyzed
  <1> QED BY <1>5, <1>6, <1>7 DEF Said

\* The analysis ends: the verdict is that of the reports there are.
LEMMA EndSaid ==
  ASSUME Structured, Said, End
  PROVE  Said'
  <1>1. /\ todo' = << >> /\ ast' = ast /\ operands' = operands
        /\ context' = context /\ todo = <<[at |-> "list"]>>
        /\ status' \in {"SUCCESS", "ERRORS"} => ~context.internal_failure
        /\ status' = "SUCCESS" => context.error_count = 0
    BY DEF End
  <1>2. ~ExpressionExpected' /\ Structured'
    BY <1>1, EndStep DEF ExpressionExpected, At
  <1>3. Separated' /\ Unreported' /\ \A d : ~PendingIn(todo', d)
    BY <1>2, ReturnedSaid
  <1>4. \A d : ~PendingIn(todo, d)
    BY <1>1 DEF PendingIn, Last
  <1>5. \A d : DeclaredIn(ast', todo', d) <=> Declared(d)
    BY <1>1, <1>3, <1>4 DEF DeclaredIn, Declared
  <1>6. Grown /\ ast \in Seq(Visits)
    BY <1>1 DEF Grown, Structured, TypeOK
  <1>7. Bound'
    BY <1>1, <1>5, <1>6, BoundStays DEF Said
  <1>8. NamesReported' /\ ReportedOnce'
    BY <1>1 DEF Said, NamesReported, ReportedOnce
  <1>9. ErrorsCounted'
    BY <1>1 DEF Said, ErrorsCounted, Analyzed
  <1> QED BY <1>3, <1>7, <1>8, <1>9 DEF Said

\* The inductive invariant holds before the first program.
LEMMA InitIInv == Init => IInv
  <1> SUFFICES ASSUME Init PROVE IInv
    OBVIOUS
  <1>1. Structured
    BY InitStructured
  <1>2. ~ExpressionExpected
    BY DEF Init, ExpressionExpected, At
  <1>3. Said
    BY <1>2, NewSaid DEF Init
  <1> QED BY <1>1, <1>3 DEF IInv

\* Every step keeps it.
LEMMA NextIInv == IInv /\ [Next]_vars => IInv'
  <1> SUFFICES ASSUME Structured, Said, [Next]_vars PROVE Said'
    BY NextStructured DEF IInv
  <1>1. CASE Begin
    BY <1>1, BeginSaid
  <1>2. CASE VisitNode
    <2>1. CASE \E n \in Names, ty \in Types, i \in BOOLEAN :
                 VisitDeclaration(n, ty, i)
      BY <2>1, DeclarationSaid
    <2>2. CASE \/ \E n \in Names : VisitAssignment(n) \/ VisitPrint(n)
               \/ \E hasElse \in BOOLEAN : VisitIf(hasElse)
               \/ VisitWhile
      BY <2>2, StatementsSaid
    <2>3. CASE VisitBlockStatement \/ VisitOwnBlock
      BY <2>3, EnterSaid
    <2>4. CASE LeaveBlock
      BY <2>4, LeaveSaid
    <2>5. CASE \/ \E n \in Names : VisitIdentifier(n)
               \/ \E ty \in Types : VisitLiteral(ty)
               \/ \E op \in BinaryOperators : VisitBinary(op)
               \/ VisitUnary
      BY <2>5, ExpressionsSaid
    <2> QED BY <1>2, <2>1, <2>2, <2>3, <2>4, <2>5 DEF VisitNode
  <1>3. CASE Finish
    BY <1>3, FinishDeclarationSaid, FinishSaid DEF Finish
  <1>4. CASE End
    BY <1>4, EndSaid
  <1>5. CASE UNCHANGED vars
    BY <1>5 DEF vars, Said, Separated, Bound, NamesReported, ReportedOnce,
                Unreported, ErrorsCounted, At, ExpressionExpected, Declared,
                ReportedAt, Analyzed
  <1> QED BY <1>1, <1>2, <1>3, <1>4, <1>5 DEF Next

\* What was reported about the names is what the text says.
LEMMA SaidAsRead == IInv => ScopingAsRead
  <1> SUFFICES ASSUME IInv, Analyzed PROVE ScopingAsRead
    BY DEF ScopingAsRead
  <1>1. /\ context.diagnostics \in Seq(Diagnostic) /\ ~context.internal_failure
        /\ NamesReported /\ ReportedOnce
    BY DEF IInv, Structured, Said, TypeOK, Context, ErrorsCounted
  <1>2. \A p \in DOMAIN ast : NameReported(ast, context.diagnostics, p)
    BY <1>1 DEF NamesReported
  <1>3. ASSUME NEW code
        PROVE  Reported(code) =
                 {p \in DOMAIN ast : ReportedIn(context.diagnostics, code, p)}
    <2>1. \A i \in DOMAIN context.diagnostics :
            /\ context.diagnostics[i] = [code |-> context.diagnostics[i].code,
                                         line |-> context.diagnostics[i].line]
            /\ context.diagnostics[i].line \in DOMAIN ast
      <3>1. \A e \in Diagnostic : e = [code |-> e.code, line |-> e.line]
        BY DEF Diagnostic
      <3>2. \A i \in DOMAIN context.diagnostics :
              context.diagnostics[i] \in Diagnostic
        BY <1>1
      <3> QED BY <1>1, <3>1, <3>2 DEF ReportedOnce
    <2>2. \A p \in Reported(code) :
            p \in DOMAIN ast /\ ReportedIn(context.diagnostics, code, p)
      BY <2>1 DEF Reported, ReportedIn
    <2>3. ASSUME NEW p, ReportedIn(context.diagnostics, code, p)
          PROVE  p \in Reported(code)
      <3>1. PICK i \in DOMAIN context.diagnostics :
                   context.diagnostics[i] = [code |-> code, line |-> p]
        BY <2>3 DEF ReportedIn
      <3>2. context.diagnostics[i].code = code /\ context.diagnostics[i].line = p
        BY <3>1
      <3> QED BY <3>2 DEF Reported
    <2> QED BY <2>2, <2>3
  <1> DEFINE uses == {p \in DOMAIN ast : Uses(ast[p])}
             declared(p) == DeclarationsOf(ast, ast[p].name, p) # {}
             inScope(p) == InScope(ast, ast[p].name, p) # {}
  <1>4. \A p \in DOMAIN ast :
          /\ ReportedIn(context.diagnostics, "SEM_UNDECLARED", p) <=>
               Uses(ast[p]) /\ ~declared(p)
          /\ ReportedIn(context.diagnostics, "SEM_SCOPE_VIOLATION", p) <=>
               Uses(ast[p]) /\ declared(p) /\ ~inScope(p)
          /\ ReportedIn(context.diagnostics, "SEM_REDECLARATION", p) <=>
               Declares(ast[p]) /\ Repeats(ast, p)
    BY <1>2 DEF NameReported
  <1> HIDE DEF declared, inScope
  <1>5. Reported("SEM_UNDECLARED") = {p \in uses : ~declared(p)}
    BY <1>3, <1>4
  <1>6. Reported("SEM_SCOPE_VIOLATION") =
          {p \in uses : declared(p) /\ ~inScope(p)}
    BY <1>3, <1>4
  <1>7. Reported("SEM_REDECLARATION") =
          {p \in DOMAIN ast : Declares(ast[p]) /\ Repeats(ast, p)}
    BY <1>3, <1>4
  <1> QED BY <1>1, <1>5, <1>6, <1>7
          DEF ScopingAsRead, ReportedOnce, declared, inScope

\* When nothing was reported, nothing was to be reported.
LEMMA AcceptedIsRead == IInv => AcceptedIsWellScoped
  <1> SUFFICES ASSUME IInv, status = "SUCCESS", NEW p \in DOMAIN ast
               PROVE  /\ Uses(ast[p]) => Denoted(ast, ast[p].name, p) # 0
                      /\ Declares(ast[p]) => ~Repeats(ast, p)
    BY DEF AcceptedIsWellScoped
  <1>1. /\ context.diagnostics \in Seq(Diagnostic) /\ ~context.internal_failure
        /\ NamesReported /\ Len(context.diagnostics) = 0 /\ ast \in Seq(Visits)
    BY DEF IInv, Structured, Said, TypeOK, Context, ErrorsCounted, Analyzed
  <1>2. \A code : ~ReportedIn(context.diagnostics, code, p)
    <2>1. DOMAIN context.diagnostics = {}
      BY <1>1
    <2> QED BY <2>1 DEF ReportedIn
  <1>3. NameReported(ast, context.diagnostics, p)
    BY <1>1 DEF NamesReported
  <1>4. Uses(ast[p]) => InScope(ast, ast[p].name, p) # {}
    BY <1>2, <1>3 DEF NameReported
  <1>5. Declares(ast[p]) => ~Repeats(ast, p)
    BY <1>2, <1>3 DEF NameReported
  <1> QED BY <1>1, <1>4, <1>5, InScopeIsDenoted

\* A completed analysis reports a name as undeclared, as used outside its scope
\* or as declared again exactly where the text says so, and no report twice:
\* for every program, and whatever was reported before (resolve_identifier and
\* analyze_declaration, semantic.c).
THEOREM ReportsAsRead == Spec => []ScopingAsRead
  BY InitIInv, NextIInv, SaidAsRead, PTL DEF Spec

\* SUCCESS means that every name denotes a declaration and none is declared
\* twice in a block, also when a report could not be written or memory ran out
\* (report_semantic_error and semantic_analyze, semantic.c).
THEOREM AcceptedNamesDenote == Spec => []AcceptedIsWellScoped
  BY InitIInv, NextIInv, AcceptedIsRead, PTL DEF Spec

-----------------------------------------------------------------------------
(* The table records the text. *)

\* The symbols are older than a declaration that waits for its initializer.
Ahead ==
  At("declaration") =>
    \A i \in DOMAIN context.symbols.symbols :
      context.symbols.symbols[i].line < Last(todo).line

Recorded == RecordedIn(ast, context.symbols) /\ Ahead

\* A step that leaves the table alone and begins no declaration.
LEMMA QuietRecorded ==
  ASSUME Structured, Recorded, Continues(ast, ast'),
         context'.symbols = context.symbols,
         At("declaration")' => todo' = todo
  PROVE  Recorded'
  <1>1. RecordedIn(ast', context'.symbols)
    BY TextKeepsRecords DEF Structured, TypeOK, Placed, PlacedIn, Recorded
  <1>2. Ahead'
    BY DEF Recorded, Ahead, At
  <1> QED BY <1>1, <1>2 DEF Recorded

\* What a visit of a declaration makes of the table.
LEMMA DeclarationBinds ==
  ASSUME Structured, NEW n \in Names, NEW ty \in Types,
         NEW initialized \in BOOLEAN, VisitDeclaration(n, ty, initialized)
  PROVE  /\ At("list") /\ ast' = Append(ast, Declaration(n, ty, initialized))
         /\ \/ context'.symbols = context.symbols /\ todo' = todo
            \/ context'.symbols = Insert(context.symbols, n, ty, Here) /\ todo' = todo
            \/ /\ context'.symbols = context.symbols
               /\ \E d \in Todo : d.line = Here /\ todo' = Append(todo, d)
  <1> DEFINE t == context.symbols
             redeclared == LookupCurrent(t, n) # Null
             d == [at |-> "declaration", line |-> Here, name |-> n, type |-> ty,
                   redeclared |-> redeclared]
             c(written) == ReportIf(redeclared, context, "SEM_REDECLARATION", Here, written)
  <1>1. /\ ast \in Seq(Visits) /\ context \in Context /\ At("list")
        /\ ast' = Append(ast, Declaration(n, ty, initialized)) /\ WellFormed(t)
        /\ Here \in Nat
    BY DEF Structured, TypeOK, Placed, PlacedIn, VisitDeclaration, VisitStatement,
           Visit, Here
  <1>2. PICK written \in Written, allocated \in Allocated :
          IF initialized
            THEN context' = c(written) /\ todo' = Append(todo, d)
            ELSE /\ context' = Declare(c(written), d, FALSE, written, allocated)
                 /\ todo' = todo
    BY DEF VisitDeclaration, Push
  <1>3. redeclared \in BOOLEAN /\ Here \in Nat
    BY <1>1
  <1>4. c(written) \in Context /\ c(written).symbols = t
    <2>1. "SEM_REDECLARATION" \in Codes /\ written \in BOOLEAN
      BY Outcomes DEF Codes
    <2>2. LET r == Report(context, "SEM_REDECLARATION", Here, written)
          IN  r \in Context /\ r.symbols = t
      BY <1>1, <2>1, ReportEffect
    <2> QED BY <1>1, <2>2 DEF ReportIf
  <1> HIDE DEF redeclared, c
  <1>5. /\ d.line = Here /\ d.name = n /\ d.type = ty /\ d.redeclared = redeclared
    OBVIOUS
  <1>6. redeclared <=> LookupCurrent(t, n) # Null
    BY DEF redeclared
  <1>7. CASE initialized = TRUE
    <2>1. d \in Todo
      BY <1>3, TodoItems
    <2> QED BY <1>1, <1>2, <1>4, <1>7, <1>5, <2>1
  <1>8. CASE initialized = FALSE
    <2> HIDE DEF d
    <2>1. CanDeclare(c(written), d) /\ written \in BOOLEAN /\ allocated \in BOOLEAN
      <3>1. c(written) \in Context /\ WellFormed(c(written).symbols)
        BY <1>1, <1>4
      <3>2. /\ d.line \in Nat /\ d.name \in Names /\ d.type \in Types
            /\ d.redeclared \in BOOLEAN
        BY <1>3, <1>5
      <3>3. ~d.redeclared => LookupCurrent(c(written).symbols, d.name) = Null
        BY <1>4, <1>5, <1>6
      <3> QED BY <3>1, <3>2, <3>3, Outcomes DEF CanDeclare
    <2>2. context' = DeclareAfter(c(written), d, allocated) /\ todo' = todo
      BY <1>2, <1>8 DEF Declare, ReportIf, DeclareAfter
    <2>3. IsDeclared(c(written), d, context')
      BY <2>1, <2>2, DeclareEffect
    <2> QED BY <1>1, <1>4, <1>5, <2>2, <2>3 DEF IsDeclared
  <1> QED BY <1>7, <1>8

LEMMA DeclarationRecorded ==
  ASSUME Structured, Recorded, NEW n \in Names, NEW ty \in Types,
         NEW initialized \in BOOLEAN, VisitDeclaration(n, ty, initialized)
  PROVE  Recorded'
  <1> DEFINE v == Declaration(n, ty, initialized)
             t == context.symbols
  <1>1. /\ At("list") /\ ast' = Append(ast, v)
        /\ \/ context'.symbols = t /\ todo' = todo
           \/ context'.symbols = Insert(t, n, ty, Here) /\ todo' = todo
           \/ /\ context'.symbols = t
              /\ \E d \in Todo : d.line = Here /\ todo' = Append(todo, d)
    BY DeclarationBinds
  <1>2. /\ v \in Visits /\ v.kind \notin {"block", "end"} /\ v.name = n /\ v.type = ty
    BY DEF Visits, Statements, Declaration
  <1> HIDE DEF v
  <1>3. /\ ast \in Seq(Visits) /\ PlacedIn(ast, t) /\ RecordedIn(ast, t)
        /\ todo \in Seq(Todo)
    BY DEF Structured, TypeOK, Placed, Recorded
  <1>4. /\ Here \in DOMAIN ast' /\ ast'[Here] = v /\ Here \in Nat
        /\ \A p \in DOMAIN ast : p < Here
    BY <1>1, <1>2, <1>3 DEF Here
  <1>5. \A i \in DOMAIN t.symbols : t.symbols[i].line < Here
    BY <1>3, <1>4 DEF PlacedIn, SymbolsPlaced
  <1>6. Continues(ast, ast')
    BY <1>1, <1>2 DEF Continues
  <1>7. CASE context'.symbols = t
    <2>1. RecordedIn(ast', context'.symbols)
      BY <1>3, <1>6, <1>7, TextKeepsRecords DEF PlacedIn
    <2>2. Ahead'
      <3>1. CASE todo' = todo
        BY <1>1, <3>1 DEF Ahead, At
      <3>2. CASE \E d \in Todo : d.line = Here /\ todo' = Append(todo, d)
        <4>1. Last(todo').line = Here
          BY <1>3, <3>2, LastOfAppend
        <4> QED BY <1>5, <1>7, <4>1 DEF Ahead
      <3> QED BY <1>1, <3>1, <3>2
    <2> QED BY <2>1, <2>2 DEF Recorded
  <1>8. CASE context'.symbols = Insert(t, n, ty, Here) /\ todo' = todo
    <2>1. Records(ast, t, ast', context'.symbols)
      BY <1>2, <1>4, <1>5, <1>6, <1>8 DEF Records
    <2>2. RecordedIn(ast', context'.symbols)
      BY <1>3, <2>1, RecordsKept
    <2>3. Ahead'
      BY <1>1, <1>8 DEF Ahead, At
    <2> QED BY <2>2, <2>3 DEF Recorded
  <1> QED BY <1>1, <1>7, <1>8

LEMMA EnterRecorded ==
  ASSUME Structured, Recorded, VisitBlockStatement \/ VisitOwnBlock
  PROVE  Recorded'
  <1>1. ~At("declaration")'
    BY EnterSteps DEF ExpressionExpected
  <1>2. /\ ast \in Seq(Visits) /\ PlacedIn(ast, context.symbols)
        /\ RecordedIn(ast, context.symbols) /\ context \in Context
    BY DEF Structured, TypeOK, Placed, Recorded
  <1>3. PICK rest : EnterBlock(rest)
    BY DEF VisitBlockStatement, VisitOwnBlock
  <1>4. CASE /\ context' = [context EXCEPT !.symbols = EnterScope(@)]
             /\ ast' = Append(ast, Block)
    <2>1. Block \in Visits /\ Block.kind = "block"
      BY DEF Block, Visits, Statements
    <2>2. context'.symbols = EnterScope(context.symbols)
      BY <1>2, <1>4 DEF Context
    <2>3. RecordedIn(ast', context'.symbols)
      BY <1>2, <1>4, <2>1, <2>2, EnterKeepsRecords
    <2> QED BY <1>1, <2>3 DEF Recorded, Ahead
  <1>5. CASE context' = Fail(context) /\ ast' = ast
    <2>1. context'.symbols = context.symbols
      BY <1>2, <1>5 DEF Fail, Context
    <2> QED BY <1>1, <1>5, <2>1, QuietRecorded DEF Continues
  <1> QED BY <1>3, <1>4, <1>5 DEF EnterBlock

LEMMA LeaveRecorded ==
  ASSUME Structured, Recorded, LeaveBlock
  PROVE  Recorded'
  <1>1. /\ ~At("declaration")' /\ ~AtGlobal(context.symbols)
        /\ context' = [context EXCEPT !.symbols = ExitScope(@)]
    BY LeaveStep DEF ExpressionExpected
  <1>2. /\ ast \in Seq(Visits) /\ PlacedIn(ast, context.symbols)
        /\ RecordedIn(ast, context.symbols) /\ context \in Context
    BY DEF Structured, TypeOK, Placed, Recorded
  <1>3. /\ ast' = Append(ast, EndBlock) /\ EndBlock \in Visits /\ EndBlock.kind = "end"
    BY DEF LeaveBlock, Visit, EndBlock, Visits
  <1>4. context'.symbols = ExitScope(context.symbols)
    BY <1>1, <1>2 DEF Context
  <1>5. RecordedIn(ast', context'.symbols)
    BY <1>1, <1>2, <1>3, <1>4, ExitKeepsRecords
  <1> QED BY <1>1, <1>5 DEF Recorded, Ahead

LEMMA FinishDeclarationRecorded ==
  ASSUME Structured, Said, Recorded, FinishDeclaration
  PROVE  Recorded'
  <1> DEFINE d == Last(todo)
             t == context.symbols
  <1>1. /\ ~At("declaration")' /\ IsDeclared(context, d, context') /\ ast' = ast
    BY FinishDeclarationStep DEF ExpressionExpected, FinishDeclaration, ReturnTo
  <1>2. At("declaration")
    BY DEF FinishDeclaration, ReturnTo
  <1>3. /\ d.line \in DOMAIN ast /\ ast[d.line] = Declaration(d.name, d.type, TRUE)
        /\ \A i \in DOMAIN t.symbols : t.symbols[i].line < d.line
    BY <1>2 DEF Said, Separated, Recorded, Ahead
  <1>4. /\ ast \in Seq(Visits) /\ PlacedIn(ast, t) /\ RecordedIn(ast, t)
    BY DEF Structured, TypeOK, Placed, Recorded
  <1> HIDE DEF d, t
  <1>5. ast[d.line].name = d.name /\ ast[d.line].type = d.type
    BY <1>3 DEF Declaration
  <1>6. CASE context'.symbols = t
    BY <1>1, <1>6, QuietRecorded DEF Continues, t
  <1>7. CASE context'.symbols = Insert(t, d.name, d.type, d.line)
    <2>1. RecordedIn(ast, context'.symbols)
      BY <1>3, <1>4, <1>5, <1>7, InsertKeepsRecords
    <2> QED BY <1>1, <2>1 DEF Recorded, Ahead
  <1> QED BY <1>1, <1>6, <1>7 DEF IsDeclared, t

\* The statements that wait for an expression begin no declaration.
LEMMA StatementTodo ==
  ASSUME Structured,
         \/ \E n \in Names : VisitAssignment(n) \/ VisitPrint(n)
         \/ \E hasElse \in BOOLEAN : VisitIf(hasElse)
         \/ VisitWhile
  PROVE  At("declaration")' => todo' = todo
  <1>1. todo \in Seq(Todo)
    BY DEF Structured, TypeOK
  <1>2. \/ todo' = todo
        \/ \E target, line : todo' = Append(todo, [at |-> "assignment", line |-> line,
                                                  target |-> target])
        \/ \E blocks : todo' = Append(todo, [at |-> "condition", blocks |-> blocks])
    BY DEF VisitAssignment, VisitPrint, VisitIf, VisitWhile, Push
  <1>3. \A item : todo' = Append(todo, item) => Last(todo') = item
    BY <1>1 DEF Last
  <1>4. ASSUME NEW item, item.at # "declaration", todo' = Append(todo, item)
        PROVE  ~At("declaration")'
    BY <1>3, <1>4 DEF At
  <1>5. CASE \E target, line : todo' = Append(todo, [at |-> "assignment", line |-> line,
                                                   target |-> target])
    BY <1>4, <1>5
  <1>6. CASE \E blocks : todo' = Append(todo, [at |-> "condition", blocks |-> blocks])
    BY <1>4, <1>6
  <1> QED BY <1>2, <1>5, <1>6

LEMMA InitRecorded == Init => Recorded
  <1> SUFFICES ASSUME Init PROVE Recorded
    OBVIOUS
  <1>1. ast = << >> /\ context.symbols = NewTable /\ todo = << >>
    BY DEF Init, NewContext
  <1> QED BY <1>1, NewIsRecorded DEF Recorded, Ahead, At

\* Every step keeps the record.
LEMMA NextRecorded == IInv /\ Recorded /\ [Next]_vars => Recorded'
  <1> SUFFICES ASSUME Structured, Said, Recorded, [Next]_vars PROVE Recorded'
    BY DEF IInv
  <1>1. CASE Begin
    <2>1. ast' = << >> /\ context'.symbols = NewTable /\ ~At("declaration")'
      BY <1>1 DEF Begin, NewContext, At, Last
    <2> QED BY <2>1, NewIsRecorded DEF Recorded, Ahead
  <1>2. ASSUME Reporting PROVE context'.symbols = context.symbols
    BY <1>2, ReportingEffect DEF Structured
  <1>3. CASE VisitNode
    <2>1. CASE \E n \in Names, ty \in Types, i \in BOOLEAN :
                 VisitDeclaration(n, ty, i)
      BY <2>1, DeclarationRecorded
    <2>2. CASE \/ \E n \in Names : VisitAssignment(n) \/ VisitPrint(n)
               \/ \E hasElse \in BOOLEAN : VisitIf(hasElse)
               \/ VisitWhile
      <3>1. PICK v \in Visits : /\ v.kind \notin {"block", "end"}
                                /\ VisitStatement(v)
        <4>1. \A n \in Names : Assignment(n) \in Visits /\ PrintOf(n) \in Visits
          BY DEF Visits, Statements
        <4>2. \A e \in BOOLEAN : If(e) \in Visits
          BY DEF Visits, Statements
        <4>3. While \in Visits
          BY DEF Visits, Statements
        <4>4. /\ \A n : Assignment(n).kind = "assignment" /\ PrintOf(n).kind = "print"
              /\ \A e : If(e).kind = "if"
              /\ While.kind = "while"
          BY DEF Assignment, PrintOf, If, While
        <4>5. \/ \E n \in Names : VisitStatement(Assignment(n)) \/ VisitStatement(PrintOf(n))
              \/ \E e \in BOOLEAN : VisitStatement(If(e))
              \/ VisitStatement(While)
          BY <2>2 DEF VisitAssignment, VisitPrint, VisitIf, VisitWhile
        <4> QED BY <4>1, <4>2, <4>3, <4>4, <4>5
      <3>2. Continues(ast, ast')
        BY <3>1 DEF VisitStatement, Visit, Continues
      <3>3. At("declaration")' => todo' = todo
        BY <2>2, StatementTodo
      <3> QED BY <1>2, <2>2, <3>2, <3>3, StatementSteps, QuietRecorded
    <2>3. CASE VisitBlockStatement \/ VisitOwnBlock
      BY <2>3, EnterRecorded
    <2>4. CASE LeaveBlock
      BY <2>4, LeaveRecorded
    <2>5. CASE \/ \E n \in Names : VisitIdentifier(n)
               \/ \E ty \in Types : VisitLiteral(ty)
               \/ \E op \in BinaryOperators : VisitBinary(op)
               \/ VisitUnary
      <3>1. PICK v \in Visits : /\ v.kind \notin {"block", "end"}
                                /\ VisitExpression(v)
        BY <2>5 DEF VisitIdentifier, VisitLiteral, VisitBinary, VisitUnary,
                    Identifier, Literal, Binary, Unary, Visits, Expressions
      <3>2. Continues(ast, ast') /\ todo' = todo
        BY <3>1 DEF VisitExpression, Visit, Continues
      <3> QED BY <1>2, <2>5, <3>2, ExpressionSteps, QuietRecorded
    <2> QED BY <1>3, <2>1, <2>2, <2>3, <2>4, <2>5 DEF VisitNode
  <1>4. CASE FinishDeclaration
    BY <1>4, FinishDeclarationRecorded
  <1>5. CASE FinishAssignment \/ FinishCondition
    <2>1. ast' = ast
      BY <1>5 DEF FinishAssignment, FinishCondition, ReturnTo
    <2>2. Reporting /\ ~At("declaration")'
      BY <1>5, FinishSteps DEF ExpressionExpected
    <2> QED BY <1>2, <2>1, <2>2, QuietRecorded DEF Continues
  <1>6. CASE End
    <2>1. ast' = ast /\ context' = context /\ ~At("declaration")'
      BY <1>6 DEF End, At
    <2> QED BY <2>1, QuietRecorded DEF Continues
  <1>7. CASE UNCHANGED vars
    BY <1>7 DEF vars, Recorded, Ahead, At
  <1> QED BY <1>1, <1>3, <1>4, <1>5, <1>6, <1>7 DEF Next, Finish

\* Nothing is visited when the analysis is over.
LEMMA VisitsRunning ==
  VisitNode \/ Finish \/ End => status = "running"
  BY DEF VisitNode, Finish, End, VisitDeclaration, VisitAssignment, VisitPrint,
     VisitIf, VisitWhile, VisitBlockStatement, VisitOwnBlock, EnterBlock, LeaveBlock,
     VisitIdentifier, VisitLiteral, VisitUnary, VisitBinary, VisitStatement,
     VisitExpression, Visit, CanCome, Room, FinishDeclaration, FinishAssignment,
     FinishCondition, ReturnTo, ExpressionDone

\* When the analysis accepts a program, the table is the one of its declarations.
LEMMA AcceptedTable ==
  ASSUME IInv, Recorded, status = "SUCCESS"
  PROVE  LET D == {d \in DOMAIN ast : Declares(ast[d])}
             t == context.symbols
         IN  /\ ast \in Seq(Visits) /\ Unrepeated(ast, D)
             /\ PlacedIn(ast, t) /\ RecordedIn(ast, t)
             /\ SymbolsDeclared(ast, t, D) /\ DeclaredBound(ast, t, D)
  <1> DEFINE D == {d \in DOMAIN ast : Declares(ast[d])}
             t == context.symbols
  <1>1. /\ ast \in Seq(Visits) /\ todo = << >> /\ ~context.internal_failure
        /\ Bound /\ PlacedIn(ast, t) /\ RecordedIn(ast, t)
    BY DEF IInv, Structured, Said, TypeOK, Underway, Placed, Recorded, ErrorsCounted,
           Analyzed
  <1>2. \A d : Declared(d) <=> d \in D
    BY <1>1 DEF Declared, DeclaredIn, PendingIn
  <1>3. SymbolsDeclared(ast, t, D)
    <2>1. \A i \in DOMAIN t.symbols :
            Declared(t.symbols[i].line) /\ ast[t.symbols[i].line].name = t.symbols[i].name
      BY <1>1 DEF Bound
    <2> QED BY <1>2, <2>1 DEF SymbolsDeclared
  <1>4. DeclaredBound(ast, t, D)
    BY <1>1, <1>2 DEF Bound, DeclaredBound
  <1>5. Unrepeated(ast, D)
    <2>1. \A d \in D : Declares(ast[d]) /\ ~Repeats(ast, d)
      BY AcceptedIsRead DEF AcceptedIsWellScoped
    <2> QED BY <1>1, <2>1, NoneRepeated
  <1> QED BY <1>1, <1>3, <1>4, <1>5

\* The invariant and the record, of every run of the analysis.
THEOREM TableIsRecorded == Spec => [](IInv /\ Recorded)
  BY InitIInv, NextIInv, InitRecorded, NextRecorded, PTL DEF Spec

-----------------------------------------------------------------------------
(* One mistake is reported once. *)

\* Nothing was reported from a to b.
Silent(diagnostics, a, b) ==
  \A i \in DOMAIN diagnostics : diagnostics[i].line \notin a .. b

\* The operands that wait divide the text that follows e[0]: the k-th ends in
\* e[k], and when it is valid nothing in it was reported.
SpansIn(text, items, diagnostics, e) ==
  /\ e \in [0 .. Len(items) -> 0 .. Len(text)]
  /\ e[Len(items)] = Len(text)
  /\ \A k \in 1 .. Len(items) :
       /\ e[k - 1] < e[k]
       /\ OperandAt(text, e[k - 1] + 1, e[k])
       /\ items[k].valid => Silent(diagnostics, e[k - 1] + 1, e[k])

\* A declaration or an assignment that waits for its expression is what
\* precedes it; nothing was reported of it if its type can still be reported.
OpensAt(text, item, diagnostics, p) ==
  /\ item.at \in {"declaration", "assignment"} =>
       p = item.line /\ p \in DOMAIN text /\ ~IsExpression(text[p])
  /\ item.at = "declaration" /\ ~item.redeclared => Silent(diagnostics, p, p)
  /\ item.at = "assignment" /\ item.target.valid => Silent(diagnostics, p, p)

Spread ==
  \E e : /\ SpansIn(ast, operands, context.diagnostics, e)
         /\ todo # << >> => OpensAt(ast, Last(todo), context.diagnostics, e[0])

\* NoCascade, of any text and reports.
Apart(text, diagnostics) ==
  \A i, j \in DOMAIN diagnostics :
    i < j /\ diagnostics[j].code \in TypeCodes
      => diagnostics[i].line \notin Within(text, diagnostics[j].line)

\* Reports stay apart when the text grows, and when one more comes that is
\* about no type or about a node of which nothing was reported.
LEMMA ApartMore ==
  ASSUME NEW text \in Seq(Visits), NEW v \in Visits,
         NEW new, new = text \/ new = Append(text, v),
         NEW ds \in Seq(Diagnostic), \A i \in DOMAIN ds : ds[i].line \in DOMAIN text,
         Apart(text, ds), NEW more,
         \/ more = ds
         \/ \E d \in Diagnostic :
              /\ more = Append(ds, d)
              /\ d.code \in TypeCodes =>
                   \A i \in DOMAIN ds : ds[i].line \notin Within(new, d.line)
  PROVE  Apart(new, more)
  <1>1. Apart(new, ds)
    <2>1. CASE new = text
      BY <2>1
    <2>2. CASE new = Append(text, v)
      <3>1. ASSUME NEW i \in DOMAIN ds, NEW j \in DOMAIN ds,
                   ds[i].line \in Within(new, ds[j].line)
            PROVE  ds[i].line \in Within(text, ds[j].line)
        BY <2>2, <3>1, WithinGrows
      <3> QED BY <3>1 DEF Apart
    <2> QED BY <2>1, <2>2
  <1>2. ASSUME NEW d \in Diagnostic, more = Append(ds, d),
               d.code \in TypeCodes =>
                 \A i \in DOMAIN ds : ds[i].line \notin Within(new, d.line)
        PROVE  Apart(new, more)
    <2>1. /\ Len(ds) \in Nat /\ DOMAIN ds = 1 .. Len(ds)
          /\ DOMAIN more = 1 .. Len(ds) + 1 /\ more[Len(ds) + 1] = d
          /\ \A i \in 1 .. Len(ds) : more[i] = ds[i]
      BY <1>2
    <2> SUFFICES ASSUME NEW i \in DOMAIN more, NEW j \in DOMAIN more, i < j,
                        more[j].code \in TypeCodes
                 PROVE  more[i].line \notin Within(new, more[j].line)
      BY DEF Apart
    <2>2. i \in DOMAIN ds /\ more[i] = ds[i]
      BY <2>1
    <2>3. CASE j \in DOMAIN ds
      <3>1. more[j] = ds[j]
        BY <2>1, <2>3
      <3> QED BY <1>1, <2>2, <2>3, <3>1 DEF Apart
    <2>4. CASE j = Len(ds) + 1
      BY <1>2, <2>1, <2>2, <2>4
    <2> QED BY <2>1, <2>3, <2>4
  <1> QED BY <1>1, <1>2

\* Nothing was reported from a to c if nothing was in either part.
LEMMA SilentJoins ==
  ASSUME NEW ds, NEW a \in Nat, NEW b \in Nat, NEW c \in Nat,
         Silent(ds, a, b), Silent(ds, b + 1, c)
  PROVE  Silent(ds, a, c)
  <1>1. \A i : i \in a .. c => i \in a .. b \/ i \in b + 1 .. c
    OBVIOUS
  <1> QED BY <1>1 DEF Silent

\* Reports, and at most one more that is about position h.
ReportsAt(ds, more, h) ==
  more = ds \/ \E d \in Diagnostic : more = Append(ds, d) /\ d.line = h

\* Of other positions nothing more was reported.
LEMMA SilentStays ==
  ASSUME NEW ds \in Seq(Diagnostic), NEW more, NEW h, ReportsAt(ds, more, h),
         NEW a, NEW b, h \notin a .. b, Silent(ds, a, b)
  PROVE  Silent(more, a, b)
  <1>1. CASE more = ds
    BY <1>1
  <1>2. ASSUME NEW d \in Diagnostic, more = Append(ds, d), d.line = h
        PROVE  Silent(more, a, b)
    <2>1. \A i \in DOMAIN more : more[i] = d \/ (i \in DOMAIN ds /\ more[i] = ds[i])
      BY <1>2
    <2> QED BY <1>2, <2>1 DEF Silent
  <1> QED BY <1>1, <1>2 DEF ReportsAt

\* When no operand waits, what is still to come follows all there is.
LEMMA NoneWaits ==
  ASSUME ast' \in Seq(Visits), operands' = << >>,
         todo' # << >> => OpensAt(ast', Last(todo'), context'.diagnostics, Len(ast'))
  PROVE  Spread'
  <1> DEFINE e == [k \in 0 .. 0 |-> Len(ast')]
  <1>1. e \in [0 .. 0 -> 0 .. Len(ast')] /\ e[0] = Len(ast') /\ Len(operands') = 0
    OBVIOUS
  <1> HIDE DEF e
  <1>2. SpansIn(ast', operands', context'.diagnostics, e)
    BY <1>1 DEF SpansIn
  <1> QED BY <1>1, <1>2 DEF Spread

\* A visit of a statement, or of the end of a block, says nothing of types.
LEMMA StatementApart ==
  ASSUME Structured, Said, NoCascade, operands' = << >>,
         NEW v \in Visits, ~IsExpression(v), ast' = ast \/ ast' = Append(ast, v),
         \/ context'.diagnostics = context.diagnostics
         \/ \E code \in Codes \ TypeCodes :
              context'.diagnostics = Append(context.diagnostics,
                                            [code |-> code, line |-> Here]),
         todo' # << >> /\ Last(todo').at \in {"declaration", "assignment"} =>
           /\ ast' = Append(ast, v) /\ Last(todo').line = Here
           /\ \/ context'.diagnostics = context.diagnostics
              \/ Last(todo').at = "declaration" /\ Last(todo').redeclared
              \/ Last(todo').at = "assignment" /\ ~Last(todo').target.valid
  PROVE  NoCascade' /\ Spread'
  <1> DEFINE ds == context.diagnostics
             more == context'.diagnostics
  <1>1. /\ ast \in Seq(Visits) /\ ds \in Seq(Diagnostic) /\ Here \in Nat
        /\ Here = Len(ast) + 1 /\ \A i \in DOMAIN ds : ds[i].line \in DOMAIN ast
    BY DEF Structured, TypeOK, Context, Here, Said, ReportedOnce
  <1>2. Apart(ast, ds)
    BY DEF NoCascade, Apart
  <1>3. \/ more = ds
        \/ \E d \in Diagnostic :
             /\ more = Append(ds, d)
             /\ d.code \in TypeCodes =>
                  \A i \in DOMAIN ds : ds[i].line \notin Within(ast', d.line)
    <2>1. \A code \in Codes \ TypeCodes :
            /\ [code |-> code, line |-> Here] \in Diagnostic
            /\ [code |-> code, line |-> Here].code \notin TypeCodes
      BY <1>1 DEF Diagnostic
    <2> QED BY <2>1
  <1> HIDE DEF ds, more
  <1>4. Apart(ast', more)
    BY <1>1, <1>2, <1>3, ApartMore
  <1>5. ASSUME todo' # << >>
        PROVE  OpensAt(ast', Last(todo'), more, Len(ast'))
    <2>1. CASE Last(todo').at \notin {"declaration", "assignment"}
      BY <2>1 DEF OpensAt
    <2>2. CASE Last(todo').at \in {"declaration", "assignment"}
      <3>1. /\ Last(todo').line = Here /\ Len(ast') = Here
            /\ Here \in DOMAIN ast' /\ ast'[Here] = v
        BY <1>1, <1>5, <2>2
      <3>2. Silent(ds, Here, Here)
        <4>1. \A i \in DOMAIN ds : ds[i].line # Here
          BY <1>1
        <4> QED BY <1>1, <4>1 DEF Silent
      <3>3. \/ more = ds
            \/ Last(todo').at = "declaration" /\ Last(todo').redeclared
            \/ Last(todo').at = "assignment" /\ ~Last(todo').target.valid
        BY <1>5, <2>2 DEF more, ds
      <3> QED BY <3>1, <3>2, <3>3 DEF OpensAt
    <2> QED BY <2>1, <2>2
  <1>6. ast' \in Seq(Visits)
    BY <1>1
  <1>7. Spread'
    BY <1>5, <1>6, NoneWaits DEF more
  <1> QED BY <1>4, <1>7 DEF NoCascade, Apart, more

\* Expressions from a to b, of that balance.
Span(text, a, b, balance) ==
  /\ \A i \in a .. b : IsExpression(text[i])
  /\ Balance(text, a, b) = balance

\* Two spans, one behind the other, are a span.
LEMMA SpanJoins ==
  ASSUME NEW text, NEW a \in Nat, NEW b \in Nat, NEW c \in Nat, a <= b, b < c,
         NEW n, NEW m, Span(text, a, b, n), Span(text, b + 1, c, m)
  PROVE  Span(text, a, c, n + m)
  <1>1. \A i : i \in a .. c => i \in a .. b \/ i \in b + 1 .. c
    OBVIOUS
  <1>2. Balance(text, a, c) = n + m
    BY BalanceJoins DEF Span
  <1> QED BY <1>1, <1>2 DEF Span

\* A visit of an expression makes one operand of the last ones, as many as
\* its weight says: what was not reported in any of them was not in that one.
LEMMA OperandsJoin ==
  ASSUME NEW text \in Seq(Visits), NEW v \in Visits, IsExpression(v),
         NEW items \in Seq(Operand), NEW ds \in Seq(Diagnostic),
         \A i \in DOMAIN ds : ds[i].line \in DOMAIN text,
         NEW e, SpansIn(text, items, ds, e),
         NEW k \in 0 .. Len(items), k >= Len(items) - 2,
         Weight(v) = k + 1 - Len(items)
  PROVE  /\ e[k] \in 0 .. Len(text)
         /\ OperandAt(Append(text, v), e[k] + 1, Len(text) + 1)
         /\ (\A i \in k + 1 .. Len(items) : items[i].valid) =>
              Silent(ds, e[k] + 1, Len(text) + 1)
  <1> DEFINE n == Len(items)
             m == Len(text)
             new == Append(text, v)
             a == e[k]
             valid == \A i \in k + 1 .. n : items[i].valid
  <1>1. n \in Nat /\ m \in Nat /\ m + 1 \in Nat /\ m < m + 1
    OBVIOUS
  <1>2. new[m + 1] = v /\ \A i \in 1 .. m : new[i] = text[i]
    OBVIOUS
  <1>3. \A i \in DOMAIN ds : ds[i].line \in 1 .. m
    OBVIOUS
  <1>4. /\ \A i \in 0 .. n : e[i] \in 0 .. m
        /\ e[n] = m
        /\ \A i \in 1 .. n : /\ e[i - 1] < e[i]
                             /\ OperandAt(text, e[i - 1] + 1, e[i])
                             /\ items[i].valid => Silent(ds, e[i - 1] + 1, e[i])
    BY DEF SpansIn
  <1>5. /\ k \in 0 .. n /\ Weight(v) = k + 1 - n
        /\ k = n \/ k = n - 1 \/ k = n - 2
    BY <1>1
  <1> HIDE DEF new, n, m
  <1>6. ASSUME NEW i \in 1 .. n
        PROVE  /\ e[i - 1] \in 0 .. m /\ e[i] \in 0 .. m /\ e[i - 1] < e[i]
               /\ Span(new, e[i - 1] + 1, e[i], 1)
               /\ items[i].valid => Silent(ds, e[i - 1] + 1, e[i])
    <2> DEFINE p == e[i - 1]
               q == e[i]
    <2>1. i - 1 \in 0 .. n /\ i \in 0 .. n
      BY <1>1
    <2>2. p \in 0 .. m /\ q \in 0 .. m
      BY <1>4, <2>1
    <2>3. /\ p < q /\ OperandAt(text, p + 1, q)
          /\ items[i].valid => Silent(ds, p + 1, q)
      BY <1>4
    <2> HIDE DEF p, q
    <2>4. \A j \in p + 1 .. q : j \in 1 .. m
      BY <1>1, <2>2
    <2>5. \A j \in p + 1 .. q : new[j] = text[j]
      BY <1>2, <2>4
    <2>6. OperandAt(new, p + 1, q)
      BY <2>3, <2>5, OperandStays
    <2> QED BY <2>2, <2>3, <2>6 DEF OperandAt, Span, p, q
  <1>7. Span(new, m + 1, m + 1, Weight(v)) /\ Silent(ds, m + 1, m + 1)
    <2>1. \A i : i \in m + 1 .. m + 1 <=> i = m + 1
      BY <1>1
    <2>2. Balance(new, m + 1, m + 1) = Weight(v)
      BY <1>1, <1>2, BalanceOfOne
    <2>3. \A i \in 1 .. m : i # m + 1
      BY <1>1
    <2>4. Silent(ds, m + 1, m + 1)
      BY <1>3, <2>1, <2>3 DEF Silent
    <2> QED BY <1>2, <2>1, <2>2, <2>4 DEF Span
  <1>8. a \in 0 .. m
    BY <1>4, <1>5
  <1> HIDE DEF valid
  <1>9. /\ Span(new, a + 1, m + 1, 1)
        /\ valid => Silent(ds, a + 1, m + 1)
    <2>1. CASE k = n
      <3>1. a = m /\ Weight(v) = 1
        BY <1>1, <1>4, <1>5, <2>1
      <3> HIDE DEF a
      <3> QED BY <1>7, <3>1
    <2>2. CASE k = n - 1
      <3>1. n \in 1 .. n /\ n - 1 = k /\ n \in k + 1 .. n /\ Weight(v) = 0
        BY <1>1, <1>5, <2>2
      <3>2. /\ a < m /\ Span(new, a + 1, m, 1)
            /\ items[n].valid => Silent(ds, a + 1, m)
        BY <1>4, <1>6, <3>1
      <3>3. valid => items[n].valid
        BY <3>1 DEF valid
      <3> HIDE DEF a
      <3>4. a + 1 \in Nat /\ a + 1 <= m
        BY <1>1, <1>8, <3>2
      <3>5. Span(new, a + 1, m + 1, 1 + Weight(v))
        BY <1>1, <1>7, <3>2, <3>4, SpanJoins
      <3>6. valid => Silent(ds, a + 1, m + 1)
        BY <1>1, <1>7, <3>2, <3>3, <3>4, SilentJoins
      <3>7. 1 + Weight(v) = 1
        BY <3>1
      <3> QED BY <3>5, <3>6, <3>7
    <2>3. CASE k = n - 2
      <3> DEFINE b == e[n - 1]
      <3>1. /\ n \in 1 .. n /\ n - 1 \in 1 .. n /\ (n - 1) - 1 = k
            /\ n \in k + 1 .. n /\ n - 1 \in k + 1 .. n
        BY <1>1, <1>5, <2>3
      <3>2. /\ a < b /\ b \in 0 .. m /\ Span(new, a + 1, b, 1)
            /\ items[n - 1].valid => Silent(ds, a + 1, b)
        BY <1>6, <3>1
      <3>3. /\ b < m /\ Span(new, b + 1, m, 1)
            /\ items[n].valid => Silent(ds, b + 1, m)
        BY <1>4, <1>6, <3>1
      <3>4. valid => items[n - 1].valid /\ items[n].valid
        BY <3>1 DEF valid
      <3> HIDE DEF a, b
      <3>5. /\ a + 1 \in Nat /\ b \in Nat /\ a + 1 <= b /\ a + 1 <= m
        <4>1. a \in 0 .. m /\ b \in 0 .. m /\ a < b /\ b < m /\ m \in Nat
          BY <1>1, <1>8, <3>2, <3>3
        <4> QED BY <4>1
      <3>6. Span(new, a + 1, m, 1 + 1)
        BY <1>1, <3>2, <3>3, <3>5, SpanJoins
      <3>7. Span(new, a + 1, m + 1, (1 + 1) + Weight(v))
        BY <1>1, <1>7, <3>5, <3>6, SpanJoins
      <3>8. valid => Silent(ds, a + 1, m)
        BY <1>1, <3>2, <3>3, <3>4, <3>5, SilentJoins
      <3>9. valid => Silent(ds, a + 1, m + 1)
        BY <1>1, <1>7, <3>5, <3>8, SilentJoins
      <3>10. (1 + 1) + Weight(v) = 1
        BY <1>1, <1>5, <2>3
      <3> QED BY <3>7, <3>9, <3>10
    <2> QED BY <1>5, <2>1, <2>2, <2>3
  <1>10. OperandAt(new, a + 1, m + 1)
    BY <1>9 DEF Span, OperandAt
  <1> QED BY <1>8, <1>9, <1>10 DEF new, m, n, valid

\* The operands behind the k-th are valid.
Usable(k) == \A i \in k + 1 .. Len(operands) : operands[i].valid

\* A visit of an expression says that a type is wrong only if nothing was
\* reported in its operands, and its result is valid only if nothing was and
\* nothing is.
LEMMA ExpressionApart ==
  ASSUME Structured, Said, NoCascade, Spread, NEW v \in Expressions,
         VisitExpression(v), NEW k \in 0 .. Len(operands), k >= Len(operands) - 2,
         Weight(v) = k + 1 - Len(operands),
         NEW kept \in Seq(Operand), Len(kept) = k,
         \A i \in 1 .. k : kept[i] = operands[i],
         NEW result \in Operand, operands' = Append(kept, result),
         \/ context'.diagnostics = context.diagnostics
         \/ \E code \in Codes :
              /\ context'.diagnostics = Append(context.diagnostics,
                                               [code |-> code, line |-> Here])
              /\ code \in TypeCodes => Usable(k),
         result.valid => Usable(k) /\ context'.diagnostics = context.diagnostics
  PROVE  NoCascade' /\ Spread'
  <1> DEFINE ds == context.diagnostics
             more == context'.diagnostics
             m == Len(ast)
  <1>1. /\ ast \in Seq(Visits) /\ ds \in Seq(Diagnostic) /\ operands \in Seq(Operand)
        /\ Here = m + 1 /\ m \in Nat /\ \A i \in DOMAIN ds : ds[i].line \in DOMAIN ast
        /\ v \in Visits /\ IsExpression(v)
        /\ ast' = Append(ast, v) /\ todo' = todo /\ ExpressionExpected
        /\ DOMAIN ast = 1 .. m
    BY DEF Structured, TypeOK, Context, Here, Said, ReportedOnce, VisitExpression,
           Visit, Visits, Expressions, Identifier, Literal, Binary, Unary,
           IsExpression
  <1>2. Apart(ast, ds)
    BY DEF NoCascade, Apart
  <1>3. PICK e : /\ SpansIn(ast, operands, ds, e)
                 /\ todo # << >> => OpensAt(ast, Last(todo), ds, e[0])
    BY DEF Spread
  <1> HIDE DEF ds, more
  <1>4. /\ e[k] \in 0 .. m /\ OperandAt(ast', e[k] + 1, Here)
        /\ Usable(k) => Silent(ds, e[k] + 1, Here)
    <2>1. \A i \in DOMAIN ds : ds[i].line \in DOMAIN ast
      BY <1>1
    <2>2. /\ e[k] \in 0 .. Len(ast)
          /\ OperandAt(Append(ast, v), e[k] + 1, Len(ast) + 1)
          /\ (\A i \in k + 1 .. Len(operands) : operands[i].valid) =>
               Silent(ds, e[k] + 1, Len(ast) + 1)
      BY <1>1, <1>3, <2>1, OperandsJoin
    <2> QED BY <1>1, <2>2 DEF Usable
  <1>5. Within(ast', Here) \subseteq e[k] + 1 .. Here
    <2>1. Here \in Nat /\ e[k] + 1 \in 1 .. Here
      BY <1>1, <1>4
    <2> QED BY <1>4, <2>1, OperandHolds
  <1>6. \/ more = ds
        \/ \E d \in Diagnostic : /\ more = Append(ds, d) /\ d.line = Here
                                 /\ d.code \in TypeCodes => Usable(k)
    <2>1. \A code \in Codes : [code |-> code, line |-> Here] \in Diagnostic
      BY <1>1 DEF Diagnostic
    <2>2. CASE more = ds
      BY <2>2
    <2>3. CASE more # ds
      <3>1. PICK code \in Codes : /\ more = Append(ds, [code |-> code, line |-> Here])
                                  /\ code \in TypeCodes => Usable(k)
        BY <2>3 DEF more, ds
      <3> QED BY <2>1, <3>1
    <2> QED BY <2>2, <2>3
  <1>7. Apart(ast', more)
    <2>1. \/ more = ds
          \/ \E d \in Diagnostic :
               /\ more = Append(ds, d)
               /\ d.code \in TypeCodes =>
                    \A i \in DOMAIN ds : ds[i].line \notin Within(ast', d.line)
      BY <1>4, <1>5, <1>6 DEF Silent
    <2> QED BY <1>1, <1>2, <2>1, ApartMore
  <1> DEFINE f == [i \in 0 .. k + 1 |-> IF i <= k THEN e[i] ELSE Here]
  <1>8. /\ f \in [0 .. k + 1 -> 0 .. Here] /\ f[k + 1] = Here /\ k \in Nat
        /\ \A i \in 0 .. k : f[i] = e[i] /\ e[i] \in 0 .. m
        /\ \A i \in 1 .. k : i - 1 \in 0 .. k /\ i \in 0 .. k /\ i \in 1 .. Len(operands)
    <2> DEFINE n == Len(operands)
    <2>1. n \in Nat
      BY <1>1
    <2>2. \A i \in 0 .. n : e[i] \in 0 .. m
      BY <1>3 DEF SpansIn
    <2> HIDE DEF n
    <2>3. k \in Nat /\ k <= n
      BY <2>1 DEF n
    <2>4. \A i \in 0 .. k : e[i] \in 0 .. m
      BY <2>1, <2>2, <2>3
    <2>5. \A i \in 1 .. k : i - 1 \in 0 .. k /\ i \in 0 .. k /\ i \in 1 .. n
      BY <2>1, <2>3
    <2>6. /\ Here \in 0 .. Here /\ \A x \in 0 .. m : x \in 0 .. Here
          /\ k + 1 \in 0 .. k + 1 /\ ~(k + 1 <= k)
          /\ \A i \in 0 .. k : i \in 0 .. k + 1 /\ i <= k
          /\ \A i \in 0 .. k + 1 : i <= k => i \in 0 .. k
      BY <1>1, <2>3
    <2> HIDE DEF m
    <2>7. f \in [0 .. k + 1 -> 0 .. Here]
      BY <2>4, <2>6
    <2>8. f[k + 1] = Here /\ \A i \in 0 .. k : f[i] = e[i]
      BY <2>6
    <2> HIDE DEF f
    <2> QED BY <2>3, <2>4, <2>5, <2>7, <2>8 DEF n
  <1> HIDE DEF f, m
  <1>9. /\ Len(operands') = k + 1 /\ operands'[k + 1] = result
        /\ \A i \in 1 .. k : operands'[i] = operands[i]
    <2>1. /\ Len(Append(kept, result)) = Len(kept) + 1
          /\ \A i \in 1 .. Len(kept) : Append(kept, result)[i] = kept[i]
          /\ Append(kept, result)[Len(kept) + 1] = result
      BY LastOfAppend
    <2> QED BY <2>1
  <1>10. Len(ast') = Here
    BY <1>1 DEF m
  <1>11. ReportsAt(ds, more, Here)
    BY <1>6 DEF ReportsAt
  <1>12. ASSUME NEW i \in 1 .. k + 1
         PROVE  /\ f[i - 1] < f[i]
                /\ OperandAt(ast', f[i - 1] + 1, f[i])
                /\ operands'[i].valid => Silent(more, f[i - 1] + 1, f[i])
    <2>1. CASE i \in 1 .. k
      <3>1. /\ f[i - 1] = e[i - 1] /\ f[i] = e[i] /\ operands'[i] = operands[i]
            /\ e[i - 1] \in 0 .. m /\ e[i] \in 0 .. m /\ i \in 1 .. Len(operands)
        BY <1>8, <1>9, <2>1
      <3>2. /\ e[i - 1] < e[i] /\ OperandAt(ast, e[i - 1] + 1, e[i])
            /\ operands[i].valid => Silent(ds, e[i - 1] + 1, e[i])
        BY <1>3, <3>1 DEF SpansIn
      <3>3. /\ \A j \in e[i - 1] + 1 .. e[i] : ast'[j] = ast[j]
            /\ Here \notin e[i - 1] + 1 .. e[i]
        <4> DEFINE p == e[i - 1]
                   q == e[i]
        <4>1. p \in 0 .. m /\ q \in 0 .. m /\ m \in Nat /\ Here = m + 1
          BY <1>1, <3>1
        <4> HIDE DEF p, q
        <4>2. \A j \in p + 1 .. q : j \in 1 .. m /\ j # Here
          BY <4>1
        <4>3. \A j \in 1 .. m : ast'[j] = ast[j]
          BY <1>1
        <4> QED BY <4>2, <4>3 DEF p, q
      <3>4. OperandAt(ast', e[i - 1] + 1, e[i])
        BY <3>2, <3>3, OperandStays
      <3>5. operands[i].valid => Silent(more, e[i - 1] + 1, e[i])
        BY <1>1, <1>11, <3>2, <3>3, SilentStays
      <3> QED BY <3>1, <3>2, <3>4, <3>5
    <2>2. CASE i = k + 1
      <3>1. /\ f[i - 1] = e[k] /\ f[i] = Here /\ operands'[i] = result
            /\ e[k] < Here
        <4>1. i - 1 = k /\ k \in 0 .. k
          BY <1>8, <2>2
        <4>2. e[k] < Here
          BY <1>1, <1>4
        <4> QED BY <1>8, <1>9, <2>2, <4>1, <4>2
      <3>2. result.valid => Silent(more, e[k] + 1, Here)
        BY <1>4 DEF more, ds
      <3> QED BY <1>4, <3>1, <3>2
    <2> QED BY <1>8, <2>1, <2>2
  <1>13. SpansIn(ast', operands', more, f)
    BY <1>8, <1>9, <1>10, <1>12 DEF SpansIn
  <1>14. todo' # << >> => OpensAt(ast', Last(todo'), more, f[0])
    <2> SUFFICES ASSUME todo # << >> PROVE OpensAt(ast', Last(todo), more, f[0])
      BY <1>1
    <2> DEFINE item == Last(todo)
    <2>1. OpensAt(ast, item, ds, e[0]) /\ f[0] = e[0]
      BY <1>3, <1>8
    <2> HIDE DEF item
    <2>2. ASSUME item.at \in {"declaration", "assignment"}
          PROVE  /\ e[0] = item.line /\ e[0] \in DOMAIN ast' /\ ~IsExpression(ast'[e[0]])
                 /\ Silent(ds, e[0], e[0]) => Silent(more, e[0], e[0])
      <3>1. e[0] = item.line /\ e[0] \in DOMAIN ast /\ ~IsExpression(ast[e[0]])
        BY <2>1, <2>2 DEF OpensAt
      <3>2. e[0] \in DOMAIN ast' /\ ast'[e[0]] = ast[e[0]] /\ Here \notin e[0] .. e[0]
        BY <1>1, <3>1
      <3>3. Silent(ds, e[0], e[0]) => Silent(more, e[0], e[0])
        BY <1>1, <1>11, <3>2, SilentStays
      <3> QED BY <3>1, <3>2, <3>3
    <2> QED BY <2>1, <2>2 DEF OpensAt, item
  <1>15. Spread'
    BY <1>13, <1>14 DEF Spread, more
  <1> QED BY <1>7, <1>15 DEF NoCascade, Apart, more

\* The visits of expressions.
LEMMA ExpressionsApart ==
  ASSUME Structured, Said, NoCascade, Spread,
         \/ \E n \in Names : VisitIdentifier(n)
         \/ \E ty \in Types : VisitLiteral(ty)
         \/ \E op \in BinaryOperators : VisitBinary(op)
         \/ VisitUnary
  PROVE  NoCascade' /\ Spread'
  <1> DEFINE n == Len(operands)
  <1>1. /\ TypeOK /\ WellFormed(context.symbols) /\ operands \in Seq(Operand)
        /\ context \in Context /\ ~Error.valid /\ n \in Nat
    BY DEF Structured, TypeOK, Placed, PlacedIn, Error
  <1>2. Error \in Operand /\ \A ty \in Types : OfType(ty) \in Operand
    BY TypesAssumption DEF Operand, Error, OfType
  <1>3. ASSUME NEW code \in Codes, NEW condition \in BOOLEAN, NEW written \in Written,
               context' = ReportIf(condition, context, code, Here, written)
        PROVE  \/ context'.diagnostics = context.diagnostics
               \/ /\ context'.diagnostics = Append(context.diagnostics,
                                                   [code |-> code, line |-> Here])
                  /\ condition
    <2>1. written \in BOOLEAN /\ Here \in Nat
      BY <1>1, Outcomes DEF TypeOK, Here
    <2>2. CASE condition = TRUE
      <3>1. context' = Report(context, code, Here, written)
        BY <1>3, <2>2 DEF ReportIf
      <3> QED BY <1>1, <2>1, <2>2, <3>1, ReportEffect
    <2>3. CASE condition = FALSE
      BY <1>3, <2>3 DEF ReportIf
    <2> QED BY <2>2, <2>3
  <1>4. ASSUME NEW x \in Names, VisitIdentifier(x)
        PROVE  NoCascade' /\ Spread'
    <2> DEFINE v == Identifier(x)
               result == Resolved(context, x)
    <2>1. /\ v \in Expressions /\ VisitExpression(v) /\ Weight(v) = 1
          /\ operands' = Append(operands, result)
      BY <1>4 DEF VisitIdentifier, Expressions, Identifier, Weight
    <2>2. PICK written \in Written :
            context' = ReportUnresolved(context, x, Here, written)
      BY <1>4 DEF VisitIdentifier
    <2>3. result \in Operand
      BY <1>1, ResolvedType
    <2> HIDE DEF v, result
    <2> DEFINE missing == LookupActive(context.symbols, x) = Null
               code == IF LookupHistory(context.symbols, x) # Null
                         THEN "SEM_SCOPE_VIOLATION" ELSE "SEM_UNDECLARED"
    <2>4. missing \in BOOLEAN /\ code \in Codes /\ code \notin TypeCodes
      BY DEF Codes, TypeCodes
    <2>5. context' = ReportIf(missing, context, code, Here, written)
      BY <2>2 DEF ReportUnresolved
    <2>6. result.valid => ~missing
      BY <1>1 DEF Resolved, result
    <2> HIDE DEF missing, code
    <2>7. \/ context'.diagnostics = context.diagnostics
          \/ /\ context'.diagnostics = Append(context.diagnostics,
                                              [code |-> code, line |-> Here])
             /\ missing
      BY <1>3, <2>4, <2>5
    <2>8. /\ n \in 0 .. n /\ n >= n - 2 /\ Weight(v) = n + 1 - n
          /\ n + 1 .. n = {}
      BY <1>1, <2>1
    <2>9. Usable(n)
      BY <2>8 DEF Usable
    <2>10. \/ context'.diagnostics = context.diagnostics
           \/ \E c \in Codes :
                /\ context'.diagnostics = Append(context.diagnostics,
                                                 [code |-> c, line |-> Here])
                /\ c \in TypeCodes => Usable(n)
      BY <2>4, <2>7, <2>9
    <2>11. result.valid => Usable(n) /\ context'.diagnostics = context.diagnostics
      BY <2>6, <2>7, <2>9
    <2> QED BY <1>1, <2>1, <2>3, <2>8, <2>10, <2>11, ExpressionApart
  <1>5. ASSUME NEW ty \in Types, VisitLiteral(ty)
        PROVE  NoCascade' /\ Spread'
    <2> DEFINE v == Literal(ty)
               result == OfType(ty)
    <2>1. /\ v \in Expressions /\ VisitExpression(v) /\ Weight(v) = 1
          /\ operands' = Append(operands, result) /\ context' = context
      BY <1>5 DEF VisitLiteral, Expressions, Literal, Weight
    <2>2. result \in Operand
      BY <1>2
    <2> HIDE DEF v, result
    <2>3. /\ n \in 0 .. n /\ n >= n - 2 /\ Weight(v) = n + 1 - n
          /\ n + 1 .. n = {}
      BY <1>1, <2>1
    <2>4. Usable(n)
      BY <2>3 DEF Usable
    <2> QED BY <1>1, <2>1, <2>2, <2>3, <2>4, ExpressionApart
  <1>6. ASSUME NEW op \in BinaryOperators, VisitBinary(op)
        PROVE  NoCascade' /\ Spread'
    <2> DEFINE v == Binary(op)
               right == Last(operands)
               left == Last(Front(operands))
               usable == left.valid /\ right.valid /\ ~context.internal_failure
               accepted == Accepts(op, left.type, right.type)
               result == IF usable /\ accepted
                           THEN OfType(TypeOfBinary(op, left.type, right.type))
                           ELSE Error
               kept == Front(Front(operands))
               code == CodeOfBinary(op)
               condition == usable /\ ~accepted
    <2>1. /\ v \in Expressions /\ VisitExpression(v) /\ Weight(v) = -1 /\ n >= 2
          /\ operands' = Append(kept, result)
      BY <1>6 DEF VisitBinary, Expressions, Binary, Weight
    <2>2. PICK written \in Written :
            context' = ReportIf(condition, context, code, Here, written)
      BY <1>6 DEF VisitBinary
    <2>3. /\ Front(operands) \in Seq(Operand) /\ Len(Front(operands)) = n - 1
          /\ \A i \in 1 .. n - 1 : Front(operands)[i] = operands[i]
          /\ right = operands[n] /\ right \in Operand
      <3>1. operands # << >>
        BY <2>1
      <3> QED BY <1>1, <3>1, LastAndFront
    <2>4. /\ kept \in Seq(Operand) /\ Len(kept) = n - 2
          /\ \A i \in 1 .. n - 2 : kept[i] = operands[i]
          /\ left = operands[n - 1] /\ left \in Operand
      <3> DEFINE s == Front(operands)
      <3>1. s \in Seq(Operand) /\ Len(s) = n - 1 /\ \A i \in 1 .. n - 1 : s[i] = operands[i]
        BY <2>3
      <3> HIDE DEF s
      <3>2. /\ n \in Nat /\ n - 1 - 1 = n - 2 /\ n - 1 \in 1 .. n - 1
            /\ \A i \in 1 .. n - 2 : i \in 1 .. n - 1
        BY <1>1, <2>1
      <3>3. s # << >>
        BY <3>1, <3>2
      <3>4. /\ Front(s) \in Seq(Operand) /\ Len(Front(s)) = n - 1 - 1
            /\ \A i \in 1 .. n - 1 - 1 : Front(s)[i] = s[i]
            /\ Last(s) = s[n - 1] /\ Last(s) \in Operand
        BY <3>1, <3>3, LastAndFront
      <3> QED BY <3>1, <3>2, <3>4 DEF s
    <2>5. left.type \in Types /\ right.type \in Types
      BY <2>3, <2>4 DEF Operand
    <2>6. code \in Codes
      BY DEF CodeOfBinary, Codes
    <2>7. TypeOfBinary(op, left.type, right.type) \in Types
      BY <2>5, TypesAssumption DEF TypeOfBinary
    <2>8. /\ result \in Operand
          /\ result.valid => usable /\ accepted
      BY <1>1, <1>2, <2>7
    <2>9. usable => left.valid /\ right.valid
      OBVIOUS
    <2>10. condition \in BOOLEAN /\ (condition => usable /\ ~accepted)
      OBVIOUS
    <2> HIDE DEF v, right, left, usable, accepted, result, kept, code, condition
    <2>11. \/ context'.diagnostics = context.diagnostics
           \/ /\ context'.diagnostics = Append(context.diagnostics,
                                               [code |-> code, line |-> Here])
              /\ condition
      BY <1>3, <2>2, <2>6, <2>10
    <2>12. /\ n - 2 \in 0 .. n /\ n - 2 >= n - 2 /\ Weight(v) = n - 2 + 1 - n
           /\ \A i \in n - 2 + 1 .. n : i = n - 1 \/ i = n
      BY <1>1, <2>1
    <2>13. usable => Usable(n - 2)
      BY <2>3, <2>4, <2>9, <2>12 DEF Usable
    <2>14. result.valid => Usable(n - 2) /\ context'.diagnostics = context.diagnostics
      BY <2>8, <2>10, <2>11, <2>13
    <2>15. \/ context'.diagnostics = context.diagnostics
           \/ \E c \in Codes :
                /\ context'.diagnostics = Append(context.diagnostics,
                                                 [code |-> c, line |-> Here])
                /\ c \in TypeCodes => Usable(n - 2)
      BY <2>6, <2>10, <2>11, <2>13
    <2> QED BY <2>1, <2>4, <2>8, <2>12, <2>14, <2>15, ExpressionApart
  <1>7. ASSUME VisitUnary
        PROVE  NoCascade' /\ Spread'
    <2> DEFINE v == Unary
               operand == Last(operands)
               usable == operand.valid /\ ~context.internal_failure
               result == IF usable /\ operand.type = "bool" THEN OfType("bool") ELSE Error
               kept == Front(operands)
               code == "SEM_INVALID_OPERATOR"
               condition == usable /\ operand.type # "bool"
    <2>1. /\ v \in Expressions /\ VisitExpression(v) /\ Weight(v) = 0
          /\ operands # << >> /\ operands' = Append(kept, result)
      BY <1>7 DEF VisitUnary, Expressions, Unary, Weight
    <2>2. PICK written \in Written :
            context' = ReportIf(condition, context, code, Here, written)
      BY <1>7 DEF VisitUnary
    <2>3. /\ kept \in Seq(Operand) /\ Len(kept) = n - 1 /\ n # 0
          /\ \A i \in 1 .. n - 1 : kept[i] = operands[i]
          /\ operand = operands[n]
      BY <1>1, <2>1, LastAndFront
    <2>4. code \in Codes
      BY DEF Codes
    <2>5. /\ result \in Operand
          /\ result.valid => usable /\ operand.type = "bool"
      BY <1>1, <1>2, TypesAssumption
    <2>6. usable => operand.valid
      OBVIOUS
    <2>7. condition \in BOOLEAN /\ (condition => usable /\ operand.type # "bool")
      OBVIOUS
    <2> HIDE DEF v, operand, usable, result, kept, code, condition
    <2>8. \/ context'.diagnostics = context.diagnostics
          \/ /\ context'.diagnostics = Append(context.diagnostics,
                                              [code |-> code, line |-> Here])
             /\ condition
      BY <1>3, <2>2, <2>4, <2>7
    <2>9. /\ n - 1 \in 0 .. n /\ n - 1 >= n - 2 /\ Weight(v) = n - 1 + 1 - n
          /\ \A i \in n - 1 + 1 .. n : i = n
      BY <1>1, <2>1, <2>3
    <2>10. usable => Usable(n - 1)
      BY <2>3, <2>6, <2>9 DEF Usable
    <2>11. result.valid => Usable(n - 1) /\ context'.diagnostics = context.diagnostics
      BY <2>5, <2>7, <2>8, <2>10
    <2>12. \/ context'.diagnostics = context.diagnostics
           \/ \E c \in Codes :
                /\ context'.diagnostics = Append(context.diagnostics,
                                                 [code |-> c, line |-> Here])
                /\ c \in TypeCodes => Usable(n - 1)
      BY <2>4, <2>7, <2>8, <2>10
    <2> QED BY <2>1, <2>3, <2>5, <2>9, <2>11, <2>12, ExpressionApart
  <1> QED BY <1>4, <1>5, <1>6, <1>7

\* In a list no operand waits.
LEMMA NoneInList ==
  ASSUME Structured, At("list")
  PROVE  operands = << >> /\ todo \in Seq(Todo) /\ todo # << >> /\ Last(todo).at = "list"
  BY DEF Structured, TypeOK, Underway, ExpressionExpected, At

\* The visits of simple statements.
LEMMA StatementsApart ==
  ASSUME Structured, Said, NoCascade,
         \/ \E n \in Names : VisitAssignment(n) \/ VisitPrint(n)
         \/ \E hasElse \in BOOLEAN : VisitIf(hasElse)
         \/ VisitWhile
  PROVE  NoCascade' /\ Spread'
  <1>1. /\ TypeOK /\ WellFormed(context.symbols) /\ context \in Context
        /\ Here \in Nat /\ ~Error.valid /\ todo \in Seq(Todo)
    BY DEF Structured, TypeOK, Placed, PlacedIn, Here, Error
  <1>2. ASSUME NEW n, NEW written \in Written,
               context' = ReportUnresolved(context, n, Here, written)
        PROVE  /\ \/ context'.diagnostics = context.diagnostics
                  \/ \E code \in Codes \ TypeCodes :
                       context'.diagnostics = Append(context.diagnostics,
                                                     [code |-> code, line |-> Here])
               /\ Resolved(context, n).valid =>
                    context'.diagnostics = context.diagnostics
    <2> DEFINE code == IF LookupHistory(context.symbols, n) # Null
                         THEN "SEM_SCOPE_VIOLATION" ELSE "SEM_UNDECLARED"
    <2>1. code \in Codes /\ code \notin TypeCodes /\ written \in BOOLEAN
      BY Outcomes DEF Codes, TypeCodes
    <2>2. CASE LookupActive(context.symbols, n) = Null
      <3>1. context' = Report(context, code, Here, written)
        BY <1>2, <2>2 DEF ReportUnresolved, ReportIf
      <3>2. ~Resolved(context, n).valid
        BY <1>1, <2>2 DEF Resolved
      <3> HIDE DEF code
      <3> QED BY <1>1, <2>1, <3>1, <3>2, ReportEffect
    <2>3. CASE LookupActive(context.symbols, n) # Null
      BY <1>2, <2>3 DEF ReportUnresolved, ReportIf
    <2> QED BY <2>2, <2>3
  <1>3. ASSUME NEW n \in Names, VisitAssignment(n)
        PROVE  NoCascade' /\ Spread'
    <2> DEFINE v == Assignment(n)
               item == [at |-> "assignment", line |-> Here,
                        target |-> Resolved(context, n)]
    <2>1. /\ v \in Visits /\ ~IsExpression(v) /\ ast' = Append(ast, v)
          /\ operands' = operands /\ At("list") /\ todo' = Append(todo, item)
      BY <1>3 DEF VisitAssignment, VisitStatement, Visit, Assignment, Visits,
                  Statements, IsExpression, Push
    <2>2. PICK written \in Written :
            context' = ReportUnresolved(context, n, Here, written)
      BY <1>3 DEF VisitAssignment
    <2>3. /\ item.at = "assignment" /\ item.line = Here
          /\ item.target = Resolved(context, n)
      OBVIOUS
    <2> HIDE DEF v, item
    <2>4. Last(todo') = item
      BY <1>1, <2>1 DEF Last
    <2>5. operands' = << >>
      BY <2>1, NoneInList
    <2>6. /\ \/ context'.diagnostics = context.diagnostics
             \/ \E code \in Codes \ TypeCodes :
                  context'.diagnostics = Append(context.diagnostics,
                                                [code |-> code, line |-> Here])
          /\ item.target.valid => context'.diagnostics = context.diagnostics
      BY <1>2, <2>2, <2>3
    <2> QED BY <2>1, <2>3, <2>4, <2>5, <2>6, StatementApart
  <1>4. ASSUME NEW n \in Names, VisitPrint(n)
        PROVE  NoCascade' /\ Spread'
    <2> DEFINE v == PrintOf(n)
    <2>1. /\ v \in Visits /\ ~IsExpression(v) /\ ast' = Append(ast, v)
          /\ operands' = operands /\ At("list") /\ todo' = todo
      BY <1>4 DEF VisitPrint, VisitStatement, Visit, PrintOf, Visits,
                  Statements, IsExpression
    <2>2. PICK written \in Written :
            context' = ReportUnresolved(context, n, Here, written)
      BY <1>4 DEF VisitPrint
    <2> HIDE DEF v
    <2>3. operands' = << >> /\ Last(todo').at = "list"
      BY <2>1, NoneInList
    <2>4. \/ context'.diagnostics = context.diagnostics
          \/ \E code \in Codes \ TypeCodes :
               context'.diagnostics = Append(context.diagnostics,
                                             [code |-> code, line |-> Here])
      BY <1>2, <2>2
    <2> QED BY <2>1, <2>3, <2>4, StatementApart
  <1>5. ASSUME NEW v \in Visits, ~IsExpression(v), VisitStatement(v), NEW blocks,
               todo' = Push([at |-> "condition", blocks |-> blocks]), context' = context
        PROVE  NoCascade' /\ Spread'
    <2> DEFINE item == [at |-> "condition", blocks |-> blocks]
    <2>1. item.at = "condition" /\ todo' = Append(todo, item)
      BY <1>5 DEF Push
    <2>2. /\ ast' = Append(ast, v) /\ operands' = operands /\ At("list")
          /\ context'.diagnostics = context.diagnostics
      BY <1>5 DEF VisitStatement, Visit
    <2> HIDE DEF item
    <2>3. Last(todo') = item
      BY <1>1, <2>1 DEF Last
    <2>4. operands' = << >>
      BY <2>2, NoneInList
    <2>5. Last(todo').at \notin {"declaration", "assignment"}
      BY <2>1, <2>3
    <2> QED BY <1>5, <2>2, <2>4, <2>5, StatementApart
  <1>6. CASE VisitWhile
    <2>1. While \in Visits /\ ~IsExpression(While)
      BY DEF While, Visits, Statements, IsExpression
    <2> QED BY <1>5, <1>6, <2>1 DEF VisitWhile
  <1>7. ASSUME NEW hasElse \in BOOLEAN, VisitIf(hasElse)
        PROVE  NoCascade' /\ Spread'
    <2>1. If(hasElse) \in Visits
      BY DEF Visits, Statements
    <2>2. ~IsExpression(If(hasElse))
      BY DEF If, IsExpression
    <2> DEFINE v == If(hasElse)
               n == IF hasElse THEN 2 ELSE 1
    <2>3. /\ VisitStatement(v) /\ context' = context
          /\ todo' = Push([at |-> "condition", blocks |-> n])
      BY <1>7 DEF VisitIf
    <2> HIDE DEF v, n
    <2>4. v \in Visits /\ ~IsExpression(v)
      BY <2>1, <2>2 DEF v
    <2> QED BY <1>5, <2>3, <2>4
  <1> QED BY <1>3, <1>4, <1>6, <1>7

\* What the end of a declaration reports.
LEMMA DeclareReports ==
  ASSUME NEW c \in Context, NEW d, d.line \in Nat, NEW written \in BOOLEAN,
         NEW allocated \in BOOLEAN, NEW mismatch
  PROVE  LET r == Declare(c, d, mismatch, written, allocated)
         IN  \/ r.diagnostics = c.diagnostics
             \/ /\ ~d.redeclared /\ mismatch
                /\ r.diagnostics = Append(c.diagnostics,
                                          [code |-> "SEM_TYPE_MISMATCH",
                                           line |-> d.line])
  <1> DEFINE after == ReportIf(~d.redeclared /\ mismatch, c, "SEM_TYPE_MISMATCH",
                               d.line, written)
             r == Declare(c, d, mismatch, written, allocated)
  <1>1. /\ after \in Context
        /\ \/ after.diagnostics = c.diagnostics
           \/ /\ ~d.redeclared /\ mismatch
              /\ after.diagnostics = Append(c.diagnostics,
                                            [code |-> "SEM_TYPE_MISMATCH",
                                             line |-> d.line])
    <2>1. "SEM_TYPE_MISMATCH" \in Codes
      BY DEF Codes
    <2>2. CASE ~d.redeclared /\ mismatch
      <3>1. after = Report(c, "SEM_TYPE_MISMATCH", d.line, written)
        BY <2>2 DEF ReportIf
      <3> QED BY <2>1, <2>2, <3>1, ReportEffect
    <2>3. CASE ~(~d.redeclared /\ mismatch)
      BY <2>3 DEF ReportIf
    <2> QED BY <2>2, <2>3
  <1>2. r = after \/ r = InsertDeclaration(after, d, allocated)
    BY DEF Declare
  <1> HIDE DEF after, r
  <1>3. InsertDeclaration(after, d, allocated).diagnostics = after.diagnostics
    BY <1>1 DEF InsertDeclaration, Fail, Context
  <1> QED BY <1>1, <1>2, <1>3 DEF r

\* The visit of a declaration.
LEMMA DeclarationApart ==
  ASSUME Structured, Said, NoCascade, NEW n \in Names, NEW ty \in Types,
         NEW initialized \in BOOLEAN, VisitDeclaration(n, ty, initialized)
  PROVE  NoCascade' /\ Spread'
  <1> DEFINE v == Declaration(n, ty, initialized)
             redeclared == LookupCurrent(context.symbols, n) # Null
             d == [at |-> "declaration", line |-> Here, name |-> n, type |-> ty,
                   redeclared |-> redeclared]
             code == "SEM_REDECLARATION"
  <1>1. /\ context \in Context /\ Here \in Nat /\ todo \in Seq(Todo)
        /\ code \in Codes /\ code \in Codes \ TypeCodes
    BY DEF Structured, TypeOK, Here, Codes, TypeCodes
  <1>2. /\ v \in Visits /\ ~IsExpression(v) /\ ast' = Append(ast, v)
        /\ operands' = operands /\ At("list")
    BY DEF VisitDeclaration, VisitStatement, Visit, Declaration, Visits, Statements,
           IsExpression
  <1>3. PICK written \in Written, allocated \in Allocated :
          IF initialized
            THEN /\ context' = ReportIf(redeclared, context, code, Here, written)
                 /\ todo' = Append(todo, d)
            ELSE /\ context' = Declare(ReportIf(redeclared, context, code, Here, written),
                                       d, FALSE, written, allocated)
                 /\ todo' = todo
    BY DEF VisitDeclaration, Push
  <1> DEFINE c == ReportIf(redeclared, context, code, Here, written)
  <1>4. /\ written \in BOOLEAN /\ allocated \in BOOLEAN
        /\ initialized => context' = c /\ todo' = Append(todo, d)
        /\ ~initialized => /\ context' = Declare(c, d, FALSE, written, allocated)
                           /\ todo' = todo
    BY <1>3, Outcomes
  <1>5. /\ c \in Context
        /\ \/ c.diagnostics = context.diagnostics
           \/ /\ redeclared
              /\ c.diagnostics = Append(context.diagnostics,
                                        [code |-> code, line |-> Here])
    <2> HIDE DEF code
    <2>1. CASE redeclared
      <3>1. c = Report(context, code, Here, written)
        BY <2>1 DEF ReportIf
      <3> QED BY <1>1, <1>4, <2>1, <3>1, ReportEffect
    <2>2. CASE ~redeclared
      BY <1>1, <2>2 DEF ReportIf
    <2> QED BY <2>1, <2>2
  <1>6. d.at = "declaration" /\ d.line = Here /\ d.redeclared = redeclared
    OBVIOUS
  <1> HIDE DEF v, redeclared, d, code, c
  <1>7. operands' = << >> /\ Last(todo).at = "list"
    BY <1>2, NoneInList
  <1>8. \/ c.diagnostics = context.diagnostics
        \/ \E x \in Codes \ TypeCodes :
             c.diagnostics = Append(context.diagnostics, [code |-> x, line |-> Here])
    BY <1>1, <1>5
  <1>9. CASE initialized
    <2>1. Last(todo') = d /\ context' = c
      BY <1>1, <1>4, <1>9 DEF Last
    <2>2. context'.diagnostics = context.diagnostics \/ Last(todo').redeclared
      BY <1>5, <1>6, <2>1
    <2>3. Last(todo').at = "declaration" /\ Last(todo').line = Here
      BY <1>6, <2>1
    <2> QED BY <1>2, <1>7, <1>8, <2>1, <2>2, <2>3, StatementApart
  <1>10. CASE ~initialized
    <2>1. todo' = todo /\ context' = Declare(c, d, FALSE, written, allocated)
      BY <1>4, <1>10
    <2>2. d.line \in Nat /\ FALSE \in BOOLEAN
      BY <1>1, <1>6
    <2>3. written \in BOOLEAN /\ allocated \in BOOLEAN /\ c \in Context
      BY <1>4, <1>5
    <2>4. Declare(c, d, FALSE, written, allocated).diagnostics = c.diagnostics
      BY <2>2, <2>3, DeclareReports, Zenon
    <2> QED BY <1>2, <1>7, <1>8, <2>1, <2>4, StatementApart
  <1> QED BY <1>9, <1>10
\* What waits when the expression of a statement is over: its one operand, and
\* before it the statement if there is one to report of.
LEMMA OneWaits ==
  ASSUME Structured, Spread, todo # << >>, Len(operands) = 1
  PROVE  \E p \in Nat :
           /\ p < Len(ast)
           /\ OperandAt(ast, p + 1, Len(ast))
           /\ operands[1].valid => Silent(context.diagnostics, p + 1, Len(ast))
           /\ OpensAt(ast, Last(todo), context.diagnostics, p)
  <1> DEFINE m == Len(ast)
             ds == context.diagnostics
  <1>1. PICK e : /\ SpansIn(ast, operands, ds, e)
                 /\ OpensAt(ast, Last(todo), ds, e[0])
    BY DEF Spread
  <1>2. m \in Nat
    BY DEF Structured, TypeOK
  <1> HIDE DEF m, ds
  <1>3. 0 \in 0 .. 1 /\ 1 \in 1 .. 1 /\ 1 - 1 = 0
    OBVIOUS
  <1>4. /\ e \in [0 .. 1 -> 0 .. m] /\ e[1] = m /\ e[1 - 1] < e[1]
        /\ OperandAt(ast, e[1 - 1] + 1, e[1])
        /\ operands[1].valid => Silent(ds, e[1 - 1] + 1, e[1])
    BY <1>1, <1>3 DEF SpansIn, m
  <1> DEFINE p == e[0]
  <1>5. p \in 0 .. m
    BY <1>3, <1>4
  <1>6. /\ p < m /\ OperandAt(ast, p + 1, m)
        /\ operands[1].valid => Silent(ds, p + 1, m)
        /\ OpensAt(ast, Last(todo), ds, p)
    BY <1>1, <1>3, <1>4
  <1> HIDE DEF p
  <1>7. p \in Nat
    BY <1>2, <1>5
  <1> QED BY <1>6, <1>7 DEF m, ds

\* Of a statement nothing was reported if nothing was of its own node and
\* nothing of what follows.
LEMMA StatementSilent ==
  ASSUME NEW text \in Seq(Visits), NEW h \in DOMAIN text, ~IsExpression(text[h]),
         NEW ds, Silent(ds, h, h), Silent(ds, h + 1, Len(text))
  PROVE  \A i \in DOMAIN ds : ds[i].line \notin Within(text, h)
  <1>1. h \in Nat /\ Len(text) \in Nat
    OBVIOUS
  <1>2. Silent(ds, h, Len(text))
    BY <1>1, SilentJoins
  <1>3. Within(text, h) \subseteq h .. Len(text)
    BY StatementHolds
  <1> QED BY <1>2, <1>3 DEF Silent

\* The end of a statement's expression reports a type at most of a node of
\* which nothing was reported.
LEMMA FinishApart ==
  ASSUME Structured, Said, NoCascade, ast' = ast, operands' = << >>,
         ~ExpressionExpected', NEW h \in Nat,
         \/ context'.diagnostics = context.diagnostics
         \/ /\ \E code \in Codes :
                 context'.diagnostics = Append(context.diagnostics,
                                               [code |-> code, line |-> h])
            /\ \A i \in DOMAIN context.diagnostics :
                 context.diagnostics[i].line \notin Within(ast, h)
  PROVE  NoCascade' /\ Spread'
  <1> DEFINE ds == context.diagnostics
             more == context'.diagnostics
  <1>1. /\ ast \in Seq(Visits) /\ ds \in Seq(Diagnostic)
        /\ \A i \in DOMAIN ds : ds[i].line \in DOMAIN ast
    BY DEF Structured, TypeOK, Context, Said, ReportedOnce
  <1>2. Apart(ast, ds)
    BY DEF NoCascade, Apart
  <1>3. While \in Visits
    BY DEF Visits, Statements
  <1>4. \/ more = ds
        \/ \E d \in Diagnostic :
             /\ more = Append(ds, d)
             /\ d.code \in TypeCodes =>
                  \A i \in DOMAIN ds : ds[i].line \notin Within(ast, d.line)
    <2>1. \A code \in Codes : [code |-> code, line |-> h] \in Diagnostic
      BY DEF Diagnostic
    <2>2. \A code \in Codes : [code |-> code, line |-> h].line = h
      OBVIOUS
    <2> QED BY <2>1, <2>2
  <1> HIDE DEF ds, more
  <1>5. Apart(ast, more)
    BY <1>1, <1>2, <1>3, <1>4, ApartMore
  <1>6. todo' # << >> => Last(todo').at \notin {"declaration", "assignment"}
    BY DEF ExpressionExpected, At
  <1>7. todo' # << >> => OpensAt(ast', Last(todo'), context'.diagnostics, Len(ast'))
    BY <1>6 DEF OpensAt
  <1>8. Spread'
    BY <1>1, <1>7, NoneWaits
  <1> QED BY <1>5, <1>8 DEF NoCascade, Apart, more

\* The end of a declaration.
LEMMA FinishDeclarationApart ==
  ASSUME Structured, Said, NoCascade, Spread, FinishDeclaration
  PROVE  NoCascade' /\ Spread'
  <1> DEFINE d == Last(todo)
             ds == context.diagnostics
             mismatch == operands[1].valid /\ operands[1].type # d.type
  <1>1. /\ todo # << >> /\ d.at = "declaration" /\ Len(operands) = 1
        /\ ast' = ast /\ operands' = << >>
    BY DEF FinishDeclaration, ReturnTo, At, ExpressionDone
  <1>2. /\ ~ExpressionExpected' /\ context \in Context /\ ast \in Seq(Visits)
        /\ todo \in Seq(Todo)
    BY FinishDeclarationStep DEF Structured, TypeOK
  <1>3. PICK p \in Nat :
          /\ operands[1].valid => Silent(ds, p + 1, Len(ast))
          /\ OpensAt(ast, d, ds, p)
    BY <1>1, OneWaits
  <1>4. /\ p = d.line /\ p \in DOMAIN ast /\ ~IsExpression(ast[p])
        /\ ~d.redeclared => Silent(ds, p, p)
    BY <1>1, <1>3 DEF OpensAt
  <1>5. PICK written \in BOOLEAN, allocated \in BOOLEAN :
          context' = Declare(context, d, mismatch, written, allocated)
    BY Outcomes DEF FinishDeclaration
  <1>6. mismatch => operands[1].valid
    OBVIOUS
  <1> HIDE DEF d, mismatch, ds
  <1>7. d.line \in Nat
    BY <1>4
  <1>8. \/ context'.diagnostics = ds
        \/ /\ ~d.redeclared /\ mismatch
           /\ context'.diagnostics = Append(ds, [code |-> "SEM_TYPE_MISMATCH",
                                                 line |-> d.line])
    BY <1>2, <1>5, <1>7, DeclareReports DEF ds
  <1>9. "SEM_TYPE_MISMATCH" \in Codes
    BY DEF Codes
  <1>10. ~d.redeclared /\ mismatch => \A i \in DOMAIN ds : ds[i].line \notin Within(ast, p)
    BY <1>2, <1>3, <1>4, <1>6, StatementSilent
  <1> QED BY <1>1, <1>2, <1>4, <1>8, <1>9, <1>10, FinishApart DEF ds

\* The end of an assignment and of a condition.
LEMMA FinishesApart ==
  ASSUME Structured, Said, NoCascade, Spread, FinishAssignment \/ FinishCondition
  PROVE  NoCascade' /\ Spread'
  <1> DEFINE item == Last(todo)
             ds == context.diagnostics
             m == Len(ast)
             value == operands[1]
  <1>1. /\ todo # << >> /\ Len(operands) = 1 /\ ast' = ast /\ operands' = << >>
    BY DEF FinishAssignment, FinishCondition, ReturnTo, At, ExpressionDone
  <1>2. /\ ~ExpressionExpected' /\ context \in Context /\ ast \in Seq(Visits)
        /\ m \in Nat
    BY FinishSteps DEF Structured, TypeOK
  <1>3. PICK p \in Nat :
          /\ p < m /\ OperandAt(ast, p + 1, m)
          /\ value.valid => Silent(ds, p + 1, m)
          /\ OpensAt(ast, item, ds, p)
    BY <1>1, OneWaits
  <1>4. /\ "SEM_TYPE_MISMATCH" \in Codes /\ "SEM_INVALID_ASSIGNMENT" \in Codes
        /\ Written \subseteq BOOLEAN
    BY Outcomes DEF Codes
  <1>5. CASE FinishAssignment
    <2> DEFINE wrong == /\ item.target.valid /\ value.valid
                        /\ item.target.type # value.type
    <2>1. item.at = "assignment"
      BY <1>5 DEF FinishAssignment, ReturnTo, At
    <2>2. PICK written \in Written :
            context' = ReportIf(wrong, context, "SEM_INVALID_ASSIGNMENT", item.line,
                                written)
      BY <1>5 DEF FinishAssignment
    <2>3. /\ p = item.line /\ p \in DOMAIN ast /\ ~IsExpression(ast[p])
          /\ item.target.valid => Silent(ds, p, p)
      BY <1>3, <2>1 DEF OpensAt
    <2>4. wrong => item.target.valid /\ value.valid
      OBVIOUS
    <2> HIDE DEF wrong, item, ds, m, value
    <2>5. wrong => \A i \in DOMAIN ds : ds[i].line \notin Within(ast, p)
      BY <1>2, <1>3, <2>3, <2>4, StatementSilent DEF m
    <2>6. CASE wrong
      <3>1. context' = Report(context, "SEM_INVALID_ASSIGNMENT", p, written)
        BY <2>2, <2>3, <2>6 DEF ReportIf
      <3>2. \/ context'.diagnostics = ds
            \/ context'.diagnostics = Append(ds, [code |-> "SEM_INVALID_ASSIGNMENT",
                                                  line |-> p])
        BY <1>2, <1>4, <3>1, ReportEffect DEF ds
      <3> QED BY <1>1, <1>2, <1>4, <2>5, <2>6, <3>2, FinishApart DEF ds
    <2>7. CASE ~wrong
      <3>1. context' = context
        BY <2>2, <2>7 DEF ReportIf
      <3> QED BY <1>1, <1>2, <3>1, FinishApart
    <2> QED BY <2>6, <2>7
  <1>6. CASE FinishCondition
    <2> DEFINE wrong == value.valid /\ value.type # "bool"
    <2>1. PICK written \in Written :
            context' = ReportIf(wrong, context, "SEM_TYPE_MISMATCH", m, written)
      BY <1>6 DEF FinishCondition
    <2>2. wrong => value.valid
      OBVIOUS
    <2> HIDE DEF wrong, item, ds, m, value
    <2>3. p + 1 \in 1 .. m
      BY <1>2, <1>3
    <2>4. Within(ast, m) \subseteq p + 1 .. m
      BY <1>2, <1>3, <2>3, OperandHolds
    <2>5. wrong => \A i \in DOMAIN ds : ds[i].line \notin Within(ast, m)
      BY <1>3, <2>2, <2>4 DEF Silent
    <2>6. CASE wrong
      <3>1. context' = Report(context, "SEM_TYPE_MISMATCH", m, written)
        BY <2>1, <2>6 DEF ReportIf
      <3>2. \/ context'.diagnostics = ds
            \/ context'.diagnostics = Append(ds, [code |-> "SEM_TYPE_MISMATCH",
                                                  line |-> m])
        BY <1>2, <1>4, <3>1, ReportEffect DEF ds
      <3> QED BY <1>1, <1>2, <1>4, <2>5, <2>6, <3>2, FinishApart DEF ds
    <2>7. CASE ~wrong
      <3>1. context' = context
        BY <2>1, <2>7 DEF ReportIf
      <3> QED BY <1>1, <1>2, <3>1, FinishApart
    <2> QED BY <2>6, <2>7
  <1> QED BY <1>5, <1>6

\* A block is entered or left.
LEMMA BlocksApart ==
  ASSUME Structured, Said, NoCascade,
         VisitBlockStatement \/ VisitOwnBlock \/ LeaveBlock
  PROVE  NoCascade' /\ Spread'
  <1>1. ~ExpressionExpected' /\ context \in Context
    BY EnterSteps, LeaveStep DEF Structured, TypeOK
  <1>2. todo' # << >> => Last(todo').at \notin {"declaration", "assignment"}
    BY <1>1 DEF ExpressionExpected, At
  <1>3. operands = << >> /\ operands' = operands
    BY DEF Structured, Underway, ExpressionExpected, At, VisitBlockStatement,
           VisitOwnBlock, LeaveBlock
  <1>4. /\ Block \in Visits /\ EndBlock \in Visits
        /\ ~IsExpression(Block) /\ ~IsExpression(EndBlock)
    BY DEF Block, EndBlock, Visits, Statements, IsExpression
  <1>5. context'.diagnostics = context.diagnostics
    <2>1. CASE LeaveBlock
      <3>1. context' = [context EXCEPT !.symbols = ExitScope(@)]
        BY <2>1, LeaveStep
      <3> QED BY <1>1, <3>1 DEF Context
    <2>2. CASE VisitBlockStatement \/ VisitOwnBlock
      <3>1. PICK rest : EnterBlock(rest)
        BY <2>2 DEF VisitBlockStatement, VisitOwnBlock
      <3>2. \/ context' = [context EXCEPT !.symbols = EnterScope(@)]
            \/ context' = Fail(context)
        BY <3>1 DEF EnterBlock
      <3> QED BY <1>1, <3>2 DEF Context, Fail
    <2> QED BY <2>1, <2>2
  <1>6. PICK v \in {Block, EndBlock} : ast' = ast \/ ast' = Append(ast, v)
    BY DEF VisitBlockStatement, VisitOwnBlock, EnterBlock, LeaveBlock, Visit
  <1>7. v \in Visits /\ ~IsExpression(v)
    BY <1>4, <1>6
  <1> QED BY <1>2, <1>3, <1>5, <1>6, <1>7, StatementApart

\* Of an empty program nothing was reported, and nothing of it waits.
LEMMA EmptyApart ==
  ASSUME NEW text, NEW items, NEW diagnostics, NEW calls,
         text = << >>, items = << >>, diagnostics = << >>,
         calls # << >> => Last(calls).at = "list"
  PROVE  /\ Apart(text, diagnostics)
         /\ \E e : /\ SpansIn(text, items, diagnostics, e)
                   /\ calls # << >> => OpensAt(text, Last(calls), diagnostics, e[0])
  <1> DEFINE e == [k \in 0 .. 0 |-> 0]
  <1>1. /\ e \in [0 .. 0 -> 0 .. 0] /\ e[0] = 0 /\ Len(text) = 0 /\ Len(items) = 0
        /\ DOMAIN diagnostics = {}
    OBVIOUS
  <1> HIDE DEF e
  <1>2. SpansIn(text, items, diagnostics, e)
    BY <1>1 DEF SpansIn
  <1>3. calls # << >> => OpensAt(text, Last(calls), diagnostics, e[0])
    BY DEF OpensAt
  <1> QED BY <1>1, <1>2, <1>3 DEF Apart

\* Reports are apart, and there is what shows that they stay so.
Uncascaded == NoCascade /\ Spread

LEMMA InitUncascaded == Init => Uncascaded
  <1> SUFFICES ASSUME Init PROVE Uncascaded
    OBVIOUS
  <1>1. /\ ast = << >> /\ operands = << >> /\ todo = << >>
        /\ context.diagnostics = << >>
    BY DEF Init, NewContext
  <1> QED BY <1>1, EmptyApart DEF Uncascaded, NoCascade, Apart, Spread

\* Every step keeps them apart.
LEMMA NextUncascaded == IInv /\ Uncascaded /\ [Next]_vars => Uncascaded'
  <1> SUFFICES ASSUME Structured, Said, NoCascade, Spread, [Next]_vars
               PROVE  NoCascade' /\ Spread'
    BY DEF IInv, Uncascaded
  <1>1. CASE Begin
    <2>1. /\ ast' = << >> /\ operands' = << >> /\ context'.diagnostics = << >>
          /\ todo' # << >> => Last(todo').at = "list"
      BY <1>1 DEF Begin, NewContext, Last
    <2> QED BY <2>1, EmptyApart DEF NoCascade, Apart, Spread
  <1>2. CASE VisitNode
    <2>1. CASE \E n \in Names, ty \in Types, i \in BOOLEAN :
                 VisitDeclaration(n, ty, i)
      BY <2>1, DeclarationApart
    <2>2. CASE \/ \E n \in Names : VisitAssignment(n) \/ VisitPrint(n)
               \/ \E hasElse \in BOOLEAN : VisitIf(hasElse)
               \/ VisitWhile
      BY <2>2, StatementsApart
    <2>3. CASE VisitBlockStatement \/ VisitOwnBlock \/ LeaveBlock
      BY <2>3, BlocksApart
    <2>4. CASE \/ \E n \in Names : VisitIdentifier(n)
               \/ \E ty \in Types : VisitLiteral(ty)
               \/ \E op \in BinaryOperators : VisitBinary(op)
               \/ VisitUnary
      BY <2>4, ExpressionsApart
    <2> QED BY <1>2, <2>1, <2>2, <2>3, <2>4 DEF VisitNode
  <1>3. CASE Finish
    BY <1>3, FinishDeclarationApart, FinishesApart DEF Finish
  <1>4. CASE End
    <2>1. /\ ast' = ast /\ context' = context /\ operands' = operands
          /\ todo' = << >>
      BY <1>4 DEF End
    <2> QED BY <2>1 DEF NoCascade, Spread
  <1>5. CASE UNCHANGED vars
    BY <1>5 DEF vars, NoCascade, Spread
  <1> QED BY <1>1, <1>2, <1>3, <1>4, <1>5 DEF Next

\* A report that a type is wrong is never about a node in which something was
\* reported before, in any program, whatever cannot be written or allocated:
\* the valid flag of a result says that nothing was reported in its operand.
THEOREM ReportsDoNotCascade == Spec => []NoCascade
  <1>1. Uncascaded => NoCascade
    BY DEF Uncascaded
  <1> QED BY <1>1, InitIInv, NextIInv, InitUncascaded, NextUncascaded, PTL DEF Spec

-----------------------------------------------------------------------------
(* What is accepted is the text of whole expressions. *)

\* All statements so far have their expressions, but for the one whose
\* expression is expected: of this there are the operands that wait.
Forming ==
  /\ Fed(ast)
  /\ \A s \in DOMAIN ast :
       Awaits(ast[s]) => \/ s + 1 \in DOMAIN ast /\ IsExpression(ast[s + 1])
                         \/ s = Len(ast) /\ ExpressionExpected
  /\ ExpressionExpected => \E s : Half(ast, s, Len(ast), Len(operands))

\* What was fed remains so when the text grows, and what comes has to find
\* its operands.
LEMMA FedGrows ==
  ASSUME NEW text \in Seq(Visits), Fed(text), NEW v \in Visits,
         IsExpression(v) =>
           \E s, n : n >= 1 - Weight(v) /\ Half(text, s, Len(text), n)
  PROVE  Fed(Append(text, v))
  <1> DEFINE new == Append(text, v)
             m == Len(text)
  <1>1. /\ m \in Nat /\ DOMAIN text = 1 .. m /\ DOMAIN new = 1 .. m + 1
        /\ new[m + 1] = v /\ \A i \in 1 .. m : new[i] = text[i]
    OBVIOUS
  <1> HIDE DEF new, m
  <1>2. ASSUME NEW p \in DOMAIN new, IsExpression(new[p])
        PROVE  \E s, n : n >= 1 - Weight(new[p]) /\ Half(new, s, p - 1, n)
    <2>1. p - 1 \in Nat /\ \A i \in 1 .. p - 1 : i \in 1 .. m
      BY <1>1
    <2>2. \A i \in 1 .. p - 1 : new[i] = text[i]
      BY <1>1, <2>1
    <2>3. PICK s, n : n >= 1 - Weight(new[p]) /\ Half(text, s, p - 1, n)
      <3>1. CASE p = m + 1
        <4>1. p - 1 = m /\ new[p] = v
          BY <1>1, <3>1
        <4> QED BY <1>2, <4>1 DEF m
      <3>2. CASE p # m + 1
        <4>1. p \in DOMAIN text /\ new[p] = text[p]
          BY <1>1, <3>2
        <4> QED BY <1>2, <4>1 DEF Fed
      <3> QED BY <3>1, <3>2
    <2>4. Half(new, s, p - 1, n)
      BY <2>1, <2>2, <2>3, HalfStays
    <2> QED BY <2>3, <2>4
  <1> QED BY <1>2 DEF Fed, new

\* Steps that visit no expression.
LEMMA StatementForms ==
  ASSUME Structured, Forming, ~ExpressionExpected, operands' = << >>,
         NEW v \in Visits, ~IsExpression(v), ast' = ast \/ ast' = Append(ast, v),
         ~ExpressionExpected' => ast' = ast \/ ~Awaits(v),
         ExpressionExpected' => ast' = Append(ast, v) /\ Awaits(v)
  PROVE  Forming'
  <1> DEFINE m == Len(ast)
  <1>1. ast \in Seq(Visits) /\ m \in Nat /\ DOMAIN ast = 1 .. m
    BY DEF Structured, TypeOK
  <1>2. CASE ast' = ast
    <2>1. ast' # Append(ast, v)
      <3>1. Len(ast) = m /\ Len(Append(ast, v)) = m + 1
        BY <1>1
      <3> HIDE DEF m
      <3>2. Len(Append(ast, v)) # Len(ast)
        BY <1>1, <3>1
      <3> QED BY <1>2, <3>2
    <2>2. ~ExpressionExpected'
      BY <2>1
    <2>3. Fed(ast')
      BY <1>2 DEF Forming
    <2>4. ASSUME NEW s \in DOMAIN ast', Awaits(ast'[s])
          PROVE  s + 1 \in DOMAIN ast' /\ IsExpression(ast'[s + 1])
      BY <1>2, <2>4 DEF Forming
    <2> QED BY <2>2, <2>3, <2>4 DEF Forming
  <1>3. CASE ast' = Append(ast, v)
    <2>1. /\ DOMAIN ast' = 1 .. m + 1 /\ ast'[m + 1] = v /\ Len(ast') = m + 1
          /\ \A i \in 1 .. m : ast'[i] = ast[i]
      <3> DEFINE new == Append(ast, v)
      <3>1. /\ DOMAIN new = 1 .. m + 1 /\ new[m + 1] = v /\ Len(new) = m + 1
            /\ \A i \in 1 .. m : new[i] = ast[i]
        BY <1>1
      <3> QED BY <1>3, <3>1
    <2>2. Fed(ast')
      <3>1. Fed(ast)
        BY DEF Forming
      <3>2. Fed(Append(ast, v))
        BY <1>1, <3>1, FedGrows
      <3> QED BY <1>3, <3>2
    <2> HIDE DEF m
    <2>3. ASSUME NEW s \in DOMAIN ast', Awaits(ast'[s])
          PROVE  \/ s + 1 \in DOMAIN ast' /\ IsExpression(ast'[s + 1])
                 \/ s = Len(ast') /\ ExpressionExpected'
      <3>1. CASE s = m + 1
        BY <1>3, <2>1, <2>3, <3>1
      <3>2. CASE s # m + 1
        <4>1. s \in 1 .. m
          BY <1>1, <2>1, <3>2
        <4>2. s + 1 \in 1 .. m /\ IsExpression(ast[s + 1])
          BY <1>1, <2>1, <2>3, <4>1 DEF Forming
        <4> QED BY <1>1, <2>1, <4>2
      <3> QED BY <3>1, <3>2
    <2>4. ASSUME ExpressionExpected'
          PROVE  Half(ast', m + 1, Len(ast'), Len(operands'))
      <3>1. m + 1 \in Nat \ {0} /\ Awaits(ast'[m + 1]) /\ Len(operands') = 0
        BY <1>1, <2>1, <2>4
      <3> QED BY <2>1, <3>1, HalfBegins
    <2> QED BY <2>2, <2>3, <2>4 DEF Forming
  <1> QED BY <1>2, <1>3

\* A visit of an expression, which finds its operands.
LEMMA ExpressionForms ==
  ASSUME Structured, Forming, NEW v \in Visits, IsExpression(v),
         VisitExpression(v), Len(operands) >= 1 - Weight(v),
         Len(operands') = Len(operands) + Weight(v)
  PROVE  Forming'
  <1> DEFINE m == Len(ast)
  <1>1. /\ ast \in Seq(Visits) /\ m \in Nat /\ DOMAIN ast = 1 .. m
        /\ ast' = Append(ast, v) /\ todo' = todo /\ ExpressionExpected
    BY DEF Structured, TypeOK, VisitExpression, Visit
  <1>2. /\ DOMAIN ast' = 1 .. m + 1 /\ ast'[m + 1] = v /\ Len(ast') = m + 1
        /\ \A i \in 1 .. m : ast'[i] = ast[i]
    BY <1>1
  <1>3. PICK s : Half(ast, s, m, Len(operands))
    BY <1>1 DEF Forming
  <1>4. Fed(ast')
    BY <1>1, <1>3, FedGrows DEF Forming
  <1>5. ExpressionExpected'
    BY <1>1 DEF ExpressionExpected, At
  <1> HIDE DEF m
  <1>6. Half(ast', s, m + 1, Len(operands'))
    <2>1. Half(ast', s, m, Len(operands))
      BY <1>1, <1>2, <1>3, HalfStays
    <2> QED BY <1>1, <1>2, <2>1, HalfGrows
  <1>7. ASSUME NEW p \in DOMAIN ast', Awaits(ast'[p])
        PROVE  \/ p + 1 \in DOMAIN ast' /\ IsExpression(ast'[p + 1])
               \/ p = Len(ast') /\ ExpressionExpected'
    <2>1. p # m + 1
      BY <1>2, <1>7, ExpressionWeighs
    <2>2. p \in 1 .. m /\ Awaits(ast[p]) /\ p + 1 \in 1 .. m + 1
      BY <1>1, <1>2, <1>7, <2>1
    <2>3. \/ p + 1 \in 1 .. m /\ IsExpression(ast[p + 1])
          \/ p = m
      BY <1>1, <2>2 DEF Forming, m
    <2> QED BY <1>2, <2>2, <2>3
  <1> QED BY <1>2, <1>4, <1>6, <1>7 DEF Forming

LEMMA ExpressionsForm ==
  ASSUME Structured, Forming,
         \/ \E n \in Names : VisitIdentifier(n)
         \/ \E ty \in Types : VisitLiteral(ty)
         \/ \E op \in BinaryOperators : VisitBinary(op)
         \/ VisitUnary
  PROVE  Forming'
  <1> DEFINE n == Len(operands)
  <1>1. operands \in Seq(Operand) /\ n \in Nat
    BY DEF Structured, TypeOK
  <1>2. \A x : Len(Append(operands, x)) = n + 1
    BY <1>1
  <1>3. ASSUME operands # << >>
        PROVE  /\ n >= 1 /\ Front(operands) \in Seq(Operand) /\ Len(Front(operands)) = n - 1
               /\ \A x : Len(Append(Front(operands), x)) = n
    <2>1. n # 0 /\ Front(operands) \in Seq(Operand) /\ Len(Front(operands)) = n - 1
      BY <1>1, <1>3, LastAndFront
    <2> QED BY <1>1, <2>1
  <1>4. ASSUME NEW name \in Names, VisitIdentifier(name)
        PROVE  Forming'
    <2> DEFINE v == Identifier(name)
    <2>1. v \in Visits /\ IsExpression(v) /\ Weight(v) = 1
      BY DEF Identifier, Visits, Expressions, IsExpression, Weight
    <2>2. VisitExpression(v) /\ \E x : operands' = Append(operands, x)
      BY <1>4 DEF VisitIdentifier
    <2> HIDE DEF v
    <2>3. Len(operands') = n + 1
      BY <1>2, <2>2
    <2> QED BY <1>1, <2>1, <2>2, <2>3, ExpressionForms
  <1>5. ASSUME NEW ty \in Types, VisitLiteral(ty)
        PROVE  Forming'
    <2> DEFINE v == Literal(ty)
    <2>1. v \in Visits /\ IsExpression(v) /\ Weight(v) = 1
      BY DEF Literal, Visits, Expressions, IsExpression, Weight
    <2>2. VisitExpression(v) /\ \E x : operands' = Append(operands, x)
      BY <1>5 DEF VisitLiteral
    <2> HIDE DEF v
    <2>3. Len(operands') = n + 1
      BY <1>2, <2>2
    <2> QED BY <1>1, <2>1, <2>2, <2>3, ExpressionForms
  <1>6. ASSUME NEW op \in BinaryOperators, VisitBinary(op)
        PROVE  Forming'
    <2> DEFINE v == Binary(op)
    <2>1. v \in Visits /\ IsExpression(v) /\ Weight(v) = -1
      BY DEF Binary, Visits, Expressions, IsExpression, Weight
    <2>2. /\ VisitExpression(v) /\ n >= 2
          /\ \E x : operands' = Append(Front(Front(operands)), x)
      BY <1>6 DEF VisitBinary
    <2> HIDE DEF v
    <2>3. operands # << >>
      BY <1>1, <2>2
    <2> DEFINE s == Front(operands)
    <2>4. s \in Seq(Operand) /\ Len(s) = n - 1
      BY <1>3, <2>3
    <2> HIDE DEF s
    <2>5. s # << >>
      BY <1>1, <2>2, <2>4
    <2>6. Front(s) \in Seq(Operand) /\ Len(Front(s)) = n - 1 - 1
      BY <2>4, <2>5, LastAndFront
    <2>7. Len(operands') = n - 1
      <3>1. \A x : Len(Append(Front(s), x)) = n - 1 - 1 + 1
        BY <2>6
      <3> QED BY <1>1, <2>2, <3>1 DEF s
    <2> QED BY <1>1, <2>1, <2>2, <2>7, ExpressionForms
  <1>7. CASE VisitUnary
    <2>1. Unary \in Visits /\ IsExpression(Unary) /\ Weight(Unary) = 0
      BY DEF Unary, Visits, Expressions, IsExpression, Weight
    <2>2. /\ VisitExpression(Unary) /\ operands # << >>
          /\ \E x : operands' = Append(Front(operands), x)
      BY <1>7 DEF VisitUnary
    <2>3. Len(operands') = n /\ n >= 1
      BY <1>3, <2>2
    <2> QED BY <1>1, <2>1, <2>2, <2>3, ExpressionForms
  <1> QED BY <1>4, <1>5, <1>6, <1>7

\* The visits of simple statements.
LEMMA StatementsForm ==
  ASSUME Structured, Forming,
         \/ \E n \in Names, ty \in Types, i \in BOOLEAN : VisitDeclaration(n, ty, i)
         \/ \E n \in Names : VisitAssignment(n) \/ VisitPrint(n)
         \/ \E hasElse \in BOOLEAN : VisitIf(hasElse)
         \/ VisitWhile
  PROVE  Forming'
  <1>1. ASSUME NEW v \in Visits, ~IsExpression(v), VisitStatement(v),
               ExpressionExpected' <=> Awaits(v)
        PROVE  Forming'
    <2>1. At("list") /\ operands' = operands /\ ast' = Append(ast, v)
      BY <1>1 DEF VisitStatement, Visit
    <2>2. operands' = << >> /\ ~ExpressionExpected
      BY <2>1, NoneInList DEF ExpressionExpected, At
    <2> QED BY <1>1, <2>1, <2>2, StatementForms
  <1>2. ASSUME At("list"), NEW item, todo' = Append(todo, item),
               item.at \in {"declaration", "assignment", "condition"}
        PROVE  ExpressionExpected'
    <2>1. todo \in Seq(Todo)
      BY DEF Structured, TypeOK
    <2>2. todo' # << >> /\ Last(todo') = item
      BY <1>2, <2>1 DEF Last
    <2> QED BY <1>2, <2>2 DEF ExpressionExpected, At
  <1>3. ASSUME At("list"), todo' = todo
        PROVE  ~ExpressionExpected'
    BY <1>3 DEF ExpressionExpected, At
  <1>4. ASSUME NEW n \in Names, NEW ty \in Types, NEW i \in BOOLEAN,
               VisitDeclaration(n, ty, i)
        PROVE  Forming'
    <2> DEFINE v == Declaration(n, ty, i)
               d == [at |-> "declaration", line |-> Here, name |-> n, type |-> ty,
                     redeclared |-> LookupCurrent(context.symbols, n) # Null]
    <2>1. v \in Visits
      BY DEF Visits, Statements
    <2>2. ~IsExpression(v) /\ (Awaits(v) <=> i)
      BY DEF Declaration, IsExpression, Awaits, Declares
    <2>3. /\ VisitStatement(v) /\ At("list") /\ d.at = "declaration"
          /\ i => todo' = Append(todo, d)
          /\ ~i => todo' = todo
      BY <1>4 DEF VisitDeclaration, VisitStatement, Push
    <2> HIDE DEF v, d
    <2>4. ExpressionExpected' <=> i
      BY <1>2, <1>3, <2>3
    <2> QED BY <1>1, <2>1, <2>2, <2>3, <2>4
  <1>5. ASSUME NEW n \in Names, VisitAssignment(n)
        PROVE  Forming'
    <2> DEFINE v == Assignment(n)
               item == [at |-> "assignment", line |-> Here,
                        target |-> Resolved(context, n)]
    <2>1. v \in Visits /\ ~IsExpression(v) /\ Awaits(v)
      BY DEF Visits, Statements, Assignment, IsExpression, Awaits
    <2>2. /\ VisitStatement(v) /\ At("list") /\ item.at = "assignment"
          /\ todo' = Append(todo, item)
      BY <1>5 DEF VisitAssignment, VisitStatement, Push
    <2> HIDE DEF v, item
    <2> QED BY <1>1, <1>2, <2>1, <2>2
  <1>6. ASSUME NEW n \in Names, VisitPrint(n)
        PROVE  Forming'
    <2> DEFINE v == PrintOf(n)
    <2>1. v \in Visits /\ ~IsExpression(v) /\ ~Awaits(v)
      BY DEF Visits, Statements, PrintOf, IsExpression, Awaits, Declares
    <2>2. VisitStatement(v) /\ At("list") /\ todo' = todo
      BY <1>6 DEF VisitPrint, VisitStatement
    <2> HIDE DEF v
    <2> QED BY <1>1, <1>3, <2>1, <2>2
  <1>7. ASSUME NEW v \in Visits, v.kind \in {"if", "while"}, VisitStatement(v),
               NEW blocks, todo' = Push([at |-> "condition", blocks |-> blocks])
        PROVE  Forming'
    <2> DEFINE item == [at |-> "condition", blocks |-> blocks]
    <2>1. /\ At("list") /\ item.at = "condition" /\ todo' = Append(todo, item)
      BY <1>7 DEF VisitStatement, Push
    <2>2. ~IsExpression(v) /\ Awaits(v)
      BY <1>7 DEF IsExpression, Awaits
    <2> HIDE DEF item
    <2> QED BY <1>1, <1>2, <1>7, <2>1, <2>2
  <1>8. CASE VisitWhile
    <2>1. While \in Visits /\ While.kind = "while"
      BY DEF While, Visits, Statements
    <2> QED BY <1>7, <1>8, <2>1 DEF VisitWhile
  <1>9. ASSUME NEW hasElse \in BOOLEAN, VisitIf(hasElse)
        PROVE  Forming'
    <2> DEFINE v == If(hasElse)
               n == IF hasElse THEN 2 ELSE 1
    <2>1. v \in Visits
      BY DEF Visits, Statements
    <2>2. v.kind = "if"
      BY DEF If
    <2>3. VisitStatement(v) /\ todo' = Push([at |-> "condition", blocks |-> n])
      BY <1>9 DEF VisitIf
    <2> HIDE DEF v, n
    <2> QED BY <1>7, <2>1, <2>2, <2>3
  <1> QED BY <1>4, <1>5, <1>6, <1>8, <1>9

\* A block is entered or left.
LEMMA BlocksForm ==
  ASSUME Structured, Forming, VisitBlockStatement \/ VisitOwnBlock \/ LeaveBlock
  PROVE  Forming'
  <1>1. ~ExpressionExpected'
    BY EnterSteps, LeaveStep
  <1>2. ~ExpressionExpected /\ operands' = operands
    BY DEF ExpressionExpected, At, VisitBlockStatement, VisitOwnBlock, LeaveBlock
  <1>3. operands' = << >>
    BY <1>2 DEF Structured, Underway
  <1>4. /\ Block \in Visits /\ ~IsExpression(Block) /\ ~Awaits(Block)
        /\ EndBlock \in Visits /\ ~IsExpression(EndBlock) /\ ~Awaits(EndBlock)
    BY DEF Block, EndBlock, Visits, Statements, IsExpression, Awaits, Declares
  <1>5. PICK v \in {Block, EndBlock} : ast' = ast \/ ast' = Append(ast, v)
    BY DEF VisitBlockStatement, VisitOwnBlock, EnterBlock, LeaveBlock, Visit
  <1>6. v \in Visits /\ ~IsExpression(v) /\ ~Awaits(v)
    BY <1>4, <1>5
  <1> QED BY <1>1, <1>2, <1>3, <1>5, <1>6, StatementForms

\* A statement goes on only when its expression is whole, so it has one.
LEMMA FinishForms ==
  ASSUME Structured, Forming, Finish
  PROVE  Forming'
  <1> DEFINE m == Len(ast)
  <1>1. /\ ast' = ast /\ operands' = << >> /\ Len(operands) = 1
        /\ ExpressionExpected /\ ast \in Seq(Visits) /\ m \in Nat /\ DOMAIN ast = 1 .. m
    BY DEF Finish, FinishDeclaration, FinishAssignment, FinishCondition, ReturnTo,
           ExpressionDone, ExpressionExpected, Structured, TypeOK
  <1>2. ~ExpressionExpected'
    BY FinishDeclarationStep, FinishSteps DEF Finish
  <1>3. PICK s : Half(ast, s, m, 1)
    BY <1>1 DEF Forming
  <1> HIDE DEF m
  <1>4. ASSUME NEW p \in DOMAIN ast, Awaits(ast[p])
        PROVE  p + 1 \in DOMAIN ast /\ IsExpression(ast[p + 1])
    <2>1. p # m
      <3>1. ASSUME p = m
            PROVE  FALSE
        <4>1. m \in Nat \ {0} /\ Awaits(ast[m])
          BY <1>1, <1>4, <3>1
        <4>2. Half(ast, m, m, 0)
          BY <4>1, HalfBegins
        <4>3. 1 = 0
          BY <1>1, <1>3, <4>2, HalfIsOne
        <4> QED BY <4>3
      <3> QED BY <3>1
    <2> QED BY <1>4, <2>1 DEF Forming, m
  <1>5. Fed(ast')
    BY <1>1 DEF Forming
  <1> QED BY <1>1, <1>2, <1>4, <1>5 DEF Forming

\* Of an empty program there is nothing to say.
LEMMA EmptyForms ==
  ASSUME ast' = << >>, ~ExpressionExpected'
  PROVE  Forming'
  <1>1. DOMAIN ast' = {}
    OBVIOUS
  <1> QED BY <1>1 DEF Forming, Fed

LEMMA InitForming == Init => Forming
  <1> SUFFICES ASSUME Init PROVE Forming
    OBVIOUS
  <1>1. DOMAIN ast = {} /\ ~ExpressionExpected
    BY DEF Init, ExpressionExpected, At
  <1> QED BY <1>1 DEF Forming, Fed

LEMMA NextForming == IInv /\ Forming /\ [Next]_vars => Forming'
  <1> SUFFICES ASSUME Structured, Forming, [Next]_vars
               PROVE  Forming'
    BY DEF IInv
  <1>1. CASE Begin
    <2>1. /\ ast' = << >>
          /\ todo' # << >> => Last(todo').at = "list"
      BY <1>1 DEF Begin, Last
    <2>2. ~ExpressionExpected'
      BY <2>1 DEF ExpressionExpected, At
    <2> QED BY <2>1, <2>2, EmptyForms
  <1>2. CASE VisitNode
    <2>1. CASE \/ \E n \in Names, ty \in Types, i \in BOOLEAN :
                    VisitDeclaration(n, ty, i)
               \/ \E n \in Names : VisitAssignment(n) \/ VisitPrint(n)
               \/ \E hasElse \in BOOLEAN : VisitIf(hasElse)
               \/ VisitWhile
      BY <2>1, StatementsForm
    <2>2. CASE VisitBlockStatement \/ VisitOwnBlock \/ LeaveBlock
      BY <2>2, BlocksForm
    <2>3. CASE \/ \E n \in Names : VisitIdentifier(n)
               \/ \E ty \in Types : VisitLiteral(ty)
               \/ \E op \in BinaryOperators : VisitBinary(op)
               \/ VisitUnary
      BY <2>3, ExpressionsForm
    <2> QED BY <1>2, <2>1, <2>2, <2>3 DEF VisitNode
  <1>3. CASE Finish
    BY <1>3, FinishForms
  <1>4. CASE End
    <2>1. /\ ast' = ast /\ todo' = << >> /\ todo # << >> /\ Last(todo).at = "list"
      BY <1>4 DEF End, Last
    <2>2. ~ExpressionExpected /\ ~ExpressionExpected'
      BY <2>1 DEF ExpressionExpected, At
    <2> QED BY <2>1, <2>2 DEF Forming
  <1>5. CASE UNCHANGED vars
    BY <1>5 DEF vars, Forming, ExpressionExpected, At
  <1> QED BY <1>1, <1>2, <1>3, <1>4, <1>5 DEF Next

\* A program that was analyzed to its end is the text of whole expressions.
LEMMA AnalyzedIsFormed ==
  ASSUME IInv, Forming, status # "running"
  PROVE  Formed(ast)
  <1>1. ~ExpressionExpected
    BY DEF IInv, Structured, Underway, ExpressionExpected, At
  <1> QED BY <1>1 DEF Forming, Formed

\* In any program each operator finds its operands, and each statement the
\* expression it awaits, when the analysis comes to them.
LEMMA AnalysisForms == Spec => [](IInv /\ Forming)
  <1> QED BY InitIInv, NextIInv, InitForming, NextForming, PTL DEF Spec
=============================================================================
