--------------------------- MODULE CompilerProofs ---------------------------
(***************************************************************************)
(* The two phases together, for any programs and whatever fails.  Each     *)
(* phase runs as its own module says, so that all that is proved of it     *)
(* alone holds here too; and the generator works on the text that the      *)
(* analysis accepted, which makes two tables that were built separately    *)
(* one and the same.                                                       *)
(***************************************************************************)
EXTENDS Compiler, TLAPS

S == INSTANCE SemanticProofs
T == INSTANCE TacProofs WITH Programs <- Seq(Visits), todo <- tacTodo,
                             operands <- tacOperands, context <- tacContext,
                             status <- tacStatus

-----------------------------------------------------------------------------
(* The phases as their own modules say. *)

LEMMA SameVisits == Visits = S!Visits /\ Visits = T!Visits
  BY DEF Arithmetic, S!Arithmetic, T!Arithmetic, Relational, S!Relational,
     T!Relational, Equality, S!Equality, T!Equality, Logical, S!Logical,
     T!Logical, BinaryOperators, S!BinaryOperators, T!BinaryOperators,
     Declaration, S!Declaration, T!Declaration, Assignment, S!Assignment,
     T!Assignment, PrintOf, S!PrintOf, T!PrintOf, If, S!If, T!If, While,
     S!While, T!While, Block, S!Block, T!Block, EndBlock, S!EndBlock,
     T!EndBlock, Identifier, S!Identifier, T!Identifier, Literal,
     S!Literal, T!Literal, Binary, S!Binary, T!Binary, Unary, S!Unary,
     T!Unary, Statements, S!Statements, T!Statements, Expressions,
     S!Expressions, T!Expressions, Visits, S!Visits, T!Visits

\* What the phases assume of the constants.
LEMMA PhasesAssume ==
  /\ S!TypesAssumption /\ S!VocabulariesAssumption
  /\ S!FailuresAssumption /\ S!MaxVisitsAssumption
  /\ T!ProgramsAssumption /\ T!SizeMaxAssumption
  /\ T!IdentifiersAssumption /\ T!NoLiteralAssumption
  BY SameVisits, TypesAssumption, NamesAssumption, VocabulariesAssumption,
     FailuresAssumption, BoundsAssumption
  DEF S!TypesAssumption, S!VocabulariesAssumption, S!FailuresAssumption,
      S!MaxVisitsAssumption, T!ProgramsAssumption, T!SizeMaxAssumption,
      T!IdentifiersAssumption, T!NoLiteralAssumption

\* The module of a phase and the module of its proofs define the same.
LEMMA SameAnalysis ==
  /\ Semantic!Init <=> S!Init
  /\ Semantic!Begin <=> S!Begin
  /\ Semantic!VisitNode <=> S!VisitNode
  /\ Semantic!Finish <=> S!Finish
  /\ Semantic!End <=> S!End
  BY DEF Semantic!Null, S!Null, Semantic!First, S!First, Semantic!Newest,
     S!Newest, Semantic!GlobalFrame, S!GlobalFrame, Semantic!NewTable,
     S!NewTable, Semantic!CurrentFrame, S!CurrentFrame, Semantic!EnterScope,
     S!EnterScope, Semantic!AtGlobal, S!AtGlobal, Semantic!ExitScope,
     S!ExitScope, Semantic!Holding, S!Holding, Semantic!LookupInScope,
     S!LookupInScope, Semantic!LookupCurrent, S!LookupCurrent,
     Semantic!Insert, S!Insert, Semantic!Declaring, S!Declaring,
     Semantic!Find, S!Find, Semantic!LookupActive, S!LookupActive,
     Semantic!LookupHistory, S!LookupHistory, Semantic!Arithmetic,
     S!Arithmetic, Semantic!Relational, S!Relational, Semantic!Equality,
     S!Equality, Semantic!Logical, S!Logical, Semantic!BinaryOperators,
     S!BinaryOperators, Semantic!Declaration, S!Declaration,
     Semantic!Assignment, S!Assignment, Semantic!PrintOf, S!PrintOf,
     Semantic!If, S!If, Semantic!While, S!While, Semantic!Block, S!Block,
     Semantic!EndBlock, S!EndBlock, Semantic!Identifier, S!Identifier,
     Semantic!Literal, S!Literal, Semantic!Binary, S!Binary, Semantic!Unary,
     S!Unary, Semantic!OfType, S!OfType, Semantic!Error, S!Error,
     Semantic!NewContext, S!NewContext, Semantic!Init, S!Init,
     Semantic!Written, S!Written, Semantic!Allocated, S!Allocated,
     Semantic!Fail, S!Fail, Semantic!Report, S!Report, Semantic!ReportIf,
     S!ReportIf, Semantic!Resolved, S!Resolved, Semantic!ReportUnresolved,
     S!ReportUnresolved, Semantic!IsNumeric, S!IsNumeric, Semantic!Accepts,
     S!Accepts, Semantic!TypeOfBinary, S!TypeOfBinary, Semantic!CodeOfBinary,
     S!CodeOfBinary, Semantic!InsertDeclaration, S!InsertDeclaration,
     Semantic!Declare, S!Declare, Semantic!At, S!At, Semantic!Pop, S!Pop,
     Semantic!Push, S!Push, Semantic!ExpressionExpected, S!ExpressionExpected,
     Semantic!ExpressionDone, S!ExpressionDone, Semantic!Room, S!Room,
     Semantic!Here, S!Here, Semantic!CanCome, S!CanCome, Semantic!Visit,
     S!Visit, Semantic!VisitStatement, S!VisitStatement,
     Semantic!VisitDeclaration, S!VisitDeclaration, Semantic!VisitAssignment,
     S!VisitAssignment, Semantic!VisitPrint, S!VisitPrint, Semantic!VisitIf,
     S!VisitIf, Semantic!VisitWhile, S!VisitWhile, Semantic!EnterBlock,
     S!EnterBlock, Semantic!VisitBlockStatement, S!VisitBlockStatement,
     Semantic!VisitOwnBlock, S!VisitOwnBlock, Semantic!LeaveBlock,
     S!LeaveBlock, Semantic!VisitExpression, S!VisitExpression,
     Semantic!VisitIdentifier, S!VisitIdentifier, Semantic!VisitLiteral,
     S!VisitLiteral, Semantic!VisitUnary, S!VisitUnary, Semantic!VisitBinary,
     S!VisitBinary, Semantic!ReturnTo, S!ReturnTo, Semantic!FinishDeclaration,
     S!FinishDeclaration, Semantic!FinishAssignment, S!FinishAssignment,
     Semantic!FinishCondition, S!FinishCondition, Semantic!Begin, S!Begin,
     Semantic!End, S!End, Semantic!VisitNode, S!VisitNode, Semantic!Finish,
     S!Finish, Semantic!Last, S!Last, Semantic!Front, S!Front, Semantic!Range,
     S!Range

LEMMA SameGeneration ==
  /\ Tac!Init <=> T!Init
  /\ Tac!Destroy <=> T!Destroy
  /\ Tac!Begin(ast) <=> T!Begin(ast)
  /\ Tac!BeginFails(ast) <=> T!BeginFails(ast)
  /\ Tac!Step <=> T!Step
  <1>1. \A X : Tac!Cardinality(X) = T!Cardinality(X)
    BY DEF Tac!Cardinality, T!Cardinality
  <1>2. Tac!GlobalNames(ast) = T!GlobalNames(ast)
    BY <1>1 DEF Tac!Declares, T!Declares, Tac!Before, T!Before, Tac!Level,
       T!Level, Tac!OpenAt, T!OpenAt, Tac!BlockAt, T!BlockAt, Tac!StorageName,
       T!StorageName, Tac!GlobalNames, T!GlobalNames, Tac!Max, T!Max
  <1>3. /\ Tac!Init <=> T!Init
        /\ Tac!Destroy <=> T!Destroy
        /\ Tac!Begin(ast) <=> T!Begin(ast)
        /\ Tac!BeginFails(ast) <=> T!BeginFails(ast)
        /\ Tac!End <=> T!End
    BY <1>2 DEF Tac!Null, T!Null, Tac!GlobalFrame, T!GlobalFrame,
       Tac!NewTable, T!NewTable, Tac!NewContext, T!NewContext, Tac!Init,
       T!Init, Tac!Begin, T!Begin, Tac!BeginFails, T!BeginFails, Tac!End,
       T!End, Tac!Destroy, T!Destroy
  <1>4. Tac!Generate <=> T!Generate
    BY DEF Tac!Null, T!Null, Tac!First, T!First, Tac!Newest, T!Newest,
       Tac!CurrentFrame, T!CurrentFrame, Tac!EnterScope, T!EnterScope,
       Tac!ExitScope, T!ExitScope, Tac!Holding, T!Holding, Tac!LookupInScope,
       T!LookupInScope, Tac!LookupCurrent, T!LookupCurrent, Tac!Insert,
       T!Insert, Tac!Declaring, T!Declaring, Tac!Find, T!Find,
       Tac!LookupActive, T!LookupActive, Tac!Arithmetic, T!Arithmetic,
       Tac!Relational, T!Relational, Tac!Equality, T!Equality, Tac!Logical,
       T!Logical, Tac!BinaryOperators, T!BinaryOperators, Tac!Declaration,
       T!Declaration, Tac!Assignment, T!Assignment, Tac!PrintOf, T!PrintOf,
       Tac!If, T!If, Tac!While, T!While, Tac!Block, T!Block, Tac!EndBlock,
       T!EndBlock, Tac!Identifier, T!Identifier, Tac!Literal, T!Literal,
       Tac!Binary, T!Binary, Tac!Unary, T!Unary, Tac!StorageName,
       T!StorageName, Tac!Temporary, T!Temporary, Tac!LiteralText,
       T!LiteralText, Tac!NoText, T!NoText, Tac!NoLabel, T!NoLabel, Tac!Plain,
       T!Plain, Tac!Control, T!Control, Tac!Label, T!Label, Tac!At, T!At,
       Tac!Pop, T!Pop, Tac!Come, T!Come, Tac!Visit, T!Visit, Tac!Emit, T!Emit,
       Tac!Abort, T!Abort, Tac!BindingsOf, T!BindingsOf, Tac!Resolve,
       T!Resolve, Tac!Remember, T!Remember, Tac!IsNextTemporary,
       T!IsNextTemporary, Tac!Temporaries, T!Temporaries, Tac!TakeTemporary,
       T!TakeTemporary, Tac!HasLabels, T!HasLabels, Tac!TakeLabels,
       T!TakeLabels, Tac!GenerateDeclaration, T!GenerateDeclaration,
       Tac!RefuseDeclaration, T!RefuseDeclaration, Tac!GenerateAssignment,
       T!GenerateAssignment, Tac!GeneratePrint, T!GeneratePrint,
       Tac!RefuseUse, T!RefuseUse, Tac!GenerateIf, T!GenerateIf,
       Tac!GenerateWhile, T!GenerateWhile, Tac!RefuseWhile, T!RefuseWhile,
       Tac!OwnsNextBlock, T!OwnsNextBlock, Tac!EnterBlock, T!EnterBlock,
       Tac!LeaveBlock, T!LeaveBlock, Tac!GenerateIdentifier,
       T!GenerateIdentifier, Tac!GenerateLiteral, T!GenerateLiteral,
       Tac!GenerateUnary, T!GenerateUnary, Tac!GenerateBinary,
       T!GenerateBinary, Tac!RefuseOperator, T!RefuseOperator, Tac!Generate,
       T!Generate, Tac!Last, T!Last, Tac!Front, T!Front
  <1>5. Tac!Finish <=> T!Finish
    BY DEF Tac!Null, T!Null, Tac!First, T!First, Tac!Newest, T!Newest,
       Tac!CurrentFrame, T!CurrentFrame, Tac!Holding, T!Holding,
       Tac!LookupInScope, T!LookupInScope, Tac!LookupCurrent, T!LookupCurrent,
       Tac!Insert, T!Insert, Tac!Declaring, T!Declaring, Tac!Find, T!Find,
       Tac!LookupActive, T!LookupActive, Tac!IsExpression, T!IsExpression,
       Tac!StorageName, T!StorageName, Tac!NoText, T!NoText, Tac!NoLabel,
       T!NoLabel, Tac!Plain, T!Plain, Tac!Control, T!Control, Tac!Label,
       T!Label, Tac!Jump, T!Jump, Tac!JumpIfFalse, T!JumpIfFalse, Tac!At,
       T!At, Tac!Pop, T!Pop, Tac!Return, T!Return, Tac!Emit, T!Emit,
       Tac!Abort, T!Abort, Tac!BindingsOf, T!BindingsOf, Tac!Resolve,
       T!Resolve, Tac!Remember, T!Remember, Tac!HasLabels, T!HasLabels,
       Tac!TakeLabels, T!TakeLabels, Tac!ExpressionComes, T!ExpressionComes,
       Tac!ExpressionDone, T!ExpressionDone, Tac!AfterExpression,
       T!AfterExpression, Tac!FinishDeclaration, T!FinishDeclaration,
       Tac!RefuseInitialized, T!RefuseInitialized, Tac!FinishAssignment,
       T!FinishAssignment, Tac!LabelsOfIf, T!LabelsOfIf,
       Tac!FinishIfCondition, T!FinishIfCondition, Tac!RefuseIf, T!RefuseIf,
       Tac!FinishWhileCondition, T!FinishWhileCondition, Tac!AfterBlock,
       T!AfterBlock, Tac!FinishThen, T!FinishThen, Tac!FinishElse,
       T!FinishElse, Tac!FinishBody, T!FinishBody, Tac!Finish, T!Finish,
       Tac!Last, T!Last, Tac!Front, T!Front
  <1>6. Tac!AllocationFails <=> T!AllocationFails
    BY DEF Tac!Null, T!Null, Tac!First, T!First, Tac!Newest, T!Newest,
       Tac!Holding, T!Holding, Tac!LookupInScope, T!LookupInScope,
       Tac!LookupCurrent, T!LookupCurrent, Tac!Declaring, T!Declaring,
       Tac!Find, T!Find, Tac!LookupActive, T!LookupActive, Tac!Arithmetic,
       T!Arithmetic, Tac!Relational, T!Relational, Tac!Equality, T!Equality,
       Tac!Logical, T!Logical, Tac!BinaryOperators, T!BinaryOperators,
       Tac!Declaration, T!Declaration, Tac!PrintOf, T!PrintOf, Tac!While,
       T!While, Tac!Block, T!Block, Tac!Identifier, T!Identifier, Tac!Literal,
       T!Literal, Tac!Binary, T!Binary, Tac!Unary, T!Unary, Tac!IsExpression,
       T!IsExpression, Tac!NoText, T!NoText, Tac!At, T!At, Tac!Come, T!Come,
       Tac!Abort, T!Abort, Tac!BindingsOf, T!BindingsOf, Tac!Resolve,
       T!Resolve, Tac!HasLabels, T!HasLabels, Tac!OwnsNextBlock,
       T!OwnsNextBlock, Tac!ExpressionComes, T!ExpressionComes,
       Tac!ExpressionDone, T!ExpressionDone, Tac!Allocates, T!Allocates,
       Tac!AllocationFails, T!AllocationFails, Tac!Last, T!Last
  <1> QED BY <1>3, <1>4, <1>5, <1>6 DEF Tac!Step, T!Step

-----------------------------------------------------------------------------
(* The composition. *)

\* The analysis is a run of the analysis.
THEOREM AnalysisRuns == Spec => S!Spec
  <1>1. Init => S!Init
    BY SameAnalysis DEF Init
  <1>2. [Next]_vars => [S!Next]_(S!vars)
    BY SameAnalysis DEF Next, Begin, Analyze, HandOver, Generate, vars, semanticVars,
       S!Next, S!vars
  <1> QED BY <1>1, <1>2, PTL DEF Spec, S!Spec

\* The generator is a run of the generator, on the tree it is handed.
THEOREM GenerationRuns == Spec => T!Spec
  <1>1. Init => T!Init
    BY SameGeneration DEF Init
  <1>2. S!TypeOK => ast \in Seq(Visits)
    BY SameVisits DEF S!TypeOK
  <1>3. S!TypeOK /\ [Next]_vars => [T!Next]_(T!vars)
    BY <1>2, SameGeneration DEF Next, Begin, Analyze, HandOver, Generate, vars, tacVars,
       T!Next, T!vars
  <1>4. Spec => []S!TypeOK
    BY AnalysisRuns, S!TypeCorrect, PhasesAssume, PTL
  <1> QED BY <1>1, <1>3, <1>4, PTL DEF Spec, T!Spec

\* While the generator has a program, it is the one that the analysis accepted.
Coupled == tacStatus # "none" => program = ast /\ status = "SUCCESS"

LEMMA NextCoupled == Coupled /\ [Next]_vars => Coupled'
  <1> SUFFICES ASSUME Coupled, [Next]_vars PROVE Coupled'
    OBVIOUS
  <1>1. CASE Begin
    <2>1. tacStatus' = "none"
      BY <1>1, SameGeneration DEF Begin, T!Destroy, tacVars
    <2> QED BY <2>1 DEF Coupled
  <1>2. CASE Analyze
    <2>1. status = "running" /\ tacStatus' = tacStatus
      BY <1>2, SameAnalysis, S!VisitsRunning, PhasesAssume DEF Analyze, tacVars
    <2> QED BY <2>1 DEF Coupled
  <1>3. CASE HandOver
    BY <1>3, SameGeneration DEF HandOver, T!Begin, T!BeginFails, semanticVars, Coupled
  <1>4. CASE Generate
    <2>1. tacStatus = "running" /\ program' = program /\ ast' = ast /\ status' = status
      BY <1>4, SameGeneration, T!StepOnProgram, PhasesAssume DEF Generate, semanticVars
    <2> QED BY <2>1 DEF Coupled
  <1>5. CASE UNCHANGED vars
    BY <1>5 DEF vars, semanticVars, tacVars, Coupled
  <1> QED BY <1>1, <1>2, <1>3, <1>4, <1>5 DEF Next

THEOREM CouplingHolds == Spec => []Coupled
  <1>1. Init => Coupled
    BY SameGeneration DEF Init, T!Init, Coupled
  <1> QED BY <1>1, NextCoupled, PTL DEF Spec

\* What is said of a text and a table, in the words of either phase.
LEMMA SameWords ==
  /\ \A text, t : /\ S!PlacedIn(text, t) <=> T!PlacedIn(text, t)
                  /\ S!RecordedIn(text, t) <=> T!RecordedIn(text, t)
  /\ \A text, t, D : /\ S!SymbolsDeclared(text, t, D) <=> T!SymbolsDeclared(text, t, D)
                     /\ S!DeclaredBound(text, t, D) <=> T!DeclaredBound(text, t, D)
  /\ \A v : /\ S!Declares(v) <=> T!Declares(v)
            /\ S!Uses(v) <=> T!Uses(v)
  /\ \A text, n, p : S!Denoted(text, n, p) = T!Denoted(text, n, p)
  /\ \A text, p : S!Repeats(text, p) <=> T!Repeats(text, p)
  <1>1. \A X : S!Cardinality(X) = T!Cardinality(X)
    BY DEF S!Cardinality, T!Cardinality
  <1>2. \A text, p, kind : S!Before(text, p, kind) = T!Before(text, p, kind)
    BY <1>1 DEF S!Before, T!Before
  <1>3. \A text, b, p : S!OpenAt(text, b, p) <=> T!OpenAt(text, b, p)
    BY <1>2 DEF S!OpenAt, T!OpenAt, S!Level, T!Level
  <1>4. \A text, p : S!BlockAt(text, p) = T!BlockAt(text, p)
    BY <1>3 DEF S!BlockAt, T!BlockAt, S!Max, T!Max
  <1>5. \A text, b : S!Ordinal(text, b) = T!Ordinal(text, b)
    BY <1>2 DEF S!Ordinal, T!Ordinal
  <1>6. \A text : S!BlocksOf(text) = T!BlocksOf(text)
    BY DEF S!BlocksOf, T!BlocksOf
  <1>7. \A t : S!WellFormed(t) <=> T!WellFormed(t)
    BY DEF S!WellFormed, T!WellFormed, S!Null, T!Null, S!Frame, T!Frame, S!Symbol,
       T!Symbol, S!Table, T!Table, S!CurrentFrame, T!CurrentFrame, S!Rooted, T!Rooted,
       S!Nested, T!Nested, S!Owned, T!Owned, S!Open, T!Open, S!Chain, T!Chain
  <1>8. \A t : /\ S!Chain(t) <=> T!Chain(t)
              /\ S!CurrentFrame(t) = T!CurrentFrame(t)
    BY DEF S!Chain, T!Chain, S!Open, T!Open, S!CurrentFrame, T!CurrentFrame,
       S!Null, T!Null
  <1>9. \A text, b : /\ S!Level(text, b) = T!Level(text, b)
                    /\ S!DepthOf(text, b) = T!DepthOf(text, b)
    BY <1>2 DEF S!Level, T!Level, S!DepthOf, T!DepthOf
  <1>10. \A text, t : S!FramesMatch(text, t) <=> T!FramesMatch(text, t)
    BY <1>2, <1>3, <1>5, <1>6, <1>8, <1>9 DEF S!FramesMatch, T!FramesMatch
  <1>11. \A text, t : S!SymbolsPlaced(text, t) <=> T!SymbolsPlaced(text, t)
    BY <1>4, <1>5 DEF S!SymbolsPlaced, T!SymbolsPlaced
  <1>12. \A text, t : S!PlacedIn(text, t) <=> T!PlacedIn(text, t)
    BY <1>7, <1>8, <1>10, <1>11 DEF S!PlacedIn, T!PlacedIn
  <1>13. \A text, t : S!RecordedIn(text, t) <=> T!RecordedIn(text, t)
    BY <1>4, <1>5, <1>6 DEF S!RecordedIn, T!RecordedIn
  <1>14. \A text, t, D : S!DeclaredBound(text, t, D) <=> T!DeclaredBound(text, t, D)
    BY <1>4, <1>5 DEF S!DeclaredBound, T!DeclaredBound
  <1>15. \A text, n, p : S!DeclarationsOf(text, n, p) = T!DeclarationsOf(text, n, p)
    BY DEF S!DeclarationsOf, T!DeclarationsOf, S!Declares, T!Declares, S!Over, T!Over,
       S!IsExpression, T!IsExpression
  <1>16. \A text, n, p : S!Denoted(text, n, p) = T!Denoted(text, n, p)
    <2> TAKE text, n, p
    <2> DEFINE U == S!InScope(text, n, p)
               B == {S!BlockAt(text, d) : d \in U}
               inner(m) == {d \in U : S!BlockAt(text, d) = m}
    <2>1. U = T!InScope(text, n, p)
      BY <1>3, <1>4, <1>15 DEF S!InScope, T!InScope
    <2>2. B = {T!BlockAt(text, d) : d \in U}
      BY <1>4
    <2>3. \A m : inner(m) = {d \in U : T!BlockAt(text, d) = m}
      BY <1>4
    <2>4. \A X : S!Max(X) = T!Max(X) /\ S!Min(X) = T!Min(X)
      BY DEF S!Max, T!Max, S!Min, T!Min
    <2>5. S!Denoted(text, n, p) = IF U = {} THEN 0 ELSE S!Min(inner(S!Max(B)))
      BY DEF S!Denoted
    <2> DEFINE BT == {T!BlockAt(text, d) : d \in U}
               innerT(m) == {d \in U : T!BlockAt(text, d) = m}
    <2>6. T!Denoted(text, n, p) = IF U = {} THEN 0 ELSE T!Min(innerT(T!Max(BT)))
      BY <2>1 DEF T!Denoted
    <2>7. inner(S!Max(B)) = innerT(T!Max(BT))
      BY <2>2, <2>3, <2>4
    <2> HIDE DEF B, BT, inner, innerT, U
    <2> QED BY <2>4, <2>5, <2>6, <2>7
  <1>17. \A text, p : S!Repeats(text, p) <=> T!Repeats(text, p)
    BY <1>4, <1>15 DEF S!Repeats, T!Repeats
  <1> QED
    BY <1>12, <1>13, <1>14, <1>16, <1>17
    DEF S!SymbolsDeclared, T!SymbolsDeclared, S!Declares, T!Declares, S!Uses, T!Uses

\* What is known when a program has been generated.
LEMMA TablesSame ==
  ASSUME S!IInv, S!Recorded, Coupled,
         T!Structured, T!Scoped, T!Complete, T!Recorded, tacStatus = "SUCCESS"
  PROVE  tacContext.symbols = context.symbols
  <1> DEFINE D == {d \in DOMAIN ast : S!Declares(ast[d])}
  <1>1. program = ast /\ status = "SUCCESS"
    BY DEF Coupled
  <1>2. /\ ast \in Seq(S!Visits) /\ S!Unrepeated(ast, D)
        /\ S!PlacedIn(ast, context.symbols) /\ S!RecordedIn(ast, context.symbols)
        /\ S!SymbolsDeclared(ast, context.symbols, D)
        /\ S!DeclaredBound(ast, context.symbols, D)
    BY <1>1, S!AcceptedTable, PhasesAssume
  <1>3. /\ T!PlacedIn(ast, tacContext.symbols) /\ T!RecordedIn(ast, tacContext.symbols)
        /\ T!SymbolsDeclared(ast, tacContext.symbols, {d \in DOMAIN ast : T!Declares(ast[d])})
        /\ T!DeclaredBound(ast, tacContext.symbols, {d \in DOMAIN ast : T!Declares(ast[d])})
    BY <1>1, T!GeneratedTable, PhasesAssume
  <1>4. D = {d \in DOMAIN ast : T!Declares(ast[d])}
    BY SameWords
  <1>5. D \in SUBSET DOMAIN ast
    OBVIOUS
  <1> HIDE DEF D
  <1>6. /\ S!PlacedIn(ast, tacContext.symbols) /\ S!RecordedIn(ast, tacContext.symbols)
        /\ S!SymbolsDeclared(ast, tacContext.symbols, D)
        /\ S!DeclaredBound(ast, tacContext.symbols, D)
    BY <1>3, <1>4, SameWords
  <1> QED BY <1>2, <1>5, <1>6, S!TablesAgree, PhasesAssume

\* The theorem: the generator, which builds the table again from the tree, ends
\* with the table that the analysis ended with, for every program and whatever
\* fails on the way.  (symbol_table_enter_scope, symbol_table_exit_scope and
\* symbol_table_insert as semantic.c and tac.c call them.)
THEOREM TablesAreTheSame == Spec => []SameScopes
  <1>1. Spec => [](S!IInv /\ S!Recorded)
    BY AnalysisRuns, S!TableIsRecorded, PhasesAssume, PTL
  <1>2. Spec => [](T!Structured /\ T!Scoped /\ T!Complete /\ T!Recorded)
    BY GenerationRuns, T!TableIsRecorded, PhasesAssume, PTL
  <1>3. /\ S!IInv /\ S!Recorded /\ Coupled
        /\ T!Structured /\ T!Scoped /\ T!Complete /\ T!Recorded
        => SameScopes
    BY TablesSame DEF SameScopes
  <1> QED BY <1>1, <1>2, <1>3, CouplingHolds, PTL

-----------------------------------------------------------------------------
(* What the analysis accepts. *)

\* The names of an accepted program are in order, in the words of the generator.
LEMMA AcceptedInOrder ==
  ASSUME S!IInv, S!AcceptedIsWellScoped, Coupled, tacStatus # "none"
  PROVE  T!NamesInOrder
  <1>1. program = ast /\ status = "SUCCESS"
    BY DEF Coupled
  <1> SUFFICES ASSUME NEW p \in DOMAIN program
               PROVE  /\ T!Uses(program[p]) => T!InScope(program, program[p].name, p) # {}
                      /\ T!Declares(program[p]) => ~T!Repeats(program, p)
    BY DEF T!NamesInOrder
  <1>2. /\ S!Uses(ast[p]) => S!Denoted(ast, ast[p].name, p) # 0
        /\ S!Declares(ast[p]) => ~S!Repeats(ast, p)
    BY <1>1 DEF S!AcceptedIsWellScoped
  <1>3. /\ T!Uses(program[p]) => T!Denoted(program, program[p].name, p) # 0
        /\ T!Declares(program[p]) => ~T!Repeats(program, p)
    BY <1>1, <1>2, SameWords
  <1> QED BY <1>3, T!DenotedIsInScope, PhasesAssume

LEMMA NextGenerated ==
  ASSUME S!IInv, S!AcceptedIsWellScoped, Coupled,
         T!Structured, T!Scoped, T!Stored, T!Initializing,
         AcceptedIsGenerated, [Next]_vars
  PROVE  AcceptedIsGenerated'
  <1>1. CASE Begin
    BY <1>1, SameGeneration DEF Begin, T!Destroy, tacVars, AcceptedIsGenerated
  <1>2. CASE Analyze \/ UNCHANGED vars
    BY <1>2 DEF Analyze, vars, tacVars, AcceptedIsGenerated, Exhausted, Tac!Temporaries,
       Tac!IsNextTemporary
  <1>3. CASE HandOver
    BY <1>3, SameGeneration DEF HandOver, T!Begin, T!BeginFails, AcceptedIsGenerated
  <1>4. CASE Generate
    <2> SUFFICES ASSUME tacStatus' = "INTERNAL_ERROR"
                 PROVE  Exhausted'
      BY DEF AcceptedIsGenerated
    <2>1. T!Step /\ tacStatus = "running"
      BY <1>4, SameGeneration, T!StepOnProgram, PhasesAssume DEF Generate
    <2>2. T!NamesInOrder
      BY <2>1, AcceptedInOrder
    <2>3. /\ tacContext' = tacContext
          /\ T!Temporaries(tacContext) = {} \/ tacContext.next_label + 1 >= SizeMax
      BY <2>1, <2>2, T!RefusesOnlyExhausted, PhasesAssume
    <2>4. T!Temporaries(tacContext) = Tac!Temporaries(tacContext)
      BY DEF T!Temporaries, Tac!Temporaries, T!IsNextTemporary, Tac!IsNextTemporary,
         T!Temporary, Tac!Temporary
    <2>5. Exhausted
      BY <2>3, <2>4 DEF Exhausted
    <2> QED BY <2>3, <2>5 DEF Exhausted
  <1> QED BY <1>1, <1>2, <1>3, <1>4 DEF Next

\* The theorem: what the analysis accepts the generator never finds amiss, for
\* programs of any size and however their names are declared; INTERNAL_ERROR
\* means that there is no number left for a temporary or a label.
THEOREM AcceptedProgramsAreGenerated == Spec => []AcceptedIsGenerated
  <1>1. Spec => [](S!IInv /\ S!Recorded)
    BY AnalysisRuns, S!TableIsRecorded, PhasesAssume, PTL
  <1>2. Spec => []S!AcceptedIsWellScoped
    BY AnalysisRuns, S!AcceptedNamesDenote, PhasesAssume, PTL
  <1>3. Spec => [](T!Structured /\ T!Scoped /\ T!Stored /\ T!Initializing)
    BY GenerationRuns, T!StorageIsKept, PhasesAssume, PTL
  <1>4. Spec => []Coupled
    BY CouplingHolds
  <1>5. Init => AcceptedIsGenerated
    BY SameGeneration DEF Init, T!Init, AcceptedIsGenerated
  <1> QED BY <1>1, <1>2, <1>3, <1>4, <1>5, NextGenerated, PTL DEF Spec

-----------------------------------------------------------------------------
(* What names stand for. *)

\* What is said of a text here and in the words of the generator.
LEMMA SamePlaces ==
  /\ \A text, b, p : OpenAt(text, b, p) <=> T!OpenAt(text, b, p)
  /\ \A text, p : BlockAt(text, p) = T!BlockAt(text, p)
  /\ \A text, b : Ordinal(text, b) = T!Ordinal(text, b)
  /\ \A v : Declares(v) <=> T!Declares(v)
  /\ \A n, id : Tac!StorageName(n, id) = T!StorageName(n, id)
  <1>1. \A X : Cardinality(X) = T!Cardinality(X)
    BY DEF Cardinality, T!Cardinality
  <1>2. \A text, p, kind : Before(text, p, kind) = T!Before(text, p, kind)
    BY <1>1 DEF Before, T!Before
  <1>3. \A text, b, p : OpenAt(text, b, p) <=> T!OpenAt(text, b, p)
    BY <1>2 DEF OpenAt, T!OpenAt, Level, T!Level
  <1>4. \A text, p : BlockAt(text, p) = T!BlockAt(text, p)
    BY <1>3 DEF BlockAt, T!BlockAt, Max, T!Max
  <1>5. \A text, b : Ordinal(text, b) = T!Ordinal(text, b)
    BY <1>2 DEF Ordinal, T!Ordinal
  <1> QED BY <1>3, <1>4, <1>5 DEF Declares, T!Declares, Tac!StorageName, T!StorageName

LEMMA SameStorage ==
  \A text, n, p :
    LET d == Denoted(text, n, p)
        e == T!Denoted(text, n, p)
    IN  Tac!StorageName(n, Ordinal(text, BlockAt(text, d)))
          = T!StorageName(n, T!Ordinal(text, T!BlockAt(text, e)))
  <1>1. \A text, n, p : DeclarationsOf(text, n, p) = T!DeclarationsOf(text, n, p)
    BY DEF DeclarationsOf, T!DeclarationsOf, Declares, T!Declares, Over, T!Over,
       IsExpression, T!IsExpression
  <1>2. \A text, n, p : Denoted(text, n, p) = T!Denoted(text, n, p)
    <2> TAKE text, n, p
    <2> DEFINE U == InScope(text, n, p)
               B == {BlockAt(text, d) : d \in U}
               inner(m) == {d \in U : BlockAt(text, d) = m}
               BT == {T!BlockAt(text, d) : d \in U}
               innerT(m) == {d \in U : T!BlockAt(text, d) = m}
    <2>1. U = T!InScope(text, n, p)
      BY SamePlaces, <1>1 DEF InScope, T!InScope
    <2>2. B = BT /\ \A m : inner(m) = innerT(m)
      BY SamePlaces
    <2>3. \A X : Max(X) = T!Max(X) /\ Min(X) = T!Min(X)
      BY DEF Max, T!Max, Min, T!Min
    <2>4. Denoted(text, n, p) = IF U = {} THEN 0 ELSE Min(inner(Max(B)))
      BY DEF Denoted
    <2>5. T!Denoted(text, n, p) = IF U = {} THEN 0 ELSE T!Min(innerT(T!Max(BT)))
      BY <2>1 DEF T!Denoted
    <2>6. inner(Max(B)) = innerT(T!Max(BT))
      BY <2>2, <2>3
    <2> HIDE DEF B, BT, inner, innerT, U
    <2> QED BY <2>3, <2>4, <2>5, <2>6
  <1> QED BY <1>2, SamePlaces

\* The theorem: where the text of an accepted program uses a name, the code
\* uses the storage of the declaration that the name denotes there, for
\* programs of any size.  (resolve_storage_name, symbol_table_lookup_active.)
THEOREM UsesAreDenoted == Spec => []UsesDenoted
  <1>1. ASSUME T!Used, Coupled, tacStatus = "running", next > 1
        PROVE  LET p == next - 1
                   v == ast[p]
               IN  /\ v.kind = "identifier" /\ tacOperands # << >>
                        => Last(tacOperands) = StorageOf(v.name, p)
                   /\ v.kind = "assignment" /\ Tac!At("assignment")
                        => Last(tacTodo).target = StorageOf(v.name, p)
                   /\ v.kind = "print" /\ Tac!At("list")
                        => Last(code).first = StorageOf(v.name, p)
    <2>1. program = ast
      BY <1>1 DEF Coupled
    <2>2. \A n, p : StorageOf(n, p) = T!DenotedStorage(n, p)
      BY <2>1, SameStorage DEF StorageOf, T!DenotedStorage
    <2>3. \A s : Last(s) = T!Last(s)
      BY DEF Last, T!Last
    <2>4. \A where : Tac!At(where) <=> T!At(where)
      BY DEF Tac!At, T!At, Tac!Last, T!Last
    <2>5. T!LastUse
      BY <1>1 DEF T!Used
    <2> QED BY <2>1, <2>2, <2>3, <2>4, <2>5 DEF T!LastUse
  <1>2. T!Used /\ Coupled => UsesDenoted
    BY <1>1 DEF UsesDenoted
  <1>3. Spec => []T!Used
    BY GenerationRuns, T!UsesAreStored, PhasesAssume, PTL
  <1> QED BY <1>2, <1>3, CouplingHolds, PTL

\* The theorem: two declarations never share their storage, and a temporary is
\* never the storage of a declaration nor used twice, for the programs that the
\* analysis accepted and however they name their variables.
\* (reserve_global_storage_names, make_temporary, make_storage_name.)
THEOREM TextsAreDistinct == Spec => []TextsDistinct
  <1> DEFINE storages ==
        {Tac!StorageName(ast[d].name, Ordinal(ast, BlockAt(ast, d))) :
           d \in {e \in DOMAIN ast : Declares(ast[e])}}
  <1>1. T!StoragesOf(ast) = storages
    BY SamePlaces DEF T!StoragesOf
  <1>2. ASSUME T!TextsDiffer, Coupled
        PROVE  TextsDistinct
    <2>1. tacStatus \in {"running", "SUCCESS"} => program = ast
      BY <1>2 DEF Coupled
    <2> HIDE DEF storages
    <2>2. tacStatus \in {"running", "SUCCESS"} =>
            /\ \A i, j \in DOMAIN tacContext.bindings :
                 tacContext.bindings[i].storage = tacContext.bindings[j].storage => i = j
            /\ \A i \in DOMAIN code :
                 code[i].kind \in {"UNARY", "BINARY"} => code[i].result \notin storages
            /\ \A i, j \in DOMAIN code :
                 /\ code[i].kind \in {"UNARY", "BINARY"} /\ code[j].kind \in {"UNARY", "BINARY"}
                 /\ code[i].result = code[j].result
                 => i = j
      BY <1>1, <1>2, <2>1 DEF T!TextsDiffer, T!Defines
    <2> QED BY <2>2 DEF TextsDistinct, storages
  <1>3. Spec => []T!TextsDiffer
    BY GenerationRuns, T!TextsAreDistinct, PhasesAssume, PTL
  <1>4. T!TextsDiffer /\ Coupled => TextsDistinct
    BY <1>2
  <1> QED BY <1>3, <1>4, CouplingHolds, PTL

\* The theorem: a program that is handed out has an instruction for every
\* print, operator, stored value and condition of the text that the analysis
\* accepted, of whatever size and whatever failed before.
\* (generate_statement, append_instruction, tac_generate.)
THEOREM ProgramsAreWhole == Spec => []WholeProgram
  <1>1. \A X : Cardinality(X) = T!Cardinality(X)
    BY DEF Cardinality, T!Cardinality
  <1>2. ASSUME T!WholeCode, Coupled, T!Handed
        PROVE  WholeProgram
    <2>1. output # << >> => program = ast
      BY <1>2 DEF Coupled, T!Handed
    <2> QED BY <1>1, <1>2, <2>1, SamePlaces DEF T!WholeCode, WholeProgram
  <1>3. Spec => [](T!WholeCode /\ T!Handed)
    BY GenerationRuns, T!ProgramsAreWhole, PhasesAssume, PTL
  <1>4. T!WholeCode /\ Coupled /\ T!Handed => WholeProgram
    BY <1>2
  <1> QED BY <1>3, <1>4, CouplingHolds, PTL

-----------------------------------------------------------------------------
(* What the analysis promises of expressions. *)

\* An accepted program is the text of whole expressions, in the words of the
\* generator.
LEMMA SameExpressions == \A text : S!Formed(text) => T!Formed(text)
  <1>1. \A X : S!Cardinality(X) = T!Cardinality(X)
    BY DEF S!Cardinality, T!Cardinality
  <1>2. \A v : /\ S!Weight(v) = T!Weight(v)
               /\ S!IsExpression(v) <=> T!IsExpression(v)
               /\ S!Awaits(v) <=> T!Awaits(v)
    BY DEF S!Weight, T!Weight, S!IsExpression, T!IsExpression, S!Awaits, T!Awaits,
       S!Declares, T!Declares
  <1>3. \A text, a, b, w : S!Weighing(text, a, b, w) = T!Weighing(text, a, b, w)
    BY <1>2 DEF S!Weighing, T!Weighing
  <1>4. \A text, a, b : S!Balance(text, a, b) = T!Balance(text, a, b)
    BY <1>1, <1>3 DEF S!Balance, T!Balance
  <1>5. \A text, s, b, n : S!Half(text, s, b, n) <=> T!Half(text, s, b, n)
    BY <1>2, <1>4 DEF S!Half, T!Half
  <1>6. \A text : S!Fed(text) <=> T!Fed(text)
    BY <1>2, <1>5 DEF S!Fed, T!Fed
  <1> QED BY <1>2, <1>6 DEF S!Formed, T!Formed

LEMMA AcceptedIsFormed ==
  ASSUME S!IInv, S!Forming, Coupled, T!Given
  PROVE  T!FormedProgram
  <1>1. CASE tacStatus = "none"
    BY <1>1, T!EmptyFormed, PhasesAssume DEF T!Given, T!FormedProgram
  <1>2. CASE tacStatus # "none"
    <2>1. program = ast /\ status # "running"
      BY <1>2 DEF Coupled
    <2>2. S!Formed(ast)
      BY <2>1, S!AnalyzedIsFormed, PhasesAssume
    <2> QED BY <2>1, <2>2, SameExpressions DEF T!FormedProgram
  <1> QED BY <1>1, <1>2

\* The types of the generator, in the words of its module and of its proofs.
LEMMA SameTypes == T!TypeOK => Tac!TypeOK
  BY DEF T!TypeOK, Tac!TypeOK, T!Todo, Tac!Todo, T!Text, Tac!Text, T!Stems, Tac!Stems,
     T!Context, Tac!Context, T!Binding, Tac!Binding, T!Table, Tac!Table, T!Frame,
     Tac!Frame, T!Symbol, Tac!Symbol, T!Null, Tac!Null, T!Instruction, Tac!Instruction,
     T!Statuses, Tac!Statuses

\* The theorem: of what the analysis accepts every operator finds the texts of
\* its operands when the generator comes to it, and every statement that of
\* its value, for programs of any size and whatever fails.
\* (analyze_expression, generate_expression.)
THEOREM AcceptedProgramsAreTyped == Spec => []Tac!TypeOK
  <1>1. Spec => [](S!IInv /\ S!Forming)
    BY AnalysisRuns, S!AnalysisForms, PhasesAssume, PTL
  <1>2. Spec => [](T!Given /\ T!Structured)
    BY GenerationRuns, T!ProgramsGiven, PhasesAssume, PTL
  <1>3. S!IInv /\ S!Forming /\ Coupled /\ T!Given => T!FormedProgram
    BY AcceptedIsFormed
  <1>4. Spec => []T!FormedProgram
    BY <1>1, <1>2, <1>3, CouplingHolds, PTL
  <1>5. Spec => [](T!Given /\ T!Structured /\ T!Handed /\ T!Fitting)
    BY <1>4, GenerationRuns, T!TypedWhenFormed, PhasesAssume, PTL
  <1>6. T!Given /\ T!Structured /\ T!Fitting => Tac!TypeOK
    BY T!FittingIsTyped, SameTypes, PhasesAssume
  <1> QED BY <1>5, <1>6, PTL
=============================================================================
