----------------------------- MODULE TacProofs ------------------------------
(***************************************************************************)
(* The generation of code for any programs, whatever fails and wherever    *)
(* the numbers end.  The generator reads the program visit by visit, as    *)
(* the analysis does: what is proved in SourceProofs about a text and a    *)
(* table that grow together is used here for the part that was read.       *)
(***************************************************************************)
EXTENDS Tac, SourceProofs

\* The part of the program that was read.
Read == SubSeq(program, 1, next - 1)

\* Everything has its type but the operands and what is emitted of them: the
\* programs are any sequences of visits, and an operator may come too early.
\* (The last section is about programs in which none does.)
Typed ==
  /\ program \in Seq(Visits)
  /\ next \in 1 .. Len(program) + 1
  /\ todo \in Seq(Todo)
  /\ context \in Context
  /\ status \in Statuses

\* What is not the last that is left to do is a list, or owns the next one.
Callers == {"list", "then", "else", "body"}

\* The generator is in one list more than scopes are open.
Underway ==
  /\ status # "running" => todo = << >>
  /\ status = "running" =>
       Calls(todo, CurrentFrame(context.symbols).depth, Callers)

\* The table is the one that the part that was read makes.
Located ==
  status \in {"running", "SUCCESS"} => PlacedIn(Read, context.symbols)

\* A declaration that waits for its initializer is in the block that is still
\* the innermost one.
WaitsIn(text, item) ==
  /\ item.line \in DOMAIN text
  /\ text[item.line] = Declaration(item.name, item.type, TRUE)
  /\ BlockAt(text, item.line) = BlockAt(text, Len(text) + 1)

Waiting == At("declaration") => WaitsIn(Read, Last(todo))

Structured == Typed /\ Underway /\ Located /\ Waiting

-----------------------------------------------------------------------------
(* The parts of a step. *)

\* What is read when a node is come to.
LEMMA ReadFields ==
  ASSUME Typed
  PROVE  /\ Read \in Seq(Visits) /\ Len(Read) = next - 1
         /\ DOMAIN Read = 1 .. next - 1 /\ next \in Nat \ {0}
         /\ \A p \in 1 .. next - 1 : p \in DOMAIN program /\ Read[p] = program[p]
  <1>1. program \in Seq(Visits) /\ next - 1 \in 0 .. Len(program)
        /\ DOMAIN program = 1 .. Len(program) /\ next \in Nat \ {0}
    BY DEF Typed
  <1>2. /\ Read \in Seq(Visits) /\ Len(Read) = next - 1
        /\ \A p \in 1 .. next - 1 : Read[p] = program[p]
    BY <1>1 DEF Read
  <1> QED BY <1>1, <1>2

LEMMA VisitReads ==
  ASSUME Typed, NEW v, Visit(v)
  PROVE  /\ v \in Visits /\ status = "running" /\ status' = "running"
         /\ next \in DOMAIN program /\ program[next] = v
         /\ program' = program /\ next' = next + 1 /\ output' = output
         /\ next' \in 1 .. Len(program) + 1
         /\ Read' = Append(Read, v)
  <1>1. /\ status = "running" /\ status' = "running" /\ output' = output
        /\ next \in DOMAIN program /\ program[next] = v
        /\ program' = program /\ next' = next + 1
    BY DEF Visit, Come
  <1>2. /\ program \in Seq(Visits) /\ next \in 1 .. Len(program)
        /\ Len(program) \in Nat
    BY <1>1 DEF Typed
  <1>3. v \in Visits /\ next' \in 1 .. Len(program) + 1
    BY <1>1, <1>2
  <1>4. SubSeq(program, 1, next) = Append(SubSeq(program, 1, next - 1), v)
    <2> DEFINE s == SubSeq(program, 1, next)
               t == Append(SubSeq(program, 1, next - 1), v)
    <2>1. /\ s \in Seq(Visits) /\ Len(s) = next
          /\ \A p \in 1 .. next : s[p] = program[p]
      BY <1>2
    <2>2. /\ SubSeq(program, 1, next - 1) \in Seq(Visits)
          /\ Len(SubSeq(program, 1, next - 1)) = next - 1
          /\ \A p \in 1 .. next - 1 : SubSeq(program, 1, next - 1)[p] = program[p]
      BY <1>2
    <2>3. /\ t \in Seq(Visits) /\ Len(t) = next
          /\ \A p \in 1 .. next : t[p] = program[p]
      BY <1>1, <1>2, <1>3, <2>2
    <2> HIDE DEF s, t
    <2>4. \A p \in 1 .. Len(s) : s[p] = t[p]
      BY <2>1, <2>3
    <2> QED BY <2>1, <2>3, <2>4, SeqEqual DEF s, t
  <1>5. Read' = SubSeq(program, 1, next)
    <2>1. next' - 1 = next
      BY <1>1, <1>2
    <2> QED BY <1>1, <2>1 DEF Read
  <1> QED BY <1>1, <1>3, <1>4, <1>5 DEF Read

LEMMA ReturnReads ==
  ASSUME Return
  PROVE  /\ Read' = Read /\ status = "running" /\ status' = "running"
         /\ program' = program /\ next' = next /\ output' = output
  BY DEF Return, Read

\* A visit has the fields that its kind has.
LEMMA VisitFields ==
  ASSUME NEW v \in Visits
  PROVE  /\ Declares(v) => /\ v.name \in Names /\ v.type \in Types
                           /\ v.initialized \in BOOLEAN
         /\ Uses(v) => v.name \in Names
  BY DEF Visits, Statements, Expressions, Declares, Uses, Declaration,
         Assignment, PrintOf, If, While, Block, EndBlock, Identifier, Literal,
         Binary, Unary

\* So has what is left to do.
LEMMA TodoFields ==
  ASSUME NEW item \in Todo
  PROVE  /\ item.at \in {"list", "declaration", "assignment", "if", "while",
                         "then", "else", "body"}
         /\ item.at = "declaration" =>
              item.line \in Nat /\ item.name \in Names /\ item.type \in Types
         /\ item.at = "assignment" => item.target \in Text
         /\ item.at = "if" => item.hasElse \in BOOLEAN
         /\ item.at \in {"while", "body"} => item.start \in Nat /\ item.exit \in Nat
         /\ item.at = "then" =>
              item.hasElse \in BOOLEAN /\ item.no \in Nat /\ item.end \in Nat
         /\ item.at = "else" => item.end \in Nat
         /\ item.at \in {"then", "else", "body"} => item.entered \in BOOLEAN
  BY DEF Todo

LEMMA TodoItems ==
  /\ [at |-> "list"] \in Todo
  /\ \A line \in Nat, n \in Names, ty \in Types :
       [at |-> "declaration", line |-> line, name |-> n, type |-> ty] \in Todo
  /\ \A target \in Text : [at |-> "assignment", target |-> target] \in Todo
  /\ \A hasElse \in BOOLEAN : [at |-> "if", hasElse |-> hasElse] \in Todo
  /\ \A start, exit \in Nat :
       [at |-> "while", start |-> start, exit |-> exit] \in Todo
  /\ \A entered, hasElse \in BOOLEAN, no, end \in Nat :
       [at |-> "then", entered |-> entered, hasElse |-> hasElse, no |-> no,
        end |-> end] \in Todo
  /\ \A entered \in BOOLEAN, end \in Nat :
       [at |-> "else", entered |-> entered, end |-> end] \in Todo
  /\ \A entered \in BOOLEAN, start, exit \in Nat :
       [at |-> "body", entered |-> entered, start |-> start, exit |-> exit] \in Todo
  BY DEF Todo

-----------------------------------------------------------------------------
(* Names, numbers and contexts. *)

LEMMA TextsOfNames ==
  /\ \A n \in Names, id \in Nat : StorageName(n, id) \in Text
  /\ \A k \in Nat : Temporary(k) \in Text
  /\ NoText \in Text /\ LiteralText \in Text
  <1>1. ASSUME NEW n \in Names, NEW id \in Nat
        PROVE  StorageName(n, id) \in Text
    <2>1. n \in {n[1]} \X Nat
      BY IdentifiersAssumption
    <2>2. n[1] \in Stems /\ n[2] \in Nat
      BY <2>1 DEF Stems
    <2> QED BY <2>2 DEF StorageName, Text
  <1>2. \A k \in Nat : Temporary(k) \in Text
    BY DEF Temporary, Text, Stems
  <1>3. NoText \in Text /\ LiteralText \in Text
    BY DEF NoText, LiteralText, Text, Stems
  <1> QED BY <1>1, <1>2, <1>3

\* A name that is resolved is a text, and its declaration is open.
LEMMA ResolvedName ==
  ASSUME NEW c \in Context, NEW n
  PROVE  /\ Resolve(c, n) \in Text
         /\ Resolve(c, n) # NoText => LookupActive(c.symbols, n) # Null
  <1> DEFINE symbol == LookupActive(c.symbols, n)
             found == BindingsOf(c, symbol)
  <1>1. c.bindings \in Seq(Binding)
    BY DEF Context
  <1>2. CASE symbol = Null \/ found = {}
    BY <1>2, TextsOfNames DEF Resolve
  <1>3. CASE symbol # Null /\ found # {}
    <2>1. found \in SUBSET Nat /\ found \subseteq DOMAIN c.bindings
      BY <1>1 DEF BindingsOf
    <2> HIDE DEF found
    <2>2. \E i \in found : \A j \in found : i <= j
      BY <1>3, <2>1, LeastOfSet
    <2>3. First(found) \in DOMAIN c.bindings
      BY <2>1, <2>2 DEF First
    <2>4. c.bindings[First(found)].storage \in Text
      <3>1. c.bindings[First(found)] \in Binding
        BY <1>1, <2>3
      <3> QED BY <3>1 DEF Binding
    <2>5. Resolve(c, n) = c.bindings[First(found)].storage
      BY <1>3 DEF Resolve, found
    <2> QED BY <1>3, <2>4, <2>5
  <1> QED BY <1>2, <1>3

\* A declaration that is new in its scope is inserted and bound.
LEMMA RememberEffect ==
  ASSUME NEW c \in Context, WellFormed(c.symbols),
         NEW d, d.line \in Nat, d.name \in Names, d.type \in Types,
         LookupCurrent(c.symbols, d.name) = Null
  PROVE  LET r == Remember(c, d)
         IN  /\ r \in Context
             /\ r.symbols = Insert(c.symbols, d.name, d.type, d.line)
             /\ r.reserved = c.reserved /\ r.next_label = c.next_label
             /\ r.next_temporary = c.next_temporary
  <1> DEFINE symbols == Insert(c.symbols, d.name, d.type, d.line)
             symbol == LookupCurrent(symbols, d.name)
             b == [symbol |-> symbol,
                   storage |-> StorageName(d.name, symbols.symbols[symbol].scope_id)]
  <1>1. WellFormed(symbols) /\ symbols \in Table
    BY InsertKeepsWellFormed DEF WellFormed
  <1>2. symbol \in DOMAIN symbols.symbols
    <2>1. c.symbols.symbols \in Seq(Symbol) /\ c.symbols \in Table
      BY DEF WellFormed, Table
    <2>2. PICK s : /\ symbols.symbols = Append(c.symbols.symbols, s)
                   /\ s.name = d.name /\ s.owner = c.symbols.current
                   /\ symbols.current = c.symbols.current
      <3> DEFINE s == [name |-> d.name, type |-> d.type, line |-> d.line,
                       scope_id |-> CurrentFrame(c.symbols).id,
                       scope_depth |-> CurrentFrame(c.symbols).depth,
                       owner |-> c.symbols.current]
      <3>1. /\ symbols.symbols = Append(c.symbols.symbols, s)
            /\ symbols.current = c.symbols.current
        BY <2>1 DEF Insert, Table
      <3>2. s.name = d.name /\ s.owner = c.symbols.current
        OBVIOUS
      <3> HIDE DEF s, symbols
      <3> QED BY <3>1, <3>2
    <2> DEFINE i == Len(c.symbols.symbols) + 1
    <2> HIDE DEF symbols
    <2>3. i \in DOMAIN symbols.symbols /\ symbols.symbols[i] = s
      BY <2>1, <2>2
    <2> HIDE DEF i
    <2>4. i \in Holding(symbols, symbols.current, d.name)
      BY <2>2, <2>3 DEF Holding
    <2>5. symbol # Null
      BY <1>1, <2>4, LookupInScopeAnswer DEF LookupCurrent
    <2> QED BY <1>1, <2>5, LookupInScopeAnswer DEF LookupCurrent
  <1>3. symbols.symbols[symbol].scope_id \in Nat /\ symbol \in Nat
    <2>1. symbols.symbols \in Seq(Symbol)
      BY <1>1 DEF Table
    <2>2. symbols.symbols[symbol] \in Symbol /\ symbol \in Nat
      BY <1>2, <2>1
    <2> QED BY <2>2 DEF Symbol
  <1> HIDE DEF symbols, symbol
  <1>4. b \in Binding
    BY <1>3, TextsOfNames DEF Binding
  <1>5. Remember(c, d) = [c EXCEPT !.symbols = symbols,
                                   !.bindings = Append(@, b)]
    BY DEF Remember, symbols, symbol
  <1>6. c.bindings \in Seq(Binding)
    BY DEF Context
  <1> HIDE DEF b
  <1>7. Append(c.bindings, b) \in Seq(Binding)
    BY <1>4, <1>6
  <1>8. LET r == [c EXCEPT !.symbols = symbols, !.bindings = Append(@, b)]
        IN  /\ r \in Context /\ r.symbols = symbols
            /\ r.reserved = c.reserved /\ r.next_label = c.next_label
            /\ r.next_temporary = c.next_temporary
    BY <1>1, <1>7 DEF Context
  <1> QED BY <1>5, <1>8 DEF symbols

\* Numbers are taken only while there are some.
LEMMA TakeEffects ==
  ASSUME NEW c \in Context
  PROVE  /\ \A k \in Temporaries(c) :
              LET r == TakeTemporary(c, k)
              IN  /\ k \in Nat /\ r \in Context /\ r.symbols = c.symbols
                  /\ r.bindings = c.bindings /\ r.next_label = c.next_label
         /\ \A n \in Nat :
              LET r == TakeLabels(c, n)
              IN  HasLabels(c, n) =>
                    /\ r \in Context /\ r.symbols = c.symbols
                    /\ r.bindings = c.bindings /\ r.next_label = c.next_label + n
         /\ \A t \in Table :
              LET r == [c EXCEPT !.symbols = t]
              IN  /\ r \in Context /\ r.symbols = t
                  /\ r.next_label = c.next_label /\ r.bindings = c.bindings
  <1>0. SizeMax \in Nat /\ c.next_temporary \in Nat /\ c.next_label \in Nat
    BY SizeMaxAssumption DEF Context
  <1>1. ASSUME NEW k \in Temporaries(c)
        PROVE  LET r == TakeTemporary(c, k)
               IN  /\ k \in Nat /\ r \in Context /\ r.symbols = c.symbols
                   /\ r.bindings = c.bindings /\ r.next_label = c.next_label
    <2>1. k \in Nat /\ k + 1 \in 0 .. SizeMax
      BY <1>0 DEF Temporaries
    <2>2. c.reserved \cup {Temporary(k)} \in SUBSET Text
      BY <2>1, TextsOfNames DEF Context
    <2> QED BY <2>1, <2>2 DEF TakeTemporary, Context
  <1>2. ASSUME NEW n \in Nat, HasLabels(c, n)
        PROVE  LET r == TakeLabels(c, n)
               IN  /\ r \in Context /\ r.symbols = c.symbols
                   /\ r.bindings = c.bindings /\ r.next_label = c.next_label + n
    <2>1. c.next_label + n \in 0 .. SizeMax
      BY <1>0, <1>2 DEF HasLabels
    <2> QED BY <2>1 DEF TakeLabels, Context
  <1>3. ASSUME NEW t \in Table
        PROVE  LET r == [c EXCEPT !.symbols = t]
               IN  /\ r \in Context /\ r.symbols = t
                   /\ r.next_label = c.next_label /\ r.bindings = c.bindings
    BY DEF Context
  <1> QED BY <1>1, <1>2, <1>3

LEMMA NewContexts ==
  /\ NewContext({}) \in Context
  /\ \A ast \in Seq(Visits) : NewContext(GlobalNames(ast)) \in Context
  /\ \A texts : /\ NewContext(texts).symbols = NewTable
                /\ NewContext(texts).next_label = 1
  <1>1. ASSUME NEW texts \in SUBSET Text
        PROVE  NewContext(texts) \in Context
    <2>1. NewTable \in Table
      BY NewIsWellFormed DEF WellFormed
    <2>2. 1 \in 0 .. SizeMax
      BY SizeMaxAssumption
    <2> QED BY <2>1, <2>2 DEF NewContext, Context
  <1>2. ASSUME NEW ast \in Seq(Visits)
        PROVE  GlobalNames(ast) \in SUBSET Text
    <2> SUFFICES ASSUME NEW d \in DOMAIN ast, Declares(ast[d])
                 PROVE  StorageName(ast[d].name, 0) \in Text
      BY DEF GlobalNames
    <2>1. ast[d] \in Visits
      OBVIOUS
    <2> QED BY <2>1, VisitFields, TextsOfNames
  <1>3. \A texts : /\ NewContext(texts).symbols = NewTable
                   /\ NewContext(texts).next_label = 1
    BY DEF NewContext
  <1> QED BY <1>1, <1>2, <1>3

-----------------------------------------------------------------------------
(* The structure of the generation. *)

\* A declaration waits from its visit on, while no block begins or ends.
LEMMA WaitsAppend ==
  ASSUME NEW text \in Seq(Visits), NEW v \in Visits, v.kind \notin {"block", "end"},
         NEW item,
         \/ WaitsIn(text, item)
         \/ item.line = Len(text) + 1 /\ v = Declaration(item.name, item.type, TRUE)
  PROVE  WaitsIn(Append(text, v), item)
  <1> DEFINE new == Append(text, v)
             h == Len(text) + 1
  <1>1. /\ h \in Nat \ {0} /\ DOMAIN text = 1 .. h - 1 /\ DOMAIN new = 1 .. h
        /\ new[h] = v /\ Len(new) = h
        /\ \A q \in 1 .. h - 1 : new[q] = text[q]
    OBVIOUS
  <1>2. item.line \in 1 .. h /\ BlockAt(text, item.line) = BlockAt(text, h)
    <2>1. CASE item.line = h
      BY <1>1, <2>1
    <2>2. CASE WaitsIn(text, item)
      BY <1>1, <2>2 DEF WaitsIn
    <2> QED BY <2>1, <2>2
  <1>3. BlockAt(new, item.line) = BlockAt(text, item.line)
    BY <1>1, <1>2, BlockAtAppend
  <1>4. BlockAt(new, Len(text) + 2) = BlockAt(text, Len(text) + 1)
    BY InnermostStays
  <1>5. Len(text) + 2 = Len(new) + 1
    BY <1>1
  <1>6. new[item.line] = Declaration(item.name, item.type, TRUE)
    BY <1>1, <1>2 DEF WaitsIn
  <1> HIDE DEF new
  <1>7. WaitsIn(new, item)
    BY <1>1, <1>2, <1>3, <1>4, <1>5, <1>6 DEF WaitsIn
  <1> QED BY <1>7 DEF new

\* What a step has to show while the generator runs.
LEMMA RunningStructured ==
  ASSUME Structured, status' = "running", program' = program,
         next' \in 1 .. Len(program) + 1, todo' \in Seq(Todo),
         context' \in Context,
         Calls(todo', CurrentFrame(context'.symbols).depth, Callers),
         PlacedIn(Read', context'.symbols), Waiting'
  PROVE  Structured'
  BY DEF Structured, Typed, Underway, Located, Statuses

LEMMA RunningFields ==
  ASSUME Structured, status = "running"
  PROVE  LET t == context.symbols
         IN  /\ todo \in Seq(Todo) /\ todo # << >> /\ Last(todo) \in Todo
             /\ context \in Context /\ PlacedIn(Read, t) /\ WellFormed(t)
             /\ t \in Table /\ CurrentFrame(t).depth \in Nat
             /\ Calls(todo, CurrentFrame(t).depth, Callers)
             /\ Read \in Seq(Visits)
  <1>1. /\ todo \in Seq(Todo) /\ context \in Context
        /\ PlacedIn(Read, context.symbols)
        /\ Calls(todo, CurrentFrame(context.symbols).depth, Callers)
    BY DEF Structured, Typed, Underway, Located
  <1>2. todo # << >> /\ Last(todo) \in Todo
    <2>1. todo # << >>
      BY <1>1 DEF Calls
    <2> QED BY <1>1, <2>1, LastAndFront
  <1>3. WellFormed(context.symbols) /\ context.symbols \in Table
    BY <1>1 DEF PlacedIn, WellFormed
  <1>4. CurrentFrame(context.symbols).depth \in Nat
    BY <1>3, WellFormedIndices
  <1>5. Read \in Seq(Visits)
    BY ReadFields DEF Structured
  <1> QED BY <1>1, <1>2, <1>3, <1>4, <1>5

\* When it gives up nothing is left to do.
Failed == \E failure \in {"ALLOCATION_FAILURE", "INTERNAL_ERROR"} : Abort(failure)

LEMMA FailedStructured ==
  ASSUME Structured, Failed
  PROVE  Structured'
  BY DEF Structured, Typed, Underway, Located, Waiting, At, Failed, Abort, Statuses

\* The steps that come to a name, a literal or an operator.
Operates ==
  \/ \E n \in Names : GenerateIdentifier(n)
  \/ \E ty \in Types : GenerateLiteral(ty)
  \/ \E op \in BinaryOperators : GenerateBinary(op)
  \/ GenerateUnary

LEMMA OperatesFields ==
  ASSUME Structured, Operates
  PROVE  /\ \E v : Visit(v) /\ IsExpression(v)
                   /\ (v.kind = "identifier" => Resolve(context, v.name) # NoText)
         /\ todo' = todo /\ context' \in Context
         /\ context'.symbols = context.symbols
         /\ context'.next_label = context.next_label
  <1>1. context \in Context
    BY DEF Structured, Typed
  <1>2. CASE \E n \in Names : GenerateIdentifier(n)
    <2>1. PICK n \in Names : GenerateIdentifier(n)
      BY <1>2
    <2>2. /\ IsExpression(Identifier(n)) /\ Identifier(n).name = n
      BY DEF IsExpression, Identifier
    <2> QED BY <1>1, <2>1, <2>2 DEF GenerateIdentifier
  <1>3. CASE \E ty \in Types : GenerateLiteral(ty)
    <2>1. PICK ty \in Types : GenerateLiteral(ty)
      BY <1>3
    <2>2. IsExpression(Literal(ty)) /\ Literal(ty).kind # "identifier"
      BY DEF IsExpression, Literal
    <2> QED BY <1>1, <2>1, <2>2 DEF GenerateLiteral
  <1>4. CASE \E op \in BinaryOperators : GenerateBinary(op)
    <2>1. PICK op \in BinaryOperators : GenerateBinary(op)
      BY <1>4
    <2>2. IsExpression(Binary(op)) /\ Binary(op).kind # "identifier"
      BY DEF IsExpression, Binary
    <2>3. /\ Visit(Binary(op)) /\ todo' = todo
          /\ \E k \in Temporaries(context) : context' = TakeTemporary(context, k)
      BY <2>1 DEF GenerateBinary
    <2> QED BY <1>1, <2>2, <2>3, TakeEffects
  <1>5. CASE GenerateUnary
    <2>1. IsExpression(Unary) /\ Unary.kind # "identifier"
      BY DEF IsExpression, Unary
    <2>2. /\ Visit(Unary) /\ todo' = todo
          /\ \E k \in Temporaries(context) : context' = TakeTemporary(context, k)
      BY <1>5 DEF GenerateUnary
    <2> QED BY <1>1, <2>1, <2>2, TakeEffects
  <1> QED BY <1>2, <1>3, <1>4, <1>5 DEF Operates

LEMMA OperatesStructured ==
  ASSUME Structured, Operates
  PROVE  Structured'
  <1>1. PICK v : Visit(v) /\ IsExpression(v)
    BY OperatesFields
  <1>2. /\ todo' = todo /\ context' \in Context
        /\ context'.symbols = context.symbols
    BY OperatesFields
  <1>3. Typed
    BY DEF Structured
  <1>4. /\ v \in Visits /\ status = "running" /\ status' = "running"
        /\ program' = program /\ next' \in 1 .. Len(program) + 1
        /\ Read' = Append(Read, v)
    BY <1>1, <1>3, VisitReads
  <1>5. v.kind \notin {"block", "end"}
    BY <1>1 DEF IsExpression
  <1>6. PlacedIn(Read', context'.symbols)
    BY <1>2, <1>4, <1>5, RunningFields, TextKeepsPlaces
  <1>7. Waiting'
    <2> SUFFICES ASSUME At("declaration") PROVE WaitsIn(Append(Read, v), Last(todo))
      BY <1>2, <1>4 DEF Waiting, At
    <2>1. WaitsIn(Read, Last(todo)) /\ Read \in Seq(Visits)
      BY <1>4, RunningFields DEF Structured, Waiting
    <2> QED BY <1>4, <1>5, <2>1, WaitsAppend
  <1> QED BY <1>2, <1>4, <1>6, <1>7, RunningFields, RunningStructured

\* The steps that begin a statement in a list, but for a block.
States ==
  \/ \E n \in Names, ty \in Types, i \in BOOLEAN : GenerateDeclaration(n, ty, i)
  \/ \E n \in Names : GenerateAssignment(n) \/ GeneratePrint(n)
  \/ \E hasElse \in BOOLEAN : GenerateIf(hasElse)
  \/ GenerateWhile

\* A declaration without initializer is bound at once.
DeclaresAtOnce(v) ==
  /\ Declares(v) /\ ~v.initialized
  /\ LookupCurrent(context.symbols, v.name) = Null
  /\ context'.symbols = Insert(context.symbols, v.name, v.type, next)
  /\ todo' = todo

\* Another statement is begun, and its expression may be waited for.
Begins(v, item) ==
  /\ context'.symbols = context.symbols
  /\ todo' = todo \/ (todo' = Append(todo, item) /\ item.at # "list")
  /\ Declares(v) =>
       /\ v.initialized /\ todo' = Append(todo, item)
       /\ item = [at |-> "declaration", line |-> next, name |-> v.name,
                  type |-> v.type]
  /\ ~Declares(v) => item.at # "declaration"
  /\ Uses(v) => Resolve(context, v.name) # NoText

LEMMA StatesFields ==
  ASSUME Structured, States
  PROVE  /\ At("list") /\ context' \in Context
         /\ \E v, item : /\ Visit(v) /\ v.kind \notin {"block", "end"}
                         /\ ~IsExpression(v)
                         /\ item \in Todo
                         /\ DeclaresAtOnce(v) \/ Begins(v, item)
  <1> DEFINE Goal(v, item) ==
               /\ Visit(v) /\ v.kind \notin {"block", "end"} /\ ~IsExpression(v)
               /\ item \in Todo
               /\ DeclaresAtOnce(v) \/ Begins(v, item)
  <1>1. Typed /\ context \in Context
    BY DEF Structured, Typed
  <1>2. CASE \E n \in Names, ty \in Types, i \in BOOLEAN : GenerateDeclaration(n, ty, i)
    <2>1. PICK n \in Names, ty \in Types, i \in BOOLEAN : GenerateDeclaration(n, ty, i)
      BY <1>2
    <2> DEFINE v == Declaration(n, ty, i)
               d == [at |-> "declaration", line |-> next, name |-> n, type |-> ty]
    <2>2. /\ v.kind \notin {"block", "end"} /\ ~IsExpression(v) /\ Declares(v)
          /\ ~Uses(v) /\ v.name = n /\ v.type = ty /\ v.initialized = i
      BY DEF Declaration, IsExpression, Declares, Uses
    <2>3. /\ At("list") /\ Visit(v)
          /\ IF i THEN todo' = Append(todo, d) /\ context' = context
             ELSE /\ LookupCurrent(context.symbols, n) = Null
                  /\ context' = Remember(context, d) /\ todo' = todo
      BY <2>1 DEF GenerateDeclaration
    <2>4. next \in Nat /\ d \in Todo
      <3>1. next \in Nat
        BY <1>1, ReadFields
      <3> QED BY <3>1, TodoItems
    <2>5. /\ d.at = "declaration" /\ d.line = next /\ d.name = n /\ d.type = ty
      OBVIOUS
    <2>6. d = [at |-> "declaration", line |-> next, name |-> v.name, type |-> v.type]
      BY <2>2
    <2> HIDE DEF v, d
    <2>7. CASE i = TRUE
      <3>1. Begins(v, d)
        BY <2>2, <2>3, <2>6, <2>7 DEF Begins
      <3>2. Goal(v, d)
        BY <2>2, <2>3, <2>4, <3>1
      <3> HIDE DEF Goal
      <3>3. \E w, item : Goal(w, item)
        BY <3>2
      <3>4. context' \in Context
        BY <1>1, <2>3, <2>7
      <3> QED BY <2>3, <3>3, <3>4 DEF Goal
    <2>8. CASE i = FALSE
      <3>1. WellFormed(context.symbols)
        <4>1. status = "running"
          BY <2>3 DEF Visit, Come
        <4> QED BY <4>1, RunningFields
      <3>2. /\ context' \in Context
            /\ context'.symbols = Insert(context.symbols, n, ty, next)
        BY <1>1, <2>3, <2>4, <2>5, <2>8, <3>1, RememberEffect
      <3>3. DeclaresAtOnce(v)
        BY <2>2, <2>3, <2>8, <3>2 DEF DeclaresAtOnce
      <3>4. Goal(v, d)
        BY <2>2, <2>3, <2>4, <3>3
      <3> HIDE DEF Goal
      <3>5. \E w, item : Goal(w, item)
        BY <3>4
      <3> QED BY <2>3, <3>2, <3>5 DEF Goal
    <2> QED BY <2>7, <2>8
  <1>3. CASE \E n \in Names : GenerateAssignment(n)
    <2>1. PICK n \in Names : GenerateAssignment(n)
      BY <1>3
    <2> DEFINE v == Assignment(n)
               target == Resolve(context, n)
               d == [at |-> "assignment", target |-> target]
    <2>2. /\ v.kind \notin {"block", "end"} /\ ~IsExpression(v) /\ ~Declares(v)
          /\ v.name = n /\ d.at \notin {"declaration", "list"}
      BY DEF Assignment, IsExpression, Declares
    <2>3. /\ At("list") /\ Visit(v) /\ target # NoText
          /\ todo' = Append(todo, d) /\ context' = context
      BY <2>1 DEF GenerateAssignment
    <2>4. d \in Todo
      <3>1. target \in Text
        BY <1>1, ResolvedName
      <3> QED BY <3>1, TodoItems
    <2> HIDE DEF v, d
    <2>5. Begins(v, d)
      BY <2>2, <2>3 DEF Begins
    <2>6. Goal(v, d)
      BY <2>2, <2>3, <2>4, <2>5
    <2> HIDE DEF Goal
    <2>7. \E w, item : Goal(w, item)
      BY <2>6
    <2> QED BY <1>1, <2>3, <2>7 DEF Goal
  <1>4. CASE \E n \in Names : GeneratePrint(n)
    <2>1. PICK n \in Names : GeneratePrint(n)
      BY <1>4
    <2> DEFINE v == PrintOf(n)
               d == [at |-> "list"]
    <2>2. /\ v.kind \notin {"block", "end"} /\ ~IsExpression(v) /\ ~Declares(v)
          /\ v.name = n /\ d.at # "declaration" /\ d \in Todo
      BY TodoItems DEF PrintOf, IsExpression, Declares
    <2>3. /\ At("list") /\ Visit(v) /\ Resolve(context, n) # NoText
          /\ todo' = todo /\ context' = context
      BY <2>1 DEF GeneratePrint
    <2> HIDE DEF v, d
    <2>5. Begins(v, d)
      BY <2>2, <2>3 DEF Begins
    <2>6. Goal(v, d)
      BY <2>2, <2>3, <2>5
    <2> HIDE DEF Goal
    <2>7. \E w, item : Goal(w, item)
      BY <2>6
    <2> QED BY <1>1, <2>3, <2>7 DEF Goal
  <1>5. CASE \E hasElse \in BOOLEAN : GenerateIf(hasElse)
    <2>1. PICK hasElse \in BOOLEAN : GenerateIf(hasElse)
      BY <1>5
    <2> DEFINE v == If(hasElse)
               d == [at |-> "if", hasElse |-> hasElse]
    <2>2. /\ v.kind \notin {"block", "end"} /\ ~IsExpression(v) /\ ~Declares(v)
          /\ ~Uses(v) /\ d.at \notin {"declaration", "list"} /\ d \in Todo
      BY TodoItems DEF If, IsExpression, Declares, Uses
    <2>3. /\ At("list") /\ Visit(v) /\ todo' = Append(todo, d) /\ context' = context
      BY <2>1 DEF GenerateIf
    <2> HIDE DEF v, d
    <2>5. Begins(v, d)
      BY <2>2, <2>3 DEF Begins
    <2>6. Goal(v, d)
      BY <2>2, <2>3, <2>5
    <2> HIDE DEF Goal
    <2>7. \E w, item : Goal(w, item)
      BY <2>6
    <2> QED BY <1>1, <2>3, <2>7 DEF Goal
  <1>6. CASE GenerateWhile
    <2> DEFINE l == context.next_label
               d == [at |-> "while", start |-> l, exit |-> l + 1]
    <2>1. l \in Nat
      BY <1>1 DEF Context
    <2>2. /\ While.kind \notin {"block", "end"} /\ ~IsExpression(While)
          /\ ~Declares(While) /\ ~Uses(While)
          /\ d.at \notin {"declaration", "list"} /\ d \in Todo
      BY <2>1, TodoItems DEF While, IsExpression, Declares, Uses
    <2>3. /\ At("list") /\ Visit(While) /\ HasLabels(context, 2)
          /\ todo' = Append(todo, d) /\ context' = TakeLabels(context, 2)
      BY <1>6 DEF GenerateWhile
    <2>4. context' \in Context /\ context'.symbols = context.symbols
      BY <1>1, <2>3, TakeEffects
    <2> HIDE DEF d
    <2>5. Begins(While, d)
      BY <2>2, <2>3, <2>4 DEF Begins
    <2>6. Goal(While, d)
      BY <2>2, <2>3, <2>5
    <2> HIDE DEF Goal
    <2>7. \E w, item : Goal(w, item)
      BY <2>6
    <2> QED BY <2>3, <2>4, <2>7 DEF Goal
  <1> QED BY <1>2, <1>3, <1>4, <1>5, <1>6 DEF States

LEMMA StatesStructured ==
  ASSUME Structured, States
  PROVE  Structured'
  <1>1. At("list") /\ context' \in Context
    BY StatesFields
  <1>2. PICK v, item : /\ Visit(v) /\ v.kind \notin {"block", "end"}
                       /\ item \in Todo /\ ~IsExpression(v)
                       /\ DeclaresAtOnce(v) \/ Begins(v, item)
    BY StatesFields
  <1>3. Typed
    BY DEF Structured
  <1>4. /\ v \in Visits /\ status = "running" /\ status' = "running"
        /\ program' = program /\ next' \in 1 .. Len(program) + 1
        /\ Read' = Append(Read, v) /\ next' = next + 1
    BY <1>2, <1>3, VisitReads
  <1>5. PlacedIn(Read', context.symbols) /\ Read \in Seq(Visits)
    BY <1>2, <1>4, RunningFields, TextKeepsPlaces
  <1>6. CASE DeclaresAtOnce(v)
    <2>1. v.name \in Names /\ v.type \in Types
      BY <1>4, <1>6, VisitFields DEF DeclaresAtOnce
    <2>2. /\ next \in DOMAIN Read' /\ Read' \in Seq(Visits)
          /\ BlockAt(Read', next) = BlockAt(Read', Len(Read') + 1)
      <3>1. Len(Read) + 1 = next /\ next \in Nat \ {0}
        BY <1>3, ReadFields
      <3>2. Len(Append(Read, v)) = next /\ Append(Read, v) \in Seq(Visits)
        BY <1>4, <1>5, <3>1
      <3>3. BlockAt(Append(Read, v), Len(Read) + 2) = BlockAt(Read, Len(Read) + 1)
        BY <1>2, <1>4, <1>5, InnermostStays
      <3>4. BlockAt(Append(Read, v), Len(Read) + 1) = BlockAt(Read, Len(Read) + 1)
        <4>1. Len(Read) + 1 \in 1 .. Len(Read) + 1
          BY <3>1
        <4> QED BY <1>4, <1>5, <4>1, BlockAtAppend
      <3>5. Len(Read) + 2 = next + 1
        BY <3>1
      <3> QED BY <1>4, <3>1, <3>2, <3>3, <3>4, <3>5
    <2>3. /\ PlacedIn(Read', context'.symbols)
          /\ CurrentFrame(context'.symbols) = CurrentFrame(context.symbols)
      <3> DEFINE text == Append(Read, v)
      <3>1. PlacedIn(text, context.symbols) /\ text \in Seq(Visits)
            /\ next \in DOMAIN text
            /\ BlockAt(text, next) = BlockAt(text, Len(text) + 1)
            /\ LookupCurrent(context.symbols, v.name) = Null
        BY <1>4, <1>5, <1>6, <2>2 DEF DeclaresAtOnce
      <3> HIDE DEF text
      <3>2. LET u == Insert(context.symbols, v.name, v.type, next)
            IN  PlacedIn(text, u) /\ CurrentFrame(u) = CurrentFrame(context.symbols)
        BY <2>1, <3>1, InsertKeepsPlaces
      <3> QED BY <1>4, <1>6, <3>2 DEF text, DeclaresAtOnce
    <2>4. todo' = todo /\ Waiting'
      BY <1>1, <1>6 DEF DeclaresAtOnce, Waiting, At
    <2> QED BY <1>1, <1>4, <2>3, <2>4, RunningFields, RunningStructured
  <1>7. CASE Begins(v, item)
    <2>1. context'.symbols = context.symbols
      BY <1>7 DEF Begins
    <2>2. PlacedIn(Read', context'.symbols)
      BY <1>5, <2>1
    <2>3. CASE todo' = todo
      <3>1. Waiting'
        BY <1>1, <2>3 DEF Waiting, At
      <3> QED BY <1>1, <1>4, <2>1, <2>2, <2>3, <3>1, RunningFields, RunningStructured
    <2>4. CASE todo' # todo
      <3>1. todo' = Append(todo, item) /\ item.at # "list"
        BY <1>7, <2>4 DEF Begins
      <3>2. Last(todo).at \in Callers
        BY <1>1 DEF At, Callers
      <3>3. /\ todo' \in Seq(Todo)
            /\ Calls(todo', CurrentFrame(context.symbols).depth, Callers)
        BY <1>2, <1>4, <3>1, <3>2, RunningFields, CallsPush
      <3>4. Last(todo') = item
        BY <1>2, <1>4, <3>1, RunningFields, LastOfAppend
      <3>5. Waiting'
        <4> SUFFICES ASSUME item.at = "declaration" PROVE WaitsIn(Append(Read, v), item)
          BY <1>4, <3>4 DEF Waiting, At
        <4>1. /\ Declares(v) /\ v.initialized
              /\ item = [at |-> "declaration", line |-> next, name |-> v.name,
                         type |-> v.type]
          BY <1>7 DEF Begins
        <4>2. v = Declaration(v.name, v.type, TRUE)
          <5>1. PICK n \in Names, ty \in Types, i \in BOOLEAN : v = Declaration(n, ty, i)
            BY <1>4, <4>1 DEF Visits, Statements, Expressions, Declares,
               Declaration, Assignment, PrintOf, If, While, Block, EndBlock,
               Identifier, Literal, Binary, Unary
          <5>2. v.name = n /\ v.type = ty /\ v.initialized = i
            BY <5>1 DEF Declaration
          <5>3. i = TRUE
            BY <4>1, <5>2
          <5> QED BY <5>1, <5>2, <5>3
        <4>3. /\ item.line = next /\ item.name = v.name /\ item.type = v.type
          BY <4>1
        <4>4. item.line = Len(Read) + 1
          BY <1>3, <4>3, ReadFields
        <4>5. v = Declaration(item.name, item.type, TRUE)
          BY <4>2, <4>3
        <4> QED BY <1>2, <1>4, <1>5, <4>4, <4>5, WaitsAppend
      <3> QED BY <1>1, <1>4, <2>1, <2>2, <3>3, <3>5, RunningStructured
    <2> QED BY <2>3, <2>4
  <1> QED BY <1>2, <1>6, <1>7

\* The rest of what is left to do, and in place of the last item another.
Replaced(item) == Append(Pop, item)

LEMMA PopFields ==
  ASSUME Structured, status = "running", Last(todo).at # "list" \/ Len(todo) > 1
  PROVE  LET depth == CurrentFrame(context.symbols).depth
         IN  /\ Pop \in Seq(Todo) /\ Last(Pop).at \in Callers /\ Pop # << >>
             /\ Last(todo).at = "list" => depth # 0 /\ Calls(Pop, depth - 1, Callers)
             /\ Last(todo).at # "list" =>
                  /\ Calls(Pop, depth, Callers)
                  /\ \A item \in Todo : item.at # "list" =>
                       /\ Replaced(item) \in Seq(Todo)
                       /\ Last(Replaced(item)) = item
                       /\ Calls(Replaced(item), depth, Callers)
  <1> DEFINE depth == CurrentFrame(context.symbols).depth
  <1>1. /\ todo \in Seq(Todo) /\ depth \in Nat /\ Calls(todo, depth, Callers)
    BY RunningFields
  <1> HIDE DEF depth
  <1>2. /\ Pop \in Seq(Todo) /\ Last(Pop).at \in Callers
        /\ IF Last(todo).at = "list"
             THEN depth > 0 /\ Calls(Pop, depth - 1, Callers)
             ELSE Calls(Pop, depth, Callers)
    BY <1>1, CallsPop DEF Pop
  <1>3. Pop # << >>
    BY <1>2 DEF Calls
  <1>4. ASSUME Last(todo).at # "list", NEW item \in Todo, item.at # "list"
        PROVE  /\ Replaced(item) \in Seq(Todo) /\ Last(Replaced(item)) = item
               /\ Calls(Replaced(item), depth, Callers)
    <2> HIDE DEF Pop
    <2>1. /\ Append(Pop, item) \in Seq(Todo) /\ Calls(Append(Pop, item), depth, Callers)
      BY <1>1, <1>2, <1>4, CallsPush
    <2>2. Last(Append(Pop, item)) = item
      BY <1>2, LastOfAppend
    <2> QED BY <2>1, <2>2 DEF Replaced
  <1> HIDE DEF Pop
  <1> QED BY <1>1, <1>2, <1>3, <1>4 DEF depth

\* The owner of a block, when it comes, notes that it was entered.
EnteredItem == [Last(todo) EXCEPT !.entered = TRUE]

Owner == IF At("list") THEN todo ELSE Replaced(EnteredItem)

LEMMA EnteredFields ==
  ASSUME NEW item \in Todo, item.at \in {"then", "else", "body"}
  PROVE  LET e == [item EXCEPT !.entered = TRUE]
         IN  /\ e \in Todo /\ e.at = item.at /\ e.entered = TRUE
             /\ item.at = "then" => /\ e.no = item.no /\ e.end = item.end
                                    /\ e.hasElse = item.hasElse
             /\ item.at = "else" => e.end = item.end
             /\ item.at = "body" => e.start = item.start /\ e.exit = item.exit
  <1>1. CASE item.at = "then"
    BY <1>1 DEF Todo
  <1>2. CASE item.at = "else"
    BY <1>2 DEF Todo
  <1>3. CASE item.at = "body"
    BY <1>3 DEF Todo
  <1> QED BY <1>1, <1>2, <1>3

LEMMA EnterFields ==
  ASSUME Structured, EnterBlock
  PROVE  /\ Visit(Block) /\ OwnsNextBlock
         /\ context' \in Context /\ context'.symbols = EnterScope(context.symbols)
         /\ context'.next_label = context.next_label /\ code' = code
         /\ Owner \in Seq(Todo) /\ Last(Owner).at \in Callers
         /\ Calls(Owner, CurrentFrame(context.symbols).depth, Callers)
         /\ todo' = Append(Owner, [at |-> "list"])
  <1> DEFINE l == [at |-> "list"]
  <1>1. /\ Visit(Block) /\ OwnsNextBlock /\ code' = code
        /\ context' = [context EXCEPT !.symbols = EnterScope(@)]
        /\ todo' = (IF At("list") THEN todo
                    ELSE [todo EXCEPT ![Len(todo)].entered = TRUE]) \o <<l>>
    BY DEF EnterBlock
  <1>2. status = "running"
    BY <1>1 DEF Visit, Come
  <1>3. /\ todo \in Seq(Todo) /\ todo # << >> /\ Last(todo) \in Todo
        /\ context \in Context /\ WellFormed(context.symbols)
        /\ Calls(todo, CurrentFrame(context.symbols).depth, Callers)
    BY <1>2, RunningFields
  <1>4. /\ context' \in Context /\ context'.symbols = EnterScope(context.symbols)
        /\ context'.next_label = context.next_label
    <2>1. EnterScope(context.symbols) \in Table
      BY <1>3, EnterKeepsWellFormed DEF WellFormed
    <2> QED BY <1>1, <1>3, <2>1, TakeEffects
  <1>5. CASE At("list")
    <2>1. todo \o <<l>> = Append(todo, l)
      <3>1. l \in Todo
        BY TodoItems
      <3> HIDE DEF l
      <3> QED BY <1>3, <3>1
    <2> QED BY <1>1, <1>3, <1>4, <1>5, <2>1 DEF Owner, At, Callers
  <1>6. CASE ~At("list")
    <2>1. Last(todo).at \in {"then", "else", "body"} /\ ~Last(todo).entered
      BY <1>1, <1>6 DEF OwnsNextBlock, At
    <2>2. EnteredItem \in Todo /\ EnteredItem.at = Last(todo).at
      BY <1>3, <2>1, EnteredFields DEF EnteredItem
    <2>3. /\ Replaced(EnteredItem) \in Seq(Todo)
          /\ Last(Replaced(EnteredItem)) = EnteredItem
          /\ Calls(Replaced(EnteredItem), CurrentFrame(context.symbols).depth, Callers)
      BY <1>2, <2>1, <2>2, PopFields
    <2>4. [todo EXCEPT ![Len(todo)].entered = TRUE] \o <<l>> = Append(Replaced(EnteredItem), l)
      <3> DEFINE s == [todo EXCEPT ![Len(todo)].entered = TRUE]
                 r == Replaced(EnteredItem)
                 n == Len(todo)
      <3>1. /\ n \in Nat \ {0} /\ DOMAIN todo = 1 .. n /\ Last(todo) = todo[n]
            /\ Front(todo) \in Seq(Todo) /\ Len(Front(todo)) = n - 1
            /\ \A i \in 1 .. n - 1 : Front(todo)[i] = todo[i]
        BY <1>3, LastAndFront
      <3>2. /\ s \in Seq(Todo) /\ Len(s) = n /\ s[n] = EnteredItem
            /\ \A i \in 1 .. n - 1 : s[i] = todo[i]
        <4>1. s = [todo EXCEPT ![n] = EnteredItem]
          BY <3>1 DEF EnteredItem
        <4> HIDE DEF s, n
        <4> QED BY <1>3, <2>2, <3>1, <4>1
      <3>3. /\ r \in Seq(Todo) /\ Len(r) = n /\ r[n] = EnteredItem
            /\ \A i \in 1 .. n - 1 : r[i] = todo[i]
        <4> HIDE DEF n
        <4>1. /\ Append(Front(todo), EnteredItem) \in Seq(Todo)
              /\ Len(Append(Front(todo), EnteredItem)) = n - 1 + 1
              /\ \A i \in 1 .. n - 1 : Append(Front(todo), EnteredItem)[i] = Front(todo)[i]
              /\ Append(Front(todo), EnteredItem)[n - 1 + 1] = EnteredItem
          BY <2>2, <3>1, LastOfAppend
        <4> QED BY <3>1, <4>1 DEF Replaced, Pop
      <3> HIDE DEF s, r, n
      <3>4. \A i \in 1 .. n : s[i] = r[i]
        BY <3>1, <3>2, <3>3
      <3>5. s = r
        BY <3>2, <3>3, <3>4, SeqEqual
      <3>6. l \in Todo
        BY TodoItems
      <3> HIDE DEF l
      <3>7. r \o <<l>> = Append(r, l)
        BY <3>3, <3>6
      <3> QED BY <3>5, <3>7 DEF s, r
    <2>5. Last(Replaced(EnteredItem)).at \in Callers
      BY <2>1, <2>2, <2>3 DEF Callers
    <2> QED BY <1>1, <1>4, <1>6, <2>3, <2>4, <2>5 DEF Owner
  <1> QED BY <1>5, <1>6

LEMMA EnterStructured ==
  ASSUME Structured, EnterBlock
  PROVE  Structured'
  <1> DEFINE l == [at |-> "list"]
             depth == CurrentFrame(context.symbols).depth
  <1>1. /\ Visit(Block) /\ context' \in Context
        /\ context'.symbols = EnterScope(context.symbols)
        /\ Owner \in Seq(Todo) /\ Last(Owner).at \in Callers
        /\ Calls(Owner, depth, Callers) /\ todo' = Append(Owner, l)
    BY EnterFields
  <1>2. /\ status = "running" /\ status' = "running" /\ program' = program
        /\ next' \in 1 .. Len(program) + 1 /\ Read' = Append(Read, Block)
        /\ Block \in Visits
    BY <1>1, VisitReads DEF Structured
  <1>3. Read \in Seq(Visits) /\ PlacedIn(Read, context.symbols) /\ depth \in Nat
    BY <1>2, RunningFields
  <1>4. /\ PlacedIn(Read', context'.symbols)
        /\ CurrentFrame(context'.symbols).depth = depth + 1
    <2>1. Block.kind = "block"
      BY DEF Block
    <2> QED BY <1>1, <1>2, <1>3, <2>1, EnterKeepsPlaces
  <1>5. l \in Todo /\ l.at = "list"
    BY TodoItems
  <1> HIDE DEF l, depth
  <1>6. todo' \in Seq(Todo) /\ Calls(todo', depth + 1, Callers)
    BY <1>1, <1>3, <1>5, CallsPush
  <1>7. Waiting'
    <2>1. Last(todo') = l
      BY <1>1, <1>5, LastOfAppend
    <2> QED BY <1>5, <2>1 DEF Waiting, At
  <1> QED BY <1>1, <1>2, <1>4, <1>6, <1>7, RunningStructured

LEMMA LeaveFields ==
  ASSUME Structured, LeaveBlock
  PROVE  /\ Visit(EndBlock) /\ At("list") /\ todo' = Pop /\ code' = code
         /\ context' \in Context /\ context'.symbols = ExitScope(context.symbols)
         /\ context'.next_label = context.next_label
         /\ ~AtGlobal(context.symbols)
         /\ ~At("declaration")'
  <1>1. /\ Visit(EndBlock) /\ At("list") /\ Len(todo) > 1 /\ todo' = Pop /\ code' = code
        /\ context' = [context EXCEPT !.symbols = ExitScope(@)]
    BY DEF LeaveBlock
  <1>2. status = "running" /\ Last(todo).at = "list"
    BY <1>1 DEF Visit, Come, At
  <1>3. Last(Pop).at \in Callers /\ CurrentFrame(context.symbols).depth # 0
    BY <1>1, <1>2, PopFields
  <1>4. context \in Context /\ WellFormed(context.symbols)
    BY <1>2, RunningFields
  <1>5. ~AtGlobal(context.symbols)
    BY <1>3, <1>4, DeepIsNotGlobal
  <1>6. ExitScope(context.symbols) \in Table
    BY <1>4, <1>5, ExitKeepsWellFormed DEF WellFormed
  <1>7. /\ context' \in Context /\ context'.symbols = ExitScope(context.symbols)
        /\ context'.next_label = context.next_label
    BY <1>1, <1>4, <1>6, TakeEffects
  <1>8. ~At("declaration")'
    BY <1>1, <1>3 DEF At, Callers
  <1> QED BY <1>1, <1>5, <1>7, <1>8

LEMMA LeaveStructured ==
  ASSUME Structured, LeaveBlock
  PROVE  Structured'
  <1> DEFINE depth == CurrentFrame(context.symbols).depth
  <1>1. /\ Visit(EndBlock) /\ context' \in Context
        /\ context'.symbols = ExitScope(context.symbols)
        /\ ~AtGlobal(context.symbols) /\ todo' = Pop /\ ~At("declaration")'
        /\ At("list")
    BY LeaveFields
  <1>2. /\ status = "running" /\ status' = "running" /\ program' = program
        /\ next' \in 1 .. Len(program) + 1 /\ Read' = Append(Read, EndBlock)
        /\ EndBlock \in Visits
    BY <1>1, VisitReads DEF Structured
  <1>3. Read \in Seq(Visits) /\ PlacedIn(Read, context.symbols)
    BY <1>2, RunningFields
  <1>4. /\ PlacedIn(Read', context'.symbols)
        /\ CurrentFrame(context'.symbols).depth = depth - 1
    <2>1. EndBlock.kind = "end"
      BY DEF EndBlock
    <2> QED BY <1>1, <1>2, <1>3, <2>1, ExitKeepsPlaces
  <1>5. Pop \in Seq(Todo) /\ Calls(Pop, depth - 1, Callers)
    <2>1. Len(todo) > 1 /\ Last(todo).at = "list"
      BY <1>1 DEF LeaveBlock, At
    <2> QED BY <1>2, <2>1, PopFields
  <1>6. Waiting'
    BY <1>1 DEF Waiting
  <1> HIDE DEF depth, Pop
  <1> QED BY <1>1, <1>2, <1>4, <1>5, <1>6, RunningStructured

\* The steps back in a statement that is no declaration: it is over, or a
\* block of it comes next.
Returns ==
  \/ FinishAssignment \/ FinishIfCondition \/ FinishWhileCondition
  \/ FinishThen \/ FinishElse \/ FinishBody

LEMMA ReturnsFields ==
  ASSUME Structured, Returns
  PROVE  /\ Return /\ ~At("declaration") /\ ~At("list")
         /\ context' \in Context /\ context'.symbols = context.symbols
         /\ \/ todo' = Pop
            \/ \E item \in Todo : /\ todo' = Replaced(item)
                                  /\ item.at \in {"then", "else", "body"}
  <1> DEFINE Goal(item) == /\ todo' = Replaced(item)
                           /\ item.at \in {"then", "else", "body"}
             last == Last(todo)
  <1>1. status = "running"
    BY DEF Returns, FinishAssignment, FinishIfCondition, FinishWhileCondition,
       FinishThen, FinishElse, FinishBody, AfterExpression, AfterBlock, Return
  <1>2. context \in Context /\ last \in Todo /\ context.next_label \in Nat
    BY <1>1, RunningFields DEF Context
  <1>3. CASE FinishAssignment \/ FinishElse \/ FinishBody
    BY <1>2, <1>3 DEF FinishAssignment, FinishElse, FinishBody, AfterExpression,
       AfterBlock, ExpressionDone, At
  <1>4. CASE FinishIfCondition
    <2> DEFINE no == context.next_label
               end == IF last.hasElse THEN no + 1 ELSE NoLabel
               item == [at |-> "then", entered |-> FALSE, hasElse |-> last.hasElse,
                        no |-> no, end |-> end]
    <2>1. /\ Return /\ last.at = "if" /\ HasLabels(context, LabelsOfIf)
          /\ todo' = Replaced(item) /\ context' = TakeLabels(context, LabelsOfIf)
      BY <1>4 DEF FinishIfCondition, AfterExpression, ExpressionDone, At, Replaced
    <2>2. LabelsOfIf \in Nat
      BY DEF LabelsOfIf
    <2>3. context' \in Context /\ context'.symbols = context.symbols
      BY <1>2, <2>1, <2>2, TakeEffects
    <2>4. item \in Todo /\ item.at = "then"
      <3>1. last.hasElse \in BOOLEAN /\ no \in Nat /\ end \in Nat
        BY <1>2, <2>1, TodoFields DEF NoLabel
      <3> HIDE DEF no, end, last
      <3> QED BY <3>1, TodoItems
    <2> HIDE DEF item
    <2>5. Goal(item)
      BY <2>1, <2>4
    <2> HIDE DEF Goal
    <2>6. \E i \in Todo : Goal(i)
      BY <2>4, <2>5
    <2> QED BY <2>1, <2>3, <2>6 DEF At, Goal
  <1>5. CASE FinishWhileCondition
    <2> DEFINE item == [at |-> "body", entered |-> FALSE, start |-> last.start,
                        exit |-> last.exit]
    <2>1. /\ Return /\ last.at = "while" /\ todo' = Replaced(item)
          /\ context' = context
      BY <1>5 DEF FinishWhileCondition, AfterExpression, ExpressionDone, At, Replaced
    <2>2. item \in Todo /\ item.at = "body"
      <3>1. last.start \in Nat /\ last.exit \in Nat
        BY <1>2, <2>1, TodoFields
      <3> HIDE DEF last
      <3> QED BY <3>1, TodoItems
    <2> HIDE DEF item
    <2>5. Goal(item)
      BY <2>1, <2>2
    <2> HIDE DEF Goal
    <2>6. \E i \in Todo : Goal(i)
      BY <2>2, <2>5
    <2> QED BY <1>2, <2>1, <2>6 DEF At, Goal
  <1>6. CASE FinishThen
    <2>1. Return /\ last.at = "then" /\ context' = context
      BY <1>6 DEF FinishThen, AfterBlock, At
    <2>2. CASE last.hasElse
      <3> DEFINE item == [at |-> "else", entered |-> FALSE, end |-> last.end]
      <3>1. todo' = Replaced(item)
        BY <1>6, <2>2 DEF FinishThen, Replaced
      <3>2. item \in Todo /\ item.at = "else"
        <4>1. last.end \in Nat
          BY <1>2, <2>1, TodoFields
        <4> HIDE DEF last
        <4> QED BY <4>1, TodoItems
      <3> HIDE DEF item
      <3>3. Goal(item)
        BY <3>1, <3>2
      <3> HIDE DEF Goal
      <3>4. \E i \in Todo : Goal(i)
        BY <3>2, <3>3
      <3> QED BY <1>2, <2>1, <3>4 DEF At, Goal
    <2>3. CASE ~last.hasElse
      BY <1>2, <1>6, <2>1, <2>3 DEF FinishThen, At
    <2> QED BY <2>2, <2>3
  <1> QED BY <1>3, <1>4, <1>5, <1>6 DEF Returns

LEMMA ReturnsStructured ==
  ASSUME Structured, Returns
  PROVE  Structured' /\ ~At("declaration")'
  <1> DEFINE depth == CurrentFrame(context.symbols).depth
  <1>1. /\ Return /\ ~At("list") /\ context' \in Context
        /\ context'.symbols = context.symbols
        /\ \/ todo' = Pop
           \/ \E item \in Todo : /\ todo' = Replaced(item)
                                 /\ item.at \in {"then", "else", "body"}
    BY ReturnsFields
  <1>2. /\ Read' = Read /\ status = "running" /\ status' = "running"
        /\ program' = program /\ next' = next
    BY <1>1, ReturnReads
  <1>3. todo # << >> /\ Last(todo).at # "list" /\ PlacedIn(Read, context.symbols)
    BY <1>1, <1>2, RunningFields DEF At
  <1>4. /\ Pop \in Seq(Todo) /\ Last(Pop).at \in Callers /\ Calls(Pop, depth, Callers)
        /\ \A item \in Todo : item.at # "list" =>
             /\ Replaced(item) \in Seq(Todo) /\ Last(Replaced(item)) = item
             /\ Calls(Replaced(item), depth, Callers)
    BY <1>2, <1>3, PopFields
  <1> HIDE DEF Pop, Replaced, depth
  <1>5. /\ todo' \in Seq(Todo) /\ Calls(todo', depth, Callers)
        /\ Last(todo').at # "declaration"
    BY <1>1, <1>4 DEF Callers
  <1>6. Waiting' /\ ~At("declaration")'
    BY <1>5 DEF Waiting, At
  <1>7. next' \in 1 .. Len(program) + 1
    BY <1>2 DEF Structured, Typed
  <1> QED BY <1>1, <1>2, <1>3, <1>5, <1>6, <1>7, RunningStructured DEF depth

LEMMA FinishDeclarationFields ==
  ASSUME Structured, FinishDeclaration
  PROVE  LET d == Last(todo)
         IN  /\ Return /\ ~ExpressionComes /\ At("declaration")
             /\ LookupCurrent(context.symbols, d.name) = Null
             /\ WaitsIn(Read, d) /\ d.name \in Names /\ d.type \in Types
             /\ context' \in Context /\ context'.next_label = context.next_label
             /\ context'.symbols = Insert(context.symbols, d.name, d.type, d.line)
             /\ todo' = Pop /\ ~At("declaration")'
  <1> DEFINE d == Last(todo)
  <1>1. /\ Return /\ ~ExpressionComes /\ At("declaration")
        /\ LookupCurrent(context.symbols, d.name) = Null
        /\ context' = Remember(context, d) /\ todo' = Pop
    BY DEF FinishDeclaration, AfterExpression, ExpressionDone
  <1>2. status = "running" /\ d.at = "declaration"
    BY <1>1 DEF Return, At
  <1>3. /\ d \in Todo /\ context \in Context /\ WellFormed(context.symbols)
    BY <1>2, RunningFields
  <1>4. d.line \in Nat /\ d.name \in Names /\ d.type \in Types
    BY <1>2, <1>3, TodoFields
  <1>5. WaitsIn(Read, d)
    BY <1>1 DEF Structured, Waiting
  <1>6. Last(Pop).at \in Callers
    BY <1>2, PopFields
  <1> HIDE DEF d
  <1>7. /\ context' \in Context /\ context'.next_label = context.next_label
        /\ context'.symbols = Insert(context.symbols, d.name, d.type, d.line)
    BY <1>1, <1>3, <1>4, RememberEffect
  <1>8. ~At("declaration")'
    BY <1>1, <1>6 DEF At, Callers
  <1> QED BY <1>1, <1>4, <1>5, <1>7, <1>8 DEF d

LEMMA FinishDeclarationStructured ==
  ASSUME Structured, FinishDeclaration
  PROVE  Structured'
  <1> DEFINE d == Last(todo)
             depth == CurrentFrame(context.symbols).depth
             u == Insert(context.symbols, d.name, d.type, d.line)
  <1>1. /\ Return /\ LookupCurrent(context.symbols, d.name) = Null
        /\ WaitsIn(Read, d) /\ d.name \in Names /\ d.type \in Types
        /\ At("declaration")
        /\ context' \in Context /\ context'.symbols = u
        /\ todo' = Pop /\ ~At("declaration")'
    BY FinishDeclarationFields
  <1>2. /\ Read' = Read /\ status = "running" /\ status' = "running"
        /\ program' = program /\ next' = next
    BY <1>1, ReturnReads
  <1>3. Read \in Seq(Visits) /\ PlacedIn(Read, context.symbols)
    BY <1>2, RunningFields
  <1>4. PlacedIn(Read, u) /\ CurrentFrame(u) = CurrentFrame(context.symbols)
    BY <1>1, <1>3, InsertKeepsPlaces DEF WaitsIn
  <1>5. Pop \in Seq(Todo) /\ Calls(Pop, depth, Callers)
    BY <1>1, <1>2, PopFields DEF At
  <1>6. next' \in 1 .. Len(program) + 1 /\ Waiting'
    BY <1>1, <1>2 DEF Structured, Typed, Waiting
  <1> HIDE DEF d, u, Pop
  <1> QED BY <1>1, <1>2, <1>4, <1>5, <1>6, RunningStructured DEF depth

\* The steps at the ends of a call.
LEMMA BeginStructured ==
  ASSUME Structured, NEW ast \in Programs, Begin(ast)
  PROVE  Structured'
  <1> DEFINE l == [at |-> "list"]
  <1>1. /\ program' = ast /\ next' = 1 /\ todo' = <<l>> /\ status' = "running"
        /\ context' = NewContext(GlobalNames(ast))
    BY DEF Begin
  <1>2. ast \in Seq(Visits) /\ Len(ast) \in Nat
    BY ProgramsAssumption
  <1>3. context' \in Context /\ context'.symbols = NewTable
    BY <1>1, <1>2, NewContexts
  <1>4. Read' = << >>
    BY <1>1, <1>2 DEF Read
  <1>5. PlacedIn(Read', context'.symbols) /\ CurrentFrame(context'.symbols).depth = 0
    BY <1>3, <1>4, NewIsPlaced
  <1>6. l \in Todo /\ l.at = "list"
    BY TodoItems
  <1> HIDE DEF l
  <1>7. todo' \in Seq(Todo) /\ Len(todo') = 1 /\ todo' # << >> /\ todo'[1] = l
    BY <1>1, <1>6
  <1>8. Calls(todo', 0, Callers)
    <2>1. ListsOf(todo') = {1}
      BY <1>6, <1>7 DEF ListsOf
    <2>2. Cardinality({1}) = 1
      BY FS_Singleton
    <2> QED BY <1>6, <1>7, <2>1, <2>2 DEF Calls
  <1>9. ~At("declaration")'
    BY <1>6, <1>7 DEF At, Last
  <1>10. 1 \in 1 .. Len(ast) + 1
    BY <1>2
  <1> QED BY <1>1, <1>2, <1>3, <1>5, <1>7, <1>8, <1>9, <1>10
          DEF Structured, Typed, Underway, Located, Waiting, Statuses

LEMMA IdleStructured ==
  ASSUME program' \in Seq(Visits), next' = 1, todo' = << >>,
         context' = NewContext({}),
         status' \in {"none", "ALLOCATION_FAILURE"}
  PROVE  Structured'
  <1>1. context' \in Context
    BY NewContexts
  <1>2. 1 \in 1 .. Len(program') + 1
    OBVIOUS
  <1> QED BY <1>1, <1>2
          DEF Structured, Typed, Underway, Located, Waiting, At, Statuses

LEMMA EndStructured ==
  ASSUME Structured, End
  PROVE  Structured'
  <1>1. /\ program' = program /\ next' = next /\ context' = context
        /\ status = "running" /\ status' = "SUCCESS" /\ todo' = << >>
    BY DEF End
  <1>2. Read' = Read
    BY <1>1 DEF Read
  <1> QED BY <1>1, <1>2
          DEF Structured, Typed, Underway, Located, Waiting, At, Statuses

\* Every step is one of those.
LEMMA StepKinds ==
  ASSUME Next
  PROVE  \/ \E ast \in Programs : Begin(ast) \/ BeginFails(ast)
         \/ Destroy \/ End \/ Failed
         \/ Operates \/ States \/ EnterBlock \/ LeaveBlock
         \/ Returns \/ FinishDeclaration
  <1>1. CASE Generate
    BY <1>1 DEF Generate, Operates, States, Failed, RefuseDeclaration, RefuseUse,
       RefuseWhile, RefuseOperator
  <1>2. CASE Finish
    BY <1>2 DEF Finish, Returns, Failed, RefuseInitialized, RefuseIf
  <1>3. CASE AllocationFails
    BY <1>3 DEF AllocationFails, Failed
  <1> QED BY <1>1, <1>2, <1>3 DEF Next, Step

LEMMA InitStructured ==
  ASSUME Init
  PROVE  Structured
  <1>1. context \in Context
    BY NewContexts DEF Init
  <1>2. program \in Seq(Visits) /\ 1 \in 1 .. Len(program) + 1
    BY DEF Init
  <1> QED BY <1>1, <1>2
          DEF Init, Structured, Typed, Underway, Located, Waiting, At, Statuses

LEMMA NextStructured ==
  ASSUME Structured, [Next]_vars
  PROVE  Structured'
  <1>1. CASE UNCHANGED vars
    <2>1. Read' = Read
      BY <1>1 DEF vars, Read
    <2> QED BY <1>1, <2>1
            DEF vars, Structured, Typed, Underway, Located, Waiting, At
  <1>2. CASE \E ast \in Programs : Begin(ast)
    BY <1>2, BeginStructured
  <1>3. CASE \E ast \in Programs : BeginFails(ast)
    BY <1>3, IdleStructured, ProgramsAssumption DEF BeginFails
  <1>4. CASE Destroy
    BY <1>4, IdleStructured DEF Destroy
  <1>5. CASE Next /\ ~Destroy /\ ~\E ast \in Programs : Begin(ast) \/ BeginFails(ast)
    BY <1>5, StepKinds, EndStructured, FailedStructured, OperatesStructured,
       StatesStructured, EnterStructured, LeaveStructured, ReturnsStructured,
       FinishDeclarationStructured
  <1> QED BY <1>1, <1>2, <1>3, <1>4, <1>5

-----------------------------------------------------------------------------
(* Names. *)

\* The declaration that waits, and the others that were read.
WaitingIn(items) ==
  IF items # << >> /\ Last(items).at = "declaration" THEN {Last(items).line} ELSE {}

DeclaredIn(text, waits) == {d \in DOMAIN text : Declares(text[d])} \ waits

Waits == WaitingIn(todo)
Declared == DeclaredIn(Read, Waits)

\* The symbols are the declarations that are over.
Bound ==
  /\ \A d \in Declared : Over(program, d, next)
  /\ SymbolsDeclared(Read, context.symbols, Declared)
  /\ DeclaredBound(Read, context.symbols, Declared)

\* Every name that was read is in scope, and declared once in its block.
Checked ==
  \A p \in 1 .. next - 1 :
    /\ Uses(program[p]) => InScope(program, program[p].name, p) # {}
    /\ Declares(program[p]) /\ p \notin Waits => ~Repeats(program, p)

Scoped == status \in {"running", "SUCCESS"} => Bound /\ Checked

\* A declaration that is over stays over.
LEMMA OverStays ==
  ASSUME NEW ast, NEW d \in Nat, NEW p \in Nat, Over(ast, d, p)
  PROVE  Over(ast, d, p + 1)
  <1>1. d + 1 .. p \subseteq d + 1 .. p + 1
    OBVIOUS
  <1>2. d < p => d < p + 1
    OBVIOUS
  <1> QED BY <1>1, <1>2 DEF Over

\* What the table has open is in scope at the next visit.
LEMMA OpenIsInScope ==
  ASSUME Structured, Scoped, status = "running", next \in DOMAIN program, NEW n,
         NEW d \in NamedIn(Read, Declared, n), OpenAt(Read, BlockAt(Read, d), next)
  PROVE  d \in InScope(program, n, next) /\ BlockAt(program, d) = BlockAt(Read, d)
  <1>1. \A e \in Declared : Over(program, e, next)
    BY DEF Scoped, Bound
  <1>2. /\ Len(Read) + 1 = next /\ DOMAIN Read = 1 .. next - 1 /\ next \in Nat \ {0}
        /\ \A p \in 1 .. next - 1 : p \in DOMAIN program /\ Read[p] = program[p]
    BY ReadFields DEF Structured
  <1>3. /\ d \in Declared /\ Read[d].name = n
        /\ d \in 1 .. next - 1 /\ Declares(Read[d])
    BY <1>2 DEF NamedIn, Declared, DeclaredIn
  <1>4. d \in DeclarationsOf(program, n, next)
    BY <1>1, <1>2, <1>3 DEF DeclarationsOf
  <1>5. program \in Seq(Visits) /\ next \in 1 .. Len(program) + 1
    BY DEF Structured, Typed
  <1>6. d \in 1 .. next /\ next \in 0 .. next /\ BlockAt(Read, d) \in Nat
    BY <1>2, <1>3, InnermostBlock
  <1>7. BlockAt(Read, d) = BlockAt(program, d)
    BY <1>5, <1>6, PartSays DEF Read
  <1>8. OpenAt(Read, BlockAt(Read, d), next) <=> OpenAt(program, BlockAt(Read, d), next)
    BY <1>5, <1>6, PartSays DEF Read
  <1> QED BY <1>4, <1>7, <1>8 DEF InScope

\* What the table answers is what the program says about the next visit.
LEMMA NameIsInScope ==
  ASSUME Structured, Scoped, status = "running", next \in DOMAIN program,
         NEW n, Resolve(context, n) # NoText
  PROVE  InScope(program, n, next) # {}
  <1>1. context \in Context /\ PlacedIn(Read, context.symbols) /\ Read \in Seq(Visits)
    BY RunningFields
  <1>2. LookupActive(context.symbols, n) # Null
    BY <1>1, ResolvedName
  <1>3. /\ Declared \in SUBSET DOMAIN Read
        /\ SymbolsDeclared(Read, context.symbols, Declared)
        /\ DeclaredBound(Read, context.symbols, Declared)
    BY DEF Scoped, Bound, Declared, DeclaredIn
  <1>4. Len(Read) + 1 = next
    BY ReadFields DEF Structured
  <1>5. PICK d \in NamedIn(Read, Declared, n) : OpenAt(Read, BlockAt(Read, d), next)
    <2> HIDE DEF Declared, Read
    <2>1. \E d \in NamedIn(Read, Declared, n) :
             OpenAt(Read, BlockAt(Read, d), Len(Read) + 1)
      BY <1>1, <1>2, <1>3, SearchesSee
    <2> QED BY <1>4, <2>1
  <1> QED BY <1>5, OpenIsInScope

\* A name that the scope does not have is not repeated: by the declaration
\* that comes next, or by one that waited since.
LEMMA NameIsNew ==
  ASSUME Structured, Scoped, status = "running",
         NEW p \in 1 .. next, p \in DOMAIN program, Waits \subseteq {p},
         BlockAt(program, p) = BlockAt(program, next),
         LookupCurrent(context.symbols, program[p].name) = Null
  PROVE  ~Repeats(program, p)
  <1> DEFINE n == program[p].name
  <1>1. context \in Context /\ PlacedIn(Read, context.symbols) /\ Read \in Seq(Visits)
    BY RunningFields
  <1>3. /\ Declared \in SUBSET DOMAIN Read
        /\ SymbolsDeclared(Read, context.symbols, Declared)
        /\ DeclaredBound(Read, context.symbols, Declared)
    BY DEF Scoped, Bound, Declared, DeclaredIn
  <1>4. /\ Len(Read) + 1 = next /\ DOMAIN Read = 1 .. next - 1 /\ next \in Nat \ {0}
        /\ \A q \in 1 .. next - 1 : q \in DOMAIN program /\ Read[q] = program[q]
        /\ DOMAIN program \subseteq Nat \ {0}
    BY ReadFields DEF Structured, Typed
  <1>5. \A d \in NamedIn(Read, Declared, n) : BlockAt(Read, d) # BlockAt(Read, next)
    <2> HIDE DEF Declared, Read, n
    <2>1. ~\E d \in NamedIn(Read, Declared, n) :
             BlockAt(Read, d) = BlockAt(Read, Len(Read) + 1)
      BY <1>1, <1>3, SearchesSee DEF n
    <2> QED BY <1>4, <2>1
  <1> SUFFICES ASSUME NEW d \in DeclarationsOf(program, n, p),
                      BlockAt(program, d) = BlockAt(program, p)
               PROVE  FALSE
    BY DEF Repeats
  <1>6. d \in 1 .. next - 1 /\ d # p /\ Declares(program[d]) /\ program[d].name = n
    BY <1>4 DEF DeclarationsOf
  <1>7. d \in NamedIn(Read, Declared, n)
    BY <1>4, <1>6 DEF NamedIn, Declared, DeclaredIn
  <1>8. BlockAt(Read, d) = BlockAt(program, d) /\ BlockAt(Read, next) = BlockAt(program, next)
    <2>1. program \in Seq(Visits) /\ next \in 1 .. Len(program) + 1
      BY DEF Structured, Typed
    <2>2. d \in 1 .. next /\ next \in 1 .. next
      BY <1>4, <1>6
    <2> QED BY <2>1, <2>2, PartSays DEF Read
  <1> QED BY <1>5, <1>7, <1>8

\* What a visit has to show when it binds no name.
LEMMA VisitScoped ==
  ASSUME Structured, Scoped, NEW v, Visit(v),
         context'.symbols.symbols = context.symbols.symbols,
         Uses(v) => Resolve(context, v.name) # NoText,
         Declares(v) => Waits = {} /\ Waits' = {next},
         ~Declares(v) => Waits' = Waits
  PROVE  Scoped'
  <1>1. /\ v \in Visits /\ status = "running" /\ status' = "running"
        /\ next \in DOMAIN program /\ program[next] = v
        /\ program' = program /\ next' = next + 1 /\ Read' = Append(Read, v)
    BY VisitReads DEF Structured
  <1>2. /\ Len(Read) = next - 1 /\ DOMAIN Read = 1 .. next - 1 /\ next \in Nat \ {0}
        /\ Read \in Seq(Visits)
    BY ReadFields DEF Structured
  <1>3. Declared' = Declared
    <2>1. DOMAIN Append(Read, v) = 1 .. next /\ Append(Read, v)[next] = v
      BY <1>1, <1>2
    <2>2. \A d \in 1 .. next - 1 : Append(Read, v)[d] = Read[d]
      BY <1>1, <1>2
    <2>3. CASE Declares(v)
      <3>1. DeclaredIn(Append(Read, v), {next}) = DeclaredIn(Read, {})
        BY <1>2, <2>1, <2>2 DEF DeclaredIn
      <3> QED BY <1>1, <2>3, <3>1 DEF Declared
    <2>4. CASE ~Declares(v)
      <3>1. \A W : DeclaredIn(Append(Read, v), W) = DeclaredIn(Read, W)
        BY <1>2, <2>1, <2>2, <2>4 DEF DeclaredIn
      <3> QED BY <1>1, <2>4, <3>1 DEF Declared
    <2> QED BY <2>3, <2>4
  <1>4. Declared \in SUBSET DOMAIN Read
    BY DEF Declared, DeclaredIn
  <1>5. Bound'
    <2>1. SymbolsDeclared(Read, context.symbols, Declared)
          /\ DeclaredBound(Read, context.symbols, Declared)
      BY <1>1 DEF Scoped, Bound
    <2>2. SymbolsDeclared(Append(Read, v), context'.symbols, Declared)
          /\ DeclaredBound(Append(Read, v), context'.symbols, Declared)
      <3> HIDE DEF Declared, Read
      <3> QED BY <1>1, <1>2, <1>4, <2>1, BoundAsBefore
    <2>3. \A d \in Declared : Over(program, d, next + 1)
      <3> TAKE d \in Declared
      <3>1. Over(program, d, next) /\ d \in Nat
        BY <1>1, <1>2, <1>4 DEF Scoped, Bound
      <3> QED BY <1>2, <3>1, OverStays
    <2> QED BY <1>1, <1>3, <2>2, <2>3 DEF Bound
  <1>6. Checked'
    <2> SUFFICES ASSUME NEW p \in 1 .. next
                 PROVE  /\ Uses(program[p]) => InScope(program, program[p].name, p) # {}
                        /\ Declares(program[p]) /\ p \notin Waits' => ~Repeats(program, p)
      <3>1. next' - 1 = next
        BY <1>1, <1>2
      <3> QED BY <1>1, <3>1 DEF Checked
    <2>1. CASE p = next
      BY <1>1, <2>1, NameIsInScope
    <2>2. CASE p # next
      <3>1. p \in 1 .. next - 1
        BY <1>2, <2>2
      <3> QED BY <1>1, <3>1 DEF Scoped, Checked
    <2> QED BY <2>1, <2>2
  <1> QED BY <1>5, <1>6 DEF Scoped

LEMMA OperatesScoped ==
  ASSUME Structured, Scoped, Operates
  PROVE  Scoped'
  <1>1. PICK v : /\ Visit(v) /\ IsExpression(v)
                 /\ v.kind = "identifier" => Resolve(context, v.name) # NoText
    BY OperatesFields
  <1>2. todo' = todo /\ context'.symbols = context.symbols
    BY OperatesFields
  <1>3. ~Declares(v) /\ (Uses(v) => v.kind = "identifier")
    BY <1>1 DEF IsExpression, Declares, Uses
  <1>4. Waits' = Waits
    BY <1>2 DEF Waits
  <1> QED BY <1>1, <1>2, <1>3, <1>4, VisitScoped

\* A block begins or ends where no declaration waits.
LEMMA BlocksScoped ==
  ASSUME Structured, Scoped, EnterBlock \/ LeaveBlock
  PROVE  Scoped'
  <1>1. CASE EnterBlock
    <2>1. /\ Visit(Block) /\ OwnsNextBlock
          /\ context'.symbols = EnterScope(context.symbols)
          /\ Owner \in Seq(Todo) /\ todo' = Append(Owner, [at |-> "list"])
      BY <1>1, EnterFields
    <2>2. Last(todo') = [at |-> "list"]
      BY <2>1, TodoItems, LastOfAppend
    <2>3. Waits = {} /\ Waits' = {}
      BY <2>1, <2>2 DEF Waits, WaitingIn, OwnsNextBlock, At
    <2>4. ~Declares(Block) /\ ~Uses(Block)
      BY DEF Block, Declares, Uses
    <2>5. context'.symbols.symbols = context.symbols.symbols
      <3>1. context \in Context /\ context.symbols \in Table
        BY <2>1, RunningFields DEF Visit, Come
      <3> QED BY <2>1, <3>1 DEF EnterScope, Table
    <2> QED BY <2>1, <2>3, <2>4, <2>5, VisitScoped
  <1>2. CASE LeaveBlock
    <2>1. /\ Visit(EndBlock) /\ At("list") /\ ~At("declaration")'
          /\ context'.symbols = ExitScope(context.symbols)
      BY <1>2, LeaveFields
    <2>2. Waits = {} /\ Waits' = {}
      BY <2>1 DEF Waits, WaitingIn, At
    <2>3. ~Declares(EndBlock) /\ ~Uses(EndBlock)
      BY DEF EndBlock, Declares, Uses
    <2>4. context'.symbols.symbols = context.symbols.symbols
      <3>1. context \in Context /\ context.symbols \in Table
        BY <2>1, RunningFields DEF Visit, Come
      <3> QED BY <2>1, <3>1 DEF ExitScope, Table
    <2> QED BY <2>1, <2>2, <2>3, <2>4, VisitScoped
  <1> QED BY <1>1, <1>2

\* The name of a declaration is bound, and that is the end of it.
LEMMA BindingScoped ==
  ASSUME Structured, Scoped, status = "running", status' = "running",
         program' = program, program \in Seq(Visits),
         NEW text \in Seq(Visits), Read' = text, PlacedIn(text, context.symbols),
         next' = Len(text) + 1,
         NEW D \in SUBSET DOMAIN text,
         SymbolsDeclared(text, context.symbols, D),
         DeclaredBound(text, context.symbols, D),
         \A d \in D : Over(program, d, next'),
         NEW line \in DOMAIN text, Declares(text[line]),
         BlockAt(text, line) = BlockAt(text, Len(text) + 1),
         Over(program, line, next'),
         \A d \in DOMAIN text : Declares(text[d]) => d \in D \cup {line},
         \A d \in D : Declares(text[d]),
         NEW ty,
         context'.symbols = Insert(context.symbols, text[line].name, ty, line),
         Waits' = {}
  PROVE  Bound'
  <1> DEFINE E == D \cup {line}
             u == Insert(context.symbols, text[line].name, ty, line)
  <1>1. SymbolsDeclared(text, u, E) /\ DeclaredBound(text, u, E)
    BY BoundWithOneMore
  <1>2. Declared' = E
    BY DEF Declared, DeclaredIn
  <1> HIDE DEF E, u
  <1>3. \A d \in E : Over(program, d, next')
    BY DEF E
  <1> QED BY <1>1, <1>2, <1>3 DEF Bound, u

LEMMA StatesScoped ==
  ASSUME Structured, Scoped, States
  PROVE  Scoped'
  <1>1. PICK v, item : /\ Visit(v) /\ v.kind \notin {"block", "end"}
                       /\ item \in Todo /\ ~IsExpression(v)
                       /\ DeclaresAtOnce(v) \/ Begins(v, item)
    BY StatesFields
  <1>2. At("list") /\ Waits = {}
    BY StatesFields DEF Waits, WaitingIn, At
  <1>3. /\ v \in Visits /\ status = "running" /\ status' = "running"
        /\ next \in DOMAIN program /\ program[next] = v
        /\ program' = program /\ next' = next + 1 /\ Read' = Append(Read, v)
    BY <1>1, VisitReads DEF Structured
  <1>4. /\ todo \in Seq(Todo) /\ context \in Context /\ Read \in Seq(Visits)
        /\ PlacedIn(Read, context.symbols)
    BY <1>3, RunningFields
  <1>5. CASE Begins(v, item)
    <2>1. Declares(v) => Waits' = {next}
      <3> SUFFICES ASSUME Declares(v) PROVE Waits' = {next}
        OBVIOUS
      <3>1. /\ todo' = Append(todo, item)
            /\ item = [at |-> "declaration", line |-> next, name |-> v.name,
                       type |-> v.type]
        BY <1>5 DEF Begins
      <3>2. item.at = "declaration" /\ item.line = next
        BY <3>1
      <3>3. Last(todo') = item /\ todo' # << >>
        BY <1>1, <1>4, <3>1, LastOfAppend
      <3> QED BY <3>2, <3>3 DEF Waits, WaitingIn
    <2>2. ~Declares(v) => Waits' = Waits
      <3> SUFFICES ASSUME ~Declares(v) PROVE Waits' = {}
        BY <1>2
      <3>1. CASE todo' = todo
        BY <1>2, <3>1 DEF Waits
      <3>2. CASE todo' = Append(todo, item)
        <4>1. Last(todo') = item
          BY <1>1, <1>4, <3>2, LastOfAppend
        <4>2. item.at # "declaration"
          BY <1>5 DEF Begins
        <4> QED BY <4>1, <4>2 DEF Waits, WaitingIn
      <3> QED BY <1>5, <3>1, <3>2 DEF Begins
    <2>3. context'.symbols = context.symbols /\ (Uses(v) => Resolve(context, v.name) # NoText)
      BY <1>5 DEF Begins
    <2> QED BY <1>1, <1>2, <2>1, <2>2, <2>3, VisitScoped
  <1>6. CASE DeclaresAtOnce(v)
    <2> DEFINE text == Append(Read, v)
    <2>1. /\ Declares(v) /\ ~v.initialized
          /\ LookupCurrent(context.symbols, v.name) = Null
          /\ context'.symbols = Insert(context.symbols, v.name, v.type, next)
          /\ todo' = todo
      BY <1>6 DEF DeclaresAtOnce
    <2>2. Waits' = {}
      BY <1>2, <2>1 DEF Waits
    <2>3. /\ Len(Read) = next - 1 /\ DOMAIN Read = 1 .. next - 1 /\ next \in Nat \ {0}
          /\ program \in Seq(Visits) /\ next \in 1 .. Len(program) + 1
      BY ReadFields DEF Structured, Typed
    <2>4. /\ text \in Seq(Visits) /\ DOMAIN text = 1 .. next /\ Len(text) = next
          /\ text[next] = v /\ \A d \in 1 .. next - 1 : text[d] = Read[d]
      BY <1>3, <1>4, <2>3
    <2>5. /\ Declared \in SUBSET DOMAIN Read /\ Declared \in SUBSET DOMAIN text
          /\ SymbolsDeclared(Read, context.symbols, Declared)
          /\ DeclaredBound(Read, context.symbols, Declared)
          /\ \A d \in Declared : Over(program, d, next)
      BY <1>3, <2>3, <2>4 DEF Scoped, Bound, Declared, DeclaredIn
    <2>6. /\ PlacedIn(text, context.symbols)
          /\ SymbolsDeclared(text, context.symbols, Declared)
          /\ DeclaredBound(text, context.symbols, Declared)
      <3> HIDE DEF Declared, Read
      <3> QED BY <1>1, <1>3, <1>4, <2>5, TextKeepsPlaces, BoundAsBefore
    <2>7. BlockAt(text, next) = BlockAt(text, Len(text) + 1)
      <3>1. BlockAt(text, Len(Read) + 2) = BlockAt(Read, Len(Read) + 1)
        BY <1>1, <1>3, <1>4, InnermostStays
      <3>2. BlockAt(text, Len(Read) + 1) = BlockAt(Read, Len(Read) + 1)
        <4>1. Len(Read) + 1 \in 1 .. Len(Read) + 1
          BY <2>3
        <4> QED BY <1>3, <1>4, <4>1, BlockAtAppend
      <3>3. Len(Read) + 2 = Len(text) + 1 /\ Len(Read) + 1 = next
        BY <2>3, <2>4
      <3> QED BY <3>1, <3>2, <3>3
    <2>8. /\ \A d \in Declared : Over(program, d, next + 1)
          /\ Over(program, next, next + 1)
      <3>1. ASSUME NEW d \in Declared PROVE Over(program, d, next + 1)
        <4>1. d \in Nat
          BY <2>3, <2>5
        <4> QED BY <2>3, <2>5, <4>1, OverStays
      <3>2. Over(program, next, next + 1)
        BY <1>3, <2>1, <2>3 DEF Over
      <3> QED BY <3>1, <3>2
    <2>9. /\ \A d \in DOMAIN text : Declares(text[d]) => d \in Declared \cup {next}
          /\ \A d \in Declared : Declares(text[d])
      BY <1>2, <2>3, <2>4 DEF Declared, DeclaredIn
    <2>10. next' = Len(text) + 1 /\ next \in DOMAIN text
      BY <1>3, <2>3, <2>4
    <2>11. Bound'
      <3>1. Read' = text /\ text[next].name = v.name /\ Declares(text[next])
        BY <1>3, <2>1, <2>4
      <3>2. \A d \in Declared : Over(program, d, next')
        BY <1>3, <2>8
      <3>3. Over(program, next, next')
        BY <1>3, <2>8
      <3> HIDE DEF text, Declared, Bound, Scoped
      <3> QED BY <1>3, <2>1, <2>2, <2>3, <2>4, <2>5, <2>6, <2>7, <2>9, <2>10,
                 <3>1, <3>2, <3>3, BindingScoped
    <2>12. ~Repeats(program, next)
      BY <1>2, <1>3, <2>1, <2>3, NameIsNew
    <2>13. Checked'
      <3> SUFFICES ASSUME NEW p \in 1 .. next
                   PROVE  /\ Uses(program[p]) => InScope(program, program[p].name, p) # {}
                          /\ Declares(program[p]) => ~Repeats(program, p)
        <4>1. next' - 1 = next
          BY <1>3, <2>3
        <4> QED BY <1>3, <4>1 DEF Checked
      <3>1. CASE p = next
        <4>1. ~Uses(v)
          BY <2>1 DEF Uses, Declares
        <4> QED BY <1>3, <2>12, <3>1, <4>1
      <3>2. CASE p # next
        <4>1. p \in 1 .. next - 1
          BY <2>3, <3>2
        <4> QED BY <1>2, <1>3, <4>1 DEF Scoped, Checked
      <3> QED BY <3>1, <3>2
    <2> QED BY <1>3, <2>11, <2>13 DEF Scoped
  <1> QED BY <1>1, <1>5, <1>6

LEMMA FinishDeclarationScoped ==
  ASSUME Structured, Scoped, FinishDeclaration
  PROVE  Scoped'
  <1> DEFINE d == Last(todo)
             line == d.line
  <1>1. /\ Return /\ ~ExpressionComes /\ At("declaration")
        /\ LookupCurrent(context.symbols, d.name) = Null
        /\ WaitsIn(Read, d)
        /\ context'.symbols = Insert(context.symbols, d.name, d.type, line)
        /\ ~At("declaration")'
    BY FinishDeclarationFields
  <1>2. /\ Read' = Read /\ status = "running" /\ status' = "running"
        /\ program' = program /\ next' = next
    BY <1>1, ReturnReads
  <1>3. Read \in Seq(Visits) /\ PlacedIn(Read, context.symbols)
    BY <1>2, RunningFields
  <1>4. /\ Len(Read) = next - 1 /\ DOMAIN Read = 1 .. next - 1 /\ next \in Nat \ {0}
        /\ \A p \in 1 .. next - 1 : p \in DOMAIN program /\ Read[p] = program[p]
        /\ program \in Seq(Visits) /\ next \in 1 .. Len(program) + 1
    BY ReadFields DEF Structured, Typed
  <1>5. Waits = {line} /\ Waits' = {}
    BY <1>1 DEF Waits, WaitingIn, At
  <1>6. /\ line \in DOMAIN Read /\ Read[line] = Declaration(d.name, d.type, TRUE)
        /\ BlockAt(Read, line) = BlockAt(Read, Len(Read) + 1)
    BY <1>1 DEF WaitsIn
  <1>7. Declares(Read[line]) /\ Read[line].name = d.name /\ program[line] = Read[line]
    BY <1>4, <1>6 DEF Declaration, Declares
  <1>8. /\ Declared \in SUBSET DOMAIN Read
        /\ SymbolsDeclared(Read, context.symbols, Declared)
        /\ DeclaredBound(Read, context.symbols, Declared)
        /\ \A e \in Declared : Over(program, e, next) /\ Declares(Read[e])
        /\ \A e \in DOMAIN Read : Declares(Read[e]) => e \in Declared \cup {line}
    BY <1>2, <1>5 DEF Scoped, Bound, Declared, DeclaredIn
  <1>9. Over(program, line, next)
    <2>1. next \in line + 1 .. next
      BY <1>4, <1>6
    <2> QED BY <1>1, <2>1 DEF Over, ExpressionComes
  <1>10. Bound'
    <2>1. next' = Len(Read) + 1
      BY <1>2, <1>4
    <2>2. context'.symbols = Insert(context.symbols, Read[line].name, d.type, line)
      BY <1>1, <1>7
    <2> DEFINE text == Read
    <2>3. Read' = text
      BY <1>2
    <2> HIDE DEF Declared, Bound, Scoped, Structured, line, d
    <2> QED BY <1>2, <1>3, <1>4, <1>5, <1>6, <1>7, <1>8, <1>9, <2>1, <2>2, <2>3,
               BindingScoped
  <1>11. ~Repeats(program, line)
    <2>1. line \in 1 .. next /\ next \in 1 .. next
      BY <1>4, <1>6
    <2>2. BlockAt(program, line) = BlockAt(program, next)
      <3>1. Len(Read) + 1 = next
        BY <1>4
      <3>2. BlockAt(Read, line) = BlockAt(program, line)
        BY <1>4, <2>1, PartSays DEF Read
      <3>3. BlockAt(Read, next) = BlockAt(program, next)
        BY <1>4, <2>1, PartSays DEF Read
      <3> QED BY <1>6, <3>1, <3>2, <3>3
    <2>3. line \in DOMAIN program
      BY <1>4, <1>6
    <2>4. LookupCurrent(context.symbols, program[line].name) = Null
      BY <1>1, <1>7
    <2> HIDE DEF line, d
    <2> QED BY <1>2, <1>5, <2>1, <2>2, <2>3, <2>4, NameIsNew
  <1>12. Checked'
    BY <1>2, <1>5, <1>11 DEF Scoped, Checked
  <1> QED BY <1>10, <1>12 DEF Scoped

\* Steps that read nothing and bind no name.
LEMMA SameScoped ==
  ASSUME Scoped, status = "running", program' = program, next' = next,
         context'.symbols = context.symbols, Waits = {}, Waits' = {}
  PROVE  Scoped'
  <1>1. Read' = Read
    BY DEF Read
  <1>2. Declared' = Declared
    BY <1>1 DEF Declared
  <1>3. Bound'
    BY <1>1, <1>2 DEF Scoped, Bound
  <1>4. Checked'
    BY DEF Scoped, Checked
  <1> QED BY <1>3, <1>4 DEF Scoped

LEMMA NextScoped ==
  ASSUME Structured, Scoped, [Next]_vars
  PROVE  Scoped'
  <1>1. CASE UNCHANGED vars
    <2>1. Read' = Read /\ Waits' = Waits
      BY <1>1 DEF vars, Read, Waits
    <2>2. Declared' = Declared
      BY <2>1 DEF Declared
    <2> QED BY <1>1, <2>1, <2>2 DEF vars, Scoped, Bound, Checked
  <1>2. CASE \E ast \in Programs : Begin(ast)
    <2>1. PICK ast \in Programs : Begin(ast)
      BY <1>2
    <2>2. /\ program' = ast /\ next' = 1 /\ todo' = <<[at |-> "list"]>>
          /\ context' = NewContext(GlobalNames(ast))
      BY <2>1 DEF Begin
    <2>3. Read' = << >>
      BY <2>2, ProgramsAssumption DEF Read
    <2>4. DOMAIN Read' = {} /\ context'.symbols.symbols = << >>
      BY <2>2, <2>3, NewContexts DEF NewTable
    <2>5. Declared' = {}
      BY <2>4 DEF Declared, DeclaredIn
    <2>6. Bound'
      BY <2>4, <2>5 DEF Bound, SymbolsDeclared, DeclaredBound
    <2>7. Checked'
      BY <2>2 DEF Checked
    <2> QED BY <2>6, <2>7 DEF Scoped
  <1>3. CASE \/ \E ast \in Programs : BeginFails(ast)
             \/ Destroy \/ Failed
    BY <1>3 DEF BeginFails, Destroy, Failed, Abort, Scoped
  <1>4. CASE End
    <2>1. Waits = {} /\ Waits' = {}
      <3>1. Last(<<[at |-> "list"]>>) = [at |-> "list"]
        BY DEF Last
      <3> QED BY <1>4, <3>1 DEF End, Waits, WaitingIn
    <2> QED BY <1>4, <2>1, SameScoped DEF End
  <1>5. CASE Returns
    <2>1. /\ Return /\ ~At("declaration") /\ context'.symbols = context.symbols
          /\ ~At("declaration")'
      BY <1>5, ReturnsFields, ReturnsStructured
    <2>2. Waits = {} /\ Waits' = {}
      BY <2>1 DEF Waits, WaitingIn, At
    <2> QED BY <2>1, <2>2, SameScoped, ReturnReads
  <1> QED BY <1>1, <1>2, <1>3, <1>4, <1>5, StepKinds, OperatesScoped, BlocksScoped,
             StatesScoped, FinishDeclarationScoped

\* When all is done, the whole program was read.
Complete == status = "SUCCESS" => next \notin DOMAIN program

LEMMA NextComplete ==
  ASSUME Structured, Complete, [Next]_vars
  PROVE  Complete'
  <1>1. CASE UNCHANGED vars
    BY <1>1 DEF vars, Complete
  <1>2. CASE \/ \E ast \in Programs : Begin(ast) \/ BeginFails(ast)
             \/ Destroy \/ Failed \/ End
    BY <1>2 DEF Begin, BeginFails, Destroy, Failed, Abort, End, Complete
  <1>3. CASE Operates \/ States \/ EnterBlock \/ LeaveBlock
    <2>1. \E v : Visit(v)
      BY <1>3, OperatesFields, StatesFields DEF EnterBlock, LeaveBlock
    <2> QED BY <2>1 DEF Visit, Come, Complete
  <1>4. CASE Returns \/ FinishDeclaration
    BY <1>4, ReturnsFields, FinishDeclarationFields DEF Return, Complete
  <1> QED BY <1>1, <1>2, <1>3, <1>4, StepKinds

LEMMA SuccessFields ==
  ASSUME Structured, Scoped, Complete, status = "SUCCESS"
  PROVE  /\ program \in Seq(Visits) /\ Read = program /\ todo = << >>
         /\ Declared = {d \in DOMAIN program : Declares(program[d])}
         /\ \A p \in DOMAIN program :
              /\ Uses(program[p]) => InScope(program, program[p].name, p) # {}
              /\ Declares(program[p]) => ~Repeats(program, p)
  <1>1. program \in Seq(Visits) /\ next \in 1 .. Len(program) + 1 /\ todo = << >>
    BY DEF Structured, Typed, Underway
  <1>2. next = Len(program) + 1
    BY <1>1 DEF Complete
  <1>3. Read = program
    <2>1. SubSeq(program, 1, Len(program)) = program
      BY <1>1
    <2>2. next - 1 = Len(program)
      BY <1>1, <1>2
    <2> QED BY <2>1, <2>2 DEF Read
  <1>4. Waits = {}
    BY <1>1 DEF Waits, WaitingIn
  <1>5. Declared = {d \in DOMAIN program : Declares(program[d])}
    BY <1>3, <1>4 DEF Declared, DeclaredIn
  <1>6. ASSUME NEW p \in DOMAIN program
        PROVE  /\ Uses(program[p]) => InScope(program, program[p].name, p) # {}
               /\ Declares(program[p]) => ~Repeats(program, p)
    <2>1. p \in 1 .. next - 1
      BY <1>1, <1>2
    <2> QED BY <1>4, <2>1 DEF Scoped, Checked
  <1> QED BY <1>1, <1>3, <1>5, <1>6

\* The theorem: a program that is generated was well scoped, whether it was
\* analyzed before or not.  (resolve_storage_name, insert_declaration.)
THEOREM GeneratedIsWellScoped == Spec => []SuccessIsWellScoped
  <1>1. Init => Structured /\ Scoped /\ Complete
    BY InitStructured DEF Init, Scoped, Complete
  <1>2. Structured /\ Scoped /\ Complete => SuccessIsWellScoped
    BY SuccessFields, InScopeIsDenoted DEF SuccessIsWellScoped
  <1> QED BY <1>1, <1>2, NextStructured, NextScoped, NextComplete, PTL DEF Spec

-----------------------------------------------------------------------------
(* Labels. *)

\* The labels of the instructions of some kinds.
LabelsIn(c, kinds) == {c[i].label : i \in {j \in DOMAIN c : c[j].kind \in kinds}}

PlacedLabels(c) == LabelsIn(c, {"LABEL"})
Targets(c) == LabelsIn(c, {"JUMP", "JUMP_IF_FALSE"})

\* The labels that a statement places in the steps that are left of it.
Owed(item) ==
  CASE item.at \in {"while", "body"} -> {item.exit}
    [] item.at = "then" -> IF item.hasElse THEN {item.no, item.end} ELSE {item.no}
    [] item.at = "else" -> {item.end}
    [] OTHER -> {}

ToCome(items) == UNION {Owed(items[i]) : i \in DOMAIN items}

\* A loop starts at a label, and the two labels of an if with else are two.
Sound(item, c) ==
  /\ item.at \in {"while", "body"} => item.start \in PlacedLabels(c)
  /\ item.at = "then" /\ item.hasElse => item.no # item.end

IsCode(c) == \E S : c \in Seq(S)

\* Every label is owed once or placed once, and made before; every jump is to
\* one that is placed or owed.  Those in loose are owed by the step itself.
Labelled(items, loose, c, next_label) ==
  LET come == loose \cup ToCome(items)
  IN  /\ IsCode(c)
      /\ \A i, j \in DOMAIN c :
           c[i].kind = "LABEL" /\ c[j].kind = "LABEL" /\ c[i].label = c[j].label
             => i = j
      /\ \A l \in come \cup PlacedLabels(c) : l \in Nat /\ l < next_label
      /\ PlacedLabels(c) \cap come = {}
      /\ Targets(c) \subseteq PlacedLabels(c) \cup come
      /\ \A i \in DOMAIN items : /\ Owed(items[i]) \cap loose = {}
                                 /\ Sound(items[i], c)
      /\ \A i, j \in DOMAIN items : i # j => Owed(items[i]) \cap Owed(items[j]) = {}

\* One more instruction.
LEMMA LabelsAppend ==
  ASSUME NEW c, IsCode(c), NEW x
  PROVE  LET new == Append(c, x)
         IN  /\ IsCode(new) /\ new = c \o <<x>>
             /\ PlacedLabels(new) =
                  PlacedLabels(c) \cup (IF x.kind = "LABEL" THEN {x.label} ELSE {})
             /\ Targets(new) =
                  Targets(c) \cup (IF x.kind \in {"JUMP", "JUMP_IF_FALSE"}
                                     THEN {x.label} ELSE {})
             /\ Len(c) + 1 \notin DOMAIN c /\ new[Len(c) + 1] = x
             /\ DOMAIN new = DOMAIN c \cup {Len(c) + 1}
             /\ \A i \in DOMAIN c : new[i] = c[i]
  <1> DEFINE new == Append(c, x)
             n == Len(c)
  <1>1. PICK S : c \in Seq(S)
    BY DEF IsCode
  <1> DEFINE T == S \cup {x}
  <1>2. c \in Seq(T)
    <2>1. \A i \in 1 .. Len(c) : c[i] \in T
      BY <1>1
    <2>2. c \in [1 .. Len(c) -> T] /\ Len(c) \in Nat
      BY <1>1, <2>1
    <2> QED BY <2>2
  <1>3. x \in T
    OBVIOUS
  <1> HIDE DEF T
  <1>4. /\ new \in Seq(T) /\ new = c \o <<x>> /\ DOMAIN c = 1 .. n /\ n \in Nat
        /\ DOMAIN new = 1 .. n + 1 /\ new[n + 1] = x
        /\ \A i \in 1 .. n : new[i] = c[i]
    BY <1>2, <1>3
  <1>5. /\ n + 1 \notin DOMAIN c /\ DOMAIN new = DOMAIN c \cup {n + 1}
        /\ \A i \in DOMAIN c : new[i] = c[i]
    BY <1>4
  <1> HIDE DEF new
  <1>6. ASSUME NEW kinds
        PROVE  LabelsIn(new, kinds) =
                 LabelsIn(c, kinds) \cup (IF x.kind \in kinds THEN {x.label} ELSE {})
    BY <1>4, <1>5 DEF LabelsIn
  <1>7. PlacedLabels(new) =
          PlacedLabels(c) \cup (IF x.kind = "LABEL" THEN {x.label} ELSE {})
    BY <1>6 DEF PlacedLabels
  <1>8. Targets(new) =
          Targets(c) \cup (IF x.kind \in {"JUMP", "JUMP_IF_FALSE"} THEN {x.label} ELSE {})
    BY <1>6 DEF Targets
  <1> QED BY <1>4, <1>5, <1>7, <1>8 DEF new, n, IsCode

\* The same in terms of what is left to do.
LEMMA ToComeAppend ==
  ASSUME NEW items \in Seq(Todo), NEW item \in Todo
  PROVE  LET more == Append(items, item)
         IN  /\ ToCome(more) = ToCome(items) \cup Owed(item)
             /\ DOMAIN more = DOMAIN items \cup {Len(items) + 1}
             /\ Len(items) + 1 \notin DOMAIN items
             /\ more[Len(items) + 1] = item
             /\ \A i \in DOMAIN items : more[i] = items[i]
  <1> DEFINE more == Append(items, item)
             n == Len(items)
  <1>1. /\ DOMAIN items = 1 .. n /\ n \in Nat /\ DOMAIN more = 1 .. n + 1
        /\ more[n + 1] = item /\ \A i \in 1 .. n : more[i] = items[i]
    OBVIOUS
  <1>2. /\ n + 1 \notin DOMAIN items /\ DOMAIN more = DOMAIN items \cup {n + 1}
        /\ \A i \in DOMAIN items : more[i] = items[i]
    BY <1>1
  <1> HIDE DEF more
  <1>3. ToCome(more) = ToCome(items) \cup Owed(item)
    BY <1>1, <1>2 DEF ToCome
  <1> QED BY <1>1, <1>2, <1>3 DEF more

\* A statement that ends leaves what it owes to the step that ends it.
LEMMA PopLabelled ==
  ASSUME NEW items \in Seq(Todo), NEW item \in Todo, NEW c, NEW k,
         Labelled(Append(items, item), {}, c, k)
  PROVE  Labelled(items, Owed(item), c, k) /\ Sound(item, c)
  <1> DEFINE more == Append(items, item)
             n == Len(items) + 1
  <1>1. /\ ToCome(more) = ToCome(items) \cup Owed(item)
        /\ DOMAIN more = DOMAIN items \cup {n} /\ n \notin DOMAIN items
        /\ more[n] = item /\ \A i \in DOMAIN items : more[i] = items[i]
    BY ToComeAppend
  <1>2. Labelled(more, {}, c, k)
    OBVIOUS
  <1> HIDE DEF more, n
  <1> QED BY <1>1, <1>2 DEF Labelled

\* One that begins takes over what the step has made for it.
LEMMA PushLabelled ==
  ASSUME NEW items \in Seq(Todo), NEW item \in Todo, NEW c, NEW k,
         Labelled(items, Owed(item), c, k), Sound(item, c)
  PROVE  Labelled(Append(items, item), {}, c, k)
  <1> DEFINE more == Append(items, item)
             n == Len(items) + 1
  <1>1. /\ ToCome(more) = ToCome(items) \cup Owed(item)
        /\ DOMAIN more = DOMAIN items \cup {n} /\ n \notin DOMAIN items
        /\ more[n] = item /\ \A i \in DOMAIN items : more[i] = items[i]
    BY ToComeAppend
  <1> HIDE DEF more, n
  <1>2. Labelled(more, {}, c, k)
    BY <1>1 DEF Labelled
  <1> QED BY <1>2 DEF more

\* A label that is made is new.
LEMMA MakeLabelled ==
  ASSUME NEW items, NEW loose, NEW c, NEW k \in Nat, Labelled(items, loose, c, k)
  PROVE  Labelled(items, loose \cup {k}, c, k + 1)
  <1> DEFINE come == loose \cup ToCome(items)
  <1>1. k \notin come \cup PlacedLabels(c)
    BY DEF Labelled
  <1>2. (loose \cup {k}) \cup ToCome(items) = come \cup {k}
    OBVIOUS
  <1>3. \A l \in (come \cup {k}) \cup PlacedLabels(c) : l \in Nat /\ l < k + 1
    BY DEF Labelled
  <1>4. \A i \in DOMAIN items : k \notin Owed(items[i])
    BY <1>1 DEF ToCome
  <1> QED BY <1>1, <1>2, <1>3, <1>4 DEF Labelled

\* A label that is placed is owed no more.
LEMMA PlaceLabelled ==
  ASSUME NEW items, NEW loose, NEW c, NEW k, NEW l \in loose,
         Labelled(items, loose, c, k), NEW rest, rest = loose \ {l}
  PROVE  /\ Labelled(items, rest, Append(c, Label(l)), k)
         /\ PlacedLabels(Append(c, Label(l))) = PlacedLabels(c) \cup {l}
  <1> DEFINE x == Label(l)
             new == Append(c, x)
             come == loose \cup ToCome(items)
             n == Len(c) + 1
  <1>1. x.kind = "LABEL" /\ x.label = l
    BY DEF Label, Control
  <1> HIDE DEF x
  <1>2. /\ IsCode(new) /\ DOMAIN new = DOMAIN c \cup {n} /\ n \notin DOMAIN c
        /\ new[n] = x /\ \A i \in DOMAIN c : new[i] = c[i]
        /\ PlacedLabels(new) = PlacedLabels(c) \cup {l}
        /\ Targets(new) = Targets(c)
    <2>1. IsCode(c)
      BY DEF Labelled
    <2>2. PlacedLabels(c) \cup (IF x.kind = "LABEL" THEN {x.label} ELSE {})
            = PlacedLabels(c) \cup {l}
      BY <1>1
    <2>3. Targets(c) \cup (IF x.kind \in {"JUMP", "JUMP_IF_FALSE"} THEN {x.label} ELSE {})
            = Targets(c)
      BY <1>1
    <2>4. /\ IsCode(new)
          /\ PlacedLabels(new) =
               PlacedLabels(c) \cup (IF x.kind = "LABEL" THEN {x.label} ELSE {})
          /\ Targets(new) = Targets(c) \cup (IF x.kind \in {"JUMP", "JUMP_IF_FALSE"}
                                               THEN {x.label} ELSE {})
      BY <2>1, LabelsAppend
    <2>5. /\ DOMAIN new = DOMAIN c \cup {n} /\ n \notin DOMAIN c
          /\ new[n] = x /\ \A i \in DOMAIN c : new[i] = c[i]
      BY <2>1, LabelsAppend
    <2> QED BY <2>2, <2>3, <2>4, <2>5
  <1> HIDE DEF new, n
  <1>3. l \notin ToCome(items) /\ l \notin PlacedLabels(c)
    BY DEF Labelled, ToCome
  <1>4. rest \cup ToCome(items) = come \ {l}
    BY <1>3
  <1>5. \A i \in DOMAIN c : c[i].kind = "LABEL" => c[i].label \in PlacedLabels(c)
    BY DEF PlacedLabels, LabelsIn
  <1>6. \A i, j \in DOMAIN new :
          new[i].kind = "LABEL" /\ new[j].kind = "LABEL" /\ new[i].label = new[j].label
            => i = j
    BY <1>1, <1>2, <1>3, <1>5 DEF Labelled
  <1>7. \A i \in DOMAIN items : Sound(items[i], new)
    BY <1>2 DEF Labelled, Sound
  <1>8. Labelled(items, rest, new, k)
    BY <1>2, <1>3, <1>4, <1>6, <1>7 DEF Labelled
  <1> QED BY <1>2, <1>8 DEF new, x

\* A jump goes to a label that is placed or owed; other instructions have none.
LEMMA EmitLabelled ==
  ASSUME NEW items, NEW loose, NEW c, NEW k, NEW x, x.kind # "LABEL",
         Labelled(items, loose, c, k),
         x.kind \in {"JUMP", "JUMP_IF_FALSE"} =>
           x.label \in PlacedLabels(c) \cup loose
  PROVE  /\ Labelled(items, loose, Append(c, x), k)
         /\ PlacedLabels(Append(c, x)) = PlacedLabels(c)
  <1> DEFINE new == Append(c, x)
             n == Len(c) + 1
  <1>1. /\ IsCode(new) /\ DOMAIN new = DOMAIN c \cup {n} /\ n \notin DOMAIN c
        /\ new[n] = x /\ \A i \in DOMAIN c : new[i] = c[i]
        /\ PlacedLabels(new) = PlacedLabels(c)
        /\ Targets(new) = Targets(c) \cup (IF x.kind \in {"JUMP", "JUMP_IF_FALSE"}
                                             THEN {x.label} ELSE {})
    <2>1. IsCode(c)
      BY DEF Labelled
    <2>2. PlacedLabels(c) \cup (IF x.kind = "LABEL" THEN {x.label} ELSE {})
            = PlacedLabels(c)
      OBVIOUS
    <2> QED BY <2>1, <2>2, LabelsAppend
  <1> HIDE DEF new, n
  <1>2. \A i, j \in DOMAIN new :
          new[i].kind = "LABEL" /\ new[j].kind = "LABEL" /\ new[i].label = new[j].label
            => i = j
    BY <1>1 DEF Labelled
  <1>3. \A i \in DOMAIN items : Sound(items[i], new)
    BY <1>1 DEF Labelled, Sound
  <1>4. Targets(new) \subseteq PlacedLabels(new) \cup (loose \cup ToCome(items))
    BY <1>1 DEF Labelled
  <1>5. Labelled(items, loose, new, k)
    BY <1>1, <1>2, <1>3, <1>4 DEF Labelled
  <1> QED BY <1>1, <1>5 DEF new

\* What a step emits comes to the end.
LEMMA Emitted ==
  ASSUME NEW c, IsCode(c), NEW x, NEW y
  PROVE  /\ c \o <<x>> = Append(c, x)
         /\ c \o <<x, y>> = Append(Append(c, x), y)
  <1>1. PICK S : c \in Seq(S)
    BY DEF IsCode
  <1> DEFINE T == S \cup {x, y}
  <1>2. c \in Seq(T)
    <2>1. \A i \in 1 .. Len(c) : c[i] \in T
      BY <1>1
    <2>2. c \in [1 .. Len(c) -> T] /\ Len(c) \in Nat
      BY <1>1, <2>1
    <2> QED BY <2>2
  <1>3. x \in T /\ y \in T
    OBVIOUS
  <1> HIDE DEF T
  <1>4. c \o <<x>> = Append(c, x)
    BY <1>2, <1>3
  <1>5. c \o <<x, y>> = Append(Append(c, x), y)
    <2> DEFINE s == c \o <<x, y>>
               t == Append(Append(c, x), y)
    <2>1. /\ s \in Seq(T) /\ Len(s) = Len(c) + 2
          /\ \A i \in 1 .. Len(c) : s[i] = c[i]
          /\ s[Len(c) + 1] = x /\ s[Len(c) + 2] = y
      BY <1>2, <1>3
    <2>2. /\ t \in Seq(T) /\ Len(t) = Len(c) + 2
          /\ \A i \in 1 .. Len(c) : t[i] = c[i]
          /\ t[Len(c) + 1] = x /\ t[Len(c) + 2] = y
      BY <1>2, <1>3
    <2> HIDE DEF s, t
    <2>3. \A i \in 1 .. Len(s) : s[i] = t[i]
      <3>1. Len(c) \in Nat
        BY <1>2
      <3> QED BY <2>1, <2>2, <3>1
    <2> QED BY <2>1, <2>2, <2>3, SeqEqual DEF s, t
  <1> QED BY <1>4, <1>5

Labelling == Labelled(todo, {}, code, context.next_label)

\* What the last item owes is left to the step that removes it.
LEMMA LastPopped ==
  ASSUME Structured, Labelling, status = "running"
  PROVE  /\ Pop \in Seq(Todo) /\ Last(todo) \in Todo /\ IsCode(code)
         /\ Labelled(Pop, Owed(Last(todo)), code, context.next_label)
         /\ Sound(Last(todo), code) /\ context.next_label \in Nat
  <1>1. todo \in Seq(Todo) /\ todo # << >> /\ context \in Context
    BY RunningFields
  <1>2. /\ Pop \in Seq(Todo) /\ Last(todo) \in Todo
        /\ todo = Append(Pop, Last(todo))
    BY <1>1, LastAndFront DEF Pop
  <1>3. Labelled(Append(Pop, Last(todo)), {}, code, context.next_label)
    BY <1>2 DEF Labelling
  <1>4. context.next_label \in Nat
    BY <1>1 DEF Context
  <1> HIDE DEF Pop
  <1> QED BY <1>2, <1>3, <1>4, PopLabelled DEF Labelled

\* An instruction without label.
IsPlain(x) == x.kind \notin {"LABEL", "JUMP", "JUMP_IF_FALSE"}

LEMMA PlainIsPlain ==
  ASSUME NEW kind \in {"ASSIGNMENT", "UNARY", "BINARY", "PRINT"},
         NEW result, NEW first, NEW second
  PROVE  IsPlain(Plain(kind, result, first, second))
  BY DEF Plain, IsPlain

LEMMA OperatesLabelled ==
  ASSUME Structured, Labelling, Operates
  PROVE  Labelling'
  <1>1. todo' = todo /\ context'.next_label = context.next_label
    BY OperatesFields
  <1>2. IsCode(code)
    BY DEF Labelling, Labelled
  <1>3. code' = code \/ \E x : IsPlain(x) /\ code' = code \o <<x>>
    BY PlainIsPlain DEF Operates, GenerateIdentifier, GenerateLiteral, GenerateUnary,
       GenerateBinary, Emit
  <1>4. CASE code' = code
    BY <1>1, <1>4 DEF Labelling
  <1>5. CASE \E x : IsPlain(x) /\ code' = code \o <<x>>
    <2>1. PICK x : IsPlain(x) /\ code' = Append(code, x)
      BY <1>2, <1>5, Emitted
    <2> QED BY <1>1, <2>1, EmitLabelled DEF Labelling, IsPlain
  <1> QED BY <1>3, <1>4, <1>5

\* A statement that owes no label yet.
LEMMA OwesNothing ==
  ASSUME NEW item, item.at \in {"list", "declaration", "assignment", "if"}
  PROVE  Owed(item) = {} /\ \A c : Sound(item, c)
  BY DEF Owed, Sound

LEMMA StatesLabelled ==
  ASSUME Structured, Labelling, States
  PROVE  Labelling'
  <1>1. /\ status = "running" /\ todo \in Seq(Todo) /\ IsCode(code)
        /\ context \in Context /\ context.next_label \in Nat /\ next \in Nat
    <2>1. status = "running"
      BY StatesFields DEF Visit, Come
    <2>2. next \in Nat
      BY ReadFields DEF Structured
    <2> QED BY <2>1, <2>2, RunningFields DEF Labelling, Labelled, Context
  <1>2. CASE GenerateWhile
    <2> DEFINE k == context.next_label
               item == [at |-> "while", start |-> k, exit |-> k + 1]
    <2>1. /\ todo' = Append(todo, item) /\ code' = code \o <<Label(k)>>
          /\ HasLabels(context, 2) /\ context' = TakeLabels(context, 2)
      BY <1>2 DEF GenerateWhile, Emit
    <2>2. context'.next_label = k + 2 /\ item \in Todo
      <3>1. context'.next_label = k + 2
        BY <1>1, <2>1, TakeEffects
      <3>2. k \in Nat /\ k + 1 \in Nat
        BY <1>1
      <3> HIDE DEF k
      <3> QED BY <3>1, <3>2, TodoItems
    <2> HIDE DEF k
    <2>3. Labelled(todo, {k}, code, k + 1)
      <3>1. Labelled(todo, {} \cup {k}, code, k + 1)
        BY <1>1, MakeLabelled DEF Labelling, k
      <3>2. {} \cup {k} = {k}
        OBVIOUS
      <3> QED BY <3>1, <3>2
    <2>4. Labelled(todo, {k, k + 1}, code, k + 2)
      <3>1. k + 1 \in Nat
        BY <1>1 DEF k
      <3>2. Labelled(todo, {k} \cup {k + 1}, code, k + 1 + 1)
        BY <2>3, <3>1, MakeLabelled
      <3>3. {k} \cup {k + 1} = {k, k + 1} /\ k + 1 + 1 = k + 2
        BY <1>1 DEF k
      <3> QED BY <3>2, <3>3
    <2>5. code' = Append(code, Label(k))
      BY <1>1, <2>1, Emitted
    <2>6. /\ Labelled(todo, {k + 1}, code', k + 2)
          /\ k \in PlacedLabels(code')
      <3> DEFINE loose == {k, k + 1}
                 rest == {k + 1}
      <3>1. rest = loose \ {k} /\ k \in loose
        BY <1>1 DEF k
      <3>2. Labelled(todo, loose, code, k + 2)
        BY <2>4
      <3> HIDE DEF loose, rest
      <3>3. /\ Labelled(todo, rest, Append(code, Label(k)), k + 2)
            /\ PlacedLabels(Append(code, Label(k))) = PlacedLabels(code) \cup {k}
        BY <3>1, <3>2, PlaceLabelled
      <3> QED BY <2>5, <3>3 DEF rest
    <2>7. Owed(item) = {k + 1} /\ Sound(item, code')
      BY <2>6 DEF Owed, Sound
    <2> HIDE DEF item
    <2>8. Labelled(Append(todo, item), {}, code', k + 2)
      BY <1>1, <2>2, <2>6, <2>7, PushLabelled
    <2> QED BY <2>1, <2>2, <2>8 DEF Labelling
  <1>3. CASE \E n \in Names : GeneratePrint(n)
    <2>1. PICK x : IsPlain(x) /\ code' = code \o <<x>>
      BY <1>3, PlainIsPlain DEF GeneratePrint, Emit
    <2>2. code' = Append(code, x)
      BY <1>1, <2>1, Emitted
    <2>3. todo' = todo /\ context' = context
      BY <1>3 DEF GeneratePrint
    <2> QED BY <2>1, <2>2, <2>3, EmitLabelled DEF Labelling, IsPlain
  <1>4. CASE \/ \E n \in Names, ty \in Types, i \in BOOLEAN : GenerateDeclaration(n, ty, i)
             \/ \E n \in Names : GenerateAssignment(n)
             \/ \E hasElse \in BOOLEAN : GenerateIf(hasElse)
    <2>1. /\ code' = code /\ context'.next_label = context.next_label
          /\ \/ todo' = todo
             \/ \E item \in Todo : /\ todo' = Append(todo, item)
                                   /\ item.at \in {"declaration", "assignment", "if"}
      <3>1. CASE \E n \in Names, ty \in Types, i \in BOOLEAN : GenerateDeclaration(n, ty, i)
        <4>1. PICK n \in Names, ty \in Types, i \in BOOLEAN : GenerateDeclaration(n, ty, i)
          BY <3>1
        <4> DEFINE d == [at |-> "declaration", line |-> next, name |-> n, type |-> ty]
        <4>2. /\ code' = code
              /\ IF i THEN todo' = Append(todo, d) /\ context' = context
                 ELSE context' = Remember(context, d) /\ todo' = todo
          BY <4>1 DEF GenerateDeclaration
        <4>3. d \in Todo /\ d.at = "declaration"
          BY <1>1, TodoItems
        <4>4. Remember(context, d).next_label = context.next_label
          BY <1>1 DEF Remember, Context
        <4> HIDE DEF d
        <4> QED BY <4>2, <4>3, <4>4
      <3>2. CASE \E n \in Names : GenerateAssignment(n)
        <4>1. PICK n \in Names : GenerateAssignment(n)
          BY <3>2
        <4> DEFINE d == [at |-> "assignment", target |-> Resolve(context, n)]
        <4>2. d \in Todo /\ d.at = "assignment"
          BY <1>1, TodoItems, ResolvedName
        <4>3. code' = code /\ context' = context /\ todo' = Append(todo, d)
          BY <4>1 DEF GenerateAssignment
        <4> HIDE DEF d
        <4> QED BY <4>2, <4>3
      <3>3. CASE \E hasElse \in BOOLEAN : GenerateIf(hasElse)
        <4>1. PICK hasElse \in BOOLEAN : GenerateIf(hasElse)
          BY <3>3
        <4> DEFINE d == [at |-> "if", hasElse |-> hasElse]
        <4>2. d \in Todo /\ d.at = "if"
          BY TodoItems
        <4>3. code' = code /\ context' = context /\ todo' = Append(todo, d)
          BY <4>1 DEF GenerateIf
        <4> HIDE DEF d
        <4> QED BY <4>2, <4>3
      <3> QED BY <1>4, <3>1, <3>2, <3>3
    <2>2. CASE todo' = todo
      BY <2>1, <2>2 DEF Labelling
    <2>3. CASE todo' # todo
      <3>1. PICK item \in Todo : /\ todo' = Append(todo, item)
                                 /\ item.at \in {"declaration", "assignment", "if"}
        BY <2>1, <2>3
      <3>2. Owed(item) = {} /\ Sound(item, code)
        BY <3>1, OwesNothing
      <3>3. Labelled(Append(todo, item), {}, code, context.next_label)
        BY <1>1, <3>2, PushLabelled DEF Labelling
      <3> QED BY <2>1, <3>1, <3>3 DEF Labelling
    <2> QED BY <2>2, <2>3
  <1> QED BY <1>2, <1>3, <1>4 DEF States

LEMMA BlocksLabelled ==
  ASSUME Structured, Labelling, EnterBlock \/ LeaveBlock
  PROVE  Labelling'
  <1> DEFINE l == [at |-> "list"]
  <1>1. l \in Todo /\ l.at = "list" /\ Owed(l) = {} /\ \A c : Sound(l, c)
    BY TodoItems, OwesNothing
  <1> HIDE DEF l
  <1>2. status = "running"
    BY DEF EnterBlock, LeaveBlock, Visit, Come
  <1>3. /\ Pop \in Seq(Todo) /\ Last(todo) \in Todo
        /\ Labelled(Pop, Owed(Last(todo)), code, context.next_label)
        /\ Sound(Last(todo), code)
    BY <1>2, LastPopped
  <1>4. CASE EnterBlock
    <2>1. /\ OwnsNextBlock /\ code' = code /\ Owner \in Seq(Todo)
          /\ context'.next_label = context.next_label
          /\ todo' = Append(Owner, l)
      BY <1>4, EnterFields DEF l
    <2>2. Labelled(Owner, {}, code, context.next_label)
      <3>1. CASE At("list")
        BY <3>1 DEF Owner, Labelling
      <3>2. CASE ~At("list")
        <4>1. Last(todo).at \in {"then", "else", "body"}
          BY <2>1, <3>2 DEF OwnsNextBlock, At
        <4> DEFINE e == EnteredItem
                   item == Last(todo)
        <4>2. /\ e \in Todo /\ e.at = item.at
              /\ item.at = "then" => /\ e.no = item.no /\ e.end = item.end
                                     /\ e.hasElse = item.hasElse
              /\ item.at = "else" => e.end = item.end
              /\ item.at = "body" => e.start = item.start /\ e.exit = item.exit
          BY <1>3, <4>1, EnteredFields DEF EnteredItem
        <4> HIDE DEF e, item, Pop
        <4>3. Owed(e) = Owed(item) /\ (Sound(item, code) => Sound(e, code))
          <5>1. item.at \in {"then", "else", "body"}
            BY <4>1 DEF item
          <5> QED BY <4>2, <5>1 DEF Owed, Sound
        <4>4. Labelled(Append(Pop, e), {}, code, context.next_label)
          BY <1>3, <4>2, <4>3, PushLabelled DEF item
        <4> QED BY <3>2, <4>4 DEF Owner, Replaced, e
      <3> QED BY <3>1, <3>2
    <2>3. Labelled(Append(Owner, l), {}, code, context.next_label)
      BY <1>1, <2>1, <2>2, PushLabelled
    <2> QED BY <2>1, <2>3 DEF Labelling
  <1>5. CASE LeaveBlock
    <2>1. /\ At("list") /\ todo' = Pop /\ code' = code
          /\ context'.next_label = context.next_label
      BY <1>5, LeaveFields
    <2>2. Owed(Last(todo)) = {}
      BY <2>1, OwesNothing DEF At
    <2> QED BY <1>3, <2>1, <2>2 DEF Labelling
  <1> QED BY <1>4, <1>5

\* A value is assigned, and the statement is over.
LEMMA AssignsLabelled ==
  ASSUME Structured, Labelling, FinishDeclaration \/ FinishAssignment
  PROVE  Labelling'
  <1>1. /\ status = "running" /\ todo' = Pop
        /\ Last(todo).at \in {"declaration", "assignment"}
        /\ \E x : IsPlain(x) /\ code' = code \o <<x>>
    BY PlainIsPlain DEF FinishDeclaration, FinishAssignment, AfterExpression,
       ExpressionDone, At, Emit
  <1>2. context'.next_label = context.next_label
    BY FinishDeclarationFields DEF FinishAssignment
  <1>3. Labelled(Pop, {}, code, context.next_label) /\ IsCode(code)
    <2>1. Owed(Last(todo)) = {}
      BY <1>1, OwesNothing
    <2> QED BY <1>1, <2>1, LastPopped
  <1>4. PICK x : IsPlain(x) /\ code' = Append(code, x)
    BY <1>1, <1>3, Emitted
  <1> HIDE DEF Pop
  <1> QED BY <1>1, <1>2, <1>3, <1>4, EmitLabelled DEF Labelling, IsPlain

\* The condition of an if: one label or two are made, and it jumps to one.
LEMMA IfLabelled ==
  ASSUME Structured, Labelling, FinishIfCondition
  PROVE  Labelling'
  <1> DEFINE k == context.next_label
             last == Last(todo)
             end == IF last.hasElse THEN k + 1 ELSE NoLabel
             item == [at |-> "then", entered |-> FALSE, hasElse |-> last.hasElse,
                      no |-> k, end |-> end]
             n == IF last.hasElse THEN 2 ELSE 1
             x == JumpIfFalse(operands[1], k)
  <1>1. /\ status = "running" /\ last.at = "if" /\ HasLabels(context, n)
        /\ todo' = Append(Pop, item) /\ context' = TakeLabels(context, n)
        /\ code' = code \o <<x>>
    BY DEF FinishIfCondition, AfterExpression, ExpressionDone, At, Emit, LabelsOfIf
  <1>2. /\ Pop \in Seq(Todo) /\ last \in Todo /\ IsCode(code) /\ k \in Nat
        /\ context \in Context
    BY <1>1, LastPopped, RunningFields
  <1>3. Labelled(Pop, {}, code, k)
    <2>1. Owed(last) = {}
      BY <1>1, OwesNothing
    <2> QED BY <1>1, <2>1, LastPopped
  <1>4. item \in Todo /\ last.hasElse \in BOOLEAN /\ n \in {1, 2}
    <2>1. last.hasElse \in BOOLEAN
      BY <1>1, <1>2, TodoFields
    <2>2. end \in Nat
      BY <1>2 DEF NoLabel
    <2> HIDE DEF last, k, end
    <2> QED BY <1>2, <2>1, <2>2, TodoItems
  <1>5. context'.next_label = k + n
    <2>1. n \in Nat
      BY <1>4
    <2> HIDE DEF n
    <2> QED BY <1>1, <1>2, <2>1, TakeEffects
  <1>6. x.kind = "JUMP_IF_FALSE" /\ x.label = k /\ code' = Append(code, x)
    BY <1>1, <1>2, Emitted DEF JumpIfFalse, Control
  <1> HIDE DEF x, k, Pop
  <1>7. Labelled(Pop, {k}, code, k + 1)
    <2>1. Labelled(Pop, {} \cup {k}, code, k + 1)
      BY <1>2, <1>3, MakeLabelled
    <2>2. {} \cup {k} = {k}
      OBVIOUS
    <2> QED BY <2>1, <2>2
  <1>8. Labelled(Pop, Owed(item), code, k + n) /\ Sound(item, code')
    <2>0. /\ item.at = "then" /\ item.no = k /\ item.hasElse = last.hasElse
          /\ item.end = end
      OBVIOUS
    <2>1. CASE last.hasElse
      <3>1. k + 1 \in Nat
        BY <1>2
      <3>2. Labelled(Pop, {k} \cup {k + 1}, code, k + 1 + 1)
        BY <1>7, <3>1, MakeLabelled
      <3>3. Owed(item) = {k} \cup {k + 1}
        BY <2>0, <2>1 DEF Owed
      <3>4. k + 1 + 1 = k + n
        BY <1>2, <2>1
      <3>5. item.no # item.end
        BY <1>2, <2>0, <2>1
      <3> QED BY <2>0, <3>2, <3>3, <3>4, <3>5 DEF Sound
    <2>2. CASE ~last.hasElse
      <3>1. Owed(item) = {k} /\ n = 1
        BY <2>0, <2>2 DEF Owed
      <3> QED BY <1>7, <2>0, <2>2, <3>1 DEF Sound
    <2> QED BY <2>1, <2>2
  <1>9. k \in Owed(item)
    <2>1. item.at = "then" /\ item.no = k
      OBVIOUS
    <2> HIDE DEF item
    <2> QED BY <2>1 DEF Owed
  <1> HIDE DEF item, n
  <1>10. Labelled(Pop, Owed(item), code', k + n)
    BY <1>6, <1>8, <1>9, EmitLabelled
  <1>11. Labelled(Append(Pop, item), {}, code', k + n)
    BY <1>2, <1>4, <1>8, <1>10, PushLabelled
  <1> QED BY <1>1, <1>5, <1>11 DEF Labelling

\* The condition of a loop: it jumps to the exit, which is still owed.
LEMMA WhileLabelled ==
  ASSUME Structured, Labelling, FinishWhileCondition
  PROVE  Labelling'
  <1> DEFINE k == context.next_label
             last == Last(todo)
             item == [at |-> "body", entered |-> FALSE, start |-> last.start,
                      exit |-> last.exit]
             x == JumpIfFalse(operands[1], last.exit)
  <1>1. /\ status = "running" /\ last.at = "while"
        /\ todo' = Append(Pop, item) /\ context' = context
        /\ code' = code \o <<x>>
    BY DEF FinishWhileCondition, AfterExpression, ExpressionDone, At, Emit
  <1>2. /\ Pop \in Seq(Todo) /\ last \in Todo /\ IsCode(code)
        /\ Labelled(Pop, Owed(last), code, k) /\ Sound(last, code)
    BY <1>1, LastPopped
  <1>3. item \in Todo
    <2>1. last.start \in Nat /\ last.exit \in Nat
      BY <1>1, <1>2, TodoFields
    <2> HIDE DEF last
    <2> QED BY <2>1, TodoItems
  <1>4. x.kind = "JUMP_IF_FALSE" /\ x.label = last.exit /\ code' = Append(code, x)
    BY <1>1, <1>2, Emitted DEF JumpIfFalse, Control
  <1> HIDE DEF x, k, Pop
  <1>5. item.at = "body" /\ item.start = last.start /\ item.exit = last.exit
    OBVIOUS
  <1> HIDE DEF item, last
  <1>6. Owed(item) = Owed(last) /\ last.exit \in Owed(last)
    BY <1>1, <1>5 DEF Owed
  <1>7. /\ Labelled(Pop, Owed(item), code', k)
        /\ PlacedLabels(code') = PlacedLabels(code)
    <2>1. x.kind # "LABEL" /\ x.label \in PlacedLabels(code) \cup Owed(last)
      BY <1>4, <1>6
    <2>2. Labelled(Pop, Owed(last), code, k)
      BY <1>2
    <2>3. /\ Labelled(Pop, Owed(last), Append(code, x), k)
          /\ PlacedLabels(Append(code, x)) = PlacedLabels(code)
      BY <2>1, <2>2, EmitLabelled
    <2> QED BY <1>4, <1>6, <2>3
  <1>8. Sound(item, code')
    BY <1>1, <1>2, <1>5, <1>7 DEF Sound
  <1>9. Labelled(Append(Pop, item), {}, code', k)
    BY <1>2, <1>3, <1>7, <1>8, PushLabelled
  <1> QED BY <1>1, <1>9 DEF Labelling, k

\* The end of a branch: the label of the other one, or of the end, is placed.
LEMMA BranchesLabelled ==
  ASSUME Structured, Labelling, FinishThen \/ FinishElse
  PROVE  Labelling'
  <1> DEFINE k == context.next_label
             last == Last(todo)
  <1>1. /\ status = "running" /\ last.at \in {"then", "else"} /\ context' = context
        /\ FinishThen => last.at = "then"
        /\ FinishElse => last.at = "else"
    BY DEF FinishThen, FinishElse, AfterBlock, Return, At
  <1>2. /\ Pop \in Seq(Todo) /\ last \in Todo /\ IsCode(code)
        /\ Labelled(Pop, Owed(last), code, k) /\ Sound(last, code)
    BY <1>1, LastPopped
  <1>3. CASE FinishThen /\ last.hasElse
    <2> DEFINE x == Jump(last.end)
               y == Label(last.no)
               item == [at |-> "else", entered |-> FALSE, end |-> last.end]
    <2>1. /\ last.at = "then" /\ code' = code \o <<x, y>>
          /\ todo' = Append(Pop, item)
      BY <1>1, <1>3 DEF FinishThen, Emit
    <2>2. item \in Todo
      <3>1. last.end \in Nat
        BY <1>2, <2>1, TodoFields
      <3> HIDE DEF last
      <3> QED BY <3>1, TodoItems
    <2>3. x.kind = "JUMP" /\ x.label = last.end
      BY DEF Jump, Control
    <2>4. code' = Append(Append(code, x), y)
      BY <1>2, <2>1, Emitted
    <2>5. Owed(item) = {last.end} /\ \A c : Sound(item, c)
      BY DEF Owed, Sound
    <2> HIDE DEF x, k, Pop, last, item
    <2>6. /\ last.end \in Owed(last) /\ last.no \in Owed(last)
          /\ Owed(item) = Owed(last) \ {last.no}
      BY <1>2, <1>3, <2>1, <2>5 DEF Owed, Sound
    <2>7. Labelled(Pop, Owed(last), Append(code, x), k)
      BY <1>2, <2>3, <2>6, EmitLabelled
    <2>8. Labelled(Pop, Owed(item), code', k)
      BY <2>4, <2>6, <2>7, PlaceLabelled
    <2>9. Labelled(Append(Pop, item), {}, code', k)
      BY <1>2, <2>2, <2>5, <2>8, PushLabelled
    <2> QED BY <1>1, <2>1, <2>9 DEF Labelling, k
  <1>4. CASE FinishElse \/ (FinishThen /\ ~last.hasElse)
    <2> DEFINE l == IF last.at = "then" THEN last.no ELSE last.end
               rest == {}
    <2>1. code' = code \o <<Label(l)>> /\ todo' = Pop
      BY <1>1, <1>4 DEF FinishThen, FinishElse, Emit
    <2>2. code' = Append(code, Label(l))
      BY <1>2, <2>1, Emitted
    <2>3. l \in Owed(last) /\ rest = Owed(last) \ {l}
      BY <1>1, <1>4 DEF Owed
    <2> HIDE DEF rest, k, Pop, last, l
    <2>4. Labelled(Pop, rest, code', k)
      BY <1>2, <2>2, <2>3, PlaceLabelled
    <2> QED BY <1>1, <2>1, <2>4 DEF Labelling, k, rest
  <1> QED BY <1>3, <1>4

\* The end of a loop: back to its start, and the exit is placed.
LEMMA LoopLabelled ==
  ASSUME Structured, Labelling, FinishBody
  PROVE  Labelling'
  <1> DEFINE k == context.next_label
             last == Last(todo)
             x == Jump(last.start)
             y == Label(last.exit)
             rest == {}
  <1>1. /\ status = "running" /\ last.at = "body" /\ context' = context
        /\ todo' = Pop /\ code' = code \o <<x, y>>
    BY DEF FinishBody, AfterBlock, Return, At, Emit
  <1>2. /\ Pop \in Seq(Todo) /\ last \in Todo /\ IsCode(code)
        /\ Labelled(Pop, Owed(last), code, k) /\ Sound(last, code)
    BY <1>1, LastPopped
  <1>3. x.kind = "JUMP" /\ x.label = last.start
    BY DEF Jump, Control
  <1>4. code' = Append(Append(code, x), y)
    BY <1>1, <1>2, Emitted
  <1> HIDE DEF x, k, Pop, last, rest
  <1>5. /\ last.exit \in Owed(last) /\ rest = Owed(last) \ {last.exit}
        /\ last.start \in PlacedLabels(code)
    BY <1>1, <1>2 DEF Owed, Sound, rest
  <1>6. Labelled(Pop, Owed(last), Append(code, x), k)
    BY <1>2, <1>3, <1>5, EmitLabelled
  <1>7. Labelled(Pop, rest, code', k)
    BY <1>4, <1>5, <1>6, PlaceLabelled
  <1> QED BY <1>1, <1>7 DEF Labelling, k, rest

\* Before the first instruction and after a failure there are no labels.
LEMMA EmptyLabelled ==
  ASSUME NEW items \in Seq(Todo), \A i \in DOMAIN items : items[i].at = "list", NEW k
  PROVE  Labelled(items, {}, << >>, k)
  <1>1. /\ \A i \in DOMAIN items : Owed(items[i]) = {} /\ Sound(items[i], << >>)
        /\ ToCome(items) = {}
    BY OwesNothing DEF ToCome
  <1>2. /\ PlacedLabels(<< >>) = {} /\ Targets(<< >>) = {} /\ DOMAIN << >> = {}
    BY DEF PlacedLabels, Targets, LabelsIn
  <1>3. IsCode(<< >>)
    <2>1. << >> \in Seq(Nat)
      OBVIOUS
    <2> QED BY <2>1 DEF IsCode
  <1> QED BY <1>1, <1>2, <1>3 DEF Labelled

LEMMA NextLabelled ==
  ASSUME Structured, Labelling, [Next]_vars
  PROVE  Labelling'
  <1>1. CASE UNCHANGED vars
    BY <1>1 DEF vars, Labelling
  <1>2. CASE \/ \E ast \in Programs : Begin(ast) \/ BeginFails(ast)
             \/ Destroy \/ Failed
    <2>1. code' = << >> /\ (todo' = << >> \/ todo' = <<[at |-> "list"]>>)
      BY <1>2 DEF Begin, BeginFails, Destroy, Failed, Abort
    <2>2. todo' \in Seq(Todo) /\ \A i \in DOMAIN todo' : todo'[i].at = "list"
      <3> DEFINE l == [at |-> "list"]
      <3>1. l \in Todo /\ l.at = "list"
        BY TodoItems
      <3> HIDE DEF l
      <3>2. todo' = << >> \/ todo' = <<l>>
        BY <2>1 DEF l
      <3>3. /\ << >> \in Seq(Todo) /\ DOMAIN << >> = {}
            /\ <<l>> \in Seq(Todo) /\ DOMAIN <<l>> = {1} /\ <<l>>[1] = l
        BY <3>1
      <3>4. CASE todo' = << >>
        BY <3>3, <3>4
      <3>5. CASE todo' = <<l>>
        BY <3>1, <3>3, <3>5
      <3> QED BY <3>2, <3>4, <3>5
    <2> QED BY <2>1, <2>2, EmptyLabelled DEF Labelling
  <1>3. CASE End
    <2> DEFINE l == [at |-> "list"]
    <2>1. /\ code' = code /\ context' = context /\ todo' = << >> /\ todo = <<l>>
      BY <1>3 DEF End
    <2>2. Labelled(<< >>, Owed(l), code, context.next_label)
      <3>1. l \in Todo /\ << >> \in Seq(Todo)
        BY TodoItems
      <3> HIDE DEF l
      <3>2. <<l>> = Append(<< >>, l)
        BY <3>1
      <3>3. Labelled(Append(<< >>, l), {}, code, context.next_label)
        BY <2>1, <3>2 DEF Labelling
      <3> QED BY <3>1, <3>3, PopLabelled
    <2>3. Owed(l) = {}
      BY OwesNothing
    <2> QED BY <2>1, <2>2, <2>3 DEF Labelling
  <1>4. CASE Returns
    BY <1>4, AssignsLabelled, IfLabelled, WhileLabelled, BranchesLabelled,
       LoopLabelled DEF Returns
  <1> QED BY <1>1, <1>2, <1>3, <1>4, StepKinds, OperatesLabelled, BlocksLabelled,
             StatesLabelled, AssignsLabelled

\* What is handed out is handed out when all is done.
Handed == output # << >> => status = "SUCCESS"

LEMMA NextHanded ==
  ASSUME Structured, Handed, [Next]_vars
  PROVE  Handed'
  <1>1. CASE UNCHANGED vars
    BY <1>1 DEF vars, Handed
  <1>2. CASE \/ \E ast \in Programs : Begin(ast) \/ BeginFails(ast)
             \/ Destroy \/ Failed \/ End
    BY <1>2 DEF Begin, BeginFails, Destroy, Failed, Abort, End, Handed
  <1>3. CASE Operates \/ States \/ EnterBlock \/ LeaveBlock
    <2>1. \E v : Visit(v)
      BY <1>3, OperatesFields, StatesFields DEF EnterBlock, LeaveBlock
    <2> QED BY <2>1 DEF Visit, Come, Handed
  <1>4. CASE Returns \/ FinishDeclaration
    BY <1>4, ReturnsFields, FinishDeclarationFields DEF Return, Handed
  <1> QED BY <1>1, <1>2, <1>3, <1>4, StepKinds

\* The theorem: whatever the program and wherever the labels end, what is
\* handed out has every label once and no jump to nowhere.  (generate_if,
\* generate_while, make_label.)
THEOREM LabelsAreResolved == Spec => []LabelsResolve
  <1>1. Init => Structured /\ Labelling /\ Handed
    <2> SUFFICES ASSUME Init PROVE Labelling /\ Handed
      BY InitStructured
    <2>1. todo = << >> /\ code = << >> /\ output = << >>
      BY DEF Init
    <2>2. << >> \in Seq(Todo) /\ \A i \in DOMAIN << >> : << >>[i].at = "list"
      OBVIOUS
    <2> QED BY <2>1, <2>2, EmptyLabelled DEF Labelling, Handed
  <1>2. ASSUME Structured, Labelling, Handed
        PROVE  LabelsResolve
    <2> SUFFICES ASSUME output # << >>
                 PROVE  /\ \A i, j \in DOMAIN code :
                             /\ code[i].kind = "LABEL" /\ code[j].kind = "LABEL"
                             /\ code[i].label = code[j].label
                             => i = j
                        /\ Targets(code) \subseteq PlacedLabels(code)
      BY DEF LabelsResolve, Targets, PlacedLabels, LabelsIn
    <2>1. todo = << >>
      BY <1>2 DEF Handed, Structured, Underway
    <2>2. ToCome(todo) = {}
      BY <2>1 DEF ToCome
    <2> QED BY <1>2, <2>2 DEF Labelling, Labelled
  <1> QED BY <1>1, <1>2, NextStructured, NextLabelled, NextHanded, PTL DEF Spec

-----------------------------------------------------------------------------
(* The table records the part that was read. *)

\* The symbols are older than a declaration that waits for its initializer.
Ahead ==
  At("declaration") =>
    \A i \in DOMAIN context.symbols.symbols :
      context.symbols.symbols[i].line < Last(todo).line

Recorded ==
  status \in {"running", "SUCCESS"} => RecordedIn(Read, context.symbols) /\ Ahead

\* A step that leaves the table alone and begins no declaration.
LEMMA QuietRecorded ==
  ASSUME Structured, Recorded, status = "running", Continues(Read, Read'),
         context'.symbols = context.symbols,
         At("declaration")' => todo' = todo
  PROVE  Recorded'
  <1>1. /\ Read \in Seq(Visits) /\ PlacedIn(Read, context.symbols)
        /\ RecordedIn(Read, context.symbols) /\ Ahead
    BY RunningFields DEF Recorded
  <1>2. RecordedIn(Read', context'.symbols)
    BY <1>1, TextKeepsRecords DEF PlacedIn
  <1>3. Ahead'
    BY <1>1 DEF Ahead, At
  <1> QED BY <1>2, <1>3 DEF Recorded

LEMMA StatesRecorded ==
  ASSUME Structured, Recorded, States
  PROVE  Recorded'
  <1> DEFINE t == context.symbols
  <1>1. At("list")
    BY StatesFields
  <1>2. PICK v, item : /\ Visit(v) /\ v.kind \notin {"block", "end"}
                       /\ item \in Todo /\ ~IsExpression(v)
                       /\ DeclaresAtOnce(v) \/ Begins(v, item)
    BY StatesFields
  <1>3. Typed
    BY DEF Structured
  <1>4. /\ v \in Visits /\ status = "running" /\ Read' = Append(Read, v)
    BY <1>2, <1>3, VisitReads
  <1>5. /\ Read \in Seq(Visits) /\ PlacedIn(Read, t) /\ RecordedIn(Read, t)
        /\ todo \in Seq(Todo)
    BY <1>4, RunningFields DEF Recorded
  <1>6. Continues(Read, Read')
    BY <1>2, <1>4 DEF Continues
  <1>7. next = Len(Read) + 1 /\ next \in Nat \ {0} /\ DOMAIN Read = 1 .. next - 1
    BY <1>3, ReadFields
  <1>8. next \in DOMAIN Read' /\ Read'[next] = v
    BY <1>4, <1>5, <1>7
  <1>9. \A i \in DOMAIN t.symbols : t.symbols[i].line < next
    BY <1>5, <1>7 DEF PlacedIn, SymbolsPlaced
  <1>10. CASE DeclaresAtOnce(v)
    <2>1. context'.symbols = Insert(t, v.name, v.type, next) /\ todo' = todo
      BY <1>10 DEF DeclaresAtOnce
    <2>2. Records(Read, t, Read', context'.symbols)
      BY <1>6, <1>8, <1>9, <2>1 DEF Records
    <2>3. RecordedIn(Read', context'.symbols)
      BY <1>5, <2>2, RecordsKept
    <2>4. Ahead'
      BY <1>1, <2>1 DEF Ahead, At
    <2> QED BY <2>3, <2>4 DEF Recorded
  <1>11. CASE Begins(v, item)
    <2>1. context'.symbols = t
      BY <1>11 DEF Begins
    <2>2. CASE todo' = todo
      BY <1>4, <1>6, <2>1, <2>2, QuietRecorded
    <2>3. CASE todo' # todo
      <3>1. Last(todo') = item
        <4>1. todo' = Append(todo, item)
          BY <1>11, <2>3 DEF Begins
        <4> QED BY <1>2, <1>5, <4>1, LastOfAppend
      <3>2. CASE item.at = "declaration"
        <4>1. item = [at |-> "declaration", line |-> next, name |-> v.name,
                      type |-> v.type]
          BY <1>11, <3>2 DEF Begins
        <4>2. item.line = next
          BY <4>1
        <4>3. Ahead'
          BY <1>9, <2>1, <3>1, <4>2 DEF Ahead
        <4>4. RecordedIn(Read', context'.symbols)
          BY <1>5, <1>6, <2>1, TextKeepsRecords DEF PlacedIn
        <4> QED BY <4>3, <4>4 DEF Recorded
      <3>3. CASE item.at # "declaration"
        <4>1. ~At("declaration")'
          BY <3>1, <3>3 DEF At
        <4> QED BY <1>4, <1>6, <2>1, <4>1, QuietRecorded
      <3> QED BY <3>2, <3>3
    <2> QED BY <2>2, <2>3
  <1> QED BY <1>2, <1>10, <1>11

LEMMA BlocksRecorded ==
  ASSUME Structured, Recorded, EnterBlock \/ LeaveBlock
  PROVE  Recorded'
  <1>1. CASE EnterBlock
    <2> DEFINE l == [at |-> "list"]
    <2>1. /\ Visit(Block) /\ context'.symbols = EnterScope(context.symbols)
          /\ Owner \in Seq(Todo) /\ todo' = Append(Owner, l)
      BY <1>1, EnterFields
    <2>2. status = "running" /\ Read' = Append(Read, Block) /\ Block \in Visits
      BY <2>1, VisitReads DEF Structured
    <2>3. /\ Read \in Seq(Visits) /\ PlacedIn(Read, context.symbols)
          /\ RecordedIn(Read, context.symbols)
      BY <2>2, RunningFields DEF Recorded
    <2>4. RecordedIn(Read', context'.symbols)
      BY <2>1, <2>2, <2>3, EnterKeepsRecords DEF Block
    <2>5. l \in Todo /\ l.at = "list"
      BY TodoItems
    <2> HIDE DEF l
    <2>6. Last(todo') = l
      BY <2>1, <2>5, LastOfAppend
    <2> QED BY <2>4, <2>5, <2>6 DEF Recorded, Ahead, At
  <1>2. CASE LeaveBlock
    <2>1. /\ Visit(EndBlock) /\ context'.symbols = ExitScope(context.symbols)
          /\ ~AtGlobal(context.symbols) /\ ~At("declaration")'
      BY <1>2, LeaveFields
    <2>2. status = "running" /\ Read' = Append(Read, EndBlock) /\ EndBlock \in Visits
      BY <2>1, VisitReads DEF Structured
    <2>3. /\ Read \in Seq(Visits) /\ PlacedIn(Read, context.symbols)
          /\ RecordedIn(Read, context.symbols)
      BY <2>2, RunningFields DEF Recorded
    <2>4. RecordedIn(Read', context'.symbols)
      BY <2>1, <2>2, <2>3, ExitKeepsRecords DEF EndBlock
    <2> QED BY <2>1, <2>4 DEF Recorded, Ahead
  <1> QED BY <1>1, <1>2

LEMMA FinishDeclarationRecorded ==
  ASSUME Structured, Recorded, FinishDeclaration
  PROVE  Recorded'
  <1> DEFINE d == Last(todo)
             t == context.symbols
  <1>1. /\ Return /\ At("declaration") /\ ~At("declaration")'
        /\ WaitsIn(Read, d)
        /\ context'.symbols = Insert(t, d.name, d.type, d.line)
    BY FinishDeclarationFields
  <1>2. Read' = Read /\ status = "running"
    BY <1>1, ReturnReads
  <1>3. /\ Read \in Seq(Visits) /\ PlacedIn(Read, t) /\ RecordedIn(Read, t)
        /\ \A i \in DOMAIN t.symbols : t.symbols[i].line < d.line
    BY <1>1, <1>2, RunningFields DEF Recorded, Ahead
  <1> HIDE DEF d, t
  <1>4. d.line \in DOMAIN Read /\ Read[d.line].type = d.type
    BY <1>1 DEF WaitsIn, Declaration
  <1>5. RecordedIn(Read, context'.symbols)
    BY <1>1, <1>3, <1>4, InsertKeepsRecords
  <1> QED BY <1>1, <1>2, <1>5 DEF Recorded, Ahead

LEMMA InitRecorded == Init => Recorded
  BY DEF Init, Recorded

\* Every step keeps the record.
LEMMA NextRecorded == Structured /\ Recorded /\ [Next]_vars => Recorded'
  <1> SUFFICES ASSUME Structured, Recorded, [Next]_vars PROVE Recorded'
    OBVIOUS
  <1>1. CASE UNCHANGED vars
    <2>1. Read' = Read
      BY <1>1 DEF vars, Read
    <2> QED BY <1>1, <2>1 DEF vars, Recorded, Ahead, At
  <1>2. CASE \E ast \in Programs : Begin(ast)
    <2>1. PICK ast \in Programs : Begin(ast)
      BY <1>2
    <2>2. /\ program' = ast /\ next' = 1 /\ todo' = <<[at |-> "list"]>>
          /\ context' = NewContext(GlobalNames(ast))
      BY <2>1 DEF Begin
    <2>3. Read' = << >> /\ context'.symbols = NewTable
      BY <2>2, ProgramsAssumption, NewContexts DEF Read
    <2>4. ~At("declaration")'
      BY <2>2 DEF At, Last
    <2> QED BY <2>3, <2>4, NewIsRecorded DEF Recorded, Ahead
  <1>3. CASE \/ \E ast \in Programs : BeginFails(ast)
             \/ Destroy \/ Failed
    BY <1>3 DEF BeginFails, Destroy, Failed, Abort, Recorded
  <1>4. CASE End
    <2>1. /\ program' = program /\ next' = next /\ context' = context
          /\ status = "running" /\ todo' = << >>
      BY <1>4 DEF End
    <2>2. Read' = Read /\ ~At("declaration")'
      BY <2>1 DEF Read, At
    <2> QED BY <2>1, <2>2, QuietRecorded DEF Continues
  <1>5. CASE Operates
    <2>1. PICK v : Visit(v) /\ IsExpression(v)
      BY <1>5, OperatesFields
    <2>2. v \in Visits /\ status = "running" /\ Read' = Append(Read, v)
      BY <2>1, VisitReads DEF Structured
    <2>3. v.kind \notin {"block", "end"}
      BY <2>1 DEF IsExpression
    <2>4. todo' = todo /\ context'.symbols = context.symbols
      BY <1>5, OperatesFields
    <2> QED BY <2>2, <2>3, <2>4, QuietRecorded DEF Continues
  <1>6. CASE Returns
    <2>1. /\ Return /\ context'.symbols = context.symbols /\ ~At("declaration")'
      BY <1>6, ReturnsFields, ReturnsStructured
    <2>2. Read' = Read /\ status = "running"
      BY <2>1, ReturnReads
    <2> QED BY <2>1, <2>2, QuietRecorded DEF Continues
  <1> QED BY <1>1, <1>2, <1>3, <1>4, <1>5, <1>6, StepKinds, StatesRecorded,
             BlocksRecorded, FinishDeclarationRecorded

\* The generator works on one program until it is done.
LEMMA StepOnProgram == Step => status = "running" /\ program' = program
  BY DEF Step, Generate, Finish, End, AllocationFails, Abort, Visit, Come, Return,
     GenerateDeclaration, RefuseDeclaration, GenerateAssignment, GeneratePrint,
     GenerateIdentifier, RefuseUse, GenerateIf, GenerateWhile, RefuseWhile,
     EnterBlock, LeaveBlock, GenerateLiteral, GenerateBinary, GenerateUnary,
     RefuseOperator, FinishDeclaration, RefuseInitialized, FinishAssignment,
     FinishIfCondition, RefuseIf, FinishWhileCondition, FinishThen, FinishElse,
     FinishBody, AfterExpression, AfterBlock, ExpressionDone

\* When a program is generated, the table is the one of its declarations.
LEMMA GeneratedTable ==
  ASSUME Structured, Scoped, Complete, Recorded, status = "SUCCESS"
  PROVE  LET D == {d \in DOMAIN program : Declares(program[d])}
             t == context.symbols
         IN  /\ PlacedIn(program, t) /\ RecordedIn(program, t)
             /\ SymbolsDeclared(program, t, D) /\ DeclaredBound(program, t, D)
  BY SuccessFields DEF Structured, Located, Scoped, Bound, Recorded

\* The invariants of names and the record, of every run of the generator.
THEOREM TableIsRecorded ==
  Spec => [](Structured /\ Scoped /\ Complete /\ Recorded)
  <1>1. Init => Structured /\ Scoped /\ Complete /\ Recorded
    BY InitStructured, InitRecorded DEF Init, Scoped, Complete
  <1> QED BY <1>1, NextStructured, NextScoped, NextComplete, NextRecorded, PTL DEF Spec

-----------------------------------------------------------------------------
(* The storage of names. *)

\* There is a binding for each symbol, to the storage in the symbol's scope.
StoredIn(c) ==
  LET symbols == c.symbols.symbols
  IN  /\ Len(c.bindings) = Len(symbols)
      /\ \A i \in DOMAIN symbols :
           c.bindings[i] =
             [symbol |-> i, storage |-> StorageName(symbols[i].name, symbols[i].scope_id)]

Stored == status \in {"running", "SUCCESS"} => StoredIn(context)

LEMMA StoredBinding ==
  ASSUME NEW c, StoredIn(c), NEW i \in DOMAIN c.symbols.symbols
  PROVE  LET s == c.symbols.symbols[i]
         IN  /\ c.bindings[i].symbol = i
             /\ c.bindings[i].storage = StorageName(s.name, s.scope_id)
  <1> DEFINE storage == StorageName(c.symbols.symbols[i].name, c.symbols.symbols[i].scope_id)
  <1>1. c.bindings[i] = [symbol |-> i, storage |-> storage]
    BY DEF StoredIn
  <1> HIDE DEF storage
  <1>2. c.bindings[i].symbol = i /\ c.bindings[i].storage = storage
    BY <1>1
  <1> QED BY <1>2 DEF storage

\* A step binds nothing, or a name that is new in its scope.
KeepsBindings ==
  /\ context'.bindings = context.bindings
  /\ context'.symbols.symbols = context.symbols.symbols

Binds(d) ==
  /\ d.line \in Nat /\ d.name \in Names /\ d.type \in Types
  /\ LookupCurrent(context.symbols, d.name) = Null
  /\ context' = Remember(context, d)

\* The symbol of a name that is new in its scope is the last one.
LEMMA RememberedIsLast ==
  ASSUME NEW c \in Context, WellFormed(c.symbols),
         NEW d, d.line \in Nat, d.name \in Names, d.type \in Types,
         LookupCurrent(c.symbols, d.name) = Null
  PROVE  LET symbols == Insert(c.symbols, d.name, d.type, d.line)
             last == Len(c.symbols.symbols) + 1
         IN  /\ LookupCurrent(symbols, d.name) = last
             /\ symbols.symbols = Append(c.symbols.symbols, symbols.symbols[last])
             /\ symbols.symbols[last].name = d.name
  <1> DEFINE t == c.symbols
             symbols == Insert(t, d.name, d.type, d.line)
             last == Len(t.symbols) + 1
  <1>1. t \in Table /\ t.symbols \in Seq(Symbol) /\ WellFormed(symbols)
    BY InsertKeepsWellFormed DEF WellFormed, Table
  <1>2. PICK s : /\ symbols.symbols = Append(t.symbols, s)
                 /\ s.name = d.name /\ s.owner = t.current
                 /\ symbols.current = t.current
    <2> DEFINE s == [name |-> d.name, type |-> d.type, line |-> d.line,
                     scope_id |-> CurrentFrame(t).id,
                     scope_depth |-> CurrentFrame(t).depth, owner |-> t.current]
    <2>1. symbols.symbols = Append(t.symbols, s) /\ symbols.current = t.current
      BY <1>1 DEF Insert, Table
    <2>2. s.name = d.name /\ s.owner = t.current
      OBVIOUS
    <2> HIDE DEF s, symbols
    <2> QED BY <2>1, <2>2
  <1>3. Holding(t, t.current, d.name) = {}
    BY LookupInScopeAnswer DEF LookupCurrent
  <1> HIDE DEF symbols
  <1>4. /\ DOMAIN symbols.symbols = 1 .. last /\ last \in Nat \ {0}
        /\ symbols.symbols[last] = s
        /\ \A i \in 1 .. last - 1 : /\ i \in DOMAIN t.symbols
                                    /\ symbols.symbols[i] = t.symbols[i]
    BY <1>1, <1>2
  <1>5. \A i \in Holding(symbols, symbols.current, d.name) : i = last
    <2> SUFFICES ASSUME NEW i \in DOMAIN symbols.symbols, i # last,
                        symbols.symbols[i].owner = t.current,
                        symbols.symbols[i].name = d.name
                 PROVE  FALSE
      BY <1>2 DEF Holding
    <2>1. i \in 1 .. last - 1
      BY <1>4
    <2>2. i \in Holding(t, t.current, d.name)
      BY <1>4, <2>1 DEF Holding
    <2> QED BY <1>3, <2>2
  <1>6. LookupCurrent(symbols, d.name) # Null
    <2>1. last \in 1 .. last
      BY <1>4
    <2>2. last \in Holding(symbols, symbols.current, d.name)
      BY <1>2, <1>4, <2>1 DEF Holding
    <2> QED BY <1>1, <2>2, LookupInScopeAnswer DEF LookupCurrent
  <1>7. LookupCurrent(symbols, d.name) = last
    <2>1. LookupCurrent(symbols, d.name) \in Holding(symbols, symbols.current, d.name)
      BY <1>1, <1>6, LookupInScopeAnswer DEF LookupCurrent
    <2> QED BY <1>5, <2>1
  <1> QED BY <1>2, <1>4, <1>7 DEF symbols

LEMMA RememberStores ==
  ASSUME NEW c \in Context, WellFormed(c.symbols), StoredIn(c),
         NEW d, d.line \in Nat, d.name \in Names, d.type \in Types,
         LookupCurrent(c.symbols, d.name) = Null
  PROVE  StoredIn(Remember(c, d))
  <1> DEFINE t == c.symbols
             symbols == Insert(t, d.name, d.type, d.line)
             last == Len(t.symbols) + 1
             b == [symbol |-> last,
                   storage |-> StorageName(d.name, symbols.symbols[last].scope_id)]
             r == Remember(c, d)
  <1>1. t.symbols \in Seq(Symbol) /\ c.bindings \in Seq(Binding)
    BY DEF WellFormed, Table, Context
  <1>2. /\ LookupCurrent(symbols, d.name) = last
        /\ symbols.symbols = Append(t.symbols, symbols.symbols[last])
        /\ symbols.symbols[last].name = d.name
    BY RememberedIsLast
  <1> HIDE DEF symbols
  <1>3. r = [c EXCEPT !.symbols = symbols, !.bindings = Append(@, b)]
    BY <1>2 DEF Remember, symbols
  <1> HIDE DEF b, r
  <1>4. r.symbols = symbols /\ r.bindings = Append(c.bindings, b)
    BY <1>3 DEF Context
  <1>5. /\ DOMAIN symbols.symbols = 1 .. last /\ last \in Nat \ {0}
        /\ \A i \in 1 .. last - 1 : /\ i \in DOMAIN t.symbols
                                    /\ symbols.symbols[i] = t.symbols[i]
        /\ Len(symbols.symbols) = last
    BY <1>1, <1>2
  <1>6. /\ Len(r.bindings) = last /\ r.bindings[last] = b
        /\ \A i \in 1 .. last - 1 : r.bindings[i] = c.bindings[i]
    BY <1>1, <1>4 DEF StoredIn
  <1>7. ASSUME NEW i \in 1 .. last
        PROVE  r.bindings[i] =
                 [symbol |-> i,
                  storage |-> StorageName(symbols.symbols[i].name, symbols.symbols[i].scope_id)]
    <2>1. CASE i = last
      BY <1>2, <1>6, <2>1 DEF b
    <2>2. CASE i # last
      <3>1. i \in 1 .. last - 1
        BY <1>5, <2>2
      <3> QED BY <1>5, <1>6, <3>1 DEF StoredIn
    <2> QED BY <2>1, <2>2
  <1> QED BY <1>4, <1>5, <1>6, <1>7 DEF StoredIn, r

LEMMA OperatesKeeps ==
  ASSUME Structured, Operates
  PROVE  KeepsBindings
  <1>1. context \in Context
    BY DEF Structured, Typed
  <1>2. context' = context \/ \E k \in Temporaries(context) : context' = TakeTemporary(context, k)
    BY DEF Operates, GenerateIdentifier, GenerateLiteral, GenerateBinary, GenerateUnary
  <1> QED BY <1>1, <1>2, TakeEffects DEF KeepsBindings

LEMMA StatesKeepsOrBinds ==
  ASSUME Structured, States
  PROVE  KeepsBindings \/ \E d : Binds(d)
  <1>1. context \in Context
    BY DEF Structured, Typed
  <1>2. ASSUME NEW n \in Names, NEW ty \in Types, NEW i \in BOOLEAN,
               GenerateDeclaration(n, ty, i)
        PROVE  KeepsBindings \/ \E d : Binds(d)
    <2> DEFINE d == [at |-> "declaration", line |-> next, name |-> n, type |-> ty]
    <2>1. CASE i
      BY <1>2, <2>1 DEF GenerateDeclaration, KeepsBindings
    <2>2. CASE ~i
      <3>1. LookupCurrent(context.symbols, n) = Null /\ context' = Remember(context, d)
        BY <1>2, <2>2 DEF GenerateDeclaration
      <3>2. next \in Nat
        BY ReadFields DEF Structured
      <3>3. d.line = next /\ d.name = n /\ d.type = ty
        OBVIOUS
      <3> HIDE DEF d
      <3>4. Binds(d)
        BY <3>1, <3>2, <3>3 DEF Binds
      <3> QED BY <3>4
    <2> QED BY <2>1, <2>2
  <1>3. CASE \/ \E n \in Names : GenerateAssignment(n) \/ GeneratePrint(n)
             \/ \E hasElse \in BOOLEAN : GenerateIf(hasElse)
    BY <1>3 DEF GenerateAssignment, GeneratePrint, GenerateIf, KeepsBindings
  <1>4. CASE GenerateWhile
    <2>1. HasLabels(context, 2) /\ context' = TakeLabels(context, 2)
      BY <1>4 DEF GenerateWhile
    <2> QED BY <1>1, <2>1, TakeEffects DEF KeepsBindings
  <1> QED BY <1>2, <1>3, <1>4 DEF States

LEMMA BlocksKeep ==
  ASSUME Structured, EnterBlock \/ LeaveBlock
  PROVE  KeepsBindings
  <1>1. context \in Context /\ context.symbols \in Table
    BY DEF Structured, Typed, Context
  <1>2. CASE EnterBlock
    BY <1>1, <1>2 DEF EnterBlock, Context, EnterScope, Table, KeepsBindings
  <1>3. CASE LeaveBlock
    BY <1>1, <1>3 DEF LeaveBlock, Context, ExitScope, Table, KeepsBindings
  <1> QED BY <1>2, <1>3

LEMMA ReturnsKeeps ==
  ASSUME Structured, Returns
  PROVE  KeepsBindings
  <1>1. context \in Context
    BY DEF Structured, Typed
  <1>2. CASE FinishIfCondition
    <2>1. HasLabels(context, LabelsOfIf) /\ context' = TakeLabels(context, LabelsOfIf)
      BY <1>2 DEF FinishIfCondition
    <2>2. LabelsOfIf \in Nat
      BY DEF LabelsOfIf
    <2> QED BY <1>1, <2>1, <2>2, TakeEffects DEF KeepsBindings
  <1>3. CASE Returns /\ ~FinishIfCondition
    BY <1>3 DEF Returns, FinishAssignment, FinishWhileCondition, FinishThen,
       FinishElse, FinishBody, AfterBlock, KeepsBindings
  <1> QED BY <1>2, <1>3

LEMMA FinishDeclarationBinds ==
  ASSUME Structured, FinishDeclaration
  PROVE  Binds(Last(todo))
  <1>1. /\ LookupCurrent(context.symbols, Last(todo).name) = Null
        /\ WaitsIn(Read, Last(todo)) /\ Last(todo).name \in Names
        /\ Last(todo).type \in Types
    BY FinishDeclarationFields
  <1>2. context' = Remember(context, Last(todo))
    BY DEF FinishDeclaration
  <1>3. Last(todo).line \in Nat
    BY <1>1, ReadFields DEF Structured, WaitsIn
  <1> QED BY <1>1, <1>2, <1>3 DEF Binds

LEMMA NextStored ==
  ASSUME Structured, Stored, [Next]_vars
  PROVE  Stored'
  <1>1. ASSUME status = "running", KeepsBindings \/ \E d : Binds(d)
        PROVE  Stored'
    <2>1. CASE KeepsBindings
      BY <1>1, <2>1 DEF KeepsBindings, Stored, StoredIn
    <2>2. ASSUME NEW d, Binds(d)
          PROVE  Stored'
      <3>1. context \in Context /\ WellFormed(context.symbols)
        BY <1>1, RunningFields
      <3>2. StoredIn(Remember(context, d))
        BY <1>1, <2>2, <3>1, RememberStores DEF Stored, Binds
      <3>3. context' = Remember(context, d)
        BY <2>2 DEF Binds
      <3>4. StoredIn(context')
        BY <3>2, <3>3
      <3> QED BY <3>4 DEF Stored, StoredIn
    <2> QED BY <1>1, <2>1, <2>2
  <1>2. CASE UNCHANGED vars
    BY <1>2 DEF vars, Stored, StoredIn
  <1>3. CASE \E ast \in Programs : Begin(ast)
    BY <1>3 DEF Begin, NewContext, NewTable, Stored, StoredIn
  <1>4. CASE \/ \E ast \in Programs : BeginFails(ast)
             \/ Destroy \/ Failed
    BY <1>4 DEF BeginFails, Destroy, Failed, Abort, Stored
  <1>5. CASE End
    BY <1>5 DEF End, Stored, StoredIn
  <1>6. CASE Operates \/ States \/ EnterBlock \/ LeaveBlock
    <2>1. \E v : Visit(v)
      BY <1>6, OperatesFields, StatesFields DEF EnterBlock, LeaveBlock
    <2>2. status = "running"
      BY <2>1 DEF Visit, Come
    <2> QED BY <1>1, <1>6, <2>2, OperatesKeeps, StatesKeepsOrBinds, BlocksKeep
  <1>7. CASE Returns \/ FinishDeclaration
    <2>1. status = "running"
      BY <1>7, ReturnsFields, FinishDeclarationFields DEF Return
    <2> QED BY <1>1, <1>7, <2>1, ReturnsKeeps, FinishDeclarationBinds
  <1> QED BY <1>2, <1>3, <1>4, <1>5, <1>6, <1>7, StepKinds

\* What was read since the declaration that waits is of its initializer.
Initializing ==
  At("declaration") =>
    \A q \in Last(todo).line + 1 .. next - 1 : IsExpression(program[q])

LEMMA NextInitializing ==
  ASSUME Structured, Initializing, [Next]_vars
  PROVE  Initializing'
  <1>1. CASE UNCHANGED vars
    BY <1>1 DEF vars, Initializing, At
  <1>2. CASE \E ast \in Programs : Begin(ast)
    <2>1. todo' = <<[at |-> "list"]>>
      BY <1>2 DEF Begin
    <2> QED BY <2>1 DEF Initializing, At, Last
  <1>3. CASE \/ \E ast \in Programs : BeginFails(ast)
             \/ Destroy \/ Failed \/ End
    BY <1>3 DEF BeginFails, Destroy, Failed, Abort, End, Initializing, At
  <1>4. CASE Operates
    <2>1. PICK v : Visit(v) /\ IsExpression(v)
      BY <1>4, OperatesFields
    <2>2. /\ program[next] = v /\ program' = program /\ next' = next + 1
          /\ next \in Nat \ {0}
      BY <2>1, VisitReads, ReadFields DEF Structured
    <2>3. todo' = todo
      BY <1>4, OperatesFields
    <2> SUFFICES ASSUME At("declaration"), NEW q \in Last(todo).line + 1 .. next
                 PROVE  IsExpression(program[q])
      BY <2>2, <2>3 DEF Initializing, At
    <2>4. Last(todo).line \in Nat
      BY ReadFields DEF Structured, Waiting, WaitsIn
    <2>5. q = next \/ q \in Last(todo).line + 1 .. next - 1
      BY <2>2, <2>4
    <2> QED BY <2>1, <2>2, <2>5 DEF Initializing
  <1>5. CASE States
    <2>1. PICK v, item : /\ Visit(v) /\ item \in Todo
                         /\ DeclaresAtOnce(v) \/ Begins(v, item)
      BY <1>5, StatesFields
    <2>2. /\ status = "running" /\ next' = next + 1 /\ next \in Nat \ {0}
          /\ At("list")
      BY <1>5, <2>1, VisitReads, ReadFields, StatesFields DEF Structured
    <2>3. CASE todo' = todo
      BY <2>2, <2>3 DEF At, Initializing
    <2>4. CASE todo' # todo
      <3>1. Begins(v, item) /\ todo' = Append(todo, item)
        BY <2>1, <2>4 DEF DeclaresAtOnce, Begins
      <3>2. Last(todo') = item
        BY <2>1, <2>2, <3>1, RunningFields, LastOfAppend
      <3>3. item.at = "declaration" => item.line = next
        <4> SUFFICES ASSUME item.at = "declaration" PROVE item.line = next
          OBVIOUS
        <4>1. item = [at |-> "declaration", line |-> next, name |-> v.name,
                      type |-> v.type]
          BY <3>1 DEF Begins
        <4> QED BY <4>1
      <3> QED BY <2>2, <3>2, <3>3 DEF Initializing, At
    <2> QED BY <2>3, <2>4
  <1>6. CASE EnterBlock
    <2>1. Owner \in Seq(Todo) /\ todo' = Append(Owner, [at |-> "list"])
      BY <1>6, EnterFields
    <2>2. Last(todo') = [at |-> "list"]
      BY <2>1, TodoItems, LastOfAppend
    <2> QED BY <2>2 DEF Initializing, At
  <1>7. CASE LeaveBlock \/ Returns \/ FinishDeclaration
    <2>1. ~At("declaration")'
      BY <1>7, LeaveFields, ReturnsStructured, FinishDeclarationFields
    <2> QED BY <2>1 DEF Initializing
  <1> QED BY <1>1, <1>2, <1>3, <1>4, <1>5, <1>6, <1>7, StepKinds

\* The storage of the declaration that n denotes at p.
DenotedStorage(n, p) ==
  StorageName(n, Ordinal(program, BlockAt(program, Denoted(program, n, p))))

\* A name that is in scope resolves to the storage of what it denotes.
LEMMA NameIsStored ==
  ASSUME Structured, Scoped, Stored, Initializing, status = "running",
         next \in DOMAIN program, At("list") \/ IsExpression(program[next]),
         NEW n, InScope(program, n, next) # {}
  PROVE  Resolve(context, n) = DenotedStorage(n, next)
  <1> DEFINE t == context.symbols
             e == Denoted(program, n, next)
             i == LookupActive(t, n)
  <1>1. PlacedIn(Read, t) /\ Read \in Seq(Visits) /\ context \in Context
    BY RunningFields
  <1>2. /\ Declared \in SUBSET DOMAIN Read
        /\ SymbolsDeclared(Read, t, Declared) /\ DeclaredBound(Read, t, Declared)
    BY DEF Scoped, Bound, Declared, DeclaredIn
  <1>3. /\ Len(Read) + 1 = next /\ DOMAIN Read = 1 .. next - 1 /\ next \in Nat \ {0}
        /\ \A p \in 1 .. next - 1 : p \in DOMAIN program /\ Read[p] = program[p]
        /\ program \in Seq(Visits) /\ next \in 1 .. Len(program) + 1
    BY ReadFields DEF Structured, Typed
  <1>4. /\ e \in InScope(program, n, next)
        /\ \A d \in InScope(program, n, next) : BlockAt(program, d) <= BlockAt(program, e)
    BY <1>3, DenotedIsInnermost
  <1> HIDE DEF e
  <1>5. /\ e \in 1 .. next - 1 /\ Declares(program[e]) /\ program[e].name = n
        /\ Over(program, e, next) /\ OpenAt(program, BlockAt(program, e), next)
    BY <1>3, <1>4 DEF InScope, DeclarationsOf
  <1>6. e \notin Waits
    <2> SUFFICES ASSUME At("declaration"), e = Last(todo).line PROVE FALSE
      BY DEF Waits, WaitingIn, At
    <2>1. Read[e] = Declaration(Last(todo).name, Last(todo).type, TRUE)
      BY DEF Structured, Waiting, WaitsIn
    <2>2. program[e].initialized
      BY <1>3, <1>5, <2>1 DEF Declaration
    <2>3. \A q \in e + 1 .. next - 1 : IsExpression(program[q])
      BY DEF Initializing
    <2>4. IsExpression(program[next])
      BY DEF At
    <2>5. PICK q \in e + 1 .. next : q \notin DOMAIN program \/ ~IsExpression(program[q])
      BY <1>5, <2>2 DEF Over
    <2>6. q = next \/ (q \in e + 1 .. next - 1 /\ q \in 1 .. next - 1)
      BY <1>3, <1>5
    <2>7. q \in DOMAIN program
      BY <1>3, <2>6
    <2> QED BY <2>3, <2>4, <2>5, <2>6, <2>7
  <1>7. e \in NamedIn(Read, Declared, n)
    BY <1>3, <1>5, <1>6 DEF NamedIn, Declared, DeclaredIn
  <1>8. /\ BlockAt(Read, e) = BlockAt(program, e)
        /\ BlockAt(Read, e) \in 0 .. e - 1
        /\ OpenAt(Read, BlockAt(Read, e), next)
        /\ Ordinal(Read, BlockAt(Read, e)) = Ordinal(program, BlockAt(program, e))
    <2>1. e \in 1 .. next /\ next \in 0 .. next
      BY <1>3, <1>5
    <2>2. BlockAt(Read, e) = BlockAt(program, e)
      BY <1>3, <2>1, PartSays DEF Read
    <2>3. BlockAt(Read, e) \in 0 .. e - 1
      BY <2>1, <1>1, InnermostBlock
    <2>4. BlockAt(Read, e) \in Nat /\ BlockAt(Read, e) \in 0 .. next
      BY <2>1, <2>3
    <2>5. OpenAt(Read, BlockAt(Read, e), next) <=> OpenAt(program, BlockAt(Read, e), next)
      BY <1>3, <2>1, <2>4, PartSays DEF Read
    <2>6. Ordinal(Read, BlockAt(Read, e)) = Ordinal(program, BlockAt(Read, e))
      BY <1>3, <2>4, PartSays DEF Read
    <2> QED BY <1>5, <2>2, <2>3, <2>5, <2>6
  <1>9. \A d \in NamedIn(Read, Declared, n) :
          OpenAt(Read, BlockAt(Read, d), next) => BlockAt(Read, d) <= BlockAt(Read, e)
    <2> TAKE d \in NamedIn(Read, Declared, n)
    <2> HAVE OpenAt(Read, BlockAt(Read, d), next)
    <2>1. d \in InScope(program, n, next) /\ BlockAt(program, d) = BlockAt(Read, d)
      BY OpenIsInScope
    <2> QED BY <1>4, <1>8, <2>1
  <1> HIDE DEF i, t
  <1>10. /\ i \in DOMAIN t.symbols /\ i # Null /\ t.symbols[i].name = n
         /\ t.symbols[i].scope_id = Ordinal(Read, BlockAt(Read, e))
    <2> DEFINE text == Read
               D == Declared
    <2>1. Len(text) + 1 = next
      BY <1>3
    <2> HIDE DEF text, D
    <2>2. /\ text \in Seq(Visits) /\ PlacedIn(text, t) /\ D \in SUBSET DOMAIN text
          /\ SymbolsDeclared(text, t, D) /\ DeclaredBound(text, t, D)
          /\ e \in NamedIn(text, D, n)
          /\ OpenAt(text, BlockAt(text, e), Len(text) + 1)
      BY <1>1, <1>2, <1>7, <1>8, <2>1 DEF text, D
    <2>3. \A d \in NamedIn(text, D, n) :
            OpenAt(text, BlockAt(text, d), Len(text) + 1)
              => BlockAt(text, d) <= BlockAt(text, e)
      BY <1>9, <2>1 DEF text, D
    <2>4. LET j == LookupActive(t, n)
          IN  /\ j \in DOMAIN t.symbols /\ j # Null
              /\ t.symbols[j].name = n
              /\ t.symbols[j].scope_id = Ordinal(text, BlockAt(text, e))
      BY <2>2, <2>3, ActiveIsInnermost
    <2> QED BY <2>4 DEF i, text
  <1>11. /\ DOMAIN context.bindings = DOMAIN t.symbols /\ i \in Nat
         /\ \A j \in DOMAIN t.symbols : context.bindings[j].symbol = j
         /\ context.bindings[i].storage = StorageName(n, t.symbols[i].scope_id)
    <2>1. context.bindings \in Seq(Binding) /\ t.symbols \in Seq(Symbol)
      BY <1>1 DEF Context, PlacedIn, WellFormed, Table, t
    <2>2. Len(context.bindings) = Len(t.symbols)
      BY DEF Stored, StoredIn, t
    <2>3. DOMAIN context.bindings = DOMAIN t.symbols /\ i \in Nat
      BY <1>10, <2>1, <2>2
    <2>4. \A j \in DOMAIN t.symbols : context.bindings[j].symbol = j
      BY StoredBinding DEF Stored, t
    <2>5. context.bindings[i].storage = StorageName(n, t.symbols[i].scope_id)
      <3>1. StoredIn(context)
        BY DEF Stored
      <3>2. i \in DOMAIN context.symbols.symbols /\ context.symbols.symbols[i].name = n
        BY <1>10 DEF t
      <3> QED BY <3>1, <3>2, StoredBinding DEF t
    <2> QED BY <2>3, <2>4, <2>5
  <1>12. BindingsOf(context, i) = {i}
    BY <1>10, <1>11 DEF BindingsOf
  <1>13. First({i}) = i
    BY <1>11 DEF First
  <1>14. Resolve(context, n) = context.bindings[i].storage
    BY <1>10, <1>12, <1>13 DEF Resolve, i, t
  <1> QED BY <1>8, <1>10, <1>11, <1>14 DEF DenotedStorage, e

\* A name that the scope has is repeated, by the declaration that comes next
\* or by the one that waits.
LEMMA NameIsRepeated ==
  ASSUME Structured, Scoped, status = "running",
         NEW p \in 1 .. next, p \in DOMAIN program, Declares(program[p]),
         \A d \in Declared : d < p,
         BlockAt(program, p) = BlockAt(program, next),
         LookupCurrent(context.symbols, program[p].name) # Null
  PROVE  Repeats(program, p)
  <1> DEFINE n == program[p].name
  <1>1. PlacedIn(Read, context.symbols) /\ Read \in Seq(Visits)
    BY RunningFields
  <1>2. /\ Declared \in SUBSET DOMAIN Read
        /\ SymbolsDeclared(Read, context.symbols, Declared)
        /\ DeclaredBound(Read, context.symbols, Declared)
    BY DEF Scoped, Bound, Declared, DeclaredIn
  <1>3. /\ Len(Read) + 1 = next /\ DOMAIN Read = 1 .. next - 1 /\ next \in Nat \ {0}
        /\ \A q \in 1 .. next - 1 : q \in DOMAIN program /\ Read[q] = program[q]
        /\ program \in Seq(Visits) /\ next \in 1 .. Len(program) + 1
    BY ReadFields DEF Structured, Typed
  <1>4. PICK d \in NamedIn(Read, Declared, n) : BlockAt(Read, d) = BlockAt(Read, next)
    <2> HIDE DEF Declared, Read, n
    <2>1. \E d \in NamedIn(Read, Declared, n) :
             BlockAt(Read, d) = BlockAt(Read, Len(Read) + 1)
      BY <1>1, <1>2, SearchesSee DEF n
    <2> QED BY <1>3, <2>1
  <1>5. /\ d \in Declared /\ d \in 1 .. next - 1 /\ d < p
        /\ Declares(program[d]) /\ program[d].name = n
    BY <1>3, <1>4 DEF NamedIn, Declared, DeclaredIn
  <1>6. BlockAt(Read, d) = BlockAt(program, d) /\ BlockAt(Read, next) = BlockAt(program, next)
    <2>1. d \in 1 .. next /\ next \in 1 .. next
      BY <1>3, <1>5
    <2> QED BY <1>3, <2>1, PartSays DEF Read
  <1>7. Over(program, d, p)
    <2>1. p \in d + 1 .. p
      BY <1>3, <1>5
    <2>2. ~IsExpression(program[p])
      BY DEF Declares, IsExpression
    <2> QED BY <2>1, <2>2 DEF Over
  <1>8. d \in DeclarationsOf(program, n, p)
    BY <1>3, <1>5, <1>7 DEF DeclarationsOf
  <1> QED BY <1>4, <1>6, <1>8 DEF Repeats

LEMMA StorageIsText ==
  ASSUME NEW n \in Names, NEW id
  PROVE  StorageName(n, id) # NoText
  BY NoLiteralAssumption DEF StorageName, NoText

\* The names of the program are what a completed analysis has seen to.
NamesInOrder ==
  \A p \in DOMAIN program :
    /\ Uses(program[p]) => InScope(program, program[p].name, p) # {}
    /\ Declares(program[p]) => ~Repeats(program, p)

\* The step by which the generator gives up with INTERNAL_ERROR.
Refuses ==
  \/ \E n \in Names : RefuseUse(n) \/ \E ty \in Types : RefuseDeclaration(n, ty)
  \/ RefuseInitialized \/ RefuseOperator \/ RefuseWhile \/ RefuseIf

LEMMA InternalErrorRefuses ==
  ASSUME Step, status' = "INTERNAL_ERROR"
  PROVE  Refuses
  <1>1. status = "running"
    BY StepOnProgram
  <1>2. CASE Generate
    BY <1>1, <1>2
    DEF Generate, Refuses, Visit, GenerateDeclaration, GenerateAssignment,
        GeneratePrint, GenerateIdentifier, GenerateIf, GenerateWhile, EnterBlock,
        LeaveBlock, GenerateLiteral, GenerateBinary, GenerateUnary
  <1>3. CASE Finish
    BY <1>1, <1>3
    DEF Finish, Refuses, Return, AfterExpression, AfterBlock, FinishDeclaration,
        FinishAssignment, FinishIfCondition, FinishWhileCondition, FinishThen,
        FinishElse, FinishBody
  <1>4. CASE End \/ AllocationFails
    BY <1>4 DEF End, AllocationFails, Abort
  <1> QED BY <1>2, <1>3, <1>4 DEF Step

\* No use of a name is refused when the names are in order.
LEMMA UsesAreResolved ==
  ASSUME Structured, Scoped, Stored, Initializing, NamesInOrder,
         NEW n \in Names, RefuseUse(n)
  PROVE  FALSE
  <1>1. /\ status = "running" /\ next \in DOMAIN program
        /\ Uses(program[next]) /\ program[next].name = n
        /\ At("list") \/ IsExpression(program[next])
        /\ Resolve(context, n) = NoText
    BY DEF RefuseUse, Come, Uses, IsExpression, Assignment, PrintOf, Identifier
  <1>2. InScope(program, n, next) # {}
    BY <1>1 DEF NamesInOrder
  <1>3. Resolve(context, n) = DenotedStorage(n, next)
    BY <1>1, <1>2, NameIsStored
  <1> QED BY <1>1, <1>3, StorageIsText DEF DenotedStorage

\* Nor a declaration.
LEMMA DeclarationsAreNew ==
  ASSUME Structured, Scoped, NamesInOrder,
         NEW n \in Names, NEW ty \in Types, RefuseDeclaration(n, ty)
  PROVE  FALSE
  <1>1. /\ status = "running" /\ next \in DOMAIN program
        /\ Declares(program[next]) /\ program[next].name = n
        /\ LookupCurrent(context.symbols, n) # Null
    BY DEF RefuseDeclaration, Come, Declares, Declaration
  <1>2. DOMAIN Read = 1 .. next - 1 /\ next \in Nat \ {0} /\ next \in 1 .. next
    BY ReadFields DEF Structured
  <1>3. \A d \in Declared : d < next
    BY <1>2 DEF Declared, DeclaredIn
  <1>4. Repeats(program, next)
    BY <1>1, <1>2, <1>3, NameIsRepeated
  <1> QED BY <1>1, <1>4 DEF NamesInOrder

LEMMA InitializedAreNew ==
  ASSUME Structured, Scoped, Initializing, NamesInOrder, RefuseInitialized
  PROVE  FALSE
  <1> DEFINE d == Last(todo)
             line == d.line
  <1>1. /\ status = "running" /\ At("declaration")
        /\ LookupCurrent(context.symbols, d.name) # Null
    BY DEF RefuseInitialized, ExpressionDone
  <1>2. WaitsIn(Read, d) /\ Waits = {line}
    BY <1>1 DEF Structured, Waiting, Waits, WaitingIn, At
  <1>3. /\ Len(Read) + 1 = next /\ DOMAIN Read = 1 .. next - 1 /\ next \in Nat \ {0}
        /\ \A q \in 1 .. next - 1 : q \in DOMAIN program /\ Read[q] = program[q]
        /\ program \in Seq(Visits) /\ next \in 1 .. Len(program) + 1
    BY ReadFields DEF Structured, Typed
  <1>4. /\ line \in 1 .. next - 1 /\ BlockAt(Read, line) = BlockAt(Read, next)
        /\ Read[line] = Declaration(d.name, d.type, TRUE)
    BY <1>2, <1>3 DEF WaitsIn
  <1>5. /\ line \in DOMAIN program /\ Declares(program[line])
        /\ program[line].name = d.name
    BY <1>3, <1>4 DEF Declares, Declaration
  <1>6. BlockAt(program, line) = BlockAt(program, next)
    <2>1. line \in 1 .. next /\ next \in 1 .. next
      BY <1>3, <1>4
    <2>2. BlockAt(Read, line) = BlockAt(program, line)
      BY <1>3, <2>1, PartSays DEF Read
    <2>3. BlockAt(Read, next) = BlockAt(program, next)
      BY <1>3, <2>1, PartSays DEF Read
    <2> QED BY <1>4, <2>2, <2>3
  <1>7. ASSUME NEW e \in Declared
        PROVE  e < line
    <2>1. e \in 1 .. next - 1 /\ Declares(program[e]) /\ e # line
      BY <1>2, <1>3 DEF Declared, DeclaredIn
    <2>2. e \notin line + 1 .. next - 1
      BY <1>1, <2>1 DEF Initializing, Declares, IsExpression
    <2> QED BY <1>4, <2>1, <2>2
  <1>8. line \in 1 .. next
    BY <1>3, <1>4
  <1> HIDE DEF line, d
  <1>9. Repeats(program, line)
    BY <1>1, <1>5, <1>6, <1>7, <1>8, NameIsRepeated
  <1> QED BY <1>5, <1>9 DEF NamesInOrder

\* So the generator refuses such a program only when numbers are used up.
LEMMA RefusesOnlyExhausted ==
  ASSUME Structured, Scoped, Stored, Initializing, NamesInOrder,
         Step, status' = "INTERNAL_ERROR"
  PROVE  /\ context' = context
         /\ Temporaries(context) = {} \/ context.next_label + 1 >= SizeMax
  <1>1. Refuses
    BY InternalErrorRefuses
  <1>2. RefuseOperator \/ RefuseWhile \/ RefuseIf
    BY <1>1, UsesAreResolved, DeclarationsAreNew, InitializedAreNew DEF Refuses
  <1>3. context.next_label \in Nat /\ SizeMax \in Nat
    BY SizeMaxAssumption DEF Structured, Typed, Context
  <1>4. CASE RefuseOperator
    BY <1>4 DEF RefuseOperator, Abort
  <1>5. CASE RefuseWhile
    BY <1>3, <1>5 DEF RefuseWhile, Abort, HasLabels
  <1>6. CASE RefuseIf
    <2>1. ~HasLabels(context, LabelsOfIf) /\ LabelsOfIf \in 1 .. 2 /\ context' = context
      BY <1>6 DEF RefuseIf, Abort, LabelsOfIf
    <2> QED BY <1>3, <2>1 DEF HasLabels
  <1> QED BY <1>2, <1>4, <1>5, <1>6

\* The invariants of names and their storage, of every run of the generator.
THEOREM StorageIsKept == Spec => [](Structured /\ Scoped /\ Stored /\ Initializing)
  <1>1. Init => Structured /\ Scoped /\ Stored /\ Initializing
    BY InitStructured DEF Init, Scoped, Stored, Initializing, At
  <1> QED BY <1>1, NextStructured, NextScoped, NextStored, NextInitializing, PTL DEF Spec

-----------------------------------------------------------------------------
(* The uses of names. *)

\* What was emitted for the last visit, or is kept for it, is the storage of
\* what its name denotes there.
LastUse ==
  LET p == next - 1
      v == program[p]
  IN  /\ v.kind = "identifier" /\ operands # << >>
           => Last(operands) = DenotedStorage(v.name, p)
      /\ v.kind = "assignment" /\ At("assignment")
           => Last(todo).target = DenotedStorage(v.name, p)
      /\ v.kind = "print" => At("list") /\ Last(code).first = DenotedStorage(v.name, p)

Used ==
  /\ operands \in Seq(Text) /\ IsCode(code)
  /\ status = "running" /\ next > 1 => LastUse

\* A name that resolves does so to the storage of what it denotes.
LEMMA ResolvedIsDenoted ==
  ASSUME Structured, Scoped, Stored, Initializing, NEW v, Visit(v),
         At("list") \/ IsExpression(v), Resolve(context, v.name) # NoText
  PROVE  Resolve(context, v.name) = DenotedStorage(v.name, next)
  <1>1. status = "running" /\ next \in DOMAIN program /\ program[next] = v
    BY DEF Visit, Come
  <1>2. InScope(program, v.name, next) # {}
    BY <1>1, NameIsInScope
  <1> QED BY <1>1, <1>2, NameIsStored

\* What a visit has to say for the last use to be right after it.
LEMMA VisitUsed ==
  ASSUME Structured, NEW v, Visit(v), operands' \in Seq(Text), IsCode(code)',
         v.kind = "identifier" => Last(operands') = DenotedStorage(v.name, next),
         v.kind = "assignment" => Last(todo').target = DenotedStorage(v.name, next),
         v.kind = "print" => At("list")' /\ Last(code').first = DenotedStorage(v.name, next)
  PROVE  Used'
  <1>1. program[next] = v /\ program' = program /\ next' = next + 1 /\ next \in Nat \ {0}
    BY VisitReads, ReadFields DEF Structured
  <1>2. next' - 1 = next /\ program'[next' - 1] = v
    BY <1>1
  <1>3. \A n, p : DenotedStorage(n, p)' = DenotedStorage(n, p)
    BY <1>1 DEF DenotedStorage
  <1>4. LastUse'
    BY <1>2, <1>3 DEF LastUse
  <1> QED BY <1>4 DEF Used

LEMMA OperatesUsed ==
  ASSUME Structured, Scoped, Stored, Initializing, Used, Operates
  PROVE  Used'
  <1>1. ASSUME NEW n \in Names, GenerateIdentifier(n)
        PROVE  Used'
    <2> DEFINE storage == Resolve(context, n)
    <2>1. /\ Visit(Identifier(n)) /\ storage # NoText /\ code' = code
          /\ operands' = Append(operands, storage) /\ storage \in Text
      BY <1>1, ResolvedName DEF GenerateIdentifier, Structured, Typed
    <2>2. /\ Identifier(n).kind = "identifier" /\ Identifier(n).name = n
          /\ IsExpression(Identifier(n))
      BY DEF Identifier, IsExpression
    <2>3. storage = DenotedStorage(n, next)
      BY <2>1, <2>2, ResolvedIsDenoted
    <2> HIDE DEF storage
    <2>4. operands' \in Seq(Text) /\ Last(operands') = storage
      BY <2>1, LastOfAppend DEF Used
    <2> QED BY <2>1, <2>2, <2>3, <2>4, VisitUsed DEF Used, IsCode
  <1>2. ASSUME NEW ty \in Types, GenerateLiteral(ty)
        PROVE  Used'
    <2>1. Visit(Literal(ty)) /\ code' = code /\ operands' \in Seq(Text)
      BY <1>2, TextsOfNames DEF GenerateLiteral, Used
    <2>2. Literal(ty).kind = "literal"
      BY DEF Literal
    <2> QED BY <2>1, <2>2, VisitUsed DEF Used, IsCode
  <1>3. ASSUME NEW v, Visit(v), v.kind \in {"unary", "binary"},
               NEW x, code' = code \o <<x>>,
               NEW k \in Nat, NEW rest \in Seq(Text), operands' = Append(rest, Temporary(k))
        PROVE  Used'
    <2>1. operands' \in Seq(Text)
      BY <1>3, TextsOfNames
    <2>2. IsCode(code)'
      <3>1. PICK C : code \in Seq(C)
        BY DEF Used, IsCode
      <3>2. code \in Seq(C \cup {x}) /\ <<x>> \in Seq(C \cup {x})
        BY <3>1
      <3>3. code' \in Seq(C \cup {x})
        BY <1>3, <3>2
      <3> QED BY <3>3 DEF IsCode
    <2> QED BY <1>3, <2>1, <2>2, VisitUsed
  <1>4. /\ Front(operands) \in Seq(Text) /\ Front(Front(operands)) \in Seq(Text)
        /\ Temporaries(context) \in SUBSET Nat
    <2>1. ASSUME NEW s \in Seq(Text)
          PROVE  Front(s) \in Seq(Text)
      BY DEF Front
    <2>2. context.next_temporary \in Nat
      BY SizeMaxAssumption DEF Structured, Typed, Context
    <2>3. \A j \in context.next_temporary .. SizeMax - 1 : j \in Nat
      BY <2>2, SizeMaxAssumption
    <2> QED BY <2>1, <2>3 DEF Used, Temporaries
  <1>5. CASE GenerateUnary
    <2>1. PICK k \in Temporaries(context) :
            /\ code' = code \o <<Plain("UNARY", Temporary(k), Last(operands), NoText)>>
            /\ operands' = Append(Front(operands), Temporary(k))
      BY <1>5 DEF GenerateUnary, Emit
    <2>2. Visit(Unary) /\ Unary.kind \in {"unary", "binary"}
      BY <1>5 DEF GenerateUnary, Unary
    <2> QED BY <1>3, <1>4, <2>1, <2>2
  <1>6. ASSUME NEW op \in BinaryOperators, GenerateBinary(op)
        PROVE  Used'
    <2>1. PICK k \in Temporaries(context) :
            /\ code' = code \o <<Plain("BINARY", Temporary(k), Last(Front(operands)),
                                       Last(operands))>>
            /\ operands' = Append(Front(Front(operands)), Temporary(k))
      BY <1>6 DEF GenerateBinary, Emit
    <2>2. Visit(Binary(op)) /\ Binary(op).kind \in {"unary", "binary"}
      BY <1>6 DEF GenerateBinary, Binary
    <2> QED BY <1>3, <1>4, <2>1, <2>2
  <1> QED BY <1>1, <1>2, <1>5, <1>6 DEF Operates

LEMMA StatesUsed ==
  ASSUME Structured, Scoped, Stored, Initializing, Used, States
  PROVE  Used'
  <1>1. /\ At("list") /\ status = "running" /\ todo \in Seq(Todo)
        /\ context \in Context
    <2>1. At("list") /\ \E v : Visit(v)
      BY StatesFields
    <2> QED BY <2>1, RunningFields DEF Visit, Come
  <1>2. ASSUME NEW v, Visit(v), v.kind \in {"declaration", "if"}, code' = code,
               operands' = operands
        PROVE  Used'
    BY <1>2, VisitUsed DEF Used, IsCode
  <1>3. ASSUME NEW n \in Names, NEW ty \in Types, NEW i \in BOOLEAN,
               GenerateDeclaration(n, ty, i)
        PROVE  Used'
    <2>1. /\ Visit(Declaration(n, ty, i)) /\ Declaration(n, ty, i).kind = "declaration"
          /\ UNCHANGED <<operands, code>>
      BY <1>3 DEF GenerateDeclaration, Declaration
    <2> QED BY <1>2, <2>1
  <1>4. ASSUME NEW hasElse \in BOOLEAN, GenerateIf(hasElse)
        PROVE  Used'
    <2>1. Visit(If(hasElse)) /\ If(hasElse).kind = "if" /\ UNCHANGED <<operands, code>>
      BY <1>4 DEF GenerateIf, If
    <2> QED BY <1>2, <2>1
  <1>5. ASSUME NEW n \in Names, GenerateAssignment(n)
        PROVE  Used'
    <2> DEFINE storage == Resolve(context, n)
               item == [at |-> "assignment", target |-> storage]
    <2>1. /\ Visit(Assignment(n)) /\ storage # NoText /\ storage \in Text
          /\ todo' = Append(todo, item) /\ UNCHANGED <<operands, code>>
      BY <1>1, <1>5, ResolvedName DEF GenerateAssignment
    <2>2. Assignment(n).kind = "assignment" /\ Assignment(n).name = n
      BY DEF Assignment
    <2>3. storage = DenotedStorage(n, next)
      BY <1>1, <2>1, <2>2, ResolvedIsDenoted
    <2>4. item \in Todo /\ item.target = storage
      BY <2>1, TodoItems
    <2> HIDE DEF storage, item
    <2>5. Last(todo') = item
      BY <1>1, <2>1, <2>4, LastOfAppend
    <2> QED BY <2>1, <2>2, <2>3, <2>4, <2>5, VisitUsed DEF Used, IsCode
  <1>6. ASSUME NEW n \in Names, GeneratePrint(n)
        PROVE  Used'
    <2> DEFINE storage == Resolve(context, n)
               x == Plain("PRINT", NoText, storage, NoText)
    <2>1. /\ Visit(PrintOf(n)) /\ storage # NoText /\ code' = code \o <<x>>
          /\ UNCHANGED <<todo, operands>>
      BY <1>6 DEF GeneratePrint, Emit
    <2>2. PrintOf(n).kind = "print" /\ PrintOf(n).name = n
      BY DEF PrintOf
    <2>3. storage = DenotedStorage(n, next)
      BY <1>1, <2>1, <2>2, ResolvedIsDenoted
    <2>4. x.first = storage
      BY DEF Plain
    <2> HIDE DEF storage, x
    <2>5. PICK C : code \in Seq(C)
      BY DEF Used, IsCode
    <2>6. code \in Seq(C \cup {x}) /\ code' = Append(code, x)
      BY <2>1, <2>5, Emitted DEF Used
    <2>7. code' \in Seq(C \cup {x}) /\ Last(code') = x
      BY <2>6, LastOfAppend
    <2>8. IsCode(code)'
      BY <2>7 DEF IsCode
    <2>9. At("list")'
      BY <1>1, <2>1 DEF At
    <2> QED BY <2>1, <2>2, <2>3, <2>4, <2>7, <2>8, <2>9, VisitUsed DEF Used
  <1>7. CASE GenerateWhile
    <2> DEFINE x == Label(context.next_label)
    <2>1. Visit(While) /\ While.kind = "while" /\ code' = code \o <<x>> /\ operands' = operands
      BY <1>7 DEF GenerateWhile, While, Emit
    <2> HIDE DEF x
    <2>2. PICK C : code \in Seq(C)
      BY DEF Used, IsCode
    <2>3. code \in Seq(C \cup {x}) /\ <<x>> \in Seq(C \cup {x})
      BY <2>2
    <2>4. code' \in Seq(C \cup {x})
      BY <2>1, <2>3
    <2> QED BY <2>1, <2>4, VisitUsed DEF Used, IsCode
  <1> QED BY <1>3, <1>4, <1>5, <1>6, <1>7 DEF States

\* Back in a statement nothing is said of the last visit any more, but of its
\* operand, if that is there still.
LEMMA ReturnUsed ==
  ASSUME Structured, Used, Return, ~At("list"), operands' \in {<< >>, operands},
         IsCode(code)', ~At("assignment")'
  PROVE  Used'
  <1>1. /\ next' = next /\ program' = program /\ status = "running"
    BY ReturnReads
  <1>2. << >> \in Seq(Text) /\ operands' \in Seq(Text)
    <2>1. << >> \in Seq(Text)
      OBVIOUS
    <2> QED BY <2>1 DEF Used
  <1>3. \A n, p : DenotedStorage(n, p)' = DenotedStorage(n, p)
    BY <1>1 DEF DenotedStorage
  <1>4. next > 1 => LastUse'
    BY <1>1, <1>3 DEF Used, LastUse
  <1> QED BY <1>1, <1>2, <1>4 DEF Used

LEMMA FinishUsed ==
  ASSUME Structured, Used, Returns \/ FinishDeclaration
  PROVE  Used'
  <1>1. Return /\ ~At("list") /\ status = "running"
    BY ReturnsFields, FinishDeclarationFields DEF Return, At
  <1>2. ~At("assignment")'
    <2>1. \/ todo' = Pop
          \/ \E item \in Todo : todo' = Replaced(item) /\ item.at \in {"then", "else", "body"}
      BY ReturnsFields, FinishDeclarationFields
    <2>2. Last(todo).at # "list"
      BY <1>1, RunningFields DEF At
    <2>3. Last(Pop).at \in Callers /\ \A item \in Todo : item.at # "list" => Last(Replaced(item)) = item
      BY <1>1, <2>2, PopFields
    <2> QED BY <2>1, <2>3 DEF At, Callers
  <1>3. operands' \in {<< >>, operands}
    BY DEF Returns, FinishDeclaration, FinishAssignment, FinishIfCondition,
       FinishWhileCondition, FinishThen, FinishElse, FinishBody, AfterExpression,
       AfterBlock
  <1>4. PICK C : code \in Seq(C)
    BY DEF Used, IsCode
  <1>5. \A x, y : IsCode(code \o <<x>>) /\ IsCode(code \o <<x, y>>)
    <2> TAKE x, y
    <2>1. /\ code \in Seq(C \cup {x, y})
          /\ <<x>> \in Seq(C \cup {x, y}) /\ <<x, y>> \in Seq(C \cup {x, y})
      BY <1>4
    <2>2. code \o <<x>> \in Seq(C \cup {x, y}) /\ code \o <<x, y>> \in Seq(C \cup {x, y})
      BY <2>1
    <2> QED BY <2>2 DEF IsCode
  <1>6. \E x, y : code' = code \o <<x>> \/ code' = code \o <<x, y>>
    BY DEF Returns, FinishDeclaration, FinishAssignment, FinishIfCondition,
       FinishWhileCondition, FinishThen, FinishElse, FinishBody, Emit
  <1>7. IsCode(code)'
    BY <1>5, <1>6 DEF IsCode
  <1> QED BY <1>1, <1>2, <1>3, <1>7, ReturnUsed

LEMMA NextUsed ==
  ASSUME Structured, Scoped, Stored, Initializing, Used, [Next]_vars
  PROVE  Used'
  <1>1. CASE UNCHANGED vars
    BY <1>1 DEF vars, Used, LastUse, DenotedStorage, IsCode, At
  <1>2. ASSUME NEW v, Visit(v), v.kind \in {"block", "end"}, code' = code,
               operands' = operands
        PROVE  Used'
    BY <1>2, VisitUsed DEF Used, IsCode
  <1>3. CASE EnterBlock
    <2>1. Visit(Block) /\ Block.kind = "block" /\ UNCHANGED <<operands, code>>
      BY <1>3 DEF EnterBlock, Block
    <2> QED BY <1>2, <2>1
  <1>4. CASE LeaveBlock
    <2>1. Visit(EndBlock) /\ EndBlock.kind = "end" /\ UNCHANGED <<operands, code>>
      BY <1>4 DEF LeaveBlock, EndBlock
    <2> QED BY <1>2, <2>1
  <1>5. << >> \in Seq(Text) /\ IsCode(<< >>)
    BY DEF IsCode
  <1>6. CASE \/ \E ast \in Programs : Begin(ast) \/ BeginFails(ast)
             \/ Destroy \/ Failed
    <2>1. operands' = << >> /\ code' = << >> /\ (status' # "running" \/ next' = 1)
      BY <1>6 DEF Begin, BeginFails, Destroy, Failed, Abort
    <2> QED BY <1>5, <2>1 DEF Used
  <1>7. CASE End
    BY <1>7 DEF End, Used, IsCode
  <1> QED BY <1>1, <1>3, <1>4, <1>6, <1>7, StepKinds, OperatesUsed, StatesUsed, FinishUsed

\* Where the program uses a name, the code uses the storage of what the name
\* denotes, in every run of the generator.
THEOREM UsesAreStored == Spec => []Used
  <1>1. Init => Used
    <2>1. << >> \in Seq(Text) /\ IsCode(<< >>)
      BY DEF IsCode
    <2> QED BY <2>1 DEF Init, Used
  <1>2. Spec => [](Structured /\ Scoped /\ Stored /\ Initializing)
    BY StorageIsKept
  <1> QED BY <1>1, <1>2, NextUsed, PTL DEF Spec

-----------------------------------------------------------------------------
(* Texts. *)

\* An instruction that gives a temporary its value.
Defines(x) == x.kind \in {"UNARY", "BINARY"}

\* The code gives each temporary below k a value at most once, and none whose
\* text is taken.
ResultsBelow(c, k, taken) ==
  /\ \A i \in DOMAIN c : Defines(c[i]) =>
       \E j \in 1 .. k - 1 : c[i].result = Temporary(j) /\ Temporary(j) \notin taken
  /\ \A i, j \in DOMAIN c :
       Defines(c[i]) /\ Defines(c[j]) /\ c[i].result = c[j].result => i = j

Numbering ==
  status \in {"running", "SUCCESS"} =>
    /\ GlobalNames(program) \subseteq context.reserved /\ context.next_temporary # 0
    /\ ResultsBelow(code, context.next_temporary, GlobalNames(program))

LEMMA TemporariesDiffer ==
  ASSUME NEW j, NEW k, Temporary(j) = Temporary(k)
  PROVE  j = k
  BY DEF Temporary

\* Another instruction, which defines nothing or the next temporary.
LEMMA ResultsAppend ==
  ASSUME NEW c, IsCode(c), NEW k \in Nat \ {0}, NEW taken, ResultsBelow(c, k, taken), NEW x
  PROVE  /\ ~Defines(x) => ResultsBelow(Append(c, x), k, taken)
         /\ \A m \in Nat : /\ Defines(x) /\ x.result = Temporary(m)
                           /\ m >= k /\ Temporary(m) \notin taken
                           => ResultsBelow(Append(c, x), m + 1, taken)
  <1> DEFINE e == Append(c, x)
             n == Len(c)
  <1>1. PICK C : c \in Seq(C)
    BY DEF IsCode
  <1>2. /\ DOMAIN e = 1 .. n + 1 /\ e[n + 1] = x /\ n \in Nat
        /\ \A i \in 1 .. n : i \in DOMAIN c /\ e[i] = c[i]
    <2>1. c \in Seq(C \cup {x}) /\ x \in C \cup {x}
      BY <1>1
    <2> QED BY <2>1
  <1> HIDE DEF e, n
  <1>3. \A i \in 1 .. n + 1 : i = n + 1 \/ i \in 1 .. n
    BY <1>2
  <1>4. ASSUME ~Defines(x)
        PROVE  ResultsBelow(e, k, taken)
    BY <1>2, <1>3, <1>4 DEF ResultsBelow
  <1>5. ASSUME NEW m \in Nat, Defines(x), x.result = Temporary(m), m >= k,
               Temporary(m) \notin taken
        PROVE  ResultsBelow(e, m + 1, taken)
    <2>1. m \in 1 .. (m + 1) - 1 /\ 1 .. k - 1 \subseteq 1 .. (m + 1) - 1
      BY <1>5
    <2>2. ASSUME NEW i \in 1 .. n + 1, Defines(e[i])
          PROVE  \E j \in 1 .. (m + 1) - 1 :
                   e[i].result = Temporary(j) /\ Temporary(j) \notin taken
      <3>1. CASE i = n + 1
        BY <1>2, <1>5, <2>1, <3>1
      <3>2. CASE i \in 1 .. n
        BY <1>2, <2>1, <2>2, <3>2 DEF ResultsBelow
      <3> QED BY <1>3, <3>1, <3>2
    <2>3. ASSUME NEW i \in 1 .. n, Defines(e[i]), e[i].result = Temporary(m)
          PROVE  FALSE
      <3>1. PICK j \in 1 .. k - 1 : e[i].result = Temporary(j)
        BY <1>2, <2>3 DEF ResultsBelow
      <3>2. j = m
        BY <2>3, <3>1, TemporariesDiffer
      <3> QED BY <1>5, <3>1, <3>2
    <2>4. ASSUME NEW i \in 1 .. n + 1, NEW j \in 1 .. n + 1,
                 Defines(e[i]), Defines(e[j]), e[i].result = e[j].result
          PROVE  i = j
      <3>1. CASE i \in 1 .. n /\ j \in 1 .. n
        BY <1>2, <2>4, <3>1 DEF ResultsBelow
      <3>2. CASE i = n + 1 /\ j = n + 1
        BY <3>2
      <3>3. CASE i = n + 1 /\ j \in 1 .. n
        BY <1>2, <1>5, <2>3, <2>4, <3>3
      <3>4. CASE i \in 1 .. n /\ j = n + 1
        BY <1>2, <1>5, <2>3, <2>4, <3>4
      <3> QED BY <1>3, <3>1, <3>2, <3>3, <3>4
    <2> QED BY <1>2, <2>2, <2>4 DEF ResultsBelow
  <1> QED BY <1>4, <1>5 DEF e

\* A step that takes no temporary.
KeepsNumbers ==
  /\ context'.next_temporary = context.next_temporary
  /\ context'.reserved = context.reserved

EmitsPlainly ==
  \/ code' = code
  \/ \E x : code' = code \o <<x>> /\ ~Defines(x)
  \/ \E x, y : code' = code \o <<x, y>> /\ ~Defines(x) /\ ~Defines(y)

LEMMA NumberFields ==
  ASSUME NEW c \in Context
  PROVE  /\ c.next_temporary \in Nat
         /\ \A n : LET r == TakeLabels(c, n)
                   IN  r.next_temporary = c.next_temporary /\ r.reserved = c.reserved
         /\ \A t : LET r == [c EXCEPT !.symbols = t]
                   IN  r.next_temporary = c.next_temporary /\ r.reserved = c.reserved
  BY SizeMaxAssumption DEF Context, TakeLabels

LEMMA KeepsNumbering ==
  ASSUME Used, Numbering, status \in {"running", "SUCCESS"}, program' = program,
         context \in Context, KeepsNumbers, EmitsPlainly
  PROVE  Numbering'
  <1> DEFINE k == context.next_temporary
             taken == GlobalNames(program)
  <1>1. /\ taken \subseteq context.reserved /\ ResultsBelow(code, k, taken)
        /\ IsCode(code) /\ k \in Nat \ {0}
    BY NumberFields DEF Numbering, Used
  <1>2. GlobalNames(program)' = taken
    BY DEF GlobalNames
  <1>3. ResultsBelow(code', k, taken)
    <2>1. CASE code' = code
      BY <1>1, <2>1
    <2>2. ASSUME NEW x, code' = code \o <<x>>, ~Defines(x)
          PROVE  ResultsBelow(code', k, taken)
      <3>1. code' = Append(code, x)
        BY <1>1, <2>2, Emitted
      <3> QED BY <1>1, <2>2, <3>1, ResultsAppend
    <2>3. ASSUME NEW x, NEW y, code' = code \o <<x, y>>, ~Defines(x), ~Defines(y)
          PROVE  ResultsBelow(code', k, taken)
      <3>1. ResultsBelow(Append(code, x), k, taken)
        BY <1>1, <2>3, ResultsAppend
      <3>2. IsCode(Append(code, x))
        <4>1. PICK C : code \in Seq(C)
          BY <1>1 DEF IsCode
        <4>2. code \in Seq(C \cup {x}) /\ x \in C \cup {x}
          BY <4>1
        <4>3. Append(code, x) \in Seq(C \cup {x})
          BY <4>2
        <4> QED BY <4>3 DEF IsCode
      <3>3. ResultsBelow(Append(Append(code, x), y), k, taken)
        BY <1>1, <2>3, <3>1, <3>2, ResultsAppend
      <3>4. code' = Append(Append(code, x), y)
        BY <1>1, <2>3, Emitted
      <3> QED BY <3>3, <3>4
    <2> QED BY <2>1, <2>2, <2>3 DEF EmitsPlainly
  <1> HIDE DEF k, taken
  <1>4. context'.next_temporary = k /\ context'.reserved = context.reserved
    BY DEF KeepsNumbers, k
  <1>5. ResultsBelow(code, context.next_temporary, GlobalNames(program))'
    BY <1>2, <1>3, <1>4 DEF ResultsBelow, Defines, Temporary
  <1> QED BY <1>1, <1>2, <1>4, <1>5 DEF Numbering

LEMMA OperatesNumbering ==
  ASSUME Structured, Used, Numbering, Operates
  PROVE  Numbering'
  <1>1. /\ status = "running" /\ program' = program /\ context \in Context
        /\ IsCode(code)
    BY OperatesFields, VisitReads DEF Structured, Typed, Used
  <1>2. CASE \/ \E n \in Names : GenerateIdentifier(n)
             \/ \E ty \in Types : GenerateLiteral(ty)
    <2>1. KeepsNumbers /\ EmitsPlainly
      BY <1>2 DEF GenerateIdentifier, GenerateLiteral, KeepsNumbers, EmitsPlainly
    <2> QED BY <1>1, <2>1, KeepsNumbering
  <1>3. ASSUME NEW k \in Temporaries(context), context' = TakeTemporary(context, k),
               NEW x, code' = code \o <<x>>, Defines(x), x.result = Temporary(k)
        PROVE  Numbering'
    <2> DEFINE taken == GlobalNames(program)
    <2>1. /\ taken \subseteq context.reserved
          /\ ResultsBelow(code, context.next_temporary, taken)
          /\ context.next_temporary \in Nat \ {0} /\ SizeMax \in Nat
      BY <1>1, NumberFields, SizeMaxAssumption DEF Numbering
    <2>2. /\ k \in Nat /\ k >= context.next_temporary
          /\ Temporary(k) \notin taken
      BY <2>1 DEF Temporaries, IsNextTemporary
    <2>3. /\ context'.next_temporary = k + 1
          /\ context'.reserved = context.reserved \cup {Temporary(k)}
      BY <1>1, <1>3 DEF TakeTemporary, Context
    <2>4. GlobalNames(program)' = taken
      BY <1>1 DEF GlobalNames
    <2> HIDE DEF taken
    <2>5. code' = Append(code, x)
      BY <1>1, <1>3, Emitted
    <2>6. ResultsBelow(Append(code, x), k + 1, taken)
      BY <1>1, <1>3, <2>1, <2>2, ResultsAppend
    <2>7. ResultsBelow(code, context.next_temporary, GlobalNames(program))'
      BY <2>3, <2>4, <2>5, <2>6 DEF ResultsBelow, Defines, Temporary
    <2> QED BY <2>1, <2>2, <2>3, <2>4, <2>7 DEF Numbering
  <1>4. CASE GenerateUnary
    <2>1. PICK k \in Temporaries(context) :
            /\ context' = TakeTemporary(context, k)
            /\ code' = code \o <<Plain("UNARY", Temporary(k), Last(operands), NoText)>>
      BY <1>4 DEF GenerateUnary, Emit
    <2> DEFINE x == Plain("UNARY", Temporary(k), Last(operands), NoText)
    <2>2. Defines(x) /\ x.result = Temporary(k)
      BY DEF Plain, Defines
    <2> HIDE DEF x
    <2>3. code' = code \o <<x>>
      BY <2>1 DEF x
    <2> QED BY <1>3, <2>1, <2>2, <2>3
  <1>5. ASSUME NEW op \in BinaryOperators, GenerateBinary(op)
        PROVE  Numbering'
    <2>1. PICK k \in Temporaries(context) :
            /\ context' = TakeTemporary(context, k)
            /\ code' = code \o <<Plain("BINARY", Temporary(k), Last(Front(operands)),
                                       Last(operands))>>
      BY <1>5 DEF GenerateBinary, Emit
    <2> DEFINE x == Plain("BINARY", Temporary(k), Last(Front(operands)), Last(operands))
    <2>2. Defines(x) /\ x.result = Temporary(k)
      BY DEF Plain, Defines
    <2> HIDE DEF x
    <2>3. code' = code \o <<x>>
      BY <2>1 DEF x
    <2> QED BY <1>3, <2>1, <2>2, <2>3
  <1> QED BY <1>2, <1>4, <1>5 DEF Operates

\* No other instruction defines a temporary.
LEMMA PlainDefines ==
  /\ \A text : ~Defines(Plain("PRINT", NoText, text, NoText))
  /\ \A target, text : ~Defines(Plain("ASSIGNMENT", target, text, NoText))
  /\ \A l : ~Defines(Label(l)) /\ ~Defines(Jump(l))
  /\ \A text, l : ~Defines(JumpIfFalse(text, l))
  BY DEF Plain, Defines, Label, Jump, JumpIfFalse, Control

LEMMA StatesNumber ==
  ASSUME Structured, States
  PROVE  KeepsNumbers /\ EmitsPlainly
  <1>1. context \in Context /\ WellFormed(context.symbols) /\ next \in Nat
    <2>1. status = "running"
      BY StatesFields DEF Visit, Come
    <2> QED BY <2>1, RunningFields, ReadFields DEF Structured
  <1>2. ASSUME NEW n \in Names, NEW ty \in Types, NEW i \in BOOLEAN,
               GenerateDeclaration(n, ty, i)
        PROVE  KeepsNumbers /\ EmitsPlainly
    <2> DEFINE d == [at |-> "declaration", line |-> next, name |-> n, type |-> ty]
    <2>1. code' = code
      BY <1>2 DEF GenerateDeclaration
    <2>2. CASE i
      BY <1>2, <2>1, <2>2 DEF GenerateDeclaration, KeepsNumbers, EmitsPlainly
    <2>3. CASE ~i
      <3>1. LookupCurrent(context.symbols, n) = Null /\ context' = Remember(context, d)
        BY <1>2, <2>3 DEF GenerateDeclaration
      <3>2. d.line = next /\ d.name = n /\ d.type = ty
        OBVIOUS
      <3> HIDE DEF d
      <3>3. /\ Remember(context, d).reserved = context.reserved
            /\ Remember(context, d).next_temporary = context.next_temporary
        BY <1>1, <3>1, <3>2, RememberEffect
      <3> QED BY <2>1, <3>1, <3>3 DEF KeepsNumbers, EmitsPlainly
    <2> QED BY <2>2, <2>3
  <1>3. CASE \/ \E n \in Names : GenerateAssignment(n)
             \/ \E hasElse \in BOOLEAN : GenerateIf(hasElse)
    BY <1>3 DEF GenerateAssignment, GenerateIf, KeepsNumbers, EmitsPlainly
  <1>4. CASE \E n \in Names : GeneratePrint(n)
    BY <1>4, PlainDefines DEF GeneratePrint, Emit, KeepsNumbers, EmitsPlainly
  <1>5. CASE GenerateWhile
    <2>1. KeepsNumbers
      BY <1>1, <1>5, NumberFields DEF GenerateWhile, KeepsNumbers
    <2>2. EmitsPlainly
      BY <1>5, PlainDefines DEF GenerateWhile, Emit, EmitsPlainly
    <2> QED BY <2>1, <2>2
  <1> QED BY <1>2, <1>3, <1>4, <1>5 DEF States

LEMMA BlocksNumber ==
  ASSUME Structured, EnterBlock \/ LeaveBlock
  PROVE  KeepsNumbers /\ EmitsPlainly
  <1>1. context \in Context
    BY DEF Structured, Typed
  <1>2. \E t : context' = [context EXCEPT !.symbols = t]
    BY DEF EnterBlock, LeaveBlock
  <1>3. code' = code
    BY DEF EnterBlock, LeaveBlock
  <1>4. KeepsNumbers
    BY <1>1, <1>2, NumberFields DEF KeepsNumbers
  <1> QED BY <1>3, <1>4 DEF EmitsPlainly

LEMMA FinishNumber ==
  ASSUME Structured, Returns \/ FinishDeclaration
  PROVE  KeepsNumbers /\ EmitsPlainly
  <1>1. context \in Context
    BY DEF Structured, Typed
  <1>2. KeepsNumbers
    <2>1. CASE FinishDeclaration
      <3>1. Binds(Last(todo)) /\ WellFormed(context.symbols)
        BY <2>1, FinishDeclarationBinds, FinishDeclarationFields, RunningFields DEF Return
      <3> QED BY <1>1, <3>1, RememberEffect DEF Binds, KeepsNumbers
    <2>2. CASE FinishIfCondition
      BY <1>1, <2>2, NumberFields DEF FinishIfCondition, KeepsNumbers
    <2>3. CASE Returns /\ ~FinishIfCondition
      BY <2>3 DEF Returns, FinishAssignment, FinishWhileCondition, FinishThen,
         FinishElse, FinishBody, AfterBlock, KeepsNumbers
    <2> QED BY <2>1, <2>2, <2>3
  <1>3. EmitsPlainly
    BY PlainDefines
    DEF Returns, FinishDeclaration, FinishAssignment, FinishIfCondition,
        FinishWhileCondition, FinishThen, FinishElse, FinishBody, Emit, EmitsPlainly
  <1> QED BY <1>2, <1>3

LEMMA NextNumbering ==
  ASSUME Structured, Used, Numbering, [Next]_vars
  PROVE  Numbering'
  <1>1. context \in Context
    BY DEF Structured, Typed
  <1>2. CASE UNCHANGED vars
    <2>1. KeepsNumbers /\ EmitsPlainly /\ program' = program /\ status' = status
      BY <1>2 DEF vars, KeepsNumbers, EmitsPlainly
    <2> QED BY <1>1, <2>1, KeepsNumbering DEF Numbering
  <1>3. ASSUME NEW ast \in Programs, Begin(ast)
        PROVE  Numbering'
    <2>1. /\ program' = ast /\ code' = << >>
          /\ context'.reserved = GlobalNames(ast) /\ context'.next_temporary = 1
      BY <1>3 DEF Begin, NewContext
    <2>2. GlobalNames(program)' = GlobalNames(ast)
      BY <2>1 DEF GlobalNames
    <2>3. DOMAIN code' = {}
      BY <2>1
    <2>4. ResultsBelow(code, context.next_temporary, GlobalNames(program))'
      BY <2>3 DEF ResultsBelow
    <2> QED BY <2>1, <2>2, <2>4 DEF Numbering
  <1>4. CASE \/ \E ast \in Programs : BeginFails(ast)
             \/ Destroy \/ Failed
    BY <1>4 DEF BeginFails, Destroy, Failed, Abort, Numbering
  <1>5. CASE End
    <2>1. KeepsNumbers /\ EmitsPlainly /\ program' = program /\ status = "running"
      BY <1>5 DEF End, KeepsNumbers, EmitsPlainly
    <2> QED BY <1>1, <2>1, KeepsNumbering
  <1>6. CASE States \/ EnterBlock \/ LeaveBlock
    <2>1. KeepsNumbers /\ EmitsPlainly
      BY <1>6, StatesNumber, BlocksNumber
    <2>2. \E v : Visit(v)
      BY <1>6, StatesFields DEF EnterBlock, LeaveBlock
    <2>3. program' = program /\ status = "running"
      BY <2>2 DEF Visit, Come
    <2> QED BY <1>1, <2>1, <2>3, KeepsNumbering
  <1>7. CASE Returns \/ FinishDeclaration
    <2>1. program' = program /\ status = "running"
      BY <1>7, ReturnsFields, FinishDeclarationFields DEF Return
    <2> QED BY <1>1, <1>7, <2>1, FinishNumber, KeepsNumbering
  <1> QED BY <1>2, <1>3, <1>4, <1>5, <1>6, <1>7, StepKinds, OperatesNumbering

\* The storages of the declarations of a text.
StoragesOf(text) ==
  {StorageName(text[d].name, Ordinal(text, BlockAt(text, d))) :
     d \in {e \in DOMAIN text : Declares(text[e])}}

\* Two bindings never share their storage, and the code gives a value to no
\* temporary twice, nor to one with the text of a storage.
TextsDiffer ==
  status \in {"running", "SUCCESS"} =>
    /\ \A i, j \in DOMAIN context.bindings :
         context.bindings[i].storage = context.bindings[j].storage => i = j
    /\ \A i \in DOMAIN code : Defines(code[i]) => code[i].result \notin StoragesOf(program)
    /\ \A i, j \in DOMAIN code :
         Defines(code[i]) /\ Defines(code[j]) /\ code[i].result = code[j].result => i = j

\* A storage with the text of a temporary is that of a global declaration.
LEMMA TemporaryIsGlobal ==
  ASSUME NEW text \in Seq(Visits), NEW d \in DOMAIN text, Declares(text[d]), NEW k,
         StorageName(text[d].name, Ordinal(text, BlockAt(text, d))) = Temporary(k)
  PROVE  Temporary(k) \in GlobalNames(text)
  <1> DEFINE b == BlockAt(text, d)
  <1>1. Ordinal(text, b) = 0
    BY DEF StorageName, Temporary
  <1>2. Before(text, b, "block") \in Nat
    BY BeforeCounts
  <1> HIDE DEF b
  <1>3. b = 0
    BY <1>1, <1>2 DEF Ordinal
  <1> QED BY <1>1, <1>3 DEF GlobalNames, b

LEMMA StoragesDiffer ==
  ASSUME NEW c \in Context, WellFormed(c.symbols), StoredIn(c),
         NEW i \in DOMAIN c.bindings, NEW j \in DOMAIN c.bindings,
         c.bindings[i].storage = c.bindings[j].storage
  PROVE  i = j
  <1> DEFINE t == c.symbols
             s(m) == t.symbols[m]
  <1>1. DOMAIN c.bindings = DOMAIN t.symbols
    BY DEF StoredIn, Context, WellFormed, Table
  <1>2. StorageName(s(i).name, s(i).scope_id) = StorageName(s(j).name, s(j).scope_id)
    BY <1>1, StoredBinding
  <1>3. ASSUME NEW m \in DOMAIN t.symbols
        PROVE  s(m).name \in Names /\ s(m).owner \in Nat /\ s(m).scope_id = s(m).owner - 1
    <2>1. t.symbols \in Seq(Symbol)
      BY DEF WellFormed, Table
    <2>2. s(m) \in Symbol
      BY <2>1
    <2>3. s(m).scope_id = s(m).owner - 1
      BY DEF WellFormed, Owned
    <2> HIDE DEF s
    <2> QED BY <2>2, <2>3 DEF Symbol
  <1>4. \A m, n \in DOMAIN t.symbols : s(m).owner = s(n).owner /\ s(m).name = s(n).name => m = n
    BY DEF WellFormed, Owned
  <1> HIDE DEF s, t
  <1>5. s(i).scope_id = s(j).scope_id /\ s(i).name = s(j).name
    <2>1. /\ s(i).name[1] = s(j).name[1] /\ s(i).name[2] = s(j).name[2]
          /\ s(i).scope_id = s(j).scope_id
      BY <1>2 DEF StorageName
    <2>2. /\ s(i).name \in {s(i).name[1]} \X Nat
          /\ s(j).name \in {s(j).name[1]} \X Nat
      BY <1>1, <1>3, IdentifiersAssumption DEF IdentifiersAssumption
    <2> QED BY <2>1, <2>2
  <1>6. s(i).owner = s(j).owner
    BY <1>1, <1>3, <1>5
  <1> QED BY <1>1, <1>4, <1>5, <1>6

\* The theorem: the storages and the temporaries that there are, and those of
\* declarations still to come, are told apart by their texts, in programs of
\* any size, also when they have globals called t1 or t2.
\* (reserve_global_storage_names, make_temporary, make_storage_name.)
THEOREM TextsAreDistinct == Spec => []TextsDiffer
  <1>1. Init => Numbering
    BY DEF Init, Numbering
  <1>2. ASSUME Structured, Stored, Numbering
        PROVE  TextsDiffer
    <2> SUFFICES ASSUME status \in {"running", "SUCCESS"}
                 PROVE  /\ \A i, j \in DOMAIN context.bindings :
                             context.bindings[i].storage = context.bindings[j].storage => i = j
                        /\ \A i \in DOMAIN code :
                             Defines(code[i]) => code[i].result \notin StoragesOf(program)
                        /\ \A i, j \in DOMAIN code :
                             /\ Defines(code[i]) /\ Defines(code[j])
                             /\ code[i].result = code[j].result
                             => i = j
      BY DEF TextsDiffer
    <2>1. /\ context \in Context /\ WellFormed(context.symbols) /\ StoredIn(context)
          /\ ResultsBelow(code, context.next_temporary, GlobalNames(program))
      BY <1>2 DEF Structured, Typed, Located, PlacedIn, Stored, Numbering
    <2>2. ASSUME NEW i \in DOMAIN code, Defines(code[i]), code[i].result \in StoragesOf(program)
          PROVE  FALSE
      <3>1. PICK k : code[i].result = Temporary(k) /\ Temporary(k) \notin GlobalNames(program)
        BY <2>1, <2>2 DEF ResultsBelow
      <3>2. PICK d \in DOMAIN program :
              /\ Declares(program[d])
              /\ Temporary(k)
                   = StorageName(program[d].name, Ordinal(program, BlockAt(program, d)))
        BY <2>2, <3>1 DEF StoragesOf
      <3>3. program \in Seq(Visits)
        BY <1>2 DEF Structured, Typed
      <3> QED BY <3>1, <3>2, <3>3, TemporaryIsGlobal
    <2>3. \A i, j \in DOMAIN context.bindings :
            context.bindings[i].storage = context.bindings[j].storage => i = j
      BY <2>1, StoragesDiffer
    <2> QED BY <2>1, <2>2, <2>3 DEF ResultsBelow
  <1>3. Spec => []Used
    BY UsesAreStored
  <1> QED BY <1>1, <1>2, <1>3, NextNumbering, StorageIsKept, PTL DEF Spec

-----------------------------------------------------------------------------
(* The whole program. *)

\* The instructions that are counted, and the one that a visit asks for.
Counts == {"PRINT", "UNARY", "BINARY", "ASSIGNMENT", "JUMP_IF_FALSE"}

AskedBy(v) ==
  IF v.kind = "print" THEN "PRINT"
  ELSE IF v.kind = "unary" THEN "UNARY"
  ELSE IF v.kind = "binary" THEN "BINARY"
  ELSE IF v.kind = "assignment" \/ (Declares(v) /\ v.initialized) THEN "ASSIGNMENT"
  ELSE IF v.kind \in {"if", "while"} THEN "JUMP_IF_FALSE"
  ELSE "nothing"

\* The one that waits for an expression.
WaitedFor(items) ==
  IF items = << >> THEN "nothing"
  ELSE IF Last(items).at \in {"assignment", "declaration"} THEN "ASSIGNMENT"
  ELSE IF Last(items).at \in {"if", "while"} THEN "JUMP_IF_FALSE"
  ELSE "nothing"

One(a, kind) == IF a = kind THEN 1 ELSE 0

Emitting(c, kind) == {i \in DOMAIN c : c[i].kind = kind}
Asking(text, kind) == {p \in DOMAIN text : AskedBy(text[p]) = kind}

\* Every visit that was read has its instruction, but for the last that waits.
Whole ==
  status \in {"running", "SUCCESS"} =>
    \A kind \in Counts :
      Cardinality(Asking(Read, kind))
        = Cardinality(Emitting(code, kind)) + One(WaitedFor(todo), kind)

\* A sequence that grows by one has one more of a kind or as many.
LEMMA OneMore ==
  ASSUME NEW n \in Nat, NEW A \in SUBSET (1 .. n)
  PROVE  /\ IsFiniteSet(A) /\ Cardinality(A) \in Nat
         /\ Cardinality(A \cup {n + 1}) = Cardinality(A) + 1
  <1>1. IsFiniteSet(1 .. n)
    BY FS_Interval
  <1>2. IsFiniteSet(A)
    BY <1>1, FS_Subset
  <1>3. n + 1 \notin A
    OBVIOUS
  <1> QED BY <1>2, <1>3, FS_AddElement, FS_CardinalityType

LEMMA AskingAppend ==
  ASSUME NEW text \in Seq(Visits), NEW v \in Visits, NEW kind
  PROVE  /\ Cardinality(Asking(text, kind)) \in Nat
         /\ Cardinality(Asking(Append(text, v), kind))
              = Cardinality(Asking(text, kind)) + One(AskedBy(v), kind)
  <1> DEFINE e == Append(text, v)
             n == Len(text)
  <1>1. /\ DOMAIN e = 1 .. n + 1 /\ DOMAIN text = 1 .. n /\ e[n + 1] = v /\ n \in Nat
        /\ \A i \in 1 .. n : e[i] = text[i]
    OBVIOUS
  <1> HIDE DEF e, n
  <1>2. Asking(text, kind) \in SUBSET (1 .. n)
    BY <1>1 DEF Asking
  <1>3. CASE AskedBy(v) = kind
    <2>1. Asking(e, kind) = Asking(text, kind) \cup {n + 1}
      BY <1>1, <1>3 DEF Asking
    <2> QED BY <1>1, <1>2, <1>3, <2>1, OneMore DEF One, e
  <1>4. CASE AskedBy(v) # kind
    <2>1. Asking(e, kind) = Asking(text, kind)
      BY <1>1, <1>4 DEF Asking
    <2>2. Cardinality(Asking(text, kind)) \in Nat
      BY <1>1, <1>2, OneMore
    <2> QED BY <1>4, <2>1, <2>2 DEF One, e
  <1> QED BY <1>3, <1>4

LEMMA EmittingAppend ==
  ASSUME NEW c, IsCode(c), NEW x, NEW kind
  PROVE  /\ Cardinality(Emitting(c, kind)) \in Nat
         /\ IsCode(Append(c, x))
         /\ Cardinality(Emitting(Append(c, x), kind))
              = Cardinality(Emitting(c, kind)) + One(x.kind, kind)
  <1> DEFINE e == Append(c, x)
             n == Len(c)
  <1>1. PICK C : c \in Seq(C)
    BY DEF IsCode
  <1>2. /\ DOMAIN e = 1 .. n + 1 /\ DOMAIN c = 1 .. n /\ e[n + 1] = x /\ n \in Nat
        /\ \A i \in 1 .. n : e[i] = c[i]
        /\ e \in Seq(C \cup {x})
    <2>1. c \in Seq(C \cup {x}) /\ x \in C \cup {x}
      BY <1>1
    <2> QED BY <2>1
  <1> HIDE DEF e, n
  <1>3. IsCode(e)
    BY <1>2 DEF IsCode
  <1>4. Emitting(c, kind) \in SUBSET (1 .. n)
    BY <1>2 DEF Emitting
  <1>5. CASE x.kind = kind
    <2>1. Emitting(e, kind) = Emitting(c, kind) \cup {n + 1}
      BY <1>2, <1>5 DEF Emitting
    <2> QED BY <1>2, <1>3, <1>4, <1>5, <2>1, OneMore DEF One, e
  <1>6. CASE x.kind # kind
    <2>1. Emitting(e, kind) = Emitting(c, kind)
      BY <1>2, <1>6 DEF Emitting
    <2>2. Cardinality(Emitting(c, kind)) \in Nat
      BY <1>2, <1>4, OneMore
    <2> QED BY <1>3, <1>6, <2>1, <2>2 DEF One, e
  <1> QED BY <1>5, <1>6

\* A step emits an instruction of kind a, or nothing that is counted.
EmitsOne(a) ==
  \/ code' = code /\ a = "nothing"
  \/ \E x : code' = code \o <<x>> /\ x.kind = a
  \/ \E x, y : code' = code \o <<x, y>> /\ x.kind = a /\ y.kind \notin Counts

LEMMA EmitsOneMore ==
  ASSUME IsCode(code), NEW a, EmitsOne(a), NEW kind \in Counts
  PROVE  /\ Cardinality(Emitting(code, kind)) \in Nat
         /\ Cardinality(Emitting(code', kind))
              = Cardinality(Emitting(code, kind)) + One(a, kind)
  <1>1. CASE code' = code /\ a = "nothing"
    BY <1>1, EmittingAppend DEF One, Counts
  <1>2. ASSUME NEW x, code' = code \o <<x>>, x.kind = a
        PROVE  Cardinality(Emitting(code', kind))
                 = Cardinality(Emitting(code, kind)) + One(a, kind)
    <2>1. code' = Append(code, x)
      BY <1>2, Emitted
    <2> QED BY <1>2, <2>1, EmittingAppend
  <1>3. ASSUME NEW x, NEW y, code' = code \o <<x, y>>, x.kind = a, y.kind \notin Counts
        PROVE  Cardinality(Emitting(code', kind))
                 = Cardinality(Emitting(code, kind)) + One(a, kind)
    <2>1. code' = Append(Append(code, x), y)
      BY <1>3, Emitted
    <2>2. /\ IsCode(Append(code, x))
          /\ Cardinality(Emitting(Append(code, x), kind))
               = Cardinality(Emitting(code, kind)) + One(a, kind)
      BY <1>3, EmittingAppend
    <2>3. /\ Cardinality(Emitting(Append(code, x), kind)) \in Nat
          /\ Cardinality(Emitting(code', kind))
               = Cardinality(Emitting(Append(code, x), kind)) + One(y.kind, kind)
      BY <2>1, <2>2, EmittingAppend
    <2>4. One(y.kind, kind) = 0
      BY <1>3 DEF One
    <2> QED BY <2>2, <2>3, <2>4
  <1> QED BY <1>1, <1>2, <1>3, EmittingAppend DEF EmitsOne

\* A visit that has its instruction emitted, or waited for, and a return that
\* emits what was waited for.
LEMMA VisitWhole ==
  ASSUME Structured, Used, Whole, NEW v, Visit(v), NEW a, EmitsOne(a),
         \/ a = AskedBy(v) /\ WaitedFor(todo') = WaitedFor(todo)
         \/ /\ a \notin Counts /\ WaitedFor(todo) = "nothing"
            /\ WaitedFor(todo') = AskedBy(v)
  PROVE  Whole'
  <1>1. /\ status = "running" /\ v \in Visits /\ Read \in Seq(Visits)
        /\ Read' = Append(Read, v)
    BY VisitReads, ReadFields DEF Structured
  <1>2. ASSUME NEW kind \in Counts
        PROVE  Cardinality(Asking(Read, kind))'
                 = Cardinality(Emitting(code', kind)) + One(WaitedFor(todo'), kind)
    <2>1. /\ Cardinality(Asking(Read, kind)) \in Nat
          /\ Cardinality(Asking(Read', kind))
               = Cardinality(Asking(Read, kind)) + One(AskedBy(v), kind)
      BY <1>1, AskingAppend
    <2>2. /\ Cardinality(Emitting(code, kind)) \in Nat
          /\ Cardinality(Emitting(code', kind))
               = Cardinality(Emitting(code, kind)) + One(a, kind)
      BY EmitsOneMore DEF Used
    <2>3. Cardinality(Asking(Read, kind))
            = Cardinality(Emitting(code, kind)) + One(WaitedFor(todo), kind)
      BY <1>1 DEF Whole
    <2>4. One(a, kind) + One(WaitedFor(todo'), kind)
            = One(AskedBy(v), kind) + One(WaitedFor(todo), kind)
      BY DEF One, Counts
    <2>5. Cardinality(Asking(Read, kind))' = Cardinality(Asking(Read', kind))
      BY DEF Asking, AskedBy, Declares
    <2>6. \A b : One(b, kind) \in Nat
      BY DEF One
    <2> QED BY <2>1, <2>2, <2>3, <2>4, <2>5, <2>6
  <1>3. \A kind \in Counts :
          (Cardinality(Asking(Read, kind))
             = Cardinality(Emitting(code, kind)) + One(WaitedFor(todo), kind))'
    BY <1>2 DEF Emitting, WaitedFor, One, Last
  <1> QED BY <1>3 DEF Whole, Counts

LEMMA ReturnWhole ==
  ASSUME Structured, Used, Whole, Read' = Read, status \in {"running", "SUCCESS"},
         NEW a, EmitsOne(a),
         \/ a = WaitedFor(todo) /\ WaitedFor(todo') = "nothing"
         \/ a \notin Counts /\ WaitedFor(todo') = WaitedFor(todo)
  PROVE  Whole'
  <1>1. ASSUME NEW kind \in Counts
        PROVE  Cardinality(Asking(Read, kind))'
                 = Cardinality(Emitting(code', kind)) + One(WaitedFor(todo'), kind)
    <2>1. /\ Cardinality(Emitting(code, kind)) \in Nat
          /\ Cardinality(Emitting(code', kind))
               = Cardinality(Emitting(code, kind)) + One(a, kind)
      BY EmitsOneMore DEF Used
    <2>2. Cardinality(Asking(Read, kind))
            = Cardinality(Emitting(code, kind)) + One(WaitedFor(todo), kind)
      BY DEF Whole
    <2>3. One(a, kind) + One(WaitedFor(todo'), kind) = One(WaitedFor(todo), kind)
      BY DEF One, Counts
    <2>4. Cardinality(Asking(Read, kind))' = Cardinality(Asking(Read, kind))
      BY DEF Asking, AskedBy, Declares
    <2>5. \A b : One(b, kind) \in Nat
      BY DEF One
    <2> QED BY <2>1, <2>2, <2>3, <2>4, <2>5
  <1>2. \A kind \in Counts :
          (Cardinality(Asking(Read, kind))
             = Cardinality(Emitting(code, kind)) + One(WaitedFor(todo), kind))'
    BY <1>1 DEF Emitting, WaitedFor, One, Last
  <1> QED BY <1>2 DEF Whole, Counts

\* What waits is told by the last item.
LEMMA WaitsFor ==
  ASSUME NEW items \in Seq(Todo), NEW item \in Todo
  PROVE  WaitedFor(Append(items, item)) =
           IF item.at \in {"assignment", "declaration"} THEN "ASSIGNMENT"
           ELSE IF item.at \in {"if", "while"} THEN "JUMP_IF_FALSE"
           ELSE "nothing"
  <1>1. Append(items, item) # << >> /\ Last(Append(items, item)) = item
    BY LastOfAppend
  <1> QED BY <1>1 DEF WaitedFor

LEMMA CallerWaitsFor ==
  ASSUME NEW items, items # << >> => Last(items).at \in Callers
  PROVE  WaitedFor(items) = "nothing"
  BY DEF WaitedFor, Callers

LEMMA InstructionKinds ==
  /\ \A kind, r, x, y : Plain(kind, r, x, y).kind = kind
  /\ \A l : Label(l).kind = "LABEL" /\ Jump(l).kind = "JUMP"
  /\ \A x, l : JumpIfFalse(x, l).kind = "JUMP_IF_FALSE"
  BY DEF Plain, Label, Jump, JumpIfFalse, Control

LEMMA Emissions ==
  /\ \A kind, r, x, y : code' = code \o <<Plain(kind, r, x, y)>> => EmitsOne(kind)
  /\ \A l : code' = code \o <<Label(l)>> => EmitsOne("LABEL")
  /\ \A x, l : code' = code \o <<JumpIfFalse(x, l)>> => EmitsOne("JUMP_IF_FALSE")
  <1>1. \A x : code' = code \o <<x>> => EmitsOne(x.kind)
    BY DEF EmitsOne
  <1>2. \A kind, r, x, y : code' = code \o <<Plain(kind, r, x, y)>> => EmitsOne(kind)
    <2> TAKE kind, r, x, y
    <2> DEFINE i == Plain(kind, r, x, y)
    <2>1. i.kind = kind
      BY InstructionKinds
    <2> HIDE DEF i
    <2>2. code' = code \o <<i>> => EmitsOne(kind)
      BY <1>1, <2>1
    <2> QED BY <2>2 DEF i
  <1>3. \A l : code' = code \o <<Label(l)>> => EmitsOne("LABEL")
    <2> TAKE l
    <2> DEFINE i == Label(l)
    <2>1. i.kind = "LABEL"
      BY InstructionKinds
    <2> HIDE DEF i
    <2>2. code' = code \o <<i>> => EmitsOne("LABEL")
      BY <1>1, <2>1
    <2> QED BY <2>2 DEF i
  <1>4. \A x, l : code' = code \o <<JumpIfFalse(x, l)>> => EmitsOne("JUMP_IF_FALSE")
    <2> TAKE x, l
    <2> DEFINE i == JumpIfFalse(x, l)
    <2>1. i.kind = "JUMP_IF_FALSE"
      BY InstructionKinds
    <2> HIDE DEF i
    <2>2. code' = code \o <<i>> => EmitsOne("JUMP_IF_FALSE")
      BY <1>1, <2>1
    <2> QED BY <2>2 DEF i
  <1> QED BY <1>2, <1>3, <1>4

LEMMA OperatesWhole ==
  ASSUME Structured, Used, Whole, Operates
  PROVE  Whole'
  <1>1. todo' = todo
    BY OperatesFields
  <1>2. ASSUME NEW n \in Names, GenerateIdentifier(n)
        PROVE  Whole'
    <2>1. Visit(Identifier(n)) /\ EmitsOne("nothing")
      BY <1>2 DEF GenerateIdentifier, EmitsOne
    <2>2. AskedBy(Identifier(n)) = "nothing"
      BY DEF AskedBy, Identifier, Declares
    <2> QED BY <1>1, <2>1, <2>2, VisitWhole
  <1>3. ASSUME NEW ty \in Types, GenerateLiteral(ty)
        PROVE  Whole'
    <2>1. Visit(Literal(ty)) /\ EmitsOne("nothing")
      BY <1>3 DEF GenerateLiteral, EmitsOne
    <2>2. AskedBy(Literal(ty)) = "nothing"
      BY DEF AskedBy, Literal, Declares
    <2> QED BY <1>1, <2>1, <2>2, VisitWhole
  <1>4. CASE GenerateUnary
    <2>1. Visit(Unary) /\ \E r, x : code' = code \o <<Plain("UNARY", r, x, NoText)>>
      BY <1>4 DEF GenerateUnary, Emit
    <2>2. EmitsOne("UNARY")
      BY <2>1, Emissions
    <2>3. AskedBy(Unary) = "UNARY"
      BY DEF AskedBy, Unary
    <2> QED BY <1>1, <2>1, <2>2, <2>3, VisitWhole
  <1>5. ASSUME NEW op \in BinaryOperators, GenerateBinary(op)
        PROVE  Whole'
    <2>1. Visit(Binary(op)) /\ \E r, x, y : code' = code \o <<Plain("BINARY", r, x, y)>>
      BY <1>5 DEF GenerateBinary, Emit
    <2>2. EmitsOne("BINARY")
      BY <2>1, Emissions
    <2>3. AskedBy(Binary(op)) = "BINARY"
      BY DEF AskedBy, Binary
    <2> QED BY <1>1, <2>1, <2>2, <2>3, VisitWhole
  <1> QED BY <1>2, <1>3, <1>4, <1>5 DEF Operates

LEMMA StatesWhole ==
  ASSUME Structured, Used, Whole, States
  PROVE  Whole'
  <1>1. /\ At("list") /\ status = "running" /\ todo \in Seq(Todo)
        /\ context \in Context /\ next \in Nat
    <2>1. At("list") /\ \E v : Visit(v)
      BY StatesFields
    <2> QED BY <2>1, RunningFields, ReadFields DEF Visit, Come, Structured
  <1>2. WaitedFor(todo) = "nothing"
    BY <1>1, CallerWaitsFor DEF At, Callers
  <1>3. ASSUME NEW n \in Names, NEW ty \in Types, NEW i \in BOOLEAN,
               GenerateDeclaration(n, ty, i)
        PROVE  Whole'
    <2> DEFINE d == [at |-> "declaration", line |-> next, name |-> n, type |-> ty]
    <2>1. Visit(Declaration(n, ty, i)) /\ EmitsOne("nothing")
      BY <1>3 DEF GenerateDeclaration, EmitsOne
    <2>2. AskedBy(Declaration(n, ty, i)) = IF i THEN "ASSIGNMENT" ELSE "nothing"
      BY DEF AskedBy, Declaration, Declares
    <2>3. CASE i
      <3>1. todo' = Append(todo, d)
        BY <1>3, <2>3 DEF GenerateDeclaration
      <3>2. d \in Todo /\ d.at = "declaration"
        BY <1>1, TodoItems
      <3> HIDE DEF d
      <3>3. WaitedFor(todo') = "ASSIGNMENT"
        BY <1>1, <3>1, <3>2, WaitsFor
      <3> QED BY <1>2, <2>1, <2>2, <2>3, <3>3, VisitWhole DEF Counts
    <2>4. CASE ~i
      <3>1. todo' = todo
        BY <1>3, <2>4 DEF GenerateDeclaration
      <3> QED BY <2>1, <2>2, <2>4, <3>1, VisitWhole
    <2> QED BY <2>3, <2>4
  <1>4. ASSUME NEW v, Visit(v), NEW a, EmitsOne(a), a \notin Counts,
               NEW item \in Todo, todo' = Append(todo, item),
               \/ item.at = "assignment" /\ AskedBy(v) = "ASSIGNMENT"
               \/ item.at \in {"if", "while"} /\ AskedBy(v) = "JUMP_IF_FALSE"
        PROVE  Whole'
    <2>1. WaitedFor(todo') = AskedBy(v)
      BY <1>1, <1>4, WaitsFor
    <2> QED BY <1>2, <1>4, <2>1, VisitWhole
  <1>5. ASSUME NEW n \in Names, GenerateAssignment(n)
        PROVE  Whole'
    <2> DEFINE item == [at |-> "assignment", target |-> Resolve(context, n)]
    <2>1. /\ Visit(Assignment(n)) /\ todo' = Append(todo, item) /\ EmitsOne("nothing")
          /\ Resolve(context, n) \in Text
      BY <1>1, <1>5, ResolvedName DEF GenerateAssignment, EmitsOne
    <2>2. item \in Todo /\ item.at = "assignment"
      BY <2>1, TodoItems
    <2> HIDE DEF item
    <2>3. AskedBy(Assignment(n)) = "ASSIGNMENT" /\ "nothing" \notin Counts
      BY DEF AskedBy, Assignment, Counts
    <2> QED BY <1>4, <2>1, <2>2, <2>3
  <1>6. ASSUME NEW n \in Names, GeneratePrint(n)
        PROVE  Whole'
    <2>1. /\ Visit(PrintOf(n)) /\ todo' = todo
          /\ \E x : code' = code \o <<Plain("PRINT", NoText, x, NoText)>>
      BY <1>6 DEF GeneratePrint, Emit
    <2>2. EmitsOne("PRINT")
      BY <2>1, Emissions
    <2>3. AskedBy(PrintOf(n)) = "PRINT"
      BY DEF AskedBy, PrintOf
    <2> QED BY <2>1, <2>2, <2>3, VisitWhole
  <1>7. ASSUME NEW hasElse \in BOOLEAN, GenerateIf(hasElse)
        PROVE  Whole'
    <2> DEFINE item == [at |-> "if", hasElse |-> hasElse]
    <2>1. Visit(If(hasElse)) /\ todo' = Append(todo, item) /\ EmitsOne("nothing")
      BY <1>7 DEF GenerateIf, EmitsOne
    <2>2. item \in Todo /\ item.at = "if"
      BY TodoItems
    <2> HIDE DEF item
    <2>3. AskedBy(If(hasElse)) = "JUMP_IF_FALSE" /\ "nothing" \notin Counts
      BY DEF AskedBy, If, Declares, Counts
    <2> QED BY <1>4, <2>1, <2>2, <2>3
  <1>8. CASE GenerateWhile
    <2> DEFINE k == context.next_label
               item == [at |-> "while", start |-> k, exit |-> k + 1]
    <2>1. Visit(While) /\ todo' = Append(todo, item) /\ code' = code \o <<Label(k)>>
      BY <1>8 DEF GenerateWhile, Emit
    <2>2. k \in Nat
      BY <1>1, SizeMaxAssumption DEF Context
    <2>3. item \in Todo /\ item.at = "while"
      BY <2>2, TodoItems
    <2>4. EmitsOne("LABEL")
      BY <2>1, Emissions
    <2> HIDE DEF item
    <2>5. AskedBy(While) = "JUMP_IF_FALSE" /\ "LABEL" \notin Counts
      BY DEF AskedBy, While, Declares, Counts
    <2> QED BY <1>4, <2>1, <2>3, <2>4, <2>5
  <1> QED BY <1>3, <1>5, <1>6, <1>7, <1>8 DEF States

LEMMA BlocksWhole ==
  ASSUME Structured, Used, Whole, EnterBlock \/ LeaveBlock
  PROVE  Whole'
  <1>1. CASE EnterBlock
    <2>1. /\ Visit(Block) /\ OwnsNextBlock /\ EmitsOne("nothing")
          /\ Owner \in Seq(Todo) /\ todo' = Append(Owner, [at |-> "list"])
      BY <1>1, EnterFields DEF EmitsOne
    <2>2. WaitedFor(todo') = "nothing"
      <3> DEFINE item == [at |-> "list"]
      <3>1. item \in Todo /\ item.at = "list"
        BY TodoItems
      <3> HIDE DEF item
      <3>2. WaitedFor(Append(Owner, item)) = "nothing"
        BY <2>1, <3>1, WaitsFor
      <3> QED BY <2>1, <3>2 DEF item
    <2>3. WaitedFor(todo) = "nothing"
      BY <2>1, CallerWaitsFor DEF OwnsNextBlock, At, Callers
    <2>4. AskedBy(Block) = "nothing"
      BY DEF AskedBy, Block, Declares
    <2> QED BY <2>1, <2>2, <2>3, <2>4, VisitWhole
  <1>2. CASE LeaveBlock
    <2>1. /\ Visit(EndBlock) /\ At("list") /\ todo' = Pop /\ EmitsOne("nothing")
      BY <1>2, LeaveFields DEF EmitsOne
    <2>2. status = "running" /\ Len(todo) > 1
      BY <1>2, <2>1 DEF LeaveBlock, Visit, Come
    <2>3. WaitedFor(todo') = "nothing"
      BY <2>1, <2>2, PopFields, CallerWaitsFor
    <2>4. WaitedFor(todo) = "nothing"
      BY <2>1, CallerWaitsFor DEF At, Callers
    <2>5. AskedBy(EndBlock) = "nothing"
      BY DEF AskedBy, EndBlock, Declares
    <2> QED BY <2>1, <2>3, <2>4, <2>5, VisitWhole
  <1> QED BY <1>1, <1>2

LEMMA FinishWhole ==
  ASSUME Structured, Used, Whole, Returns \/ FinishDeclaration
  PROVE  Whole'
  <1>1. /\ Return /\ ~At("list") /\ status = "running" /\ Read' = Read /\ todo # << >>
    <2>1. Return /\ ~At("list")
      BY ReturnsFields, FinishDeclarationFields DEF At
    <2> QED BY <2>1, ReturnReads, RunningFields
  <1>2. WaitedFor(todo') = "nothing"
    <2>1. \/ todo' = Pop
          \/ \E item \in Todo : todo' = Replaced(item) /\ item.at \in {"then", "else", "body"}
      BY ReturnsFields, FinishDeclarationFields
    <2>2. Last(todo).at # "list"
      BY <1>1 DEF At
    <2>3. Last(Pop).at \in Callers /\ \A item \in Todo : item.at # "list" => Last(Replaced(item)) = item
      BY <1>1, <2>2, PopFields
    <2>4. Last(todo').at \in Callers
      BY <2>1, <2>3 DEF Callers
    <2> QED BY <2>4, CallerWaitsFor
  <1>3. CASE FinishDeclaration \/ FinishAssignment
    <2>1. WaitedFor(todo) = "ASSIGNMENT"
      BY <1>1, <1>3 DEF FinishDeclaration, FinishAssignment, AfterExpression,
         ExpressionDone, At, WaitedFor
    <2>2. \E r, x : code' = code \o <<Plain("ASSIGNMENT", r, x, NoText)>>
      BY <1>3 DEF FinishDeclaration, FinishAssignment, Emit
    <2>3. EmitsOne("ASSIGNMENT")
      BY <2>2, Emissions
    <2> QED BY <1>1, <1>2, <2>1, <2>3, ReturnWhole
  <1>4. CASE FinishIfCondition \/ FinishWhileCondition
    <2>1. WaitedFor(todo) = "JUMP_IF_FALSE"
      BY <1>1, <1>4 DEF FinishIfCondition, FinishWhileCondition, AfterExpression,
         ExpressionDone, At, WaitedFor
    <2>2. \E x, l : code' = code \o <<JumpIfFalse(x, l)>>
      BY <1>4 DEF FinishIfCondition, FinishWhileCondition, Emit
    <2>3. EmitsOne("JUMP_IF_FALSE")
      BY <2>2, Emissions
    <2> QED BY <1>1, <1>2, <2>1, <2>3, ReturnWhole
  <1>5. CASE FinishThen \/ FinishElse \/ FinishBody
    <2>1. WaitedFor(todo) = "nothing"
      BY <1>5, CallerWaitsFor DEF FinishThen, FinishElse, FinishBody, AfterBlock, At, Callers
    <2>2. \A l : Label(l).kind \notin Counts /\ Jump(l).kind \notin Counts
      BY InstructionKinds DEF Counts
    <2>3. \E a : a \notin Counts /\ EmitsOne(a)
      BY <1>5, <2>2 DEF FinishThen, FinishElse, FinishBody, Emit, EmitsOne
    <2> QED BY <1>1, <1>2, <2>1, <2>3, ReturnWhole
  <1> QED BY <1>3, <1>4, <1>5 DEF Returns

LEMMA EmptyWhole ==
  /\ \A kind : Cardinality(Asking(<< >>, kind)) = 0 /\ Cardinality(Emitting(<< >>, kind)) = 0
  /\ WaitedFor(<<[at |-> "list"]>>) = "nothing" /\ WaitedFor(<< >>) = "nothing"
  <1>1. \A kind : Asking(<< >>, kind) = {} /\ Emitting(<< >>, kind) = {}
    BY DEF Asking, Emitting
  <1>2. Last(<<[at |-> "list"]>>) = [at |-> "list"]
    BY DEF Last
  <1>3. WaitedFor(<<[at |-> "list"]>>) = "nothing"
    <2> DEFINE item == [at |-> "list"]
    <2>1. item.at = "list" /\ Last(<<item>>) = item
      BY <1>2
    <2> HIDE DEF item
    <2>2. WaitedFor(<<item>>) = "nothing"
      BY <2>1, CallerWaitsFor DEF Callers
    <2> QED BY <2>2 DEF item
  <1>4. WaitedFor(<< >>) = "nothing"
    BY DEF WaitedFor
  <1>5. \A kind : Cardinality(Asking(<< >>, kind)) = 0 /\ Cardinality(Emitting(<< >>, kind)) = 0
    BY <1>1, FS_EmptySet
  <1> QED BY <1>3, <1>4, <1>5

LEMMA NextWhole ==
  ASSUME Structured, Used, Whole, [Next]_vars
  PROVE  Whole'
  <1>1. CASE UNCHANGED vars
    <2>1. Read' = Read /\ EmitsOne("nothing") /\ todo' = todo /\ status' = status
      BY <1>1 DEF vars, Read, EmitsOne
    <2>2. "nothing" \notin Counts
      BY DEF Counts
    <2> QED BY <2>1, <2>2, ReturnWhole DEF Whole
  <1>2. ASSUME NEW ast \in Programs, Begin(ast)
        PROVE  Whole'
    <2>1. Read' = << >> /\ code' = << >> /\ todo' = <<[at |-> "list"]>>
      BY <1>2, ProgramsAssumption DEF Begin, Read
    <2>2. \A kind \in Counts :
            (Cardinality(Asking(Read, kind))
               = Cardinality(Emitting(code, kind)) + One(WaitedFor(todo), kind))'
      <3>1. \A kind : Asking(Read, kind)' = Asking(<< >>, kind)
        BY <2>1 DEF Asking
      <3>2. \A kind : Emitting(code, kind)' = Emitting(<< >>, kind)
        BY <2>1 DEF Emitting
      <3>3. \A kind \in Counts : One(WaitedFor(todo), kind)' = 0
        BY <2>1, EmptyWhole DEF One, WaitedFor, Last, Counts
      <3> QED BY <3>1, <3>2, <3>3, EmptyWhole
    <2> QED BY <2>2 DEF Whole, Counts
  <1>3. CASE \/ \E ast \in Programs : BeginFails(ast)
             \/ Destroy \/ Failed
    BY <1>3 DEF BeginFails, Destroy, Failed, Abort, Whole
  <1>4. CASE End
    <2>1. /\ status = "running" /\ Read' = Read /\ EmitsOne("nothing")
          /\ todo = <<[at |-> "list"]>> /\ todo' = << >> /\ "nothing" \notin Counts
      BY <1>4 DEF End, Read, EmitsOne, Counts
    <2>2. WaitedFor(todo') = WaitedFor(todo)
      BY <2>1, EmptyWhole
    <2> QED BY <2>1, <2>2, ReturnWhole
  <1> QED BY <1>1, <1>2, <1>3, <1>4, StepKinds, OperatesWhole, StatesWhole, BlocksWhole,
             FinishWhole

\* The visits that ask for an instruction.
LEMMA AskingKinds ==
  ASSUME NEW text \in Seq(Visits)
  PROVE  LET visits(K) == {p \in DOMAIN text : text[p].kind \in K}
             initialized == {d \in DOMAIN text : Declares(text[d]) /\ text[d].initialized}
         IN  /\ Asking(text, "PRINT") = visits({"print"})
             /\ Asking(text, "UNARY") = visits({"unary"})
             /\ Asking(text, "BINARY") = visits({"binary"})
             /\ Asking(text, "JUMP_IF_FALSE") = visits({"if", "while"})
             /\ Cardinality(Asking(text, "ASSIGNMENT"))
                  = Cardinality(visits({"assignment"})) + Cardinality(initialized)
  <1> DEFINE visits(K) == {p \in DOMAIN text : text[p].kind \in K}
             initialized == {d \in DOMAIN text : Declares(text[d]) /\ text[d].initialized}
  <1>1. /\ Asking(text, "PRINT") = visits({"print"})
        /\ Asking(text, "UNARY") = visits({"unary"})
        /\ Asking(text, "BINARY") = visits({"binary"})
        /\ Asking(text, "JUMP_IF_FALSE") = visits({"if", "while"})
    BY DEF Asking, AskedBy, Declares
  <1>2. /\ Asking(text, "ASSIGNMENT") = visits({"assignment"}) \cup initialized
        /\ visits({"assignment"}) \cap initialized = {}
    BY DEF Asking, AskedBy, Declares
  <1>3. IsFiniteSet(visits({"assignment"})) /\ IsFiniteSet(initialized)
    <2>1. Len(text) \in Nat /\ DOMAIN text = 1 .. Len(text)
      OBVIOUS
    <2>2. visits({"assignment"}) \in SUBSET (1 .. Len(text))
          /\ initialized \in SUBSET (1 .. Len(text))
      BY <2>1
    <2> HIDE DEF visits, initialized
    <2> QED BY <2>1, <2>2, OneMore
  <1> HIDE DEF visits, initialized
  <1>4. Cardinality(Asking(text, "ASSIGNMENT"))
          = Cardinality(visits({"assignment"})) + Cardinality(initialized)
    <2>1. /\ Cardinality(visits({"assignment"})) \in Nat /\ Cardinality(initialized) \in Nat
          /\ Cardinality(visits({"assignment"}) \cap initialized) = 0
      BY <1>2, <1>3, FS_CardinalityType, FS_EmptySet
    <2>2. Cardinality(visits({"assignment"}) \cup initialized)
            = Cardinality(visits({"assignment"})) + Cardinality(initialized)
                - Cardinality(visits({"assignment"}) \cap initialized)
      BY <1>3, FS_Union
    <2>3. Cardinality(Asking(text, "ASSIGNMENT"))
            = Cardinality(visits({"assignment"}) \cup initialized)
      BY <1>2
    <2> DEFINE a == Cardinality(visits({"assignment"}))
               b == Cardinality(initialized)
               c == Cardinality(visits({"assignment"}) \cap initialized)
    <2>4. a \in Nat /\ b \in Nat /\ c = 0
      BY <2>1
    <2>5. Cardinality(Asking(text, "ASSIGNMENT")) = a + b - c
      BY <2>2, <2>3
    <2> HIDE DEF a, b, c
    <2>6. Cardinality(Asking(text, "ASSIGNMENT")) = a + b
      BY <2>4, <2>5
    <2> QED BY <2>6 DEF a, b
  <1> QED BY <1>1, <1>4 DEF visits, initialized

\* A program that is handed out has an instruction for each visit that asks
\* for one.
WholeCode ==
  output # << >> =>
    LET visits(K) == Cardinality({p \in DOMAIN program : program[p].kind \in K})
        instructions(kind) == Cardinality({i \in DOMAIN code : code[i].kind = kind})
        initialized == Cardinality({d \in DOMAIN program : Declares(program[d])
                                                           /\ program[d].initialized})
    IN  /\ instructions("PRINT") = visits({"print"})
        /\ instructions("UNARY") = visits({"unary"})
        /\ instructions("BINARY") = visits({"binary"})
        /\ instructions("ASSIGNMENT") = visits({"assignment"}) + initialized
        /\ instructions("JUMP_IF_FALSE") = visits({"if", "while"})

\* The theorem: no program is handed out but the whole one, whatever fails on
\* the way to it, and it comes with SUCCESS.  (generate_statement,
\* append_instruction, tac_generate.)
THEOREM ProgramsAreWhole == Spec => [](WholeCode /\ Handed)
  <1>1. Init => Whole /\ Complete /\ Handed
    BY DEF Init, Whole, Complete, Handed
  <1>2. ASSUME Structured, Scoped, Complete, Used, Whole, Handed, output # << >>,
               NEW kind \in Counts
        PROVE  Cardinality(Asking(program, kind)) = Cardinality(Emitting(code, kind))
    <2>1. status = "SUCCESS"
      BY <1>2 DEF Handed
    <2>2. Read = program /\ todo = << >>
      BY <1>2, <2>1, SuccessFields
    <2>3. One(WaitedFor(todo), kind) = 0
      BY <2>2, EmptyWhole DEF One, Counts
    <2>4. Cardinality(Emitting(code, kind)) \in Nat
      BY <1>2, EmittingAppend DEF Used
    <2> QED BY <1>2, <2>1, <2>2, <2>3, <2>4 DEF Whole
  <1>3. ASSUME Structured, Scoped, Complete, Used, Whole, Handed, output # << >>
        PROVE  WholeCode
    <2>1. program \in Seq(Visits)
      BY <1>3 DEF Structured, Typed
    <2>2. \A kind \in Counts :
            Cardinality(Asking(program, kind)) = Cardinality(Emitting(code, kind))
      BY <1>2, <1>3
    <2>3. /\ Cardinality(Asking(program, "PRINT")) = Cardinality(Emitting(code, "PRINT"))
          /\ Cardinality(Asking(program, "UNARY")) = Cardinality(Emitting(code, "UNARY"))
          /\ Cardinality(Asking(program, "BINARY")) = Cardinality(Emitting(code, "BINARY"))
          /\ Cardinality(Asking(program, "ASSIGNMENT"))
               = Cardinality(Emitting(code, "ASSIGNMENT"))
          /\ Cardinality(Asking(program, "JUMP_IF_FALSE"))
               = Cardinality(Emitting(code, "JUMP_IF_FALSE"))
      BY <2>2 DEF Counts
    <2> QED BY <2>1, <2>3, AskingKinds DEF WholeCode, Emitting
  <1>4. Structured /\ Scoped /\ Complete /\ Used /\ Whole /\ Handed => WholeCode
    BY <1>3 DEF WholeCode
  <1>5. Spec => []Used
    BY UsesAreStored
  <1> QED BY <1>1, <1>4, <1>5, StorageIsKept, NextWhole, NextComplete, NextHanded,
             PTL DEF Spec

-----------------------------------------------------------------------------
(* Operators find their operands. *)

\* The generator has come to a statement that awaits an expression.
ExpressionWaits == At("declaration") \/ At("assignment") \/ At("if") \/ At("while")

\* The program is one of those it may be given, and nothing between two calls.
Given == /\ program \in Programs \cup {<< >>}
         /\ status = "none" => program = << >>

\* As many texts wait as there are operands in the part of the expression that
\* was read; between statements there is none, nor an expression to come.
Fitting ==
  /\ operands \in Seq(Text)
  /\ code \in Seq(Instruction)
  /\ output \in {<< >>, <<code>>}
  /\ ExpressionWaits => \E s : Half(program, s, next - 1, Len(operands))
  /\ ~ExpressionWaits => operands = << >> /\ (status = "running" => ~ExpressionComes)

\* What can be emitted.
LEMMA Instructions ==
  /\ \A kind \in {"ASSIGNMENT", "UNARY", "BINARY", "PRINT"}, r, x, y \in Text :
       Plain(kind, r, x, y) \in Instruction
  /\ \A l \in Nat : Label(l) \in Instruction /\ Jump(l) \in Instruction
  /\ \A x \in Text, l \in Nat : JumpIfFalse(x, l) \in Instruction
  <1>1. NoText \in Text /\ NoLabel \in Nat
    BY TextsOfNames DEF NoLabel
  <1>2. \A kind \in {"ASSIGNMENT", "UNARY", "BINARY", "PRINT"}, r, x, y \in Text :
          Plain(kind, r, x, y) \in Instruction
    BY <1>1 DEF Plain, Instruction
  <1>3. \A kind \in {"LABEL", "JUMP", "JUMP_IF_FALSE"}, x \in Text, l \in Nat :
          Control(kind, x, l) \in Instruction
    BY <1>1 DEF Control, Instruction
  <1> QED BY <1>1, <1>2, <1>3 DEF Label, Jump, JumpIfFalse

LEMMA EmittedTyped ==
  ASSUME NEW c \in Seq(Instruction)
  PROVE  /\ \A x \in Instruction : c \o <<x>> \in Seq(Instruction)
         /\ \A x, y \in Instruction : c \o <<x, y>> \in Seq(Instruction)
  OBVIOUS

\* What a step has to show while the generator runs.
LEMMA RunningFits ==
  ASSUME Handed, Fitting, status = "running", program' = program, output' = output,
         operands' \in Seq(Text), code' \in Seq(Instruction),
         ExpressionWaits' => \E s : Half(program, s, next' - 1, Len(operands')),
         ~ExpressionWaits' => operands' = << >> /\ ~ExpressionComes'
  PROVE  Fitting'
  <1>1. output' = << >>
    BY DEF Handed, Fitting
  <1> QED BY <1>1 DEF Fitting

\* What is known of an expression that is come to: the texts it takes wait.
LEMMA OperandsWait ==
  ASSUME Structured, Fitting, Formed(program), NEW v, Visit(v), IsExpression(v)
  PROVE  /\ ExpressionWaits /\ operands \in Seq(Text) /\ code \in Seq(Instruction)
         /\ Len(operands) \in Nat /\ Len(operands) >= 1 - Weight(v)
         /\ \E s : Half(program, s, next, Len(operands) + Weight(v))
  <1> DEFINE n == Len(operands)
             b == next - 1
  <1>1. /\ status = "running" /\ next \in DOMAIN program /\ program[next] = v
        /\ program \in Seq(Visits) /\ operands \in Seq(Text) /\ n \in Nat
        /\ next \in Nat \ {0} /\ DOMAIN program \subseteq Nat \ {0}
        /\ code \in Seq(Instruction)
    BY VisitReads, ReadFields DEF Structured, Typed, Fitting
  <1>2. ExpressionWaits
    BY <1>1 DEF Fitting, ExpressionComes
  <1>3. PICK s : Half(program, s, b, n)
    BY <1>2 DEF Fitting
  <1>4. b \in Nat /\ b + 1 = next
    BY <1>1
  <1> HIDE DEF n, b
  <1>5. PICK t, k : k >= 1 - Weight(v) /\ Half(program, t, b, k)
    <2>1. Fed(program)
      BY DEF Formed
    <2>2. b = next - 1
      BY DEF b
    <2> QED BY <1>1, <2>1, <2>2, ExpressionFed
  <1>6. k = n
    BY <1>3, <1>4, <1>5, HalfIsOne
  <1>7. Half(program, s, next, n + Weight(v))
    BY <1>1, <1>3, <1>4, HalfGrows
  <1> QED BY <1>1, <1>2, <1>5, <1>6, <1>7 DEF n

\* A name, a literal or an operator.
LEMMA OperatesFit ==
  ASSUME Structured, Handed, Fitting, Formed(program), Operates
  PROVE  Fitting'
  <1>1. /\ todo' = todo /\ context \in Context /\ \E v : Visit(v)
    BY OperatesFields DEF Structured, Typed
  <1>2. ASSUME NEW v, Visit(v), IsExpression(v), operands' \in Seq(Text),
               Len(operands') = Len(operands) + Weight(v), code' \in Seq(Instruction)
        PROVE  Fitting'
    <2>1. /\ status = "running" /\ program' = program /\ output' = output
          /\ next' = next + 1 /\ next \in Nat
      BY <1>2, VisitReads, ReadFields DEF Structured
    <2>2. ExpressionWaits /\ \E s : Half(program, s, next, Len(operands'))
      BY <1>2, OperandsWait
    <2>3. ExpressionWaits'
      BY <1>1, <2>2 DEF ExpressionWaits, At
    <2>4. next' - 1 = next
      BY <2>1
    <2> QED BY <1>2, <2>1, <2>2, <2>3, <2>4, RunningFits
  <1>3. /\ operands \in Seq(Text) /\ Len(operands) \in Nat /\ code \in Seq(Instruction)
        /\ \A x \in Text : /\ Append(operands, x) \in Seq(Text)
                           /\ Len(Append(operands, x)) = Len(operands) + 1
    BY DEF Fitting
  <1>4. ASSUME Len(operands) >= 1
        PROVE  /\ Last(operands) \in Text /\ Front(operands) \in Seq(Text)
               /\ Len(Front(operands)) = Len(operands) - 1
               /\ \A x \in Text : /\ Append(Front(operands), x) \in Seq(Text)
                                  /\ Len(Append(Front(operands), x)) = Len(operands)
    <2>1. operands # << >>
      BY <1>4
    <2>2. /\ Last(operands) \in Text /\ Front(operands) \in Seq(Text)
          /\ Len(Front(operands)) = Len(operands) - 1
      BY <1>3, <2>1, LastAndFront
    <2> QED BY <1>3, <2>2
  <1>5. ASSUME NEW n \in Names, GenerateIdentifier(n)
        PROVE  Fitting'
    <2> DEFINE v == Identifier(n)
    <2>1. IsExpression(v) /\ Weight(v) = 1
      BY DEF Identifier, IsExpression, Weight
    <2>2. /\ Visit(v) /\ operands' = Append(operands, Resolve(context, n))
          /\ code' = code
      BY <1>5 DEF GenerateIdentifier
    <2> HIDE DEF v
    <2>3. Resolve(context, n) \in Text
      BY <1>1, ResolvedName
    <2> QED BY <1>2, <1>3, <2>1, <2>2, <2>3
  <1>6. ASSUME NEW ty \in Types, GenerateLiteral(ty)
        PROVE  Fitting'
    <2> DEFINE v == Literal(ty)
    <2>1. IsExpression(v) /\ Weight(v) = 1
      BY DEF Literal, IsExpression, Weight
    <2>2. Visit(v) /\ operands' = Append(operands, LiteralText) /\ code' = code
      BY <1>6 DEF GenerateLiteral
    <2> HIDE DEF v
    <2> QED BY <1>2, <1>3, <2>1, <2>2, TextsOfNames
  <1>7. CASE GenerateUnary
    <2>1. IsExpression(Unary) /\ Weight(Unary) = 0
      BY DEF Unary, IsExpression, Weight
    <2>2. PICK k \in Temporaries(context) :
            /\ operands' = Append(Front(operands), Temporary(k))
            /\ code' = code \o <<Plain("UNARY", Temporary(k), Last(operands), NoText)>>
      BY <1>7 DEF GenerateUnary, Emit
    <2>3. Visit(Unary)
      BY <1>7 DEF GenerateUnary
    <2>4. Len(operands) >= 1 - 0
      BY <2>1, <2>3, OperandsWait
    <2>5. Len(operands) >= 1 /\ Temporary(k) \in Text
      <3>1. Len(operands) >= 1
        BY <1>3, <2>4
      <3>2. k \in Nat
        BY <1>1, TakeEffects
      <3> QED BY <3>1, <3>2, TextsOfNames
    <2>6. Plain("UNARY", Temporary(k), Last(operands), NoText) \in Instruction
      BY <1>4, <2>5, TextsOfNames, Instructions
    <2>7. code' \in Seq(Instruction)
      BY <1>3, <2>2, <2>6, EmittedTyped
    <2>8. operands' \in Seq(Text) /\ Len(operands') = Len(operands)
      BY <1>4, <2>2, <2>5
    <2>9. Len(operands') = Len(operands) + Weight(Unary)
      BY <1>3, <2>1, <2>8
    <2> QED BY <1>2, <2>1, <2>3, <2>7, <2>8, <2>9
  <1>8. ASSUME NEW op \in BinaryOperators, GenerateBinary(op)
        PROVE  Fitting'
    <2> DEFINE v == Binary(op)
               f == Front(operands)
    <2>1. IsExpression(v) /\ Weight(v) = -1
      BY DEF Binary, IsExpression, Weight
    <2>2. PICK k \in Temporaries(context) :
            /\ operands' = Append(Front(f), Temporary(k))
            /\ code' = code \o <<Plain("BINARY", Temporary(k), Last(f), Last(operands))>>
      BY <1>8 DEF GenerateBinary, Emit
    <2>3. Visit(v)
      BY <1>8 DEF GenerateBinary
    <2> HIDE DEF v
    <2>4. Len(operands) >= 1 - (-1)
      BY <2>1, <2>3, OperandsWait
    <2>5. /\ Len(operands) >= 1 /\ Len(operands) - 1 # 0 /\ Temporary(k) \in Text
      <3> DEFINE n == Len(operands)
      <3>1. n \in Nat /\ n >= 1 - (-1)
        BY <1>3, <2>4
      <3> HIDE DEF n
      <3>2. n >= 1 /\ n - 1 # 0
        BY <3>1
      <3>3. k \in Nat
        BY <1>1, TakeEffects
      <3> QED BY <3>2, <3>3, TextsOfNames DEF n
    <2>6. f \in Seq(Text) /\ Len(f) = Len(operands) - 1 /\ Last(operands) \in Text
      BY <1>4, <2>5
    <2> HIDE DEF f
    <2>7. f # << >>
      BY <2>5, <2>6
    <2>8. /\ Last(f) \in Text /\ Front(f) \in Seq(Text) /\ Len(Front(f)) = Len(f) - 1
      BY <2>6, <2>7, LastAndFront
    <2>9. Plain("BINARY", Temporary(k), Last(f), Last(operands)) \in Instruction
      BY <2>5, <2>6, <2>8, Instructions
    <2>10. code' \in Seq(Instruction)
      BY <1>3, <2>2, <2>9, EmittedTyped
    <2>11. operands' \in Seq(Text) /\ Len(operands') = Len(f) - 1 + 1
      <3> DEFINE g == Front(f)
                 x == Temporary(k)
      <3>1. g \in Seq(Text) /\ x \in Text /\ Len(g) = Len(f) - 1 /\ operands' = Append(g, x)
        BY <2>2, <2>5, <2>8
      <3> HIDE DEF g, x
      <3> QED BY <3>1
    <2>12. Len(operands') = Len(operands) + Weight(v)
      BY <1>3, <2>1, <2>6, <2>11
    <2> QED BY <1>2, <2>1, <2>3, <2>10, <2>11, <2>12
  <1> QED BY <1>5, <1>6, <1>7, <1>8 DEF Operates

\* A statement or a block: if it awaits an expression, none of it was read yet.
LEMMA StatementFits ==
  ASSUME Structured, Handed, Fitting, Formed(program), NEW v, Visit(v),
         ~IsExpression(v), ~ExpressionWaits, operands' = operands,
         code' \in Seq(Instruction), ExpressionWaits' <=> Awaits(v)
  PROVE  Fitting'
  <1>1. /\ status = "running" /\ program' = program /\ output' = output
        /\ next' = next + 1 /\ next \in Nat \ {0} /\ program[next] = v
        /\ DOMAIN program \subseteq Nat \ {0}
    BY VisitReads, ReadFields DEF Structured, Typed
  <1>2. operands' = << >> /\ operands' \in Seq(Text) /\ Len(operands') = 0
    BY DEF Fitting
  <1>3. next' - 1 = next
    BY <1>1
  <1>4. ASSUME ExpressionWaits'
        PROVE  Half(program, next, next' - 1, Len(operands'))
    <2>1. Half(program, next, next, 0)
      BY <1>1, <1>4, HalfBegins
    <2> QED BY <1>2, <1>3, <2>1
  <1>5. ASSUME ~ExpressionWaits'
        PROVE  ~ExpressionComes'
    <2> SUFFICES ASSUME next' \in DOMAIN program
                 PROVE  ~IsExpression(program[next'])
      BY <1>1 DEF ExpressionComes
    <2>1. ~IsExpression(program[next' - 1]) /\ ~Awaits(program[next' - 1])
      BY <1>1, <1>3, <1>5
    <2>2. Fed(program)
      BY DEF Formed
    <2> QED BY <1>1, <2>1, <2>2, ExpressionAwaited
  <1> QED BY <1>1, <1>2, <1>4, <1>5, RunningFits

LEMMA StatesFit ==
  ASSUME Structured, Handed, Fitting, Formed(program), States
  PROVE  Fitting'
  <1>1. /\ At("list") /\ ~ExpressionWaits /\ todo \in Seq(Todo) /\ context \in Context
        /\ code \in Seq(Instruction) /\ context.next_label \in Nat
    BY StatesFields, SizeMaxAssumption
       DEF Structured, Typed, Context, ExpressionWaits, At, Fitting
  <1>2. ASSUME NEW item, todo' = Append(todo, item),
               item.at \in {"declaration", "assignment", "if", "while"}
        PROVE  ExpressionWaits'
    <2>1. todo' # << >> /\ Last(todo') = item
      BY <1>1, <1>2 DEF Last
    <2> QED BY <1>2, <2>1 DEF ExpressionWaits, At
  <1>3. todo' = todo => ~ExpressionWaits'
    BY <1>1 DEF ExpressionWaits, At
  <1>4. ASSUME NEW n \in Names, NEW ty \in Types, NEW i \in BOOLEAN,
               GenerateDeclaration(n, ty, i)
        PROVE  Fitting'
    <2> DEFINE v == Declaration(n, ty, i)
               d == [at |-> "declaration", line |-> next, name |-> n, type |-> ty]
    <2>1. ~IsExpression(v) /\ (Awaits(v) <=> i)
      BY DEF Declaration, IsExpression, Awaits, Declares
    <2>2. /\ Visit(v) /\ operands' = operands /\ code' = code
          /\ i => todo' = Append(todo, d)
          /\ ~i => todo' = todo
      BY <1>4 DEF GenerateDeclaration
    <2>3. d.at = "declaration"
      OBVIOUS
    <2> HIDE DEF v, d
    <2>4. ExpressionWaits' <=> i
      BY <1>2, <1>3, <2>2, <2>3
    <2> QED BY <1>1, <2>1, <2>2, <2>4, StatementFits
  <1>5. ASSUME NEW n \in Names, GenerateAssignment(n)
        PROVE  Fitting'
    <2> DEFINE v == Assignment(n)
               item == [at |-> "assignment", target |-> Resolve(context, n)]
    <2>1. ~IsExpression(v) /\ Awaits(v)
      BY DEF Assignment, IsExpression, Awaits
    <2>2. /\ Visit(v) /\ operands' = operands /\ code' = code
          /\ todo' = Append(todo, item) /\ item.at = "assignment"
      BY <1>5 DEF GenerateAssignment
    <2> HIDE DEF v, item
    <2>3. ExpressionWaits'
      BY <1>2, <2>2
    <2> QED BY <1>1, <2>1, <2>2, <2>3, StatementFits
  <1>6. ASSUME NEW n \in Names, GeneratePrint(n)
        PROVE  Fitting'
    <2> DEFINE v == PrintOf(n)
               x == Plain("PRINT", NoText, Resolve(context, n), NoText)
    <2>1. ~IsExpression(v) /\ ~Awaits(v)
      BY DEF PrintOf, IsExpression, Awaits, Declares
    <2>2. /\ Visit(v) /\ operands' = operands /\ todo' = todo /\ code' = code \o <<x>>
      BY <1>6 DEF GeneratePrint, Emit
    <2>3. x \in Instruction
      <3>1. Resolve(context, n) \in Text /\ NoText \in Text
        BY <1>1, ResolvedName, TextsOfNames
      <3> QED BY <3>1, Instructions
    <2> HIDE DEF v, x
    <2>4. code' \in Seq(Instruction)
      BY <1>1, <2>2, <2>3, EmittedTyped
    <2> QED BY <1>1, <1>3, <2>1, <2>2, <2>4, StatementFits
  <1>7. ASSUME NEW hasElse \in BOOLEAN, GenerateIf(hasElse)
        PROVE  Fitting'
    <2> DEFINE v == If(hasElse)
               item == [at |-> "if", hasElse |-> hasElse]
    <2>1. ~IsExpression(v) /\ Awaits(v)
      BY DEF If, IsExpression, Awaits
    <2>2. /\ Visit(v) /\ operands' = operands /\ code' = code
          /\ todo' = Append(todo, item) /\ item.at = "if"
      BY <1>7 DEF GenerateIf
    <2> HIDE DEF v, item
    <2>3. ExpressionWaits'
      BY <1>2, <2>2
    <2> QED BY <1>1, <2>1, <2>2, <2>3, StatementFits
  <1>8. CASE GenerateWhile
    <2> DEFINE k == context.next_label
               item == [at |-> "while", start |-> k, exit |-> k + 1]
    <2>1. ~IsExpression(While) /\ Awaits(While)
      BY DEF While, IsExpression, Awaits
    <2>2. /\ Visit(While) /\ operands' = operands /\ code' = code \o <<Label(k)>>
          /\ todo' = Append(todo, item) /\ item.at = "while"
      BY <1>8 DEF GenerateWhile, Emit
    <2> HIDE DEF item
    <2>3. ExpressionWaits'
      BY <1>2, <2>2
    <2>4. code' \in Seq(Instruction)
      BY <1>1, <2>2, EmittedTyped, Instructions
    <2> QED BY <1>1, <2>1, <2>2, <2>3, <2>4, StatementFits
  <1> QED BY <1>4, <1>5, <1>6, <1>7, <1>8 DEF States

\* A block is entered or left.
LEMMA BlocksFit ==
  ASSUME Structured, Handed, Fitting, Formed(program), EnterBlock \/ LeaveBlock
  PROVE  Fitting'
  <1>1. /\ ~IsExpression(Block) /\ ~Awaits(Block)
        /\ ~IsExpression(EndBlock) /\ ~Awaits(EndBlock)
    BY DEF Block, EndBlock, IsExpression, Awaits, Declares
  <1>2. code \in Seq(Instruction)
    BY DEF Fitting
  <1>3. CASE EnterBlock
    <2>1. /\ Visit(Block) /\ OwnsNextBlock /\ code' = code
          /\ Owner \in Seq(Todo) /\ todo' = Append(Owner, [at |-> "list"])
      BY <1>3, EnterFields
    <2>2. operands' = operands
      BY <1>3 DEF EnterBlock
    <2>3. ~ExpressionWaits
      BY <2>1 DEF OwnsNextBlock, ExpressionWaits, At
    <2>4. Last(todo').at = "list"
      <3> DEFINE item == [at |-> "list"]
      <3>1. item \in Todo /\ item.at = "list"
        BY TodoItems
      <3> HIDE DEF item
      <3>2. Last(Append(Owner, item)) = item
        BY <2>1, <3>1, LastOfAppend
      <3> QED BY <2>1, <3>1, <3>2 DEF item
    <2>5. ~ExpressionWaits'
      BY <2>4 DEF ExpressionWaits, At
    <2> QED BY <1>1, <1>2, <2>1, <2>2, <2>3, <2>5, StatementFits
  <1>4. CASE LeaveBlock
    <2>1. /\ Visit(EndBlock) /\ At("list") /\ todo' = Pop /\ code' = code
      BY <1>4, LeaveFields
    <2>2. status = "running" /\ Len(todo) > 1 /\ operands' = operands
      BY <1>4, <2>1 DEF LeaveBlock, Visit, Come
    <2>3. ~ExpressionWaits
      BY <2>1 DEF ExpressionWaits, At
    <2>4. Last(todo').at \in Callers
      BY <2>1, <2>2, PopFields
    <2>5. ~ExpressionWaits'
      BY <2>4 DEF ExpressionWaits, At, Callers
    <2> QED BY <1>1, <1>2, <2>1, <2>2, <2>3, <2>5, StatementFits
  <1> QED BY <1>3, <1>4

\* What waits when the expression of a statement is over: the text of its value.
LEMMA ValueWaits ==
  ASSUME Structured, Fitting, Formed(program), status = "running", ExpressionWaits,
         ~ExpressionComes
  PROVE  operands[1] \in Text
  <1> DEFINE n == Len(operands)
             b == next - 1
  <1>1. PICK s : Half(program, s, b, n)
    BY DEF Fitting
  <1>2. /\ program \in Seq(Visits) /\ DOMAIN program = 1 .. Len(program)
        /\ Len(program) \in Nat /\ next \in Nat \ {0}
        /\ next \in 1 .. Len(program) + 1
        /\ operands \in Seq(Text) /\ n \in Nat
        /\ ~(next \in DOMAIN program /\ IsExpression(program[next]))
    BY ReadFields DEF Structured, Typed, Fitting, ExpressionComes
  <1>3. b \in Nat /\ b + 1 = next /\ (b >= 1 => b \in DOMAIN program)
    BY <1>2
  <1> HIDE DEF n, b
  <1>4. s \in 1 .. b
    BY <1>1 DEF Half
  <1>5. b \in DOMAIN program
    BY <1>3, <1>4
  <1>6. ~(b + 1 \in DOMAIN program /\ IsExpression(program[b + 1]))
    BY <1>2, <1>3
  <1>7. n >= 1
    BY <1>1, <1>2, <1>3, <1>5, <1>6, HalfDone
  <1> QED BY <1>2, <1>7 DEF n

\* The return to a statement.
LEMMA ReturnFits ==
  ASSUME Structured, Handed, Fitting, Return, ~ExpressionComes, operands' = << >>,
         code' \in Seq(Instruction),
         todo' = << >> \/ Last(todo').at \in Callers
  PROVE  Fitting'
  <1>1. /\ status = "running" /\ program' = program /\ output' = output /\ next' = next
    BY ReturnReads
  <1>2. ~ExpressionWaits'
    BY DEF ExpressionWaits, At, Callers
  <1>3. ~ExpressionComes'
    BY <1>1 DEF ExpressionComes
  <1>4. operands' \in Seq(Text)
    OBVIOUS
  <1> QED BY <1>1, <1>2, <1>3, <1>4, RunningFits

LEMMA FinishFits ==
  ASSUME Structured, Handed, Fitting, Formed(program), Returns \/ FinishDeclaration
  PROVE  Fitting'
  <1> DEFINE last == Last(todo)
  <1>1. /\ Return /\ status = "running" /\ last.at # "list" /\ todo # << >>
        /\ last \in Todo /\ context' \in Context
        /\ context \in Context /\ context.next_label \in Nat
        /\ operands \in Seq(Text) /\ code \in Seq(Instruction)
    <2>1. Return /\ ~At("list") /\ context' \in Context
      BY ReturnsFields, FinishDeclarationFields DEF At
    <2> QED BY <2>1, ReturnReads, RunningFields, SizeMaxAssumption DEF At, Context, Fitting
  <1>2. Last(todo').at \in Callers
    <2>1. \/ todo' = Pop
          \/ \E item \in Todo : todo' = Replaced(item) /\ item.at \in {"then", "else", "body"}
      BY ReturnsFields, FinishDeclarationFields
    <2>2. /\ Last(Pop).at \in Callers
          /\ \A item \in Todo : item.at # "list" => Last(Replaced(item)) = item
      BY <1>1, PopFields
    <2> QED BY <2>1, <2>2 DEF Callers
  <1>3. ASSUME NEW where \in {"declaration", "assignment", "if", "while"},
               AfterExpression(where), NEW x,
               code' = code \o <<x>>, operands[1] \in Text => x \in Instruction
        PROVE  Fitting'
    <2>1. ExpressionWaits /\ ~ExpressionComes /\ operands' = << >>
      BY <1>3 DEF AfterExpression, ExpressionDone, ExpressionWaits
    <2>2. operands[1] \in Text
      BY <1>1, <2>1, ValueWaits
    <2>3. code' \in Seq(Instruction)
      BY <1>1, <1>3, <2>2, EmittedTyped
    <2> QED BY <1>1, <1>2, <2>1, <2>3, ReturnFits
  <1>4. ASSUME NEW where \in {"then", "else", "body"}, AfterBlock(where),
               code' \in Seq(Instruction)
        PROVE  Fitting'
    <2>1. operands' = operands /\ last.at = where
      BY <1>4 DEF AfterBlock, At
    <2>2. ~ExpressionWaits
      BY <2>1 DEF ExpressionWaits, At
    <2>3. operands' = << >> /\ ~ExpressionComes
      BY <1>1, <2>1, <2>2 DEF Fitting
    <2> QED BY <1>1, <1>2, <1>4, <2>3, ReturnFits
  <1>5. CASE FinishDeclaration
    <2> DEFINE r == Resolve(context', last.name)
               x == Plain("ASSIGNMENT", r, operands[1], NoText)
    <2>1. AfterExpression("declaration") /\ code' = code \o <<x>>
      BY <1>5 DEF FinishDeclaration, Emit
    <2>2. r \in Text /\ NoText \in Text
      BY <1>1, ResolvedName, TextsOfNames
    <2> HIDE DEF r
    <2>3. operands[1] \in Text => x \in Instruction
      BY <2>2, Instructions
    <2> HIDE DEF x
    <2> QED BY <1>3, <2>1, <2>3
  <1>6. CASE FinishAssignment
    <2> DEFINE r == last.target
               x == Plain("ASSIGNMENT", r, operands[1], NoText)
    <2>1. AfterExpression("assignment") /\ code' = code \o <<x>> /\ last.at = "assignment"
      BY <1>6 DEF FinishAssignment, Emit, AfterExpression, ExpressionDone, At
    <2>2. r \in Text /\ NoText \in Text
      BY <1>1, <2>1, TodoFields, TextsOfNames
    <2> HIDE DEF r
    <2>3. operands[1] \in Text => x \in Instruction
      BY <2>2, Instructions
    <2> HIDE DEF x
    <2> QED BY <1>3, <2>1, <2>3
  <1>7. CASE FinishIfCondition
    <2> DEFINE l == context.next_label
               x == JumpIfFalse(operands[1], l)
    <2>1. AfterExpression("if") /\ code' = code \o <<x>>
      BY <1>7 DEF FinishIfCondition, Emit
    <2>2. operands[1] \in Text => x \in Instruction
      BY <1>1, Instructions
    <2> HIDE DEF x
    <2> QED BY <1>3, <2>1, <2>2
  <1>8. CASE FinishWhileCondition
    <2> DEFINE l == last.exit
               x == JumpIfFalse(operands[1], l)
    <2>1. AfterExpression("while") /\ code' = code \o <<x>> /\ last.at = "while"
      BY <1>8 DEF FinishWhileCondition, Emit, AfterExpression, ExpressionDone, At
    <2>2. l \in Nat
      BY <1>1, <2>1, TodoFields
    <2> HIDE DEF l
    <2>3. operands[1] \in Text => x \in Instruction
      BY <2>2, Instructions
    <2> HIDE DEF x
    <2> QED BY <1>3, <2>1, <2>3
  <1>9. CASE FinishThen
    <2> DEFINE no == last.no
               end == last.end
    <2>1. /\ AfterBlock("then") /\ last.at = "then"
          /\ \/ code' = code \o <<Jump(end), Label(no)>>
             \/ code' = code \o <<Label(no)>>
      BY <1>9 DEF FinishThen, Emit, AfterBlock, At
    <2>2. no \in Nat /\ end \in Nat
      BY <1>1, <2>1, TodoFields
    <2> HIDE DEF no, end, last
    <2>3. code' \in Seq(Instruction)
      BY <1>1, <2>1, <2>2, EmittedTyped, Instructions
    <2> QED BY <1>4, <2>1, <2>3
  <1>10. CASE FinishElse
    <2> DEFINE end == last.end
    <2>1. AfterBlock("else") /\ last.at = "else" /\ code' = code \o <<Label(end)>>
      BY <1>10 DEF FinishElse, Emit, AfterBlock, At
    <2>2. end \in Nat
      BY <1>1, <2>1, TodoFields
    <2> HIDE DEF end, last
    <2>3. code' \in Seq(Instruction)
      BY <1>1, <2>1, <2>2, EmittedTyped, Instructions
    <2> QED BY <1>4, <2>1, <2>3
  <1>11. CASE FinishBody
    <2> DEFINE start == last.start
               exit == last.exit
    <2>1. /\ AfterBlock("body") /\ last.at = "body"
          /\ code' = code \o <<Jump(start), Label(exit)>>
      BY <1>11 DEF FinishBody, Emit, AfterBlock, At
    <2>2. start \in Nat /\ exit \in Nat
      BY <1>1, <2>1, TodoFields
    <2> HIDE DEF start, exit, last
    <2>3. code' \in Seq(Instruction)
      BY <1>1, <2>1, <2>2, EmittedTyped, Instructions
    <2> QED BY <1>4, <2>1, <2>3
  <1> QED BY <1>5, <1>6, <1>7, <1>8, <1>9, <1>10, <1>11 DEF Returns

\* Before a program, and after it, nothing waits.
LEMMA IdleFits ==
  ASSUME todo' = << >>, operands' = << >>, code' \in Seq(Instruction),
         output' \in {<< >>, <<code'>>}, status' # "running"
  PROVE  Fitting'
  <1>1. ~ExpressionWaits'
    BY DEF ExpressionWaits, At
  <1>2. operands' \in Seq(Text)
    OBVIOUS
  <1> QED BY <1>1, <1>2 DEF Fitting

LEMMA BeginFits ==
  ASSUME Fed(program'), NEW ast \in Programs, Begin(ast)
  PROVE  Fitting'
  <1>1. /\ program' \in Seq(Visits) /\ next' = 1 /\ operands' = << >> /\ code' = << >>
        /\ output' = << >> /\ todo' = <<[at |-> "list"]>>
    BY ProgramsAssumption DEF Begin
  <1>2. ~ExpressionWaits'
    BY <1>1 DEF ExpressionWaits, At, Last
  <1>3. ASSUME 1 \in DOMAIN program'
        PROVE  ~IsExpression(program'[1])
    <2>1. DOMAIN program' \subseteq Nat \ {0}
      BY <1>1
    <2> QED BY <1>3, <2>1, ExpressionAwaited
  <1>4. ~ExpressionComes'
    BY <1>1, <1>3 DEF ExpressionComes
  <1>5. operands' \in Seq(Text) /\ code' \in Seq(Instruction)
    BY <1>1
  <1> QED BY <1>1, <1>2, <1>4, <1>5 DEF Fitting

\* Every step fits, on a program that is the text of whole expressions.
LEMMA NextFitting ==
  ASSUME Structured, Handed, Fitting, Formed(program), Formed(program'), [Next]_vars
  PROVE  Fitting'
  <1>1. CASE UNCHANGED vars
    <2>1. /\ operands' = operands /\ code' = code /\ output' = output /\ todo' = todo
          /\ status' = status /\ program' = program /\ next' = next
      BY <1>1 DEF vars
    <2>2. /\ ExpressionWaits' <=> ExpressionWaits
          /\ ExpressionComes' <=> ExpressionComes
      BY <2>1 DEF ExpressionWaits, At, ExpressionComes
    <2> QED BY <2>1, <2>2 DEF Fitting
  <1>2. CASE \E ast \in Programs : Begin(ast)
    BY <1>2, BeginFits DEF Formed
  <1>3. CASE \/ \E ast \in Programs : BeginFails(ast)
             \/ Destroy \/ Failed
    <2>1. /\ todo' = << >> /\ operands' = << >> /\ code' = << >> /\ output' = << >>
          /\ status' # "running"
      BY <1>3 DEF BeginFails, Destroy, Failed, Abort
    <2>2. code' \in Seq(Instruction)
      BY <2>1
    <2> QED BY <2>1, <2>2, IdleFits
  <1>4. CASE End
    <2>1. /\ todo = <<[at |-> "list"]>> /\ todo' = << >> /\ operands' = operands
          /\ code' = code /\ output' = <<code>> /\ status' = "SUCCESS"
      BY <1>4 DEF End
    <2>2. ~ExpressionWaits
      BY <2>1 DEF ExpressionWaits, At, Last
    <2>3. operands' = << >> /\ code' \in Seq(Instruction)
      BY <2>1, <2>2 DEF Fitting
    <2> QED BY <2>1, <2>3, IdleFits
  <1>5. CASE Operates \/ States \/ EnterBlock \/ LeaveBlock
    BY <1>5, OperatesFit, StatesFit, BlocksFit
  <1>6. CASE Returns \/ FinishDeclaration
    BY <1>6, FinishFits
  <1> QED BY <1>1, <1>2, <1>3, <1>4, <1>5, <1>6, StepKinds

LEMMA InitFitting == Init => Fitting
  <1> SUFFICES ASSUME Init PROVE Fitting
    OBVIOUS
  <1>1. ~ExpressionWaits /\ operands \in Seq(Text) /\ code \in Seq(Instruction)
    BY DEF Init, ExpressionWaits, At
  <1> QED BY <1>1 DEF Init, Fitting

\* The program is one that was given.
LEMMA NextGiven == Given /\ Structured /\ [Next]_vars => Given'
  <1> SUFFICES ASSUME Given, Structured, [Next]_vars PROVE Given'
    OBVIOUS
  <1>1. CASE UNCHANGED vars
    BY <1>1 DEF vars, Given
  <1>2. CASE \E ast \in Programs : Begin(ast) \/ BeginFails(ast)
    BY <1>2 DEF Begin, BeginFails, Given
  <1>3. CASE Destroy
    BY <1>3 DEF Destroy, Given
  <1>4. CASE Step
    <2>1. program' = program /\ status = "running"
      BY <1>4, StepOnProgram
    <2>2. status' # "none"
      <3>1. CASE End \/ Failed
        BY <3>1 DEF End, Failed, Abort
      <3>2. CASE Operates \/ States \/ EnterBlock \/ LeaveBlock
        <4>1. \E v : Visit(v)
          BY <3>2, OperatesFields, StatesFields DEF EnterBlock, LeaveBlock
        <4> QED BY <4>1, <2>1 DEF Visit
      <3>3. CASE Returns \/ FinishDeclaration
        BY <3>3, <2>1, ReturnsFields, FinishDeclarationFields DEF Return
      <3>4. CASE Destroy \/ \E ast \in Programs : Begin(ast) \/ BeginFails(ast)
        BY <2>1, <3>4 DEF Destroy, Begin, BeginFails
      <3> QED BY <1>4, <3>1, <3>2, <3>3, <3>4, StepKinds DEF Next
    <2> QED BY <2>1, <2>2 DEF Given
  <1> QED BY <1>1, <1>2, <1>3, <1>4 DEF Next

\* Every call is about one of the programs.
LEMMA ProgramsGiven == Spec => [](Given /\ Structured)
  <1>1. Init => Given /\ Structured
    BY InitStructured DEF Init, Given
  <1>2. Given /\ Structured /\ [Next]_vars => Given' /\ Structured'
    BY NextGiven, NextStructured
  <1> QED BY <1>1, <1>2, PTL DEF Spec

\* The program has whole expressions.
FormedProgram == Formed(program)

LEMMA FittingIsTyped ==
  ASSUME Given, Structured, Fitting
  PROVE  TypeOK
  <1>1. next \in Nat
    BY ReadFields DEF Structured
  <1> QED BY <1>1 DEF Given, Structured, Typed, Fitting, TypeOK

\* Of no program there is nothing to say.
LEMMA EmptyFormed == Formed(<< >>)
  BY DEF Formed, Fed

\* Whatever is known of the programs, as long as they have whole expressions
\* every operator finds its operands.
LEMMA TypedWhenFormed ==
  Spec => ([]FormedProgram => [](Given /\ Structured /\ Handed /\ Fitting))
  <1>1. Init => Given /\ Structured /\ Handed /\ Fitting
    BY InitStructured, InitFitting DEF Init, Given, Handed
  <1>2. Given /\ Structured /\ Handed /\ [Next]_vars => Given' /\ Structured' /\ Handed'
    BY NextGiven, NextStructured, NextHanded
  <1>3. /\ Structured /\ Handed /\ Fitting /\ FormedProgram /\ FormedProgram' /\ [Next]_vars
        => Fitting'
    BY NextFitting DEF FormedProgram
  <1> QED BY <1>1, <1>2, <1>3, PTL DEF Spec

\* The theorem: if the programs are texts of whole expressions, as a parser
\* makes them and the analysis accepts them, every operator finds the texts of
\* its operands and every statement that of its value, whatever fails and
\* wherever the numbers end: the types are right in every state, and what is
\* handed out is the code or nothing.  (generate_expression, TacContext.)
THEOREM TypeCorrect ==
  ASSUME \A ast \in Programs : Formed(ast)
  PROVE  Spec => []TypeOK
  <1>1. Given => FormedProgram
    BY EmptyFormed DEF Given, FormedProgram
  <1>2. Given /\ Structured /\ Fitting => TypeOK
    BY FittingIsTyped
  <1> QED BY <1>1, <1>2, ProgramsGiven, TypedWhenFormed, PTL
=============================================================================
