------------------------------- MODULE Parser -------------------------------
(***************************************************************************)
(* parser_parse and the parser that Bison makes of parser.y, with the      *)
(* values on its stack and the tokens that lexer.l hands it.               *)
(*                                                                         *)
(* The stack holds grammar symbols; the state of the LR automaton is what  *)
(* they determine.  A state with one reduction and no shift reduces before *)
(* it reads; another reads first; a state that can shift the error token   *)
(* has no default reduction.  Chains of unit productions are one symbol,   *)
(* as are the forms of statements that end in a block, and the layers of   *)
(* the expression grammar.                                                 *)
(*                                                                         *)
(* An allocation is a number, heap the set of those not freed.  A symbol   *)
(* has the set of allocations that its value reaches; that of a statement  *)
(* list has its items too.  A constructor of ast.c is one allocation: what *)
(* it allocates it frees when it fails (module Ast).                       *)
(***************************************************************************)
EXTENDS Grammar, SequencesExt, FiniteSetsExt

CONSTANTS Inputs,       \* token sequences; a source may end wherever one is cut
          MaxFailures,  \* how many allocations may fail
          MaxDepth      \* YYMAXDEPTH, states on the stack

ASSUME InputsAssumption == Inputs # {} /\ Inputs \subseteq Seq(Tokens \cup {"bad"})
ASSUME BoundsAssumption == MaxFailures \in Nat /\ MaxDepth \in Nat \ {0, 1}

VARIABLES
  stack, lookahead, recovering,  \* of yyparse; recovering: yyerrstatus = 3
  counts,                        \* the static counters of parser.y and lexer.l
  parsed, result, status,        \* *parsed_program; of yyparse; of parser_parse
  heap, failures,
  input, ended, errors           \* read so far, end of file read; calls of yyerror

vars == <<stack, lookahead, recovering, counts, parsed, result, status, heap,
          failures, input, ended, errors>>

\* What can have been read.
Beginnings == UNION {Prefixes(s) : s \in Inputs}

Symbols == Tokens \cup {"end", "undef", "error", "declaration", "assignment",
                        "printing", "statement", "block", "contents", "list",
                        "expression", "program"}

Symbol(name, own) == [name |-> name, own |-> own, items |-> << >>]
List(own, items) == [name |-> "list", own |-> own, items |-> items]
NoToken == Symbol("none", {})

Counts == [lexical : Nat, internal : BOOLEAN,  \* lexer.l
           syntax : Nat, seen_lexical : Nat, seen_internal : BOOLEAN,
           parser_internal : BOOLEAN]

NoCounts == [lexical |-> 0, internal |-> FALSE, syntax |-> 0, seen_lexical |-> 0,
             seen_internal |-> FALSE, parser_internal |-> FALSE]

Statuses == {"none", "parsing", "returned",
             "SUCCESS", "LEXICAL_ERROR", "SYNTAX_ERROR", "INTERNAL_ERROR"}

Value(names) == [name : names, own : SUBSET heap, items : Seq(SUBSET heap)]

\* The type invariant.
TypeOK ==
  /\ stack \in Seq(Value(Symbols))
  /\ lookahead \in Value(Symbols \cup {"none"})
  /\ recovering \in BOOLEAN /\ ended \in BOOLEAN
  /\ counts \in Counts
  /\ parsed \subseteq heap
  /\ result \in 0 .. 2
  /\ status \in Statuses
  /\ heap \subseteq Nat
  /\ failures \in 0 .. MaxFailures
  /\ input \in Beginnings
  /\ errors \in Seq([at : Nat, reported : BOOLEAN])

Init ==
  /\ stack = << >> /\ lookahead = NoToken /\ recovering = FALSE
  /\ counts = NoCounts
  /\ parsed = {} /\ result = 0 /\ status = "none"
  /\ heap = {} /\ failures = 0
  /\ input = << >> /\ ended = FALSE /\ errors = << >>

-----------------------------------------------------------------------------
(* What is on the stack. *)

Own(values) == UNION {values[i].own : i \in DOMAIN values}

Top == IF stack = << >> THEN "bottom" ELSE Last(stack).name
Ends(names) ==
  /\ Len(names) <= Len(stack)
  /\ \A i \in DOMAIN names : stack[Len(stack) - Len(names) + i].name = names[i]
Without(n) == SubSeq(stack, 1, Len(stack) - n)
Taken(n) == SubSeq(stack, Len(stack) - n + 1, Len(stack))
Below(n) == IF Len(stack) = n THEN "bottom" ELSE stack[Len(stack) - n].name

\* Where a statement may begin, and where error can be shifted.
StatementStart == {"bottom", "LBRACE", "list"}
OperandStart == {"=", "LPAREN", "op", "not"}

\* A production, what may be below it, the tokens on which it is reduced when
\* another move is possible there, and its action.
Rule(lhs, rhs, below, on, action) ==
  [lhs |-> lhs, rhs |-> rhs, below |-> below, on |-> on, action |-> action]

All == Tokens \cup {"end", "undef"}
Always == All \cup {"none"}  \* reduced before the next token is read

StatementRules ==
  LET R(lhs, rhs, on, action) == Rule(lhs, rhs, StatementStart, on, action)
  IN  { R("declaration", <<"type", "id">>, All \ {"="}, "node"),
        R("declaration", <<"type", "id", "=", "expression">>, All \ {"op"}, "node"),
        R("assignment", <<"id", "=", "expression">>, All \ {"op"}, "node"),
        R("printing", <<"print", "id">>, Always, "node"),
        R("statement", <<"declaration", "SEMICOLON">>, Always, "pass"),
        R("statement", <<"assignment", "SEMICOLON">>, Always, "pass"),
        R("statement", <<"printing", "SEMICOLON">>, Always, "pass"),
        R("statement", <<"block">>, Always, "pass"),
        R("statement", <<"error", "SEMICOLON">>, Always, "recovered"),
        R("statement", <<"while", "LPAREN", "expression", "RPAREN", "block">>,
          Always, "node"),
        R("statement", <<"if", "LPAREN", "expression", "RPAREN", "block">>,
          All \ {"else"}, "node"),
        R("statement",
          <<"if", "LPAREN", "expression", "RPAREN", "block", "else", "block">>,
          Always, "node") }

\* A variant of BlockRules whose lists of statements are recursive on the right.
BlockRulesRight ==
  LET places == StatementStart \cup {"RPAREN", "else"}
  IN  { Rule("block", <<"LBRACE", "contents", "RBRACE">>, places, Always, "attach"),
        Rule("block", <<"LBRACE", "error", "RBRACE">>, places, Always, "emptyBlock"),
        Rule("contents", << >>, {"LBRACE"}, {"RBRACE"}, "newList"),
        Rule("contents", <<"list">>, {"LBRACE"}, {"RBRACE"}, "pass"),
        Rule("list", <<"statement">>, StatementStart, Always, "firstItem"),
        Rule("list", <<"list", "list">>, StatementStart, {"RBRACE", "end"}, "pass"),
        Rule("program", <<"list">>, {"bottom"}, {"end"}, "attach") }

BlockRules ==
  LET places == StatementStart \cup {"RPAREN", "else"}
  IN  { Rule("block", <<"LBRACE", "contents", "RBRACE">>, places, Always, "attach"),
        Rule("block", <<"LBRACE", "error", "RBRACE">>, places, Always, "emptyBlock"),
        Rule("contents", << >>, {"LBRACE"}, {"RBRACE"}, "newList"),
        Rule("contents", <<"list">>, {"LBRACE"}, {"RBRACE"}, "pass"),
        Rule("list", <<"statement">>, {"bottom", "LBRACE"}, Always, "firstItem"),
        Rule("list", <<"list", "statement">>, {"bottom", "LBRACE"}, Always, "nextItem"),
        Rule("program", <<"list">>, {"bottom"}, {"end"}, "attach") }

\* A variant of ExpressionRules without the unary operators.
ExpressionRulesBinary ==
  LET R(rhs, on, action) == Rule("expression", rhs, OperandStart, on, action)
  IN  { R(<<"id">>, Always, "node"),
        R(<<"lit">>, Always, "node"),
        R(<<"LPAREN", "expression", "RPAREN">>, Always, "pass"),
        R(<<"expression", "op", "expression">>, All, "node") }

ExpressionRules ==
  LET R(rhs, on, action) == Rule("expression", rhs, OperandStart, on, action)
  IN  { R(<<"id">>, Always, "node"),
        R(<<"lit">>, Always, "node"),
        R(<<"LPAREN", "expression", "RPAREN">>, Always, "pass"),
        R(<<"not", "expression">>, Always, "node"),
        R(<<"expression", "op", "expression">>, All, "node") }

Rules == StatementRules \cup BlockRules \cup ExpressionRules

Applies(r) == /\ lookahead.name \in r.on
              /\ Ends(r.rhs) /\ Below(Len(r.rhs)) \in r.below

CanReduce == \E r \in Rules : Applies(r)

\* The tokens that can be shifted where nothing can be reduced.
Expected ==
  CASE Top \in StatementStart -> {"type", "id", "if", "while", "print", "LBRACE"}
    [] Top \in {"type", "print"} -> {"id"}
    [] Top = "id" -> {"="}
    [] Top \in {"if", "while"} -> {"LPAREN"}
    [] Top \in OperandStart -> BeginsOperand
    [] Top = "expression" -> {"op"} \cup IF Below(1) = "LPAREN" THEN {"RPAREN"} ELSE {}
    [] Top \in {"RPAREN", "else"} -> {"LBRACE"}
    [] Top = "block" -> {"else"}
    [] Top \in {"declaration", "assignment", "printing"} -> {"SEMICOLON"}
    [] Top = "contents" -> {"RBRACE"}
    [] Top = "error" -> {"SEMICOLON"} \cup IF Below(1) = "LBRACE" THEN {"RBRACE"} ELSE {}
    [] Top = "program" -> {"end"}

-----------------------------------------------------------------------------
(* The tokens. *)

Fresh == Min(1 .. Cardinality(heap) + 1 \ heap)

CanFail == failures < MaxFailures
Fail == failures' = failures + 1

Parsing == status = "parsing"
TooDeep == Len(stack) + 1 >= MaxDepth

\* A token is needed: nothing is reduced without one.
Reading ==
  /\ Parsing /\ ~TooDeep
  /\ lookahead = NoToken /\ ~CanReduce
  /\ UNCHANGED <<stack, recovering, parsed, result, status, errors>>

ReadEnd ==
  /\ Reading
  /\ lookahead' = Symbol("end", {})
  /\ ended' = TRUE
  /\ UNCHANGED <<counts, heap, failures, input>>

Read(t) ==
  /\ Append(input, t) \in Beginnings
  /\ Reading
  /\ input' = Append(input, t)
  /\ UNCHANGED ended

\* Tokens without a value of their own that has to be freed.
ReadPlain(t) ==
  /\ t # "id"
  /\ Read(t)
  /\ lookahead' = Symbol(t, {})
  /\ UNCHANGED <<counts, heap, failures>>

\* return_identifier copies the text, or tells that it could not.
ReadIdentifier ==
  /\ Read("id")
  /\ \/ /\ lookahead' = Symbol("id", {Fresh})
        /\ heap' = heap \cup {Fresh}
        /\ UNCHANGED <<counts, failures>>
     \/ /\ CanFail /\ Fail
        /\ lookahead' = Symbol("undef", {})
        /\ counts' = [counts EXCEPT !.internal = TRUE]
        /\ UNCHANGED heap

\* What matches no rule, is an unsupported number, or one out of range.
ReadBad ==
  /\ Read("bad")
  /\ lookahead' = Symbol("undef", {})
  /\ counts' = [counts EXCEPT !.lexical = @ + 1]
  /\ UNCHANGED <<heap, failures>>

-----------------------------------------------------------------------------
(* Reporting and giving up. *)

\* yyerror: silent about what the lexer has reported.
Yyerror(c, memory) ==
  IF c.lexical > c.seen_lexical THEN [c EXCEPT !.seen_lexical = c.lexical]
  ELSE IF c.internal /\ ~c.seen_internal THEN [c EXCEPT !.seen_internal = TRUE]
  ELSE IF memory THEN [c EXCEPT !.parser_internal = TRUE]
  ELSE [c EXCEPT !.syntax = @ + 1]

\* %destructor: ast_destroy, parser_statement_list_destroy and free.
Freed(values) == Own(values)

\* yyreturnlab: the token read and what is left on the stack are destroyed.
Cleanup(values, freed) ==
  /\ heap' = heap \ (freed \cup Freed(values \o <<lookahead>>))
  /\ stack' = << >> /\ lookahead' = NoToken
  /\ status' = "returned"

\* yyexhaustedlab, with n symbols of a right-hand side on the stack: these are
\* not destroyed, but what the action has freed itself.
Exhaust(n, freed) ==
  /\ counts' = Yyerror(counts, TRUE)
  /\ result' = 2
  /\ Cleanup(Without(n), freed)
  /\ UNCHANGED <<recovering, parsed, input, ended, errors>>

Overflow == Parsing /\ TooDeep /\ Exhaust(0, {}) /\ UNCHANGED failures

-----------------------------------------------------------------------------
(* Reductions. *)

Reduces(r) == Parsing /\ ~TooDeep /\ Applies(r)

Replace(r, value) ==
  /\ stack' = Append(Without(Len(r.rhs)), value)
  /\ UNCHANGED <<lookahead, counts, parsed, result, status, input, ended, errors>>

\* YYNOMEM in the action of r.
NoMemory(r, freed) == CanFail /\ Fail /\ Exhaust(Len(r.rhs), freed)

\* $$ = $1, or what is between the parentheses.
ReducePass(r) ==
  /\ Reduces(r) /\ r.action = "pass"
  /\ LET values == Taken(Len(r.rhs))
         list == values[1]
     IN  Replace(r, [name |-> r.lhs, own |-> Own(values), items |-> list.items])
  /\ UNCHANGED <<recovering, heap, failures>>

\* $$ = NULL and yyerrok
ReduceRecovered(r) ==
  /\ Reduces(r) /\ r.action = "recovered"
  /\ Replace(r, Symbol(r.lhs, {}))
  /\ recovering' = FALSE
  /\ UNCHANGED <<heap, failures>>

\* A constructor that takes the nodes and copies the name, which is then freed.
ReduceNode(r) ==
  /\ Reduces(r) /\ r.action = "node"
  /\ LET values == Taken(Len(r.rhs))
         names == {i \in DOMAIN values : values[i].name = "id"}
         texts == UNION {values[i].own : i \in names}
     IN  \/ /\ Replace(r, Symbol(r.lhs, (Own(values) \ texts) \cup {Fresh}))
            /\ heap' = (heap \ texts) \cup {Fresh}
            /\ UNCHANGED <<recovering, failures>>
         \/ NoMemory(r, {})

\* { error }: yyerrok comes before the block is made.
ReduceEmptyBlock(r) ==
  /\ Reduces(r) /\ r.action = "emptyBlock"
  /\ \/ /\ Replace(r, Symbol(r.lhs, {Fresh}))
        /\ heap' = heap \cup {Fresh}
        /\ recovering' = FALSE
        /\ UNCHANGED failures
     \/ NoMemory(r, {})

ReduceNewList(r) ==
  /\ Reduces(r) /\ r.action = "newList"
  /\ \/ /\ Replace(r, Symbol(r.lhs, {Fresh}))
        /\ heap' = heap \cup {Fresh}
        /\ UNCHANGED <<recovering, failures>>
     \/ NoMemory(r, {})

\* A list of n items has to grow for another one: from 0 to 4, 8, 16.
Grows(n) == n = 0 \/ (n >= 4 /\ \E k \in 2 .. n : n = 2 ^ k)

\* parser_statement_list_append: a statement that is NULL is not appended.
Appended(list, statement) ==
  IF statement.own = {} THEN list
  ELSE List(list.own \cup statement.own, Append(list.items, statement.own))

AppendCanFail(list, statement) == statement.own # {} /\ Grows(Len(list.items))

\* The first statement: when it cannot be appended the new list is destroyed.
ReduceFirstItem(r) ==
  /\ Reduces(r) /\ r.action = "firstItem"
  /\ \/ /\ Replace(r, Appended(List({Fresh}, << >>), Last(stack)))
        /\ heap' = heap \cup {Fresh}
        /\ UNCHANGED <<recovering, failures>>
     \/ NoMemory(r, {})

ReduceNextItem(r) ==
  /\ Reduces(r) /\ r.action = "nextItem"
  /\ LET list == Last(Without(1))
     IN  \/ /\ Replace(r, Appended(list, Last(stack)))
            /\ UNCHANGED <<recovering, heap, failures>>
         \/ AppendCanFail(list, Last(stack)) /\ NoMemory(r, {})

\* A variant of KeptValue where the program is the value of its symbol as well.
KeptTwice(r, node) == node

\* The value of the symbol: a program is handed out instead.
KeptValue(r, node) == IF r.lhs = "program" THEN {} ELSE node

\* parser_attach_statements moves the items into the new block or program, and
\* then the list is destroyed.  When an item cannot be added, those already
\* moved go with the container.
ReduceAttach(r) ==
  /\ Reduces(r) /\ r.action = "attach"
  /\ LET i == Len(stack) - Len(r.rhs) + (IF r.lhs = "program" THEN 1 ELSE 2)
         list == stack[i]
         items == UNION Range(list.items)
         node == items \cup {Fresh}
         moved(k) == UNION {list.items[j] : j \in 1 .. k}
     IN  \/ /\ stack' = Append(Without(Len(r.rhs)),
                              Symbol(r.lhs, KeptValue(r, node)))
            /\ parsed' = IF r.lhs = "program" THEN node ELSE parsed
            /\ heap' = (heap \ (list.own \ items)) \cup {Fresh}
            /\ UNCHANGED <<lookahead, recovering, counts, result, status, failures,
                           input, ended, errors>>
         \/ NoMemory(r, {})
         \/ \E k \in 0 .. Len(list.items) - 1 : Grows(k) /\ NoMemory(r, moved(k))

Reduce ==
  \E r \in Rules :
    \/ ReducePass(r) \/ ReduceRecovered(r) \/ ReduceNode(r) \/ ReduceEmptyBlock(r)
    \/ ReduceNewList(r) \/ ReduceFirstItem(r) \/ ReduceNextItem(r) \/ ReduceAttach(r)

-----------------------------------------------------------------------------
(* Shifts and errors. *)

Decided == Parsing /\ ~TooDeep /\ lookahead # NoToken /\ ~CanReduce

Shift ==
  /\ Decided
  /\ lookahead.name \in Expected \ {"end"}
  /\ stack' = Append(stack, lookahead)
  /\ lookahead' = NoToken
  /\ UNCHANGED <<recovering, counts, parsed, result, status, heap, failures, input,
                 ended, errors>>

Accept ==
  /\ lookahead.name = "end" /\ Top = "program"
  /\ Decided
  /\ result' = 0
  /\ Cleanup(stack, {})
  /\ UNCHANGED <<recovering, counts, parsed, failures, input, ended, errors>>

Unexpected == Decided /\ lookahead.name \notin Expected

\* How many symbols stay below the error token.
Kept == Max({n \in 0 .. Len(stack) : n = 0 \/ stack[n].name \in StatementStart})

\* A variant of ShiftError that forgets that it recovers.
ShiftErrorAnew(discarded) ==
  /\ stack' = Append(SubSeq(stack, 1, Kept), Symbol("error", {}))
  /\ heap' = heap \ (discarded \cup Freed(SubSeq(stack, Kept + 1, Len(stack))))
  /\ UNCHANGED <<recovering, parsed, result, status, failures, input, ended>>

\* yyerrlab1: symbols are popped and destroyed down to where error fits.
ShiftError(discarded) ==
  /\ stack' = Append(SubSeq(stack, 1, Kept), Symbol("error", {}))
  /\ heap' = heap \ (discarded \cup Freed(SubSeq(stack, Kept + 1, Len(stack))))
  /\ recovering' = TRUE
  /\ UNCHANGED <<parsed, result, status, failures, input, ended>>

\* A new error.
Detect ==
  /\ ~recovering /\ Unexpected
  /\ counts' = Yyerror(counts, FALSE)
  /\ errors' = Append(errors, [at |-> Len(input) + (IF ended THEN 1 ELSE 0),
                               reported |-> counts'.syntax > counts.syntax])
  /\ ShiftError({})
  /\ UNCHANGED lookahead

\* A variant of Discard that keeps the token.
DiscardNothing ==
  /\ recovering /\ Unexpected
  /\ lookahead.name # "end"
  /\ ShiftError({})
  /\ UNCHANGED <<lookahead, counts, errors>>

\* Still the same error: the token is discarded.  (Between error and yyerrok
\* there is but one token to shift, so three good ones never matter.)
Discard ==
  /\ recovering /\ Unexpected
  /\ lookahead.name # "end"
  /\ ShiftError(Freed(<<lookahead>>))
  /\ lookahead' = NoToken
  /\ UNCHANGED <<counts, errors>>

GiveUp ==
  /\ recovering /\ Unexpected
  /\ lookahead.name = "end"
  /\ result' = 1
  /\ Cleanup(stack, {})
  /\ UNCHANGED <<recovering, counts, parsed, failures, input, ended, errors>>

-----------------------------------------------------------------------------
(* parser_parse *)

Begin ==
  /\ status = "none"
  /\ parsed' = {} /\ counts' = NoCounts
  /\ stack' = << >> /\ lookahead' = NoToken /\ recovering' = FALSE
  /\ input' = << >> /\ ended' = FALSE /\ errors' = << >> /\ result' = 0
  /\ status' = "parsing"
  /\ heap' = {}  \* what an earlier call has lost no longer counts
  /\ UNCHANGED failures

\* A variant of Verdict that does not count the errors that were recovered.
VerdictOfResult ==
  IF counts.internal \/ counts.parser_internal \/ result = 2 THEN "INTERNAL_ERROR"
  ELSE IF counts.lexical # 0 THEN "LEXICAL_ERROR"
  ELSE IF result # 0 THEN "SYNTAX_ERROR"
  ELSE IF parsed = {} THEN "INTERNAL_ERROR"
  ELSE "SUCCESS"

Verdict ==
  IF counts.internal \/ counts.parser_internal \/ result = 2 THEN "INTERNAL_ERROR"
  ELSE IF counts.lexical # 0 THEN "LEXICAL_ERROR"
  ELSE IF counts.syntax # 0 \/ result # 0 THEN "SYNTAX_ERROR"
  ELSE IF parsed = {} THEN "INTERNAL_ERROR"
  ELSE "SUCCESS"

End ==
  /\ status = "returned"
  /\ status' = Verdict
  /\ parsed' = IF Verdict = "SUCCESS" THEN parsed ELSE {}
  /\ heap' = IF Verdict = "SUCCESS" THEN heap ELSE heap \ parsed
  /\ UNCHANGED <<stack, lookahead, recovering, counts, result, failures, input, ended,
                 errors>>

Done == status \notin {"none", "parsing", "returned"}

\* The caller is done with the tree, if there is one: ast_destroy.
Destroy ==
  /\ Done
  /\ parsed' = {} /\ heap' = heap \ parsed
  /\ status' = "none"
  /\ UNCHANGED <<stack, lookahead, recovering, counts, result, failures, input, ended,
                 errors>>

Step ==
  \/ ReadEnd \/ ReadIdentifier \/ ReadBad
  \/ \E t \in Tokens : ReadPlain(t)
  \/ Reduce \/ Shift \/ Accept \/ Detect \/ Discard \/ GiveUp \/ Overflow
  \/ End

Next == Begin \/ Step \/ Destroy

Spec == Init /\ [][Next]_vars

\* The parser runs on once it was called.
FairSpec == Spec /\ WF_vars(Step)

-----------------------------------------------------------------------------
(* Properties. *)

\* Whatever happens, no two values share what they own, and what they own is
\* not freed yet: so nothing is freed twice or used after it was freed.
\* (%destructor, the actions that free or move, parser_attach_statements.)
OwnedOnce ==
  LET values == stack \o <<lookahead, Symbol("parsed", parsed)>>
  IN  /\ Own(values) \subseteq heap
      /\ \A i, j \in DOMAIN values : i # j => values[i].own \cap values[j].own = {}

\* Nothing is lost, through errors and recoveries, but the values of a
\* right-hand side whose action YYNOMEM leaves, which nobody destroys.
NothingLost ==
  result # 2 => heap \subseteq Own(stack) \cup lookahead.own \cup parsed

\* What is allocated has one owner at each moment.
Ownership == TypeOK /\ OwnedOnce /\ NothingLost

Exhausted == result = 2 \/ counts.internal
Lexical == "bad" \in Range(input)

\* The verdict tells what has happened.  When memory was exhausted it is an
\* internal error, even when yyerror took the message for one about a lexical
\* error.  Otherwise the first phase decides: a lexical error among what was
\* read, reported or not; and then a program is handed out if and only if no
\* error was found, though all of them were recovered.
\* (parser.y:608-629; TEST_CONVENTIONS.md: the earliest failed phase.)
VerdictTold ==
  Done =>
    /\ Exhausted => status = "INTERNAL_ERROR"
    /\ ~Exhausted /\ Lexical => status = "LEXICAL_ERROR"
    /\ ~Exhausted /\ ~Lexical =>
         status = IF errors = << >> THEN "SUCCESS" ELSE "SYNTAX_ERROR"

\* Whole sources that lack nothing, and only these, are taken for programs: an
\* error is found if and only if what was read is no program of the language
\* that the grammar defines.  (The productions of parser.y, their precedence and
\* the dangling else.)
ErrorsTrue ==
  Done /\ ~Exhausted /\ ~Lexical => (errors = << >> <=> IsProgram(input))

\* No cascade: two reports of syntax errors are apart by a token at which the
\* first could be recovered.
ReportsApart ==
  \A i, j \in DOMAIN errors :
    i < j => \E k \in errors[i].at .. errors[j].at - 1 :
               input[k] \in {"SEMICOLON", "RBRACE"}

\* The parser does not report again what the lexer has reported.
\* (D-307 of DECISIONS.md; yyerror.)
LexicalReportedOnce ==
  \A e \in Range(errors) : e.reported /\ e.at \in DOMAIN input => input[e.at] # "bad"

\* Every report is about an error of its own.
NothingReportedTwice == ReportsApart /\ LexicalReportedOnce

\* The stack grows with the nesting of the program, not with its length: a
\* list of statements is one symbol, a block has at most seven before it.
StackByNesting ==
  Top \in {"list", "LBRACE"} =>
    Len(stack) <= 1 + 8 * Cardinality({i \in DOMAIN stack : stack[i].name = "LBRACE"})

\* The parser comes to an end: no error makes it go in circles.
\* (D-405 of DECISIONS.md: avoids infinite loops.)
ParsingEnds == status = "parsing" ~> Done

-----------------------------------------------------------------------------
(* What the documents say, and the code does not do. *)

\* A later independent syntax error is not suppressed: every error at a token
\* that the lexer found nothing wrong with is reported.  (D-406 of
\* DECISIONS.md.  yyerror takes an error for a lexical one whenever a token
\* that was discarded since the last call was bad.)
IndependentErrorsReported ==
  \A e \in Range(errors) :
    ~e.reported => e.at \in DOMAIN input /\ input[e.at] = "bad"
=============================================================================
