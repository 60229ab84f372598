# A TLA+ model of the Mini-C compiler

This directory models, checks and proves properties of the compiler whose C
sources are in `src/` of the repository. Paths below are relative to the root of the
repository (so `src/codegen/tac.c`, `docs/ARCHITECTURE.md`).

The compiler is a sequential program: lexer, parser, semantic analysis and TAC
generation run over one file. What is hard to test in it is not concurrency. It
is long sequences of scopes opened and left, two phases that build the same
scopes independently and must agree, recovery from errors that must neither
cascade nor swallow, values that have one owner whatever fails, names that must
not collide, code that must do what the source says, and failures (of an
allocation, of a write) at any point. These are what the properties are about.

## The system

| component | code | state | operations | interacts with | what makes it correct |
|---|---|---|---|---|---|
| lexer | `src/lexer/lexer.l` | the place in the source, the line, count of lexical errors, internal-error flag; all static | `yylex`, `lexer_set_input` | called by the parser, which reads its counts | longest match; numbers are exact or errors; lines and errors are those of the source being read |
| parser | `src/parser/parser.y` | the Bison stack with its values, the lookahead, counts of syntax errors and of the lexical errors seen | `parser_parse`, recovery at `;` and `}`, destructors | calls the lexer, builds the tree | the verdict is right; an error is reported once and parsing goes on; no value is lost or freed twice; the stack grows with nesting only |
| abstract syntax tree | `src/ast/ast.c`, `src/ast/ast.h` | nodes on the heap that own their names, arrays and children | constructors, `ast_add_statement`, `ast_destroy` | built by the parser, read by all | every allocation has one owner, also when another fails; children are of the kinds that the readers take for granted |
| AST printing | `src/ast/ast_print.c` | the stream and its error flag | `ast_print` | reads the tree | an outline that was answered with true is whole and unambiguous |
| symbol table | `src/symbol_table/symbol_table.c` | array of scope frames with parent pointers and active flags, a list of symbols for each frame, the current frame, the next scope ID | create, destroy, enter and exit scope, insert, three lookups, info, print | called by both later phases, which keep the pointers it returns | lookups answer the innermost open or the newest closed declaration; IDs are never used again; failure changes nothing and loses nothing; borrowed pointers stay good |
| semantic analysis | `src/semantic/semantic.c` | a symbol table, count of errors, internal-failure flag, the diagnostics stream | `semantic_analyze`, one recursive pass | borrows the tree; owns its table | each scoping mistake reported where it is and only there; no cascade; a lost report never means acceptance |
| TAC generation | `src/codegen/tac.c` | a second symbol table, bindings, reserved names, counters of temporaries and labels, the program so far | `tac_generate`, `tac_program_print`, `tac_program_destroy` | borrows the tree; relies on the analysis | a name is the storage of the declaration it denotes; no text names two things; jumps resolve; the code does what the source does; all or nothing |
| growing arrays | in `symbol_table.c`, `tac.c`, `ast.c`, `parser.y` | count and capacity | append | used by all of these | neither a capacity nor a product wraps around |
| phase pipeline | `tests/support/tac_driver.c` (there is no `src/main.c` at this commit) | statuses of the phases | parse, analyze, generate, print | all phases | a phase runs only after the one before succeeded |
| common types | `src/common/` | none | | | |

Interaction is by direct calls and by borrowed pointers: both later phases
borrow the tree, `tac.c` and `semantic.c` borrow symbols from the table each
owns, the parser owns what the lexer returns to it. There is one thread, no
callback and nothing persistent, so there are no interleavings and no crash
recovery to model. What can go wrong with the environment is an allocation that
fails and a stream that cannot be written. `PROJECT.json` lists the hazards at
their lines.

## The modules

| module | what it is |
|---|---|
| `Language` | the names and types, constants of the modules below it |
| `ScopeTable` | the data structure of `symbol_table.c` as a value; its operations as functions of it; what it is for a table to be well formed |
| `SymbolTable` | the symbol table as a state machine driven through its public interface; allocations and search loops step by step |
| `LexicalScopes` | abstract specification: a stack of open scopes, a set of closed ones, questions and answers |
| `SymbolTableRefinement` | the refinement mapping from `SymbolTable` to `LexicalScopes` |
| `SymbolTableProofs` | theorems about the state machine and the refinement |
| `Source` | the syntax tree as a sequence of visits, and reference definitions of scoping read off that sequence, without a table |
| `SourceProofs` | lemmas about a table of scopes, for the symbol table and both phases; about a text and a table that grow together; about where the operands and statements of a text begin and end; and about texts whose operators find their operands |
| `Semantic`, `SemanticProofs` | `semantic_analyze`; theorems about it |
| `Tac`, `TacProofs` | `tac_generate`; theorems about it |
| `Compiler`, `CompilerProofs` | the composition of `Semantic` and `Tac` through the gate of the driver; theorems about it |
| `Execution` | extends `Tac`: the source and the generated code, run one after the other and compared |
| `Grammar` | the language of `parser.y` as a set of token sequences, without a parser |
| `Parser`, `ParserProofs` | `parser_parse` with Bison's parser: stack, values, errors, recovery, exhausted memory, verdict; theorems about it |
| `Expressions` | the eight layers of expressions in `parser.y` and the trees they build |
| `AstKinds` | the kinds of nodes and which children each may have |
| `Ast`, `AstProofs` | `ast.c`, allocation by allocation and free by free; theorems about it |
| `SyntaxTrees` | abstract specification: trees, without a heap |
| `AstRefinement` | the refinement mapping from `Ast` to `SyntaxTrees` |
| `AstPrint` | `ast_print.c` |
| `Lexer` | `lexer.l` with the scanner that Flex makes of it |
| `GrowingArray`, `GrowingArrayProofs` | the arrays that double; theorems about them |
| `MC...` | instances for TLC: vocabularies, programs, inputs |

### How they correspond to the code

**`ScopeTable` / `SymbolTable`.** A pointer is a position in a sequence and NULL
is 0. The linked list of a scope is the subsequence of `symbols` that the scope
owns: symbols are only ever appended to the current scope's list, so the order is the
same. Frames are never removed before `destroy`, as in the code. An operation
that follows a bounded number of pointers is one step; `lookup_active` and
`lookup_history` loop over scopes, and each iteration is a step (`StepActive`,
`StepHistory`) with the loop variable in `call.cursor`. So is each allocation: `create`
makes the table, the global frame and the array (`Create`, `CreateGlobal`, `FinishCreate`),
`enter` a frame and, when it is full, a larger array (`Enter`, `FinishEnter`), `insert` a
symbol and its name (`InsertNew`, `FinishInsert`). Each may fail, and the call then frees
what it has made (`GiveUp`). `memory` counts, for each kind of object, what was allocated
and not freed; `call.made` is what the local variables of the call point to. Callers may
pass a missing name (`NoName`) or a number that is no type (`BadType`).

**`Source`.** Both `semantic.c` and `tac.c` walk the tree in one order: a
statement before its parts, operands before their operator, a block's statements
before its end. A program is the sequence of these visits, and a
position is a node. This is no loss: the grammar allows parentheses, so every tree
can be written, and the sequence determines the tree. `Denoted`, `Repeats`,
`InScope` define lexical scoping on the sequence by positions alone; they are the
reference the two phases are compared with.

**`Semantic`.** One action for each visit (`VisitDeclaration`, `VisitBinary`,
...) and one for each return to the statement that waits for its expression
(`FinishDeclaration`, `FinishAssignment`, `FinishCondition`). The C stack is
`todo` and `operands`. The program is chosen while it is analyzed, which
makes TLC consider every program of a vocabulary within the bound. `Failures` says
whether an allocation may fail and whether a report may fail to be written.
After an internal failure the code goes on through operands and own blocks of the
statement it is in and stops at the next statement: so does the model.

**`Tac`.** The program is a value given at `Begin`. The actions
follow `generate_...` as those of `Semantic` follow `analyze_...`, with the
instructions emitted at the same points. An identifier is a stem and a number,
so that a variable called `t1` and the temporary `t1` have the same text, and
`x@2` has its scope ID: the collisions that the code has to avoid can happen.
Operator texts and the digits of literals are left out. When something is
amiss every caller frees what it owns and returns; these returns touch nothing
that is used again and are one step, `Abort`.

**`Compiler`.** `HandOver` is the gate of `tac_driver.c`: the generator is
called on the tree if and only if the analysis answered `SUCCESS`.

**`Execution`.** Nothing in the repository runs the code; what it means is given
here, as is what the source means by `docs/LANGUAGE_SPEC.md`; these definitions translate
no lines and are not in the map of `PROJECT.json`. A value is the
term that computes it, so that no arithmetic is needed and no two different
computations agree by chance. The source runs first and every condition may
turn out either way; the code is then run with the same outcomes.

**`Parser`.** The state of the LR automaton is what the symbols on the stack
determine, so the model keeps these. Chains of unit productions are one symbol; so
are the layers of expressions, which have a module of their own. `Rules` has the
productions with their actions, and for each on which tokens it is reduced and
whether a token is read first: Bison's default reductions, which decide when
the lexer is called and so when its errors are counted. `Detect`, `Discard` and
`GiveUp` are `yyerrlab`, `ShiftError` is `yyerrlab1` with the destructors,
`Exhaust` is `yyexhaustedlab`: it destroys the stack but not the right-hand
side of the action that `YYNOMEM` leaves. An allocation is a number and each
symbol has the set of those its value reaches.

**`Expressions`.** An operator stands for its layer. What Bison's tables do is stated once:
an operator is shifted where the layer on top goes on with it (`GoesOn`), otherwise
the top is reduced to the next layer. `Grouped` is the reference: the table of
precedences of `docs/GRAMMAR.md`, applied to the whole sequence.

**`Ast`.** An address stands for a live allocation and is used again after a free.
Each allocation, reallocation (which moves or not, or fails) and free of the
code is one step or a named part of one; the recursion of `ast_destroy` is
`frames`. The client passes roots it owns, each once.

**`AstPrint`.** `todo` is what the calls of `print_node` have still to print. A
line is its depth and what it says. Any write may fail, which sets `ferror`, and the stream may
have failed before.

**`Lexer`.** A pattern is the set of character sequences it matches; `Match`
takes the longest match and of the rules with one the first. One keyword and a
few letters and operators stand for all. `strtoll` and `strtod` are modelled by
their value and what they do to `errno`: `MaxInteger` is `LLONG_MAX`, and a float has
`Places` places after the point and goes up to `MaxFloat`; one that is not zero and comes to
zero in these places is out of range, as is one too large.

**`GrowingArray`.** `size_t` wraps after `SizeMax`. The code has two forms of the
guard, before and after the doubling; an append may use either.

The modules also hold variants of some definitions (`ExitScopePopping`,
`ReportLost`, ...), each right before the definition it varies. They are
plausible mistakes; substituting one makes the property named with it in `PROJECT.json`
fail, which shows that the property depends on that piece of the code.

## What is checked

| run | instance | what it shows |
|---|---|---|
| `symbol_table` | 2 names, 1 type, 4 frames, 2 symbols, an array of 2 to begin with, fairness; 194k states | lookups end and answer their contract, IDs identify, whichever allocation fails nothing is lost, borrowed pointers stay good, `SymbolTable` implements `LexicalScopes` (so that a call that fails is refused and changes nothing) |
| `semantic` | 3 vocabularies (names and blocks; types and operators; every kind of statement), both failures, 5 visits; 904k states | undeclared, out-of-scope and repeated names are reported exactly where `Source` says; scopes follow blocks; no cascade of type reports; a lost report never means acceptance; nothing is declared after a failure |
| `compiler` | 2 vocabularies (variables `x` and `t1` in blocks; a little of everything), both failures, 5 visits; 254k states | accepted programs are generated, with the storage that each name denotes, the scopes of the analysis, no text used twice; a program is handed out whole or not at all |
| `execution` | 875 programs with branches, loops and blocks in each other and 819 that nobody analyzed, 8 temporaries and labels, failures, 4 conditions in a run, fairness; 123k states | the code prints what the source prints and branches on the same values; labels resolve; ill-scoped programs are refused; counters never wrap; the generator returns |
| `parser` | all sequences of 4 of the 7 tokens that recovery turns on, every change of one token in a loop and in nested branches, programs with errors for failures; one allocation fails, a stack of 13, fairness; 416k states | errors are found in what is no program of `Grammar` and nowhere else (`ErrorsTrue`), the verdict tells what was found (`VerdictTold`), values have one owner, errors are reported once, the stack grows by nesting, the parser ends |
| `expressions` | all expressions of 7 tokens; 149k states | operators group by the table; what is rejected is no expression; errors are at the first wrong token |
| `ast` | 9 kinds of nodes, 5 addresses, fairness; 250k states | each allocation has one owner at every moment; children fit; `Ast` implements `SyntaxTrees`; destruction ends |
| `ast_print` | trees with every kind of node, failing writes | the outline tells the whole tree |
| `lexer` | all sources of 5 characters of numbers, of fractions or of layout, another source after; 255k states | values are exact or errors; lines and counts belong to this source; CRLF is as good as LF |
| `growing_array` | elements of 2 bytes, a `size_t` of 10 bits | nothing wraps around |

Two runs check a sentence of the documents that the code does not keep:

| run | the document | what the run shows |
|---|---|---|
| `parser_silence` | D-406 of `docs/DECISIONS.md`: "do not suppress a later independent syntax error after recovery" | in `int @ @ ; int = ;` the second `@` is discarded during recovery without a call of `yyerror`; the call for `=` then takes it for the error it is called about (`parser.y:561`) and the syntax error at `=` is neither written nor counted |
| `lexer_exponents` | `docs/LANGUAGE_SPEC.md:112`: exponent forms are diagnosed rather than reported as a float | `1.9e1` is the float `1.9` and the identifier `e1`: `EXPONENT_PATTERN` has no dot |

Three smaller disagreements were met and have no run. D-404 says that
error paths have matching cleanup, but Bison does not destroy the right-hand side of
an action left by `YYNOMEM` (`parser.y:163` and after): in `int x ;`, when the node cannot be allocated, the text of
`x` stays allocated. `NothingLost` leaves out the runs that end like this; that nothing is freed twice is shown of them as well
(`OwnedOnce`). `docs/ARCHITECTURE.md:31` says that recovery stops at `}`; it does only where
no statement of the block was parsed before the error, as `LBRACE error RBRACE`
is the only such production. And `docs/LANGUAGE_SPEC.md:103` has a comment
run to the newline; it ends at a carriage return as well (`lexer.l:82`), so a lone
CR in a comment ends it.

**The bounds.**
- `MaxScopes` and `MaxSymbols` bound the frames and symbols a table is given;
  an operation at its bound only fails. Four frames are enough for a scope
  left, a sibling entered, one nested in it and the global one at once, which is
  what tells the parent chain from the array, depth from ID, and newest from
  innermost. Two symbols can be in one scope, in nested, in sibling ones and with
  one name or two. An array of two in place of four is full at the third frame and grows
  to the fourth, so that a frame is allocated for which there may be no room.
- `MaxVisits` bounds the program when it begins a statement or extends an
  expression; what a program needs to be completed (one operand, the blocks of an
  `if`, the ends of blocks) is always allowed, so every program begun can end and no
  state is stuck. Within five visits there are a shadowing block with an initializer
  that uses the outer variable, a sibling block, a nested loop, and an operator
  before the declaration of a global `t1`. Programs come from one vocabulary at a time.
- `SizeMax` stands for `SIZE_MAX`. 20 is out of reach for the programs of `compiler`;
  9 is reached in `execution`, where an `if` can get its first label and not its second.
- `MaxBranches` cuts a run of a program at its fourth condition: a loop goes
  round up to three times, and after fewer rounds it is left.
- Four tokens are enough for an error in a recovery and after it; longer inputs differ
  from a program by one token, wherever it is. `MaxDepth` of 13 is passed by nested
  branches and not by the loop. One failure per run, as the parser stops at the first.
- Five addresses hold a list with two statements or a branch with its condition and block, and no more:
  the sixth allocation always fails, and the others may.
- Five characters hold a number with a dot or an exponent and its sign, a token after it, and two
  ends of line; `MaxInteger` of 91 has numbers of two digits on both sides, `MaxFloat` of
  91.5 floats with one place, and with one place 0.01 is too small.
- Seven tokens hold three operators, or two and a pair of parentheses.
- A `size_t` of ten bits doubles seven times from 4.

**Fairness.** Weak fairness of `Search` in `SymbolTable`, and of `Step` in `Tac`,
`Parser` and `Ast`: the body of a function that was called is run by the one
thread there is. Nothing is assumed of callers, nor that allocations succeed.

**Deadlock** is checked where the system goes on for ever: some call can be made or
the current one can go on. It is off in `lexer`, `lexer_exponents`, `ast_print` and
`expressions`: a source, a tree or an expression is done with and nothing follows.

## What is proved

| theorem | property | module |
|---|---|---|
| `TypeCorrect` | `TypeOK` | `SymbolTableProofs` |
| `SearchesAnswer` | `SearchAnswer` | |
| `IdentityOfSymbols` | `SymbolIdentity` | |
| `OpenScopesChain` | `OpenChain` (in no run: a part of the invariant) | |
| `NothingIsLost` | `MemoryAccounted` | |
| `BorrowedPointersStable` | `BorrowedStable` | |
| `Implementation` | `ImplementsScopes` | `SymbolTableProofs` |
| `TypeCorrect` | `TypeOK` | `SemanticProofs` |
| `BlocksFollowed` | `ScopesFollowBlocks` | |
| `StopsAfterFailure` | `FailureStops` | |
| `ReportsAsRead` | `ScopingAsRead` | |
| `AcceptedNamesDenote` | `AcceptedIsWellScoped` | |
| `ReportsDoNotCascade` | `NoCascade` | |
| `GeneratedIsWellScoped` | `SuccessIsWellScoped` | `TacProofs` |
| `LabelsAreResolved` | `LabelsResolve` | |
| `TypeCorrect` | `TypeOK`, for programs of whole expressions | |
| `StorageIsKept`, `UsesAreStored`, `TextsAreDistinct`, `ProgramsAreWhole` | for any programs, what `CompilerProofs` says of accepted ones | |
| `OneOwner` | `Ownership` | `AstProofs` |
| `ChildrenAsExpected` | `ChildrenFit` | |
| `AnalysisRuns`, `GenerationRuns` | each phase of `Compiler` is a run of its own module | `CompilerProofs` |
| `TablesAreTheSame` | `SameScopes` | |
| `AcceptedProgramsAreGenerated` | `AcceptedIsGenerated` | |
| `UsesAreDenoted` | `UsesDenoted` | |
| `TextsAreDistinct` | `TextsDistinct` | |
| `ProgramsAreWhole` | `WholeProgram` | |
| `AcceptedProgramsAreTyped` | `TypeOK` of `Tac` (in the run of `Execution`), for whatever the analysis accepted | |
| `EverythingOwnedOnce` | `Ownership` | `ParserProofs` |
| `StackBounded` | `StackByNesting` | |
| `ReportedOnce` | `NothingReportedTwice` | |
| `VerdictIsTold` | `VerdictTold` | |
| `NeverWraps` | `NothingWraps` | `GrowingArrayProofs` |
| `FormsAlwaysAgree` | two guards are equivalent | |

They hold for all values of the constants. What is assumed of these is in the modules that declare
them, and is little: `NoName` is no name and `BadType` no type; bounds and lines are natural
numbers; vocabularies are sets of visits, and the programs given to `Tac` any sequences of visits;
a name is a stem and a number, and no name is the text of a literal or empty; `SIZE_MAX` is positive, and in
`Compiler` the types are the three of the language, as `Semantic` has them; `Addresses` is a finite set
of positive numbers and the first capacity of an array is positive, in `SymbolTable` as in `GrowingArray`; the sources of `Parser` are any set of
sequences of its tokens that is not empty, its failures are bounded by any number and its stack by one above 1.
One theorem asks for more: `TypeCorrect` of `TacProofs` is about programs that are `Formed`, that is, made of whole expressions.
`generate_expression` takes such a tree for granted; `AcceptedProgramsAreTyped` shows that whatever the analysis accepts
is `Formed` and assumes nothing. All programs of `execution` are `Formed`, the ill-scoped ones as well.

**The symbol table.** None of the properties is inductive by itself: the ID of a new
frame is fresh only because `next_scope_id` counts the frames, the exit of
a scope leaves a chain only because the parent of an active frame is the next
older active one. `IInv` is `TypeOK`, `SearchAnswer`, `MemoryAccounted` and

- `TableOK`, that the table is `WellFormed` (`Rooted`: IDs count frames and a frame is
  younger and one deeper than its parent; `Nested`: the active frames are the
  ancestors of the current one; `Owned`: a symbol carries its owner's ID, which
  owns no second symbol of its name) and a `Chain`;
- `Working`, where a call stands between its allocations: what it has made by then, and that the
  name `insert` was given is still not in the current scope;
- `Searching`, what a search in progress has ruled out: every active frame
  that declares the name is at or before the cursor of `lookup_active`, and
  every inactive one at or before that of `lookup_history`.

`SourceProofs` proves operation by operation that a well-formed table
stays one (`EnterKeepsWellFormed`, `ExitKeepsWellFormed`, `InsertKeepsWellFormed`,
and the same for `Chain`) and what a frame's lookup returns; `SymbolTableProofs` shows
that each action keeps `IInv` (one step for each action) and derives the theorems. The
lemmas are about the value `t`, so the modules that keep a table in a context
cite them too.

**It implements lexical scopes.** The mapping makes the active frames, by depth, the stack of
open scopes and the inactive ones the set of closed scopes. `EnterScopes`, `ExitScopes` and
`InsertScopes` say what an operation on a well-formed table does to the stack and the set under this
mapping; `LatestIsFound` and `ReturnsAnswer` say that where a search stops, by
`SearchAnswer`, is what the abstract question is answered with; an iteration of a search that
does not stop is a stutter, and so is an allocation after which a call goes on; one that fails is
`Refuse`, which changes neither the stack, nor the set, nor the next ID.

**The analysis.** The table of scopes is compared with the text read so far, not with a second
table. `Structured` has the types and

- `Underway`: one list of statements is open for each scope, and only what comes
  last in `todo` waits for an expression. Without it the end of a block could
  leave the global scope.
- `PlacedIn(ast, context.symbols)` of `SourceProofs`: frame `i` is block `i` of the text, in order;
  a frame is active where its block is still open, its parent is the block around it; a
  symbol is in the frame of the block its declaration is in. This is `ScopesFollowBlocks` for
  the whole table in place of the current frame, which an exit needs to know where it returns.
- `Waiting`: a declaration that waits for its initializer is in the text, in the block that
  is still the innermost one.

`Said` relates the reports to the text: what is bound is declared and, unless there was a failure,
the other way round (`Bound`); every use or declaration so far has a report
exactly when `Source` says so (`NamesReported`); nothing was reported twice (`ReportedOnce`), which
needs that the reports still to come are not there yet (`Unreported`); the count is the number of reports
(`ErrorsCounted`). `Separated` says why one text can be read in two ways: the declaration
that waits is the last one, so whatever is declared is in scope from the next visit on. The lemma
`NextSees` is the heart of it: what `Source` finds in scope at a position by
positions alone is what the two lookups find in the table. `AcceptedNamesDenote` then needs
no assumption about writing: a report that was lost has set `internal_failure`, and
this is never `SUCCESS`.

`NoCascade` compares lines of reports with the nodes they are in, and `Source` finds by counting where a node begins: visits
that add an operand against those that take one away. `Spread` says that the operands that wait are consecutive stretches of
the text, each of expressions with the balance of one operand, which end with the text; that nothing was reported in
the stretch of one that is `valid`; and that the statement that waits is just before the first, with nothing reported of it unless its
flag (`redeclared`, or the target's `valid`) says so. An operator joins the last stretches to one
(`OperandsJoin`, from `BalanceJoins`), and looks at types only when all of them are valid. This is an induction over the steps of the analysis,
not over expressions: how far a report reaches follows from `OperandHolds` (a node that ends an operand does not
begin before it) and `WithinGrows` (what comes later gets into no earlier node, but for itself).
TLC checked `Spread` before it was proved.

**The generator.** Its programs do not change, so `Structured` compares the table with the part
that was `Read`. `Scoped` says that so far the bindings are those of the declarations read
(`Bound`) and that each use had a declaration in scope and no declaration repeated one (`Checked`); at
the end this is `SuccessIsWellScoped`, for any sequence of visits, analyzed or not. For labels,
`Labelled` follows each one from where it is made: it is owed by one waiting statement,
or placed once, and never both; all are below `next_label`; each jump goes to a label that is placed or owed.
When the program is handed out nothing waits, so nothing is owed. That operators
find their operands is not needed for any of this, and not assumed.

It is what `TypeOK` needs, as an operator without operands would emit a text that is none. `Fed` says of a
text that before each visit of an expression there is the statement it belongs to with a part of its expression (`Half`) in which as
many operands wait as the visit takes, `Formed` that each statement that awaits an expression also has one; waiting operands are
counted by `Balance`, so that neither is recursive. `Fitting` then says that there are as many `operands` as wait in the
`Half` that was read, and none between statements. At the end of an expression at least one waits (`HalfDone`): the visit before it was an
expression that found its operands, and each leaves one.

What names become rests on `Scoped` and three more invariants. `Stored`: binding `i` is that of symbol `i`, to
the storage in the symbol's scope. `Initializing`: since the declaration that waits only
its initializer was read. `Recorded`: the symbols are in the order of their declarations, with their types
and depths, and the frames have the parents that the text gives them. The lemma `NameIsStored` combines them: a name that is
in scope resolves to the storage of the declaration that `Denoted` finds by positions
alone; `Used` keeps this for the last visit until the next one. `Numbering` says that every result in the code is a temporary
below `next_temporary` whose text was not reserved, and that the reserved texts have those of
all globals of the program, of those too that come after. `Whole` counts, for five kinds of instructions, the visits read
that ask for one: as many as there are in the code, and one more while a statement waits for its expression.

**The composition.** Each phase leaves the variables of the other alone, so `AnalysisRuns` and
`GenerationRuns` show that a run of `Compiler` is a run of either module, and every theorem about them
holds in it. `Coupled` is all that connects them: while the generator has a program, it is the one that
the analysis accepted. Both tables are then `PlacedIn` and record (`RecordedIn`) one and the same text, and `TablesAgree`
of `SourceProofs` shows that such tables are equal: the frames are determined by the blocks, the symbols by
the declarations, and their order by that of the text. `AcceptedIsWellScoped` of the analysis is
what the generator takes for granted (`NamesInOrder`); by `NameIsStored` no use is then refused, and by `NameIsRepeated` no
declaration, so that `INTERNAL_ERROR` is left for counters at their end: no number below `SIZE_MAX` whose temporary is free, or no two labels.
The analysis accepts by the same count: `Forming` of `SemanticProofs` says that all statements of the text so far have their
expressions but the one that waits, and this has a `Half` with the operands that wait. What is accepted is hence `Formed`, by `Coupled`
the generator's program is, and `AcceptedProgramsAreTyped` follows from the lemma `TypedWhenFormed` that also proves `TypeCorrect`.
The modules of the phases and those of their proofs are separate instances;
`SameAnalysis`, `SameGeneration`, `SameWords`, `SamePlaces`, `SameExpressions` and `SameTypes` say that they define the same.

**Ownership in the tree.** `Claims` is a set of triples and `Ownership` counts; the proof reads it as a
relation `Holds` from an owner and a place to an allocation. `HeldOnce` (every allocation is
held, in one place, and what is held is allocated) is not inductive, because destruction has
nodes whose children are partly freed: `HeldAs` tells by which pointer each kind of object may be
held, `Rooted` that every set of nodes has one without a parent in it (there are no cycles, hence
a node is not its own descendant and a child is not freed under its frame), and `Accepted` what
the constructor at work has checked. `AllFit` excludes the nodes that a frame is
emptying. Each action is shown by which pointers it takes away and which it makes.

**The parser.** Four invariants, each of which uses those before it.

- `IInv`, for `Ownership`. The values on the stack are a sequence of sets of allocations, apart
  from each other, from those of the lookahead and from the tree handed out; together they are the heap
  (`Apart`, `Inside`, `Whole`). A value is `Sound`: it owns something only where its symbol can,
  and the items of a list are part of what the list owns. `ReplaceApart` and `CutApart` are about sequences
  of sets and nothing else: taking values off and pushing one that owns what they did and what is new, or freeing
  what was taken off, leaves the rest apart. Each action of `parser.y` then only has to show what its value
  takes over (`TakesOver`), and each path of `YYNOMEM` what it frees; `NothingLost` needs in addition which
  symbols own nothing, since a discarded right side must not have owned any.
- `Shape`, for `StackByNesting`. Each symbol of the stack stands on one that it can stand on (`Ground`),
  where that leaves more than one statement possible the start of its own is where it has to be (`HeadAt`), and each brace is
  no higher than eight for each brace up to it, seven being what `if ( e ) { } else` and its brace take. A reduction
  keeps this by the shape of its rule. A shift keeps it because no rule can be reduced then:
  `TopStands` shows, for every symbol that can be on top, that some rule applies or that it
  waits for a token, and `Expected` for which. That is, the tables of `parser.y` let the stack take no form
  that is not the beginning of a production.
- `RInv`, for `NothingReportedTwice`. While the parser is not recovering, a `;` or a `}` that was read, and not as the token
  still ahead, is at or after each error (`Mended`); and a bad token ahead is one whose lexical error `yyerror` has not
  seen yet (`Pending`), so that it will keep silent. The two productions with `yyerrok` are the only ones that end
  a recovery, and have their closer on top, which is the last token read and nothing is ahead (`TokenRead`). `Dated` and
  `Seen` say that errors are dated by what was read and that `yyerror` has seen no more than was counted.
- `VInv`, for `VerdictTold`. The counters agree with what happened (`LexicalCounted`, `SyntaxCounted`, `MemoryTold`),
  a recovery or a return of 1 comes after an error (`Recovered`, `GivenUp`), and acceptance after a program was handed out (`Handed`).
  `SyntaxCounted` holds only for sources without lexical errors, as `yyerror` may be silent about an error after one;
  that is also all that `parser.y:608` needs, as it looks at the lexical errors first.

The verdict was one property that also compared with `Grammar`. What is proved is the part that belongs to
`parser_parse`; that the errors it has found are those of the language (`ErrorsTrue`) is an induction over `IsProgram`, and model-checked.

**Growing arrays.** Neither a product nor a counter wraps around (`NeverWraps`, from
`GrowingArrayTypes`, `AllocatedAsCounted` and `CountersNeverWrap`), and the two
forms of the guard refuse the same capacities (`FormsAlwaysAgree`). The invariant
is that the bytes last asked for are the capacity times the element size, without the modulus; that
the doubling stays below the modulus follows from the guard, and that the
counter does from the division, as soon as an element has more than one byte.

### Only model-checked

- Liveness (`SearchesEnd`, `ParsingEnds`, `CallsReturn`, and that the generator returns): the prover does
  not handle it under fairness, nor `ENABLED`.
- What needs induction over data: the refinement of `SyntaxTrees`, whose mapping is a recursive function on the heap, and what
  the recursive functions compute for every input (`Grouped`, `IsProgram`, `Scan`, `ReadBack`). The library's
  induction theorems take an operator as a parameter, which the installed provers do not instantiate; least elements
  of sets of numbers, and induction over the steps of a run, which the proofs here use instead, do not reach these.
- `Execution`, which has a `RECURSIVE` operator (`Agrees`, on terms), and so no theorem.
- `ErrorsTrue` of `Parser`: the language of a grammar is defined by recursion on the length of a sequence.
- `Expressions`, `AstPrint` and `Lexer`, which have no theorems. What they promise is that a scan or a traversal
  agrees with a recursive function of its whole input.

## What is not modelled

- Texts: wording of diagnostics, operator texts, the digits of numbers
  (`format_integer`, `format_float`), the words in printed tables, trees and TAC.
- `symbol_table_print`, `tac_program_print` and `symbol_table_get_scope_info`: they change no state and walk
  a list once.
- Checks for trees no parser builds (NULL children, unknown kinds), and for null
  arguments, which return at once. So is the branch at `semantic.c:330` for an insertion that answers that
  the name is taken or the type is none: the analysis has asked before, and a declaration has a type.
- The depth of the C stack, which the recursive walks use without a bound.
- Opening the source file: there is no `main` at this commit.

## Plan

Done: the symbol table with its refinement and theorems; `Source`, `Semantic`, `Tac`, their
composition and the execution of what they make; parser, expressions, syntax trees
with their refinement, printing, lexer, growing arrays; that `SymbolTable` implements `LexicalScopes`;
owners and children in `Ast`; every property of `Semantic`; types, scoping, labels, names and numbers of `Tac`; every
property of `Compiler`; owners, stack, reports and verdict of `Parser`. What could come next:
`EndsOfLine` and `OfThisSource` of `Lexer`.
