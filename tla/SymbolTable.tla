---------------------------- MODULE SymbolTable -----------------------------
(***************************************************************************)
(* The symbol table of symbol_table.c driven through its public interface  *)
(* (symbol_table.h) by one caller.  A call that allocates goes on from one *)
(* allocation to the next, and each of them may fail; what comes after the *)
(* last one only follows a few pointers and is one step with it.  The two  *)
(* searches over several scopes are loops, and each of their iterations is *)
(* a step, so that what they answer is shown and not assumed.              *)
(*                                                                         *)
(* memory counts what is allocated and not freed, by kind of object.  A    *)
(* caller may pass an empty or null name, NoName, and a number outside the *)
(* enumeration of the types, BadType.  Calls on a null table answer before *)
(* they look at it.                                                        *)
(***************************************************************************)
EXTENDS ScopeTable

CONSTANTS NoName,
          BadType,
          Lines,            \* the source lines declarations are given
          InitialCapacity,  \* 4 in the code
          MaxScopes,        \* bound: frames a table is given
          MaxSymbols        \* bound: symbols a table is given

ASSUME NamesAssumption == NoName \notin Names
ASSUME TypesAssumption == BadType \notin Types
ASSUME LinesAssumption == Lines \subseteq Nat
ASSUME CapacityAssumption == InitialCapacity \in Nat \ {0}
ASSUME BoundsAssumption == MaxScopes \in Nat \ {0} /\ MaxSymbols \in Nat

VARIABLES
  table,
  capacity,  \* of the array of the scopes
  memory,    \* how many objects of each kind are allocated
  alive,     \* the caller's pointer to the table is not NULL
  call,      \* the call in progress and its local variables
  result     \* what the last call answered

vars == <<table, capacity, memory, alive, call, result>>

Operations == {"none", "create", "destroy", "enter", "exit", "insert",
               "lookup_current", "lookup_active", "lookup_history"}

Statuses == {"SUCCESS", "DUPLICATE", "CANNOT_EXIT_GLOBAL",
             "INVALID_ARGUMENT", "ALLOCATION_FAILURE"}

Makers == {"create", "enter", "insert"}
Searches == {"lookup_active", "lookup_history"}
Lookups == Searches \cup {"lookup_current"}

AnyName == Names \cup {NoName}
AnyType == Types \cup {BadType}

\* The SymbolTable, its array of scopes, the frames, the symbols, their names.
Objects == {"table", "array", "frame", "symbol", "name"}

Result == [op : Operations, name : AnyName, status : Statuses, symbol : Nat]

\* made: the local variables that point to what the call has allocated.
Call == [op : Makers \cup Searches \cup {"none"}, name : AnyName, type : AnyType,
         line : Nat, cursor : Nat, made : SUBSET Objects]

NoCall == [op |-> "none", name |-> NoName, type |-> BadType, line |-> 0,
           cursor |-> Null, made |-> {}]

\* The type invariant: symbols and frames refer to frames of the table, and the
\* array has room for the frames.
TypeOK ==
  /\ table \in Table
  /\ capacity \in Nat
  /\ memory \in [Objects -> Nat]
  /\ alive \in BOOLEAN
  /\ call \in Call
  /\ result \in Result
  /\ table.current \in DOMAIN table.frames
  /\ \A s \in DOMAIN table.frames :
       table.frames[s].parent \in {Null} \cup DOMAIN table.frames
  /\ \A i \in DOMAIN table.symbols :
       table.symbols[i].owner \in DOMAIN table.frames
  /\ alive => Len(table.frames) <= capacity
  /\ call.cursor \in {Null} \cup DOMAIN table.frames

Answer(op, n, status, symbol) ==
  result' = [op |-> op, name |-> n, status |-> status, symbol |-> symbol]

Init ==
  /\ table = NewTable
  /\ capacity = 0
  /\ memory = [o \in Objects |-> 0]
  /\ alive = FALSE
  /\ call = NoCall
  /\ result = [op |-> "none", name |-> NoName, status |-> "SUCCESS",
               symbol |-> Null]

\* The caller may start another call on a table it holds.
Ready == alive /\ call = NoCall

\* What is answered at once.
Reply(op, n, status) ==
  /\ Answer(op, n, status, Null)
  /\ UNCHANGED <<table, capacity, memory, alive, call>>

-----------------------------------------------------------------------------
(* Calls that allocate. *)

\* There is memory for the object, and the call c goes on with it.
Allocate(object, c) ==
  /\ memory' = [memory EXCEPT ![object] = @ + 1]
  /\ call' = c
  /\ UNCHANGED <<table, capacity, alive, result>>

\* An allocation has failed, and the call frees what it holds.
GiveUp(freed) ==
  /\ Answer(call.op, call.name, "ALLOCATION_FAILURE", Null)
  /\ memory' = [o \in Objects |-> IF o \in freed THEN memory[o] - 1 ELSE memory[o]]
  /\ call' = NoCall
  /\ UNCHANGED <<table, capacity, alive>>

Succeed ==
  /\ Answer(call.op, call.name, "SUCCESS", Null)
  /\ call' = NoCall

\* grow_scope_storage, when it succeeds: the array has room for one more.
Room(count) ==
  IF count < capacity THEN capacity
  ELSE IF capacity = 0 THEN InitialCapacity ELSE capacity * 2

Create ==
  /\ ~alive /\ call = NoCall
  /\ \/ Allocate("table", [NoCall EXCEPT !.op = "create", !.made = {"table"}])
     \/ Reply("create", NoName, "ALLOCATION_FAILURE")

CreateGlobal ==
  /\ call.op = "create" /\ "frame" \notin call.made
  /\ \/ Allocate("frame", [call EXCEPT !.made = {"table", "frame"}])
     \/ GiveUp({"table"})

\* The array of a new table is its first allocation for frames.
FinishCreate ==
  /\ call.op = "create" /\ "frame" \in call.made
  /\ \/ /\ table' = NewTable
        /\ capacity' = Room(0)
        /\ memory' = [memory EXCEPT !["array"] = @ + 1]
        /\ alive' = TRUE
        /\ Succeed
     \/ GiveUp({"frame", "table"})

\* The objects of a table: its symbols are in the lists of its frames.
Held(t) ==
  [o \in Objects |-> CASE o \in {"table", "array"} -> 1
                       [] o = "frame" -> Len(t.frames)
                       [] o \in {"symbol", "name"} -> Len(t.symbols)]

\* Everything the table owns is freed; the caller drops its pointer.
Destroy ==
  /\ Ready
  /\ memory' = [o \in Objects |-> memory[o] - Held(table)[o]]
  /\ alive' = FALSE
  /\ table' = NewTable
  /\ capacity' = 0
  /\ Answer("destroy", NoName, "SUCCESS", Null)
  /\ UNCHANGED call

Enter ==
  /\ Ready
  /\ \/ /\ Len(table.frames) < MaxScopes
        /\ Allocate("frame", [NoCall EXCEPT !.op = "enter", !.made = {"frame"}])
     \/ Reply("enter", NoName, "ALLOCATION_FAILURE")

\* A variant of FinishEnter that keeps the frame when the array cannot grow.
FinishEnterLosing ==
  /\ call.op = "enter"
  /\ \/ /\ table' = EnterScope(table)
        /\ capacity' = Room(Len(table.frames))
        /\ Succeed
        /\ UNCHANGED <<memory, alive>>
     \/ Len(table.frames) = capacity /\ GiveUp({})

\* realloc is called only when the array is full.
FinishEnter ==
  /\ call.op = "enter"
  /\ \/ /\ table' = EnterScope(table)
        /\ capacity' = Room(Len(table.frames))
        /\ Succeed
        /\ UNCHANGED <<memory, alive>>
     \/ Len(table.frames) = capacity /\ GiveUp({"frame"})

Exit ==
  /\ Ready
  /\ \/ /\ AtGlobal(table)
        /\ Reply("exit", NoName, "CANNOT_EXIT_GLOBAL")
     \/ /\ ~AtGlobal(table)
        /\ table' = ExitScope(table)
        /\ Answer("exit", NoName, "SUCCESS", Null)
        /\ UNCHANGED <<capacity, memory, alive, call>>

InsertInvalid(n, ty) ==
  /\ Ready
  /\ n = NoName \/ ty = BadType
  /\ Reply("insert", n, "INVALID_ARGUMENT")

InsertDuplicate(n, ty) ==
  /\ Ready
  /\ n # NoName /\ ty # BadType
  /\ LookupCurrent(table, n) # Null
  /\ Reply("insert", n, "DUPLICATE")

InsertNew(n, ty, line) ==
  /\ Ready
  /\ n # NoName /\ ty # BadType
  /\ LookupCurrent(table, n) = Null
  /\ \/ /\ Len(table.symbols) < MaxSymbols
        /\ Allocate("symbol", [NoCall EXCEPT !.op = "insert", !.name = n, !.type = ty,
                                           !.line = line, !.made = {"symbol"}])
     \/ Reply("insert", n, "ALLOCATION_FAILURE")

\* copy_name, and the symbol is linked.
FinishInsert ==
  /\ call.op = "insert"
  /\ \/ /\ table' = Insert(table, call.name, call.type, call.line)
        /\ memory' = [memory EXCEPT !["name"] = @ + 1]
        /\ Succeed
        /\ UNCHANGED <<capacity, alive>>
     \/ GiveUp({"symbol"})

-----------------------------------------------------------------------------
(* Questions. *)

\* A search for no name answers NULL at once.
LookupNothing(op) ==
  /\ Ready
  /\ Answer(op, NoName, "SUCCESS", Null)
  /\ UNCHANGED <<table, capacity, memory, alive, call>>

LookupCurrentScope(n) ==
  /\ Ready
  /\ Answer("lookup_current", n, "SUCCESS", LookupCurrent(table, n))
  /\ UNCHANGED <<table, capacity, memory, alive, call>>

BeginSearch(op, n, first) ==
  /\ Ready
  /\ call' = [NoCall EXCEPT !.op = op, !.name = n, !.cursor = first]
  /\ UNCHANGED <<table, capacity, memory, alive, result>>

\* Each search starts at its own end: the innermost scope, the newest scope.
BeginLookupActive(n) == BeginSearch("lookup_active", n, table.current)
BeginLookupHistory(n) == BeginSearch("lookup_history", n, Len(table.frames))

Return(symbol) ==
  /\ Answer(call.op, call.name, "SUCCESS", symbol)
  /\ call' = NoCall
  /\ UNCHANGED <<table, capacity, memory, alive>>

Continue(next) ==
  /\ call' = [call EXCEPT !.cursor = next]
  /\ UNCHANGED <<table, capacity, memory, alive, result>>

\* A variant of StepActive that walks the array instead of the parents.
StepActiveByAge ==
  /\ call.op = "lookup_active"
  /\ call.cursor # Null
  /\ LET symbol == LookupInScope(table, call.cursor, call.name)
     IN  IF symbol # Null THEN Return(symbol) ELSE Continue(call.cursor - 1)

\* One iteration of the loop of symbol_table_lookup_active.
StepActive ==
  /\ call.op = "lookup_active"
  /\ call.cursor # Null
  /\ LET symbol == LookupInScope(table, call.cursor, call.name)
     IN  IF symbol # Null
           THEN Return(symbol)
           ELSE Continue(table.frames[call.cursor].parent)

\* Variants of StepHistory: it finds open scopes as well; it does not count
\* down past an open scope.
StepHistoryAny ==
  /\ call.op = "lookup_history"
  /\ call.cursor # Null
  /\ LET symbol == LookupInScope(table, call.cursor, call.name)
     IN  IF symbol # Null THEN Return(symbol) ELSE Continue(call.cursor - 1)
StepHistoryStuck ==
  /\ call.op = "lookup_history"
  /\ call.cursor # Null
  /\ LET symbol == LookupInScope(table, call.cursor, call.name)
     IN  IF ~table.frames[call.cursor].active /\ symbol # Null
           THEN Return(symbol)
           ELSE Continue(IF table.frames[call.cursor].active
                           THEN call.cursor ELSE call.cursor - 1)

\* One iteration of the loop of symbol_table_lookup_history.
StepHistory ==
  /\ call.op = "lookup_history"
  /\ call.cursor # Null
  /\ LET symbol == LookupInScope(table, call.cursor, call.name)
     IN  IF ~table.frames[call.cursor].active /\ symbol # Null
           THEN Return(symbol)
           ELSE Continue(call.cursor - 1)

\* The loop runs out of scopes.
EndSearch ==
  /\ call.op \in Searches
  /\ call.cursor = Null
  /\ Return(Null)

Search == StepActive \/ StepHistory \/ EndSearch
Make == CreateGlobal \/ FinishCreate \/ FinishEnter \/ FinishInsert

Next ==
  \/ Create \/ Destroy \/ Enter \/ Exit
  \/ \E n \in AnyName, ty \in AnyType : \/ InsertInvalid(n, ty)
                                        \/ InsertDuplicate(n, ty)
                                        \/ \E line \in Lines :
                                             InsertNew(n, ty, line)
  \/ \E op \in Lookups : LookupNothing(op)
  \/ \E n \in Names : \/ LookupCurrentScope(n)
                      \/ BeginLookupActive(n)
                      \/ BeginLookupHistory(n)
  \/ Search
  \/ Make

Spec == Init /\ [][Next]_vars

\* A search is a loop of the one thread: once begun it is run to its end.
FairSpec == Spec /\ WF_vars(Search)

-----------------------------------------------------------------------------
\* What a search answers is what its contract says: for lookup_active the
\* innermost open scope's declaration, however many exited scopes lie
\* between; for lookup_history that of the newest exited scope, skipping the
\* open ones.  (The loops at symbol_table.c:262 and :284.)
SearchAnswer ==
  /\ result.op = "lookup_active" /\ result.name # NoName
       => result.symbol = LookupActive(table, result.name)
  /\ result.op = "lookup_history" /\ result.name # NoName
       => result.symbol = LookupHistory(table, result.name)

\* Two symbols of one name never carry the same scope ID, so that a name and
\* a scope ID identify one declaration for the code generator
\* (make_storage_name relies on it), whatever scopes were left and entered.
SymbolIdentity ==
  \A i, j \in DOMAIN table.symbols :
    /\ table.symbols[i].name = table.symbols[j].name
    /\ table.symbols[i].scope_id = table.symbols[j].scope_id
    => i = j

\* The open scopes are one chain: one for each depth from the global scope to
\* the current one, the deeper the newer.  (enter_scope and exit_scope.)
OpenChain == Chain(table)

\* What is allocated is what the table holds and what the call in progress has
\* made for it, whichever allocation of a call failed before: of a call that
\* failed nothing is left, neither lost nor freed a second time, a table that
\* was destroyed included.  (symbol_table.c:125-130, :170-173, :224-228; D-508
\* of DECISIONS.md: frames, symbols and names are freed exactly once.)
MemoryAccounted ==
  \A o \in Objects :
    memory[o] = (IF alive THEN Held(table)[o] ELSE 0)
                  + (IF o \in call.made THEN 1 ELSE 0)

\* No symbol and no frame of the table disappears or is altered, but that an
\* open scope is left.
Kept ==
  /\ \A i \in DOMAIN table.symbols :
       /\ i \in DOMAIN table'.symbols
       /\ table'.symbols[i] = table.symbols[i]
  /\ \A s \in DOMAIN table.frames :
       /\ s \in DOMAIN table'.frames
       /\ table'.frames[s] \in {table.frames[s],
                                [table.frames[s] EXCEPT !.active = FALSE]}

\* Borrowed pointers stay good: until the table is destroyed what they point to
\* is kept, and a scope that was left is never open again.  (symbol_table.h
\* says of its answers that they are borrowed; tac.c keeps them in bindings.)
BorrowedStable == [][alive /\ alive' => Kept]_vars

\* Every search ends: neither following the parents nor counting down can go
\* round in a circle.
SearchEnds == call.op \in Searches ~> call.op = "none"
=============================================================================
