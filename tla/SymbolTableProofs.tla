-------------------------- MODULE SymbolTableProofs --------------------------
(***************************************************************************)
(* Safety of the symbol table for any names, any types, any bounds and any *)
(* sequence of calls and of failing allocations.  The inductive invariant  *)
(* adds to the types that the table is well formed, what the call in       *)
(* progress has made, and what the running search has ruled out.           *)
(*                                                                         *)
(* And it implements the lexical scopes: each step of it is a step of      *)
(* LexicalScopes, or, while a call goes on, none.                          *)
(***************************************************************************)
EXTENDS SymbolTableRefinement, SourceProofs

\* Where a call that allocates stands between its allocations, by what it has
\* made; the checks that insert made at its beginning still hold.
Working ==
  /\ alive \/ call.op \in {"none", "create"}
  /\ call.op \notin Makers => call.made = {}
  /\ call.op = "create" =>
       ~alive /\ call.made = {"table"} \cup (call.made \cap {"frame"})
  /\ call.op = "enter" => call.made = {"frame"}
  /\ call.op = "insert" =>
       /\ call.made = {"symbol"}
       /\ call.name \in Names /\ call.type \in Types
       /\ LookupCurrent(table, call.name) = Null

\* What the search in progress has seen holds no symbol of its name: the
\* frames of its kind younger than the one it looks at next.  The frame that
\* lookup_active looks at next is active.
Searching ==
  /\ call.op = "lookup_active" =>
       /\ call.cursor # Null => table.frames[call.cursor].active
       /\ \A s \in DOMAIN table.frames :
            table.frames[s].active = TRUE /\ s > call.cursor
              => Holding(table, s, call.name) = {}
  /\ call.op = "lookup_history" =>
       \A s \in DOMAIN table.frames :
         table.frames[s].active = FALSE /\ s > call.cursor
           => Holding(table, s, call.name) = {}

TableOK == TypeOK /\ WellFormed(table) /\ Chain(table)

IInv == TableOK /\ Working /\ Searching /\ SearchAnswer /\ MemoryAccounted

-----------------------------------------------------------------------------
\* The pointers of a well-formed table point to its frames.
LEMMA WellFormedPointers ==
  ASSUME NEW t, WellFormed(t)
  PROVE  /\ t \in Table /\ t.current \in DOMAIN t.frames
         /\ DOMAIN t.frames = 1 .. Len(t.frames) /\ Len(t.frames) \in Nat
         /\ \A s \in DOMAIN t.frames :
              t.frames[s].parent \in {Null} \cup DOMAIN t.frames
         /\ \A i \in DOMAIN t.symbols :
              t.symbols[i].owner \in DOMAIN t.frames
  BY FrameFields DEF WellFormed, Nested, Owned, Rooted, Null

\* How many objects of each kind a table holds.
LEMMA HeldCounts ==
  ASSUME NEW t, WellFormed(t)
  PROVE  /\ Held(t) \in [Objects -> Nat]
         /\ Held(t)["table"] = 1 /\ Held(t)["array"] = 1
         /\ Held(t)["frame"] = Len(t.frames)
         /\ Held(t)["symbol"] = Len(t.symbols)
         /\ Held(t)["name"] = Len(t.symbols)
  <1>1. Len(t.frames) \in Nat /\ Len(t.symbols) \in Nat
    BY DEF WellFormed, Table
  <1> QED BY <1>1 DEF Held, Objects

\* The array has room for one more frame, and did not shrink.
LEMMA RoomOK ==
  ASSUME NEW count \in Nat, capacity \in Nat, count <= capacity
  PROVE  Room(count) \in Nat /\ count + 1 <= Room(count)
  BY CapacityAssumption DEF Room

\* No call is in progress: nothing is made and nothing is searched for.
LEMMA NoCallFields ==
  /\ NoCall \in Call /\ NoCall.op = "none" /\ NoCall.cursor = Null
  /\ NoCall.made = {} /\ NoCall.op \notin Searches /\ NoCall.op \notin Makers
  BY DEF NoCall, Call, Null, AnyName, AnyType, Searches, Makers

\* Everything holds of a table that was just made, or before there is one.
LEMMA InitOK == Init => IInv
  <1> SUFFICES ASSUME Init PROVE IInv
    OBVIOUS
  <1>1. WellFormed(table) /\ Chain(table)
    BY NewIsWellFormed, NewIsChain DEF Init
  <1>2. /\ result \in Result /\ alive = FALSE /\ call = NoCall
        /\ capacity \in Nat /\ memory \in [Objects -> Nat]
        /\ result.op = "none" /\ \A o \in Objects : memory[o] = 0
    BY DEF Init, Result, Operations, Statuses, Null, AnyName
  <1>3. TypeOK
    BY <1>1, <1>2, WellFormedPointers, NoCallFields DEF TypeOK
  <1>4. Working /\ MemoryAccounted
    BY <1>2, NoCallFields DEF Working, MemoryAccounted, Makers
  <1> QED BY <1>1, <1>2, <1>3, <1>4, NoCallFields
          DEF IInv, TableOK, Searching, SearchAnswer, Searches

-----------------------------------------------------------------------------
\* A step that neither runs nor answers a search keeps the invariant if it
\* keeps the table well formed and the memory accounted for.
LEMMA QuietStep ==
  ASSUME IInv, WellFormed(table'), Chain(table'), alive' \in BOOLEAN,
         capacity' \in Nat, memory' \in [Objects -> Nat],
         alive' => Len(table'.frames) <= capacity',
         call' \in Call, call'.op \notin Searches,
         call'.cursor \in {Null} \cup DOMAIN table'.frames,
         Working', MemoryAccounted', result' \in Result,
         \/ result'.op \notin Searches \/ result'.name = NoName
         \/ table' = table /\ result' = result
  PROVE  IInv'
  <1>1. TypeOK'
    BY WellFormedPointers DEF TypeOK
  <1>2. SearchAnswer'
    BY DEF IInv, SearchAnswer, Searches
  <1>3. Searching'
    BY DEF Searching, Searches
  <1> QED BY <1>1, <1>2, <1>3 DEF IInv, TableOK

\* A call that is answered at once and leaves everything as it was.
LEMMA ReplyStep ==
  ASSUME IInv, call = NoCall, NEW op \in Operations, NEW n \in AnyName,
         NEW status \in Statuses, op \notin Searches, Reply(op, n, status)
  PROVE  IInv'
  <1>1. result' \in Result /\ result'.op = op
    BY DEF Reply, Answer, Result, Null
  <1>2. Working' /\ MemoryAccounted'
    BY DEF Reply, IInv, Working, MemoryAccounted
  <1> QED BY <1>1, <1>2, NoCallFields, QuietStep DEF Reply, IInv, TableOK, TypeOK

\* A call goes on with an object more.
LEMMA AllocateStep ==
  ASSUME IInv, NEW object \in Objects, NEW c \in Call, Allocate(object, c),
         object \notin call.made, c.made = call.made \cup {object},
         c.op \notin Searches, c.cursor \in {Null, call.cursor}, Working'
  PROVE  IInv'
  <1>1. /\ table' = table /\ capacity' = capacity /\ alive' = alive
        /\ result' = result /\ call' = c
        /\ memory' = [memory EXCEPT ![object] = @ + 1]
    BY DEF Allocate
  <1>2. TypeOK /\ WellFormed(table) /\ Chain(table)
    BY DEF IInv, TableOK
  <1>3. memory' \in [Objects -> Nat]
    BY <1>1, <1>2 DEF TypeOK
  <1>4. MemoryAccounted'
    <2> SUFFICES ASSUME NEW o \in Objects
                 PROVE  memory'[o] = (IF alive' THEN Held(table')[o] ELSE 0)
                                       + (IF o \in call'.made THEN 1 ELSE 0)
      BY DEF MemoryAccounted
    <2> DEFINE held == IF alive THEN Held(table)[o] ELSE 0
    <2>1. memory[o] = held + (IF o \in call.made THEN 1 ELSE 0)
      BY DEF IInv, MemoryAccounted
    <2>2. held \in Nat
      BY <1>2, HeldCounts
    <2>3. memory'[o] = IF o = object THEN memory[o] + 1 ELSE memory[o]
      BY <1>1, <1>2 DEF TypeOK
    <2>4. (IF alive' THEN Held(table')[o] ELSE 0) = held
      BY <1>1
    <2> HIDE DEF held
    <2> QED BY <1>1, <2>1, <2>2, <2>3, <2>4
  <1> QED BY <1>1, <1>2, <1>3, <1>4, QuietStep DEF TypeOK

\* A call that fails frees what it has made, and nothing else has changed.
LEMMA GiveUpStep ==
  ASSUME IInv, call.op \in Makers, GiveUp(call.made)
  PROVE  IInv'
  <1>1. /\ table' = table /\ capacity' = capacity /\ alive' = alive
        /\ call' = NoCall
        /\ memory' = [o \in Objects |-> IF o \in call.made THEN memory[o] - 1
                                        ELSE memory[o]]
    BY DEF GiveUp
  <1>2. TypeOK /\ WellFormed(table) /\ Chain(table)
    BY DEF IInv, TableOK
  <1>3. result' \in Result /\ result'.op = call.op
    <2>1. call.op \in Operations /\ call.name \in AnyName
      BY <1>2 DEF TypeOK, Call, Makers, Operations
    <2> QED BY <2>1 DEF GiveUp, Answer, Result, Statuses, Null
  <1>4. \A o \in Objects : memory'[o] = IF alive THEN Held(table)[o] ELSE 0
    <2> TAKE o \in Objects
    <2> DEFINE held == IF alive THEN Held(table)[o] ELSE 0
    <2>1. memory[o] = held + (IF o \in call.made THEN 1 ELSE 0)
      BY DEF IInv, MemoryAccounted
    <2>2. held \in Nat
      BY <1>2, HeldCounts
    <2> HIDE DEF held
    <2>3. memory'[o] = held
      BY <1>1, <2>1, <2>2
    <2> QED BY <2>3 DEF held
  <1>5. memory' \in [Objects -> Nat]
    <2>1. \A o \in Objects : memory'[o] \in Nat
      BY <1>2, <1>4, HeldCounts
    <2> QED BY <1>1, <2>1
  <1>6. Working'
    BY <1>1, NoCallFields DEF Working, Makers
  <1>7. MemoryAccounted'
    <2>1. \A o \in Objects : memory'[o] = IF alive' THEN Held(table')[o] ELSE 0
      BY <1>1, <1>4
    <2>2. \A o \in Objects : memory'[o] \in Nat
      BY <1>5
    <2> QED BY <1>1, <2>1, <2>2, NoCallFields DEF MemoryAccounted
  <1> QED BY <1>1, <1>2, <1>3, <1>5, <1>6, <1>7, NoCallFields, QuietStep
          DEF TypeOK, Makers, Searches

\* A call that succeeds leaves a table to which everything made belongs.
LEMMA SucceedStep ==
  ASSUME IInv, call.op \in Makers, Succeed, WellFormed(table'), Chain(table'),
         alive' = TRUE, capacity' \in Nat, Len(table'.frames) <= capacity',
         memory' = Held(table')
  PROVE  IInv'
  <1>1. call' = NoCall
    BY DEF Succeed
  <1>2. result' \in Result /\ result'.op = call.op
    <2>1. call.op \in Operations /\ call.name \in AnyName
      BY DEF IInv, TableOK, TypeOK, Call, Makers, Operations
    <2> QED BY <2>1 DEF Succeed, Answer, Result, Statuses, Null
  <1>3. memory' \in [Objects -> Nat]
    BY HeldCounts
  <1>4. Working' /\ MemoryAccounted'
    BY <1>1, <1>3, NoCallFields DEF Working, MemoryAccounted, Makers
  <1> QED BY <1>1, <1>2, <1>3, <1>4, NoCallFields, QuietStep
          DEF Makers, Searches

\* A search returns the symbol that its contract names.
LEMMA ReturnStep ==
  ASSUME IInv, NEW symbol \in Nat, call.op \in Searches, Return(symbol),
         call.op = "lookup_active" => symbol = LookupActive(table, call.name),
         call.op = "lookup_history" => symbol = LookupHistory(table, call.name)
  PROVE  IInv'
  <1>1. /\ table' = table /\ capacity' = capacity /\ memory' = memory
        /\ alive' = alive /\ call' = NoCall
    BY DEF Return
  <1>2. /\ TypeOK /\ WellFormed(table) /\ Chain(table) /\ call.made = {}
    BY DEF IInv, TableOK, Working, Searches, Makers
  <1>3. /\ result'.op = call.op /\ result'.name = call.name
        /\ result'.symbol = symbol
    BY DEF Return, Answer
  <1>4. result' \in Result
    <2>1. call.op \in Operations /\ call.name \in AnyName
      BY <1>2 DEF TypeOK, Call, Searches, Operations
    <2> QED BY <2>1 DEF Return, Answer, Result, Statuses
  <1>5. TypeOK'
    BY <1>1, <1>2, <1>4, NoCallFields DEF TypeOK
  <1>6. SearchAnswer'
    BY <1>1, <1>3 DEF SearchAnswer
  <1>7. Working' /\ MemoryAccounted'
    BY <1>1, <1>2, NoCallFields DEF IInv, Working, MemoryAccounted, Makers
  <1> QED BY <1>1, <1>2, <1>5, <1>6, <1>7, NoCallFields
          DEF IInv, TableOK, Searching, Searches

\* A search goes on to a frame such that it has passed no symbol of its name.
LEMMA ContinueStep ==
  ASSUME IInv, call.op \in Searches, NEW next \in {Null} \cup DOMAIN table.frames,
         Continue(next),
         call.op = "lookup_active" =>
           /\ next # Null => table.frames[next].active
           /\ \A s \in DOMAIN table.frames :
                table.frames[s].active = TRUE /\ s > next
                  => Holding(table, s, call.name) = {},
         call.op = "lookup_history" =>
           \A s \in DOMAIN table.frames :
             table.frames[s].active = FALSE /\ s > next
               => Holding(table, s, call.name) = {}
  PROVE  IInv'
  <1>1. /\ table' = table /\ capacity' = capacity /\ memory' = memory
        /\ alive' = alive /\ result' = result
        /\ call' = [call EXCEPT !.cursor = next]
    BY DEF Continue
  <1>2. /\ call \in Call /\ TypeOK /\ WellFormed(table) /\ Chain(table)
        /\ DOMAIN table.frames \subseteq Nat
    BY WellFormedPointers DEF IInv, TableOK, TypeOK
  <1>3. /\ call' \in Call /\ call'.op = call.op /\ call'.name = call.name
        /\ call'.made = call.made /\ call'.cursor = next
    BY <1>1, <1>2 DEF Call, Null
  <1>4. TypeOK'
    BY <1>1, <1>2, <1>3 DEF TypeOK
  <1>5. SearchAnswer'
    BY <1>1 DEF IInv, SearchAnswer
  <1>6. Working' /\ MemoryAccounted'
    BY <1>1, <1>3 DEF IInv, Working, MemoryAccounted, Searches, Makers
  <1>7. Searching'
    BY <1>1, <1>3 DEF Searching
  <1> QED BY <1>1, <1>2, <1>4, <1>5, <1>6, <1>7 DEF IInv, TableOK

-----------------------------------------------------------------------------
(* The calls that allocate. *)

\* The fields of a call in its first allocation.
LEMMA BegunFields ==
  ASSUME NEW op \in Makers, NEW made \in SUBSET Objects
  PROVE  LET c == [NoCall EXCEPT !.op = op, !.made = made]
         IN  /\ c \in Call /\ c.op = op /\ c.made = made /\ c.cursor = Null
             /\ c.op \notin Searches
  BY DEF NoCall, Call, Null, AnyName, AnyType, Searches, Makers

\* What is allocated between the calls is what the table holds.
LEMMA ReadyMemory ==
  ASSUME IInv, Ready
  PROVE  memory = Held(table)
  <1>1. /\ alive /\ call.made = {} /\ memory \in [Objects -> Nat]
        /\ Held(table) \in [Objects -> Nat]
    BY HeldCounts, NoCallFields DEF Ready, IInv, TableOK, TypeOK
  <1>2. \A o \in Objects : memory[o] = Held(table)[o]
    BY <1>1 DEF IInv, MemoryAccounted
  <1> QED BY <1>1, <1>2

\* Making a table, from its three allocations.
LEMMA CreateOK == IInv /\ (Create \/ CreateGlobal \/ FinishCreate) => IInv'
  <1> SUFFICES ASSUME IInv, Create \/ CreateGlobal \/ FinishCreate PROVE IInv'
    OBVIOUS
  <1>1. /\ TypeOK /\ call \in Call /\ memory \in [Objects -> Nat]
        /\ call.op = "create" => ~alive
    BY DEF IInv, TableOK, TypeOK, Working
  <1>2. CASE Create
    <2> DEFINE c == [NoCall EXCEPT !.op = "create", !.made = {"table"}]
    <2>1. /\ c \in Call /\ c.op = "create" /\ c.made = {"table"}
          /\ c.cursor = Null /\ c.op \notin Searches
      BY BegunFields DEF Makers, Objects
    <2>2. CASE Allocate("table", c)
      <3>1. Working'
        BY <1>2, <2>1, <2>2 DEF Create, Allocate, Working, Makers
      <3> QED BY <1>2, <2>1, <2>2, <3>1, AllocateStep, NoCallFields
              DEF Create, Objects
    <2>3. CASE Reply("create", NoName, "ALLOCATION_FAILURE")
      BY <1>2, <2>3, ReplyStep DEF Create, Operations, Statuses, Searches, AnyName
    <2> QED BY <1>2, <2>2, <2>3 DEF Create
  <1>3. CASE CreateGlobal
    <2>1. /\ call.op = "create" /\ call.made = {"table"}
      BY <1>3 DEF CreateGlobal, IInv, Working
    <2> DEFINE c == [call EXCEPT !.made = {"table", "frame"}]
    <2>2. /\ c \in Call /\ c.op = "create" /\ c.made = {"table", "frame"}
          /\ c.cursor = call.cursor
      BY <1>1, <2>1 DEF Call, Objects
    <2>3. CASE Allocate("frame", c)
      <3>1. Working'
        BY <1>1, <2>1, <2>2, <2>3 DEF Allocate, Working, Makers
      <3> QED BY <1>1, <2>1, <2>2, <2>3, <3>1, AllocateStep
              DEF Objects, Searches, IInv, Working
    <2>4. CASE GiveUp({"table"})
      BY <2>1, <2>4, GiveUpStep DEF Makers
    <2> QED BY <1>3, <2>3, <2>4 DEF CreateGlobal
  <1>4. CASE FinishCreate
    <2>1. /\ call.op = "create" /\ call.made = {"table", "frame"}
      BY <1>4 DEF FinishCreate, IInv, Working
    <2>2. CASE /\ table' = NewTable /\ capacity' = Room(0) /\ alive' = TRUE
               /\ memory' = [memory EXCEPT !["array"] = @ + 1] /\ Succeed
      <3>1. WellFormed(table') /\ Chain(table') /\ Len(table'.frames) = 1
        BY <2>2, NewIsWellFormed, NewIsChain DEF NewTable
      <3>2. capacity' \in Nat /\ 1 <= capacity'
        BY <1>1, <2>2, RoomOK DEF TypeOK
      <3>3. memory' = Held(table')
        <4>1. \A o \in Objects : memory[o] = IF o \in {"table", "frame"} THEN 1 ELSE 0
          BY <1>1, <2>1 DEF IInv, MemoryAccounted
        <4>2. memory' = [o \in Objects |->
                           IF o = "array" THEN memory[o] + 1 ELSE memory[o]]
          BY <1>1, <2>2 DEF Objects
        <4>3. \A o \in Objects :
                memory'[o] = IF o \in {"table", "array", "frame"} THEN 1 ELSE 0
          BY <4>1, <4>2
        <4>4. \A o \in Objects :
                Held(table')[o] = IF o \in {"table", "array", "frame"} THEN 1 ELSE 0
          <5>1. Len(table'.symbols) = 0
            BY <2>2 DEF NewTable
          <5> QED BY <3>1, <5>1, HeldCounts DEF Objects
        <4> QED BY <3>1, <4>2, <4>3, <4>4, HeldCounts
      <3> QED BY <2>1, <2>2, <3>1, <3>2, <3>3, SucceedStep DEF Makers
    <2>3. CASE GiveUp({"frame", "table"})
      <3>1. GiveUp(call.made)
        BY <2>1, <2>3 DEF GiveUp
      <3> QED BY <2>1, <3>1, GiveUpStep DEF Makers
    <2> QED BY <1>4, <2>2, <2>3 DEF FinishCreate
  <1> QED BY <1>2, <1>3, <1>4

\* Freeing a table: nothing stays allocated.
LEMMA DestroyOK == IInv /\ Destroy => IInv'
  <1> SUFFICES ASSUME IInv, Destroy PROVE IInv'
    OBVIOUS
  <1>1. WellFormed(table') /\ Chain(table')
    BY NewIsWellFormed, NewIsChain DEF Destroy
  <1>2. result' \in Result /\ result'.op = "destroy"
    BY DEF Destroy, Answer, Result, Operations, Statuses, Null, AnyName
  <1>3. /\ alive' = FALSE /\ capacity' = 0 /\ call' = NoCall
    BY DEF Destroy, Ready
  <1>4. memory' = [o \in Objects |-> 0]
    <2>1. memory = Held(table) /\ Held(table) \in [Objects -> Nat]
      BY ReadyMemory, HeldCounts DEF Destroy, IInv, TableOK
    <2> QED BY <2>1 DEF Destroy
  <1>5. Working' /\ MemoryAccounted'
    BY <1>3, <1>4, NoCallFields DEF Working, MemoryAccounted, Makers
  <1> QED BY <1>1, <1>2, <1>3, <1>4, <1>5, NoCallFields, QuietStep DEF Searches

\* Entering a scope, from a frame and an array that may have to grow.
LEMMA EnterOK == IInv /\ (Enter \/ FinishEnter) => IInv'
  <1> SUFFICES ASSUME IInv, Enter \/ FinishEnter PROVE IInv'
    OBVIOUS
  <1>1. /\ TypeOK /\ WellFormed(table) /\ Chain(table)
        /\ Len(table.frames) \in Nat
    BY WellFormedPointers DEF IInv, TableOK
  <1>2. CASE Enter
    <2> DEFINE c == [NoCall EXCEPT !.op = "enter", !.made = {"frame"}]
    <2>1. /\ c \in Call /\ c.op = "enter" /\ c.made = {"frame"}
          /\ c.cursor = Null /\ c.op \notin Searches
      BY BegunFields DEF Makers, Objects
    <2>2. CASE Allocate("frame", c)
      <3>1. Working'
        BY <1>2, <2>1, <2>2 DEF Enter, Ready, Allocate, Working, Makers
      <3> QED BY <1>2, <2>1, <2>2, <3>1, AllocateStep, NoCallFields
              DEF Enter, Ready, Objects
    <2>3. CASE Reply("enter", NoName, "ALLOCATION_FAILURE")
      BY <1>2, <2>3, ReplyStep
         DEF Enter, Ready, Operations, Statuses, Searches, AnyName
    <2> QED BY <1>2, <2>2, <2>3 DEF Enter
  <1>3. CASE FinishEnter
    <2>1. call.op = "enter" /\ call.made = {"frame"} /\ alive
      BY <1>3 DEF FinishEnter, IInv, Working
    <2>2. CASE /\ table' = EnterScope(table) /\ Succeed
               /\ capacity' = Room(Len(table.frames))
               /\ UNCHANGED <<memory, alive>>
      <3>1. /\ WellFormed(table') /\ Chain(table')
        BY <1>1, <2>2, EnterKeepsWellFormed, EnterKeepsChain
      <3>2. /\ table'.symbols = table.symbols
            /\ Len(table'.frames) = Len(table.frames) + 1
        BY <1>1, <2>2 DEF EnterScope, WellFormed, Table
      <3>3. capacity' \in Nat /\ Len(table'.frames) <= capacity'
        BY <1>1, <2>1, <2>2, <3>2, RoomOK DEF TypeOK
      <3>4. memory' = Held(table')
        <4>1. \A o \in Objects : memory[o] = Held(table)[o]
                                   + (IF o = "frame" THEN 1 ELSE 0)
          BY <2>1 DEF IInv, MemoryAccounted
        <4>2. \A o \in Objects : Held(table')[o] = Held(table)[o]
                                   + (IF o = "frame" THEN 1 ELSE 0)
          BY <1>1, <3>1, <3>2, HeldCounts DEF Objects
        <4> QED BY <1>1, <2>2, <3>1, <4>1, <4>2, HeldCounts DEF TypeOK
      <3> QED BY <2>1, <2>2, <3>1, <3>3, <3>4, SucceedStep DEF Makers
    <2>3. CASE GiveUp({"frame"})
      BY <2>1, <2>3, GiveUpStep DEF Makers
    <2> QED BY <1>3, <2>2, <2>3 DEF FinishEnter
  <1> QED BY <1>2, <1>3

\* Inserting a new name begins with the symbol, and ends with the copied name.
LEMMA InsertOK ==
  ASSUME IInv, NEW n \in AnyName, NEW ty \in AnyType, NEW line \in Lines,
         InsertNew(n, ty, line)
  PROVE  IInv'
  <1> DEFINE c == [NoCall EXCEPT !.op = "insert", !.name = n, !.type = ty,
                                 !.line = line, !.made = {"symbol"}]
  <1>1. /\ c \in Call /\ c.op = "insert" /\ c.name = n /\ c.type = ty
        /\ c.made = {"symbol"} /\ c.cursor = Null /\ c.op \notin Searches
    BY LinesAssumption DEF NoCall, Call, Null, Searches, Makers, Objects
  <1>2. CASE Allocate("symbol", c)
    <2>1. /\ n \in Names /\ ty \in Types /\ LookupCurrent(table, n) = Null
          /\ alive /\ call = NoCall
      BY DEF InsertNew, Ready, AnyName, AnyType
    <2> HIDE DEF c
    <2>2. Working'
      BY <1>1, <1>2, <2>1 DEF Allocate, Working, Makers
    <2> QED BY <1>1, <1>2, <2>1, <2>2, AllocateStep, NoCallFields DEF Objects
  <1>3. CASE Reply("insert", n, "ALLOCATION_FAILURE")
    BY <1>3, ReplyStep DEF InsertNew, Ready, Operations, Statuses, Searches
  <1> QED BY <1>2, <1>3 DEF InsertNew

LEMMA FinishInsertOK == IInv /\ FinishInsert => IInv'
  <1> SUFFICES ASSUME IInv, FinishInsert PROVE IInv'
    OBVIOUS
  <1> DEFINE n == call.name
             ty == call.type
             line == call.line
  <1>1. /\ TypeOK /\ WellFormed(table) /\ Chain(table) /\ line \in Nat
    BY DEF IInv, TableOK, TypeOK, Call
  <1>2. /\ call.op = "insert" /\ call.made = {"symbol"} /\ alive
        /\ n \in Names /\ ty \in Types /\ LookupCurrent(table, n) = Null
    BY DEF FinishInsert, IInv, Working
  <1>3. CASE /\ table' = Insert(table, n, ty, line) /\ Succeed
             /\ memory' = [memory EXCEPT !["name"] = @ + 1]
             /\ UNCHANGED <<capacity, alive>>
    <2>1. WellFormed(table') /\ Chain(table')
      BY <1>1, <1>2, <1>3, InsertKeepsWellFormed, InsertKeepsChain DEF TypeOK
    <2>2. /\ table'.frames = table.frames
          /\ Len(table'.symbols) = Len(table.symbols) + 1
      BY <1>1, <1>3 DEF Insert, WellFormed, Table
    <2>3. memory' = Held(table')
      <3>1. \A o \in Objects : memory[o] = Held(table)[o]
                                 + (IF o = "symbol" THEN 1 ELSE 0)
        BY <1>2 DEF IInv, MemoryAccounted
      <3>2. \A o \in Objects :
              Held(table')[o] = Held(table)[o]
                                  + (IF o \in {"symbol", "name"} THEN 1 ELSE 0)
        BY <1>1, <2>1, <2>2, HeldCounts DEF Objects
      <3>3. \A o \in Objects : memory'[o] = Held(table')[o]
        BY <1>1, <1>3, <3>1, <3>2, HeldCounts DEF TypeOK, Objects
      <3> QED BY <1>1, <1>3, <2>1, <3>3, HeldCounts DEF TypeOK
    <2> QED BY <1>1, <1>2, <1>3, <2>1, <2>2, <2>3, SucceedStep DEF Makers, TypeOK
  <1>4. CASE GiveUp({"symbol"})
    BY <1>2, <1>4, GiveUpStep DEF Makers
  <1> QED BY <1>3, <1>4 DEF FinishInsert

\* Leaving a scope frees nothing.
LEMMA ExitOK == IInv /\ Exit => IInv'
  <1> SUFFICES ASSUME IInv, Exit PROVE IInv'
    OBVIOUS
  <1>1. TypeOK /\ WellFormed(table) /\ Chain(table) /\ call = NoCall
    BY DEF IInv, TableOK, Exit, Ready
  <1>2. CASE Reply("exit", NoName, "CANNOT_EXIT_GLOBAL")
    BY <1>1, <1>2, ReplyStep DEF Operations, Statuses, Searches, AnyName
  <1>3. CASE /\ ~AtGlobal(table) /\ table' = ExitScope(table)
             /\ UNCHANGED <<capacity, memory, alive, call>>
             /\ Answer("exit", NoName, "SUCCESS", Null)
    <2>1. WellFormed(table') /\ Chain(table')
      BY <1>1, <1>3, ExitKeepsWellFormed, ExitKeepsChain
    <2>2. /\ table'.symbols = table.symbols
          /\ Len(table'.frames) = Len(table.frames)
      BY <1>1, <1>3 DEF ExitScope, WellFormed, Table
    <2>3. result' \in Result /\ result'.op = "exit"
      BY <1>3 DEF Answer, Result, Operations, Statuses, Null, AnyName
    <2>4. Held(table') = Held(table)
      BY <2>2 DEF Held
    <2>5. Working' /\ MemoryAccounted'
      BY <1>1, <1>3, <2>4, NoCallFields DEF IInv, Working, MemoryAccounted, Makers
    <2> QED BY <1>1, <1>3, <2>1, <2>2, <2>3, <2>5, NoCallFields, QuietStep
            DEF TypeOK, Searches
  <1> QED BY <1>2, <1>3 DEF Exit

\* A question that is answered at once.
LEMMA LookupStep ==
  ASSUME IInv, Ready, NEW op \in Lookups, NEW n \in AnyName, NEW i \in Nat,
         op \notin Searches \/ n = NoName,
         Answer(op, n, "SUCCESS", i),
         UNCHANGED <<table, capacity, memory, alive, call>>
  PROVE  IInv'
  <1>1. result' \in Result /\ result'.op = op /\ result'.name = n
    BY DEF Answer, Result, Lookups, Searches, Operations, Statuses
  <1>2. Working' /\ MemoryAccounted'
    BY DEF IInv, Working, MemoryAccounted
  <1> QED BY <1>1, <1>2, NoCallFields, QuietStep DEF Ready, IInv, TableOK, TypeOK

-----------------------------------------------------------------------------
\* Every step of a caller keeps the invariant.
LEMMA StepOK == IInv /\ [Next]_vars => IInv'
  <1> SUFFICES ASSUME IInv, [Next]_vars PROVE IInv'
    OBVIOUS
  <1>0. /\ TypeOK /\ WellFormed(table) /\ Chain(table)
        /\ NoName \in AnyName /\ Names \subseteq AnyName
        /\ call.op \in Searches => alive
    BY DEF IInv, TableOK, AnyName, Working, Searches
  <1>2. CASE Create \/ CreateGlobal \/ FinishCreate
    BY <1>2, CreateOK
  <1>3. CASE Destroy
    BY <1>3, DestroyOK
  <1>4. CASE Enter \/ FinishEnter
    BY <1>4, EnterOK
  <1>5. CASE Exit
    BY <1>5, ExitOK
  <1>6. ASSUME NEW n \in AnyName, NEW ty \in AnyType,
               InsertInvalid(n, ty) \/ InsertDuplicate(n, ty)
        PROVE  IInv'
    BY <1>6, ReplyStep
       DEF InsertInvalid, InsertDuplicate, Ready, Operations, Statuses, Searches
  <1>7. ASSUME NEW n \in AnyName, NEW ty \in AnyType, NEW line \in Lines,
               InsertNew(n, ty, line)
        PROVE  IInv'
    BY <1>7, InsertOK
  <1>15. CASE FinishInsert
    BY <1>15, FinishInsertOK
  <1>8. ASSUME NEW op \in Lookups, LookupNothing(op)
        PROVE  IInv'
    BY <1>0, <1>8, LookupStep DEF LookupNothing, Null
  <1>9. ASSUME NEW n \in Names, LookupCurrentScope(n)
        PROVE  IInv'
    <2>1. LookupCurrent(table, n) \in Nat
      BY <1>0, LookupInScopeAnswer DEF LookupCurrent, Null, WellFormed, Table
    <2> QED BY <1>0, <1>9, <2>1, LookupStep
            DEF LookupCurrentScope, Lookups, Searches
  <1>10. ASSUME NEW n \in Names, BeginLookupActive(n) \/ BeginLookupHistory(n)
         PROVE  IInv'
    <2>1. /\ call' \in Call
          /\ UNCHANGED <<table, capacity, memory, alive, result>> /\ alive
          /\ call = NoCall /\ call'.made = {}
          /\ call'.cursor \in DOMAIN table.frames
          /\ \/ /\ call'.op = "lookup_active" /\ call'.cursor = table.current
             \/ /\ call'.op = "lookup_history"
                /\ call'.cursor = Len(table.frames)
      <3>1. /\ table.current \in DOMAIN table.frames
            /\ Len(table.frames) \in DOMAIN table.frames
            /\ DOMAIN table.frames \subseteq Nat
        BY <1>0, WellFormedPointers
      <3>2. ASSUME NEW op \in Searches, NEW first \in DOMAIN table.frames,
                   BeginSearch(op, n, first)
            PROVE  /\ call' \in Call /\ call'.made = {}
                   /\ call'.op = op /\ call'.cursor = first
                   /\ UNCHANGED <<table, capacity, memory, alive, result>>
                   /\ alive /\ call = NoCall
        BY <1>0, <3>1, <3>2 DEF BeginSearch, Call, NoCall, AnyType, Ready
      <3> QED BY <1>10, <3>1, <3>2
              DEF BeginLookupActive, BeginLookupHistory, Searches
    <2>2. TypeOK' /\ SearchAnswer'
      BY <1>0, <2>1 DEF TypeOK, IInv, SearchAnswer
    <2>6. Working' /\ MemoryAccounted'
      BY <2>1, NoCallFields DEF IInv, Working, MemoryAccounted, Makers
    <2>3. \A s \in DOMAIN table.frames :
            /\ s <= Len(table.frames)
            /\ table.frames[s].active => s <= table.current
      BY <1>0, WellFormedPointers DEF WellFormed, Nested
    <2>4. table.frames[table.current].active
      BY <1>0 DEF WellFormed, Nested
    <2>5. Searching'
      <3>1. \A s \in DOMAIN table.frames :
              /\ ~(s > Len(table.frames))
              /\ table.frames[s].active = TRUE => ~(s > table.current)
        BY <1>0, <2>3, WellFormedPointers
      <3> QED BY <2>1, <2>4, <3>1 DEF Searching
    <2> QED BY <1>0, <2>1, <2>2, <2>5, <2>6 DEF IInv, TableOK
  <1>11. CASE StepActive
    <2> DEFINE c == call.cursor
               n == call.name
               p == table.frames[c].parent
    <2>1. /\ call.op = "lookup_active" /\ c \in DOMAIN table.frames /\ alive
          /\ table.frames[c].active
          /\ \A s \in DOMAIN table.frames :
               table.frames[s].active = TRUE /\ s > c
                 => Holding(table, s, n) = {}
      BY <1>0, <1>11 DEF StepActive, TypeOK, IInv, Searching, Searches
    <2>2. CASE LookupInScope(table, c, n) # Null
      <3>1. /\ Return(LookupInScope(table, c, n))
            /\ LookupInScope(table, c, n) \in Nat
            /\ Holding(table, c, n) # {}
        BY <1>0, <1>11, <2>2, LookupInScopeAnswer
           DEF StepActive, Null, WellFormed, Table
      <3>2. LookupInScope(table, c, n) = LookupActive(table, n)
        BY <1>0, <2>1, <3>1, FoundIsNewest DEF LookupActive, TypeOK, Table, Frame
      <3> QED BY <2>1, <3>1, <3>2, ReturnStep DEF Searches
    <2>3. CASE LookupInScope(table, c, n) = Null
      <3>1. Continue(p) /\ Holding(table, c, n) = {}
        BY <1>0, <1>11, <2>3, LookupInScopeAnswer DEF StepActive
      <3>2. p \in {Null} \cup DOMAIN table.frames
        BY <1>0, <2>1 DEF TypeOK
      <3>3. p # Null => table.frames[p].active
        BY <1>0, <2>1 DEF WellFormed, Rooted, Nested
      <3>4. ASSUME NEW s \in DOMAIN table.frames,
                   table.frames[s].active = TRUE, s > p
            PROVE  Holding(table, s, n) = {}
        <4>1. s \in Nat /\ c \in Nat /\ p \in Nat
          BY <1>0, <2>1, <3>2, WellFormedPointers DEF Null
        <4>2. s = c \/ s > c
          BY <1>0, <2>1, <3>4, <4>1 DEF WellFormed, Nested
        <4> QED BY <2>1, <3>1, <3>4, <4>2
      <3> QED BY <2>1, <3>1, <3>2, <3>3, <3>4, ContinueStep DEF Searches
    <2> QED BY <2>2, <2>3
  <1>12. CASE StepHistory
    <2> DEFINE c == call.cursor
               n == call.name
    <2>1. /\ call.op = "lookup_history" /\ c \in DOMAIN table.frames /\ alive
          /\ \A s \in DOMAIN table.frames :
               table.frames[s].active = FALSE /\ s > c
                 => Holding(table, s, n) = {}
      BY <1>0, <1>12 DEF StepHistory, TypeOK, IInv, Searching, Searches
    <2>2. table.frames[c].active \in BOOLEAN
      BY <1>0, <2>1, FrameFields DEF WellFormed
    <2>3. CASE ~table.frames[c].active /\ LookupInScope(table, c, n) # Null
      <3>1. /\ Return(LookupInScope(table, c, n))
            /\ LookupInScope(table, c, n) \in Nat
            /\ Holding(table, c, n) # {}
        BY <1>0, <1>12, <2>3, LookupInScopeAnswer
           DEF StepHistory, Null, WellFormed, Table
      <3>2. LookupInScope(table, c, n) = LookupHistory(table, n)
        BY <1>0, <2>1, <2>2, <2>3, <3>1, FoundIsNewest DEF LookupHistory
      <3> QED BY <2>1, <3>1, <3>2, ReturnStep DEF Searches
    <2>4. CASE ~(~table.frames[c].active /\ LookupInScope(table, c, n) # Null)
      <3>1. Continue(c - 1) /\ (table.frames[c].active \/ Holding(table, c, n) = {})
        BY <1>0, <1>12, <2>4, LookupInScopeAnswer DEF StepHistory
      <3>2. c - 1 \in {Null} \cup DOMAIN table.frames
        BY <1>0, <2>1, WellFormedPointers DEF Null
      <3>3. ASSUME NEW s \in DOMAIN table.frames,
                   table.frames[s].active = FALSE, s > c - 1
            PROVE  Holding(table, s, n) = {}
        <4>1. s = c \/ s > c
          BY <1>0, <2>1, <3>3, WellFormedPointers
        <4> QED BY <2>1, <3>1, <3>3, <4>1
      <3> QED BY <2>1, <3>1, <3>2, <3>3, ContinueStep DEF Searches
    <2> QED BY <2>3, <2>4
  <1>13. CASE EndSearch
    <2>1. call.op \in Searches /\ call.cursor = Null /\ Return(Null)
      BY <1>13 DEF EndSearch
    <2>2. \A s \in DOMAIN table.frames : s > Null
      BY <1>0, WellFormedPointers DEF Null
    <2>3. /\ call.op = "lookup_active" =>
              Null = LookupActive(table, call.name)
          /\ call.op = "lookup_history" =>
              Null = LookupHistory(table, call.name)
      BY <1>0, <2>1, <2>2, NotFoundIsNull
         DEF IInv, Searching, LookupActive, LookupHistory
    <2>4. Null \in Nat
      BY DEF Null
    <2> QED BY <2>1, <2>3, <2>4, ReturnStep
  <1>14. CASE UNCHANGED vars
    BY <1>14 DEF vars, IInv, TableOK, TypeOK, Working, Searching, SearchAnswer,
                 MemoryAccounted
  <1> QED BY <1>2, <1>3, <1>4, <1>5, <1>6, <1>7, <1>8, <1>9, <1>10, <1>11,
             <1>12, <1>13, <1>14, <1>15 DEF Next, Search, Make

\* The inductive invariant holds in every behaviour of the symbol table.
THEOREM Invariance == Spec => []IInv
  BY InitOK, StepOK, PTL DEF Spec

\* The table, the pointers in it and what calls answer keep their types.
THEOREM TypeCorrect == Spec => []TypeOK
  <1>1. IInv => TypeOK
    BY DEF IInv, TableOK
  <1> QED BY <1>1, Invariance, PTL

\* The loops of lookup_active and lookup_history answer what their contracts
\* say, whatever scopes were entered and left before.
THEOREM SearchesAnswer == Spec => []SearchAnswer
  <1>1. IInv => SearchAnswer
    BY DEF IInv
  <1> QED BY <1>1, Invariance, PTL

\* A name and a scope ID identify one symbol.
THEOREM IdentityOfSymbols == Spec => []SymbolIdentity
  <1>1. IInv => SymbolIdentity
    <2> SUFFICES ASSUME IInv PROVE SymbolIdentity
      OBVIOUS
    <2>1. /\ Owned(table) /\ DOMAIN table.frames \subseteq Nat
      BY WellFormedPointers DEF IInv, TableOK, WellFormed
    <2>2. \A i, j \in DOMAIN table.symbols :
            table.symbols[i].scope_id = table.symbols[j].scope_id
              => table.symbols[i].owner = table.symbols[j].owner
      BY <2>1 DEF Owned
    <2> QED BY <2>1, <2>2 DEF Owned, SymbolIdentity
  <1> QED BY <1>1, Invariance, PTL

\* The active frames are one chain from the global scope to the current one.
THEOREM OpenScopesChain == Spec => []OpenChain
  <1>1. IInv => OpenChain
    BY DEF IInv, TableOK, OpenChain
  <1> QED BY <1>1, Invariance, PTL

\* Whichever allocations fail, in whichever calls: what is allocated is what the
\* table holds and what the call in progress has made for it.
THEOREM NothingIsLost == Spec => []MemoryAccounted
  <1>1. IInv => MemoryAccounted
    BY DEF IInv
  <1> QED BY <1>1, Invariance, PTL

\* A step that leaves the table alone keeps everything in it.
LEMMA SameTableKept == table' = table => Kept
  BY DEF Kept

\* Symbols and frames stay as they were, but for the flag of a frame that is
\* left, for as long as the table is alive.
THEOREM BorrowedPointersStable == Spec => BorrowedStable
  <1>1. IInv /\ [Next]_vars => [alive /\ alive' => Kept]_vars
    <2> SUFFICES ASSUME IInv, Next, alive, alive' PROVE Kept
      BY DEF vars
    <2>1. table \in Table /\ table.current \in DOMAIN table.frames
      BY DEF IInv, TableOK, TypeOK
    <2>2. CASE table' = table
      BY <2>2, SameTableKept
    <2>3. CASE FinishEnter
      <3>1. table' = table \/ table' = EnterScope(table)
        BY <2>3 DEF FinishEnter, GiveUp
      <3>2. CASE table' = EnterScope(table)
        <4> DEFINE f == [id |-> table.next_scope_id,
                         depth |-> CurrentFrame(table).depth + 1,
                         active |-> TRUE, parent |-> table.current]
        <4>1. /\ table'.symbols = table.symbols
              /\ table'.frames = Append(table.frames, f)
          BY <3>2 DEF EnterScope
        <4> HIDE DEF f
        <4>2. \A s \in DOMAIN table.frames :
                s \in DOMAIN table'.frames /\ table'.frames[s] = table.frames[s]
          BY <2>1, <4>1 DEF Table
        <4> QED BY <4>1, <4>2 DEF Kept
      <3> QED BY <2>2, <3>1, <3>2
    <2>4. CASE Exit
      <3>1. table' = table \/ table' = ExitScope(table)
        BY <2>4 DEF Exit, Reply
      <3>2. CASE table' = ExitScope(table)
        <4>1. /\ table'.symbols = table.symbols
              /\ table'.frames =
                   [table.frames EXCEPT ![table.current].active = FALSE]
          BY <2>1, <3>2 DEF ExitScope, Table
        <4>2. \A s \in DOMAIN table.frames :
                /\ s \in DOMAIN table'.frames
                /\ table'.frames[s] \in {table.frames[s],
                                         [table.frames[s] EXCEPT !.active = FALSE]}
          BY <2>1, <4>1
        <4> QED BY <4>1, <4>2 DEF Kept
      <3> QED BY <2>2, <3>1, <3>2
    <2>5. CASE FinishInsert
      <3> DEFINE n == call.name
                 ty == call.type
                 line == call.line
      <3>1. table' = table \/ table' = Insert(table, n, ty, line)
        BY <2>5 DEF FinishInsert, GiveUp
      <3>2. CASE table' = Insert(table, n, ty, line)
        <4> DEFINE y == [name |-> n, type |-> ty, line |-> line,
                         scope_id |-> CurrentFrame(table).id,
                         scope_depth |-> CurrentFrame(table).depth,
                         owner |-> table.current]
        <4>1. /\ table'.frames = table.frames
              /\ table'.symbols = Append(table.symbols, y)
          BY <2>1, <3>2 DEF Insert, Table
        <4> HIDE DEF y
        <4>2. \A i \in DOMAIN table.symbols :
                /\ i \in DOMAIN table'.symbols
                /\ table'.symbols[i] = table.symbols[i]
          BY <2>1, <4>1 DEF Table
        <4> QED BY <4>1, <4>2 DEF Kept
      <3> QED BY <2>2, <3>1, <3>2
    <2>6. ~Create /\ ~Destroy /\ ~FinishCreate
      BY DEF Create, Destroy, FinishCreate, IInv, Working
    <2>7. ASSUME NEW n \in AnyName, NEW ty \in AnyType,
                 \/ InsertInvalid(n, ty) \/ InsertDuplicate(n, ty)
                 \/ \E line \in Lines : InsertNew(n, ty, line)
          PROVE  table' = table
      BY <2>7 DEF InsertInvalid, InsertDuplicate, InsertNew, Reply, Allocate
    <2>8. ASSUME \/ \E op \in Lookups : LookupNothing(op)
                 \/ \E n \in Names : \/ LookupCurrentScope(n)
                                     \/ BeginLookupActive(n)
                                     \/ BeginLookupHistory(n)
                 \/ Search \/ Enter \/ CreateGlobal
          PROVE  table' = table
      BY <2>8 DEF Enter, CreateGlobal, Allocate, GiveUp, Reply, LookupNothing, LookupCurrentScope, BeginLookupActive,
                  BeginLookupHistory, BeginSearch, Search, StepActive,
                  StepHistory, EndSearch, Return, Continue
    <2> QED BY <2>2, <2>3, <2>4, <2>5, <2>6, <2>7, <2>8 DEF Next, Make
  <1> QED BY <1>1, Invariance, PTL DEF Spec, BorrowedStable

-----------------------------------------------------------------------------
(* The refinement. *)

\* Symbol i of table t, or none, as an answer.
AnswerOf(t, i) == IF i = Null THEN Scopes!NotFound
                  ELSE [birth |-> t.symbols[i].scope_id,
                        type  |-> t.symbols[i].type]

-----------------------------------------------------------------------------
(* Frames as scopes. *)

\* Every frame stands for a scope that is as old as the frame; it binds the
\* names that the frame holds, and answers with the symbol it holds.
LEMMA ScopeFields ==
  ASSUME NEW t, WellFormed(t), NEW s \in DOMAIN t.frames
  PROVE  /\ ScopeOf(t, s) \in Scopes!Scope
         /\ ScopeOf(t, s).birth = s - 1
         /\ \A n \in Names :
              /\ ScopeOf(t, s).bound[n] = BadType <=> Holding(t, s, n) = {}
              /\ Scopes!Found(ScopeOf(t, s), n) =
                   AnswerOf(t, LookupInScope(t, s, n))
  <1>1. ScopeOf(t, s).birth = s - 1 /\ s - 1 \in Nat
    BY WellFormedPointers DEF ScopeOf, WellFormed, Rooted
  <1>2. ASSUME NEW n \in Names
        PROVE  LET i == LookupInScope(t, s, n)
               IN  /\ i = Null <=> Holding(t, s, n) = {}
                   /\ i # Null => /\ t.symbols[i].type \in Types
                                  /\ t.symbols[i].scope_id = s - 1
    <2> DEFINE i == LookupInScope(t, s, n)
    <2>1. /\ i = Null <=> Holding(t, s, n) = {}
          /\ i # Null => i \in Holding(t, s, n)
      BY LookupInScopeAnswer
    <2>2. CASE i # Null
      <3>1. i \in DOMAIN t.symbols /\ t.symbols[i].owner = s
        BY <2>1, <2>2 DEF Holding
      <3>2. t.symbols[i] \in Symbol
        BY <3>1 DEF WellFormed, Table
      <3> QED BY <2>1, <3>1, <3>2 DEF WellFormed, Owned, Symbol
    <2> QED BY <2>1, <2>2
  <1>3. ScopeOf(t, s) \in Scopes!Scope
    BY <1>1, <1>2 DEF ScopeOf, Scopes!Scope
  <1>4. ASSUME NEW n \in Names
        PROVE  ScopeOf(t, s).bound[n] =
                 IF LookupInScope(t, s, n) = Null THEN BadType
                 ELSE t.symbols[LookupInScope(t, s, n)].type
    BY DEF ScopeOf
  <1>5. ASSUME NEW n \in Names
        PROVE  Scopes!Found(ScopeOf(t, s), n) =
                 AnswerOf(t, LookupInScope(t, s, n))
    BY <1>1, <1>2, <1>4, TypesAssumption
       DEF AnswerOf, Scopes!Found, Scopes!NotFound
  <1> QED BY <1>1, <1>2, <1>3, <1>4, <1>5, TypesAssumption

\* The newest scope of a kind, open or closed, that binds a name is the one
\* that Find looks into.
LEMMA LatestIsFound ==
  ASSUME NEW t, WellFormed(t), NEW n \in Names, NEW kind \in BOOLEAN
  PROVE  Scopes!Latest({ScopeOf(t, s) : s \in {r \in DOMAIN t.frames :
                                                t.frames[r].active = kind}}, n)
           = AnswerOf(t, Find(t, n, kind))
  <1> DEFINE S == {ScopeOf(t, s) : s \in {r \in DOMAIN t.frames :
                                            t.frames[r].active = kind}}
             D == Declaring(t, n, kind)
             B == {scope \in S : scope.bound[n] # BadType}
  <1>1. /\ DOMAIN t.frames = 1 .. Len(t.frames) /\ Len(t.frames) \in Nat
        /\ D \subseteq DOMAIN t.frames
    BY WellFormedPointers DEF Declaring
  <1>2. B = {ScopeOf(t, s) : s \in D}
    BY ScopeFields DEF Declaring
  <1>3. CASE D = {}
    BY <1>2, <1>3 DEF Scopes!Latest, Find, AnswerOf
  <1>4. CASE D # {}
    <2> DEFINE m == Newest(D)
    <2>1. m \in D /\ \A s \in D : s <= m
      <3> HIDE DEF D
      <3>1. \E i \in D : \A j \in D : j <= i
        <4>1. D \in SUBSET Nat /\ \A s \in D : s <= Len(t.frames)
          BY <1>1
        <4> QED BY <1>1, <1>4, <4>1, GreatestOfSet
      <3> QED BY <3>1 DEF Newest
    <2> HIDE DEF m, D
    <2>2. \A s \in D : ScopeOf(t, s).birth = s - 1 /\ s \in Nat
      BY <1>1, ScopeFields
    <2>3. /\ ScopeOf(t, m) \in B
          /\ \A other \in B : other.birth <= ScopeOf(t, m).birth
      BY <1>2, <2>1, <2>2
    <2>4. ASSUME NEW scope \in B, \A other \in B : other.birth <= scope.birth
          PROVE  scope = ScopeOf(t, m)
      <3>1. PICK s \in D : scope = ScopeOf(t, s)
        BY <1>2
      <3>2. m - 1 <= s - 1 /\ s <= m
        BY <2>1, <2>2, <2>3, <2>4, <3>1
      <3>3. s = m
        BY <2>1, <2>2, <3>2
      <3> QED BY <3>1, <3>3
    <2> HIDE DEF B
    <2>5. (CHOOSE scope \in B : \A other \in B : other.birth <= scope.birth)
            = ScopeOf(t, m)
      BY <2>3, <2>4
    <2>6. Scopes!Latest(S, n) = Scopes!Found(ScopeOf(t, m), n)
      BY <2>3, <2>5 DEF Scopes!Latest, B
    <2>7. Find(t, n, kind) = LookupInScope(t, m, n)
      BY <1>4 DEF Find, D, m
    <2> QED BY <1>1, <2>1, <2>6, <2>7, ScopeFields
  <1> QED BY <1>3, <1>4

-----------------------------------------------------------------------------
(* The stack of open scopes. *)

\* There is one active frame of each depth down to the current one.
LEMMA ActiveAtDepth ==
  ASSUME NEW t, WellFormed(t), Chain(t)
  PROVE  /\ CurrentFrame(t).depth \in Nat
         /\ \A s \in Open(t) : /\ t.frames[s].depth \in 0 .. CurrentFrame(t).depth
                               /\ ActiveAt(t, t.frames[s].depth) = s
         /\ \A d \in 0 .. CurrentFrame(t).depth :
              ActiveAt(t, d) \in Open(t) /\ t.frames[ActiveAt(t, d)].depth = d
  <1>1. /\ t.current \in DOMAIN t.frames
        /\ DOMAIN t.frames \subseteq Nat
        /\ \A s \in DOMAIN t.frames : t.frames[s].depth \in Nat
    BY WellFormedPointers, FrameFields
  <1>2. ASSUME NEW r \in Open(t), NEW s \in Open(t),
               t.frames[r].depth = t.frames[s].depth
        PROVE  r = s
    <2>1. r \in Nat /\ s \in Nat /\ t.frames[s].depth \in Nat
      BY <1>1 DEF Open
    <2>2. ~(r < s) /\ ~(s < r)
      BY <1>2, <2>1 DEF Chain
    <2> QED BY <2>1, <2>2
  <1>3. ASSUME NEW d, NEW s \in Open(t), t.frames[s].depth = d
        PROVE  ActiveAt(t, d) = s
    BY <1>2, <1>3 DEF ActiveAt, Open
  <1>4. /\ CurrentFrame(t).depth \in Nat
        /\ \A s \in Open(t) : t.frames[s].depth \in 0 .. CurrentFrame(t).depth
    BY <1>1 DEF Chain, Open, CurrentFrame
  <1> QED BY <1>3, <1>4 DEF Chain

\* The stack has the open scopes as its elements and the current one on top.
LEMMA StackOfOpen ==
  ASSUME NEW t, WellFormed(t), Chain(t), NEW k, k = CurrentFrame(t).depth + 1
  PROVE  /\ OpenScopes(t) \in Seq(Scopes!Scope)
         /\ k \in Nat \ {0} /\ Len(OpenScopes(t)) = k
         /\ \A d \in 1 .. k : OpenScopes(t)[d] = ScopeOf(t, ActiveAt(t, d - 1))
         /\ OpenScopes(t)[k] = ScopeOf(t, t.current)
         /\ {OpenScopes(t)[d] : d \in DOMAIN OpenScopes(t)} =
              {ScopeOf(t, s) : s \in Open(t)}
  <1>1. k \in Nat \ {0} /\ \A d \in 1 .. k : d - 1 \in 0 .. CurrentFrame(t).depth
    BY ActiveAtDepth
  <1>2. \A d \in 1 .. k : ScopeOf(t, ActiveAt(t, d - 1)) \in Scopes!Scope
    BY <1>1, ActiveAtDepth, ScopeFields DEF Open
  <1>3. /\ DOMAIN OpenScopes(t) = 1 .. k
        /\ \A d \in 1 .. k : OpenScopes(t)[d] = ScopeOf(t, ActiveAt(t, d - 1))
        /\ OpenScopes(t) \in [1 .. k -> Scopes!Scope]
    BY <1>2 DEF OpenScopes
  <1>4. OpenScopes(t) \in Seq(Scopes!Scope) /\ Len(OpenScopes(t)) = k
    BY <1>1, <1>3
  <1>5. t.current \in Open(t) /\ ActiveAt(t, k - 1) = t.current
    <2>1. t.current \in Open(t) /\ t.frames[t.current].depth = k - 1
      BY ActiveAtDepth DEF WellFormed, Nested, Open, CurrentFrame
    <2> QED BY <2>1, ActiveAtDepth
  <1>6. \A s \in Open(t) : \E d \in 1 .. k : ActiveAt(t, d - 1) = s
    <2>1. ASSUME NEW s \in Open(t)
          PROVE  \E d \in 1 .. k : ActiveAt(t, d - 1) = s
      <3>1. /\ t.frames[s].depth \in 0 .. CurrentFrame(t).depth
            /\ ActiveAt(t, t.frames[s].depth) = s /\ CurrentFrame(t).depth \in Nat
        BY ActiveAtDepth
      <3>2. t.frames[s].depth + 1 \in 1 .. k
        BY <3>1
      <3> QED BY <3>1, <3>2
    <2> QED BY <2>1
  <1>7. \A d \in 1 .. k : ActiveAt(t, d - 1) \in Open(t)
    BY <1>1, ActiveAtDepth
  <1>8. OpenScopes(t)[k] = ScopeOf(t, t.current)
    BY <1>1, <1>3, <1>5
  <1>9. {OpenScopes(t)[d] : d \in 1 .. k} = {ScopeOf(t, s) : s \in Open(t)}
    BY <1>3, <1>6, <1>7
  <1> QED BY <1>1, <1>3, <1>4, <1>8, <1>9

\* A table that was just made stands for one scope that binds nothing.
LEMMA NewScopes ==
  /\ OpenScopes(NewTable) = <<Scopes!Blank(0)>>
  /\ ClosedScopes(NewTable) = {}
  <1> DEFINE t == NewTable
  <1>1. /\ t.frames = <<GlobalFrame>> /\ t.symbols = << >> /\ t.current = 1
        /\ GlobalFrame.active /\ GlobalFrame.depth = 0 /\ GlobalFrame.id = 0
    BY DEF NewTable, GlobalFrame
  <1>2. ScopeOf(t, 1) = Scopes!Blank(0)
    <2>1. \A n \in Names : LookupInScope(t, 1, n) = Null
      BY <1>1 DEF LookupInScope, Holding
    <2> QED BY <1>1, <2>1 DEF ScopeOf, Scopes!Blank
  <1>3. WellFormed(t) /\ Chain(t)
    BY NewIsWellFormed, NewIsChain
  <1> HIDE DEF t
  <1>4. /\ Len(OpenScopes(t)) = 1 /\ OpenScopes(t)[1] = ScopeOf(t, 1)
        /\ OpenScopes(t) \in Seq(Scopes!Scope)
    <2>1. CurrentFrame(t).depth + 1 = 1
      BY <1>1 DEF CurrentFrame
    <2>2. 1 = CurrentFrame(t).depth + 1
      BY <2>1
    <2>3. /\ OpenScopes(t) \in Seq(Scopes!Scope) /\ Len(OpenScopes(t)) = 1
          /\ OpenScopes(t)[1] = ScopeOf(t, t.current)
      BY <1>3, <2>2, StackOfOpen
    <2> QED BY <1>1, <2>3
  <1>5. ClosedScopes(t) = {}
    BY <1>1 DEF ClosedScopes
  <1> QED BY <1>2, <1>4, <1>5 DEF t

\* Entering a scope puts a blank one on the stack.
LEMMA EnterScopes ==
  ASSUME NEW t, WellFormed(t), Chain(t)
  PROVE  LET u == EnterScope(t)
         IN  /\ OpenScopes(u) = Append(OpenScopes(t),
                                       Scopes!Blank(t.next_scope_id))
             /\ ClosedScopes(u) = ClosedScopes(t)
  <1> DEFINE f == [id |-> t.next_scope_id, depth |-> CurrentFrame(t).depth + 1,
                   active |-> TRUE, parent |-> t.current]
             u == EnterScope(t)
             n == Len(t.frames)
             k == CurrentFrame(t).depth + 1
  <1>1. /\ n \in Nat /\ t.current \in 1 .. n /\ DOMAIN t.frames = 1 .. n
        /\ t.frames \in Seq(Frame) /\ k \in Nat \ {0}
        /\ WellFormed(u) /\ Chain(u)
    <2>1. WellFormed(u) /\ Chain(u)
      BY EnterKeepsWellFormed, EnterKeepsChain
    <2>2. t \in Table /\ t.frames \in Seq(Frame)
      BY DEF WellFormed, Table
    <2>3. k \in Nat \ {0}
      BY ActiveAtDepth
    <2> QED BY <2>1, <2>2, <2>3, WellFormedPointers
  <1>2. /\ u.frames = Append(t.frames, f) /\ u.current = n + 1
        /\ u.symbols = t.symbols
        /\ f.active /\ f.depth = k /\ f.id = t.next_scope_id
    BY DEF EnterScope
  <1> HIDE DEF f, u
  <1>3. /\ DOMAIN u.frames = 1 .. n + 1
        /\ \A s \in 1 .. n : u.frames[s] = t.frames[s]
        /\ u.frames[n + 1] = f
    BY <1>1, <1>2
  <1>4. CurrentFrame(u).depth = k
    BY <1>2, <1>3 DEF CurrentFrame
  <1>5. \A s \in 1 .. n : ScopeOf(u, s) = ScopeOf(t, s)
    <2>1. \A s \in 1 .. n, m \in Names : LookupInScope(u, s, m) = LookupInScope(t, s, m)
      BY <1>2 DEF LookupInScope, Holding
    <2> QED BY <1>2, <1>3, <2>1 DEF ScopeOf
  <1>6. ScopeOf(u, n + 1) = Scopes!Blank(t.next_scope_id)
    <2>1. \A i \in DOMAIN t.symbols : t.symbols[i].owner # n + 1
      BY <1>1 DEF WellFormed, Owned
    <2>2. \A m \in Names : LookupInScope(u, n + 1, m) = Null
      BY <1>2, <2>1 DEF LookupInScope, Holding
    <2> QED BY <1>2, <1>3, <2>2 DEF ScopeOf, Scopes!Blank
  <1>7. \A d \in 1 .. k : ActiveAt(u, d - 1) = ActiveAt(t, d - 1)
                          /\ ActiveAt(t, d - 1) \in 1 .. n
    <2>1. ASSUME NEW d \in 1 .. k
          PROVE  /\ ActiveAt(u, d - 1) = ActiveAt(t, d - 1)
                 /\ ActiveAt(t, d - 1) \in 1 .. n
      <3> DEFINE a == ActiveAt(t, d - 1)
      <3>1. a \in Open(t) /\ t.frames[a].depth = d - 1
        BY <1>1, ActiveAtDepth
      <3> HIDE DEF a
      <3>2. a \in 1 .. n /\ a \in Open(u) /\ u.frames[a].depth = d - 1
        BY <1>1, <1>3, <3>1 DEF Open
      <3>3. ActiveAt(u, d - 1) = a
        BY <1>1, <3>2, ActiveAtDepth
      <3> QED BY <3>2, <3>3 DEF a
    <2> QED BY <2>1
  <1>8. /\ OpenScopes(t) \in Seq(Scopes!Scope) /\ Len(OpenScopes(t)) = k
        /\ \A d \in 1 .. k : OpenScopes(t)[d] = ScopeOf(t, ActiveAt(t, d - 1))
        /\ OpenScopes(u) \in Seq(Scopes!Scope) /\ Len(OpenScopes(u)) = k + 1
        /\ \A d \in 1 .. k + 1 : OpenScopes(u)[d] = ScopeOf(u, ActiveAt(u, d - 1))
        /\ OpenScopes(u)[k + 1] = ScopeOf(u, n + 1)
    BY <1>1, <1>2, <1>4, StackOfOpen
  <1>9. OpenScopes(u) = Append(OpenScopes(t), Scopes!Blank(t.next_scope_id))
    <2>1. \A d \in 1 .. k : OpenScopes(u)[d] = OpenScopes(t)[d]
      BY <1>1, <1>5, <1>7, <1>8
    <2>2. OpenScopes(u)[k + 1] = Scopes!Blank(t.next_scope_id)
      BY <1>6, <1>8
    <2> QED BY <1>1, <1>8, <2>1, <2>2
  <1>10. ClosedScopes(u) = ClosedScopes(t)
    <2>1. {r \in DOMAIN u.frames : ~u.frames[r].active} =
            {r \in DOMAIN t.frames : ~t.frames[r].active}
      BY <1>1, <1>2, <1>3
    <2> QED BY <1>1, <1>5, <2>1 DEF ClosedScopes
  <1> QED BY <1>9, <1>10 DEF u

\* Leaving a scope takes it from the stack to the closed scopes.
LEMMA ExitScopes ==
  ASSUME NEW t, WellFormed(t), Chain(t), ~AtGlobal(t)
  PROVE  LET u == ExitScope(t)
         IN  /\ Len(OpenScopes(t)) > 1
             /\ OpenScopes(u) = Scopes!Front(OpenScopes(t))
             /\ ClosedScopes(u) = ClosedScopes(t)
                                    \cup {Scopes!Last(OpenScopes(t))}
  <1> DEFINE u == ExitScope(t)
             c == t.current
             k == CurrentFrame(t).depth
  <1>1. /\ DOMAIN t.frames = 1 .. Len(t.frames) /\ Len(t.frames) \in Nat
        /\ c \in DOMAIN t.frames /\ t.frames[c].active /\ t \in Table
        /\ t.frames[c].parent \in DOMAIN t.frames /\ c # 1
        /\ k = t.frames[t.frames[c].parent].depth + 1
    BY WellFormedPointers
       DEF WellFormed, Nested, Rooted, AtGlobal, CurrentFrame, Null
  <1>2. /\ u.symbols = t.symbols /\ u.current = t.frames[c].parent
        /\ DOMAIN u.frames = DOMAIN t.frames
        /\ \A s \in DOMAIN t.frames :
             /\ u.frames[s].id = t.frames[s].id
             /\ u.frames[s].depth = t.frames[s].depth
             /\ u.frames[s].active <=> (t.frames[s].active /\ s # c)
    BY <1>1, ExitFrames DEF CurrentFrame
  <1>3. WellFormed(u) /\ Chain(u)
    BY ExitKeepsWellFormed, ExitKeepsChain
  <1> HIDE DEF u
  <1>4. \A s \in DOMAIN t.frames : ScopeOf(u, s) = ScopeOf(t, s)
    <2>1. \A s \in DOMAIN t.frames, m \in Names :
            LookupInScope(u, s, m) = LookupInScope(t, s, m)
      <3>1. \A s, m : Holding(u, s, m) = Holding(t, s, m)
        BY <1>2 DEF Holding
      <3> QED BY <3>1 DEF LookupInScope
    <2>2. ASSUME NEW s \in DOMAIN t.frames
          PROVE  ScopeOf(u, s) = ScopeOf(t, s)
      <3>1. u.frames[s].id = t.frames[s].id /\ u.symbols = t.symbols
        BY <1>2
      <3>2. \A m \in Names : LookupInScope(u, s, m) = LookupInScope(t, s, m)
        BY <2>1
      <3> QED BY <3>1, <3>2, Zenon DEF ScopeOf
    <2> QED BY <2>2
  <1>5. k \in Nat \ {0} /\ CurrentFrame(u).depth + 1 = k
    <2>1. CurrentFrame(u).depth \in Nat /\ k \in Nat
      BY <1>3, ActiveAtDepth
    <2>2. CurrentFrame(u).depth = t.frames[t.frames[c].parent].depth
      BY <1>1, <1>2 DEF CurrentFrame
    <2> HIDE DEF k
    <2> QED BY <1>1, <2>1, <2>2
  <1>6. ASSUME NEW d \in 1 .. k
        PROVE  /\ ActiveAt(u, d - 1) = ActiveAt(t, d - 1)
               /\ ActiveAt(t, d - 1) \in DOMAIN t.frames
    <2> DEFINE a == ActiveAt(t, d - 1)
    <2>1. d - 1 \in 0 .. CurrentFrame(t).depth /\ d - 1 # k
      BY <1>5
    <2>2. a \in Open(t) /\ t.frames[a].depth = d - 1
      BY <2>1, ActiveAtDepth
    <2> HIDE DEF a
    <2>3. a \in DOMAIN t.frames /\ t.frames[a].active /\ a # c
      BY <2>1, <2>2 DEF Open, CurrentFrame
    <2>4. a \in Open(u) /\ u.frames[a].depth = d - 1
      BY <1>2, <2>2, <2>3 DEF Open
    <2>5. ActiveAt(u, d - 1) = a
      BY <1>3, <2>4, ActiveAtDepth
    <2> QED BY <2>3, <2>5 DEF a
  <1>7. /\ OpenScopes(t) \in Seq(Scopes!Scope) /\ Len(OpenScopes(t)) = k + 1
        /\ \A d \in 1 .. k + 1 : OpenScopes(t)[d] = ScopeOf(t, ActiveAt(t, d - 1))
        /\ OpenScopes(t)[k + 1] = ScopeOf(t, c)
    BY StackOfOpen
  <1>8. /\ OpenScopes(u) \in Seq(Scopes!Scope) /\ Len(OpenScopes(u)) = k
        /\ \A d \in 1 .. k : OpenScopes(u)[d] = ScopeOf(u, ActiveAt(u, d - 1))
    BY <1>3, <1>5, StackOfOpen
  <1>9. OpenScopes(u) = Scopes!Front(OpenScopes(t))
    <2>1. \A d \in 1 .. k : OpenScopes(u)[d] = OpenScopes(t)[d]
      <3>1. \A d \in 1 .. k : d \in 1 .. k + 1
        BY <1>5
      <3> QED BY <1>4, <1>6, <1>7, <1>8, <3>1
    <2> QED BY <1>5, <1>7, <1>8, <2>1 DEF Scopes!Front
  <1>10. ClosedScopes(u) = ClosedScopes(t) \cup {Scopes!Last(OpenScopes(t))}
    <2>1. {r \in DOMAIN u.frames : ~u.frames[r].active} =
            {r \in DOMAIN t.frames : ~t.frames[r].active} \cup {c}
      <3>1. \A r \in DOMAIN t.frames :
              ~u.frames[r].active <=> ~t.frames[r].active \/ r = c
        BY <1>2
      <3> QED BY <1>1, <1>2, <3>1
    <2>2. Scopes!Last(OpenScopes(t)) = ScopeOf(u, c)
      <3>1. ScopeOf(u, c) = ScopeOf(t, c)
        BY <1>1, <1>4
      <3> QED BY <1>7, <3>1 DEF Scopes!Last
    <2>3. {ScopeOf(u, s) : s \in {r \in DOMAIN t.frames : ~t.frames[r].active}}
            = ClosedScopes(t)
      BY <1>4 DEF ClosedScopes
    <2> DEFINE closed == {r \in DOMAIN t.frames : ~t.frames[r].active}
    <2>4. ClosedScopes(u) = {ScopeOf(u, s) : s \in closed \cup {c}}
      BY <2>1 DEF ClosedScopes
    <2>5. ClosedScopes(t) = {ScopeOf(u, s) : s \in closed}
      BY <2>3
    <2> HIDE DEF closed
    <2> QED BY <2>2, <2>4, <2>5
  <1> QED BY <1>5, <1>7, <1>9, <1>10 DEF u

\* Declaring a name that the current scope does not hold binds it there, and
\* changes no other scope.
LEMMA InsertScopes ==
  ASSUME NEW t, WellFormed(t), Chain(t), NEW n \in Names, NEW ty \in Types,
         NEW line \in Nat, LookupCurrent(t, n) = Null
  PROVE  LET u == Insert(t, n, ty, line)
             k == Len(OpenScopes(t))
         IN  /\ Scopes!Last(OpenScopes(t)).bound[n] = BadType
             /\ OpenScopes(u) = [OpenScopes(t) EXCEPT ![k].bound[n] = ty]
             /\ ClosedScopes(u) = ClosedScopes(t)
  <1> DEFINE u == Insert(t, n, ty, line)
             c == t.current
             j == Len(t.symbols) + 1
             y == [name |-> n, type |-> ty, line |-> line,
                   scope_id |-> CurrentFrame(t).id,
                   scope_depth |-> CurrentFrame(t).depth, owner |-> c]
             k == CurrentFrame(t).depth + 1
             bound == [ScopeOf(t, c).bound EXCEPT ![n] = ty]
  <1>1. /\ t.symbols \in Seq(Symbol) /\ j \in Nat \ {0}
        /\ c \in DOMAIN t.frames /\ t.frames[c].active /\ t \in Table
    BY DEF WellFormed, Table, Nested
  <1>2. /\ u.frames = t.frames /\ u.current = c
        /\ u.symbols = Append(t.symbols, y)
        /\ y.owner = c /\ y.name = n /\ y.type = ty
    BY <1>1 DEF Insert, Table
  <1>3. WellFormed(u) /\ Chain(u)
    BY <1>1, InsertKeepsWellFormed, InsertKeepsChain
  <1> HIDE DEF u, y
  <1>4. /\ DOMAIN u.symbols = DOMAIN t.symbols \cup {j}
        /\ j \notin DOMAIN t.symbols /\ u.symbols[j] = y
        /\ \A i \in DOMAIN t.symbols : u.symbols[i] = t.symbols[i]
    BY <1>1, <1>2
  <1>5. Holding(t, c, n) = {}
    BY LookupInScopeAnswer DEF LookupCurrent
  <1>6. ASSUME NEW s, NEW m, s # c \/ m # n
        PROVE  /\ LookupInScope(u, s, m) = LookupInScope(t, s, m)
               /\ LookupInScope(t, s, m) # Null =>
                    u.symbols[LookupInScope(t, s, m)].type =
                      t.symbols[LookupInScope(t, s, m)].type
    <2>1. Holding(u, s, m) = Holding(t, s, m)
      BY <1>2, <1>4, <1>6 DEF Holding
    <2>2. LookupInScope(t, s, m) \in {Null} \cup DOMAIN t.symbols
      BY LookupInScopeAnswer
    <2> QED BY <1>4, <2>1, <2>2 DEF LookupInScope
  <1>7. LookupInScope(u, c, n) = j /\ j # Null
    <2>1. Holding(u, c, n) = {j}
      BY <1>2, <1>4, <1>5 DEF Holding
    <2>2. LookupInScope(u, c, n) \in {j}
      BY <1>3, <2>1, LookupInScopeAnswer
    <2> QED BY <1>1, <2>2 DEF Null
  <1>8. \A s \in DOMAIN t.frames : s # c => ScopeOf(u, s) = ScopeOf(t, s)
    BY <1>2, <1>6 DEF ScopeOf
  <1>9. ScopeOf(u, c) = [ScopeOf(t, c) EXCEPT !.bound = bound]
    <2>1. /\ ScopeOf(u, c).birth = ScopeOf(t, c).birth
          /\ \A m \in Names : ScopeOf(u, c).bound[m] =
                                IF m = n THEN ty ELSE ScopeOf(t, c).bound[m]
      <3>1. \A m \in Names : m # n =>
              ScopeOf(u, c).bound[m] = ScopeOf(t, c).bound[m]
        BY <1>6 DEF ScopeOf
      <3>2. u.symbols[j].type = ty
        BY <1>2, <1>4
      <3>3. ScopeOf(u, c).bound[n] = ty
        BY <1>7, <3>2 DEF ScopeOf
      <3>4. ScopeOf(u, c).birth = ScopeOf(t, c).birth
        BY <1>2 DEF ScopeOf
      <3> QED BY <3>1, <3>3, <3>4
    <2>2. ScopeOf(u, c) \in Scopes!Scope /\ ScopeOf(t, c) \in Scopes!Scope
      BY <1>1, <1>2, <1>3, ScopeFields
    <2> QED BY <2>1, <2>2 DEF Scopes!Scope
  <1>10. /\ OpenScopes(t) \in Seq(Scopes!Scope) /\ Len(OpenScopes(t)) = k
         /\ k \in Nat \ {0} /\ OpenScopes(t)[k] = ScopeOf(t, c)
         /\ \A d \in 1 .. k : OpenScopes(t)[d] = ScopeOf(t, ActiveAt(t, d - 1))
    BY StackOfOpen
  <1>11. /\ OpenScopes(u) \in Seq(Scopes!Scope) /\ Len(OpenScopes(u)) = k
         /\ OpenScopes(u)[k] = ScopeOf(u, c)
         /\ \A d \in 1 .. k : OpenScopes(u)[d] = ScopeOf(u, ActiveAt(u, d - 1))
    <2>1. k = CurrentFrame(u).depth + 1
      BY <1>2 DEF CurrentFrame
    <2> QED BY <1>2, <1>3, <2>1, StackOfOpen
  <1> HIDE DEF bound
  <1>12. ASSUME NEW d \in 1 .. k, d # k
         PROVE  OpenScopes(u)[d] = OpenScopes(t)[d]
    <2> DEFINE a == ActiveAt(t, d - 1)
    <2>1. d - 1 \in 0 .. CurrentFrame(t).depth /\ d - 1 # CurrentFrame(t).depth
      BY <1>12, ActiveAtDepth
    <2>2. a \in Open(t) /\ t.frames[a].depth = d - 1
      BY <2>1, ActiveAtDepth
    <2>3. a # c /\ a \in DOMAIN t.frames
      BY <2>1, <2>2 DEF CurrentFrame, Open
    <2>4. ActiveAt(u, d - 1) = a
      BY <1>2 DEF ActiveAt
    <2> HIDE DEF a
    <2>5. ScopeOf(u, a) = ScopeOf(t, a)
      BY <1>8, <2>3
    <2> QED BY <1>10, <1>11, <2>4, <2>5 DEF a
  <1>13. OpenScopes(u) = [OpenScopes(t) EXCEPT ![k].bound[n] = ty]
    <2> DEFINE top == [ScopeOf(t, c) EXCEPT !.bound = bound]
    <2>1. [OpenScopes(t) EXCEPT ![k].bound[n] = ty] =
            [OpenScopes(t) EXCEPT ![k] = top]
      BY <1>10 DEF bound
    <2> HIDE DEF top
    <2>2. OpenScopes(u)[k] = top
      BY <1>9, <1>11 DEF top
    <2>3. top \in Scopes!Scope
      BY <1>9, <1>1, <1>2, <1>3, ScopeFields DEF top
    <2> DEFINE v == [OpenScopes(t) EXCEPT ![k] = top]
    <2>4. /\ v \in Seq(Scopes!Scope) /\ Len(v) = k
          /\ \A d \in 1 .. k : v[d] = IF d = k THEN top ELSE OpenScopes(t)[d]
      BY <1>10, <2>3, ExceptSeq
    <2> HIDE DEF v
    <2>5. \A d \in 1 .. k : OpenScopes(u)[d] = v[d]
      BY <1>12, <2>2, <2>4
    <2>6. OpenScopes(u) = v
      BY <1>11, <2>4, <2>5, SeqEqual
    <2> QED BY <2>1, <2>6 DEF v
  <1>14. ClosedScopes(u) = ClosedScopes(t)
    <2>1. {r \in DOMAIN u.frames : ~u.frames[r].active} =
            {r \in DOMAIN t.frames : ~t.frames[r].active}
      BY <1>2
    <2>2. c \notin {r \in DOMAIN t.frames : ~t.frames[r].active}
      BY <1>1
    <2> QED BY <1>8, <2>1, <2>2 DEF ClosedScopes
  <1>15. Scopes!Last(OpenScopes(t)).bound[n] = BadType
    BY <1>1, <1>5, <1>10, ScopeFields DEF Scopes!Last
  <1> QED BY <1>10, <1>13, <1>14, <1>15 DEF u

-----------------------------------------------------------------------------
(* The calls. *)

\* A call that is no search for a name asks nothing.
LEMMA CommandStep ==
  ASSUME NEW op, NEW n, NEW status, Answer(op, n, status, Null),
         op \notin Lookups \/ n = NoName
  PROVE  Scopes!Command
  <1>1. result'.op = op /\ result'.name = n /\ result'.symbol = Null
    BY DEF Answer
  <1> QED BY <1>1
          DEF Scopes!Command, Scopes!Nothing, Scopes!NotFound, Asked, Answered

\* One that leaves the table alone is as good as refused.
LEMMA RefuseStep ==
  ASSUME NEW op, NEW n, NEW status, Answer(op, n, status, Null),
         op \notin Lookups \/ n = NoName, table' = table
  PROVE  Scopes!Next
  BY CommandStep DEF Scopes!Next, Scopes!Refuse

\* A symbol that is returned is what the call was answered.
LEMMA AnsweredStep ==
  ASSUME NEW op, NEW n, NEW i, Answer(op, n, "SUCCESS", i), table' = table
  PROVE  Answered' = AnswerOf(table, i)
  BY DEF Answer, Answered, AnswerOf, Scopes!NotFound

\* A new table takes the place of the one there was.
LEMMA RestartStep ==
  ASSUME NEW op, NEW n, Answer(op, n, "SUCCESS", Null),
         op \notin Lookups \/ n = NoName, table' = NewTable
  PROVE  Scopes!Next
  <1>1. Scopes!Command
    BY CommandStep
  <1>2. table'.next_scope_id = 1
    BY DEF NewTable
  <1> QED BY <1>1, <1>2, NewScopes DEF Scopes!Next, Scopes!Restart

\* A search is always for a name.
Named == call.op \in Searches => call.name \in Names

LEMMA SearchesAreNamed == Spec => []Named
  <1>1. Init => Named
    BY NoCallFields DEF Init, Named
  <1>2. Named /\ [Next]_vars => Named'
    <2> SUFFICES ASSUME Named, [Next]_vars PROVE Named'
      OBVIOUS
    <2>1. CASE call' = call \/ call' = NoCall
      BY <2>1, NoCallFields DEF Named
    <2>2. ASSUME NEW n \in Names, BeginLookupActive(n) \/ BeginLookupHistory(n)
          PROVE  Named'
      BY <2>2 DEF BeginLookupActive, BeginLookupHistory, BeginSearch, Named, NoCall
    <2>3. ASSUME NEW next, Continue(next)
          PROVE  Named'
      BY <2>3 DEF Continue, Named
    <2>4. ASSUME NEW o, NEW c, Allocate(o, c), c.op \notin Searches
          PROVE  Named'
      BY <2>4 DEF Allocate, Named
    <2>5. CASE Create \/ CreateGlobal \/ FinishCreate
      <3>1. CASE call.op = "create"
        <4>1. [call EXCEPT !.made = {"table", "frame"}].op = "create"
          BY <3>1
        <4> QED BY <2>1, <2>4, <2>5, <3>1, <4>1
                DEF Create, CreateGlobal, FinishCreate, GiveUp, Succeed, Reply,
                    Searches, NoCall
      <3>2. CASE call.op # "create"
        BY <2>1, <2>4, <2>5, <3>2
           DEF Create, CreateGlobal, FinishCreate, Reply, Searches, NoCall
      <3> QED BY <3>1, <3>2
    <2>6. CASE Enter \/ FinishEnter \/ FinishInsert
      BY <2>1, <2>4, <2>6
         DEF Enter, FinishEnter, FinishInsert, GiveUp, Succeed, Reply, Searches,
             NoCall
    <2>7. ASSUME NEW n, NEW ty, NEW line, InsertNew(n, ty, line)
          PROVE  Named'
      BY <2>1, <2>4, <2>7 DEF InsertNew, Reply, Searches, NoCall
    <2> QED BY <2>1, <2>2, <2>3, <2>5, <2>6, <2>7
            DEF Next, vars, Make, Destroy, Exit, InsertInvalid, InsertDuplicate,
                LookupNothing, LookupCurrentScope, Reply, Search, StepActive,
                StepHistory, EndSearch, Return
  <1> QED BY <1>1, <1>2, PTL DEF Spec

\* A search returns: the question is answered as the scopes require.
LEMMA ReturnsAnswer ==
  ASSUME IInv, SearchAnswer', NEW i, Return(i),
         call.op \in Searches, call.name \in Names
  PROVE  Scopes!Next
  <1>1. /\ table' = table /\ result'.op = call.op /\ result'.name = call.name
        /\ result'.symbol = i /\ call.name # NoName
    BY NamesAssumption DEF Return, Answer
  <1>2. Answered' = AnswerOf(table, i)
    BY AnsweredStep DEF Return
  <1>3. WellFormed(table) /\ Chain(table)
    BY DEF IInv, TableOK
  <1>4. CASE call.op = "lookup_active"
    <2>1. i = Find(table, call.name, TRUE)
      BY <1>1, <1>4 DEF SearchAnswer, LookupActive
    <2>2. {OpenScopes(table)[d] : d \in DOMAIN OpenScopes(table)} =
            {ScopeOf(table, s) : s \in {r \in DOMAIN table.frames :
                                          table.frames[r].active = TRUE}}
      <3>1. Open(table) = {r \in DOMAIN table.frames :
                             table.frames[r].active = TRUE}
        BY <1>3, FrameFields DEF Open, WellFormed
      <3> QED BY <1>3, <3>1, StackOfOpen
    <2>3. Answered' =
            Scopes!Latest({OpenScopes(table)[d] : d \in DOMAIN OpenScopes(table)},
                          call.name)
      BY <1>2, <1>3, <2>1, <2>2, LatestIsFound
    <2>4. Asked' = <<"open", call.name>>
      BY <1>1, <1>4 DEF Asked, Lookups, Searches
    <2>5. Scopes!AskOpen(call.name)
      BY <1>1, <2>3, <2>4 DEF Scopes!AskOpen, Scopes!Ask
    <2> QED BY <2>5 DEF Scopes!Next
  <1>5. CASE call.op = "lookup_history"
    <2>1. i = Find(table, call.name, FALSE)
      BY <1>1, <1>5 DEF SearchAnswer, LookupHistory
    <2>2. ClosedScopes(table) =
            {ScopeOf(table, s) : s \in {r \in DOMAIN table.frames :
                                          table.frames[r].active = FALSE}}
      <3>1. {r \in DOMAIN table.frames : ~table.frames[r].active} =
              {r \in DOMAIN table.frames : table.frames[r].active = FALSE}
        BY <1>3, FrameFields DEF WellFormed
      <3> QED BY <3>1 DEF ClosedScopes
    <2>3. Answered' = Scopes!Latest(ClosedScopes(table), call.name)
      BY <1>2, <1>3, <2>1, <2>2, LatestIsFound
    <2>4. Asked' = <<"closed", call.name>>
      BY <1>1, <1>5 DEF Asked, Lookups, Searches
    <2>5. Scopes!AskClosed(call.name)
      BY <1>1, <2>3, <2>4 DEF Scopes!AskClosed, Scopes!Ask
    <2> QED BY <2>5 DEF Scopes!Next
  <1> QED BY <1>4, <1>5 DEF Searches

\* Every step of the symbol table is a step of the scopes or a stutter.
LEMMA StepRefines ==
  IInv /\ SearchAnswer' /\ Named /\ [Next]_vars => [Scopes!Next]_(Scopes!vars)
  <1> SUFFICES ASSUME IInv, SearchAnswer', Named, [Next]_vars
               PROVE  [Scopes!Next]_(Scopes!vars)
    OBVIOUS
  <1>1. WellFormed(table) /\ Chain(table)
    BY DEF IInv, TableOK
  <1>2. CASE UNCHANGED <<table, result>>
    BY <1>2 DEF Scopes!vars, Asked, Answered
  <1>14. ASSUME NEW o, NEW c, Allocate(o, c)
         PROVE  UNCHANGED <<table, result>>
    BY <1>14 DEF Allocate
  <1>15. ASSUME NEW freed, GiveUp(freed), call.op \in Makers
         PROVE  Scopes!Next
    BY <1>15, RefuseStep DEF GiveUp, Makers, Lookups, Searches
  <1>3. CASE Create \/ CreateGlobal \/ FinishCreate
    <2>1. CASE Create
      BY <1>2, <1>14, <2>1, RefuseStep DEF Create, Reply, Lookups, Searches
    <2>2. CASE CreateGlobal
      BY <1>2, <1>14, <1>15, <2>2 DEF CreateGlobal, Makers
    <2>3. CASE FinishCreate
      <3>1. CASE table' = NewTable /\ Succeed
        <4>1. Answer("create", call.name, "SUCCESS", Null)
          BY <2>3, <3>1 DEF FinishCreate, Succeed
        <4> QED BY <3>1, <4>1, RestartStep DEF Lookups, Searches
      <3> QED BY <1>15, <2>3, <3>1 DEF FinishCreate, Makers
    <2> QED BY <1>3, <2>1, <2>2, <2>3
  <1>4. CASE Destroy
    BY <1>4, RestartStep DEF Destroy
  <1>5. CASE Enter \/ FinishEnter
    <2>1. CASE Enter
      BY <1>2, <1>14, <2>1, RefuseStep DEF Enter, Reply, Lookups, Searches
    <2>2. CASE FinishEnter
      <3>1. CASE table' = EnterScope(table) /\ Succeed
        <4>1. Answer("enter", call.name, "SUCCESS", Null)
          BY <2>2, <3>1 DEF FinishEnter, Succeed
        <4>2. Scopes!Command
          BY <4>1, CommandStep DEF Lookups, Searches
        <4>3. table'.next_scope_id = table.next_scope_id + 1
          BY <3>1 DEF EnterScope
        <4>4. Scopes!Enter
          BY <1>1, <3>1, <4>2, <4>3, EnterScopes DEF Scopes!Enter
        <4> QED BY <4>4 DEF Scopes!Next
      <3> QED BY <1>15, <2>2, <3>1 DEF FinishEnter, Makers
    <2> QED BY <1>5, <2>1, <2>2
  <1>6. CASE Exit
    <2>1. CASE /\ ~AtGlobal(table) /\ table' = ExitScope(table)
               /\ Answer("exit", NoName, "SUCCESS", Null)
      <3>1. Scopes!Command
        BY <2>1, CommandStep
      <3>2. table'.next_scope_id = table.next_scope_id
        BY <1>1, <2>1 DEF ExitScope, WellFormed, Table
      <3>3. Scopes!Leave
        BY <1>1, <2>1, <3>1, <3>2, ExitScopes DEF Scopes!Leave
      <3> QED BY <3>3 DEF Scopes!Next
    <2> QED BY <1>6, <2>1, RefuseStep DEF Exit, Reply
  <1>7. ASSUME NEW n \in AnyName, NEW ty \in AnyType,
               InsertInvalid(n, ty) \/ InsertDuplicate(n, ty)
        PROVE  Scopes!Next
    BY <1>7, RefuseStep
       DEF InsertInvalid, InsertDuplicate, Reply, Lookups, Searches
  <1>8. ASSUME NEW n \in AnyName, NEW ty \in AnyType, NEW line \in Lines,
               InsertNew(n, ty, line)
        PROVE  [Scopes!Next]_(Scopes!vars)
    BY <1>2, <1>8, <1>14, RefuseStep DEF InsertNew, Reply, Lookups, Searches
  <1>16. CASE FinishInsert
    <2> DEFINE n == call.name
               ty == call.type
               line == call.line
    <2>1. CASE table' = Insert(table, n, ty, line) /\ Succeed
      <3>1. Answer("insert", n, "SUCCESS", Null)
        BY <1>16, <2>1 DEF FinishInsert, Succeed
      <3>2. Scopes!Command
        BY <3>1, CommandStep DEF Lookups, Searches
      <3>3. table'.next_scope_id = table.next_scope_id
        BY <1>1, <2>1 DEF Insert, WellFormed, Table
      <3>4. /\ n \in Names /\ ty \in Types /\ line \in Nat
            /\ LookupCurrent(table, n) = Null
        BY <1>16 DEF FinishInsert, IInv, TableOK, TypeOK, Call, Working
      <3>5. Scopes!Declare(n, ty)
        BY <1>1, <2>1, <3>2, <3>3, <3>4, InsertScopes DEF Scopes!Declare
      <3> QED BY <3>4, <3>5 DEF Scopes!Next
    <2> QED BY <1>15, <1>16, <2>1 DEF FinishInsert, Makers
  <1>9. ASSUME NEW op \in Lookups, LookupNothing(op)
        PROVE  Scopes!Next
    BY <1>9, RefuseStep DEF LookupNothing
  <1>10. ASSUME NEW n \in Names, LookupCurrentScope(n)
         PROVE  Scopes!Next
    <2> DEFINE i == LookupCurrent(table, n)
    <2>1. /\ table' = table /\ Answer("lookup_current", n, "SUCCESS", i)
          /\ n # NoName
      BY <1>10, NamesAssumption DEF LookupCurrentScope
    <2>2. Answered' = AnswerOf(table, i)
      BY <2>1, AnsweredStep
    <2>3. Scopes!Last(OpenScopes(table)) = ScopeOf(table, table.current)
      BY <1>1, StackOfOpen DEF Scopes!Last
    <2>4. Answered' = Scopes!Found(Scopes!Last(OpenScopes(table)), n)
      BY <1>1, <2>2, <2>3, ScopeFields, WellFormedPointers DEF LookupCurrent
    <2>5. Asked' = <<"innermost", n>>
      BY <2>1 DEF Answer, Asked, Lookups, Searches
    <2>6. Scopes!AskInnermost(n)
      BY <2>1, <2>4, <2>5 DEF Scopes!AskInnermost, Scopes!Ask
    <2> QED BY <2>6 DEF Scopes!Next
  <1>11. ASSUME NEW n \in Names, BeginLookupActive(n) \/ BeginLookupHistory(n)
         PROVE  UNCHANGED <<table, result>>
    BY <1>11 DEF BeginLookupActive, BeginLookupHistory, BeginSearch
  <1>12. CASE Search
    <2>1. /\ call.op \in Searches /\ call.name \in Names
      <3>1. call.op \in Searches
        BY <1>12 DEF Search, StepActive, StepHistory, EndSearch, Searches
      <3> QED BY <3>1 DEF Named
    <2>2. \/ UNCHANGED <<table, result>>
          \/ \E i : Return(i)
      BY <1>12 DEF Search, StepActive, StepHistory, EndSearch, Continue
    <2> QED BY <1>2, <2>1, <2>2, ReturnsAnswer
  <1>13. CASE UNCHANGED vars
    BY <1>2, <1>13 DEF vars
  <1> QED BY <1>2, <1>3, <1>4, <1>5, <1>6, <1>7, <1>8, <1>9, <1>10, <1>11,
             <1>12, <1>13, <1>16 DEF Next, Make

\* The symbol table implements the lexical scopes that its header promises.
THEOREM Implementation == Spec => ImplementsScopes
  <1>1. Init => Scopes!Init
    <2> SUFFICES ASSUME Init PROVE Scopes!Init
      OBVIOUS
    <2>1. /\ table = NewTable /\ table.next_scope_id = 1
          /\ Asked = <<"nothing">> /\ Answered = Scopes!NotFound
      BY DEF Init, NewTable, Asked, Answered, Lookups, Searches, Scopes!NotFound
    <2> QED BY <2>1, NewScopes DEF Scopes!Init, Scopes!Fresh, Scopes!Nothing
  <1>2. IInv => SearchAnswer
    BY DEF IInv
  <1> QED BY <1>1, <1>2, StepRefines, Invariance, SearchesAreNamed, PTL
          DEF Spec, Scopes!Spec, ImplementsScopes
=============================================================================
