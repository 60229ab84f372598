----------------------------- MODULE ScopeTable -----------------------------
(***************************************************************************)
(* The data structure of symbol_table.c as a value and the operations on   *)
(* it.  A table t is a record of                                           *)
(*   frames         the array table->scopes, in creation order             *)
(*   symbols        every Symbol, in order of insertion; the linked list of *)
(*                  a scope is the subsequence of the symbols it owns      *)
(*   current        table->current_scope                                   *)
(*   next_scope_id  table->next_scope_id                                   *)
(* A pointer to a frame or to a symbol is its position, and Null is 0, so  *)
(* two pointers are equal exactly when they point to the same object.      *)
(* The capacity of the array is kept by module SymbolTable.                *)
(***************************************************************************)
EXTENDS Integers, Sequences, Language

Null == 0

Frame == [id : Nat, depth : Nat, active : BOOLEAN, parent : Nat]

Symbol == [name : Names, type : Types, line : Nat,
           scope_id : Nat, scope_depth : Nat, owner : Nat]

Table == [frames : Seq(Frame), symbols : Seq(Symbol),
          current : Nat, next_scope_id : Nat]

First(S) == CHOOSE i \in S : \A j \in S : i <= j
Newest(S) == CHOOSE i \in S : \A j \in S : j <= i

-----------------------------------------------------------------------------
GlobalFrame == [id |-> 0, depth |-> 0, active |-> TRUE, parent |-> Null]

NewTable == [frames |-> <<GlobalFrame>>, symbols |-> << >>,
             current |-> 1, next_scope_id |-> 1]

CurrentFrame(t) == t.frames[t.current]

\* A variant of EnterScope that numbers the scopes by their depth.
EnterScopeByDepth(t) ==
  [frames |-> Append(t.frames, [id     |-> CurrentFrame(t).depth + 1,
                                depth  |-> CurrentFrame(t).depth + 1,
                                active |-> TRUE,
                                parent |-> t.current]),
   symbols |-> t.symbols,
   current |-> Len(t.frames) + 1,
   next_scope_id |-> t.next_scope_id + 1]

\* A new active child of the current scope, which becomes current.
EnterScope(t) ==
  [frames |-> Append(t.frames, [id     |-> t.next_scope_id,
                                depth  |-> CurrentFrame(t).depth + 1,
                                active |-> TRUE,
                                parent |-> t.current]),
   symbols |-> t.symbols,
   current |-> Len(t.frames) + 1,
   next_scope_id |-> t.next_scope_id + 1]

AtGlobal(t) == CurrentFrame(t).parent = Null

ExitScopePopping(t) ==
  [t EXCEPT !.frames = SubSeq(@, 1, Len(@) - 1),
            !.current = CurrentFrame(t).parent]
ExitScopeFreeing(t) ==
  [t EXCEPT !.frames = [@ EXCEPT ![t.current].active = FALSE],
            !.symbols = SelectSeq(@, LAMBDA symbol : symbol.owner # t.current),
            !.current = CurrentFrame(t).parent]

\* The current scope is marked inactive and its parent is current again.
ExitScope(t) ==
  [t EXCEPT !.frames = [@ EXCEPT ![t.current].active = FALSE],
            !.current = CurrentFrame(t).parent]

\* The symbols of name n in the list of scope s: the walk finds the first.
Holding(t, s, n) ==
  {i \in DOMAIN t.symbols : t.symbols[i].owner = s /\ t.symbols[i].name = n}

LookupInScope(t, s, n) ==
  IF Holding(t, s, n) = {} THEN Null ELSE First(Holding(t, s, n))

LookupCurrent(t, n) == LookupInScope(t, t.current, n)

\* The symbol is linked at the end of the current scope's list.
Insert(t, n, ty, line) ==
  [t EXCEPT !.symbols = Append(@, [name        |-> n,
                                   type        |-> ty,
                                   line        |-> line,
                                   scope_id    |-> CurrentFrame(t).id,
                                   scope_depth |-> CurrentFrame(t).depth,
                                   owner       |-> t.current])]

-----------------------------------------------------------------------------
(***************************************************************************)
(* What the two searches over several scopes answer.  The code finds it by *)
(* a loop; SymbolTable models the loops step by step and shows that they   *)
(* answer this.                                                            *)
(***************************************************************************)
Declaring(t, n, isActive) ==
  {s \in DOMAIN t.frames : /\ t.frames[s].active = isActive
                           /\ Holding(t, s, n) # {}}

Find(t, n, isActive) ==
  IF Declaring(t, n, isActive) = {}
    THEN Null
    ELSE LookupInScope(t, Newest(Declaring(t, n, isActive)), n)

\* symbol_table_lookup_active: the innermost active declaration of n.
LookupActive(t, n) == Find(t, n, TRUE)

\* symbol_table_lookup_history: the one of the newest exited scope.
LookupHistory(t, n) == Find(t, n, FALSE)

-----------------------------------------------------------------------------
(***************************************************************************)
(* The tables that the operations make: what SourceProofs proves of them,  *)
(* and every module that keeps a table can use.                            *)
(***************************************************************************)

\* IDs count the frames, and a frame is younger and one deeper than its parent.
Rooted(t) ==
  /\ t.next_scope_id = Len(t.frames)
  /\ \A s \in DOMAIN t.frames :
       /\ t.frames[s].id = s - 1
       /\ t.frames[s].parent \in 0 .. s - 1
       /\ t.frames[s].parent = Null <=> s = 1
       /\ s = 1 => t.frames[s].depth = 0
       /\ s # 1 => t.frames[s].depth =
                    t.frames[t.frames[s].parent].depth + 1

\* The active frames are the ancestors of the current one: the parent of an
\* active frame is the next older active frame.
Nested(t) ==
  /\ t.current \in DOMAIN t.frames
  /\ t.frames[t.current].active
  /\ \A s \in DOMAIN t.frames :
       t.frames[s].active =>
         /\ s <= t.current
         /\ s # 1 => t.frames[t.frames[s].parent].active
  /\ \A r, s \in DOMAIN t.frames :
       t.frames[r].active /\ t.frames[s].active /\ r < s
         => r <= t.frames[s].parent

\* A symbol carries the ID of the frame that owns it, which owns no other
\* symbol of that name.
Owned(t) ==
  /\ \A i \in DOMAIN t.symbols :
       /\ t.symbols[i].owner \in DOMAIN t.frames
       /\ t.symbols[i].scope_id = t.symbols[i].owner - 1
  /\ \A i, j \in DOMAIN t.symbols :
       /\ t.symbols[i].owner = t.symbols[j].owner
       /\ t.symbols[i].name = t.symbols[j].name
       => i = j

Open(t) == {s \in DOMAIN t.frames : t.frames[s].active}

\* There is one active frame for each depth down to the current one, and the
\* deeper ones are the newer.
Chain(t) ==
  /\ \A d \in 0 .. CurrentFrame(t).depth :
       \E s \in Open(t) : t.frames[s].depth = d
  /\ \A s \in Open(t) : t.frames[s].depth <= CurrentFrame(t).depth
  /\ \A r, s \in Open(t) : r < s => t.frames[r].depth < t.frames[s].depth

WellFormed(t) == t \in Table /\ Rooted(t) /\ Nested(t) /\ Owned(t)
=============================================================================
