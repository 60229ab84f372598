----------------------------- MODULE Execution ------------------------------
(***************************************************************************)
(* What a program does, and what the code that tac.c generates for it      *)
(* does.  When a program has been generated it is run twice: the source    *)
(* first, by the scoping of LANGUAGE_SPEC.md, where every condition may    *)
(* turn out true or false; then the three-address code, whose conditions   *)
(* turn out in the same way.  What can be seen of a run is what it prints  *)
(* and what its conditions are.                                            *)
(*                                                                         *)
(* A value is the term that computes it, without the operator.  The value  *)
(* of a variable that has none yet is unset, and so it is again whenever   *)
(* its declaration is come to.                                             *)
(***************************************************************************)
EXTENDS Tac

CONSTANT MaxBranches  \* a run is cut at the condition with this number
ASSUME MaxBranchesAssumption == MaxBranches \in Nat \ {0}

VARIABLES
  position, variables, expected,  \* of the source: declaration -> value; events
  pc, store, observed,            \* of the code: text -> value; events
  since                           \* the instructions it ran since a condition

runVars == <<position, variables, expected, pc, store, observed, since>>
allVars == <<vars, runVars>>

Term(op, arguments) == [op |-> op, arguments |-> arguments]
Unset == Term("unset", << >>)
One == Term("literal", << >>)
ValueIn(f, x) == IF x \in DOMAIN f THEN f[x] ELSE Unset
With(f, x, v) == [y \in DOMAIN f \cup {x} |-> IF y = x THEN v ELSE f[y]]

Printed(v) == [what |-> "print", value |-> v, taken |-> FALSE]
Branched(v, taken) == [what |-> "branch", value |-> v, taken |-> taken]
Branches(events) == SelectSeq(events, LAMBDA e : e.what = "branch")
Cut(events) == Len(Branches(events)) = MaxBranches

Empty == [x \in {} |-> Unset]

-----------------------------------------------------------------------------
(* The source. *)

\* The value of the expression that belongs to the statement at p.
Evaluated(p) ==
  LET operate(values, q) ==
        LET v == program[q]
            n == Len(values)
        IN  CASE v.kind = "literal" -> Append(values, One)
              [] v.kind = "identifier" ->
                   Append(values, ValueIn(variables, Denoted(program, v.name, q)))
              [] v.kind = "unary" ->
                   Append(Front(values), Term("unary", <<Last(values)>>))
              [] v.kind = "binary" ->
                   Append(SubSeq(values, 1, n - 2),
                          Term("binary", <<values[n - 1], values[n]>>))
      positions == [i \in 1 .. LastOf(program, p) - p |-> p + i]
  IN  Last(FoldLeft(operate, << >>, positions))

After(p) == LastOf(program, p) + 1

\* The end of the block at b.
EndOf(b) == Min({q \in b + 1 .. Len(program) :
                   program[q] = EndBlock /\ Level(program, q + 1) = Level(program, b)})

\* The statement that the block at b is the body of, or 0.
OwnerOf(b) ==
  LET owners == {p \in 1 .. b - 1 : program[p].kind \in {"if", "while"} /\ After(p) = b}
  IN  IF owners = {} THEN 0 ELSE Max(owners)

SourceRunning == /\ status = "SUCCESS"
                 /\ position \in DOMAIN program /\ ~Cut(expected)
                 /\ UNCHANGED <<vars, pc, store, observed, since>>

Here == program[position]

Simple ==
  /\ SourceRunning
  /\ \/ /\ Here.kind = "declaration"
        /\ variables' = With(variables, position,
                             IF Here.initialized THEN Evaluated(position) ELSE Unset)
        /\ UNCHANGED expected
     \/ /\ Here.kind = "assignment"
        /\ variables' = With(variables, Denoted(program, Here.name, position),
                             Evaluated(position))
        /\ UNCHANGED expected
     \/ /\ Here.kind = "print"
        /\ expected' = Append(expected, Printed(ValueIn(variables,
                                 Denoted(program, Here.name, position))))
        /\ UNCHANGED variables
  /\ position' = After(position)

Condition ==
  /\ SourceRunning
  /\ Here.kind \in {"if", "while"}
  /\ \E taken \in BOOLEAN :
       /\ expected' = Append(expected, Branched(Evaluated(position), taken))
       /\ position' = IF taken THEN After(position) ELSE EndOf(After(position)) + 1
  /\ UNCHANGED variables

\* At the end of a body its loop is come to again, and a branch that was taken
\* leaves the other out.
Boundary ==
  /\ SourceRunning
  /\ \/ /\ Here.kind = "block"
        /\ position' = position + 1
     \/ /\ Here.kind = "end"
        /\ LET owner == OwnerOf(CHOOSE b \in DOMAIN program :
                                  program[b] = Block /\ EndOf(b) = position)
           IN  position' =
                 IF owner # 0 /\ program[owner].kind = "while" THEN owner
                 ELSE IF owner # 0 /\ program[owner].hasElse THEN EndOf(position + 1) + 1
                 ELSE position + 1
  /\ UNCHANGED <<variables, expected>>

-----------------------------------------------------------------------------
(* The code. *)

CodeRunning == /\ status = "SUCCESS"
               /\ position # 0 /\ (position \notin DOMAIN program \/ Cut(expected))
               /\ pc \in DOMAIN code /\ ~Cut(observed)
               /\ UNCHANGED <<vars, position, variables, expected>>

Now == code[pc]
Operand(text) == IF text = LiteralText THEN One ELSE ValueIn(store, text)

\* Where label l is; the end of the code when it is nowhere.
PlaceOf(l) == Min({i \in DOMAIN code : code[i].kind = "LABEL" /\ code[i].label = l}
                    \cup {Len(code) + 1})

Compute ==
  /\ CodeRunning
  /\ LET a == Operand(Now.first)
         b == Operand(Now.second)
     IN  \/ Now.kind = "ASSIGNMENT" /\ store' = With(store, Now.result, a)
         \/ Now.kind = "UNARY" /\ store' = With(store, Now.result, Term("unary", <<a>>))
         \/ Now.kind = "BINARY" /\ store' = With(store, Now.result, Term("binary", <<a, b>>))
  /\ pc' = pc + 1 /\ since' = since \cup {pc}
  /\ UNCHANGED observed

Output ==
  /\ CodeRunning
  /\ Now.kind = "PRINT"
  /\ observed' = Append(observed, Printed(Operand(Now.first)))
  /\ pc' = pc + 1 /\ since' = since \cup {pc}
  /\ UNCHANGED store

Go ==
  /\ CodeRunning
  /\ Now.kind \in {"LABEL", "JUMP"}
  /\ pc' = IF Now.kind = "LABEL" THEN pc + 1 ELSE PlaceOf(Now.label)
  /\ since' = since \cup {pc}
  /\ UNCHANGED <<store, observed>>

\* The condition turns out as that of the source; a run with one more stops.
GoIfFalse ==
  /\ CodeRunning
  /\ Now.kind = "JUMP_IF_FALSE"
  /\ LET k == Len(Branches(observed)) + 1
         known == k <= Len(Branches(expected))
         taken == known /\ Branches(expected)[k].taken
     IN  /\ observed' = Append(observed, Branched(Operand(Now.first), taken))
         /\ pc' = IF ~known THEN Len(code) + 1
                  ELSE IF taken THEN pc + 1 ELSE PlaceOf(Now.label)
  /\ since' = {}
  /\ UNCHANGED store

-----------------------------------------------------------------------------
Start ==
  /\ status = "SUCCESS" /\ position = 0
  /\ position' = 1 /\ pc' = 1
  /\ UNCHANGED <<vars, variables, expected, store, observed, since>>

Run == Start \/ Simple \/ Condition \/ Boundary \/ Compute \/ Output \/ Go \/ GoIfFalse

CodeDone == pc # 0 /\ (pc \notin DOMAIN code \/ Cut(observed))

\* Nothing is left to run, or there is no code.
Rest == /\ CodeDone \/ status \in {"ALLOCATION_FAILURE", "INTERNAL_ERROR"}
        /\ UNCHANGED allVars

RunInit == /\ Init
           /\ position = 0 /\ variables = Empty /\ expected = << >>
           /\ pc = 0 /\ store = Empty /\ observed = << >> /\ since = {}
Begins == status = "none" /\ \E ast \in Programs : Begin(ast)

RunNext == ((Begins \/ Step) /\ UNCHANGED runVars) \/ Run \/ Rest

\* tac_generate runs to its end once it was called.
RunSpec == RunInit /\ [][RunNext]_allVars /\ WF_vars(Step)

-----------------------------------------------------------------------------
(* Properties. *)

\* What has no value in the source may have any in the code.
RECURSIVE Agrees(_, _)
Agrees(v, w) ==
  \/ v = Unset
  \/ /\ v.op = w.op /\ Len(v.arguments) = Len(w.arguments)
     /\ \A i \in DOMAIN v.arguments : Agrees(v.arguments[i], w.arguments[i])

\* The code does what the program does: it prints the same values and comes to
\* the same conditions in the same order, however these turn out, and stops
\* when the program stops: between two conditions it comes to no instruction
\* twice, which it would do for ever.  (The lowering of statements in tac.c: order of
\* evaluation, labels and jumps, storage of names in nested scopes.)
SameBehaviour ==
  /\ \A i \in DOMAIN observed :
       /\ i \in DOMAIN expected
       /\ observed[i].what = expected[i].what
       /\ Agrees(expected[i].value, observed[i].value)
  /\ CodeDone => Len(observed) = Len(expected)
  /\ pc \notin since

=============================================================================
