--------------------------- MODULE LexicalScopes ----------------------------
(***************************************************************************)
(* What symbol_table.h promises to its callers, without frames, pointers,  *)
(* lists or loops: the open scopes are a stack, a scope binds each name to *)
(* at most one type, a scope that is left keeps its bindings for ever, and *)
(* a question is answered from the innermost open scope, or from the       *)
(* newest closed one, that binds the name.                                 *)
(***************************************************************************)
EXTENDS Integers, Sequences, SequencesExt

CONSTANTS Names, Types, Unbound

VARIABLES
  open,    \* the open scopes, outermost first
  closed,  \* the scopes that were left
  born,    \* how many scopes there have been
  asked,   \* the last question, when the last call was one
  answer   \* what it was answered

vars == <<open, closed, born, asked, answer>>

Scope == [birth : Nat, bound : [Names -> Types \cup {Unbound}]]

\* A scope as it is entered, the number b in order of birth.
Blank(b) == [birth |-> b, bound |-> [n \in Names |-> Unbound]]

Nothing == <<"nothing">>
NotFound == [birth |-> 0, type |-> Unbound]

Found(scope, n) == IF scope.bound[n] = Unbound
                     THEN NotFound
                     ELSE [birth |-> scope.birth, type |-> scope.bound[n]]

\* The answer from the latest born of the scopes in S that bind n.
Latest(S, n) ==
  LET binding == {scope \in S : scope.bound[n] # Unbound}
  IN  IF binding = {} THEN NotFound
      ELSE Found(CHOOSE scope \in binding :
                   \A other \in binding : other.birth <= scope.birth, n)

Fresh ==
  /\ open = <<Blank(0)>>
  /\ closed = {}
  /\ born = 1

Init == Fresh /\ asked = Nothing /\ answer = NotFound

\* A call that is no question.
Command == asked' = Nothing /\ answer' = NotFound

Ask(question, n, found) ==
  /\ asked' = <<question, n>>
  /\ answer' = found
  /\ UNCHANGED <<open, closed, born>>

-----------------------------------------------------------------------------
Enter ==
  /\ open' = Append(open, Blank(born))
  /\ born' = born + 1
  /\ Command
  /\ UNCHANGED closed

Leave ==
  /\ Len(open) > 1
  /\ open' = Front(open)
  /\ closed' = closed \cup {Last(open)}
  /\ Command
  /\ UNCHANGED born

Declare(n, ty) ==
  /\ Last(open).bound[n] = Unbound
  /\ open' = [open EXCEPT ![Len(open)].bound[n] = ty]
  /\ Command
  /\ UNCHANGED <<closed, born>>

AskInnermost(n) == Ask("innermost", n, Found(Last(open), n))

AskOpen(n) == Ask("open", n, Latest({open[d] : d \in DOMAIN open}, n))

AskClosed(n) == Ask("closed", n, Latest(closed, n))

\* A call that was refused, or failed, changes nothing.
Refuse == /\ Command
          /\ UNCHANGED <<open, closed, born>>

\* All the scopes are given up, and there is a new global scope.
Restart ==
  /\ open' = <<Blank(0)>>
  /\ closed' = {}
  /\ born' = 1
  /\ Command

Next ==
  \/ Enter \/ Leave \/ Refuse \/ Restart
  \/ \E n \in Names :
       \/ \E ty \in Types : Declare(n, ty)
       \/ AskInnermost(n) \/ AskOpen(n) \/ AskClosed(n)

Spec == Init /\ [][Next]_vars
=============================================================================
