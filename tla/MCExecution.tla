---------------------------- MODULE MCExecution -----------------------------
(* Programs with branches, loops and blocks to be run, for TLC. *)
EXTENDS Execution

t1 == <<"t", 1>>
x == <<"x", 0>>
MCNames == {t1, x}
MCTypes == {"int", "bool"}

Let(n, e) == <<Declaration(n, "int", TRUE)>> \o e
Set(n, e) == <<Assignment(n)>> \o e
Show(n) == <<PrintOf(n)>>
Use(n) == <<Identifier(n)>>
Negated(n) == <<Identifier(n), Unary>>
Sum == <<Identifier(x), Identifier(t1), Binary("+")>>
Mixed == Sum \o Negated(x) \o <<Binary("+")>>

In(s) == <<Block>> \o s \o <<EndBlock>>

Steps == {Let(x, Sum), <<Declaration(x, "int", FALSE)>>, Set(x, Mixed),
          Set(t1, Use(x)), Show(x)}
Pairs == {a \o b : a, b \in Steps}

\* s in a block, in each of the branches, in a loop.
Around(s) == {In(s), <<If(FALSE)>> \o Use(x) \o In(s),
              <<If(TRUE)>> \o Negated(t1) \o In(s) \o In(Set(x, Sum)),
              <<If(TRUE)>> \o Sum \o In(Show(t1)) \o In(s),
              <<While>> \o Negated(x) \o In(s)}

Once == UNION {Around(s) : s \in Steps}
Bodies == UNION {Around(s) : s \in Pairs \cup Once \cup {a \o b : a \in Once, b \in Steps}}

Beginning == Let(x, <<Literal("int")>>) \o Let(t1, Negated(x))
RunPrograms == {Beginning \o b \o Show(x) \o Show(t1) : b \in Bodies}

\* Programs put together from parts that were not analyzed: most of them are
\* not even well scoped.
Parts ==
  {<<Declaration(x, "int", FALSE)>>,
   <<Declaration(x, "int", TRUE), Identifier(x), Literal("int"), Binary("+")>>,
   <<Declaration(t1, "int", TRUE), Literal("int")>>,
   <<Assignment(x), Literal("int"), Literal("int"), Binary("<"), Unary>>,
   <<PrintOf(t1)>>,
   <<Block, Declaration(x, "int", FALSE), PrintOf(x), EndBlock>>,
   <<Block, Declaration(t1, "bool", TRUE), Literal("bool"), Unary, EndBlock>>,
   <<If(TRUE), Literal("bool"), Block, EndBlock, Block, PrintOf(x), EndBlock>>,
   <<While, Identifier(t1), Unary, Block,
       If(FALSE), Identifier(t1), Block, Assignment(x), Identifier(x), EndBlock,
     EndBlock>>}

Globals == <<Declaration(x, "int", FALSE),
             Declaration(t1, "int", TRUE), Literal("int")>>

UnanalyzedPrograms == {a \o b \o c : a, b, c \in Parts}
                \cup {Globals \o a \o b : a, b \in Parts}
                \cup {Globals \o a \o a \o a : a \in Parts}

MCPrograms == RunPrograms \cup UnanalyzedPrograms
=============================================================================
