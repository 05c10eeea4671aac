--------------------------- MODULE MCKconfigBuild ---------------------------
(* Expressions and menus for KconfigBuild.                                  *)
EXTENDS KconfigBuild

MCType == [y |-> "unknown", m |-> "unknown", n |-> "unknown",
           A |-> "bool", B |-> "bool", T |-> "tristate", MODULES |-> "bool",
           C |-> "tristate", V |-> "tristate", W |-> "bool"]

MCOrdered == <<"A", "B", "m", "n", "y">>
MCNumber == [unknown |-> <<>>, string |-> <<>>]

\* Operands over a bool and a tristate.
Operands ==
  {Sym("B"), Not(Sym("B")), Sym("T"), Not(Sym("T")), Sym("m"), Sym("y"), Sym("n")}
  \cup {Comp(c, "T", k) : c \in {"=", "!="}, k \in {"y", "m", "n"}}
  \cup {Comp("=", "B", "n"), Comp("!=", "B", "m"), Comp("<", "T", "y")}
Pairs2 == {Two(j, x, y) : j \in Junctions, x \in Operands, y \in Operands}
Thirds ==
  {Sym("B"), Not(Sym("B")), Sym("T"), Not(Sym("T")), Sym("m"), Comp("=", "T", "y"),
   Comp("!=", "T", "m")}
\* At most one operand is an m, which is expanded: of what two make, TLC has to hold
\* too much on its stack.  Negations have two.
Triples == {e \in {Two(j, p, z) : j \in Junctions, p \in Pairs2, z \in Thirds} :
              Cardinality({i \in 1 .. 3 : <<e.l.l, e.l.r, e.r>>[i] = Sym("m")}) <= 1}
Negations == {Not(p) : p \in Pairs2}

Config(sym, dep, prompt, props) == Entry(sym, dep, prompt, props, <<>>)
\* One symbol that depends on an expression.
Single == {<<Config("A", e, <<None>>, <<>>)>> : e \in Triples \cup Negations}

\* Up to three entries in a row, of these.
Lines ==
  {Config("A", None, <<None>>, <<>>),
   Config("A", Sym("T"), <<Sym("B")>>, <<Prop("select", "T", Comp("!=", "T", "n"))>>),
   Config("B", Two("or", Sym("A"), Sym("T")), <<None>>, <<Prop("select", "A", None)>>),
   Config("B", Sym("A"), <<>>, <<>>),
   Config("T", Two("and", Sym("T"), Sym("A")), <<Sym("m")>>, <<Prop("imply", "B", Sym("A"))>>),
   Config("W", Not(Sym("A")), <<None>>, <<Prop("select", "A", Sym("B"))>>),
   Entry("", Sym("A"), <<>>, <<>>, <<Config("B", None, <<None>>, <<>>),
                                     Config("T", Sym("B"), <<None>>, <<>>)>>),
   Config("W", Two("or", Sym("A"), Sym("B")), <<None>>, <<>>),
   Entry("", Sym("T"), <<>>, <<>>,
         <<Config("A", None, <<None>>, <<>>),
           Config("W", Two("or", Sym("A"), Sym("B")), <<None>>, <<>>)>>),
   Entry("", None, <<Sym("A")>>, <<>>, <<Config("B", None, <<Sym("T")>>, <<>>)>>),
   [Entry("", None, <<None>>, <<>>, <<Config("W", Sym("A"), <<Sym("T")>>, <<>>)>>)
      EXCEPT !.visibility = Sym("B")],
   Entry("C", Sym("A"), <<None>>, <<>>,
         <<Config("V", None, <<None>>, <<>>), Config("W", None, <<Sym("T")>>, <<>>)>>)}
\* These depend on the choice or on a value of it.
OnChoice ==
  {Config("A", Sym("V"), <<None>>, <<Prop("default", Sym("T"), Sym("B"))>>),
   Config("T", Sym("C"), <<None>>, <<>>)}
\* A choice is defined once, and something may depend on it.
Rows == {r \in UNION {[1 .. n -> Lines] : n \in 2 .. 3} :
           \A i, j \in DOMAIN r : r[i].sym = "C" /\ r[j].sym = "C" => i = j}
Knots == {r \in [1 .. 3 -> Lines \cup OnChoice] :
            /\ Cardinality({i \in 1 .. 3 : r[i].sym = "C"}) = 1
            /\ Cardinality({i \in 1 .. 3 : r[i] \in OnChoice}) = 1}
MCSources == Single \cup Rows \cup Knots
MCOrders == {<<"A", "B", "T", "MODULES", "W", "C", "V">>,
             <<"V", "C", "W", "MODULES", "T", "B", "A">>}
=============================================================================
