---------------------------- MODULE KconfigCycles ----------------------------
(***************************************************************************)
(* support/kconfig/symbol.c: after the menus are finalized every symbol is *)
(* checked for a recursive dependency, by a search along the references    *)
(* that marks the symbols on its way (SYMBOL_CHECK) and those it has seen  *)
(* (SYMBOL_CHECKED).  A choice and its values are checked together.        *)
(***************************************************************************)
EXTENDS KconfigMenu

\* The symbols an expression names, as sym_check_expr_deps() meets them.
RECURSIVE Named(_)
Named(e) == CASE e.t = "none"     -> <<>>
              [] e.t = "sym"      -> <<e.s>>
              [] e.t = "not"      -> Named(e.l)
              [] e.t \in Junctions -> Named(e.l) \o Named(e.r)
              [] OTHER            -> <<e.a, e.b>>

\* What sym_check_sym_deps() follows from a symbol: what selects it, and its
\* properties, except selects and the defaults of a choice.
NamedBy(p, s) ==
  IF p.kind = "select" THEN <<>>
  ELSE Named(p.cond) \o (IF p.kind = "default" /\ s \notin ChoiceSyms
                         THEN Named(p.value) ELSE <<>>)
NamedAt(e) ==
  Named(e.dep) \o FlattenSeq([k \in DOMAIN e.prompt |-> Named(e.prompt[k])])
               \o FlattenSeq([k \in DOMAIN e.props |-> NamedBy(e.props[k], e.sym)])
References(b, s) ==
  LET its == SelectSeq(EntriesOf(b.entry.list), LAMBDA e : e.sym = s)
  IN Named(b.g.rev[s]) \o FlattenSeq([i \in DOMAIN its |-> NamedAt(its[i])])

\* What the search goes through, and its state: the marks, the stack of symbols, the
\* symbol it came back to or "", the chains printed and the errors counted.
GraphOf(b) == [refs |-> [s \in Syms |-> References(b, s)], values |-> b.g.values]
Unchecked == [check |-> {}, checked |-> {}, stack |-> <<>>, found |-> "",
              printed |-> {}, errors |-> 0]
Above(G, s) == {c \in ChoiceSyms : s \in ToSet(G.values[c])}

Pushed(st, s) == [st EXCEPT !.stack = Append(@, s)]
Popped(st) == [st EXCEPT !.stack = Front(@)]
Marked(st, S) == [st EXCEPT !.check = @ \cup S, !.checked = @ \cup S]
\* Mutant: a symbol stays marked as being on the way.
StillMarked(st, S) == st
Unmarked(st, S) == [st EXCEPT !.check = @ \ S]
\* Coming back to where the search began is no answer any more.
Closed(st, s) == [st EXCEPT !.found = IF @ = s THEN "" ELSE @]

\* sym_check_print_recursive(): the stack from the symbol on, from the choice if it
\* is a value; nothing if it is not there.
Chain(stack, last) ==
  LET at == {i \in DOMAIN stack : stack[i] = last}
  IN IF at = {} THEN <<>>
     ELSE SubSeq(stack, CHOOSE i \in at : \A j \in at : j <= i, Len(stack))
Recursion(G, st, s) ==
  LET chain == IF Above(G, s) = {} THEN Chain(st.stack, s)
               ELSE Chain(Append(st.stack, s), CHOOSE c \in Above(G, s) : TRUE)
  IN [st EXCEPT !.found = s, !.printed = @ \cup {chain}]

RECURSIVE CheckDeps(_, _, _), CheckNamed(_, _, _), CheckValues(_, _, _)
\* Until one leads back.
CheckNamed(G, st, names) ==
  IF names = <<>> \/ st.found # "" THEN st
  ELSE CheckNamed(G, CheckDeps(G, st, Head(names)), Tail(names))
CheckSym(G, st, s) == Popped(CheckNamed(G, Pushed(st, s), G.refs[s]))
CheckValues(G, st, values) ==
  IF values = <<>> \/ st.found # "" THEN st
  ELSE CheckValues(G, CheckSym(G, st, Head(values)), Tail(values))

\* sym_check_choice_deps(): first the choice, then its values, all of which are
\* marked until the end.
ForChoice(st, c, values) == [st EXCEPT !.found = IF @ \in values THEN c ELSE @]
CheckChoice(G, st, c) ==
  LET values == ToSet(G.values[c])
      own == CheckSym(G, Marked(Pushed(st, c), {c} \cup values), c)
      all == CheckValues(G, Unmarked(own, {c}), G.values[c])
  IN Popped(ForChoice(Unmarked(all, values), c, values))

CheckDeps(G, st, s) ==
  IF s \in st.check THEN Recursion(G, st, s)
  ELSE IF s \in st.checked THEN st
  ELSE IF Above(G, s) # {}
  THEN Closed(Popped(CheckDeps(G, Pushed(st, s), CHOOSE c \in Above(G, s) : TRUE)), s)
  ELSE IF s \in ChoiceSyms THEN Closed(CheckChoice(G, st, s), s)
  ELSE Closed(Unmarked(CheckSym(G, Marked(st, {s}), s), {s}), s)

\* The loop of conf_parse() over all symbols, which counts those that are not fine.
Counted(st) == [st EXCEPT !.found = "", !.errors = @ + (IF st.found = "" THEN 0 ELSE 1)]
RECURSIVE CheckAll(_, _, _)
CheckAll(G, st, order) ==
  IF order = <<>> THEN st
  ELSE CheckAll(G, Counted(CheckDeps(G, st, Head(order))), Tail(order))
=============================================================================
