---------------------------- MODULE KconfigMenu -----------------------------
(***************************************************************************)
(* support/kconfig/menu.c: the menu tree that is parsed from Config.in is  *)
(* finalized: dependencies are passed down and simplified, selects become  *)
(* reverse dependencies, entries that depend on the one before them become *)
(* its submenu, and `if' blocks are dissolved.                             *)
(*                                                                         *)
(* An entry is a record: the symbol it defines (or "" for a menu, an `if'  *)
(* or a comment), its dependency, its prompt's condition (a sequence of at *)
(* most one), its other properties, `visible if', and the entries in it.   *)
(***************************************************************************)
EXTENDS KconfigExpr, Functions

CONSTANTS
  ChoiceSyms, \* the symbols that are choices
  Optional    \* those of them that may be left at n

Entry(sym, dep, prompt, props, list) ==
  [sym |-> sym, dep |-> dep, prompt |-> prompt, props |-> props,
   visibility |-> None, list |-> list]
Prop(kind, value, cond) == [kind |-> kind, value |-> value, cond |-> cond]

-----------------------------------------------------------------------------
(***************************************************************************)
(* While parsing: a prompt of a symbol is subject to the `visible if' of   *)
(* all menus around it, from the inside to the outside (menu_add_prop()).  *)
(***************************************************************************)
RECURSIVE Parsing(_, _)
Parsing(entries, above) ==
  [i \in DOMAIN entries |->
     LET e == entries[i] IN
     [e EXCEPT !.prompt = IF e.sym = "" THEN e.prompt
                          ELSE [k \in DOMAIN e.prompt |-> FoldLeft(AllocAnd, e.prompt[k], above)],
               !.list = Parsing(e.list, IF e.visibility = None THEN above
                                        ELSE <<e.visibility>> \o above)]]

RECURSIVE RewriteM(_)
RewriteM(e) ==
  CASE e.t = "not" -> Not(RewriteM(e.l))
    [] e.t \in Junctions -> Two(e.t, RewriteM(e.l), RewriteM(e.r))
    [] e = Sym("m") -> AllocAnd(e, Sym(Modules))
    [] OTHER -> e

\* A condition under the one it inherits.
Under(inherited, cond) ==
  EliminateDups(AllocAnd(inherited, Transform(RewriteM(cond))))

\* What the entries in an entry inherit from it: the choice, the condition of a
\* menu's prompt, or the dependency of an `if'.
Inherited(parent) ==
  IF parent.sym \in ChoiceSyms THEN Sym(parent.sym)
  ELSE IF parent.prompt # <<>> THEN parent.prompt[1] ELSE parent.dep

\* An entry and its properties under what it inherits.
CondOf(e, cond) == IF e.sym # "" /\ Type[e.sym] # "tristate" THEN TransBool(cond) ELSE cond
WithCond(prop, cond) == [prop EXCEPT !.cond = cond]
UnderIts(e, dep) ==
  [e EXCEPT !.dep = dep,
            !.prompt = [k \in DOMAIN e.prompt |-> CondOf(e, Under(dep, e.prompt[k]))],
            !.props = [k \in DOMAIN e.props |->
                         WithCond(e.props[k], CondOf(e, Under(dep, e.props[k].cond)))]]
Propagated(e, inherited) == UnderIts(e, Under(inherited, e.dep))

(***************************************************************************)
(* What the symbols gather: reverse dependencies from selects, implied     *)
(* ones, their direct dependencies and the values of a choice.             *)
(***************************************************************************)
Nothing == [rev  |-> [s \in Syms |-> None], imp |-> [s \in Syms |-> None],
            dir  |-> [s \in Syms |-> None], values |-> [s \in ChoiceSyms |-> <<>>]]

Selects(e, kind) ==
  SelectSeq(e.props, LAMBDA p : p.kind = kind)
\* Mutant: the last one to select a symbol is the only one.
GatherLast(of, e, kind) ==
  FoldLeft(LAMBDA acc, p : [acc EXCEPT ![p.value] = AllocAnd(Sym(e.sym), p.cond)],
           of, Selects(e, kind))
Gather(of, e, kind) ==
  FoldLeft(LAMBDA acc, p : [acc EXCEPT ![p.value] =
                              AllocOr(acc[p.value], AllocAnd(Sym(e.sym), p.cond))],
           of, Selects(e, kind))
WithSelects(g, e) == [g EXCEPT !.rev = Gather(g.rev, e, "select"),
                               !.imp = Gather(g.imp, e, "imply")]

(***************************************************************************)
(* The entries after a symbol become its submenu as long as they depend on *)
(* it, or at least on all that its prompt depends on.                      *)
(***************************************************************************)
NotNo(e) == EliminateDups(Transform(TransCompare(e, "!=", "n")))
ConditionOf(e) == IF e.prompt # <<>> THEN e.prompt[1] ELSE e.dep
Superset(cond, base) == IsYes(EliminateEq(NotNo(cond), NotNo(base))[2])
\* Mutant: any entry that mentions the symbol belongs below it.
Mentions(e, parent) == ContainsSym(ConditionOf(e), parent.sym)
BelongsBelow(e, parent) ==
  LET cond == ConditionOf(e) IN
  /\ ContainsSym(cond, parent.sym)
  /\ \/ DependsSym(cond, parent.sym)
     \/ Superset(cond, IF parent.prompt = <<>> THEN None ELSE parent.prompt[1])

\* The last loop over the entries of a choice or menu: `if's and symbols without a
\* prompt give up their entries, which follow them.
RECURSIVE Flattened(_)
Flattened(list) ==
  IF list = <<>> THEN <<>>
  ELSE LET e == Head(list) IN
       IF e.prompt = <<>>
       THEN <<[e EXCEPT !.list = <<>>]>> \o Flattened(e.list \o Tail(list))
       ELSE <<e>> \o Flattened(Tail(list))

\* A bool in a tristate choice depends on the choice being y.
AsChoiceValue(e, choice) ==
  IF e.sym = "" \/ Type[choice] # "tristate" \/ Type[e.sym] = "tristate" THEN e
  ELSE LET isY == Comp("=", choice, "y") IN
       [e EXCEPT !.dep = AllocAnd(isY, e.dep),
                 !.prompt = [k \in DOMAIN e.prompt |-> AllocAnd(isY, e.prompt[k])],
                 !.props = [k \in DOMAIN e.props |->
                              WithCond(e.props[k], AllocAnd(isY, e.props[k].cond))]]

\* Not a value of a choice yet.
Fresh(e, g) == \A c \in ChoiceSyms : e.sym \notin ToSet(g.values[c])

RECURSIVE Finalize(_, _, _), FinalizeAll(_, _), Absorb(_, _, _, _)
\* The entries of an entry that has some, or those that follow a symbol and belong
\* below it: these, what still follows, and what the symbols have gathered.
Inside(list, next, g) ==
  FinalizeAll(list, FoldLeft(WithSelects, g, list)) @@ [next |-> next]
WithDepends(r, e) == [r EXCEPT !.g.dir[e.sym] = AllocOr(r.g.dir[e.sym], e.dep)]
Submenu(parent, next, g) ==
  IF parent.list # <<>>
  THEN LET under == Inherited(parent) IN
       Inside([i \in DOMAIN parent.list |-> Propagated(parent.list[i], under)], next, g)
  ELSE IF parent.sym # "" THEN WithDepends(Absorb(parent, <<>>, next, g), parent)
  ELSE [list |-> <<>>, next |-> next, g |-> g]

\* The values of a choice, unless another choice has them; and what keeps a choice
\* that is not optional at m, at least.
AsValues(r, c) ==
  [r EXCEPT !.list = [i \in DOMAIN r.list |->
                        IF Fresh(r.list[i], r.g) THEN AsChoiceValue(r.list[i], c)
                        ELSE r.list[i]]]
WithValues(r, c) ==
  LET symbols == SelectSeq(r.list, LAMBDA e : e.sym # "" /\ Fresh(e, r.g))
  IN [r EXCEPT !.g.values[c] = r.g.values[c] \o [i \in DOMAIN symbols |-> symbols[i].sym]]
AtLeastM(r, e) ==
  IF e.sym \in Optional \/ e.prompt = <<>> THEN r
  ELSE [r EXCEPT !.g.rev[e.sym] = AllocOr(r.g.rev[e.sym], AllocAnd(e.prompt[1], Sym("m")))]
OfChoice(r, e) == IF e.sym \notin ChoiceSyms THEN r
                  ELSE AtLeastM(WithValues(AsValues(r, e.sym), e.sym), e)
Finalized(r, e) == [entry |-> [e EXCEPT !.list = r.list], next |-> r.next, g |-> r.g]
Loosened(r) == [r EXCEPT !.list = Flattened(r.list)]
\* menu_finalize(parent) with the entries that follow it.
Finalize(parent, next, g) ==
  Finalized(OfChoice(Loosened(Submenu(parent, next, g)), parent), parent)

ThenEntry(entry, rest) == [rest EXCEPT !.list = <<entry>> \o rest.list]
ThenRest(first) == ThenEntry(first.entry, FinalizeAll(first.next, first.g))
FinalizeAll(list, g) == IF list = <<>> THEN [list |-> <<>>, g |-> g]
                        ELSE ThenRest(Finalize(Head(list), Tail(list), g))

ThenMore(parent, list, first) ==
  Absorb(parent, Append(list, first.entry), first.next, first.g)
Absorb(parent, list, next, g) ==
  IF next = <<>> \/ ~BelongsBelow(Head(next), parent)
  THEN [list |-> list, next |-> next, g |-> g]
  ELSE ThenMore(parent, list, Finalize(Head(next), Tail(next), g))

\* conf_parse(): the whole tree.
Root(list) == Entry("", None, <<None>>, <<>>, list)
Built(list) == Finalize(Root(Parsing(list, <<>>)), <<>>, Nothing)

RECURSIVE EntriesOf(_)
\* All entries of a list, in order.
EntriesOf(list) ==
  IF list = <<>> THEN <<>>
  ELSE <<Head(list)>> \o EntriesOf(Head(list).list) \o EntriesOf(Tail(list))
=============================================================================
