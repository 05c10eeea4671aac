---------------------------- MODULE KconfigBuild ----------------------------
(***************************************************************************)
(* Reading a Config.in: what finalizing the menus must keep, as conditions *)
(* on every value the symbols may have, worked out from the entries as     *)
(* they are written.                                                       *)
(***************************************************************************)
EXTENDS KconfigCycles

CONSTANTS
  Sources,    \* the entries of the Config.in files that are tried
  Orders      \* in which order the symbols may be checked, a hash table's

VARIABLES source, stage, built, check
vars == <<source, stage, built, check>>

Init == source \in Sources /\ stage = "written" /\ built = Nothing /\ check = Unchecked
\* conf_parse() up to menu_finalize(), and what follows it.
Read ==
  /\ stage = "written"
  /\ built' = Built(source)
  /\ stage' = "read"
  /\ UNCHANGED <<source, check>>
CheckDependencies ==
  /\ stage = "read"
  /\ \E order \in Orders : check' = CheckAll(GraphOf(built), Unchecked, order)
  /\ stage' = IF check'.errors > 0 THEN "exit" ELSE "checked"
  /\ UNCHANGED <<source, built>>
Next == Read \/ CheckDependencies
Spec == Init /\ [][Next]_vars
-----------------------------------------------------------------------------
\* The symbols a Config.in is about, and all values they may have together.
Of(prop, s) == IF prop.kind = "default" THEN ContainsSym(prop.value, s) ELSE s = prop.value
RECURSIVE Mentioned(_)
Mentioned(list) ==
  UNION {LET e == list[i] IN
         {e.sym} \cup Mentioned(e.list)
         \cup {s \in Syms : \/ \E c \in {e.dep, e.visibility} \cup ToSet(e.prompt) : ContainsSym(c, s)
                             \/ \E k \in DOMAIN e.props : \/ ContainsSym(e.props[k].cond, s)
                                                         \/ Of(e.props[k], s)}
         : i \in DOMAIN list}
Texts(s) == IF Type[s] = "bool" THEN {"n", "y"} ELSE {"n", "m", "y"}
Valuations(list) ==
  LET varied == {s \in Mentioned(list) \cup {Modules} : s \in Syms /\ Logical(s)}
  IN {[s \in Syms |-> IF s \in varied THEN v[s] ELSE IF Logical(s) THEN "n" ELSE s] :
        v \in {w \in [varied -> {"n", "m", "y"}] :
                /\ \A s \in varied : w[s] \in Texts(s)
                /\ (Modules \in varied /\ w[Modules] = "n") => \A s \in varied : w[s] # "m"}}

Least(x, y) == IF x < y THEN x ELSE y
Most(S) == IF S = {} THEN no ELSE CHOOSE x \in S : \A y \in S : y <= x

\* What a condition is meant to be: an m in it stands for `m if there are modules'.
RECURSIVE Meaning(_, _)
Meaning(v, e) ==
  CASE e = Sym("m") -> Least(mod, TriOf(v, Modules))
    [] e.t = "and"  -> Least(Meaning(v, e.l), Meaning(v, e.r))
    [] e.t = "or"   -> Most({Meaning(v, e.l), Meaning(v, e.r)})
    [] e.t = "not"  -> 2 - Meaning(v, e.l)
    [] OTHER        -> Value(v, e)

RECURSIVE Meant(_, _, _, _, _)
\* All entries in order, with the values that their conditions are meant to have
\* inside entries that allow `above', with `shown' for prompts and `bools' for
\* symbols that are not tristate.
Meant(v, list, above, bools, shown) ==
  IF list = <<>> THEN <<>>
  ELSE LET e == Head(list)
           limit == IF e.sym = "" \/ Type[e.sym] = "tristate" THEN yes ELSE bools
           dep == Least(Least(above, limit), Meaning(v, e.dep))
           Cond(c) == Least(dep, Meaning(v, c))
           prompt == [k \in DOMAIN e.prompt |->
                        Least(Cond(e.prompt[k]), IF e.sym = "" THEN yes ELSE shown)]
           choice == e.sym \in ChoiceSyms
           inside == IF choice THEN TriOf(v, e.sym)
                     ELSE IF e.prompt # <<>> THEN prompt[1] ELSE dep
           values == IF choice THEN (IF Type[e.sym] = "tristate" /\ v[e.sym] # "y"
                                     THEN no ELSE yes)
                     ELSE IF e.prompt # <<>> THEN yes ELSE bools
       IN <<[sym |-> e.sym, dep |-> dep, prompt |-> prompt,
             props |-> [k \in DOMAIN e.props |->
                          [e.props[k] EXCEPT !.cond = Cond(@)]]]>>
          \o Meant(v, e.list, inside, values, Least(shown, Meaning(v, e.visibility)))
          \o Meant(v, Tail(list), above, bools, shown)
AllMeant(v) == Meant(v, source, yes, yes, yes)

\* A tristate keeps the value of its conditions; of the others only whether it is
\* n matters.
Same(sym, x, y) == IF sym = "" \/ Type[sym] = "tristate" THEN x = y
                   ELSE (x = no) = (y = no)

(***************************************************************************)
(* No entry is lost or moves, and every dependency and condition, however  *)
(* it was rewritten, has the value it was written to have, whatever the    *)
(* values of the symbols.                                                  *)
(***************************************************************************)
ConditionsKept ==
  stage = "read" =>
    LET now == EntriesOf(built.entry.list) IN
    \A v \in Valuations(source) :
      LET meant == AllMeant(v) IN
      /\ Len(meant) = Len(now)
      /\ \A i \in DOMAIN now :
           /\ now[i].sym = meant[i].sym
           /\ Value(v, now[i].dep) = meant[i].dep
           /\ \A k \in DOMAIN now[i].prompt :
                Same(now[i].sym, Value(v, now[i].prompt[k]), meant[i].prompt[k])
           /\ \A k \in DOMAIN now[i].props :
                Same(now[i].sym, Value(v, now[i].props[k].cond), meant[i].props[k].cond)

(***************************************************************************)
(* What the symbols gathered: a symbol can be kept from n exactly by what  *)
(* selects it, and never further than the selecting symbol goes; its       *)
(* direct dependencies are those of its entries.  An entry without any     *)
(* does not count beside one that has some, and those of a bool in a       *)
(* tristate choice lack that the choice is y, which is added later.        *)
(***************************************************************************)
GatheredRight ==
  stage = "read" =>
    LET now == EntriesOf(built.entry.list) IN
    \A v \in Valuations(source) :
      LET meant == AllMeant(v)
          Pull(s, kind) ==
            Most({Least(TriOf(v, meant[i].sym), meant[i].props[k].cond) :
                    <<i, k>> \in {p \in (DOMAIN meant) \X (1 .. 3) :
                                    /\ p[2] \in DOMAIN meant[p[1]].props
                                    /\ meant[p[1]].props[p[2]].kind = kind
                                    /\ meant[p[1]].props[p[2]].value = s}})
      IN \A s \in Syms \ ChoiceSyms :
           /\ LET is == IF built.g.rev[s] = None THEN no ELSE Value(v, built.g.rev[s])
                  want == Pull(s, "select")
              IN is <= want /\ (is = no) = (want = no)
           /\ built.g.dir[s] # None /\ Fresh([sym |-> s], built.g) =>
                Value(v, built.g.dir[s]) =
                  Most({meant[i].dep : i \in {j \in DOMAIN meant :
                                               meant[j].sym = s /\ now[j].dep # None}})

(***************************************************************************)
(* An entry that became part of a symbol's submenu is not there unless the *)
(* symbol is on or at least shown; and only what can be entered has        *)
(* entries.  A symbol without a prompt takes what mentions it along with   *)
(* it (its prompt's condition counts as y): this holds as long as no such  *)
(* symbol is selected against its dependencies.                            *)
(***************************************************************************)
RECURSIVE Nested(_)
Nested(e) == {<<e, e.list[i]>> : i \in DOMAIN e.list}
             \cup UNION {Nested(e.list[i]) : i \in DOMAIN e.list}
SubmenusDepend ==
  stage = "read" =>
    \A p \in Nested(built.entry) :
      /\ p[1].prompt # <<>>
      /\ p[1].sym # "" =>
           \A v \in Valuations(source) :
             /\ Value(v, ConditionOf(p[2])) # no
             /\ \A e \in ToSet(p[1].list) :
                  e.prompt = <<>> /\ e.sym # "" => TriOf(v, e.sym) <= Value(v, e.dep)
             =>
               TriOf(v, p[1].sym) # no \/ Value(v, p[1].prompt[1]) # no

\* A dependency that is printed (in the help, in a .config's comments) reads as
\* what it is.
PrintedTrue ==
  stage = "read" =>
    LET now == EntriesOf(built.entry.list) IN
    \A i \in DOMAIN now : \A v \in Valuations(source) :
      Value(v, Reparsed(now[i].dep)) = Value(v, now[i].dep)

(***************************************************************************)
(* If the value of a symbol depends on itself, through what is shown, what *)
(* selects it or its defaults, this is reported, whichever symbol is       *)
(* looked at first; and what is reported is a way that leads back to where *)
(* it starts, from one symbol to one it names, to the choice it belongs to *)
(* or to a value of the choice.  (A choice may come twice in a row.)  But  *)
(* no symbol counts as an error, and the Config.in is taken.               *)
(***************************************************************************)
DependsOn(s) ==
  LET its == {e \in ToSet(EntriesOf(built.entry.list)) : e.sym = s}
      conds == UNION {{e.dep} \cup ToSet(e.prompt)
                      \cup {p.cond : p \in {q \in ToSet(e.props) : q.kind # "select"}}
                      \cup {p.value : p \in {q \in ToSet(e.props) :
                                              q.kind = "default" /\ s \notin ChoiceSyms}} :
                      e \in its}
  IN {t \in Syms : \E c \in {built.g.rev[s]} \cup conds : ContainsSym(c, t)}
RECURSIVE WithoutEnds(_, _)
\* What is left of some symbols when those that lead to none of them are taken away,
\* again and again: nothing, unless there is a way back.
WithoutEnds(deps, S) ==
  LET on == {s \in S : deps[s] \cap S # {}}
  IN IF on = S THEN S ELSE WithoutEnds(deps, on)
Member(s, c) == c \in ChoiceSyms /\ s \in ToSet(built.g.values[c])
CyclesFound ==
  stage \in {"checked", "exit"} =>
    LET deps == [s \in Syms |-> DependsOn(s)]
        Leads(s, t) == t \in deps[s] \/ Member(s, t) \/ Member(t, s)
                       \/ (s = t /\ s \in ChoiceSyms)
    IN /\ check.printed = {} => WithoutEnds(deps, Syms) = {}
       /\ \A way \in check.printed :
            /\ way # <<>>
            /\ \A i \in DOMAIN way : Leads(way[i], way[(i % Len(way)) + 1])
       /\ stage = "checked"
=============================================================================
