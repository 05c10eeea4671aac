--------------------------- MODULE KconfigSymbol ----------------------------
(***************************************************************************)
(* support/kconfig/symbol.c: what the symbols of a parsed Config.in are    *)
(* worth.  Values are worked out when they are asked for and kept until    *)
(* all are forgotten; the flags that steer this, and that tell what is     *)
(* written to a .config, are part of the state.  The state is one record,  *)
(* and a function that changes it is an operator that gives the new one.   *)
(***************************************************************************)
EXTENDS KconfigMenu

CONSTANTS
  Hash,       \* the symbols in the order of symbol_hash
  HexOf       \* a hexadecimal text with its 0x, for those without

VARIABLE tree \* what conf_parse() made of Config.in; nothing changes it

Nobody == "nobody"                                    \* no symbol

RECURSIVE Numbered(_, _, _)
\* The menus in the order of the tree, each with the number of its parent.
After(inside, e, list, above, from) ==
  <<[e EXCEPT !.list = above]>> \o inside
  \o Numbered(list, above, from + 1 + Len(inside))
Numbered(list, above, from) ==
  IF list = <<>> THEN <<>>
  ELSE After(Numbered(Head(list).list, from, from + 1), Head(list), Tail(list), above, from)
RootMenu == 1
\* The tree, with the menus and the properties of each symbol in their order.
Indexed(menus, g) ==
  LET Select(test(_)) == SelectSeq([k \in DOMAIN menus |-> k], test)
      Of(s) == Select(LAMBDA k : menus[k].sym = s)
      Props(s, kind) == FlattenSeq([k \in DOMAIN Of(s) |->
                          SelectSeq(menus[Of(s)[k]].props, LAMBDA p : p.kind = kind)])
  IN [menus |-> menus, of |-> [s \in Syms |-> Of(s)],
      kids |-> [i \in DOMAIN menus |-> Select(LAMBDA k : menus[k].list = i)],
      defaults |-> [s \in Syms |-> Props(s, "default")],
      ranges |-> [s \in Syms |-> Props(s, "range")], gathered |-> g]
Listed(root) == <<[root EXCEPT !.list = 0]>> \o Numbered(root.list, 1, 2)
TreeFrom(built) == Indexed(Listed(built.entry), built.g)
TreeOf(source) == TreeFrom(Built(source))

Menus == tree.menus
Parent(i) == Menus[i].list
Kids(i) == tree.kids[i]
MenusOf(s) == tree.of[s]
Defined(s) == s \in Syms /\ MenusOf(s) # <<>>
IsChoice(s) == s \in ChoiceSyms
ValuesOf(c) == tree.gathered.values[c]
IsValue(s) == \E c \in ChoiceSyms : s \in ToSet(ValuesOf(c))
ChoiceOf(s) == CHOOSE c \in ChoiceSyms : s \in ToSet(ValuesOf(c))
IsText(s) == Type[s] \in {"int", "hex", "string"}
\* def.val of a text may be NULL, which printf() shows like this.
NoText == "(null)"
NoValues == [s \in Syms |-> IF IsText(s) THEN NoText ELSE "n"]
\* The start of a process.
Fresh0 ==
  [cur   |-> [s \in Syms |-> IF IsText(s) THEN "" ELSE IF Logical(s) THEN "n" ELSE s],
   chosen |-> [c \in ChoiceSyms |-> Nobody],           \* curr.val of a choice
   user  |-> {},                                       \* SYMBOL_DEF_USER
   def   |-> NoValues,
   pick  |-> [c \in ChoiceSyms |-> Nobody],            \* def.val of a choice
   valid |-> {}, write |-> {}, need |-> {},
   shown |-> [i \in DOMAIN Menus |-> no],              \* prompt->visible.tri
   vis   |-> [s \in Syms |-> no], dir |-> [s \in Syms |-> no],
   rev   |-> [s \in Syms |-> no], imp |-> [s \in Syms |-> no],
   mods  |-> no, dirty |-> FALSE,
   dead |-> FALSE,     \* a text that is NULL was read, which ends the program
   lapsed |-> {}]      \* kept for the properties: those that were worked out with what the
                       \* user gave or not, where that has changed and nothing was forgotten

-----------------------------------------------------------------------------
\* sym_get_type()
TypeNow(S, s) ==
  IF Type[s] = "tristate" /\ ((IsValue(s) /\ S.vis[s] = yes) \/ S.mods = no)
  THEN "bool" ELSE Type[s]
AsBool(S, s, tri) == IF tri = mod /\ TypeNow(S, s) = "bool" THEN yes ELSE tri
Tri(S, s) == TriOf(S.cur, s)
\* strtoll(), which is 0 for what is no number.
NumberOf(type, text) == IF text \in DOMAIN Number[type] THEN Number[type][text] ELSE 0
TextFor(type, n) ==
  CHOOSE t \in DOMAIN Number[type] :
    Number[type][t] = n /\ (type = "hex" => t \notin DOMAIN HexOf)

RECURSIVE SymsIn(_)
SymsIn(e) ==
  CASE e.t = "none" -> <<>>
    [] e.t = "sym"  -> <<e.s>>
    [] e.t = "not"  -> SymsIn(e.l)
    [] e.t \in Junctions -> SymsIn(e.l) \o SymsIn(e.r)
    [] OTHER -> <<e.a, e.b>>

(***************************************************************************)
(* What asks for a value works it out first, so it gives the new state and *)
(* what was asked for: a record [S, is], which the next operator takes.    *)
(***************************************************************************)
TheOne(set) == CHOOSE x \in set : TRUE
RECURSIVE Calc(_, _), CalcAll(_, _), FirstOf(_, _), Prompts(_, _, _), Visibility(_, _)
\* What is looked into must not be NULL.
Dies(S, dead) == IF dead THEN [S EXCEPT !.dead = TRUE] ELSE S
RECURSIVE LooksInto(_, _)
LooksInto(S, e) == CASE e.t \in {"none", "sym"} -> FALSE
                     [] e.t = "not" -> LooksInto(S, e.l)
                     [] e.t \in Junctions -> LooksInto(S, e.l) \/ LooksInto(S, e.r)
                     [] OTHER -> NoText \in {S.cur[e.a], S.cur[e.b]}
\* Every symbol of an expression is worked out before its value is.
Meant(S, e) == [S |-> Dies(S, LooksInto(S, e)), is |-> Value(S.cur, e)]
CalcAll(S, symbols) ==
  IF symbols = <<>> THEN S ELSE CalcAll(Calc(S, Head(symbols)), Tail(symbols))
Tested(S, e) == Meant(CalcAll(S, SymsIn(e)), e)

\* The first property whose condition is not n, if any.
FirstOr(c, props) == IF c.is = no THEN FirstOf(c.S, Tail(props))
                     ELSE [S |-> c.S, prop |-> <<Head(props)>>, is |-> c.is]
FirstOf(S, props) == IF props = <<>> THEN [S |-> S, prop |-> <<>>, is |-> no]
                     ELSE FirstOr(Tested(S, Head(props).cond), props)
DefaultOf(S, s) == FirstOf(S, tree.defaults[s])
RangeOf(S, s) == FirstOf(S, tree.ranges[s])

\* The prompts of a symbol: a value at m is hidden while the choice is y.
PromptIs(c, s) == IF /\ IsValue(s) /\ Type[s] = "tristate" /\ c.is = mod
                     /\ Tri(c.S, ChoiceOf(s)) = yes THEN no ELSE c.is
PromptAnd(c, s, menus) ==
  [Prompts([c.S EXCEPT !.shown[Head(menus)] = PromptIs(c, s)], s, Tail(menus))
     EXCEPT !.is = Or(@, PromptIs(c, s))]
Prompts(S, s, menus) ==
  IF menus = <<>> THEN [S |-> S, is |-> no]
  ELSE IF Menus[Head(menus)].prompt = <<>> THEN Prompts(S, s, Tail(menus))
  ELSE PromptAnd(Tested(S, Menus[Head(menus)].prompt[1]), s, menus)

\* sym_calc_visibility(): prompts, and what depends, selects and implies.
WithVisible(p, s) ==
  [p.S EXCEPT !.vis[s] = IF p.is = mod /\ (Type[s] # "tristate" \/ p.S.mods = no)
                         THEN yes ELSE p.is]
\* What is not there counts as y for dir, as n for the others; imp only counts with dir.
Gathered(S, s, kind) ==
  IF kind = "imp" /\ S.dir[s] = no THEN None ELSE tree.gathered[kind][s]
WithGathered(c, s, kind, e) ==
  [c.S EXCEPT ![kind] = [@ EXCEPT ![s] = IF e = None /\ kind # "dir" THEN no
                                         ELSE AsBool(c.S, s, c.is)]]
RECURSIVE Depends(_, _, _)
Depends(S, s, kinds) ==
  IF kinds = <<>> THEN S
  ELSE Depends(WithGathered(Tested(S, Gathered(S, s, Head(kinds))), s, Head(kinds),
                            Gathered(S, s, Head(kinds))), s, Tail(kinds))
Visibility(S, s) ==
  Depends(WithVisible(Prompts(S, s, MenusOf(s)), s), s,
          IF IsValue(s) THEN <<>> ELSE <<"dir", "rev", "imp">>)

\* sym_choice_default(): a default that is visible, or the first visible value.
RECURSIVE VisibleDefault(_, _)
DefaultOr(f, props) ==
  IF f.prop = <<>> THEN [S |-> f.S, sym |-> Nobody]
  ELSE IF f.S.vis[f.prop[1].value.s] # no THEN [S |-> f.S, sym |-> f.prop[1].value.s]
  ELSE VisibleDefault(f.S, SubSeq(props, IndexOf(props, f.prop[1]) + 1, Len(props)))
VisibleDefault(S, props) == DefaultOr(FirstOf(S, props), props)
OrFirst(d, c) ==
  LET seen == SelectSeq(ValuesOf(c), LAMBDA s : d.S.vis[s] # no)
  IN IF d.sym # Nobody \/ seen = <<>> THEN d ELSE [d EXCEPT !.sym = Head(seen)]
ChoiceDefault(S, c) == OrFirst(VisibleDefault(S, tree.defaults[c]), c)

\* sym_calc_choice(): the user's pick if it is visible; the choice is new as long
\* as one of its visible values is.
NewWith(S, c) ==
  IF \A s \in ToSet(ValuesOf(c)) : S.vis[s] # no => s \in S.user THEN S
  ELSE [S EXCEPT !.user = @ \ {c}, !.lapsed = @ \cup (IF S.rev[c] = yes THEN {} ELSE {c} \cap S.user)]
ChosenIs(d, c) == [d.S EXCEPT !.chosen[c] = d.sym,
                              !.cur[c] = IF d.sym = Nobody THEN "n" ELSE @]
PickOr(S, c) == IF S.pick[c] # Nobody /\ S.vis[S.pick[c]] # no
                THEN [S EXCEPT !.chosen[c] = S.pick[c]]
                ELSE ChosenIs(ChoiceDefault(S, c), c)
RECURSIVE VisibilityOf(_, _)
VisibilityOf(S, symbols) ==
  IF symbols = <<>> THEN S ELSE VisibilityOf(Visibility(S, Head(symbols)), Tail(symbols))
CalcChoice(S, c) == PickOr(NewWith(VisibilityOf(S, ValuesOf(c)), c), c)
\* set_all_choice_values(): values without one of the user's are n.
SetAllValues(S, c) ==
  [S EXCEPT !.def = [s \in Syms |-> IF s \in ToSet(ValuesOf(c)) \ S.user THEN "n" ELSE @[s]],
            !.user = @ \cup {c}, !.valid = @ \ {c}, !.need = @ \ {c}]

\* The value of a bool or tristate: the user's if there is one and it can be
\* seen, or a default and what implies it; and at least what selects it.
Asked(S, s) == S.vis[s] # no /\ s \in S.user
Selected(S, s) == IF S.rev[s] # no THEN [S EXCEPT !.write = @ \cup {s}] ELSE S
AtMost(v, tri) == [v EXCEPT !.is = And(@, tri)]
ByDefault(f) == IF f.prop = <<>> THEN [S |-> f.S, is |-> no]
                ELSE AtMost(Tested(f.S, f.prop[1].value), f.is)
OrImplied(v, s) ==
  [S |-> [v.S EXCEPT !.write = IF v.is # no \/ v.S.imp[s] # no THEN @ \cup {s} ELSE @],
   is |-> Or(v.is, v.S.imp[s])]
Unasked(S, s) == IF IsChoice(s) THEN [S |-> S, is |-> no]
                 ELSE OrImplied(ByDefault(DefaultOf(S, s)), s)
Worth(v, s) ==
  LET tri == Or(v.is, v.S.rev[s]) IN
  [v.S EXCEPT !.cur[s] =
     Text(IF tri = mod /\ (TypeNow(v.S, s) = "bool" \/ v.S.imp[s] = yes) THEN yes ELSE tri)]
CalcLogical(S, s) ==
  Worth(IF Asked(S, s) THEN [S |-> S, is |-> And(TriOf(S.def, s), S.vis[s])]
        ELSE Unasked(Selected(S, s), s), s)
CalcValueOf(S, s) ==
  [S EXCEPT !.cur[s] = IF S.chosen[ChoiceOf(s)] = s THEN "y" ELSE "n"]
Copied(S, s, t) == [S EXCEPT !.cur[s] = S.cur[t]]
TextByDefault(f, s) ==
  IF f.prop = <<>> THEN f.S
  ELSE Copied(Calc([f.S EXCEPT !.write = @ \cup {s}], f.prop[1].value.s), s,
              f.prop[1].value.s)
CalcText(S, s) == IF Asked(S, s) THEN [S EXCEPT !.cur[s] = S.def[s]]
                  ELSE TextByDefault(DefaultOf(S, s), s)

\* Whether a number is within the range, first looking at its lower end; and if it is
\* not, which end it is beyond.
RECURSIVE Within(_, _, _, _, _)
Limit(S, s, t) == NumberOf(Type[s], S.cur[t])
Beyond(n, limit, k) == IF k = 1 THEN n < limit ELSE n > limit
WithinLimit(S, s, n, range, k) ==
  IF Beyond(n, Limit(S, s, range[k]), k) THEN [ok |-> FALSE, S |-> S, at |-> range[k]]
  ELSE IF k = 1 THEN Within(S, s, n, range, 2)
  ELSE [ok |-> TRUE, S |-> S, at |-> s]
LimitWorth(S, t) == Dies(S, S.cur[t] = NoText)
Within(S, s, n, range, k) ==
  WithinLimit(LimitWorth(Calc(S, range[k]), range[k]), s, n, range, k)
WithinRange(f, s, n) == IF f.prop = <<>> THEN [ok |-> TRUE, S |-> f.S, at |-> s]
                        ELSE Within(f.S, s, n, f.prop[1].value, 1)
\* sym_validate_range()
Clamped(w, s) == IF w.ok THEN w.S
                 ELSE [w.S EXCEPT !.cur[s] = TextFor(Type[s], Limit(w.S, s, w.at))]
OwnText(f, s) == [f EXCEPT !.S = Dies(@, f.prop # <<>> /\ @.cur[s] = NoText)]
Ranged(S, s) ==
  IF Type[s] \in {"int", "hex"}
  THEN Clamped(WithinRange(OwnText(RangeOf(S, s), s), s, Limit(S, s, s)), s) ELSE S

\* sym_calc_value()
AfterItsChoice(S, s) == IF IsValue(s) /\ s \in S.need
                        THEN Calc([S EXCEPT !.need = @ \ {s}], ChoiceOf(s)) ELSE S
Begun(S, s) == [S EXCEPT !.write = IF S.vis[s] # no THEN @ \cup {s} ELSE @,
                         !.cur[s] = IF IsText(s) THEN "" ELSE "n",
                         !.chosen = [c \in ChoiceSyms |-> IF c = s THEN Nobody ELSE @[c]]]
Begin(S, s) ==
  Begun(Visibility([S EXCEPT !.valid = @ \cup {s}, !.write = @ \ {s}], s), s)
Valued(S, s) == IF IsText(s) THEN CalcText(S, s)
                ELSE IF IsValue(s) /\ S.vis[s] = yes THEN CalcValueOf(S, s)
                ELSE CalcLogical(S, s)
WithChosen(S, s) == IF ~IsChoice(s) THEN S
                    ELSE IF S.cur[s] = "y" THEN CalcChoice(S, s) ELSE S
ForOthers(S, s) ==
  [S EXCEPT !.mods = IF s = Modules THEN Tri(S, s) ELSE @,
            !.write = IF IsChoice(s) /\ s \in S.write
                      THEN @ \cup {t \in ToSet(ValuesOf(s)) : S.vis[t] # no} ELSE @]
NeedsSet(S, s) == IF s \in S.need THEN SetAllValues(S, s) ELSE S
Finished(S, s) == NeedsSet(ForOthers(Ranged(WithChosen(S, s), s), s), s)
Calc(S, s) ==
  IF s \in S.valid THEN S
  ELSE IF Type[s] = "unknown" THEN [S EXCEPT !.valid = @ \cup {s}, !.cur[s] = s]
  ELSE TheOne({Finished(V, s) : V \in {Valued(Begin(AfterItsChoice(S, s), s), s)}})

-----------------------------------------------------------------------------
\* Mutant: what was worked out stays.
ClearNone(S) == Calc([S EXCEPT !.dirty = TRUE, !.lapsed = {}], Modules)
\* sym_clear_all_valid()
ClearAllValid(S) ==
  Calc([S EXCEPT !.valid = {}, !.dirty = TRUE, !.lapsed = {}], Modules)

IsChangable(S, s) == S.vis[s] > S.rev[s]
\* sym_tristate_within_range()
TriWithin(S, s, val) ==
  /\ S.vis[s] # no /\ Logical(s)
  /\ ~(TypeNow(S, s) = "bool" /\ val = mod)
  /\ S.vis[s] > S.rev[s]
  /\ ~(S.imp[s] = yes /\ val = mod)
  /\ IF IsValue(s) /\ S.vis[s] = yes THEN val = yes
     ELSE val \in S.rev[s] .. S.vis[s]

\* sym_set_tristate_value(): a set is accepted or not, and what it does.
Refused(S) == [ok |-> FALSE, S |-> S]
Accepted(S) == [ok |-> TRUE, S |-> S]
WithPick(S, s) ==
  [S EXCEPT !.pick[ChoiceOf(s)] = s,
            !.user = @ \cup {ChoiceOf(s)} \cup {t \in ToSet(ValuesOf(ChoiceOf(s))) : S.vis[t] # no}]
Keeps(S, s, text) == [S EXCEPT !.user = @ \cup {s}, !.def[s] = text]
\* Mutant: a value of a choice is not picked.
GivenAlone(S, s, val) == Keeps(S, s, Text(val))
GivenTri(S, s, val) == IF IsValue(s) /\ val = yes THEN WithPick(Keeps(S, s, Text(val)), s)
                       ELSE Keeps(S, s, Text(val))
SetTri(S, s, val) ==
  IF Tri(S, s) = val THEN Accepted(GivenTri(S, s, val))
  ELSE IF ~TriWithin(S, s, val) THEN Refused(S)
  ELSE Accepted(ClearAllValid(GivenTri(S, s, val)))

\* sym_toggle_tristate_value(): the next value that is accepted.  A text counts as n
\* and stays so: it is the user's from then on, with the text that he gave, if any, and
\* what was worked out is kept.
RECURSIVE ToggleFrom(_, _, _)
ToggleOr(r, s, next) ==
  IF r.ok \/ next = Tri(r.S, s) THEN r.S ELSE ToggleFrom(r.S, s, (next + 1) % 3)
ToggleFrom(S, s, next) == ToggleOr(SetTri(S, s, next), s, next)
Marked(S, s) == [S EXCEPT !.user = @ \cup {s}, !.lapsed = @ \cup ({s} \ S.user)]
Toggled(S, s) == IF IsText(s) THEN Marked(S, s) ELSE ToggleFrom(S, s, (Tri(S, s) + 1) % 3)

\* sym_string_valid() and sym_string_within_range()
TextValid(s, text) == Type[s] = "string" \/ text \in DOMAIN Number[Type[s]]
TextWithin(S, s, text) ==
  IF ~TextValid(s, text) THEN Refused(S)
  ELSE IF Type[s] = "string" THEN Accepted(S)
  ELSE WithinRange(RangeOf(S, s), s, NumberOf(Type[s], text))

\* sym_set_string_value() for what is not logical.
BareHex(s, text) == Type[s] = "hex" /\ text \in DOMAIN HexOf
GivenText(w, s, text) ==
  IF ~w.ok THEN w
  ELSE IF w.S.def[s] = text /\ ~BareHex(s, text)
  THEN Accepted([w.S EXCEPT !.user = @ \cup {s}])
  ELSE Accepted(ClearAllValid(Keeps(w.S, s, IF BareHex(s, text) THEN HexOf[text] ELSE text)))
SetText(S, s, text) == GivenText(TextWithin(S, s, text), s, text)

\* sym_get_string_value()
Shown(S, s) == StringOf(S.cur, s)
\* sym_get_string_default()
TriDefault(v, s) ==
  LET tri == Or(v.is, v.S.rev[s])
      whole == IF tri = mod /\ ((~IsValue(s) /\ Tri(v.S, Modules) = no) \/ Type[s] = "bool")
               THEN yes ELSE tri
  IN [S |-> v.S, is |-> Text(Or(whole, v.S.imp[s]))]
Reads(S, t) == [S |-> S, is |-> S.cur[t]]
DefaultText(f, s) ==
  IF Logical(s) THEN TriDefault(ByDefault(f), s)
  ELSE IF f.prop = <<>> THEN [S |-> f.S, is |-> ""]
  ELSE Reads(Calc(f.S, f.prop[1].value.s), f.prop[1].value.s)
TextDefault(S, s) == DefaultText(DefaultOf(Calc(Visibility(S, s), Modules), s), s)

-----------------------------------------------------------------------------
\* menu_is_visible(): an entry whose prompt is hidden but whose submenu is not
\* counts as set by the user from then on.
RECURSIVE MenuVisible(_, _), AnyVisible(_, _)
OrAny(r, kids) == IF r.ok THEN r ELSE AnyVisible(r.S, kids)
AnyVisible(S, kids) ==
  IF kids = <<>> THEN Refused(S) ELSE OrAny(MenuVisible(S, Head(kids)), Tail(kids))
MenuShown(p, i) == [p.S EXCEPT !.shown[i] = p.is]
Prompted(S, i) == IF Menus[i].sym # "" THEN S ELSE MenuShown(Meant(S, Menus[i].prompt[1]), i)
ByPrompt(S, i) ==
  Prompted(CalcAll(S, IF Menus[i].sym # "" THEN <<Menus[i].sym>>
                      ELSE SymsIn(Menus[i].prompt[1])), i)
ForInside(r, s) == IF r.ok THEN Accepted([r.S EXCEPT !.user = @ \cup {s}]) ELSE r
OrInside(S, i) ==
  IF S.shown[i] # no THEN Accepted(S)
  ELSE IF Menus[i].sym = "" THEN Refused(S)
  ELSE IF Tri(S, Menus[i].sym) = no THEN Refused(S)
  ELSE ForInside(AnyVisible(S, Kids(i)), Menus[i].sym)
IfVisible(g, i) == IF g.is = no THEN Refused(g.S) ELSE OrInside(ByPrompt(g.S, i), i)
MenuVisible(S, i) == IF Menus[i].prompt = <<>> THEN Refused(S)
                     ELSE IfVisible(Tested(S, Menus[i].visibility), i)
=============================================================================
