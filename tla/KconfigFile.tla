---------------------------- MODULE KconfigFile -----------------------------
(***************************************************************************)
(* support/kconfig/confdata.c: reading a .config and working out what is   *)
(* written.  A file is the sequence of its lines <<symbol, value>>; the    *)
(* comment `# X is not set' is the value n.  A name nobody defines may be  *)
(* among them.                                                             *)
(***************************************************************************)
EXTENDS KconfigSymbol

\* The user's values, or those of the last auto.conf: which there are, and what.
Slot == [has |-> {}, val |-> NoValues, pick |-> [c \in ChoiceSyms |-> Nobody],
         warned |-> FALSE, unknown |-> FALSE]

\* conf_set_sym_val()
ValidFor(s, val) == CASE Type[s] = "bool" -> val \in {"y", "n"}
                      [] Type[s] = "tristate" -> val \in {"y", "m", "n"}
                      [] OTHER -> TextValid(s, val)
\* A value of a choice sets the choice, which is one more of the file's values.
WithChoice(slot, s) ==
  LET c == ChoiceOf(s)
      old == TriOf(slot.val, c)
      tri == TriOf(slot.val, s)
      S1 == IF tri = mod /\ old = yes THEN [slot EXCEPT !.has = @ \ {c}, !.warned = TRUE]
            ELSE IF tri = yes
            THEN [slot EXCEPT !.pick[c] = s, !.warned = @ \/ old # no]
            ELSE slot
  IN [S1 EXCEPT !.val[c] = Text(Or(old, tri))]
\* One line.
WithLine(slot, l) ==
  LET s == l[1]
      S1 == [slot EXCEPT !.warned = @ \/ s \in slot.has \/ ~ValidFor(s, l[2])]
      S2 == IF ValidFor(s, l[2]) THEN [S1 EXCEPT !.has = @ \cup {s}, !.val[s] = l[2]] ELSE S1
  IN IF ~Defined(s) THEN [slot EXCEPT !.unknown = TRUE]
     ELSE IF ValidFor(s, l[2]) /\ IsValue(s) THEN WithChoice(S2, s) ELSE S2
\* What conf_read_simple() makes of a file: choices count as set.
SlotOf(file) == FoldLeft(WithLine, [Slot EXCEPT !.has = ChoiceSyms], file)

\* Reading into the user's values, which makes all values invalid.
ReadSimple(S, file) ==
  LET slot == SlotOf(file) IN
  [S EXCEPT !.user = slot.has, !.def = slot.val, !.pick = slot.pick,
            !.valid = {}, !.lapsed = {}, !.dirty = @ \/ slot.unknown]

\* Whether a symbol's value is not the file's, or not in it.
Unsaved(S, s) ==
  /\ Type[s] # "unknown" /\ ~IsChoice(s)
  /\ IF s \in S.user /\ s \in S.write THEN S.cur[s] # S.def[s]
     ELSE s \in S.user \/ s \in S.write
\* conf_read(): the values that are generated count as new, until a difference to
\* the file was found; a text out of its range is reset.
DroppedText(w, s, unsaved) ==
  IF w.ok THEN [S |-> w.S, unsaved |-> unsaved]
  ELSE [S |-> [w.S EXCEPT !.valid = @ \ {s}, !.user = @ \ {s}, !.lapsed = @ \cup {s}],
        unsaved |-> TRUE]
ResetOne(acc, s) ==
  LET S == IF acc.S.vis[s] = no /\ ~acc.unsaved
           THEN [acc.S EXCEPT !.user = @ \ {s}] ELSE acc.S
  IN IF s \notin acc.S.user \/ IsValue(s) THEN acc
     ELSE IF ~IsText(s) THEN [acc EXCEPT !.S = S]
     ELSE DroppedText(TextWithin(S, s, S.def[s]), s, acc.unsaved)
Compared(S, s, unsaved) == [S |-> S, unsaved |-> unsaved \/ Unsaved(S, s)]
CompareOne(acc, s) == Compared(Calc(acc.S, s), s, acc.unsaved)
RECURSIVE CompareAll(_, _), ResetAll(_, _)
CompareAll(acc, symbols) ==
  IF symbols = <<>> THEN acc ELSE CompareAll(CompareOne(acc, Head(symbols)), Tail(symbols))
ResetAll(acc, symbols) ==
  IF symbols = <<>> THEN acc ELSE ResetAll(ResetOne(acc, Head(symbols)), Tail(symbols))
ReadDone(acc, file) ==
  [acc.S EXCEPT !.dirty = @ \/ acc.unsaved \/ SlotOf(file).warned]
ConfRead(S, file) ==
  ReadDone(
    ResetAll(CompareAll([S |-> Calc(ReadSimple([S EXCEPT !.dirty = FALSE], file), Modules),
                         unsaved |-> FALSE], Hash), Hash), file)
\* Without a file.
ConfReadNothing(S) == Calc([S EXCEPT !.dirty = TRUE], Modules)

-----------------------------------------------------------------------------
(***************************************************************************)
(* What is written.  Each symbol that counts is written once, where the    *)
(* menus have it first; that it was written is noted in its flag.          *)
(***************************************************************************)
MenuOrder == Tail([i \in DOMAIN Menus |-> i])
Line(S, s) == <<s, Shown(S, s)>>
Escapes(S, s) == Dies(S, Type[s] = "string" /\ S.cur[s] = NoText)
Written(S, s, out) ==
  IF s \in S.write
  THEN [S |-> [Escapes(S, s) EXCEPT !.write = @ \ {s}], out |-> Append(out, Line(S, s))]
  ELSE [S |-> S, out |-> out]
WriteEntry(acc, i) ==
  LET s == Menus[i].sym IN
  IF s = "" THEN [acc EXCEPT !.S = MenuVisible(@, i).S]
  ELSE IF IsChoice(s) THEN acc ELSE Written(Calc(acc.S, s), s, acc.out)
RECURSIVE WriteAll(_, _)
WriteAll(acc, menus) ==
  IF menus = <<>> THEN acc ELSE WriteAll(WriteEntry(acc, Head(menus)), Tail(menus))
\* conf_write() up to the closing of the file.
Write(S) ==
  WriteAll([S |-> IF S.dirty THEN S ELSE ClearAllValid(S), out |-> <<>>], MenuOrder)

\* conf_write_defconfig(): only what is not what it would be anyhow.
\* Mutant: any value that is y.
ByAnyChoice(d, s, out) ==
  LET asDefault == Type[s] = "bool" /\ d.S.cur[s] = "y"
  IN [S |-> d.S, out |-> IF asDefault THEN out ELSE Append(out, Line(d.S, s))]
ByChoiceDefault(d, s, out) ==
  LET asDefault == /\ ChoiceOf(s) \notin Optional /\ d.sym = s
                   /\ Type[s] = "bool" /\ d.S.cur[s] = "y"
  IN [S |-> d.S, out |-> IF asDefault THEN out ELSE Append(out, Line(d.S, s))]
IfNotDefault(t, s, out) ==
  IF Shown(t.S, s) = t.is THEN [S |-> t.S, out |-> out]
  ELSE IF IsValue(s) THEN ByChoiceDefault(ChoiceDefault(t.S, ChoiceOf(s)), s, out)
  ELSE [S |-> t.S, out |-> Append(out, Line(t.S, s))]
IfChangable(S, s, out) == IF IsChangable(S, s) THEN IfNotDefault(TextDefault(S, s), s, out)
                          ELSE [S |-> S, out |-> out]
IfWritten(S, s, out) == IF s \in S.write THEN IfChangable([S EXCEPT !.write = @ \ {s}], s, out)
                        ELSE [S |-> S, out |-> out]
DefEntry(acc, i) ==
  LET s == Menus[i].sym IN
  IF s = "" THEN [acc EXCEPT !.S = MenuVisible(@, i).S]
  ELSE IF IsChoice(s) THEN acc ELSE IfWritten(Calc(acc.S, s), s, acc.out)
RECURSIVE DefEntries(_, _)
DefEntries(acc, menus) ==
  IF menus = <<>> THEN acc ELSE DefEntries(DefEntry(acc, Head(menus)), Tail(menus))
WriteDefconfig(S) == DefEntries([S |-> ClearAllValid(S), out |-> <<>>], MenuOrder)

\* Mutant: what is not written any more keeps its header.
TouchedIfWritten(S, old, s) ==
  /\ Type[s] # "unknown" /\ ~IsChoice(s) /\ s \in S.write
  /\ IF s \in old.has THEN S.cur[s] # old.val[s] ELSE ~Logical(s) \/ S.cur[s] # "n"
\* conf_split_config(): the symbols whose own header is touched, because their
\* value is not that of the last auto.conf, where an n is not written.
TouchedHeader(S, old, s) ==
  /\ Type[s] # "unknown" /\ ~IsChoice(s)
  /\ IF s \in S.write
     THEN IF s \in old.has THEN S.cur[s] # old.val[s]
          ELSE ~Logical(s) \/ S.cur[s] # "n"
     ELSE s \in old.has
\* Reading auto.conf makes the values invalid, and all are worked out again.  A
\* name of auto.conf that nobody defines any more is looked up like a symbol.
Compare(S, auto) ==
  LET old == SlotOf(auto)
      vanished == {s \in {l[1] : l \in ToSet(auto)} : ~Defined(s)}
  IN [S |-> S, touched |-> vanished \cup {s \in Syms : Defined(s) /\ TouchedHeader(S, old, s)}]
SplitConfig(S, auto) ==
  Compare(CalcAll(Calc([S EXCEPT !.valid = {}], Modules), Hash), auto)
\* auto.conf; autoconf.h and tristate.conf are written with it, from the same.
LinesIn(S) ==
  LET kept == SelectSeq(Hash, LAMBDA s : /\ s \in S.write /\ ~IsChoice(s)
                                         /\ ~(Logical(s) /\ Shown(S, s) = "n"))
  IN [S |-> S, out |-> [k \in DOMAIN kept |-> Line(S, kept[k])]]
AutoLines(S) == LinesIn(CalcAll(S, Hash))

-----------------------------------------------------------------------------
\* conf_set_all_new_symbols(): what a mode gives a symbol without a value.
ModeText == [def_yes |-> "y", def_mod |-> "m", def_no |-> "n"]
NewLogicals(S) == {s \in Syms : Defined(s) /\ Logical(s) /\ s \notin S.user \cup S.valid}
WithMode(S, mode) ==
  IF mode = "def_default" THEN S
  ELSE [S EXCEPT !.def = [s \in Syms |-> IF s \in NewLogicals(S) THEN ModeText[mode] ELSE @[s]],
                 !.user = @ \cup NewLogicals(S)]
WithNeeds(S) ==
  [S EXCEPT !.need = @ \cup {s \in Syms : \/ IsChoice(s) /\ s \notin S.user
                                          \/ IsValue(s)}]
SetNewChoice(S, c) == IF ~IsChoice(c) \/ c \in S.user THEN S ELSE SetAllValues(Calc(S, c), c)
RECURSIVE SetNewChoices(_, _)
SetNewChoices(S, symbols) ==
  IF symbols = <<>> THEN S ELSE SetNewChoices(SetNewChoice(S, Head(symbols)), Tail(symbols))
SetAllNew(S, mode) == SetNewChoices(WithNeeds(ClearAllValid(WithMode(S, mode))), Hash)

\* The same with dice, which name a value for a choice.  Choices stay new, and
\* the last of them says whether anything changed.
RandomChoice(S, c, s) ==
  [S EXCEPT !.def = [t \in Syms |-> IF t \in ToSet(ValuesOf(c))
                                    THEN IF t = s THEN "y" ELSE "n" ELSE @[t]],
            !.pick[c] = s,
            !.user = @ \cup {c} \cup ToSet(ValuesOf(c)),
            !.valid = @ \ ({c} \cup ToSet(ValuesOf(c)))]
WithDice(S, dice) ==
  [S EXCEPT !.def = [s \in Syms |-> IF s \notin NewLogicals(S) THEN @[s]
                                    ELSE IF IsChoice(s) THEN "n" ELSE dice[s]],
            !.user = @ \cup {s \in NewLogicals(S) : ~IsChoice(s)}]
Drawn(S, c, dice) == IF S.cur[c] = "y" THEN [S |-> RandomChoice(S, c, dice[c]), more |-> TRUE]
                     ELSE [S |-> S, more |-> FALSE]
DrawOne(acc, c, dice) == IF ~IsChoice(c) \/ c \in acc.S.user THEN acc
                         ELSE Drawn(Calc(acc.S, c), c, dice)
RECURSIVE DrawAll(_, _, _)
DrawAll(acc, symbols, dice) ==
  IF symbols = <<>> THEN acc
  ELSE DrawAll(DrawOne(acc, Head(symbols), dice), Tail(symbols), dice)
SetAllRandom(S, dice) ==
  DrawAll([S |-> ClearAllValid(WithDice(S, dice)), more |-> NewLogicals(S) # {}], Hash, dice)
=============================================================================
