--------------------------- MODULE KconfigSession ---------------------------
(***************************************************************************)
(* Configuring: support/kconfig/conf.c in its modes and the menus of       *)
(* mconf.c and nconf.c, run one after the other on the files that they     *)
(* leave.  `sym' is what the running program knows of the symbols, `todo'  *)
(* what conf has still to ask, as a list of calls, the next one first.     *)
(***************************************************************************)
EXTENDS KconfigFile

CONSTANTS
  Setups,        \* a Config.in, and the .config, defconfig and auto.conf there are
  Texts,         \* what a user may type for a text
  Dice,          \* the outcomes of rand()
  MaxStarts,     \* programs run one after the other
  MaxEdits       \* answers other than Enter, and changes in the menus

VARIABLES
  sym,           \* the symbols, or nothing while no program runs
  file,          \* the files
  proc,          \* the program: its mode and where it is
  todo,          \* calls of check_conf() and conf() that are left
  touched,       \* headers touched since auto.conf was replaced
  bound          \* starts and edits so far
vars == <<tree, sym, file, proc, todo, touched, bound>>

Absent == <<<<"absent", "">>>>
Files == {"config", "old", "def", "def.old", "tmp", "auto", "header", "tristate", "autotmp"}
OldOf == [config |-> "old", def |-> "def.old"]
\* `name' is the file to write, `asked' is conf_cnt or save_and_exit,
\* `open' the choice whose values mconf or nconf shows.
Off == [mode |-> "none", at |-> "off", root |-> 1, open |-> 0, asked |-> FALSE,
        name |-> "config"]
Logicals == {s \in Syms : Logical(s)}

Init ==
  /\ \E given \in Setups :
       /\ tree = TreeOf(given.source)
       /\ file = [f \in Files |-> CASE f \in {"config", "def", "auto"} -> given[f]
                                    [] f \in {"header", "tristate"} -> given.auto
                                    [] OTHER -> Absent]
  /\ sym = Fresh0 /\ proc = Off /\ todo = <<>> /\ touched = {}
  /\ bound = [starts |-> 0, edits |-> 0]

\* exit(), or the end: nothing is left but the files.
Exits == sym' = Fresh0 /\ proc' = Off /\ todo' = <<>>
Goes(S, at) == sym' = S /\ proc' = [proc EXCEPT !.at = at] /\ UNCHANGED todo
Edit == bound' = [bound EXCEPT !.edits = @ + 1] /\ bound.edits < MaxEdits
FilesKept == UNCHANGED <<tree, file, touched>>

-----------------------------------------------------------------------------
(***************************************************************************)
(* main() up to the questions.                                             *)
(***************************************************************************)
Reading == {"oldaskconfig", "oldconfig", "syncconfig", "listnewconfig",
            "olddefconfig", "savedefconfig"}
Setting == [allnoconfig |-> "def_no", allyesconfig |-> "def_yes",
            allmodconfig |-> "def_mod", alldefconfig |-> "def_default",
            defconfig |-> "def_default"]
AskingModes == {"oldaskconfig", "oldconfig", "syncconfig", "listnewconfig"}
Read(f) == IF file[f] = Absent THEN ConfReadNothing(Fresh0) ELSE ConfRead(Fresh0, file[f])
\* KCONFIG_ALLCONFIG names a file to begin with, or there is none.
Seeds == {Fresh0} \cup (IF file["def"] = Absent THEN {}
                        ELSE {ReadSimple(Fresh0, file["def"])})
Screens == {"mconf", "nconf"}
BeginsWith(mode) ==
  IF mode \in Reading \cup Screens \cup {"defconfig"}
  THEN {Read(IF mode = "defconfig" THEN "def" ELSE "config")} ELSE Seeds
Loaded(mode) ==
  {IF mode \in DOMAIN Setting THEN SetAllNew(S, Setting[mode]) ELSE S : S \in BeginsWith(mode)}
Modes == Reading \cup DOMAIN Setting \cup {"randconfig"} \cup Screens
Startable == Modes \ ((IF file["def"] = Absent THEN {"defconfig"} ELSE {})
                      \cup (IF file["config"] = Absent THEN {"syncconfig"} ELSE {}))
Start ==
  /\ proc.at = "off" /\ bound.starts < MaxStarts
  /\ \E mode \in Startable :
       /\ sym' \in Loaded(mode)
       /\ proc' = [Off EXCEPT !.mode = mode,
                     !.at = CASE mode = "randconfig" -> "rolling"
                              [] mode \in Screens -> "menu"
                              [] mode \in AskingModes -> "asking" [] OTHER -> "save"]
       /\ todo' = IF mode = "oldaskconfig"
                  THEN <<<<"conf", RootMenu>>, <<"old", 0>>, <<"check", RootMenu>>, <<"again", 0>>>>
                  ELSE IF mode \in AskingModes
                  THEN <<<<"check", RootMenu>>, <<"again", 0>>>> ELSE <<>>
  /\ bound' = [bound EXCEPT !.starts = @ + 1]
  /\ FilesKept

\* randconfig: until nothing is new.
Roll ==
  /\ proc.at = "rolling"
  /\ \E dice \in Dice :
       LET r == SetAllRandom(sym, dice)
       IN Goes(r.S, IF r.more THEN "rolling" ELSE "save")
  /\ FilesKept /\ UNCHANGED bound

-----------------------------------------------------------------------------
(***************************************************************************)
(* Asking: check_conf() looks for what is new, conf() asks.                *)
(***************************************************************************)
Calls(what, menus) == [k \in DOMAIN menus |-> <<what, menus[k]>>]
Then(S, calls) == sym' = S /\ todo' = calls \o Tail(todo)
Turn(what) == proc.at = "asking" /\ todo # <<>> /\ todo[1][1] = what
Same == UNCHANGED proc /\ FilesKept /\ UNCHANGED bound

\* menu_get_parent_menu()
RECURSIVE ParentMenu(_)
ParentMenu(i) == IF i = RootMenu \/ (Menus[i].sym = "" /\ Menus[i].prompt # <<>>)
                 THEN i ELSE ParentMenu(Parent(i))

Checked(r, i) ==
  LET s == Menus[i].sym
      new == /\ s # "" /\ s \notin r.S.user
             /\ IsChangable(r.S, s) \/ (IsChoice(s) /\ r.S.cur[s] = "y")
      asks == r.ok /\ new /\ proc.mode # "listnewconfig"
      kids == Calls("check", Kids(i))
  IN /\ Then(r.S, IF ~r.ok THEN <<>>
                  ELSE IF asks THEN <<<<"conf", ParentMenu(i)>>>> \o kids ELSE kids)
     /\ proc' = IF asks THEN [proc EXCEPT !.asked = TRUE, !.root = ParentMenu(i)] ELSE proc
CheckConf ==
  /\ Turn("check") /\ Checked(MenuVisible(sym, todo[1][2]), todo[1][2])
  /\ FilesKept /\ UNCHANGED bound
\* Mutant: that something was asked is not forgotten.
AgainAlways ==
  /\ Turn("again")
  /\ Then(sym, IF proc.asked THEN <<<<"check", RootMenu>>, <<"again", 0>>>> ELSE <<>>)
  /\ proc' = [proc EXCEPT !.at = IF proc.asked THEN "asking" ELSE "save"]
  /\ FilesKept /\ UNCHANGED bound
\* Another round as long as something was asked.
Again ==
  /\ Turn("again")
  /\ Then(sym, IF proc.asked THEN <<<<"check", RootMenu>>, <<"again", 0>>>> ELSE <<>>)
  /\ proc' = [proc EXCEPT !.asked = FALSE, !.at = IF proc.asked THEN "asking" ELSE "save"]
  /\ FilesKept /\ UNCHANGED bound
BecomesOld == Turn("old") /\ Then(sym, <<>>) /\ proc' = [proc EXCEPT !.mode = "oldconfig"]
              /\ FilesKept /\ UNCHANGED bound

Confed(r, i) ==
  LET s == Menus[i].sym
      choice == <<<<"choice", i, IF s \in r.S.user THEN 0 ELSE 1>>>>
      calls == IF ~r.ok THEN <<>>
               ELSE IF s = ""
               THEN IF proc.mode # "oldaskconfig" /\ proc.root # i THEN <<<<"check", i>>>>
                    ELSE Calls("conf", Kids(i))
               ELSE IF IsChoice(s)
               THEN IF IsChangable(r.S, s) THEN <<<<"ask", i>>>> \o choice ELSE choice
               ELSE <<<<"ask", i>>>> \o Calls("conf", Kids(i))
  IN Then(r.S, calls)
Conf == Turn("conf") /\ Confed(MenuVisible(sym, todo[1][2]), todo[1][2]) /\ Same

\* conf_string() and conf_sym(): what is not new, or cannot be changed, is not
\* asked; an answer that is not accepted is asked for again.
Given(s, answer) == IF Logical(s) THEN SetTri(sym, s, TriOf([sym.cur EXCEPT ![s] = answer], s))
                    ELSE SetText(sym, s, answer)
Passes(s) == ~IsChangable(sym, s) \/ (proc.mode # "oldaskconfig" /\ s \in sym.user)
NotAsked ==
  /\ Turn("ask") /\ Passes(Menus[todo[1][2]].sym)
  /\ Then(sym, <<>>) /\ Same
EnterGives(s) == Given(s, IF Logical(s) THEN sym.cur[s] ELSE Shown(sym, s))
Takes(r) == r.ok /\ Then(r.S, <<>>)
Enter ==
  /\ Turn("ask")
  /\ LET s == Menus[todo[1][2]].sym IN ~Passes(s) /\ Takes(EnterGives(s))
  /\ Same
Answer ==
  /\ Turn("ask")
  /\ LET s == Menus[todo[1][2]].sym IN
     /\ ~Passes(s)
     /\ \E a \in IF Logical(s) THEN {"n", "m", "y"} ELSE Texts : Takes(Given(s, a))
  /\ Edit /\ UNCHANGED proc /\ FilesKept

\* conf_choice() after its own value: which one of the visible.
RECURSIVE Seen(_, _)
SeenThen(r, menu, kids) ==
  [Seen(r.S, kids) EXCEPT !.menus = IF r.ok /\ Menus[menu].sym # "" THEN <<menu>> \o @ ELSE @]
Seen(S, kids) == IF kids = <<>> THEN [S |-> S, menus |-> <<>>]
                 ELSE SeenThen(MenuVisible(S, Head(kids)), Head(kids), Tail(kids))
\* The choice of a menu: whether it is to be asked for, and what Enter takes.
Offers(seen, i, isNew) ==
  LET c == Menus[i].sym
      chosen == SelectSeq(seen.menus, LAMBDA k : Menus[k].sym = seen.S.chosen[c])
  IN [S |-> seen.S, i |-> i, is |-> seen.S.cur[c], menus |-> seen.menus,
      asks |-> Len(seen.menus) > 1 /\ (proc.mode = "oldaskconfig" \/ isNew = 1),
      default |-> IF Len(seen.menus) = 1 THEN seen.menus ELSE chosen]
OffersIn(S, i, isNew) ==
  Offers(Seen(S, IF S.cur[Menus[i].sym] = "y" THEN Kids(i) ELSE <<>>), i, isNew)
ChoiceOffered ==
  LET i == todo[1][2] IN OffersIn(Calc(sym, Menus[i].sym), i, todo[1][3])
Choose(a, menu) == Then(SetTri(a.S, Menus[menu].sym, yes).S, Calls("conf", Kids(menu)))
Chooses(a) == CASE a.is = "n" -> Then(a.S, <<>>)
                [] a.is = "m" -> Then(a.S, Calls("conf", Kids(a.i)))
                [] OTHER -> a.default # <<>> /\ Choose(a, Head(a.default))
ConfChoice == Turn("choice") /\ Chooses(ChoiceOffered) /\ Same
ChoosesOther(a) == a.asks /\ a.is = "y" /\ \E k \in DOMAIN a.menus : Choose(a, a.menus[k])
AnswerChoice ==
  /\ Turn("choice") /\ ChoosesOther(ChoiceOffered)
  /\ Edit /\ UNCHANGED proc /\ FilesKept

-----------------------------------------------------------------------------
(***************************************************************************)
(* Saving: the end of main(), conf_write() with its two renames, and       *)
(* conf_write_autoconf() with its three.                                   *)
(***************************************************************************)
Put(f, lines) == file' = [file EXCEPT ![f] = lines]
Moved(from, to) == file' = [file EXCEPT ![to] = file[from], ![from] = Absent]
\* What has a screen goes on, unless it was about to end.
Interactive == {"mconf", "nconf", "qconf", "gconf"}
AfterSave(S) ==
  IF proc.mode \in Interactive /\ ~proc.asked THEN Goes(S, "menu")
  ELSE IF proc.mode = "syncconfig" THEN Goes(S, "split") ELSE Exits

SaveDefconfig ==
  /\ proc.at = "save" /\ proc.mode = "savedefconfig"
  /\ Put("def", WriteDefconfig(sym).out) /\ Exits /\ UNCHANGED <<tree, touched, bound>>
NothingToSave ==
  /\ proc.at = "save"
  /\ \/ proc.mode = "listnewconfig" /\ Exits
     \/ proc.mode = "syncconfig" /\ ~sym.dirty /\ Goes(sym, "split")
  /\ FilesKept /\ UNCHANGED bound
\* KCONFIG_NOSILENTUPDATE
Refuses ==
  /\ proc.mode = "syncconfig" /\ proc.at = "asking" /\ sym.dirty
  /\ todo = <<<<"check", RootMenu>>, <<"again", 0>>>> /\ ~proc.asked
  /\ Exits /\ FilesKept /\ UNCHANGED bound
WriteTmp ==
  /\ proc.at = "save"
  /\ proc.mode \notin {"savedefconfig", "listnewconfig"}
  /\ proc.mode = "syncconfig" => sym.dirty
  /\ LET w == Write(sym) IN ~w.S.dead /\ Put("tmp", w.out) /\ Goes(w.S, "backup")
  /\ UNCHANGED <<tree, touched, bound>>
Backup ==
  /\ proc.at = "backup"
  /\ IF file[proc.name] = Absent THEN UNCHANGED file ELSE Moved(proc.name, OldOf[proc.name])
  /\ Goes(sym, "replace") /\ UNCHANGED <<tree, touched, bound>>
Replace ==
  /\ proc.at = "replace"
  /\ Moved("tmp", proc.name)
  /\ AfterSave([sym EXCEPT !.dirty = FALSE]) /\ UNCHANGED <<tree, touched, bound>>

Split ==
  /\ proc.at = "split"
  /\ LET s == SplitConfig(ClearAllValid(sym),
                         IF file["auto"] = Absent THEN <<>> ELSE file["auto"])
     IN touched' = touched \cup s.touched /\ Goes(s.S, "auto")
  /\ UNCHANGED <<tree, file, bound>>
WriteAuto ==
  /\ proc.at = "auto"
  /\ LET a == AutoLines(sym) IN Put("autotmp", a.out) /\ Goes(a.S, "header")
  /\ UNCHANGED <<tree, touched, bound>>
RenameHeader ==
  /\ proc.at = "header" /\ Put("header", file["autotmp"])
  /\ Goes(sym, "tristate") /\ UNCHANGED <<tree, touched, bound>>
\* Mutant: the program does not notice that a rename failed.
TristateStays ==
  /\ proc.at = "tristate"
  /\ Goes(sym, "last") /\ UNCHANGED <<tree, file, touched, bound>>
RenameTristate ==
  /\ proc.at = "tristate" /\ Put("tristate", file["autotmp"])
  /\ Goes(sym, "last") /\ UNCHANGED <<tree, touched, bound>>
RenameAuto ==
  /\ proc.at = "last" /\ Moved("autotmp", "auto") /\ touched' = {}
  /\ Exits /\ UNCHANGED <<tree, bound>>

\* The program is killed, or a step on the files fails and it gives up, or the next
\* step would read a text that is NULL (`dead').
Stops ==
  /\ proc.at # "off" /\ Exits /\ FilesKept /\ UNCHANGED bound

-----------------------------------------------------------------------------
(***************************************************************************)
(* mconf.c and nconf.c: build_conf() makes the rows of the open menu, with *)
(* the tag that says what can be done with them; a key does it.            *)
(***************************************************************************)
RECURSIVE Rows(_, _, _), RowsOf(_, _, _)
AfterRow(rows, rest) == [rest EXCEPT !.rows = rows \o @]
RowsThen(r, here, kids) == AfterRow(r.rows, RowsOf(r.S, here, kids))
RowsOf(S, here, kids) == IF kids = <<>> THEN [S |-> S, rows |-> <<>>]
                         ELSE RowsThen(Rows(S, here, Head(kids)), here, Tail(kids))
\* A choice, with what is below its value, or its values as long as it is m.
ChoiceRows(seen, here, i) ==
  LET s == Menus[i].sym
      chosen == SelectSeq(seen.menus, LAMBDA k : Menus[k].sym = seen.S.chosen[s])
      tag == IF IsChangable(seen.S, s) \/ chosen # <<>> THEN "t" ELSE ":"
      kids == IF seen.S.cur[s] # "y" THEN Kids(i)
              ELSE IF chosen = <<>> THEN <<>> ELSE Kids(Head(chosen))
  IN AfterRow(<<<<i, tag>>>>, RowsOf(seen.S, here, kids))
RowsIf(r, here, i) ==
  LET s == Menus[i].sym
      tag == IF IsText(s) THEN "s" ELSE IF IsValue(s) /\ r.S.cur[s] = "y" THEN ":" ELSE "t"
  IN IF ~r.ok THEN [S |-> r.S, rows |-> <<>>]
     ELSE IF s = "" /\ i # here THEN [S |-> r.S, rows |-> <<<<i, "m">>>>]
     ELSE IF s # "" /\ IsChoice(s) THEN ChoiceRows(Seen(r.S, Kids(i)), here, i)
     ELSE AfterRow(IF s = "" THEN <<>> ELSE <<<<i, tag>>>>, RowsOf(r.S, here, Kids(i)))
Rows(S, here, i) == RowsIf(MenuVisible(S, i), here, i)

\* What a key does to the symbol of a row, or of a value of a choice.  Where a y is
\* not accepted it counts as m, which is then one of the others.
Entered(results) == {r.S : r \in {q \in results : q.ok}}
SetsTri(S, s) == Entered({SetTri(S, s, val) : val \in no..yes})
SetsText(S, s) == Entered({SetText(S, s, t) : t \in Texts})
Picks(seen) == {SetTri(seen.S, Menus[k].sym, yes).S : k \in ToSet(seen.menus)}
SymKeys(S, s, tag) ==
  CASE tag = "t" -> SetsTri(S, s) \cup {Toggled(S, s)}
    [] tag = "s" -> SetsText(S, s)
    [] OTHER -> {}
Key(o) ==
  /\ \E k \in DOMAIN o.rows : sym' \in SymKeys(o.S, Menus[o.rows[k][1]].sym, o.rows[k][2])
  /\ Edit /\ UNCHANGED <<proc, todo>> /\ FilesKept
\* conf_choice(): one of the visible values is picked, or none.
PickOne(seen) ==
  \/ sym' \in Picks(seen) /\ Edit
  \/ sym' = seen.S /\ UNCHANGED bound
\* The values of a choice at y are shown until one is picked.
Choice(o) ==
  /\ \E k \in DOMAIN o.rows :
       LET i == o.rows[k][1] IN
       /\ o.rows[k][2] = "t" /\ IsChoice(Menus[i].sym) /\ o.S.cur[Menus[i].sym] = "y"
       /\ sym' = o.S /\ proc' = [proc EXCEPT !.open = i]
  /\ UNCHANGED <<todo, bound>> /\ FilesKept
Pick ==
  /\ proc.open # 0 /\ \E seen \in {Seen(sym, Kids(proc.open))} : PickOne(seen)
  /\ proc' = [proc EXCEPT !.open = 0] /\ UNCHANGED todo /\ FilesKept
Open(o) ==
  /\ \E k \in DOMAIN o.rows :
       o.rows[k][2] = "m" /\ sym' = o.S /\ proc' = [proc EXCEPT !.root = o.rows[k][1]]
  /\ UNCHANGED <<todo, bound>> /\ FilesKept
Back(o) ==
  /\ proc.root # RootMenu
  /\ sym' = o.S /\ proc' = [proc EXCEPT !.root = ParentMenu(Parent(proc.root))]
  /\ UNCHANGED <<todo, bound>> /\ FilesKept
SavesAs(f) == proc' = [proc EXCEPT !.at = "save", !.name = f]
Save(o) ==
  /\ sym' = o.S
  /\ \E f \in DOMAIN OldOf : SavesAs(f)
  /\ Edit /\ UNCHANGED todo /\ FilesKept
\* Another file is read; what it gives counts as a change, and it is this file
\* that is written from now on.
LoadedFrom(S, f) == [ConfRead(S, file[f]) EXCEPT !.dirty = TRUE]
Load(o) ==
  /\ file["def"] # Absent
  /\ sym' = LoadedFrom(o.S, "def")
  /\ proc' = [proc EXCEPT !.name = "def"]
  /\ Edit /\ UNCHANGED todo /\ FilesKept
\* handle_exit() at the top, and do_exit() of nconf, wherever one is.
MayLeave(S) == \/ Exits
              \/ /\ S.dirty /\ sym' = S /\ UNCHANGED todo
                 /\ proc' = [proc EXCEPT !.at = "save", !.asked = TRUE]
Exit(o) ==
  /\ proc.root = RootMenu \/ proc.mode = "nconf"
  /\ MayLeave(o.S) /\ UNCHANGED bound /\ FilesKept
\* The function keys of nconf also work while the values of a choice are shown.
Menu ==
  /\ proc.mode \in Screens /\ proc.at = "menu"
  /\ \/ Pick
     \/ \E o \in {Rows(sym, proc.root, proc.root)} :
          \/ proc.open = 0 /\ (Key(o) \/ Choice(o) \/ Open(o) \/ Back(o))
          \/ (proc.open = 0 \/ proc.mode = "nconf") /\ (Save(o) \/ Load(o) \/ Exit(o))

Next ==
  \/ Start \/ Roll
  \/ CheckConf \/ Again \/ BecomesOld \/ Conf
  \/ NotAsked \/ Enter \/ Answer \/ ConfChoice \/ AnswerChoice
  \/ SaveDefconfig \/ NothingToSave \/ Refuses \/ WriteTmp \/ Backup \/ Replace
  \/ Split \/ WriteAuto \/ RenameHeader \/ RenameTristate \/ RenameAuto
  \/ Stops
  \/ Menu
\* The user answers with Enter, at least, and conf goes on asking.  This is
\* WF_vars(Asks), with what makes it possible spelt out.
Asks == CheckConf \/ Again \/ BecomesOld \/ Conf \/ NotAsked \/ Enter \/ ConfChoice
CanGoOn ==
  /\ proc.at = "asking"
  /\ Turn("ask") => LET s == Menus[todo[1][2]].sym IN Passes(s) \/ EnterGives(s).ok
  /\ Turn("choice") => LET a == ChoiceOffered IN a.is # "y" \/ a.default # <<>>
Asking == []<>~CanGoOn \/ []<><<Asks>>_vars

-----------------------------------------------------------------------------
All(S) == CalcAll(S, Hash)
Anew(S) == All(Calc([S EXCEPT !.valid = {}], Modules))

\* What a symbol is worked out from, and the symbols for which some of a set matters.
SymsOf(exprs) == UNION {ToSet(SymsIn(exprs[k])) : k \in DOMAIN exprs}
From(s) ==
  {Modules} \cup {c \in ChoiceSyms : s \in ToSet(ValuesOf(c))}
  \cup (IF IsChoice(s) THEN ToSet(ValuesOf(s)) ELSE {})
  \cup SymsOf([kind \in {"dir", "rev", "imp"} |-> tree.gathered[kind][s]])
  \cup SymsOf(FlattenSeq([k \in DOMAIN MenusOf(s) |-> Menus[MenusOf(s)[k]].prompt]))
  \cup UNION {ToSet(SymsIn(p.cond)) \cup ToSet(SymsIn(p.value)) : p \in ToSet(tree.defaults[s])}
  \cup UNION {ToSet(SymsIn(p.cond)) \cup ToSet(p.value) : p \in ToSet(tree.ranges[s])}
RECURSIVE Concerned(_)
Concerned(set) ==
  LET more == {s \in Syms : Defined(s) /\ From(s) \cap set # {}}
  IN IF more \subseteq set THEN set ELSE Concerned(set \cup more)

\* What is kept is what would be worked out anew, in every step of a user who looks at
\* it and in every save: whatever was asked for, in whatever order, between the
\* changes; but for what has to do with a value that the user's no longer is, or now
\* is, without anything forgotten.  Nothing is less than what selects it, and a choice
\* that is y has exactly one visible value that is y.
NothingStale ==
  \E anew \in {Anew(sym).cur} :
    \A s \in sym.valid : sym.cur[s] # anew[s] => s \in Concerned(sym.lapsed)
WithinLimits(S) ==
  /\ \A s \in Logicals : ~IsValue(s) => Tri(S, s) >= S.rev[s]
  /\ \A c \in ChoiceSyms : S.cur[c] = "y" =>
       Cardinality({s \in ToSet(ValuesOf(c)) : S.vis[s] # no /\ S.cur[s] = "y"}) = 1
ValuesTrue ==
  [][proc.at \in {"menu", "save"} \/ Turn("ask") \/ Turn("choice") =>
       /\ NothingStale
       /\ WithinLimits(All(sym))]_vars

\* A file that is put in place holds what was worked out, whole: read by the next
\* program it gives every symbol the value it had, but for those concerned as above
\* or by a text that is the user's without a text; and, unless there are such or values
\* of a choice at m are hidden, no difference is found.  What was the .config is then
\* .config.old.
Bare == {s \in sym.user : IsText(s) /\ sym.def[s] = NoText}
SavedIsRead ==
  LET R == ConfRead(Fresh0, file'[proc.name]) IN
  /\ \E read \in {All(R).cur}, had \in {Anew(sym).cur} :
       \A s \in Syms : read[s] # had[s] => s \in Concerned(sym.lapsed \cup Bare)
  /\ R.dirty => \/ sym.lapsed \cup Bare # {}
                \/ \E c \in ChoiceSyms : Type[c] = "tristate" /\ R.cur[c] = "m"
\* savedefconfig leaves out what defconfig finds by itself, and nothing else.
DefIsEnough ==
  All(SetAllNew(ConfRead(Fresh0, file'["def"]), "def_default")).cur = Anew(sym).cur
FilesReadBack ==
  [][/\ Replace => SavedIsRead
     /\ SaveDefconfig => DefIsEnough
     /\ file["config"] # Absent /\ file'["config"] # file["config"]
          => file'["old"] = file["config"]]_vars

\* conf_write_autoconf() updates the headers as HeaderUpdate says: what it writes
\* differs from auto.conf only in symbols whose headers were touched, whatever was
\* configured and wherever other programs stopped.
LinesOf(f) == [s \in Syms |-> {l \in ToSet(file[f]) : l[1] = s}]
Updating == {"auto", "header", "tristate", "last"}
Update == INSTANCE HeaderUpdate WITH
  Lines <- Syms \X STRING,
  at <- IF proc.at \in Updating THEN proc.at ELSE "idle",
  tmp <- IF proc.at \in Updating \ {"auto"} THEN LinesOf("autotmp") ELSE [s \in Syms |-> {}],
  header <- LinesOf("header"), tristate <- LinesOf("tristate"), auto <- LinesOf("auto"),
  touched <- touched \cap Syms
UpdatesHeaders == Update!Spec
\* So wherever a program stops, make does not miss a change (HeaderUpdate).
HeadersTouched == Update!HeadersTouched

\* conf asks in rounds until nothing is new, and this ends.
AskingEnds == proc.at = "asking" ~> proc.at # "asking"
=============================================================================
