----------------------------- MODULE KconfigGui -----------------------------
(***************************************************************************)
(* The front ends qconf.cc and gconf.c, which keep a tree of rows and      *)
(* change in it only what a change of a value has changed.                 *)
(***************************************************************************)
EXTENDS KconfigSession

CONSTANT GuiStarts \* these are among the first so many programs

\* What is on the screen: the view, the rows of the list, which is below `proc.root',
\* and those of the list of menus beside it.  `open' is the menu gconf shows beside
\* the list; `back' says whether gconf's button works.
VARIABLE view

Blank == [mode |-> "none", rows |-> <<>>, left |-> <<>>, open |-> 0, back |-> FALSE,
          old |-> FALSE]  \* kept for the properties: rows that were there before a file
                          \* was loaded, or a text typed below the top, are still shown
In(gui) == proc.mode = gui /\ proc.at = "menu"
GuiInit == Init /\ view = Blank
Free == UNCHANGED bound
RECURSIVE ShownIn(_)
ShownIn(rows) == UNION {{r.menu} \cup ShownIn(r.in) : r \in ToSet(rows)}

IsMenu(i) == Menus[i].sym = "" /\ Menus[i].prompt # <<>>
\* fixup_rootmenu(): MENU_ROOT
RECURSIVE InMenu(_), Rooted(_)
InMenu(i) == i # RootMenu /\ (IsMenu(i) \/ InMenu(Parent(i)))
Rooted(i) == i = RootMenu \/ (Rooted(Parent(i)) /\ (IsMenu(i) \/ ~InMenu(Parent(i))))

\* What a row tells of its symbol, and what marks it as changed since the last time
\* that all rows were looked at: sym_set_changed() and sym_set_all_changed().
Looks(S, i) ==
  LET s == Menus[i].sym IN
  IF s = "" THEN <<>>
  ELSE <<S.cur[s], IF IsChoice(s) THEN S.chosen[s] ELSE Nobody,
         {v \in no..yes : TriWithin(S, s, v)}>>
Tracked(S, s) == <<S.cur[s], S.vis[s], S.dir[s], S.rev[s], S.imp[s],
                   IF IsChoice(s) THEN S.chosen[s] ELSE Nobody>>
Flagged(S, i) == /\ Menus[i].sym # ""
                 /\ S.mods # sym.mods \/ Tracked(S, Menus[i].sym) # Tracked(sym, Menus[i].sym)
Row(S, i, in) == [menu |-> i, is |-> Looks(S, i), in |-> in]

-----------------------------------------------------------------------------
(***************************************************************************)
(* qconf.cc: a ConfigList is updated from the first to the last entry of   *)
(* its menu; `done' are the rows that are right, `rest' those that follow. *)
(***************************************************************************)
\* The lists: all entries, those of one menu, or, side by side, those that are
\* MENU_ROOT and those that are not.
Belongs(list, i) ==
  CASE list = "menus" -> Rooted(i) [] list = "split" -> ~Rooted(i) [] OTHER -> TRUE
Descends(list, i) == list \in {"full", "menus"} \/ ~IsMenu(i)
List(S, list, rows, all) == [S |-> S, list |-> list, done |-> <<>>, rest |-> rows, all |-> all]
IsNext(u, i) == u.rest # <<>> /\ u.rest[1].menu = i
\* Mutant: a row is not taken away.
KeepRow(u, i) == u
HideRow(u, i) == IF IsNext(u, i) THEN [u EXCEPT !.rest = Tail(@)] ELSE u
\* testUpdateMenu(), or a new ConfigItem.
RowFor(u, i) ==
  IF ~IsNext(u, i) THEN Row(u.S, i, <<>>)
  ELSE IF u.all \/ Flagged(u.S, i) THEN Row(u.S, i, u.rest[1].in) ELSE u.rest[1]
RECURSIVE UpdateList(_, _)
WithRow(below, u, row) ==
  [u EXCEPT !.S = below.S, !.rest = IF IsNext(u, row.menu) THEN Tail(@) ELSE @,
            !.done = Append(@, [row EXCEPT !.in = below.done \o below.rest])]
Below(u, row) ==
  WithRow(IF Descends(u.list, row.menu)
          THEN UpdateList(List(u.S, u.list, row.in, u.all), Kids(row.menu))
          ELSE List(u.S, u.list, <<>>, u.all), u, row)
ShowRow(u, i) == Below(u, RowFor(u, i))
IfShown(r, u, i) == IF r.ok THEN ShowRow([u EXCEPT !.S = r.S], i)
                    ELSE HideRow([u EXCEPT !.S = r.S], i)
UpdateEntry(u, i) ==
  IF Belongs(u.list, i) THEN IfShown(MenuVisible(u.S, i), u, i) ELSE HideRow(u, i)
UpdateList(u, kids) ==
  IF kids = <<>> THEN u ELSE UpdateList(UpdateEntry(u, Head(kids)), Tail(kids))

\* The rows of the list below a menu, and of the list of menus.
RowsOfList(u) == u.done \o u.rest
Shows(S, mode, root, rows, left) ==
  /\ sym' = S /\ view' = [view EXCEPT !.mode = mode, !.rows = rows, !.left = left]
  /\ proc' = [proc EXCEPT !.root = root] /\ UNCHANGED todo
Lists(S, mode, root, rows, all) ==
  \E list \in {UpdateList(List(S, mode, rows, all), Kids(root))} :
  \E menus \in {UpdateList(List(list.S, "menus", view.left, all), Kids(RootMenu))} :
    Shows(menus.S, mode, root, RowsOfList(list), RowsOfList(menus))
\* ConfigView::updateList() and updateListAll()
Refresh(S, all) == Lists(S, view.mode, proc.root, view.rows, all)
QRows == ShownIn(view.rows) \cup IF view.mode = "split" THEN ShownIn(view.left) ELSE {}
\* setValue(), changeValue() and what is typed into the line of a text.
QGives(s) ==
  IF IsText(s) THEN {r.S : r \in {SetText(sym, s, t) : t \in Texts}}
  ELSE SetsTri(sym, s) \cup {S \in {Toggled(sym, s)} : S.cur[s] # sym.cur[s]}
QKey ==
  /\ In("qconf")
  /\ \E s \in {Menus[i].sym : i \in QRows} \ {""} : \E S \in QGives(s) : Refresh(S, FALSE)
  /\ Edit /\ FilesKept
\* setRootMenu(), changeMenu() and goBack(): all rows of the old one are deleted.
\* showSingleView(), showSplitView() and showFullView(): at the top the rows stay,
\* as far as they belong to the other view.
Opened == IF view.mode = "full" THEN {} ELSE {i \in QRows \ {proc.root} : IsMenu(i)}
Upwards == IF view.mode = "full" \/ proc.root = RootMenu THEN {}
           ELSE {ParentMenu(Parent(proc.root))}
Views == {<<view.mode, i>> : i \in Opened \cup Upwards}
         \cup ({"single", "split", "full"} \ {view.mode}) \X {RootMenu}
QShow ==
  /\ In("qconf")
  /\ \E v \in Views : LET stays == v[2] = proc.root IN
       Lists(sym, v[1], v[2], IF stays THEN view.rows ELSE <<>>, stays)
  /\ Free /\ FilesKept
\* loadConfig(); saveConfig(), and saveConfigAs(), which takes no notice of the name
\* that was chosen; closeEvent().
QLoad ==
  /\ In("qconf") /\ file["def"] # Absent
  /\ \E S \in {ConfRead(sym, file["def"])} : Refresh(S, TRUE)
  /\ Edit /\ FilesKept
ToSave == proc' = [proc EXCEPT !.at = "save", !.name = "config"]
QSave == In("qconf") /\ ToSave /\ Edit /\ UNCHANGED <<sym, todo, view>> /\ FilesKept
WindowCloses(gui) ==
  /\ In(gui)
  /\ \/ Exits
     \/ /\ sym.dirty /\ proc' = [proc EXCEPT !.at = "save", !.name = "config", !.asked = TRUE]
        /\ UNCHANGED <<sym, todo>>
  /\ view' = IF proc'.at = "off" THEN Blank ELSE view
  /\ Free /\ FilesKept
QClose == WindowCloses("qconf")

-----------------------------------------------------------------------------
(***************************************************************************)
(* gconf.c: display_tree() fills an empty tree, update_tree() changes one. *)
(* `proc.root' is current, and view.open is browsed.                       *)
(***************************************************************************)
\* What is put below an entry that is hidden goes below the row before it.
Hang(rows, in) ==
  IF rows = <<>> THEN <<>> ELSE [rows EXCEPT ![Len(rows)].in = @ \o in]
RECURSIVE DisplayTree(_, _)
Tree(S, list, rows) == [S |-> S, list |-> list, rows |-> rows]
GoesDown(list, i) ==
  CASE list = "single" -> ~IsMenu(i) /\ Rooted(Parent(i))
    [] list = "split" -> ~IsMenu(i)
    [] OTHER -> TRUE
Hung(below, d) == [d EXCEPT !.S = below.S, !.rows = Hang(@, below.rows)]
DisplayBelow(d, i) ==
  IF GoesDown(d.list, i) THEN Hung(DisplayTree(Tree(d.S, d.list, <<>>), Kids(i)), d) ELSE d
Placed(r, d, i) ==
  [d EXCEPT !.S = r.S, !.rows = IF r.ok THEN Append(@, Row(r.S, i, <<>>)) ELSE @]
DisplayEntry(d, i) ==
  IF Belongs(d.list, i) THEN DisplayBelow(Placed(MenuVisible(d.S, i), d, i), i) ELSE d
DisplayTree(d, kids) ==
  IF kids = <<>> THEN d ELSE DisplayTree(DisplayEntry(d, Head(kids)), Tail(kids))
KidsOf(i) == IF i = 0 THEN <<>> ELSE Kids(i)
Displayed(S, list, root) == DisplayTree(Tree(S, list, <<>>), KidsOf(root))

\* update_tree(): the row at which it is, the rows before it and those after it.  A
\* symbol's flag is cleared when the first of its rows is filled.
GRow(g, i) ==
  IF Menus[i].sym \notin g.filled /\ Flagged(g.S, i) THEN Row(g.S, i, g.rest[1].in)
  ELSE g.rest[1]
RECURSIVE UpdateTree(_, _)
Nested(g, rows) == [g EXCEPT !.done = <<>>, !.rest = rows]
AfterRowOf(below, g, row, rest, kids) ==
  UpdateTree([g EXCEPT !.S = below.S, !.rest = rest, !.filled = below.filled \cup {Menus[row.menu].sym},
                !.done = Append(@, [row EXCEPT !.in = below.done \o below.rest])], Tail(kids))
UpdateRow(g, row, rest, kids) ==
  AfterRowOf(UpdateTree(Nested(g, row.in), Kids(row.menu)), g, row, rest, kids)
\* The row at which it is, is removed, and if there is no other after it, that is all.
\* Mutant: without a look at what follows.
RemoveLast(g, kids) == UpdateTree([g EXCEPT !.rest = <<>>], Tail(kids))
RemoveRow(g, kids) ==
  IF Len(g.rest) <= 1 THEN [g EXCEPT !.rest = <<>>]
  ELSE UpdateTree([g EXCEPT !.rest = Tail(@)], kids)
UpdateFor(r, g, kids) ==
  LET i == Head(kids)
      there == i \in ShownIn(g.done \o g.rest) IN
  CASE r.ok /\ IsNext(g, i) -> UpdateRow(g, GRow(g, i), Tail(g.rest), kids)
    [] r.ok /\ ~there -> UpdateRow(g, Row(g.S, i, <<>>), g.rest, kids)
    [] ~r.ok /\ ~there -> UpdateTree(g, Tail(kids))
    [] OTHER -> RemoveRow(g, kids)
UpdateSeen(r, g, kids) == UpdateFor(r, [g EXCEPT !.S = r.S], kids)
UpdateTree(g, kids) ==
  IF kids = <<>> THEN g ELSE UpdateSeen(MenuVisible(g.S, Head(kids)), g, kids)
Updated(S, root) ==
  UpdateTree([S |-> S, done |-> <<>>, rest |-> view.rows, filled |-> {}], KidsOf(root))

\* What the right tree shows now, and that of a new view.
Puts(S, rows, shown) ==
  ~S.dead /\ sym' = S /\ view' = [shown EXCEPT !.rows = rows] /\ UNCHANGED todo
New == [view EXCEPT !.old = FALSE]
PutsTree(S, list, root, shown) ==
  \E d \in {Displayed(S, list, root)} : Puts(d.S, d.rows, shown)
\* display_list() fills the left tree, and makes the top the current menu.
PutsBoth(S, rows, shown) ==
  /\ \E d \in {Displayed(S, "menus", RootMenu)} : Puts(d.S, rows, [shown EXCEPT !.left = d.rows])
  /\ proc' = [proc EXCEPT !.root = RootMenu]
\* change_sym_value() and toggle_sym_value() update what the view shows, which is
\* drawn anew in the single view; renderer_edited(), for a text, updates from the top
\* in every view.  A text can be toggled too, which is not counted as an edit.
Typed(s) == IF IsText(s) THEN {r.S : r \in {SetText(sym, s, t) : t \in Texts}} ELSE {}
Picked(s, val) == SetTri(sym, s, IF TriWithin(sym, s, val) THEN val ELSE yes).S
Changed(s) == {Toggled(sym, s)} \cup IF Logical(s) THEN {Picked(s, val) : val \in no..yes} ELSE {}
Counted(s) == IF IsText(s) THEN Free ELSE Edit
GShows(S, typed) ==
  CASE view.mode = "single" /\ ~typed ->
         PutsTree(S, "single", proc.root, New) /\ UNCHANGED proc
    [] OTHER -> \E g \in {Updated(S, IF view.mode = "split" /\ ~typed THEN view.open ELSE RootMenu)} :
         IF view.mode = "split" /\ ~typed THEN PutsBoth(g.S, RowsOfList(g), view)
         ELSE /\ Puts(g.S, RowsOfList(g), [view EXCEPT !.old = @ \/ view.mode # "full"])
              /\ UNCHANGED proc
GKey ==
  /\ In("gconf")
  /\ \E s \in {Menus[i].sym : i \in ShownIn(view.rows)} \ {""} :
       \/ (\E S \in Typed(s) : GShows(S, TRUE)) /\ Edit
       \/ (\E S \in Changed(s) : GShows(S, FALSE)) /\ Counted(s)
  /\ FilesKept
\* A menu is opened in the single view, or, in the split view, noted.
GOpen ==
  /\ In("gconf") /\ view.mode # "full"
  /\ \E i \in ShownIn(view.rows) :
       /\ IsMenu(i) /\ proc' = [proc EXCEPT !.root = i]
       /\ PutsTree(sym, view.mode, IF view.mode = "single" THEN i ELSE view.open,
                   [New EXCEPT !.back = TRUE])
  /\ Free /\ FilesKept
\* A row of the left tree: its entries are shown; a menu without any is as good as none.
Browsed(S, i, left) ==
  \E d \in {Displayed(S, "split", i)} :
    Puts(d.S, d.rows, [New EXCEPT !.open = IF d.rows = <<>> THEN 0 ELSE i, !.left = left])
GBrowse ==
  /\ In("gconf") /\ view.mode = "split"
  /\ \E i \in ShownIn(view.left) : Browsed(sym, i, view.left)
  /\ UNCHANGED proc /\ Free /\ FilesKept
\* With a double click it is also toggled, and current, which only the button uses.
Toggles(i) ==
  IF Menus[i].sym # ""
  THEN /\ \E S \in {Toggled(sym, Menus[i].sym)} :
          \E d \in {Displayed(S, "menus", RootMenu)} : Browsed(d.S, i, d.rows)
       /\ Counted(Menus[i].sym)
  ELSE Browsed(sym, i, view.left) /\ Free
GDouble ==
  /\ In("gconf") /\ view.mode = "split"
  /\ \E i \in ShownIn(view.left) :
       Toggles(i) /\ proc' = [proc EXCEPT !.root = IF view.back THEN i ELSE RootMenu]
  /\ FilesKept
\* on_back_clicked(): above the top there is nothing, and the program ends.
Above(i) == IF IsMenu(Parent(i)) THEN Parent(i) ELSE Parent(Parent(i))
GoesBack(i) ==
  /\ proc' = [proc EXCEPT !.root = i]
  /\ PutsTree(sym, view.mode, IF view.mode = "single" THEN i ELSE view.open,
              [New EXCEPT !.back = i # RootMenu])
GBack ==
  /\ In("gconf") /\ view.back
  /\ IF proc.root = RootMenu THEN Exits /\ view' = Blank ELSE GoesBack(Above(proc.root))
  /\ Free /\ FilesKept
\* on_single_clicked(), on_full_clicked() and on_split_clicked()
GShow ==
  /\ In("gconf") /\ proc' = [proc EXCEPT !.root = RootMenu]
  /\ \/ \E mode \in {"single", "full"} :
          PutsTree(sym, mode, RootMenu, [New EXCEPT !.mode = mode, !.back = @ /\ mode = "single"])
     \/ PutsBoth(sym, <<>>, [New EXCEPT !.mode = "split", !.back = FALSE])
  /\ Free /\ FilesKept
\* load_filename(): the whole tree is put after what is there.
GLoad ==
  /\ In("gconf") /\ file["def"] # Absent /\ proc' = [proc EXCEPT !.root = RootMenu]
  /\ \E S \in {ConfRead(sym, file["def"])} : \E d \in {Displayed(S, view.mode, RootMenu)} :
       Puts(d.S, view.rows \o d.rows, [view EXCEPT !.old = TRUE])
  /\ Edit /\ FilesKept
\* on_save_activate(), and store_filename() with a name of its own.
GSave ==
  /\ In("gconf")
  /\ \E f \in DOMAIN OldOf : proc' = [proc EXCEPT !.at = "save", !.name = f]
  /\ Edit /\ UNCHANGED <<sym, todo, view>> /\ FilesKept
GClose == WindowCloses("gconf")

-----------------------------------------------------------------------------
\* main(): qconf begins with the split view, gconf with the full one.
Began(gui, S, shown) ==
  /\ sym' = S /\ view' = shown
  /\ proc' = [Off EXCEPT !.mode = gui, !.at = "menu"]
QBegins(S) ==
  \E list \in {UpdateList(List(S, "split", <<>>, FALSE), Kids(RootMenu))} :
  \E menus \in {UpdateList(List(list.S, "menus", <<>>, FALSE), Kids(RootMenu))} :
    Began("qconf", menus.S,
          [Blank EXCEPT !.mode = "split", !.rows = RowsOfList(list), !.left = RowsOfList(menus)])
GBegins(S) ==
  \E d \in {Displayed(S, "full", RootMenu)} :
    Began("gconf", d.S, [Blank EXCEPT !.mode = "full", !.rows = d.rows])
GuiStart ==
  /\ proc.at = "off" /\ bound.starts < GuiStarts
  /\ \E S \in {Read("config")} : QBegins(S) \/ GBegins(S)
  /\ bound' = [bound EXCEPT !.starts = @ + 1]
  /\ UNCHANGED todo /\ FilesKept

GuiNext ==
  \/ Next /\ view' = IF proc'.at = "off" THEN Blank ELSE view
  \/ GuiStart
  \/ QKey \/ QShow \/ QLoad \/ QSave \/ QClose
  \/ GKey \/ GOpen \/ GBrowse \/ GDouble \/ GBack \/ GShow \/ GLoad \/ GSave \/ GClose
GuiSpec == GuiInit /\ [][GuiNext]_<<vars, view>> /\ Asking

\* An answer or a key that is accepted has the effect it names: what the user gave is
\* the value the symbol then has.  (A file that is loaded may give what cannot be.)
TakesEffect ==
  [][proc.at \in {"asking", "menu"} /\ proc'.at = proc.at =>
     \A s \in Syms : sym'.def[s] # sym.def[s] =>
       \/ All(sym').cur[s] = sym'.def[s]
       \/ file["def"] # Absent /\ sym'.def[s] = SlotOf(file["def"]).val[s]]_vars

\* Whatever is done next, what qconf shows is what it would show if it were started anew
\* with these values:
\* no row is missing, hidden or stale, in either list, in whatever view, after
\* whatever changes.  gconf may leave out rows, but those that it shows are visible
\* and show the value of now, unless they were there when a file was loaded or, below
\* the top, a text was typed.
RECURSIVE RowsTrue(_)
RowsTrue(rows) ==
  \A r \in ToSet(rows) : /\ MenuVisible(sym, r.menu).ok /\ r.is = Looks(sym, r.menu)
                        /\ RowsTrue(r.in)
ShownTrue ==
  [][/\ proc.mode = "qconf" =>
          /\ view.rows = RowsOfList(UpdateList(List(sym, view.mode, <<>>, FALSE),
                                              Kids(proc.root)))
          /\ view.left = RowsOfList(UpdateList(List(sym, "menus", <<>>, FALSE), Kids(RootMenu)))
     /\ proc.mode = "gconf" /\ ~view.old => RowsTrue(view.rows)]_<<vars, view>>
=============================================================================
