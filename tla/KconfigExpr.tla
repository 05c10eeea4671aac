---------------------------- MODULE KconfigExpr -----------------------------
(***************************************************************************)
(* support/kconfig/expr.c, and the grammar of expressions in zconf.y: the  *)
(* dependency expressions of Kconfig, their values, and the rewriting that *)
(* is done on them when the menus are built.  An expression is a record; a *)
(* place that the code rewrites through a pointer is a result.             *)
(***************************************************************************)
EXTENDS Integers, Sequences, FiniteSets, SequencesExt

CONSTANTS
  Type,       \* of every symbol: "bool", "tristate", "int", "hex", "string",
              \* or "unknown" for the constants y, m, n and numbers
  Modules,    \* modules_sym, which may be the constant n
  Ordered,    \* the texts symbols may have, as strcmp() orders them
  Number      \* per type that is not logical, the number a text is if it is one

Syms == DOMAIN Type
Const == {"y", "m", "n"}        \* and quoted texts, which no logical symbol has

None == [t |-> "none"]                                  \* NULL
Sym(s) == [t |-> "sym", s |-> s]
Not(e) == [t |-> "not", l |-> e]
Two(type, l, r) == [t |-> type, l |-> l, r |-> r]
Comp(type, a, b) == [t |-> type, a |-> a, b |-> b]
Comparisons == {"=", "!=", "<", "<=", ">", ">="}

IsSym(e, s) == e = Sym(s)
IsYes(e) == e = None \/ IsSym(e, "y")
AllocAnd(x, y) == IF x = None THEN y ELSE IF y = None THEN x ELSE Two("and", x, y)
AllocOr(x, y)  == IF x = None THEN y ELSE IF y = None THEN x ELSE Two("or", x, y)

-----------------------------------------------------------------------------
(***************************************************************************)
(* Values.  A valuation gives every symbol its text.                       *)
(***************************************************************************)
no == 0
mod == 1
yes == 2
IndexOf(seq, x) == CHOOSE i \in DOMAIN seq : seq[i] = x
TextOf == <<"n", "m", "y">>
Text(tri) == TextOf[tri + 1]
Logical(s) == Type[s] \in {"bool", "tristate"}

\* curr.tri, which is n for a symbol that is neither logical nor y, m, n.
TriOf(v, s) == IF Logical(s) \/ s \in {"y", "m", "n"}
               THEN IndexOf(TextOf, v[s]) - 1 ELSE no
\* sym_get_string_value(): without modules an m is shown as n.
StringOf(v, s) ==
  IF Logical(s) /\ v[s] = "m" /\ TriOf(v, Modules) = no THEN "n" ELSE v[s]

\* expr_parse_string(): what a text is as a value of a type.
Parsed(text, type) ==
  IF type \in {"bool", "tristate"}
  THEN [kind |-> "number",
        n |-> IF text \in ToSet(TextOf) THEN IndexOf(TextOf, text) - 1 ELSE -1]
  ELSE IF text \in DOMAIN Number[type]
       THEN [kind |-> "number", n |-> Number[type][text]]
  ELSE [kind |-> "string", n |-> 0]

Sign(n) == IF n > 0 THEN 1 ELSE IF n < 0 THEN -1 ELSE 0
StrCmp(x, y) == Sign(IndexOf(Ordered, x) - IndexOf(Ordered, y))

\* Two strings are compared as such, and so is what is not a number.
Order(v, a, b) ==
  LET text == [s \in {a, b} |-> StringOf(v, s)]
      is == [s \in {a, b} |-> Parsed(text[s], Type[s])]
  IN IF {Type[a], Type[b]} = {"string"} \/ "string" \in {is[a].kind, is[b].kind}
     THEN StrCmp(text[a], text[b]) ELSE Sign(is[a].n - is[b].n)

Holds(cmp, sign) == CASE cmp = "="  -> sign = 0   [] cmp = "!=" -> sign # 0
                      [] cmp = "<"  -> sign < 0   [] cmp = "<=" -> sign <= 0
                      [] cmp = ">"  -> sign > 0   [] cmp = ">=" -> sign >= 0

Or(x, y) == IF x > y THEN x ELSE y
And(x, y) == IF x < y THEN x ELSE y
RECURSIVE Value(_, _)
\* expr_calc_value()
Value(v, e) ==
  CASE e.t = "none" -> yes
    [] e.t = "sym"  -> TriOf(v, e.s)
    [] e.t = "and"  -> And(Value(v, e.l), Value(v, e.r))
    [] e.t = "or"   -> Or(Value(v, e.l), Value(v, e.r))
    [] e.t = "not"  -> 2 - Value(v, e.l)
    [] OTHER        -> IF Holds(e.t, Order(v, e.a, e.b)) THEN yes ELSE no

-----------------------------------------------------------------------------
(***************************************************************************)
(* Equality and the elimination of what two expressions share.             *)
(***************************************************************************)
Junctions == {"and", "or"}
Unit(junction) == IF junction = "or" THEN Sym("n") ELSE Sym("y")
Zero(junction) == IF junction = "or" THEN Sym("y") ELSE Sym("n")

RECURSIVE EliminateYn(_)
EliminateYn(e) ==
  IF e.t \notin Junctions THEN e
  ELSE LET l == EliminateYn(e.l)  r == EliminateYn(e.r)  u == Unit(e.t)  z == Zero(e.t)
       IN CASE l = z -> z [] l = u -> r [] r = z -> z [] r = u -> l
            [] OTHER -> Two(e.t, l, r)

RECURSIVE EliminateEq1(_, _, _), ExprEq(_, _)
\* __expr_eliminate_eq(): both expressions, equal operands replaced in both.
EliminateEq1(type, x, y) ==
  IF x.t = type
  THEN LET p == EliminateEq1(type, x.l, y)  q == EliminateEq1(type, x.r, p[2])
       IN <<Two(type, p[1], q[1]), q[2]>>
  ELSE IF y.t = type
  THEN LET p == EliminateEq1(type, x, y.l)  q == EliminateEq1(type, p[1], y.r)
       IN <<q[1], Two(type, p[2], q[2])>>
  ELSE IF x = y /\ x \in {Sym("y"), Sym("n")} THEN <<x, y>>
  ELSE IF ExprEq(x, y) THEN <<Unit(type), Unit(type)>> ELSE <<x, y>>

ByFirst(x, y) == IF x.t \in Junctions THEN EliminateEq1(x.t, x, y) ELSE <<x, y>>
BySecond(p) == IF p[1].t # p[2].t /\ p[2].t \in Junctions
               THEN EliminateEq1(p[2].t, p[1], p[2]) ELSE p
WithoutYn(q) == <<EliminateYn(q[1]), EliminateYn(q[2])>>
EliminateEq(x, y) == IF None \in {x, y} THEN <<x, y>> ELSE WithoutYn(BySecond(ByFirst(x, y)))

SameSym(p) == p[1].t = "sym" /\ p[1] = p[2]
ExprEq(x, y) ==
  /\ x.t = y.t
  /\ CASE x.t = "not" -> ExprEq(x.l, y.l)
       [] x.t \in Junctions -> SameSym(EliminateEq(x, y))
       [] OTHER -> x = y

-----------------------------------------------------------------------------
(***************************************************************************)
(* Joining two operands of one `||' or `&&'.                               *)
(***************************************************************************)
\* The symbol both are about, if they are simple enough.
Simple == {"=", "!=", "sym", "not"}
SubjectOf(e) == IF e.t = "sym" THEN e.s ELSE e.a
Comparable(x, y) ==
  /\ {x.t, y.t} \subseteq Simple
  /\ x.t = "not" => x.l.t \in {"=", "!=", "sym"}
  /\ y.t = "not" => y.l.t = "sym"
Subject(e) == IF e.t = "not" THEN SubjectOf(e.l) ELSE SubjectOf(e)
OneSubject(x, y) ==
  Comparable(x, y) /\ Subject(x) = Subject(y) /\ Logical(Subject(x))

\* Both are comparisons `type', with the constants c and d.
Tests(x, y, type, c, d) ==
  x.t = type /\ y.t = type /\ {x.b, y.b} = {c, d}
\* One is the symbol alone, the other compares it with c.
Beside(x, y, type, c) == \/ x.t = "sym" /\ y.t = type /\ y.b = c
                         \/ y.t = "sym" /\ x.t = type /\ x.b = c
Opposite(x, y) == \/ x.t = "not" /\ x.l.t = "sym" /\ y.t = "sym"
                  \/ y.t = "not" /\ x.t = "sym"

JoinOr(x, y) ==
  IF ExprEq(x, y) THEN x
  ELSE IF ~OneSubject(x, y) THEN None
  ELSE LET s == Subject(x) IN
       IF Type[s] = "bool" THEN IF Opposite(x, y) THEN Sym("y") ELSE None
       ELSE CASE Tests(x, y, "=", "y", "m") -> Comp("!=", s, "n")
              [] Tests(x, y, "=", "y", "n") -> Comp("!=", s, "m")
              [] Tests(x, y, "=", "m", "n") -> Comp("!=", s, "y")
              [] OTHER -> None

JoinAnd(x, y) ==
  IF ExprEq(x, y) THEN x
  ELSE IF ~OneSubject(x, y) THEN None
  ELSE LET s == Subject(x) IN
       CASE Beside(x, y, "=", "y")  -> Comp("=", s, "y")
         [] Beside(x, y, "!=", "n") -> Sym(s)
         [] Beside(x, y, "!=", "m") -> Comp("=", s, "y")
         [] Type[s] = "bool"        -> None
         [] {x.t, y.t} = {"=", "!="} /\ {x.b, y.b} \subseteq Const ->
              IF x.b = y.b THEN Sym("n") ELSE IF x.t = "=" THEN x ELSE y
         [] Tests(x, y, "!=", "y", "n") -> Comp("=", s, "m")
         [] Tests(x, y, "!=", "y", "m") -> Comp("=", s, "n")
         [] Tests(x, y, "!=", "m", "n") -> Comp("=", s, "y")
         [] OTHER -> None

Join(type, x, y) == IF type = "or" THEN JoinOr(x, y) ELSE JoinAnd(x, y)

RECURSIVE Leaves(_, _), Rebuild(_, _, _), Size(_, _), DupsPass(_)
Leaves(type, e) == IF e.t = type THEN Leaves(type, e.l) \o Leaves(type, e.r) ELSE <<e>>
Size(type, e) == IF e.t = type THEN Size(type, e.l) + Size(type, e.r) ELSE 1
Rebuild(type, e, leaves) ==
  IF e.t # type THEN Head(leaves)
  ELSE LET k == Size(type, e.l) IN
       Two(type, Rebuild(type, e.l, SubSeq(leaves, 1, k)),
                 Rebuild(type, e.r, SubSeq(leaves, k + 1, Len(leaves))))

\* expr_eliminate_dups1(type, &e, &e): every operand with every other one, both
\* ways; the operands of the first are looked at again each time.
PairsOf(n) == [k \in 1 .. n * n |-> <<((k - 1) \div n) + 1, ((k - 1) % n) + 1>>]
Inner(x) == IF x.t \in Junctions THEN DupsPass(x) ELSE [e |-> x, changed |-> FALSE]
Tried(type, acc, p, inner, joined) ==
  [leaves |-> IF joined = None THEN [acc.leaves EXCEPT ![p[1]] = inner.e]
              ELSE [acc.leaves EXCEPT ![p[1]] = Unit(type), ![p[2]] = joined],
   changed |-> acc.changed \/ inner.changed \/ joined # None]
TryWith(type, acc, p, inner) ==
  Tried(type, acc, p, inner, Join(type, inner.e, acc.leaves[p[2]]))
TryPair(type, acc, p) ==
  IF p[1] = p[2] THEN acc ELSE TryWith(type, acc, p, Inner(acc.leaves[p[1]]))
TryAll(type, leaves) ==
  FoldLeft(LAMBDA acc, p : TryPair(type, acc, p), [leaves |-> leaves, changed |-> FALSE],
           PairsOf(Len(leaves)))
Rebuilt(e, done) == [e |-> Rebuild(e.t, e, done.leaves), changed |-> done.changed]
DupsPass(e) == Rebuilt(e, TryAll(e.t, Leaves(e.t, e)))

RECURSIVE EliminateDups(_)
AfterPass(pass) == IF pass.changed THEN EliminateDups(EliminateYn(pass.e)) ELSE pass.e
EliminateDups(e) == IF e.t \notin Junctions THEN e ELSE AfterPass(DupsPass(e))

-----------------------------------------------------------------------------
(***************************************************************************)
(* expr_transform(): comparisons of bool symbols and negations go.         *)
(***************************************************************************)
\* Mutant: the other direction, and not its complement.
Turned(cmp) == CASE cmp = "="  -> "!=" [] cmp = "!=" -> "=" [] cmp = "<=" -> ">="
                 [] cmp = ">=" -> "<=" [] cmp = "<" -> ">" [] cmp = ">"  -> "<"
Negated(cmp) == CASE cmp = "="  -> "!=" [] cmp = "!=" -> "=" [] cmp = "<=" -> ">"
                  [] cmp = ">=" -> "<"  [] cmp = "<" -> ">=" [] cmp = ">"  -> "<="

OfBool(e) ==
  IF Type[e.a] # "bool" \/ e.b \notin {"y", "m", "n"} THEN e
  ELSE CASE <<e.t, e.b>> \in {<<"=", "n">>, <<"!=", "y">>} -> Not(Sym(e.a))
         [] <<e.t, e.b>> \in {<<"=", "y">>, <<"!=", "n">>} -> Sym(e.a)
         [] <<e.t, e.b>> = <<"=", "m">>  -> Sym("n")
         [] <<e.t, e.b>> = <<"!=", "m">> -> Sym("y")

RECURSIVE Transform(_)
Transform(e) ==
  CASE e.t \in Junctions -> Two(e.t, Transform(e.l), Transform(e.r))
    [] e.t \in {"=", "!="} -> OfBool(e)
    [] e.t = "not" ->
         LET x == Transform(e.l) IN
         CASE x.t = "not" -> Transform(x.l)
           [] x.t \in Comparisons -> Comp(Negated(x.t), x.a, x.b)
           [] x.t = "or"  -> Transform(Two("and", Not(x.l), Not(x.r)))
           [] x.t = "and" -> Transform(Two("or", Not(x.l), Not(x.r)))
           [] x = Sym("y") -> Sym("n") [] x = Sym("n") -> Sym("y")
           [] x = Sym("m") -> Sym("m")
           [] OTHER -> Not(x)
    [] OTHER -> e

RECURSIVE TransBool(_), ContainsSym(_, _), DependsSym(_, _), TransCompare(_, _, _)
\* expr_trans_bool(): FOO!=n becomes FOO.
TransBool(e) ==
  CASE e.t \in Junctions -> Two(e.t, TransBool(e.l), TransBool(e.r))
    [] e.t = "not" -> Not(TransBool(e.l))
    [] e.t = "!=" /\ Type[e.a] = "tristate" /\ e.b = "n" -> Sym(e.a)
    [] OTHER -> e

ContainsSym(e, s) ==
  CASE e.t \in Junctions -> ContainsSym(e.l, s) \/ ContainsSym(e.r, s)
    [] e.t = "not" -> ContainsSym(e.l, s)
    [] e.t = "sym" -> e.s = s
    [] e.t = "none" -> FALSE
    [] OTHER -> s \in {e.a, e.b}

DependsSym(e, s) ==
  CASE e.t = "and" -> DependsSym(e.l, s) \/ DependsSym(e.r, s)
    [] e.t = "sym" -> e.s = s
    [] e.t = "="  -> e.a = s /\ e.b \in {"y", "m"}
    [] e.t = "!=" -> e.a = s /\ e.b = "n"
    [] OTHER -> FALSE

\* expr_trans_compare(), as it is called, with the constant n: an expression for
\* `e type n'.
TransCompare(e, type, s) ==
  LET Negate(x) == IF type = "!=" THEN Not(x) ELSE x
      Both(junction) == Negate(Two(junction, TransCompare(e.l, "=", s),
                                             TransCompare(e.r, "=", s)))
  IN CASE e.t = "none" -> Negate(Sym(s))
       [] e.t = "and"  -> Both(IF s = "y" THEN "and" ELSE "or")
       [] e.t = "or"   -> Both(IF s = "y" THEN "or" ELSE "and")
       [] e.t = "not"  -> TransCompare(e.l, IF type = "=" THEN "!=" ELSE "=", s)
       [] e.t = "sym"  -> Comp(type, e.s, s)
       [] OTHER -> IF s = "m" THEN Sym(IF type = "=" THEN "n" ELSE "y")
                   ELSE IF (type = "=") = (s = "y") THEN e ELSE Not(e)

-----------------------------------------------------------------------------
(***************************************************************************)
(* Printing and parsing, as sequences of tokens.                           *)
(***************************************************************************)
Looser == [or |-> 1, and |-> 2, not |-> 3]
Rank(type) == IF type \in DOMAIN Looser THEN Looser[type] ELSE 4
\* Mutant: no parentheses.
NeverWrap(prev, type) == FALSE
\* expr_compare_type(prev, type) > 0
Wraps(prev, type) == prev # "none" /\ Rank(type) < Rank(prev)

RECURSIVE Printed(_, _)
Printed(e, prev) ==
  LET body == CASE e.t = "none" -> <<"y">>
                [] e.t = "sym"  -> <<e.s>>
                [] e.t = "not"  -> <<"!">> \o Printed(e.l, "not")
                [] e.t = "and"  -> Printed(e.l, "and") \o <<"&&">> \o Printed(e.r, "and")
                [] e.t = "or"   -> Printed(e.l, "or") \o <<"||">> \o Printed(e.r, "or")
                [] OTHER        -> <<e.a, e.t, e.b>>
  IN IF e # None /\ Wraps(prev, e.t) THEN <<"(">> \o body \o <<")">> ELSE body

RECURSIVE ParseOr(_), ParseAnd(_), ParseNot(_), MoreOf(_, _)
\* The productions of `expr'; each gives what it read and what is left.
ParseNot(in) ==
  IF Head(in) = "!"
  THEN LET p == ParseNot(Tail(in)) IN <<Not(p[1]), p[2]>>
  ELSE IF Head(in) = "("
  THEN LET p == ParseOr(Tail(in)) IN <<p[1], Tail(p[2])>>
  ELSE IF Len(in) > 2 /\ in[2] \in Comparisons
  THEN <<Comp(in[2], in[1], in[3]), SubSeq(in, 4, Len(in))>>
  ELSE <<Sym(Head(in)), Tail(in)>>
MoreOf(token, p) ==
  IF p[2] = <<>> \/ Head(p[2]) # token THEN p
  ELSE LET q == IF token = "&&" THEN ParseNot(Tail(p[2])) ELSE ParseAnd(Tail(p[2]))
       IN MoreOf(token, <<Two(IF token = "&&" THEN "and" ELSE "or", p[1], q[1]), q[2]>>)
ParseAnd(in) == MoreOf("&&", ParseNot(in))
ParseOr(in)  == MoreOf("||", ParseAnd(in))
Reparsed(e) == ParseOr(Printed(e, "none"))[1]
=============================================================================
