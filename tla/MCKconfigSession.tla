-------------------------- MODULE MCKconfigSession --------------------------
(* Two Config.in files: one with a tristate that is selected, a choice, an  *)
(* int with a range and what follows from it; one with a tristate choice,   *)
(* something implied, a menu that may be hidden, hexadecimal numbers and a  *)
(* symbol that is shown only for what is below it.                          *)
EXTENDS KconfigGui

MCType == [y |-> "unknown", m |-> "unknown", n |-> "unknown",
           MODULES |-> "bool", A |-> "bool", T |-> "tristate", C |-> "bool",
           V |-> "bool", W |-> "bool", I |-> "int", D |-> "bool",
           K |-> "tristate", P |-> "tristate", Q |-> "bool", H |-> "hex"]
           @@ ("1" :> "unknown" @@ "3" :> "unknown" @@ "5" :> "unknown"
               @@ "0x1" :> "unknown")
MCHash == <<"T", "D", "K", "A", "I", "W", "C", "Q", "MODULES", "V", "H", "P">>
MCOrdered == <<"", "0x1", "0x5", "1", "3", "5", "9", "m", "n", "y">>
MCHexOf == "5" :> "0x5" @@ "1" :> "0x1"
MCNumber == [unknown |-> <<>>, string |-> <<>>,
             hex |-> ("1" :> 1 @@ "0x1" :> 1 @@ "5" :> 5 @@ "0x5" :> 5),
             int |-> ("1" :> 1 @@ "3" :> 3 @@ "5" :> 5 @@ "9" :> 9)]

Config(s, dep, prompt, props) == Entry(s, dep, prompt, props, <<>>)
Ranges ==
  <<Config("MODULES", None, <<None>>, <<>>),
    Config("A", None, <<None>>, <<Prop("select", "T", Sym("MODULES"))>>),
    Entry("", None, <<Sym("A")>>, <<>>,
      <<Config("I", None, <<None>>, <<Prop("default", Sym("3"), None),
                                      Prop("range", <<"1", "5">>, None)>>)>>),
    Config("D", None, <<>>, <<Prop("default", Sym("y"), Comp("=", "I", "5"))>>),
    Config("T", None, <<None>>, <<Prop("default", Sym("m"), None)>>),
    Entry("C", None, <<Sym("T")>>, <<Prop("default", Sym("W"), Sym("A"))>>,
      <<Config("V", None, <<None>>, <<>>), Config("W", None, <<None>>, <<>>)>>)>>
Hidden ==
  <<Config("MODULES", None, <<None>>, <<Prop("default", Sym("y"), None)>>),
    [Entry("", None, <<None>>, <<>>,
       <<Config("T", None, <<None>>, <<>>),
         Config("H", Sym("T"), <<None>>, <<Prop("default", Sym("0x1"), None)>>)>>)
       EXCEPT !.visibility = Sym("MODULES")],
    Config("A", None, <<Sym("MODULES")>>, <<Prop("default", Sym("y"), None),
                                            Prop("imply", "T", None)>>),
    Config("D", Sym("A"), <<None>>, <<>>),
    Entry("K", None, <<None>>, <<>>,
      <<Config("P", None, <<None>>, <<>>), Config("Q", None, <<Sym("A")>>, <<>>)>>)>>
OldRanges == <<<<"MODULES", "y">>, <<"A", "y">>, <<"I", "9">>, <<"T", "m">>, <<"V", "y">>>>
OldHidden == <<<<"MODULES", "y">>, <<"H", "0x5">>, <<"D", "y">>, <<"P", "m">>, <<"Q", "y">>,
               <<"Z", "y">>>>
Few == <<<<"MODULES", "n">>, <<"A", "n">>, <<"T", "y">>, <<"V", "n">>, <<"W", "y">>>>
Part == <<<<"MODULES", "y">>, <<"A", "y">>>>
AutoRanges == <<<<"T", "m">>, <<"A", "y">>, <<"I", "5">>, <<"MODULES", "y">>>>
MCSetups ==
  {[source |-> Ranges, config |-> OldRanges, def |-> Absent, auto |-> Absent],
   [source |-> Ranges, config |-> Few, def |-> OldRanges, auto |-> AutoRanges],
   [source |-> Ranges, config |-> Part, def |-> Absent, auto |-> Absent],
   [source |-> Hidden, config |-> Absent, def |-> OldHidden, auto |-> Absent]}
MCDice == {[s \in {"MODULES", "A", "T", "V", "W", "D", "C", "K", "P", "Q"} |->
              CASE s = "C" -> "V" [] s = "K" -> "P" [] s = "T" -> t [] OTHER -> "y"] :
           t \in {"m", "n"}}
=============================================================================
