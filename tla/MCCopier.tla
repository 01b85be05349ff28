-------------------------------- MODULE MCCopier --------------------------------
(* Two or three source files under names that are plain, rendered, not      *)
(* renderable, or no pattern of themselves; a target that holds other files *)
(* in and outside of the copied path.                                       *)
EXTENDS Copier

MCName == {"[a]", "a", "d", "t", "{!}", "{a}", "{d}"}
MCRank == [n \in MCName |-> CASE n = "[a]" -> 1 [] n = "a" -> 2 [] n = "d" -> 3
                              [] n = "t" -> 4 [] n = "{!}" -> 5 [] n = "{a}" -> 6 [] OTHER -> 7]
MCValue == [n \in MCName |-> CASE n = "{a}" -> "a" [] n = "{d}" -> "d" [] n = "{!}" -> Bad
                               [] OTHER -> n]
MCMatched == [n \in MCName |-> IF n = "[a]" THEN {"a"} ELSE {n}]
MCTargetPath == <<"t">>

MCSourcePaths == {<<"[a]">>, <<"a">>, <<"{a}">>, <<"d", "a">>, <<"{d}", "a">>, <<"{d}", "{a}">>,
                  <<"{!}", "a">>, <<"d", "{!}">>, <<"d">>}
\* Where files are added later.
MCEditPaths == {<<"[a]">>, <<"a">>, <<"{a}">>, <<"{d}", "a">>, <<"d", "{!}">>}
MCOtherPaths == {<<"t", "a">>}
MCIgnoreSets == {{}, {<<"a">>, <<"{d}", "a">>}, {<<"{d}">>}}

Asks(engine, values, override) ==
  [engine |-> engine, delims |-> "ok", values |-> values, override |-> override]
MCRequest == {Asks("", TRUE, FALSE), Asks("", TRUE, TRUE), Asks("gotemplate", TRUE, FALSE),
              Asks("gotemplate", TRUE, TRUE), Asks("", FALSE, TRUE)}
OneRequest == {Asks("gotemplate", TRUE, FALSE)}

\* One file of any form, or several that meet in one place.
Families == {{<<"a">>, <<"{a}">>, <<"{d}", "{a}">>},
             {<<"[a]">>, <<"d", "a">>, <<"{d}", "a">>},
             {<<"a">>, <<"d", "{!}">>, <<"{!}", "a">>}}
Sources == UNION {[{p} -> SourceContent] : p \in MCSourcePaths}
Trees == Sources \union UNION {[P -> {"template", "undeclared"}] : P \in Families}

MCInitialSources ==
  [kind : {"Repo"}, source : Trees, ignore : MCIgnoreSets]
    \union [kind : {"LocalResource"}, source : Sources, ignore : {{}}]

\* A file with a value nobody declared before a directory that cannot be named.
Unnamed == {[kind |-> "Repo", ignore |-> {},
             source |-> [p \in {<<"a">>, <<"{!}", "a">>} |-> "undeclared"]]}

MCInitialTargets ==
  {[p \in {<<"a">>, <<"t", "a">>, <<"t", "[a]">>} |-> "foreign"],
   [p \in {<<"t", "d">>} |-> "foreign"],
   [p \in {<<"a">>, <<"t", "d", "a">>} |-> "foreign"]}
==================================================================================
