------------------------------ MODULE MCShLine ------------------------------
(***************************************************************************)
(* sh -c with every line of up to four characters, and scripts of lines    *)
(* that define, use and abuse aliases and variables.                       *)
(***************************************************************************)
EXTENDS ShLine

Chars == {"x", "$", "{", SQ, DQ, BS, " ", "|", ">", "#", NL}

MCLetters == {"x", "y", "alias", "export", "exit", "cd", "pwd"}
MCDigitValue == [c \in {"1", "9"} |-> IF c = "1" THEN 1 ELSE 9]

MCCommands ==
  UNION {[1..n -> Chars] : n \in 0..4}
    \cup {<<a, "$", "{", "x", b>> : a \in {" ", DQ, "<"}, b \in {"}", "|", DQ}}
    \cup {<<"$", "x", "x", a, "<">> : a \in {"x", "|", ">"}}

(* References to a variable that is not set, bare and quoted.              *)
MCReferences == {<<"x", " ", DQ, "$", "x", DQ>>, <<"x", " ", "$", "x">>}

(* $x is unset, or holds what would be operators.                          *)
MCEnvs == {<< >>, [n \in {<<"x">>} |-> <<"|", " ">>]}

Alias(name, value) == <<"alias", " ">> \o name \o <<"=">> \o value

MCLines ==
  {Alias(<<"x">>, <<"x">>), Alias(<<"x">>, <<"y">>), Alias(<<"x">>, <<SQ, "$", "x", SQ>>),
   Alias(<<"y">>, <<"x">>), Alias(<<"y">>, <<DQ, SQ, "y", SQ, " ", "x", DQ>>),
   Alias(<<"y">>, <<"1">>), Alias(<<"1">>, <<"9">>),
   Alias(<<DQ, BS, "$", "x", DQ>>, <<"y">>), Alias(<<"x">>, <<BS, "|">>),
   <<"alias", " ", "y", " ", BS, "|", "=", "x">>,
   <<"export", " ", "x", "=">>, <<"export", " ", "x", " ", "1">>,
   <<"x", " ", "1">>, <<"y", " ", "<", "1", " ", "9", "|", "x">>,
   <<"cd">>, <<"cd", " ", "x">>, <<"pwd">>,
   <<"exit">>, <<"exit", " ", "1", "9", "9">>, <<"exit", " ", "9", "9", "9">>, <<"exit", " ", "x">>}
=============================================================================
