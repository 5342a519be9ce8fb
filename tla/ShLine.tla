------------------------------- MODULE ShLine -------------------------------
(***************************************************************************)
(* The shell reads a line and runs it: the parser (sh_parser.c) on top of  *)
(* the lexer of ShLex, aliases and builtins (sh_builtin.c) and the three   *)
(* ways to feed run_line (sh_main.c), all under src/src/cmd/sh, with the   *)
(* environment of src/src/libbrkc/stdlib/env.c.                            *)
(*                                                                         *)
(* A letter may stand for a whole name: the word alias is <<"alias">>.  No *)
(* allocation ever fails; a pipeline is run by ShExec and leaves any       *)
(* status.                                                                 *)
(***************************************************************************)
EXTENDS ShLex

CONSTANTS
  AliasDepth,        \* the limit of sh_alias_expand_cmd
  Lines,             \* the lines the user types or a script holds
  Commands,          \* the arguments of sh -c
  Envs,              \* the environments the shell may start with
  Dirs, Home,        \* the directories, and the one it starts in
  Statuses           \* what a pipeline may return

ASSUME ShLineAssumption ==
  /\ AliasDepth \in Nat
  /\ Statuses \subseteq Nat /\ Home \in Dirs

Redirections == {"REDIR_IN", "REDIR_OUT", "REDIR_APPEND"}
None == "none"     \* no directory: cwd[0] = '\0'

VARIABLES
  mode,      \* "-c", "script" or "interactive"
  pc,        \* "prompt", "line" with a line to run, or "exited"
  line,
  aliases,   \* sh_aliases, the values by their names
  env,       \* environ, the values by their names
  dir,       \* the working directory the kernel knows
  cwd,       \* the shell's copy of it
  last       \* the status run_line returned last

vars == <<mode, pc, line, aliases, env, dir, cwd, last>>

-----------------------------------------------------------------------------
(* sh_parser.c *)

EmptyCmd == [argv |-> << >>, redir_list |-> << >>]

ensure_cmd(cmds) == IF cmds = << >> THEN <<EmptyCmd>> ELSE cmds
cur_has_program(cmds) == cmds # << >> /\ Last(cmds).argv # << >>

argv_push(cmds, w) == [cmds EXCEPT ![Len(cmds)].argv = Append(@, w)]
redir_append(cmds, k, path) == [cmds EXCEPT ![Len(cmds)].redir_list = Append(@, <<k, path>>)]

parse_fail(p, err) == [p EXCEPT !.cmds = << >>, !.err = err, !.stop = TRUE]

(* mutant: a redirection takes any token for its file *)
MutParseRedir(p, rk, path) ==
  IF path.err # SH_OK THEN parse_fail(p, path.err)
  ELSE [p EXCEPT !.cmds = redir_append(ensure_cmd(@), rk, path.text), !.pos = path.pos]

ParseRedir(p, rk, path) ==
  IF path.err # SH_OK THEN parse_fail(p, path.err)
  ELSE IF path.type # "WORD" THEN parse_fail(p, SH_ERR_PARSE)
  ELSE [p EXCEPT !.cmds = redir_append(ensure_cmd(@), rk, path.text), !.pos = path.pos]

(* One token t of the loop, and the check at its end.                      *)
ParseToken(s, e, p, t) ==
  LET q == [p EXCEPT !.pos = t.pos]
  IN CASE t.err # SH_OK -> parse_fail(p, t.err)
       [] t.type \in {"NEWLINE", "EOF"} ->
            IF p.cmds # << >> /\ ~cur_has_program(p.cmds) THEN parse_fail(p, SH_ERR_PARSE)
            ELSE [q EXCEPT !.stop = TRUE]
       [] t.type = "PIPE" ->
            IF cur_has_program(p.cmds) THEN [q EXCEPT !.cmds = Append(@, EmptyCmd)]
            ELSE parse_fail(p, SH_ERR_PARSE)
       [] t.type \in Redirections -> ParseRedir(q, t.type, sh_lexer_next(s, t.pos, e))
       [] t.type = "WORD" /\ t.err = SH_OK ->
            [q EXCEPT !.cmds = argv_push(ensure_cmd(@), t.text)]

sh_parse_line(s, e) ==
  LET step(p) == ParseToken(s, e, p, sh_lexer_next(s, p.pos, e))
      result(p) == [err |-> p.err, cmds |-> p.cmds]
  IN result(Repeat(step, [cmds |-> << >>, pos |-> 1, err |-> SH_OK, stop |-> FALSE], Len(s) + 1))

-----------------------------------------------------------------------------
(* sh_builtin.c *)

(* The words of an alias value; none where sh_alias_split fails.           *)
sh_alias_split(value, e) ==
  LET take(x, t) ==
        IF t.err # SH_OK \/ t.type \notin {"EOF", "WORD"} THEN [x EXCEPT !.words = << >>, !.stop = TRUE]
        ELSE IF t.type = "EOF" THEN [x EXCEPT !.stop = TRUE]
        ELSE [x EXCEPT !.words = Append(@, t.text), !.pos = t.pos]
      step(x) == take(x, sh_lexer_next(value, x.pos, e))
  IN Repeat(step, [words |-> << >>, pos |-> 1, stop |-> FALSE], Len(value) + 1).words

sh_valid_alias_name(name) ==
  name # << >> /\ Range(name) \cap ({NL, "=", "|", "<", ">", SQ, DQ, BS, "#"} \cup Blanks) = {}

sh_valid_env_name(name) ==
  name # << >> /\ name[1] \in Letters /\ \A i \in 2..Len(name) : NameChar(name[i])

(* setenv and the list of aliases, new names and old ones.                 *)
Set(f, name, value) == [n \in DOMAIN f \cup {name} |-> IF n = name THEN value ELSE f[n]]

(* mutant: expansion goes on with an alias that names itself *)
MutStops(words, name) == FALSE

Stops(words, name) == words[1] = name

sh_alias_expand_cmd(cmd) ==
  LET expand(x, words) ==
        IF x.depth = AliasDepth \/ words = << >> THEN [x EXCEPT !.stop = TRUE, !.ok = FALSE]
        ELSE [x EXCEPT !.argv = words \o Tail(@), !.depth = @ + 1, !.stop = Stops(words, x.argv[1])]
      step(x) ==
        IF x.argv[1] \notin DOMAIN aliases THEN [x EXCEPT !.stop = TRUE]
        ELSE expand(x, sh_alias_split(aliases[x.argv[1]], env))
  IN Repeat(step, [argv |-> cmd.argv, depth |-> 0, ok |-> TRUE, stop |-> FALSE], AliasDepth + 1)

(* An argument name=value is cut at its first '='.                         *)
Eq(arg) == Find(arg, 1, LAMBDA c : c = "=")
NameOf(arg) == SubSeq(arg, 1, Eq(arg) - 1)
ValueOf(arg) == SubSeq(arg, Eq(arg) + 1, Len(arg))
HasValue(arg) == Eq(arg) <= Len(arg)

(* alias takes its arguments one by one, and a bad one spoils the status   *)
(* and nothing else.  The listings are not modelled.                       *)
sh_builtin_alias(argv) ==
  LET fails(x) == [x EXCEPT !.status = 1]
      step(x, arg) ==
        IF ~HasValue(arg) THEN (IF arg \in DOMAIN x.al THEN x ELSE fails(x))
        ELSE IF ~sh_valid_alias_name(NameOf(arg)) \/ sh_alias_split(ValueOf(arg), env) = << >> THEN fails(x)
        ELSE [x EXCEPT !.al = Set(@, NameOf(arg), ValueOf(arg))]
  IN FoldLeft(step, [al |-> aliases, status |-> 0], Tail(argv))

sh_builtin_export(argv) ==
  LET step(x, arg) ==
        IF ~sh_valid_env_name(NameOf(arg)) THEN [x EXCEPT !.status = 1]
        ELSE IF HasValue(arg) THEN [x EXCEPT !.e = Set(@, NameOf(arg), ValueOf(arg))]
        ELSE IF arg \in DOMAIN x.e THEN x
        ELSE [x EXCEPT !.e = Set(@, arg, << >>)]
  IN FoldLeft(step, [e |-> env, status |-> 0], Tail(argv))

(* strtol skips blanks; the status is the number, or 2 for anything else.  *)
sh_builtin_exit(argv) ==
  LET arg == argv[2]
      digits == SubSeq(arg, Find(arg, 1, LAMBDA c : c \notin Blanks), Len(arg))
      value == FoldLeft(LAMBDA v, c : 10 * v + DigitValue[c], 0, digits)
  IN IF Len(argv) = 1 THEN 0
     ELSE IF digits = << >> \/ ~(Range(digits) \subseteq Digits) THEN 2
     ELSE IF value > 255 THEN 2 ELSE value

(* mutant: a quote is printed like any other character *)
MutQuote(c) == <<c>>

(* A character between single quotes; a quote closes and reopens them.     *)
Quote(c) == IF c = SQ THEN <<SQ, BS, SQ, SQ>> ELSE <<c>>

(* alias name='value'                                                      *)
sh_alias_print(name) ==
  <<"alias", " ">> \o name \o <<"=", SQ>>
    \o FlattenSeq([i \in DOMAIN aliases[name] |-> Quote(aliases[name][i])]) \o <<SQ>>

-----------------------------------------------------------------------------
(* sh_main.c *)

sh_err_to_exit_status(err) ==
  CASE err = SH_OK -> 0 [] err \in {SH_ERR_LEX, SH_ERR_PARSE} -> 2 [] OTHER -> 1

(* run_line returns.                                                       *)
Returns(status) ==
  /\ last' = status
  /\ pc' = IF mode = "-c" THEN "exited" ELSE "prompt"
  /\ line' = << >>
  /\ UNCHANGED mode

Leaves == UNCHANGED <<aliases, env, dir, cwd>>

Expand(cmds) == [i \in DOMAIN cmds |-> sh_alias_expand_cmd(cmds[i])]
Parsed == sh_parse_line(line, env)

(* The line cannot be parsed or is empty, or one of its commands, x, does  *)
(* not expand.                                                             *)
RunNothing(p, x) ==
  /\ \/ p.err # SH_OK /\ Returns(sh_err_to_exit_status(p.err))
     \/ p.err = SH_OK /\ p.cmds = << >> /\ Returns(0)
     \/ (\E i \in DOMAIN x : ~x[i].ok) /\ Returns(1)
  /\ Leaves

RunExit(argv) ==
  /\ argv[1] = <<"exit">>
  /\ last' = sh_builtin_exit(argv)
  /\ pc' = "exited" /\ line' = << >>
  /\ UNCHANGED mode /\ Leaves

(* chdir may fail, and getcwd after it.                                    *)
RunCd(argv) ==
  /\ argv[1] = <<"cd">>
  /\ \/ Returns(IF Len(argv) = 1 THEN 0 ELSE 1) /\ UNCHANGED <<dir, cwd>>
     \/ /\ Len(argv) > 1
        /\ \E d \in Dirs :
             /\ dir' = d
             /\ \/ cwd' = d /\ Returns(0)
                \/ UNCHANGED cwd /\ Returns(1)
  /\ UNCHANGED <<aliases, env>>

RunPwd(argv) == argv[1] = <<"pwd">> /\ Returns(0) /\ Leaves

RunAlias(argv) ==
  /\ argv[1] = <<"alias">>
  /\ \E done \in {sh_builtin_alias(argv)} : aliases' = done.al /\ Returns(done.status)
  /\ UNCHANGED <<env, dir, cwd>>

RunExport(argv) ==
  /\ argv[1] = <<"export">>
  /\ \E done \in {sh_builtin_export(argv)} : env' = done.e /\ Returns(done.status)
  /\ UNCHANGED <<aliases, dir, cwd>>

RunPipeline == (\E status \in Statuses : Returns(status)) /\ Leaves

Builtins == {<<"exit">>, <<"cd">>, <<"pwd">>, <<"alias">>, <<"export">>}

(* run_line: a command on its own may be a builtin; anything else goes to  *)
(* sh_pipeline_exec, builtins in a pipeline too.                           *)
RunLine ==
  /\ pc = "line"
  /\ \E p \in {Parsed} : \E x \in {Expand(p.cmds)} :
       LET runs == x # << >> /\ \A i \in DOMAIN x : x[i].ok
           argv == x[1].argv
       IN \/ RunNothing(p, x)
          \/ /\ runs /\ Len(x) = 1 /\ argv[1] \in Builtins
             /\ RunExit(argv) \/ RunCd(argv) \/ RunPwd(argv) \/ RunAlias(argv) \/ RunExport(argv)
          \/ runs /\ ~(Len(x) = 1 /\ argv[1] \in Builtins) /\ RunPipeline

ReadLine(l) ==
  /\ pc = "prompt"
  /\ pc' = "line" /\ line' = l
  /\ UNCHANGED <<mode, last>> /\ Leaves

(* The end of the input, or an error while reading it.                     *)
ReadEnd ==
  /\ pc = "prompt"
  /\ pc' = "exited"
  /\ last' \in {last, 1}
  /\ UNCHANGED <<mode, line>> /\ Leaves

Init ==
  /\ \/ mode = "-c" /\ pc = "line" /\ line \in Commands
     \/ mode \in {"script", "interactive"} /\ pc = "prompt" /\ line = << >>
  /\ aliases = << >> /\ env \in Envs
  /\ dir = Home
  /\ cwd = IF mode = "interactive" THEN dir ELSE None
  /\ last = 0

Next ==
  \/ \E l \in Lines : ReadLine(l)
  \/ ReadEnd
  \/ RunLine

Spec == Init /\ [][Next]_vars

-----------------------------------------------------------------------------
(* References *)

(* The grammar, on a whole sequence of tokens: commands between pipes, in  *)
(* each of them words and redirections, at least one word that is not the  *)
(* file of a redirection.                                                  *)
IsRedir(T, k) == k \in DOMAIN T /\ T[k].type \in Redirections
IsPipe(T, k) == k \in DOMAIN T /\ T[k].type = "PIPE"
Program(T, k) == T[k].type = "WORD" /\ ~IsRedir(T, k - 1)
SegmentOf(T, k) == Cardinality({j \in 1..(k - 1) : IsPipe(T, j)}) + 1

(* The tokens at which a parser that reads from the left must give up.     *)
BadAt(T, k) ==
  \/ IsRedir(T, k - 1) /\ T[k].type # "WORD"
  \/ IsPipe(T, k) /\ ~\E j \in 1..(k - 1) : Program(T, j) /\ SegmentOf(T, j) = SegmentOf(T, k)

Chosen(T, S) == [i \in 1..Cardinality(S) |->
                   T[CHOOSE k \in S : Cardinality({j \in S : j <= k}) = i]]
Texts(T) == [i \in DOMAIN T |-> T[i].text]

CommandsOf(T) ==
  IF T = << >> THEN << >>
  ELSE [n \in 1..SegmentOf(T, Len(T) + 1) |->
         LET mine == {k \in DOMAIN T : SegmentOf(T, k) = n}
             redirs == {k \in mine : IsRedir(T, k)}
         IN [argv |-> Texts(Chosen(T, {k \in mine : Program(T, k)})),
             redir_list |-> [i \in 1..Cardinality(redirs) |->
                <<Chosen(T, redirs)[i].type, Texts(Chosen(T, {k + 1 : k \in redirs}))[i]>>]]]

(* The quoting in force after each character of a line, up to its end.     *)
Context(s) ==
  LET after[k \in 0..Len(s)] ==
        LET c == s[k]
            x == after[k - 1]
        IN IF k = 0 THEN "plain"
           ELSE CASE x = "plain" -> (CASE c = SQ -> "single" [] c = DQ -> "double"
                                       [] c = BS -> "escape" [] c = "#" -> "comment"
                                       [] c = NL -> "end" [] OTHER -> "plain")
                  [] x = "escape" -> "plain"
                  [] x = "single" -> (IF c = SQ THEN "plain" ELSE "single")
                  [] x = "double" -> (CASE c = DQ -> "plain" [] c = BS -> "inner escape"
                                        [] OTHER -> "double")
                  [] x = "inner escape" -> (IF c = NL THEN "broken" ELSE "double")
                  [] x = "comment" -> (IF c = NL THEN "end" ELSE "comment")
                  [] x \in {"end", "broken"} -> x
  IN after

Unquoted(s, c) == {k \in DOMAIN s : s[k] = c /\ Context(s)[k - 1] = "plain"}
Terminated(s) == Context(s)[Len(s)] \notin {"single", "double", "inner escape", "broken"}

-----------------------------------------------------------------------------
(* Properties *)

(* What the grammar makes of a line that the lexer turned into the tokens  *)
(* T, with the error err after them.                                       *)
Grammatical(T, err, cmds) ==
  LET refused(code) == [err |-> code, cmds |-> << >>]
      cut == IsRedir(T, Len(T)) \/ \E n \in DOMAIN cmds : cmds[n].argv = << >>
  IN IF \E k \in DOMAIN T : BadAt(T, k) THEN refused(SH_ERR_PARSE)
     ELSE IF err # SH_OK THEN refused(err)
     ELSE IF cut THEN refused(SH_ERR_PARSE)
     ELSE [err |-> SH_OK, cmds |-> cmds]

(* The parser accepts exactly the pipelines of the grammar and gives each  *)
(* command its words and its redirections, in their order; otherwise it    *)
(* reports the first error from the left, the lexer's or its own.          *)
ParserExact ==
  pc = "line" =>
    \A lexed \in {Tokens(line, env)} :
      Parsed = Grammatical(lexed.toks, lexed.err, CommandsOf(lexed.toks))

(* Quoting protects: the operators the lexer finds are the unquoted ones   *)
(* of the line, so neither a quoted character nor the value of a variable  *)
(* is ever taken for one, and a line with an open quote is refused.        *)
QuotingExact ==
  pc = "line" =>
    \A lexed \in {Tokens(line, env)} :
      LET count(type) == Cardinality({k \in DOMAIN lexed.toks : lexed.toks[k].type = type})
      IN /\ ~Terminated(line) => lexed.err # SH_OK
         /\ lexed.err = SH_OK =>
              /\ count("PIPE") = Cardinality(Unquoted(line, "|"))
              /\ count("REDIR_IN") = Cardinality(Unquoted(line, "<"))
              /\ count("REDIR_OUT") + 2 * count("REDIR_APPEND") = Cardinality(Unquoted(line, ">"))

(* What alias prints can be read back: run as a line it defines the same   *)
(* alias, whatever the value quotes.  (A name may hold a '$', which would  *)
(* be expanded.)                                                           *)
AliasesReadBack ==
  \A name \in DOMAIN aliases : "$" \notin Range(name) =>
    sh_parse_line(sh_alias_print(name), env) =
      [err |-> SH_OK,
       cmds |-> <<[argv |-> << <<"alias">>, name \o <<"=">> \o aliases[name]>>, redir_list |-> << >>]>>]

(* The words of every alias, none where its value does not split any more. *)
Splits == [n \in DOMAIN aliases |-> sh_alias_split(aliases[n], env)]

(* The word in front after each expansion of n: as long as it is an alias  *)
(* it becomes the first word of the value, and a value that does not split *)
(* or that names itself is the last.                                       *)
Fronts(splits, n) ==
  LET goesOn(m) == splits[m] # << >> /\ splits[m][1] # m
      after[k \in 0..Cardinality(DOMAIN splits)] ==
        IF k = 0 THEN {n}
        ELSE {splits[m][1] : m \in {m \in after[k - 1] \cap DOMAIN splits : goesOn(m)}}
  IN after

(* The aliases expanded for n, and whether they never come to an end: more *)
(* expansions than there are aliases must repeat one.                      *)
Chain(splits, n) == UNION Range(Fronts(splits, n)) \cap DOMAIN splits
Circular(splits, n) == Fronts(splits, n)[Cardinality(DOMAIN splits)] \cap DOMAIN splits # {}

(* What stands between a command and its expansion: aliases that name each *)
(* other in a circle, a value that does not split any more, or more        *)
(* aliases one behind the other than the limit allows.                     *)
Unexpandable(splits, n) ==
  \/ Circular(splits, n)
  \/ \E m \in Chain(splits, n) : splits[m] = << >>
  \/ Cardinality(Chain(splits, n)) > AliasDepth

(* What argv expands to, x, is no alias or one that names itself, with the *)
(* arguments of argv; or there is a reason for expansion to fail.          *)
ExpandedWell(splits, argv, x) ==
  /\ x.ok = ~Unexpandable(splits, argv[1])
  /\ x.ok =>
       /\ x.argv[1] \in DOMAIN splits => splits[x.argv[1]] # << >> /\ splits[x.argv[1]][1] = x.argv[1]
       /\ Len(x.argv) >= Len(argv)
       /\ SubSeq(x.argv, Len(x.argv) - Len(argv) + 2, Len(x.argv)) = Tail(argv)

(* Alias expansion ends, with a command that is no alias or one that names *)
(* itself, and keeps the arguments.  It fails exactly where the aliases of *)
(* that command run in a circle, where one of them cannot be split any     *)
(* more, and where a chain that would end is longer than the limit.        *)
ExpansionSound ==
  LET wellIn(cmds) ==
        \A i \in DOMAIN cmds : ExpandedWell(Splits, cmds[i].argv, sh_alias_expand_cmd(cmds[i]))
  IN pc = "line" => wellIn(Parsed.cmds)

(* The lexer's errors mean what they say: "unterminated quote" that a      *)
(* quote is not terminated, "out of memory" that an allocation failed,     *)
(* and none fails here.                                                    *)
ErrorsAreReal ==
  pc = "line" =>
    \A p \in {Parsed} : /\ p.err = SH_ERR_LEX => ~Terminated(line)
                        /\ p.err # SH_ERR_NOMEM
=============================================================================
