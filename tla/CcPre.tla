-------------------------------- MODULE CcPre -------------------------------
(***************************************************************************)
(* The directives of the preprocessor of cc (src/src/cmd/cc/preprocess.c): *)
(* conditionals across included files, the table of macros, and the        *)
(* evaluator of #if.                                                       *)
(*                                                                         *)
(* The lines of the files are not fixed in advance: the next line of the   *)
(* file that is being read may be any of Lines, or the end of the file.    *)
(* A line is [d, n, text]: directive, name, and text or expression.        *)
(***************************************************************************)
EXTENDS Integers, Sequences, FiniteSets, SequencesExt, Bitwise

CONSTANTS
  Lines, MaxLines,
  CliMacros,   \* what -D and -U on the command line may be: sequences of [undef, n, body]
  Places,      \* the directories that have the included file: sets
  Path,        \* the search path of <file>: . /usr/include, -I
  PP_MAX_INCLUDE, PP_MAX_EXPAND

VARIABLES
  files,       \* files being read, innermost last: [dir, floor]
  conds,       \* open conditionals: [parent, active, taken, seen_else]
  macros,      \* names of macros to bodies
  out,         \* lines of the output
  ppc,         \* "read", "done", or the message of fatal
  cli,         \* the options -D and -U
  log          \* the lines read: [line, active]

ppvars == <<files, conds, macros, out, ppc, cli, log>>

None == [x \in {} |-> << >>]

-----------------------------------------------------------------------------
(* #if: an expression is a sequence of characters, where a number or a     *)
(* name counts as one.                                                     *)

Number == [c \in {"0", "1", "2", "3", "5"} |->
             CASE c = "0" -> 0 [] c = "1" -> 1 [] c = "2" -> 2 [] c = "3" -> 3 [] OTHER -> 5]
Letters == {"A", "B", "defined"}
TwoOps == {<<"&", "&">>, <<"|", "|">>, <<"=", "=">>, <<"!", "=">>, <<"<", "=">>, <<">", "=">>,
           <<"<", "<">>, <<">", ">">>}

(* long, scaled: the bit operators on two's complement.                    *)
Width == 2 ^ 12
Signed(v) == IF v >= Width \div 2 THEN v - Width ELSE v
Quot(a, b) == IF (a >= 0) = (b > 0) THEN (IF a < 0 THEN -a ELSE a) \div (IF b < 0 THEN -b ELSE b)
              ELSE -((IF a < 0 THEN -a ELSE a) \div (IF b < 0 THEN -b ELSE b))
Bool(b) == IF b THEN 1 ELSE 0

Result(op, v, r) ==
  CASE op = <<"*">> -> v * r
    [] op = <<"/">> -> Quot(v, r)
    [] op = <<"%">> -> v - r * Quot(v, r)
    [] op = <<"+">> -> v + r
    [] op = <<"-">> -> v - r
    [] op = <<"<", "<">> -> IF r \in 0 .. 11 THEN v * 2 ^ r ELSE 0  \* a larger count is undefined
    [] op = <<">", ">">> -> IF r \in 0 .. 11 THEN v \div 2 ^ r ELSE 0
    [] op = <<"<">> -> Bool(v < r)
    [] op = <<"<", "=">> -> Bool(v <= r)
    [] op = <<">">> -> Bool(v > r)
    [] op = <<">", "=">> -> Bool(v >= r)
    [] op = <<"=", "=">> -> Bool(v = r)
    [] op = <<"!", "=">> -> Bool(v # r)
    [] op = <<"&">> -> Signed((v % Width) & (r % Width))
    [] op = <<"^">> -> Signed((v % Width) ^^ (r % Width))
    [] op = <<"|">> -> Signed((v % Width) | (r % Width))
    [] op = <<"&", "&">> -> Bool(v # 0 /\ r # 0)
    [] op = <<"|", "|">> -> Bool(v # 0 \/ r # 0)

(* pp_next: the token at the head of the text.                             *)
pp_next(s) == IF Len(s) >= 2 /\ <<s[1], s[2]>> \in TwoOps THEN <<s[1], s[2]>> ELSE IF s = << >> THEN s ELSE <<s[1]>>
After(s) == SubSeq(s, Len(pp_next(s)) + 1, Len(s))

(* pp_or, pp_and, pp_bor, ... pp_mul: the operators of each level.         *)
Level == << {<<"|", "|">>}, {<<"&", "&">>}, {<<"|">>}, {<<"^">>}, {<<"&">>}, {<<"=", "=">>, <<"!", "=">>},
            {<<"<">>, <<"<", "=">>, <<">">>, <<">", "=">>}, {<<"<", "<">>, <<">", ">">>},
            {<<"+">>, <<"-">>}, {<<"*">>, <<"/">>, <<"%">>} >>

Value(v, rest) == [err |-> "", v |-> v, rest |-> rest]
Error(why) == [err |-> why, v |-> 0, rest |-> << >>]
Map1(r, v) == [r EXCEPT !.v = v]

RECURSIVE pp_level(_, _, _, _, _)
RECURSIVE pp_eval_text(_, _, _)

Closed(r) == IF r.err # "" THEN r
             ELSE IF pp_next(r.rest) = <<")">> THEN [r EXCEPT !.rest = After(r.rest)] ELSE Error("expected ')'")

Defined(m, s, paren, eval) ==
  IF s = << >> \/ s[1] \notin Letters THEN Error("expected identifier after defined")
  ELSE IF paren THEN Closed(Value(IF eval THEN Bool(s[1] \in DOMAIN m) ELSE 0, Tail(s)))
  ELSE Value(IF eval THEN Bool(s[1] \in DOMAIN m) ELSE 0, Tail(s))

MacroValue(r, rest) == IF r.err # "" THEN r ELSE [r EXCEPT !.rest = rest]

pp_primary(m, s, eval, depth) ==
  IF s = << >> THEN Error("expected expression")
  ELSE IF s[1] \in DOMAIN Number THEN Value(IF eval THEN Number[s[1]] ELSE 0, Tail(s))
  ELSE IF s[1] = "defined"
  THEN IF pp_next(Tail(s)) = <<"(">> THEN Defined(m, After(Tail(s)), TRUE, eval) ELSE Defined(m, Tail(s), FALSE, eval)
  ELSE IF s[1] \in Letters
  THEN IF eval /\ s[1] \in DOMAIN m THEN MacroValue(pp_eval_text(m, m[s[1]], depth + 1), Tail(s)) ELSE Value(0, Tail(s))
  ELSE IF s[1] = "(" THEN Closed(pp_level(1, m, Tail(s), eval, depth))
  ELSE Error("expected expression")

RECURSIVE pp_unary(_, _, _, _)
Unary(op, r, eval) ==
  IF r.err # "" \/ ~eval THEN r
  ELSE CASE op = "!" -> Map1(r, Bool(r.v = 0)) [] op = "~" -> Map1(r, -r.v - 1)
         [] op = "-" -> Map1(r, -r.v) [] OTHER -> r
pp_unary(m, s, eval, depth) ==
  IF pp_next(s) \in {<<"!">>, <<"~">>, <<"+">>, <<"-">>} THEN Unary(s[1], pp_unary(m, Tail(s), eval, depth), eval)
  ELSE pp_primary(m, s, eval, depth)

(* The operand on the right is skipped when the one on the left decides.   *)
Evaluates(k, eval, v) == eval /\ (k = 1 => v = 0) /\ (k = 2 => v # 0)

RECURSIVE pp_rest(_, _, _, _, _)
Combined(k, m, op, left, r, eval, depth) ==
  IF r.err # "" THEN r
  ELSE IF eval /\ op \in {<<"/">>, <<"%">>} /\ r.v = 0 THEN Error("division by zero")
  ELSE pp_rest(k, m, Map1(r, IF eval THEN Result(op, left.v, r.v) ELSE 0), eval, depth)
pp_rest(k, m, left, eval, depth) ==
  IF left.err # "" \/ pp_next(left.rest) \notin Level[k] THEN left
  ELSE Combined(k, m, pp_next(left.rest), left,
                pp_level(k + 1, m, After(left.rest), Evaluates(k, eval, left.v), depth), eval, depth)
pp_level(k, m, s, eval, depth) ==
  IF k > Len(Level) THEN pp_unary(m, s, eval, depth)
  ELSE pp_rest(k, m, pp_level(k + 1, m, s, eval, depth), eval, depth)

Complete(r) == IF r.err = "" /\ r.rest # << >> THEN Error("unexpected token") ELSE r
pp_eval_text(m, text, depth) ==
  IF depth > PP_MAX_EXPAND THEN Error("too deep") ELSE Complete(pp_level(1, m, text, TRUE, depth))

-----------------------------------------------------------------------------
(* The files *)

pp_active == conds = << >> \/ Last(conds).active
Floor == Last(files).floor

define_macro(m, name, body) == [x \in DOMAIN m \cup {name} |-> IF x = name THEN body ELSE m[x]]
undef_macro(m, name) == [x \in DOMAIN m \ {name} |-> m[x]]
apply_cli_macros(options) ==
  FoldLeft(LAMBDA m, c : IF c.undef THEN undef_macro(m, c.n) ELSE define_macro(m, c.n, c.body), None, options)

Init ==
  /\ files = <<[dir |-> "src", floor |-> 0]>> /\ conds = << >> /\ out = << >> /\ ppc = "read" /\ log = << >>
  /\ cli \in CliMacros /\ macros = apply_cli_macros(cli)

Reads(line) ==
  /\ ppc = "read" /\ Len(log) < MaxLines /\ line \in Lines
  /\ log' = Append(log, [line |-> line, active |-> pp_active]) /\ UNCHANGED cli

Dies(why) == ppc' = why /\ UNCHANGED <<files, conds, macros, out>>

push_cond(parent, active) ==
  conds' = Append(conds, [parent |-> parent, active |-> active, taken |-> active, seen_else |-> FALSE])

Text(line) ==
  /\ line.d = "text" /\ Reads(line)
  /\ out' = IF pp_active THEN Append(out, line.text) ELSE out
  /\ UNCHANGED <<files, conds, macros, ppc>>

Define(line) ==
  /\ line.d \in {"define", "undef"} /\ Reads(line)
  /\ macros' = IF ~pp_active THEN macros
               ELSE IF line.d = "undef" THEN undef_macro(macros, line.n) ELSE define_macro(macros, line.n, line.text)
  /\ UNCHANGED <<files, conds, out, ppc>>

Ifdef(line) ==
  /\ line.d \in {"ifdef", "ifndef"} /\ Reads(line)
  /\ push_cond(pp_active, pp_active /\ ((line.n \in DOMAIN macros) = (line.d = "ifdef")))
  /\ UNCHANGED <<files, macros, out, ppc>>

If(line) ==
  /\ line.d = "if" /\ Reads(line)
  /\ \E r \in {IF pp_active THEN pp_eval_text(macros, line.text, 0) ELSE Value(0, << >>)} :
       IF r.err # "" THEN Dies(r.err)
       ELSE push_cond(pp_active, pp_active /\ r.v # 0) /\ UNCHANGED <<files, macros, out, ppc>>

Top(c) == conds' = [conds EXCEPT ![Len(conds)] = c] /\ UNCHANGED <<files, macros, out, ppc>>

(* mutant: the first condition that held is forgotten *)
MutElif(line) ==
  /\ line.d = "elif" /\ Reads(line)
  /\ IF Len(conds) = Floor THEN Dies("unexpected #elif")
     ELSE IF Last(conds).seen_else THEN Dies("#elif after #else")
     ELSE IF Last(conds).parent
     THEN \E r \in {pp_eval_text(macros, line.text, 0)} :
            IF r.err # "" THEN Dies(r.err) ELSE Top([Last(conds) EXCEPT !.active = r.v # 0, !.taken = @ \/ r.v # 0])
     ELSE Top([Last(conds) EXCEPT !.active = FALSE])

Elif(line) ==
  /\ line.d = "elif" /\ Reads(line)
  /\ IF Len(conds) = Floor THEN Dies("unexpected #elif")
     ELSE IF Last(conds).seen_else THEN Dies("#elif after #else")
     ELSE IF Last(conds).parent /\ ~Last(conds).taken
     THEN \E r \in {pp_eval_text(macros, line.text, 0)} :
            IF r.err # "" THEN Dies(r.err) ELSE Top([Last(conds) EXCEPT !.active = r.v # 0, !.taken = r.v # 0])
     ELSE Top([Last(conds) EXCEPT !.active = FALSE])

Else(line) ==
  /\ line.d = "else" /\ Reads(line)
  /\ IF Len(conds) = Floor THEN Dies("unexpected #else")
     ELSE IF Last(conds).seen_else THEN Dies("duplicate #else")
     ELSE Top([Last(conds) EXCEPT !.seen_else = TRUE, !.active = Last(conds).parent /\ ~Last(conds).taken,
                                 !.taken = TRUE])

Endif(line) ==
  /\ line.d = "endif" /\ Reads(line)
  /\ IF Len(conds) = Floor THEN Dies("unexpected #endif")
     ELSE conds' = Front(conds) /\ UNCHANGED <<files, macros, out, ppc>>

ErrorLine(line) ==
  /\ line.d = "error" /\ Reads(line)
  /\ IF pp_active THEN Dies("#error") ELSE UNCHANGED <<files, conds, macros, out, ppc>>

(* "file" is looked for next to the file that includes it first.           *)
load_include(quoted, dir, present) ==
  SelectSeq((IF quoted THEN <<dir>> ELSE << >>) \o Path, LAMBDA d : d \in present)

Enter(dirs) ==
  IF dirs = << >> THEN Dies("cannot find include")
  ELSE IF Len(files) > PP_MAX_INCLUDE THEN Dies("include nesting too deep")
  ELSE files' = Append(files, [dir |-> dirs[1], floor |-> Len(conds)]) /\ UNCHANGED <<conds, macros, out, ppc>>

pp_include(line) ==
  /\ line.d = "include" /\ Reads(line)
  /\ \E present \in Places :
       IF pp_active THEN Enter(load_include(line.n = "quoted", Last(files).dir, present))
       ELSE UNCHANGED <<files, conds, macros, out, ppc>>

EndOfFile ==
  /\ ppc = "read" /\ UNCHANGED <<conds, macros, out, cli>>
  /\ log' = Append(log, [line |-> [d |-> "eof", n |-> "", text |-> << >>], active |-> pp_active])
  /\ IF Len(conds) # Floor THEN ppc' = "unterminated conditional" /\ UNCHANGED files
     ELSE IF Len(files) = 1 THEN ppc' = "done" /\ UNCHANGED files
     ELSE files' = Front(files) /\ UNCHANGED ppc

Next ==
  \/ \E line \in Lines : \/ Text(line) \/ Define(line) \/ Ifdef(line) \/ If(line) \/ Elif(line) \/ Else(line)
                         \/ Endif(line) \/ ErrorLine(line) \/ pp_include(line)
  \/ EndOfFile

-----------------------------------------------------------------------------
(* Reference for conditionals: the nesting of the lines that were read.    *)

Opens == {"if", "ifdef", "ifndef"}
Is(k, ds) == log[k].line.d \in ds
Count(ks, ds) == Len(SelectSeq(ks, LAMBDA k : Is(k, ds)))
Lines1(i) == [k \in 1 .. i - 1 |-> k]
Depth(i) == Count(Lines1(i), Opens) - Count(Lines1(i), {"endif"})

(* The macros before line i, by the defines in force.                      *)
InForce(i, n) ==
  {k \in 1 .. i - 1 : log[k].active /\ Is(k, {"define", "undef"}) /\ log[k].line.n = n}
LatestOf(ks) == CHOOSE k \in ks : \A j \in ks : j <= k
CliOf(n) == {k \in DOMAIN cli : cli[k].n = n}
DefinedAt(i, n) ==
  IF InForce(i, n) # {} THEN Is(LatestOf(InForce(i, n)), {"define"}) ELSE CliOf(n) # {} /\ ~cli[LatestOf(CliOf(n))].undef
BodyAt(i, n) == IF InForce(i, n) # {} THEN log[LatestOf(InForce(i, n))].line.text ELSE cli[LatestOf(CliOf(n))].body
MacrosAt(i) == [n \in {x \in Letters : DefinedAt(i, x)} |-> BodyAt(i, n)]

(* The branch of level d that line i is in, and the one that began the     *)
(* group of a branch.                                                      *)
Heads(i, d) == {k \in 1 .. i - 1 : (Is(k, Opens) /\ Depth(k) = d - 1) \/ (Is(k, {"elif", "else"}) /\ Depth(k) = d)}
Group(i, d) == LatestOf({k \in Heads(i, d) : Is(k, Opens)})
Holds(k) ==
  CASE log[k].line.d = "else" -> TRUE
    [] log[k].line.d = "ifdef" -> DefinedAt(k, log[k].line.n)
    [] log[k].line.d = "ifndef" -> ~DefinedAt(k, log[k].line.n)
    [] OTHER -> pp_eval_text(MacrosAt(k), log[k].line.text, 0).v # 0
(* A group is read where its first line is; of its branches, the first     *)
(* whose condition holds.                                                  *)
Selected(i, d) ==
  /\ log[Group(i, d)].active
  /\ Holds(LatestOf(Heads(i, d)))
  /\ \A k \in Heads(i, d) : Group(i, d) <= k /\ k < LatestOf(Heads(i, d)) => ~Holds(k)

(* The line before the first one of the file that line i is in.            *)
Includes(i, k) == Is(k, {"include"}) /\ log[k].active
Inside(i, k) == Len(SelectSeq(Lines1(i), LAMBDA j : j > k /\ Includes(i, j)))
FileStart(i) ==
  LET open == {k \in 1 .. i - 1 : Includes(i, k) /\ Inside(i, k) = Cardinality({j \in k + 1 .. i - 1 : Is(j, {"eof"})})}
  IN IF open = {} THEN 1 ELSE LatestOf(open) + 1

Misplaced(i) ==
  \/ Is(i, {"elif", "else", "endif"}) /\ Depth(i) = Depth(FileStart(i))
  \/ Is(i, {"elif", "else"}) /\ Depth(i) > 0 /\ \E k \in Heads(i, Depth(i)) : k > Group(i, Depth(i)) /\ Is(k, {"else"})
  \/ Is(i, {"eof"}) /\ Depth(i) # Depth(FileStart(i))

(* A line is compiled iff it is in the branch that C selects of every      *)
(* group around it, the macros are those of the defines in such lines, and *)
(* a conditional that does not close in its own file, or is out of place,  *)
(* is an error, whatever the files include and define.                     *)
ConditionalsExact ==
  /\ log # << >> =>
       \A i \in {Len(log)} :
         /\ log[i].active = \A d \in 1 .. Depth(i) : Selected(i, d)
         /\ Misplaced(i) = (ppc \in {"unexpected #elif", "unexpected #else", "unexpected #endif",
                                     "#elif after #else", "duplicate #else", "unterminated conditional"})
  /\ ppc \in {"read", "done"} => macros = MacrosAt(Len(log) + 1)
  /\ out = [k \in 1 .. Len(out) |-> SelectSeq(log, LAMBDA e : e.active /\ e.line.d = "text")[k].line.text]
  /\ ppc = "done" => conds = << >>

-----------------------------------------------------------------------------
(* Reference for #if: trees, and what C says they mean.                    *)

Leaf(c) == [op |-> << >>, c |-> c]
Node(op, l, r) == [op |-> op, l |-> l, r |-> r]
Minus(l) == [op |-> <<"-">>, l |-> l]
IsLeaf(t) == t.op = << >>
IsUnary(t) == ~IsLeaf(t) /\ DOMAIN t = {"op", "l"}
Binds(op) ==  \* C: how tightly a binary operator binds
  CASE op \in {<<"*">>, <<"/">>, <<"%">>} -> 10 [] op \in {<<"+">>, <<"-">>} -> 9
    [] op \in {<<"<", "<">>, <<">", ">">>} -> 8
    [] op \in {<<"<">>, <<">">>, <<"<", "=">>, <<">", "=">>} -> 7 [] op \in {<<"=", "=">>, <<"!", "=">>} -> 6
    [] op = <<"&">> -> 5 [] op = <<"^">> -> 4 [] op = <<"|">> -> 3 [] op = <<"&", "&">> -> 2 [] op = <<"|", "|">> -> 1
BinaryOps == UNION {Level[k] : k \in DOMAIN Level}
Strength(t) == IF IsLeaf(t) \/ IsUnary(t) THEN 11 ELSE Binds(t.op)

(* A tree as text, with the parentheses it needs and no other.             *)
RECURSIVE Printed(_, _)
Printed(t, least) ==
  IF Strength(t) < least THEN <<"(">> \o Printed(t, 0) \o <<")">>
  ELSE IF IsLeaf(t) THEN t.c
  ELSE IF IsUnary(t) THEN t.op \o Printed(t.l, 11)
  ELSE Printed(t.l, Binds(t.op)) \o t.op \o Printed(t.r, Binds(t.op) + 1)

RECURSIVE Meaning(_)
Leaves == [c \in {<<"0">>, <<"1">>, <<"2">>, <<"3">>, <<"5">>, <<"A">>, <<"B">>, <<"defined", "A">>, <<"defined", "(", "B", ")">>} |->
             IF c = <<"A">> THEN 3 ELSE IF c = <<"B">> THEN 0 ELSE IF c = <<"defined", "A">> THEN 1
             ELSE IF Len(c) = 1 THEN Number[c[1]] ELSE 0]
Meaning2(op, l, r) ==
  IF l.err # "" THEN l
  ELSE IF (op = <<"|", "|">> /\ l.v # 0) \/ (op = <<"&", "&">> /\ l.v = 0) THEN Value(Bool(l.v # 0), << >>)
  ELSE IF r.err # "" THEN r
  ELSE IF op \in {<<"/">>, <<"%">>} /\ r.v = 0 THEN Error("division by zero")
  ELSE Value(Result(op, l.v, r.v), << >>)
Meaning(t) ==
  IF IsLeaf(t) THEN Value(Leaves[t.c], << >>)
  ELSE IF IsUnary(t) THEN Unary(t.op[1], Meaning(t.l), TRUE)
  ELSE Meaning2(t.op, Meaning(t.l), Meaning(t.r))

(* #if gives an expression its value in C: precedence, associativity, and  *)
(* a division by zero only where the operand is evaluated.                 *)
IfExact(t) ==
  pp_eval_text([n \in {"A"} |-> <<"1", "+", "2">>], Printed(t, 0), 0) = Meaning(t)
=============================================================================
