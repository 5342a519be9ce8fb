-------------------------------- MODULE MCCc --------------------------------
(***************************************************************************)
(* The C compiler.  A behaviour has one job: a text for the comment        *)
(* stripper or the lexer, a table of macros and a text, an expression of   *)
(* #if, a struct to lay out, the lines of a file to preprocess, or a       *)
(* program that is compiled, linked and run, an instruction at a time.     *)
(***************************************************************************)
EXTENDS CcPrograms, FiniteSets

CONSTANTS MaxSteps, \* no program of this module runs longer
          MaxText,  \* length of the texts of the lexer; one more for comments
          MaxLines

VARIABLES job, cpu, files, conds, macros, out, ppc, cli, log

----------------------------------------------------------------------------
(* Inputs of the preprocessor and the lexer.                               *)

Line(d, n, text) == [d |-> d, n |-> n, text |-> text]
Lines == {Line("define", "A", <<"1">>), Line("undef", "A", <<>>), Line("ifdef", "A", <<>>),
          Line("ifndef", "A", <<>>), Line("if", "", <<"A", "/", "A">>),
          Line("elif", "", <<"A", "=", "=", "1">>), Line("else", "", <<>>),
          Line("endif", "", <<>>), Line("include", "quoted", <<>>),
          Line("text", "", <<"t">>), Line("error", "", <<>>)}
Option(undef) == [undef |-> undef, n |-> "A", body |-> <<"1">>]
CliMacros == {<<Option(FALSE)>>, <<Option(FALSE), Option(TRUE)>>}
Places == {{"src"}, {"inc"}, {}}
Path == <<".", "inc">>
PP_MAX_INCLUDE == 1
PP_MAX_EXPAND == 6
P == INSTANCE CcPre

LeftLeaves == {P!Leaf(<<"0">>), P!Leaf(<<"2">>), P!Leaf(<<"5">>)}
RightLeaves == {P!Leaf(<<"3">>), P!Leaf(<<"A">>), P!Leaf(<<"defined", "A">>),
          P!Leaf(<<"defined", "(", "B", ")">>), P!Minus(P!Leaf(<<"1">>))}
Conditions(o, q, x, y, z) ==
    {P!Node(o, P!Node(q, x, y), z), P!Node(o, x, P!Node(q, y, z)), P!Minus(P!Node(o, x, z))}

M == INSTANCE CcMacro
Obj(body) == [func |-> FALSE, params |-> <<>>, variadic |-> FALSE, body |-> body]
Fun(params, variadic, body) ==
    [func |-> TRUE, params |-> params, variadic |-> variadic, body |-> body]
Tables ==
    {("A" :> Obj(x)) @@ ("B" :> Obj(y)) @@ ("F" :> f) :
        x \in {<<>>, <<"B">>, <<"A">>, <<"F", "(", "1", ")">>, <<"1", "+", "B">>},
        y \in {<<"2">>, <<"A">>, <<"F">>},
        f \in {Fun(<<"x">>, FALSE, <<"x", "x">>), Fun(<<"x">>, FALSE, <<"F", "(", "x", ")">>),
               Fun(<<"x">>, FALSE, <<"A", "\"", "x", "\"">>),
               Fun(<<"x", "y">>, FALSE, <<"y", "-", "x">>),
               Fun(<<"x">>, TRUE, <<"x", "[", "__VA_ARGS__", "]">>),
               Fun(<<>>, TRUE, <<"B", "(", "__VA_ARGS__", ")">>), Fun(<<>>, FALSE, <<"A">>)}}
Arguments == BoundedSeq({"A", ",", "\"", "("}, 2)
                 \cup {<<"F", "(", "A", ")">>, <<"F", "(", "(", ",", ")", ",", "B", ")">>,
                       <<" ", "A", " ", ",", "F">>, <<"F", "(", ")", ",", "1">>}
Uses == {<<"F", "(">> \o x \o <<")">> : x \in Arguments}
            \cup {<<"A", "B">>, <<"F", " ", "(", "A", ")", "B">>, <<"F">>, <<"F", "A">>,
                  <<"A", "(", "1", ")">>, <<"\"", "A", "\"", "A">>}

L == INSTANCE CcLex
\* Any short text, and texts around one comment or two.
Beside == BoundedSeq({"a", " ", L!NL, "/", "\""}, MaxText - 2)
Comment(t) == <<"/", "*">> \o t \o <<"*", "/">>
Commented ==
    BoundedSeq({"/", "*", L!NL, "\"", "\\", "a"}, MaxText + 1)
        \cup {x \o Comment(t) \o y : x, y \in Beside, t \in BoundedSeq({L!NL, "/"}, 1)}
        \cup {<<"a">> \o Comment(t) \o x \o Comment(r) \o <<"a">> :
                 x \in BoundedSeq({" ", L!NL}, 1), t, r \in BoundedSeq({L!NL, "/"}, 1)}
\* The lexer never sees a line that is continued: splice_lines joined it.
Lexed == {t \in BoundedSeq({"<", "=", "/", "*", "0", "8", "x", "a", "L", "'", "\"", "\\", L!NL}, MaxText) :
             \A i \in 1 .. Len(t) - 1 : <<t[i], t[i + 1]>> # <<"\\", L!NL>>}
             \cup BoundedSeq({"<", "=", ">", "-"}, MaxText + 2)
             \cup {<<q>> \o t \o <<q>> : q \in {"'", "\""},
                     t \in BoundedSeq({"\\", "x", "a", "0", "8", "'", "\""}, MaxText - 1)}

----------------------------------------------------------------------------
(* Programs: compiled and linked, then run.                                *)

SeveralUnits == SelectSeq(Whole, LAMBDA p : Len(p.units) > 1)
Reordered == [k \in DOMAIN SeveralUnits |->
                 [SeveralUnits[k] EXCEPT !.units = Reverse(@)]]
Linkable == Whole \o Reordered \o Initialisers
Jobs == Linkable \o Expressions \o Operators \o Statements
            \o [k \in DOMAIN Refused |-> Refuses(Refused[k])]
Compiled(p) == [k \in DOMAIN p.units |-> compile_source(p.units[k], k)]
Outcome(p) == [refused |-> p.refused, status |-> p.status, out |-> p.out]
Idle == [status |-> "idle", n |-> 0]

\* Three members, the second of them a struct or a union of two.
MemberTypes == {<<"char">>, <<"short">>, <<"int">>, <<"long">>}
Suffixes1 == {<<>>, <<"[", "3", "]">>}
Structs == (MemberTypes \X Suffixes1) \X {"struct", "union"} \X (MemberTypes \X Suffixes1)
               \X (MemberTypes \X Suffixes1)
Field(d, name) == d[1] \o <<name>> \o d[2] \o <<";">>
StructText(t) ==
    <<"struct", "s", "{">> \o Field(t[1], "x") \o <<t[2], "{">> \o Field(t[3], "y")
        \o Field(t[4], "z") \o <<"}", "w", ";", "char", "v", ";", "}", ";">>
Aggregates(t) == parse_translation_unit(Start(Source(StructText(t)), 1)).aggs

----------------------------------------------------------------------------

ppvars == <<files, conds, macros, out, ppc, cli, log>>
NoFile == /\ files = <<>> /\ conds = <<>> /\ macros = <<>> /\ out = <<>> /\ ppc = "none"
          /\ cli = <<>> /\ log = <<>>
Init ==
    \/ job = <<"file">> /\ P!Init /\ cpu = Idle
    \/ /\ NoFile /\ cpu = Idle
       /\ \/ \E t \in Commented : job = <<"strip", t>>
          \/ \E t \in Lexed : job = <<"lex", t>>
          \/ \E t \in Tables, use \in Uses : job = <<"expand", t, use>>
          \/ \E o, q \in P!BinaryOps, x, y \in LeftLeaves, z \in RightLeaves :
                \E t \in Conditions(o, q, x, y, z) : job = <<"if", t>>
          \/ \E t \in Structs : job = <<"struct", Aggregates(t)>>
    \/ /\ NoFile
       /\ \E i \in DOMAIN Jobs : \E units \in {Compiled(Jobs[i])} :
          \E image \in {link_and_write(units)} :
             \/ /\ job = <<"program", Outcome(Jobs[i]), image.entry>>
                /\ cpu = IF image.err THEN [Idle EXCEPT !.status = "refused"] ELSE Boot(image)
             \/ i \in DOMAIN Linkable /\ job = <<"link", units, image>> /\ cpu = Idle
Preprocess == P!Next /\ UNCHANGED <<job, cpu>>
Run == /\ cpu.status = "running" /\ cpu.n <= MaxSteps
       /\ cpu' = CpuStep(cpu)
       /\ UNCHANGED <<job, files, conds, macros, out, ppc, cli, log>>
Next == Preprocess \/ Run

\* One unit calls puts, and another one defines it.
OwnPuts ==
    Runs(<<Source(<<"int", "puts", "(", "const", "char", "*", "s", ")", ";", "int", "main", "(",
                    ")", "{", "return", "puts", "(", "S12", ")", ";", "}">>),
           Source(<<"int", "puts", "(", "const", "char", "*", "s", ")", "{", "return", "5", ";",
                    "}">>)>>, 5, <<>>)
InitOwnPuts ==
    /\ NoFile /\ job = <<"own puts">>
    /\ cpu = Boot(link_and_write(Compiled(OwnPuts)))

----------------------------------------------------------------------------

\* What the code before the parser does: comments go, lines keep their numbers
\* and white space separates what it does in C, but for the comments listed in
\* Joined (strip_comments); every character belongs to one token, the longest,
\* with the value C gives it, but for what CcLex lists as taken beyond C
\* (lex_all); macros expand to what the outermost-first order gives and never
\* run away (expand_into); #if computes C's value (pp_eval_text).
FrontEndExact ==
    CASE job[1] = "strip" -> M!StripExact(job[2])
      [] job[1] = "lex" -> L!LexExact(job[2])
      [] job[1] = "expand" -> M!MacroExact(job[2], job[3])
      [] job[1] = "if" -> P!IfExact(job[2])
      [] OTHER -> TRUE

\* pp_process: a line is compiled iff C selects every branch around it,
\* whatever is included and defined on the way; a conditional that does not
\* close in its own file is an error.
ConditionalsExact == P!ConditionalsExact

\* A program compiled, linked and run exits with the status, and writes the
\* bytes, that C gives it; on the way it touches no memory but its own and
\* leaves its code nowhere; main returns with the stack and frame pointers it
\* was called with; what C forbids is refused.
CodeMeansSource ==
    job[1] = "program" =>
        /\ (cpu.status = "refused") = job[2].refused
        /\ cpu.status # "wild" /\ cpu.n <= MaxSteps
        /\ cpu.status = "exit" => /\ cpu.x[A0] = job[2].status
                                  /\ cpu.out = job[2].out
        /\ cpu.status = "running" /\ cpu.pc = job[3] + 4 =>
               cpu.x[SP] = StackTop /\ cpu.x[S0] = 0

\* docs/cc.md: a name is built in only if the user did not define a function
\* of that name; so a call of puts reaches the program's own puts (gen_call).
UserFunctionCalled ==
    cpu.status = "exit" => cpu.x[A0] = OwnPuts.status /\ cpu.out = OwnPuts.out

\* Objects of the image: no two data or bss symbols share a byte, each is
\* where its alignment and its section allow.
Placement(units, lay) ==
    UNION {{[at |-> Addr(lay, i, units[i].syms[j]), sym |-> units[i].syms[j], id |-> <<i, j>>] :
                j \in {k \in DOMAIN units[i].syms : /\ units[i].syms[k].defined
                                                    /\ units[i].syms[k].sec # "text"}} :
           i \in DOMAIN units}
PlacedApart(units, lay) ==
    \A p, q \in Placement(units, lay) :
        /\ p.at % p.sym.align = 0
        /\ p.sym.sec = "data" => p.at >= lay.data[1] /\ p.at + p.sym.size <= lay.file_end
        /\ p.sym.sec = "bss" => p.at >= lay.file_end /\ p.at + p.sym.size <= lay.end
        /\ p.id # q.id => p.at + p.sym.size <= q.at \/ q.at + q.sym.size <= p.at
\* A unit that went through its object file; a file cut short or too long.
Reread(units) == [k \in DOMAIN units |-> read_object(write_object(units[k]))]
ObjectsExact(units) ==
    \A k \in DOMAIN units : \A f \in {write_object(units[k])} :
        SoundObject(f) /\ ~SoundObject(Front(f)) /\ ~SoundObject(Append(f, 0))
\* Members in order, each at the first offset that its alignment allows.
LaidOut(aggs, id) ==
    \A i \in DOMAIN aggs[id].members : \A m \in {aggs[id].members[i]} :
        \A start \in {IF i = 1 \/ aggs[id].kind = "union" THEN 0
                      ELSE aggs[id].members[i - 1].offset
                               + SizeOf(aggs, aggs[id].members[i - 1].ty)} :
            /\ m.offset % AlignOf(aggs, m.ty) = 0 /\ aggs[id].align % AlignOf(aggs, m.ty) = 0
            /\ m.offset >= start /\ m.offset < start + AlignOf(aggs, m.ty)
            /\ m.offset + SizeOf(aggs, m.ty) <= aggs[id].size
            /\ aggs[id].size % aggs[id].align = 0

\* What is laid out in memory (finalize_unit, link_and_write, the members of
\* a struct) is aligned and disjoint; a unit that went through an object file
\* (write_object, read_object) links to the same image, and a file that is
\* cut short or too long is refused.
ImageSound ==
    CASE job[1] = "struct" ->
            Len(job[2]) = 2 /\ \A id \in DOMAIN job[2] : LaidOut(job[2], id)
      [] job[1] = "link" ->
            /\ PlacedApart(WithRuntime(job[2]), LayoutOf(WithRuntime(job[2])))
            /\ ObjectsExact(WithRuntime(job[2]))
            /\ link_and_write(Reread(job[2])) = job[3]
      [] OTHER -> TRUE
============================================================================
