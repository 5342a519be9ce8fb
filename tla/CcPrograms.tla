----------------------------- MODULE CcPrograms -----------------------------
(***************************************************************************)
(* Inputs for the C compiler, each with what it must come to: expressions  *)
(* and statements whose meaning CcRef gives, and whole programs, faulty    *)
(* programs and initialisers with the outcome written beside them.         *)
(*                                                                         *)
(* Left out are the programs where the compiler departs from C:  - ~ << >> *)
(* on char and short are not promoted; char counts as unsigned in mixed    *)
(* arithmetic; == and switch compare the registers of a signed and an      *)
(* unsigned operand; ~ of an unsigned is not cut to its width; /= and %=   *)
(* always divide signed; an array typedef without length keeps the length  *)
(* of its first variable.                                                  *)
(***************************************************************************)
EXTENDS CcRef

Runs(units, status, written) ==
    [units |-> units, ub |-> FALSE, refused |-> FALSE, status |-> status, out |-> written]
Refuses(units) ==
    [units |-> units, ub |-> FALSE, refused |-> TRUE, status |-> 0, out |-> <<>>]

----------------------------------------------------------------------------
(* Expressions and statements over variables <<name, type, value>>.        *)

a == Var("a")
b == Var("b")
c == Var("c")
u == Var("u")
Declare(d) == TypeWords[d[2]] \o Id(d[1]) \o Op("=")
                  \o (IF d[3] < 0 THEN Op("-") \o Lit(-d[3]) ELSE Lit(d[3])) \o Op(";")
Main(decls, body) ==
    Id("int") \o Id("main") \o Op("(") \o Op(")") \o Op("{")
        \o FlattenSeq([i \in DOMAIN decls |-> Declare(decls[i])]) \o Code(body) \o Op("}")
Env(decls) == [x \in {d[1] : d \in Range(decls)} |->
                  [ty |-> (CHOOSE d \in Range(decls) : d[1] = x)[2],
                   v |-> (CHOOSE d \in Range(decls) : d[1] = x)[3]]]
Judged(units, m) == [Runs(units, Word(m.ret), <<>>) EXCEPT !.ub = m.ub]
Program(decls, body) == Judged(<<Main(decls, body)>>, Meaning(body, Env(decls)))
Programs(cases) == SelectSeq([k \in DOMAIN cases |-> Program(cases[k][1], cases[k][2])],
                             LAMBDA p : ~p.ub)
\* Every pair of an item of one sequence and an item of another.
Pairs(xs, ys) == [k \in 1 .. Len(xs) * Len(ys) |->
                     <<xs[(k - 1) \div Len(ys) + 1], ys[((k - 1) % Len(ys)) + 1]>>]
Returns(pairs) == [k \in DOMAIN pairs |-> <<pairs[k][1], <<"return", pairs[k][2]>>>>]

\* Two binary operators, either one inside the other.
Ops == <<"||", "&&", "|", "^", "&", "==", "!=", "<", "<=", ">", ">=", "<<", ">>", "+", "-",
         "*", "/", "%">>
Numbers == << <<<<"a", "int", 13>>, <<"b", "int", -5>>, <<"c", "int", 2>>>>,
              <<<<"a", "long", 3001>>, <<"b", "int", 3>>, <<"c", "long", 7>>>>,
              <<<<"a", "uint", 9>>, <<"b", "uint", 12>>, <<"c", "uint", 3>>>> >>
Nested == LET ops == Pairs(Ops, Ops)
          IN  [k \in DOMAIN ops |-> Bin(ops[k][1], Bin(ops[k][2], a, b), c)]
                  \o [k \in DOMAIN ops |-> Bin(ops[k][1], a, Bin(ops[k][2], b, c))]
Expressions == Programs(Returns(Pairs(Numbers, Nested)))

\* The other operators, on every type at the ends of its range.
Edges == << <<<<"a", "int", -2048>>, <<"b", "long", 3>>, <<"c", "short", 31>>,
              <<"d", "schar", 3>>, <<"u", "uint", 4095>>>>,
            <<<<"a", "int", 2047>>, <<"b", "long", -70000>>, <<"c", "short", -32>>,
              <<"d", "schar", -4>>, <<"u", "uint", 1>>>> >>
Names == <<"a", "b", "c", "d", "u">>
Casts == LET cases == Pairs(<<"schar", "short", "int", "uint", "long", "ulong">>, Names)
         IN  [k \in DOMAIN cases |-> <<"cast", cases[k][1], Var(cases[k][2])>>]
\* A change to a variable, for its value and for the variable afterwards.
Changes(trees) == trees \o [k \in DOMAIN trees |-> <<"comma", trees[k], trees[k][3]>>]
Bumps == LET cases == Pairs(Pairs(<<"pre", "post">>, <<"++", "--">>), Names)
         IN  Changes([k \in DOMAIN cases |->
                         <<cases[k][1][1], cases[k][1][2], Var(cases[k][2])>>])
Updates ==
    LET cases == SelectSeq(
            Pairs(<<"=", "+=", "-=", "*=", "/=", "%=", "&=", "|=", "^=", "<<=", ">>=">>,
                  Pairs(Names, <<Num(3), b, <<"asg", "=", a, Num(2)>>, Bin("-", c, Num(9))>>)),
            LAMBDA k : /\ k[2][1] = "u" => k[1] \notin {"/=", "%="}
                       /\ k[2][1] = "a" => k[2][2][1] # "asg")
    IN  Changes([k \in DOMAIN cases |->
                    <<"asg", cases[k][1], Var(cases[k][2][1]), cases[k][2][2]>>])
Neg(t) == <<"un", "-", t>>
Flip(t) == <<"un", "~", t>>
Bang(t) == <<"un", "!", t>>
Set(x, t) == <<"asg", "=", x, t>>
Cond(t, x, y) == <<"cond", t, x, y>>
Seq2(t, x) == <<"comma", t, x>>
Mixed ==
    <<Neg(a), Neg(b), Neg(u), Flip(a), Flip(b), Bang(c), Bang(Num(0)), Neg(Neg(a)),
      Flip(Neg(b)), Bang(Bang(b)), Neg(<<"post", "--", a>>), Bin("-", a, Neg(b)),
      Bin("*", Neg(a), Num(2)), Bin("-", Num(64), Num(65)), Bin("-", Num(2047), Num(2048)),
      Num(100000), Bin("<<", <<"cast", "long", Num(1)>>, Num(20)),
      Cond(Bin("<", a, b), Num(1), Cond(Bin("<", b, c), Num(2), Num(3))),
      Cond(Cond(a, Num(0), b), Num(1), Num(2)), Cond(Num(0), a, Seq2(b, c)),
      Cond(Num(1), Seq2(a, b), c), Set(a, Cond(Var("d"), b, a)), Bin("+", Set(a, Num(4)), Num(1)),
      Seq2(Set(a, <<"asg", "+=", b, Num(5)>>), Bin("-", a, b)), Bin("&&", Num(0), Set(a, Num(7))),
      Seq2(Bin("||", Num(3), Set(a, Num(7))), a), Seq2(Bin("&&", Num(3), Set(a, Num(7))), a),
      <<"cast", "short", Bin("+", a, Num(100))>>, Bin("+", <<"cast", "schar", a>>, Num(1))>>
Operators == Programs(Returns(Pairs(Edges, Casts \o Bumps \o Updates \o Mixed)))

\* Loops around every way to leave or to go on, loops and switches in loops.
Eff(t) == <<"expr", t>>
Add(x, t) == Eff(<<"asg", "+=", x, t>>)
Blk(stmts) == <<"block", stmts>>
Small3 == <<<<"a", "int", 0>>, <<"b", "int", 0>>, <<"c", "int", 0>>>>
Below(x, k) == Bin("<", x, Num(k))
WhileLoop(x, body) == <<"while", Below(x, 3), Blk(<<Eff(<<"pre", "++", x>>)>> \o body)>>
DoLoop(x, body) == <<"do", Below(x, 3), Blk(<<Eff(<<"pre", "++", x>>)>> \o body)>>
ForLoop(x, body) == <<"for", Set(x, Num(0)), Below(x, 3), <<"pre", "++", x>>, Blk(body)>>
Loops(x, body) == <<WhileLoop(x, body), DoLoop(x, body), ForLoop(x, body)>>
When(x, k, s) == <<"if", Bin("==", x, Num(k)), s>>
Leaves(x) ==
    << <<"break">>, <<"continue">>, When(x, 2, <<"break">>), When(x, 1, <<"continue">>),
       When(x, 2, <<"goto", "out">>), When(x, 2, <<"return", Num(9)>>),
       \* the else belongs to the nearest if
       <<"if", Below(x, 2), <<"ifelse", Bin("==", x, Num(0)), Add(b, Num(1)), Add(b, Num(20))>>>>,
       <<"switch", x, Blk(<< <<"case", 1, Add(b, Num(2))>>, <<"case", 2, Add(b, Num(30))>>,
                            <<"break">>, <<"default", <<"continue">>>> >>)>>,
       <<"switch", x, Blk(<< <<"default", When(x, 0, <<"break">>)>>, Add(b, Num(3)),
                            <<"case", 1, Add(b, Num(50))>> >>)>> >>
Around2(x, s) == <<Add(b, Num(1)), s, Add(b, Num(100))>>
InLoops(x, ss) == FlattenSeq([k \in DOMAIN ss |-> Loops(x, Around2(x, ss[k]))])
Function(s) == <<Small3, Blk(<<s, Add(b, Num(500)), <<"label", "out", <<"return", b>>>>>>)>>
Statements ==
    LET flat == InLoops(a, Leaves(a))
        deep == InLoops(a, [k \in 1 .. 2 * 9 |->
                    IF k <= 9 THEN WhileLoop(c, Around2(c, Leaves(c)[k]))
                    ELSE ForLoop(c, Around2(c, Leaves(c)[k - 9]))])
    IN  Programs([k \in DOMAIN (flat \o deep) |-> Function((flat \o deep)[k])])

----------------------------------------------------------------------------
(* Texts: words as they are written; a string literal "12" is S12, and has *)
(* the bytes 1, 2 and 0.                                                   *)

Numeral == ("0" :> 0) @@ ("1" :> 1) @@ ("2" :> 2) @@ ("3" :> 3) @@ ("4" :> 4) @@ ("5" :> 5)
             @@ ("6" :> 6) @@ ("7" :> 7) @@ ("8" :> 8) @@ ("9" :> 9) @@ ("10" :> 10) @@ ("20" :> 20)
             @@ ("30" :> 30) @@ ("31" :> 31) @@ ("33" :> 33) @@ ("40" :> 40) @@ ("63" :> 63) @@ ("64" :> 64)
             @@ ("66" :> 66) @@ ("99" :> 99) @@ ("100" :> 100) @@ ("209" :> 209) @@ ("1000" :> 1000) @@ ("4095" :> 4095)
             @@ ("70000" :> 70000)
String == ("S1" :> <<1, 0>>) @@ ("S12" :> <<1, 2, 0>>) @@ ("S123" :> <<1, 2, 3, 0>>) @@ ("S2" :> <<2, 0>>)
            @@ ("S3" :> <<3, 0>>) @@ ("S34" :> <<3, 4, 0>>) @@ ("S4" :> <<4, 0>>) @@ ("S56" :> <<5, 6, 0>>)
Punctuation == DOMAIN OpPrec \cup {"(", ")", "{", "}", "[", "]", ";", ",", ".", "->", "...", "=",
                  "+=", "-=", "*=", "++", "--", "!", "~", "?", ":"}
Word1(x) == [k |-> IF x \in DOMAIN Numeral THEN "num" ELSE IF x \in DOMAIN String THEN "str"
                   ELSE IF x \in Punctuation THEN "op" ELSE "id",
             t |-> IF x \in DOMAIN Numeral \cup DOMAIN String THEN "#" ELSE x,
             v |-> IF x \in DOMAIN Numeral THEN Numeral[x]
                   ELSE IF x \in DOMAIN String THEN String[x] ELSE 0]
Source(words) == [i \in DOMAIN words |-> Word1(words[i])]

Bytes(v, n) == [i \in 1 .. n |-> ByteOf(v, i - 1)]
Words4(vs) == FlattenSeq([i \in DOMAIN vs |-> Bytes(vs[i], 4)])
\* A global and a local of one initialiser: both are written out.
Stored2(struct, type, suffix, init, bytes) ==
    Runs(<<Source(struct \o type \o <<"g">> \o suffix \o <<"=">> \o init
              \o <<";", "int", "main", "(", ")", "{">>
              \o type \o <<"l">> \o suffix \o <<"=">> \o init
              \o <<";", "write", "(", "1", ",", "&", "g", ",", "sizeof", "(", "g", ")", ")", ";",
                   "write", "(", "1", ",", "&", "l", ",", "sizeof", "(", "l", ")", ")", ";",
                   "return", "sizeof", "(", "g", ")", ";", "}">>)>>,
         Len(bytes), bytes \o bytes)

(* Whole programs, what they exit with and what they write.                *)

Whole ==
    << \* recursion
      Runs(<<Source(<<"int", "f", "(", "int", "n", ")", "{", "if", "(", "n", "<", "2", ")", "return",
                  "1", ";", "return", "n", "*", "f", "(", "n", "-", "1", ")", ";", "}", "int",
                  "main", "(", ")", "{", "return", "f", "(", "5", ")", ";", "}">>)>>,
           120, <<>>),
      \* calls before the definitions
      Runs(<<Source(<<"int", "main", "(", "void", ")", "{", "return", "odd", "(", "7", ")", "*",
                  "10", "+", "even", "(", "6", ")", ";", "}", "int", "even", "(", "int", "n",
                  ")", "{", "if", "(", "n", "==", "0", ")", "return", "1", ";", "return", "odd",
                  "(", "n", "-", "1", ")", ";", "}", "int", "odd", "(", "int", "n", ")", "{",
                  "if", "(", "n", "==", "0", ")", "return", "0", ";", "return", "even", "(", "n",
                  "-", "1", ")", ";", "}">>)>>,
           11, <<>>),
      \* pointers to functions
      Runs(<<Source(<<"int", "add", "(", "int", "a", ",", "int", "b", ")", "{", "return", "a", "+",
                  "b", ";", "}", "static", "int", "sub", "(", "int", "a", ",", "int", "b", ")",
                  "{", "return", "a", "-", "b", ";", "}", "int", "(", "*", "t", "[", "2", "]",
                  ")", "(", "int", ",", "int", ")", "=", "{", "add", ",", "sub", "}", ";", "int",
                  "(", "*", "pick", "(", "int", "i", ")", ")", "(", "int", ",", "int", ")", "{",
                  "return", "t", "[", "i", "]", ";", "}", "int", "main", "(", ")", "{", "int",
                  "(", "*", "f", ")", "(", "int", ",", "int", ")", "=", "add", ";", "return",
                  "pick", "(", "0", ")", "(", "5", ",", "3", ")", "*", "10", "+", "pick", "(",
                  "1", ")", "(", "5", ",", "3", ")", "+", "(", "*", "t", "[", "0", "]", ")", "(",
                  "1", ",", "1", ")", "+", "f", "(", "100", ",", "f", "(", "1", ",", "2", ")",
                  ")", ";", "}">>)>>,
           187, <<>>),
      \* unnamed arguments
      Runs(<<Source(<<"char", "*", "__builtin_va_start", "(", "void", ")", ";", "int", "sum", "(",
                  "int", "n", ",", "...", ")", "{", "char", "*", "ap", ";", "int", "s", "=", "0",
                  ";", "ap", "=", "__builtin_va_start", "(", ")", ";", "while", "(", "n", "--",
                  ">", "0", ")", "s", "=", "s", "*", "2", "+", "*", "(", "int", "*", ")", "(",
                  "(", "ap", "+=", "8", ")", "-", "8", ")", ";", "return", "s", ";", "}", "int",
                  "main", "(", ")", "{", "return", "sum", "(", "3", ",", "10", ",", "20", ",",
                  "30", ")", "+", "sum", "(", "0", ")", ";", "}">>)>>,
           110, <<>>),
      \* eight arguments
      Runs(<<Source(<<"int", "f", "(", "int", "a", ",", "int", "b", ",", "int", "c", ",", "int", "d",
                  ",", "int", "e", ",", "long", "g", ",", "short", "h", ",", "signed", "char",
                  "i", ")", "{", "return", "a", "+", "2", "*", "b", "+", "3", "*", "c", "+", "4",
                  "*", "d", "+", "5", "*", "e", "+", "6", "*", "(", "int", ")", "g", "+", "7",
                  "*", "h", "+", "8", "*", "i", ";", "}", "int", "main", "(", ")", "{", "return",
                  "f", "(", "1", ",", "2", ",", "3", ",", "4", ",", "5", ",", "6", ",", "7", ",",
                  "3", ")", ";", "}">>)>>,
           164, <<>>),
      \* pointers and arrays
      Runs(<<Source(<<"int", "main", "(", ")", "{", "int", "a", "[", "5", "]", ";", "int", "*", "p",
                  "=", "a", ";", "for", "(", "int", "i", "=", "0", ";", "i", "<", "5", ";", "i",
                  "++", ")", "a", "[", "i", "]", "=", "i", "*", "i", ";", "p", "+=", "2", ";",
                  "return", "*", "p", "+", "p", "[", "1", "]", "+", "*", "(", "p", "-", "1", ")",
                  "+", "(", "p", "-", "a", ")", "*", "100", "+", "(", "&", "a", "[", "4", "]",
                  "-", "p", ")", "*", "10", "+", "(", "p", ">", "a", ")", "+", "2", "[", "a",
                  "]", "+", "!", "(", "p", "==", "a", "+", "2", ")", ";", "}">>)>>,
           239, <<>>),
      \* arrays of arrays
      Runs(<<Source(<<"int", "m", "[", "2", "]", "[", "3", "]", ";", "int", "main", "(", ")", "{",
                  "int", "i", ";", "int", "j", ";", "for", "(", "i", "=", "0", ";", "i", "<",
                  "2", ";", "i", "++", ")", "for", "(", "j", "=", "0", ";", "j", "<", "3", ";",
                  "j", "++", ")", "m", "[", "i", "]", "[", "j", "]", "=", "i", "*", "10", "+",
                  "j", ";", "int", "*", "p", "=", "m", "[", "1", "]", ";", "return", "m", "[",
                  "1", "]", "[", "2", "]", "+", "p", "[", "1", "]", "+", "sizeof", "(", "m", ")",
                  "+", "sizeof", "(", "m", "[", "0", "]", ")", "+", "*", "(", "*", "(", "m", "+",
                  "1", ")", "+", "0", ")", ";", "}">>)>>,
           69, <<>>),
      \* a list of structs
      Runs(<<Source(<<"struct", "n", "{", "int", "v", ";", "struct", "n", "*", "next", ";", "}", ";",
                  "int", "sum", "(", "struct", "n", "*", "p", ")", "{", "int", "s", "=", "0",
                  ";", "while", "(", "p", ")", "{", "s", "=", "s", "*", "10", "+", "p", "->",
                  "v", ";", "p", "=", "p", "->", "next", ";", "}", "return", "s", ";", "}",
                  "int", "main", "(", ")", "{", "struct", "n", "x", ";", "struct", "n", "y", "=",
                  "{", "2", ",", "&", "x", "}", ";", "struct", "n", "z", ";", "z", ".", "v", "=",
                  "1", ";", "z", ".", "next", "=", "&", "y", ";", "x", ".", "v", "=", "3", ";",
                  "x", ".", "next", "=", "0", ";", "return", "sum", "(", "&", "z", ")", ";", "}">>)>>,
           123, <<>>),
      \* copies of structs
      Runs(<<Source(<<"struct", "s", "{", "char", "c", ";", "int", "v", "[", "2", "]", ";", "struct",
                  "{", "long", "l", ";", "}", "in", ";", "}", ";", "int", "main", "(", ")", "{",
                  "struct", "s", "a", "=", "{", "1", ",", "{", "2", ",", "3", "}", ",", "{", "4",
                  "}", "}", ";", "struct", "s", "b", ";", "struct", "s", "c", "[", "2", "]", ";",
                  "b", "=", "a", ";", "b", ".", "v", "[", "1", "]", "=", "7", ";", "c", "[", "1",
                  "]", "=", "b", ";", "b", ".", "in", ".", "l", "=", "9", ";", "return", "a",
                  ".", "v", "[", "1", "]", "*", "100", "+", "c", "[", "1", "]", ".", "v", "[",
                  "1", "]", "*", "10", "+", "c", "[", "1", "]", ".", "in", ".", "l", "+",
                  "sizeof", "(", "a", ")", ";", "}">>)>>,
           398, <<>>),
      \* a union
      Runs(<<Source(<<"union", "u", "{", "int", "i", ";", "char", "b", "[", "4", "]", ";", "}", ";",
                  "int", "main", "(", ")", "{", "union", "u", "x", ";", "x", ".", "i", "=",
                  "209", ";", "return", "x", ".", "b", "[", "0", "]", "*", "100", "+", "x", ".",
                  "b", "[", "1", "]", "*", "10", "+", "x", ".", "b", "[", "2", "]", "+",
                  "sizeof", "(", "x", ")", ";", "}">>)>>,
           127, <<>>),
      \* enum and typedef
      Runs(<<Source(<<"typedef", "enum", "e", "{", "A", ",", "B", "=", "5", ",", "C", "}", "E", ";",
                  "typedef", "struct", "{", "E", "k", ";", "short", "h", ";", "}", "T", ";",
                  "typedef", "int", "F", "(", "int", ")", ";", "F", "twice", ";", "enum", "{",
                  "SZ", "=", "sizeof", "(", "T", ")", "*", "2", "}", ";", "int", "twice", "(",
                  "int", "x", ")", "{", "return", "2", "*", "x", ";", "}", "int", "main", "(",
                  ")", "{", "T", "t", ";", "E", "e", "=", "C", ";", "t", ".", "k", "=", "e", ";",
                  "return", "t", ".", "k", "*", "10", "+", "A", "+", "SZ", "+", "twice", "(",
                  "B", ")", ";", "}">>)>>,
           86, <<>>),
      \* scopes
      Runs(<<Source(<<"int", "x", "=", "100", ";", "int", "main", "(", ")", "{", "int", "r", "=",
                  "x", ";", "int", "x", "=", "1", ";", "{", "int", "x", "=", "2", ";", "{",
                  "int", "x", "=", "3", ";", "r", "+=", "x", ";", "}", "r", "+=", "x", "*", "10",
                  ";", "}", "for", "(", "int", "x", "=", "5", ";", "x", "<", "6", ";", "x", "++",
                  ")", "{", "int", "r", "=", "x", ";", "r", "++", ";", "}", "for", "(", "int",
                  "i", "=", "0", ";", "i", "<", "2", ";", "i", "++", ")", "{", "int", "y", "=",
                  "i", ";", "r", "+=", "y", ";", "}", "return", "r", "*", "10", "+", "x", ";", "}">>)>>,
           1241, <<>>),
      \* strings
      Runs(<<Source(<<"char", "*", "s", "=", "S12", ";", "char", "t", "[", "]", "=", "S3", "S4", ";",
                  "int", "main", "(", ")", "{", "char", "*", "p", "=", "s", ";", "int", "n", "=",
                  "0", ";", "while", "(", "*", "p", ")", "n", "=", "n", "*", "8", "+", "*", "p",
                  "++", ";", "puts", "(", "S56", ")", ";", "putchar", "(", "7", ")", ";", "puts",
                  "(", "t", ")", ";", "return", "n", "+", "sizeof", "(", "t", ")", "+", "sizeof",
                  "(", "S1", "S2", ")", ";", "}">>)>>,
           16, <<5, 6, 2, 7, 3, 4, 2>>),
      \* addresses in data
      Runs(<<Source(<<"int", "g", "=", "5", ";", "int", "*", "p", "=", "&", "g", ";", "int", "a",
                  "[", "3", "]", "=", "{", "1", ",", "2", ",", "3", "}", ";", "int", "*", "q",
                  "=", "a", ";", "struct", "s", "{", "char", "c", ";", "int", "*", "r", ";",
                  "char", "*", "n", ";", "}", "v", "[", "2", "]", "=", "{", "{", "1", ",", "&",
                  "g", ",", "S12", "}", ",", "{", "2", ",", "a", ",", "S3", "}", "}", ";",
                  "static", "int", "*", "*", "pp", "=", "&", "q", ";", "int", "*", "unset", ";",
                  "int", "main", "(", ")", "{", "*", "p", "+=", "1", ";", "q", "++", ";",
                  "return", "*", "v", "[", "0", "]", ".", "r", "*", "100", "+", "v", "[", "1",
                  "]", ".", "r", "[", "1", "]", "*", "10", "+", "*", "*", "pp", "+", "v", "[",
                  "0", "]", ".", "n", "[", "1", "]", "+", "*", "v", "[", "1", "]", ".", "n", "+",
                  "(", "unset", "==", "0", ")", ";", "}">>)>>,
           628, <<>>),
      \* a frame larger than an immediate
      Runs(<<Source(<<"int", "main", "(", ")", "{", "int", "big", "[", "100", "]", ";", "int", "k",
                  ";", "for", "(", "k", "=", "0", ";", "k", "<", "100", ";", "k", "+=", "33",
                  ")", "big", "[", "k", "]", "=", "k", ";", "int", "last", "=", "big", "[", "99",
                  "]", ";", "return", "last", "+", "big", "[", "33", "]", "+", "*", "(", "big",
                  "+", "66", ")", ";", "}">>)>>,
           198, <<>>),
      \* switch
      Runs(<<Source(<<"int", "f", "(", "int", "n", ")", "{", "int", "r", "=", "0", ";", "switch",
                  "(", "n", ")", "{", "case", "1", "+", "1", ":", "r", "+=", "1", ";", "case",
                  "3", ":", "{", "r", "+=", "10", ";", "case", "4", ":", "r", "+=", "100", ";",
                  "}", "break", ";", "default", ":", "switch", "(", "n", "-", "6", ")", "{",
                  "case", "0", ":", "return", "7", ";", "default", ":", "break", ";", "}", "r",
                  "=", "5", ";", "case", "-", "1", ":", "r", "+=", "2", ";", "}", "return", "r",
                  ";", "}", "int", "main", "(", ")", "{", "return", "f", "(", "2", ")", "*",
                  "10", "+", "f", "(", "3", ")", "+", "f", "(", "4", ")", "+", "f", "(", "5",
                  ")", "+", "f", "(", "6", ")", "+", "f", "(", "0", "-", "1", ")", ";", "}">>)>>,
           1336, <<>>),
      \* goto
      Runs(<<Source(<<"int", "main", "(", ")", "{", "int", "i", "=", "0", ";", "int", "n", "=", "0",
                  ";", "again", ":", "n", "+=", "i", ";", "if", "(", "i", "==", "5", ")", "goto",
                  "done", ";", "i", "++", ";", "goto", "again", ";", "n", "=", "99", ";", "done",
                  ":", "return", "n", ";", "}">>)>>,
           15, <<>>),
      \* declarations before definitions
      Runs(<<Source(<<"extern", "int", "g", ";", "int", "f", "(", "int", ")", ";", "static", "int",
                  "h", "(", "void", ")", ";", "int", "main", "(", ")", "{", "return", "f", "(",
                  "g", ")", "+", "h", "(", ")", ";", "}", "int", "f", "(", "int", "x", ")", "{",
                  "return", "x", "*", "2", ";", "}", "int", "g", "=", "4", ";", "static", "int",
                  "h", "(", "void", ")", "{", "return", "g", ";", "}">>)>>,
           12, <<>>),
      \* narrow types
      Runs(<<Source(<<"int", "main", "(", ")", "{", "char", "c", "=", "7", ";", "signed", "char",
                  "d", "=", "3", ";", "short", "h", "=", "31", ";", "unsigned", "short", "w",
                  "=", "63", ";", "c", "++", ";", "d", "++", ";", "h", "++", ";", "w", "++", ";",
                  "return", "(", "int", ")", "c", "*", "1000", "+", "d", "*", "100", "+", "h",
                  "+", "(", "int", ")", "w", ";", "}">>)>>,
           -432, <<>>),
      \* results of functions are narrowed
      Runs(<<Source(<<"signed", "char", "f", "(", "int", "x", ")", "{", "return", "x", ";", "}",
                  "unsigned", "g", "(", "int", "x", ")", "{", "return", "x", ";", "}", "short",
                  "h", "(", "long", "x", ")", ";", "int", "main", "(", ")", "{", "return", "f",
                  "(", "7", ")", "+", "(", "g", "(", "0", "-", "1", ")", "==", "4095", ")", "*",
                  "10", "+", "h", "(", "64", ")", ";", "}", "short", "h", "(", "long", "x", ")",
                  "{", "return", "x", ";", "}">>)>>,
           9, <<>>),
      \* pointers to pointers
      Runs(<<Source(<<"void", "swap", "(", "int", "*", "*", "p", ",", "int", "*", "*", "q", ")", "{",
                  "int", "*", "t", "=", "*", "p", ";", "*", "p", "=", "*", "q", ";", "*", "q",
                  "=", "t", ";", "return", ";", "}", "int", "main", "(", ")", "{", "int", "a",
                  "=", "1", ";", "int", "b", "=", "2", ";", "int", "*", "p", "=", "&", "a", ";",
                  "int", "*", "q", "=", "&", "b", ";", "swap", "(", "&", "p", ",", "&", "q", ")",
                  ";", "*", "p", "=", "7", ";", "return", "a", "*", "100", "+", "b", "*", "10",
                  "+", "*", "q", ";", "}">>)>>,
           171, <<>>),
      \* arguments that call
      Runs(<<Source(<<"int", "n", ";", "int", "next", "(", "void", ")", "{", "return", "++", "n",
                  ";", "}", "int", "f", "(", "int", "a", ",", "int", "b", ",", "int", "c", ")",
                  "{", "return", "a", "*", "100", "+", "b", "*", "10", "+", "c", ";", "}", "int",
                  "main", "(", ")", "{", "return", "f", "(", "next", "(", ")", ",", "f", "(",
                  "0", ",", "0", ",", "2", ")", ",", "f", "(", "0", ",", "0", ",", "3", ")", ")",
                  ";", "}">>)>>,
           123, <<>>),
      \* exit and write
      Runs(<<Source(<<"char", "b", "[", "3", "]", "=", "{", "4", ",", "5", ",", "6", "}", ";", "int",
                  "main", "(", ")", "{", "write", "(", "1", ",", "b", "+", "1", ",", "2", ")",
                  ";", "exit", "(", "7", ")", ";", "return", "1", ";", "}">>)>>,
           7, <<5, 6>>),
      \* two units
      Runs(<<Source(<<"int", "shared", "=", "100", ";", "static", "int", "helper", "(", "void", ")",
                  "{", "return", "1", ";", "}", "int", "a_helper", "(", "void", ")", "{",
                  "return", "helper", "(", ")", ";", "}", "int", "add", "(", "int", "a", ",",
                  "int", "b", ")", "{", "return", "a", "+", "b", ";", "}", "char", "*", "name",
                  "=", "S12", ";">>),
         Source(<<"extern", "int", "shared", ";", "extern", "char", "*", "name", ";", "int",
                  "add", "(", "int", "a", ",", "int", "b", ")", ";", "int", "a_helper", "(",
                  "void", ")", ";", "static", "int", "helper", "(", "void", ")", "{", "return",
                  "2", ";", "}", "static", "char", "pad", "[", "5", "]", ";", "int", "main", "(",
                  ")", "{", "puts", "(", "name", ")", ";", "shared", "=", "shared", "+", "1",
                  ";", "pad", "[", "4", "]", "=", "3", ";", "return", "add", "(", "helper", "(",
                  ")", "*", "10", ",", "a_helper", "(", ")", ")", "+", "shared", "+", "pad", "[",
                  "4", "]", ";", "}">>)>>,
           125, <<1, 2, 2>>),
      \* three units
      Runs(<<Source(<<"int", "f", "(", "int", "x", ")", "{", "if", "(", "x", ">", "2", ")", "return",
                  "x", ";", "return", "g", "(", "x", "+", "1", ")", ";", "}">>),
         Source(<<"int", "tab", "[", "2", "]", ";", "int", "g", "(", "int", "x", ")", "{", "tab",
                  "[", "0", "]", "++", ";", "return", "f", "(", "x", ")", "*", "2", ";", "}">>),
         Source(<<"extern", "int", "tab", "[", "2", "]", ";", "extern", "int", "(", "*", "h",
                  ")", "(", "int", ")", ";", "int", "g", "(", "int", "x", ")", ";", "int",
                  "main", "(", ")", "{", "return", "(", "*", "h", ")", "(", "0", ")", "+", "tab",
                  "[", "0", "]", ";", "}", "int", "(", "*", "h", ")", "(", "int", ")", "=", "g",
                  ";">>)>>,
           52, <<>>),
      \* a typedef of an array without length
      Runs(<<Source(<<"typedef", "int", "A", "[", "]", ";", "A", "x", "=", "{", "1", ",", "2", "}",
                  ";", "int", "f", "(", "A", "p", ")", "{", "return", "p", "[", "1", "]", ";",
                  "}", "int", "main", "(", ")", "{", "A", "y", "=", "{", "3", ",", "4", "}", ";",
                  "return", "f", "(", "x", ")", "*", "100", "+", "f", "(", "y", ")", "*", "10",
                  "+", "sizeof", "(", "x", ")", "-", "sizeof", "(", "y", ")", ";", "}">>)>>,
           240, <<>>) >>

(* Programs the compiler or the linker must refuse.                        *)

Refused ==
    << <<Source(<<"int", "main", "(", ")", "{", "return", "x", ";", "}">>)>>,
       <<Source(<<"int", "main", "(", ")", "{", "switch", "(", "1", ")", "{", "case", "1", ":",
                "case", "2", "-", "1", ":", ";", "}", "return", "0", ";", "}">>)>>,
       <<Source(<<"int", "main", "(", ")", "{", "switch", "(", "1", ")", "{", "default", ":", ";",
                "default", ":", ";", "}", "return", "0", ";", "}">>)>>,
       <<Source(<<"int", "main", "(", ")", "{", "a", ":", ";", "a", ":", ";", "return", "0", ";",
                "}">>)>>,
       <<Source(<<"int", "main", "(", ")", "{", "goto", "a", ";", "return", "0", ";", "}">>)>>,
       <<Source(<<"int", "f", "(", ")", "{", "a", ":", "return", "0", ";", "}", "int", "main", "(",
                ")", "{", "goto", "a", ";", "}">>)>>,
       <<Source(<<"int", "main", "(", ")", "{", "while", "(", "0", ")", ";", "break", ";", "}">>)>>,
       <<Source(<<"int", "main", "(", ")", "{", "switch", "(", "1", ")", "{", "case", "1", ":",
                "continue", ";", "}", "return", "0", ";", "}">>)>>,
       <<Source(<<"int", "main", "(", ")", "{", "case", "1", ":", "return", "0", ";", "}">>)>>,
       <<Source(<<"int", "main", "(", ")", "{", "int", "a", ";", "a", "+", "1", "=", "2", ";",
                "return", "0", ";", "}">>)>>,
       <<Source(<<"int", "main", "(", ")", "{", "int", "a", "[", "2", "]", ";", "int", "b", "[",
                "2", "]", ";", "a", "=", "b", ";", "return", "0", ";", "}">>)>>,
       <<Source(<<"struct", "s", "{", "int", "a", ";", "}", ";", "struct", "s", "{", "int", "b",
                ";", "}", ";", "int", "main", "(", ")", "{", "return", "0", ";", "}">>)>>,
       <<Source(<<"struct", "s", "{", "int", "a", ";", "int", "a", ";", "}", ";", "int", "main",
                "(", ")", "{", "return", "0", ";", "}">>)>>,
       <<Source(<<"struct", "s", ";", "int", "main", "(", ")", "{", "struct", "s", "x", ";",
                "return", "0", ";", "}">>)>>,
       <<Source(<<"struct", "s", "{", "struct", "s", "x", ";", "}", ";", "int", "main", "(", ")",
                "{", "return", "0", ";", "}">>)>>,
       <<Source(<<"int", "main", "(", ")", "{", "return", "0", ";", "}", "int", "main", "(", ")",
                "{", "return", "1", ";", "}">>)>>,
       <<Source(<<"int", "a", "=", "1", ";", "int", "a", "=", "2", ";", "int", "main", "(", ")",
                "{", "return", "0", ";", "}">>)>>,
       <<Source(<<"int", "f", "(", "int", "a", ")", "{", "return", "a", ";", "}", "int", "main",
                "(", ")", "{", "return", "f", "(", "1", ",", "2", ",", "3", ",", "4", ",", "5",
                ",", "6", ",", "7", ",", "8", ",", "9", ")", ";", "}">>)>>,
       <<Source(<<"int", "main", "(", ")", "{", "static", "int", "a", ";", "return", "0", ";", "}">>)>>,
       <<Source(<<"int", "main", "(", ")", "{", "return", "(", "1", ";", "}">>)>>,
       <<Source(<<"int", "main", "(", ")", "{", "int", "a", ";", "return", "*", "a", ";", "}">>)>>,
       <<Source(<<"struct", "s", "{", "int", "a", ";", "}", ";", "int", "f", "(", "struct", "s",
                "x", ")", "{", "return", "0", ";", "}", "int", "main", "(", ")", "{", "return",
                "0", ";", "}">>)>>,
       <<Source(<<"struct", "s", "{", "int", "a", ";", "}", ";", "int", "main", "(", ")", "{",
                "struct", "s", "x", ";", "return", "x", ".", "b", ";", "}">>)>>,
       <<Source(<<"int", "a", "[", "2", "]", "=", "{", "1", ",", "2", ",", "3", "}", ";", "int",
                "main", "(", ")", "{", "return", "0", ";", "}">>)>>,
       <<Source(<<"char", "a", "[", "2", "]", "=", "S123", ";", "int", "main", "(", ")", "{",
                "return", "0", ";", "}">>)>>,
       <<Source(<<"int", "x", ";", "int", "y", "=", "x", ";", "int", "main", "(", ")", "{",
                "return", "0", ";", "}">>)>>,
       <<Source(<<"int", "a", "[", "1", "/", "0", "]", ";", "int", "main", "(", ")", "{", "return",
                "0", ";", "}">>)>>,
       <<Source(<<"struct", "s", "{", "int", "b", ":", "3", ";", "}", ";", "int", "main", "(", ")",
                "{", "return", "0", ";", "}">>)>>,
       <<Source(<<"int", "f", "(", ")", ";", "int", "main", "(", ")", "{", "return", "f", "(", ")",
                ";", "}">>)>>,
       <<Source(<<"int", "f", "(", ")", "{", "return", "0", ";", "}">>)>>,
       <<Source(<<"int", "main", "(", ")", "{", "return", "0", ";">>)>>,
       <<Source(<<"int", "f", "(", ")", "{", "return", "1", ";", "}", "int", "main", "(", ")",
                 "{", "return", "f", "(", ")", ";", "}">>),
        Source(<<"int", "f", "(", ")", "{", "return", "2", ";", "}">>)>>,
       <<Source(<<"int", "g", "=", "1", ";", "int", "main", "(", ")", "{", "return", "g", ";", "}">>),
        Source(<<"int", "g", ";">>)>>,
       <<Source(<<"extern", "int", "g", ";", "int", "main", "(", ")", "{", "return", "g", ";", "}">>),
        Source(<<"static", "int", "g", "=", "1", ";">>)>>,
       <<Source(<<"int", "f", "(", ")", ";", "int", "main", "(", ")", "{", "return", "f", "(",
                 ")", ";", "}">>),
        Source(<<"static", "int", "f", "(", ")", "{", "return", "1", ";", "}">>)>>,
       <<Source(<<"typedef", "int", "A", "[", "]", ";", "int", "main", "(", ")", "{", "A", "x",
                "=", "{", "}", ";", "return", "0", ";", "}">>)>>,
       \* no floating point
       <<Source(<<"int", "main", "(", ")", "{", "unsigned", "float", "x", ";", "return", "0",
                ";", "}">>)>>,
       <<Source(<<"int", "main", "(", ")", "{", "return", "sizeof", "(", "long", "double", ")",
                ";", "}">>)>> >>

(* Initialisers: of a global and of a local, and the bytes they stand for. *)

Initialisers ==
    << Stored2(<<>>,
              <<"int">>, <<"[", "2", "]", "[", "2", "]">>, <<"{", "{", "1", ",", "2", "}", ",", "{", "3", ",", "4", "}", "}">>,
              Words4(<<1, 2, 3, 4>>)),
       Stored2(<<>>,
              <<"int">>, <<"[", "2", "]", "[", "2", "]">>, <<"{", "1", ",", "2", ",", "3", ",", "4", "}">>,
              Words4(<<1, 2, 3, 4>>)),
       Stored2(<<>>,
              <<"int">>, <<"[", "2", "]", "[", "2", "]">>, <<"{", "{", "1", "}", ",", "{", "3", "}", "}">>,
              Words4(<<1, 0, 3, 0>>)),
       Stored2(<<>>,
              <<"int">>, <<"[", "2", "]", "[", "2", "]">>, <<"{", "[", "1", "]", "=", "{", "5", "}", "}">>,
              Words4(<<0, 0, 5, 0>>)),
       Stored2(<<>>,
              <<"int">>, <<"[", "]">>, <<"{", "[", "2", "]", "=", "7", ",", "8", ",", "[", "0", "]", "=", "2", "}">>,
              Words4(<<2, 0, 7, 8>>)),
       Stored2(<<>>,
              <<"char">>, <<"[", "4", "]">>, <<"S12">>,
              <<1, 2, 0, 0>>),
       Stored2(<<>>,
              <<"char">>, <<"[", "2", "]">>, <<"S12">>,
              <<1, 2>>),
       Stored2(<<>>,
              <<"char">>, <<"[", "]">>, <<"S1", "S2">>,
              <<1, 2, 0>>),
       Stored2(<<>>,
              <<"char">>, <<"[", "2", "]", "[", "3", "]">>, <<"{", "S12", ",", "S3", "}">>,
              <<1, 2, 0, 3, 0, 0>>),
       Stored2(<<>>,
              <<"char">>, <<"[", "3", "]">>, <<"{", "7", ",", "8", ",", "-", "1", ",", "}">>,
              <<7, 0, 7>>),
       Stored2(<<"struct", "s", "{", "char", "c", ";", "int", "v", "[", "2", "]", ";", "}", ";">>,
              <<"struct", "s">>, <<>>, <<"{", "1", ",", "{", "2", ",", "-", "3", "}", "}">>,
              Words4(<<1, 2, -3>>)),
       Stored2(<<"struct", "s", "{", "char", "c", ";", "int", "v", "[", "2", "]", ";", "}", ";">>,
              <<"struct", "s">>, <<>>, <<"{", ".", "v", "=", "{", "5", "}", "}">>,
              Words4(<<0, 5, 0>>)),
       Stored2(<<"struct", "s", "{", "char", "c", ";", "int", "v", "[", "2", "]", ";", "}", ";">>,
              <<"struct", "s">>, <<"[", "2", "]">>, <<"{", "1", ",", "2", ",", "3", ",", "4", ",", "5", "}">>,
              Words4(<<1, 2, 3, 4, 5, 0>>)),
       Stored2(<<"struct", "s", "{", "char", "c", ";", "int", "v", "[", "2", "]", ";", "}", ";">>,
              <<"struct", "s">>, <<"[", "2", "]">>, <<"{", "{", "1", ",", "{", "2", "}", "}", ",", "{", ".", "c", "=", "3", ",", "4",
                "}", "}">>,
              Words4(<<1, 2, 0, 3, 4, 0>>)),
       Stored2(<<"union", "u", "{", "int", "i", ";", "char", "b", "[", "4", "]", ";", "}", ";">>,
              <<"union", "u">>, <<>>, <<"{", "9", "}">>,
              <<1, 1, 0, 0>>),
       Stored2(<<"union", "u", "{", "int", "i", ";", "char", "b", "[", "4", "]", ";", "}", ";">>,
              <<"union", "u">>, <<>>, <<"{", ".", "b", "=", "{", "1", ",", "2", "}", "}">>,
              <<1, 2, 0, 0>>),
       Stored2(<<"struct", "o", "{", "short", "h", ";", "struct", "{", "char", "a", ";", "long",
                "l", ";", "}", "in", ";", "char", "t", "[", "3", "]", ";", "}", ";">>,
              <<"struct", "o">>, <<>>, <<"{", "1", ",", "{", "2", ",", "-", "1", "}", ",", "S34", "}">>,
              <<1, 0, 0, 0, 0, 0, 0, 0, 2, 0, 0, 0, 0, 0, 0, 0>> \o Bytes(-1, 8) \o <<3, 4, 0, 0, 0, 0, 0, 0>>),
       Stored2(<<"struct", "o", "{", "short", "h", ";", "struct", "{", "char", "a", ";", "long",
                "l", ";", "}", "in", ";", "char", "t", "[", "3", "]", ";", "}", ";">>,
              <<"struct", "o">>, <<>>, <<"{", "1", ",", "2", ",", "-", "1", ",", "S34", "}">>,
              <<1, 0, 0, 0, 0, 0, 0, 0, 2, 0, 0, 0, 0, 0, 0, 0>> \o Bytes(-1, 8) \o <<3, 4, 0, 0, 0, 0, 0, 0>>),
       Stored2(<<>>,
              <<"long">>, <<>>, <<"-", "70000">>,
              Bytes(-70000, 8)),
       Stored2(<<>>,
              <<"short">>, <<>>, <<"{", "40", "}">>,
              Bytes(40, 2)),
       Stored2(<<>>,
              <<"int">>, <<>>, <<"sizeof", "(", "long", ")", "*", "(", "3", ">", "2", "?", "1", ":", "2", ")",
                "<<", "2", "|", "1">>,
              Bytes(33, 4)) >>

============================================================================
