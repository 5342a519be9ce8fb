------------------------------- MODULE CcLex -------------------------------
(***************************************************************************)
(* The lexer of the C compiler (cc/lexer.c): preprocessed text, a sequence *)
(* of characters, to tokens.  fatal gives a result with ok = FALSE.        *)
(***************************************************************************)
EXTENDS Integers, Sequences, SequencesExt, TLC

NL == "NL"
White == {" ", "TAB", "CR", NL}
Digits == <<"0", "1", "2", "3", "4", "5", "6", "7", "8", "9">>
HexDigits == Digits \o <<"a", "b", "c", "d", "e", "f">>
IntSuffix == {"u", "U", "l", "L"}
\* The first letters of names, among the characters the inputs have.
starts_ident == {"a", "b", "f", "n", "u", "x", "L", "_"}
is_ident_char == starts_ident \cup Range(Digits)
Simple == [c \in {"n", "t", "r", "a", "b", "f", "v", "\\", "'", "\"", "?"} |->
             CASE c = "n" -> 10 [] c = "t" -> 9 [] c = "r" -> 13 [] c = "a" -> 7 [] c = "b" -> 8
               [] c = "f" -> 12 [] c = "v" -> 11 [] c = "\\" -> 92 [] c = "'" -> 39
               [] c = "\"" -> 34 [] OTHER -> 63]
Code == [c \in starts_ident \cup Range(Digits) \cup {"/", "*", "<", "=", " ", "'", "\"", "-", ">", "."} |->
           IF c \in Range(HexDigits) /\ c \in starts_ident
           THEN 86 + (CHOOSE i \in DOMAIN HexDigits : HexDigits[i] = c)
           ELSE IF c \in Range(Digits) THEN 47 + (CHOOSE i \in DOMAIN Digits : Digits[i] = c)
           ELSE CASE c = "n" -> 110 [] c = "u" -> 117 [] c = "x" -> 120 [] c = "L" -> 76 [] c = "_" -> 95
                  [] c = "/" -> 47 [] c = "*" -> 42 [] c = "<" -> 60 [] c = "=" -> 61 [] c = " " -> 32
                  [] c = "'" -> 39 [] c = "\"" -> 34 [] c = "-" -> 45 [] c = ">" -> 62 [] c = "." -> 46]
hexval(c) == CHOOSE i \in 0 .. 15 : HexDigits[i + 1] = c

multi_ops == << <<"<", "<", "=">>, <<">", ">", "=">>, <<".", ".", ".">>, <<"=", "=">>,
                <<"!", "=">>, <<"<", "=">>, <<">", "=">>, <<"&", "&">>, <<"|", "|">>,
                <<"<", "<">>, <<">", ">">>, <<"+", "+">>, <<"-", "-">>, <<"-", ">">>,
                <<"+", "=">>, <<"-", "=">>, <<"*", "=">>, <<"/", "=">>, <<"%", "=">>,
                <<"&", "=">>, <<"|", "=">>, <<"^", "=">> >>
one_ops == {"+", "-", "*", "/", "%", "(", ")", "{", "}", "[", "]", ";", ",", ".", "<", ">",
            "=", "!", "~", "&", "|", "^", "?", ":"}

At(s, p) == IF p <= Len(s) THEN s[p] ELSE "EOF"
RECURSIVE Span(_, _, _)
Span(s, p, set) == IF At(s, p) \in set THEN Span(s, p + 1, set) ELSE p
ValueOf(ds, base) == FoldLeft(LAMBDA v, c : v * base + hexval(c), 0, ds)

\* A token, or fatal, and where the text goes on.
Token(kind, v, next) == [ok |-> TRUE, kind |-> kind, v |-> v, next |-> next]
Dead == [ok |-> FALSE, kind |-> "none", v |-> 0, next |-> 0]

----------------------------------------------------------------------------
\* The character after a backslash at p: its value and the next position.
Octal(s, p, q) == [ok |-> TRUE, v |-> ValueOf(SubSeq(s, p, q - 1), 8) % 256, next |-> q]
HexEscape(s, p, q) ==
  [ok |-> q > p, v |-> ValueOf(SubSeq(s, p, q - 1), 16) % 256, next |-> q]
Shorter(a, b) == IF a < b THEN a ELSE b
read_escape(s, p) ==
  CASE At(s, p) = "EOF" -> [ok |-> FALSE, v |-> 0, next |-> p]
    [] At(s, p) = "x" -> HexEscape(s, p + 1, Span(s, p + 1, Range(HexDigits)))
    [] At(s, p) \in Range(SubSeq(Digits, 1, 8)) ->
         Octal(s, p, Shorter(p + 3, Span(s, p, Range(SubSeq(Digits, 1, 8)))))
    [] At(s, p) \in DOMAIN Simple -> [ok |-> TRUE, v |-> Simple[At(s, p)], next |-> p + 1]
    [] OTHER -> [ok |-> TRUE, v |-> IF At(s, p) = NL THEN 10 ELSE Code[At(s, p)], next |-> p + 1]

RECURSIVE lex_string(_, _, _)
Escaped(s, e, bytes) == IF e.ok THEN lex_string(s, e.next, Append(bytes, e.v)) ELSE Dead
lex_string(s, p, bytes) ==
  CASE At(s, p) \in {"EOF", NL} -> Dead
    [] At(s, p) = "\"" -> Token("str", Append(bytes, 0), p + 1)
    [] At(s, p) = "\\" -> Escaped(s, read_escape(s, p + 1), bytes)
    [] OTHER -> lex_string(s, p + 1, Append(bytes, Code[At(s, p)]))

CharEnd(s, ok, v, p) == IF ok /\ At(s, p) = "'" THEN Token("num", v, p + 1) ELSE Dead
CharEscape(s, e) == CharEnd(s, e.ok, e.v, e.next)
lex_char(s, p) ==
  CASE At(s, p) = "EOF" -> Dead
    [] At(s, p) = "\\" -> CharEscape(s, read_escape(s, p + 1))
    [] OTHER -> CharEnd(s, TRUE, IF At(s, p) = NL THEN 10 ELSE Code[At(s, p)], p + 1)

NumberTo(s, p, q, base) ==
  IF \E k \in p .. q - 1 : hexval(s[k]) >= base THEN Dead
  ELSE Token("num", ValueOf(SubSeq(s, p, q - 1), base), Span(s, q, IntSuffix))
lex_number(s, p) ==
  IF s[p] = "0" /\ At(s, p + 1) \in {"x", "X"}
  THEN NumberTo(s, p + 2, Span(s, p + 2, Range(HexDigits)), 16)
  ELSE NumberTo(s, p, Span(s, p, Range(Digits)), IF s[p] = "0" THEN 8 ELSE 10)

lex_ident(s, p) ==
  Token("id", SubSeq(s, p, Span(s, p, is_ident_char) - 1), Span(s, p, is_ident_char))

(* mutant: the operators are tried from the end of the table *)
MutOperator(s, p) ==
  LET hits == SelectSeq(multi_ops, LAMBDA o : SubSeq(s, p, Shorter(Len(s), p + Len(o) - 1)) = o)
  IN  IF hits # << >> THEN Token("op", Last(hits), p + Len(Last(hits)))
      ELSE IF s[p] \in one_ops THEN Token("op", <<s[p]>>, p + 1) ELSE Dead

\* The first operator of the table that matches.
lex_operator(s, p) ==
  LET hits == SelectSeq(multi_ops, LAMBDA o : SubSeq(s, p, Shorter(Len(s), p + Len(o) - 1)) = o)
  IN  IF hits # << >> THEN Token("op", Head(hits), p + Len(Head(hits)))
      ELSE IF s[p] \in one_ops THEN Token("op", <<s[p]>>, p + 1) ELSE Dead

RECURSIVE CommentEnd(_, _)
CommentEnd(s, p) == \* 0 where the comment does not end
  IF p > Len(s) THEN 0
  ELSE IF s[p] = "*" /\ At(s, p + 1) = "/" THEN p + 2 ELSE CommentEnd(s, p + 1)
RECURSIVE LineEnd(_, _)
LineEnd(s, p) == IF At(s, p) \in {"EOF", NL} THEN p ELSE LineEnd(s, p + 1)

Lexeme(s, p) ==
  CASE s[p] = "#" -> Dead
    [] s[p] \in starts_ident -> lex_ident(s, p)
    [] s[p] \in Range(Digits) -> lex_number(s, p)
    [] s[p] = "'" -> lex_char(s, p + 1)
    [] s[p] = "\"" -> lex_string(s, p + 1, << >>)
    [] OTHER -> lex_operator(s, p)

\* lex_all from p: the tokens so far, each with its first position and line.
RECURSIVE LexFrom(_, _, _, _)
push_token(s, t, p, toks, line) ==
  IF ~t.ok THEN [ok |-> FALSE, toks |-> toks, at |-> p]
  ELSE LexFrom(s, t.next, Append(toks, [kind |-> t.kind, v |-> t.v, at |-> p, end |-> t.next, line |-> line]),
               line + Len(SelectSeq(SubSeq(s, p, t.next - 1), LAMBDA c : c = NL)))
SkipTo(s, p, q, toks, line) ==
  IF q = 0 THEN [ok |-> FALSE, toks |-> toks, at |-> p]
  ELSE LexFrom(s, q, toks, line + Len(SelectSeq(SubSeq(s, p, q - 1), LAMBDA c : c = NL)))
LexFrom(s, p, toks, line) ==
  CASE p > Len(s) -> [ok |-> TRUE, toks |-> toks, at |-> p]
    [] At(s, p) \in White -> SkipTo(s, p, p + 1, toks, line)
    [] At(s, p) = "/" /\ At(s, p + 1) = "/" -> SkipTo(s, p, LineEnd(s, p), toks, line)
    [] At(s, p) = "/" /\ At(s, p + 1) = "*" -> SkipTo(s, p, CommentEnd(s, p + 2), toks, line)
    [] OTHER -> push_token(s, Lexeme(s, p), p, toks, line)
lex_all(s) == LexFrom(s, 1, << >>, 1)

----------------------------------------------------------------------------
(* Reference: what may stand between two tokens, which texts are one token *)
(* of C and what they stand for, without a word on how they are looked     *)
(* for.  Wide literals and floating constants are no tokens here, nor are  *)
(* character constants of several characters: the compiler has none.       *)

IsName(x) == x # << >> /\ x[1] \in starts_ident /\ \A i \in DOMAIN x : x[i] \in is_ident_char
IsOperator(x) == x \in Range(multi_ops) \/ (Len(x) = 1 /\ x[1] \in one_ops)

\* 6.4.4.1: digits of the base that the first of them tell, and a suffix.
AllIn(x, set) == x # << >> /\ Range(x) \subseteq set
IsInteger(x) ==
  \/ AllIn(x, Range(Digits)) /\ x[1] # "0"
  \/ AllIn(x, Range(SubSeq(Digits, 1, 8))) /\ x[1] = "0"
  \/ IsPrefix(<<"0", "x">>, x) /\ AllIn(SubSeq(x, 3, Len(x)), Range(HexDigits))
IntSuffixes ==
  LET us == {<< >>, <<"u">>, <<"U">>}
      ls == {<< >>, <<"l">>, <<"L">>, <<"l", "l">>, <<"L", "L">>}
  IN {u \o l : u \in us, l \in ls} \cup {l \o u : u \in us, l \in ls}
Part(x, n) == [digits |-> SubSeq(x, 1, n), suffix |-> SubSeq(x, n + 1, Len(x))]
Cuts(x) == {Part(x, n) : n \in 1 .. Len(x)}
IsNumber(x) == \E c \in Cuts(x) : IsInteger(c.digits) /\ c.suffix \in IntSuffixes

\* 6.4.4.4 and 6.4.5: what stands behind a backslash, and what for.
Letter == ("a" :> 7) @@ ("b" :> 8) @@ ("t" :> 9) @@ ("n" :> 10) @@ ("v" :> 11) @@ ("f" :> 12) @@ ("r" :> 13)
Itself == ("'" :> 39) @@ ("\"" :> 34) @@ ("?" :> 63) @@ ("\\" :> 92)
IsEscape(e) ==
  \/ Len(e) = 1 /\ e[1] \in DOMAIN Letter \cup DOMAIN Itself
  \/ Len(e) <= 3 /\ AllIn(e, Range(SubSeq(Digits, 1, 8)))
  \/ Len(e) > 1 /\ e[1] = "x" /\ AllIn(Tail(e), Range(HexDigits))

(* Departures of the compiler, which takes more than C allows: a suffix of *)
(* any length, 0x without a digit, letters behind the digits or anything   *)
(* behind the suffix of a number (for C all of it is one number, which is  *)
(* malformed; the compiler begins another token), a backslash before any   *)
(* other character (but x), and a quote or a new line in single quotes.    *)
LenientNumber(x) ==
  \E c \in Cuts(x) : (IsInteger(c.digits) \/ c.digits = <<"0", "x">>) /\ Range(c.suffix) \subseteq IntSuffix
LenientEscape(e) == Len(e) = 1 /\ e[1] # "x"
LenientChar(c) == c \in {"'", NL}

\* One character of a literal at the head of x, as many as belong to it.
UnitLength(x) ==
  IF x[1] # "\\" THEN 1
  ELSE LET ends == {n \in 2 .. Len(x) : \A e \in {SubSeq(x, 2, n)} : IsEscape(e) \/ LenientEscape(e)}
       IN IF ends = {} THEN 0 ELSE CHOOSE n \in ends : \A m \in ends : m <= n
RECURSIVE IsBody(_)
IsBody(x) ==
  x = << >> \/ (x[1] \notin {"\"", NL} /\ UnitLength(x) > 0 /\ IsBody(SubSeq(x, UnitLength(x) + 1, Len(x))))
Inner(x) == SubSeq(x, 2, Len(x) - 1)
Quoted(x, q) == Len(x) >= 2 /\ x[1] = q /\ Last(x) = q
IsString(x) == Quoted(x, "\"") /\ IsBody(Inner(x))
IsChar(x) ==
  /\ Quoted(x, "'") /\ Len(x) >= 3 /\ UnitLength(Inner(x)) = Len(x) - 2
  /\ x[2] \in {"'", NL} => LenientChar(x[2])
IsToken(x) == IsName(x) \/ IsNumber(x) \/ LenientNumber(x) \/ IsOperator(x) \/ IsString(x) \/ IsChar(x)

\* What a token means, digit by digit and character by character.
Weight(ds, base) == FoldLeft(LAMBDA a, i : a + hexval(ds[i]) * base ^ (Len(ds) - i), 0, [i \in DOMAIN ds |-> i])
NumberMeans(x) ==
  LET u == SelectSeq(x, LAMBDA c : c \notin IntSuffix)
  IN IF IsPrefix(<<"0", "x">>, u) THEN Weight(SubSeq(u, 3, Len(u)), 16) ELSE Weight(u, IF u[1] = "0" THEN 8 ELSE 10)
UnitMeans(x) ==
  CASE x[1] = NL -> 10
    [] x[1] \notin {NL, "\\"} -> Code[x[1]]
    [] x[1] = "\\" /\ x[2] = "x" -> Weight(SubSeq(x, 3, Len(x)), 16) % 256
    [] x[1] = "\\" /\ x[2] \in Range(SubSeq(Digits, 1, 8)) -> Weight(Tail(x), 8) % 256
    [] x[1] = "\\" /\ x[2] \in DOMAIN Letter -> Letter[x[2]]
    [] x[1] = "\\" /\ x[2] \in DOMAIN Itself -> Itself[x[2]]
    [] OTHER -> Code[x[2]]
RECURSIVE StringMeans(_)
StringMeans(x) ==
  IF x = << >> THEN <<0>>
  ELSE <<UnitMeans(SubSeq(x, 1, UnitLength(x)))>> \o StringMeans(SubSeq(x, UnitLength(x) + 1, Len(x)))
Means(x) ==
  CASE x[1] \in Range(Digits) -> NumberMeans(x)
    [] x[1] = "'" -> UnitMeans(Inner(x))
    [] x[1] = "\"" -> StringMeans(Inner(x))
    [] OTHER -> x

IsBlock(x) == /\ Len(x) >= 4 /\ <<x[1], x[2]>> = <<"/", "*">>
              /\ \A i \in 4 .. Len(x) : (x[i - 1] = "*" /\ x[i] = "/") <=> i = Len(x)
RECURSIVE IsGap(_)
IsGap(x) ==
  \/ x = << >>
  \/ x[1] \in White /\ IsGap(Tail(x))
  \/ \E n \in 2 .. Len(x) :
       /\ \/ IsBlock(SubSeq(x, 1, n))
          \/ /\ <<x[1], x[2]>> = <<"/", "/">> /\ \A i \in 1 .. n : x[i] # NL
             /\ n = Len(x) \/ x[n + 1] = NL
       /\ IsGap(SubSeq(x, n + 1, Len(x)))

(* The tokens cover the text but for blanks and comments, each is the      *)
(* longest token that begins where it does and no number is cut off before *)
(* a digit; each means what C says and stands on the line it tells.        *)
Covers(s, toks) ==
  /\ \A i \in DOMAIN toks :
       /\ IsGap(SubSeq(s, IF i = 1 THEN 1 ELSE toks[i - 1].end, toks[i].at - 1))
       /\ \A x \in {SubSeq(s, toks[i].at, toks[i].end - 1)} : IsToken(x) /\ toks[i].v = Means(x)
       /\ \A q \in toks[i].end .. Len(s) : ~IsToken(SubSeq(s, toks[i].at, q))
       /\ ~({s[toks[i].at], s[toks[i].end - 1], At(s, toks[i].end)} \subseteq Range(Digits))
       /\ toks[i].line = 1 + Len(SelectSeq(SubSeq(s, 1, toks[i].at - 1), LAMBDA c : c = NL))
  /\ IsGap(SubSeq(s, IF toks = << >> THEN 1 ELSE Last(toks).end, Len(s)))
\* A text the compiler may stop at: no token begins there, a comment that
\* does not end, or a number that goes on with digits it cannot have.
Rejected(s, p) ==
  \/ \A q \in p .. Len(s) : ~IsToken(SubSeq(s, p, q))
  \/ At(s, p) = "/" /\ At(s, p + 1) = "*" /\ \A q \in p .. Len(s) : ~IsBlock(SubSeq(s, p, q))
  \/ AllIn(SubSeq(s, p, p), Range(Digits)) /\ ~IsNumber(SubSeq(s, p, Span(s, p, Range(Digits)) - 1))
LexExact(s) == \A r \in {lex_all(s)} :
                 IF r.ok THEN Covers(s, r.toks) ELSE Covers(SubSeq(s, 1, r.at - 1), r.toks) /\ Rejected(s, r.at)
============================================================================
