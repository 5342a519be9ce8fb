------------------------------- MODULE CcMacro ------------------------------
(***************************************************************************)
(* The text level of the preprocessor of cc (src/src/cmd/cc/preprocess.c): *)
(* spliced lines, comments, and the expansion of macros.                   *)
(*                                                                         *)
(* A text is a sequence of characters; a name counts as one character.     *)
(* A macro is [func, params, variadic, body].  fatal ends the compiler: an *)
(* operator that may call it gives [ok, ...] with ok its message or "ok".  *)
(***************************************************************************)
EXTENDS Integers, Sequences, SequencesExt

CONSTANTS PP_MAX_EXPAND

NL == "NL"
Quotes == {"\"", "'"}
Blank == {" ", "TAB", "CR", NL}

-----------------------------------------------------------------------------
(* Lines and comments *)

RECURSIVE splice_lines(_)
splice_lines(src) ==
  IF src = << >> THEN << >>
  ELSE IF Len(src) >= 2 /\ src[1] = "\\" /\ src[2] = NL THEN splice_lines(SubSeq(src, 3, Len(src)))
  ELSE IF Len(src) >= 3 /\ src[1] = "\\" /\ src[2] = "CR" /\ src[3] = NL
  THEN splice_lines(SubSeq(src, 4, Len(src)))
  ELSE <<src[1]>> \o splice_lines(Tail(src))

(* The length of the literal a text begins with; a line ends it when       *)
(* lines is set.                                                           *)
RECURSIVE LiteralFrom(_, _, _, _)
LiteralFrom(s, i, q, lines) ==
  IF i > Len(s) THEN Len(s)
  ELSE IF s[i] = "\\" /\ i < Len(s) THEN LiteralFrom(s, i + 2, q, lines)
  ELSE IF s[i] = q \/ (lines /\ s[i] = NL) THEN i
  ELSE LiteralFrom(s, i + 1, q, lines)
Literal(s, lines) == LiteralFrom(s, 2, s[1], lines)

Drop(s, n) == SubSeq(s, n + 1, Len(s))
Take(s, n) == SubSeq(s, 1, n)
Emit(head, r) == [r EXCEPT !.out = head \o @]

RECURSIVE LineComment(_)
LineComment(s) == IF s = << >> \/ s[1] = NL THEN s ELSE LineComment(Tail(s))

RECURSIVE BlockComment(_)
BlockComment(s) ==
  IF s = << >> THEN [ok |-> "unterminated block comment", out |-> << >>, rest |-> s]
  ELSE IF Len(s) >= 2 /\ s[1] = "*" /\ s[2] = "/" THEN [ok |-> "ok", out |-> << >>, rest |-> Drop(s, 2)]
  ELSE Emit(IF s[1] = NL THEN <<NL>> ELSE << >>, BlockComment(Tail(s)))

RECURSIVE strip_comments(_)
AfterBlock(c) == IF c.ok = "ok" THEN Emit(c.out, strip_comments(c.rest)) ELSE c
strip_comments(s) ==
  IF s = << >> THEN [ok |-> "ok", out |-> << >>, rest |-> << >>]
  ELSE IF Len(s) >= 2 /\ s[1] = "/" /\ s[2] = "/" THEN strip_comments(LineComment(s))
  ELSE IF Len(s) >= 2 /\ s[1] = "/" /\ s[2] = "*" THEN AfterBlock(BlockComment(Drop(s, 2)))
  ELSE IF s[1] \in Quotes THEN Emit(Take(s, Literal(s, TRUE)), strip_comments(Drop(s, Literal(s, TRUE))))
  ELSE Emit(<<s[1]>>, strip_comments(Tail(s)))

-----------------------------------------------------------------------------
(* Expansion *)

Fatal(why) == [ok |-> why, out |-> << >>, next |-> 0]

RECURSIVE SkipSpace(_, _)
SkipSpace(s, i) == IF i <= Len(s) /\ s[i] \in Blank THEN SkipSpace(s, i + 1) ELSE i
RECURSIVE TrimEnd(_)
TrimEnd(s) == IF s # << >> /\ Last(s) \in Blank THEN TrimEnd(Front(s)) ELSE s
trim_slice(s) == TrimEnd(Drop(s, SkipSpace(s, 1) - 1))

(* The place of the comma or parenthesis that ends the argument at p.      *)
RECURSIVE ArgEnd(_, _, _)
ArgEnd(s, p, depthp) ==
  IF p > Len(s) THEN p
  ELSE IF s[p] \in Quotes THEN ArgEnd(s, p + Literal(Drop(s, p - 1), FALSE), depthp)
  ELSE IF s[p] = "(" THEN ArgEnd(s, p + 1, depthp + 1)
  ELSE IF s[p] = ")" THEN IF depthp = 1 THEN p ELSE ArgEnd(s, p + 1, depthp - 1)
  ELSE IF s[p] = "," /\ depthp = 1 THEN p
  ELSE ArgEnd(s, p + 1, depthp)

RECURSIVE Args(_, _)
ArgsTo(s, start, p) ==
  IF p > Len(s) THEN Fatal("unterminated macro invocation")
  ELSE IF s[p] = ")" THEN [ok |-> "ok", out |-> <<trim_slice(SubSeq(s, start, p - 1))>>, next |-> p + 1]
  ELSE Emit(<<trim_slice(SubSeq(s, start, p - 1))>>, Args(s, p + 1))
Args(s, start) == ArgsTo(s, start, ArgEnd(s, start, 1))

(* A call without arguments gives a macro with one parameter an empty one. *)
CallArgs(m, s, p) ==
  IF SkipSpace(s, p) <= Len(s) /\ s[SkipSpace(s, p)] = ")"
  THEN [ok |-> "ok", out |-> IF Len(m.params) = 1 THEN << << >> >> ELSE << >>, next |-> SkipSpace(s, p) + 1]
  ELSE Args(s, p)

CountOk(m, n) == IF m.variadic THEN n >= Len(m.params) ELSE n = Len(m.params)

macro_param_index(m, name) ==
  IF \E i \in DOMAIN m.params : m.params[i] = name
  THEN CHOOSE i \in DOMAIN m.params : m.params[i] = name /\ \A j \in 1 .. i - 1 : m.params[j] # name
  ELSE 0

VaArgs(m, exp) ==
  FlattenSeq([i \in 1 .. Len(exp) - Len(m.params) |->
                (IF i > 1 THEN <<",">> ELSE << >>) \o exp[Len(m.params) + i]])

RECURSIVE Subst(_, _, _)
Subst(m, body, exp) ==
  IF body = << >> THEN << >>
  ELSE IF body[1] \in Quotes
  THEN Take(body, Literal(body, FALSE)) \o Subst(m, Drop(body, Literal(body, FALSE)), exp)
  ELSE (IF macro_param_index(m, body[1]) > 0 THEN exp[macro_param_index(m, body[1])]
        ELSE IF m.variadic /\ body[1] = "__VA_ARGS__" THEN VaArgs(m, exp)
        ELSE <<body[1]>>) \o Subst(m, Tail(body), exp)

RECURSIVE ExpandFrom(_, _, _, _, _)
RECURSIVE ExpandAll(_, _, _, _)

expand_into(macros, text, hide, depth) ==
  IF depth > PP_MAX_EXPAND THEN Fatal("macro expansion too deep") ELSE ExpandFrom(macros, text, 1, hide, depth)

Expanded(first, macros, args, hide, depth) ==
  IF first.ok # "ok" THEN first ELSE Emit(<<first.out>>, ExpandAll(macros, args, hide, depth))

(* Every argument is expanded before it is put into the body.              *)
ExpandAll(macros, args, hide, depth) ==
  IF args = << >> THEN [ok |-> "ok", out |-> << >>, next |-> 0]
  ELSE Expanded(expand_into(macros, args[1], hide, depth), macros, Tail(args), hide, depth)

(* What came before, then the text from i on.                              *)
Then(macros, r, text, i, hide, depth) ==
  IF r.ok # "ok" THEN r ELSE Emit(r.out, ExpandFrom(macros, text, i, hide, depth))

Body(macros, name, exp, hide, depth) ==
  IF exp.ok # "ok" THEN exp
  ELSE expand_into(macros, Subst(macros[name], macros[name].body, exp.out), hide \cup {name}, depth + 1)

expand_func_macro(macros, name, args, hide, depth) ==
  IF args.ok # "ok" THEN args
  ELSE IF ~CountOk(macros[name], Len(args.out)) THEN Fatal("wrong number of arguments")
  ELSE Body(macros, name, ExpandAll(macros, args.out, hide, depth + 1), hide, depth)

Call(macros, text, name, args, hide, depth) ==
  Then(macros, expand_func_macro(macros, name, args, hide, depth), text, args.next, hide, depth)

IsCall(text, i) == SkipSpace(text, i + 1) <= Len(text) /\ text[SkipSpace(text, i + 1)] = "("

ExpandFrom(macros, text, i, hide, depth) ==
  IF i > Len(text) THEN [ok |-> "ok", out |-> << >>, next |-> 0]
  ELSE IF text[i] \in Quotes
  THEN Emit(Take(Drop(text, i - 1), Literal(Drop(text, i - 1), FALSE)),
            ExpandFrom(macros, text, i + Literal(Drop(text, i - 1), FALSE), hide, depth))
  ELSE IF text[i] \notin DOMAIN macros \/ text[i] \in hide
  THEN Emit(<<text[i]>>, ExpandFrom(macros, text, i + 1, hide, depth))
  ELSE IF ~macros[text[i]].func
  THEN Then(macros, expand_into(macros, macros[text[i]].body, hide \cup {text[i]}, depth + 1),
            text, i + 1, hide, depth)
  ELSE IF IsCall(text, i)
  THEN Call(macros, text, text[i], CallArgs(macros[text[i]], text, SkipSpace(text, i + 1) + 1), hide, depth)
  ELSE Emit(<<text[i]>>, ExpandFrom(macros, text, i + 1, hide, depth))

-----------------------------------------------------------------------------
(* Reference: C replaces every comment by one space.  The space is "gap"   *)
(* here, behind the line ends of the comment, which keep the lines their   *)
(* numbers.                                                                *)
StripStep(a, c) ==
  CASE a.in = "code" -> IF c = "/" THEN [a EXCEPT !.in = "slash"]
                        ELSE [out |-> Append(a.out, c), in |-> IF c \in Quotes THEN c ELSE "code"]
    [] a.in = "slash" -> IF c = "/" THEN [a EXCEPT !.in = "line"]
                         ELSE IF c = "*" THEN [a EXCEPT !.in = "block"]
                         ELSE [out |-> a.out \o <<"/", c>>, in |-> IF c \in Quotes THEN c ELSE "code"]
    [] a.in = "line" -> IF c = NL THEN [out |-> a.out \o <<"gap", NL>>, in |-> "code"] ELSE a
    [] a.in \in {"block", "star"} ->
         IF a.in = "star" /\ c = "/" THEN [out |-> Append(a.out, "gap"), in |-> "code"]
         ELSE [out |-> IF c = NL THEN Append(a.out, NL) ELSE a.out, in |-> IF c = "*" THEN "star" ELSE "block"]
    [] a.in \in Quotes -> [out |-> Append(a.out, c),
                           in |-> IF c = "\\" THEN IF a.in = "'" THEN "'esc" ELSE "\"esc"
                                  ELSE IF c \in {a.in, NL} THEN "code" ELSE a.in]
    [] OTHER -> [out |-> Append(a.out, c), in |-> IF a.in = "'esc" THEN "'" ELSE "\""]

Stripped(s) ==
  LET a == FoldLeft(StripStep, [out |-> << >>, in |-> "code"], s)
  IN [a EXCEPT !.out = IF a.in = "slash" THEN Append(@, "/") ELSE @]
White == Blank \cup {"gap"}
Newlines(s) == Len(SelectSeq(s, LAMBDA c : c = NL))
Ink(s) == SelectSeq(s, LAMBDA c : c \notin White)
\* The places of Ink(s) that white space holds apart from what comes before.
Breaks(s) ==
  {Len(Ink(Take(s, i))) :
     i \in {i \in 2 .. Len(s) : s[i] \notin White /\ s[i - 1] \in White /\ Ink(Take(s, i - 1)) # << >>}}

(* Where strip_comments departs from C: comments that stand on one line    *)
(* between two characters are no space, and the characters are joined.     *)
OnlyGaps(s, k, i) == k < i /\ s[k] \notin White /\ \A j \in k + 1 .. i - 1 : s[j] = "gap"
Joined(s) ==
  {Len(Ink(Take(s, i))) :
     i \in {i \in 2 .. Len(s) : s[i] \notin White /\ s[i - 1] = "gap" /\ \E k \in 1 .. i - 1 : OnlyGaps(s, k, i)}}

(* Comments go and nothing else, literals are left alone, and every line   *)
(* keeps its number.  White space stands between the same characters as in *)
(* C, but for the comments that join what stands around them.  A comment   *)
(* that does not end is an error.                                          *)
StripExact(s) ==
  \A spliced \in {splice_lines(s)} : \A a \in {Stripped(spliced)} : \A c \in {strip_comments(spliced)} :
    /\ (c.ok = "ok") = (a.in \notin {"block", "star"})
    /\ c.ok = "ok" => /\ Ink(c.out) = Ink(a.out)
                      /\ Breaks(c.out) = Breaks(a.out) \ Joined(a.out)
                      /\ Newlines(c.out) = Newlines(spliced)

(* Reference: outermost macros first, their arguments unexpanded, until no *)
(* macro is left.                                                          *)
RECURSIVE Normal(_, _)
Calls(macros, s, i) == s[i] \in DOMAIN macros /\ (macros[s[i]].func => IsCall(s, i))
NormalCall(macros, s, a) ==
  Normal(macros, Subst(macros[s[1]], macros[s[1]].body, a.out) \o Drop(s, a.next - 1))
Normal(macros, s) ==
  IF s = << >> THEN << >>
  ELSE IF s[1] \in Quotes THEN Take(s, Literal(s, FALSE)) \o Normal(macros, Drop(s, Literal(s, FALSE)))
  ELSE IF ~Calls(macros, s, 1) THEN <<s[1]>> \o Normal(macros, Tail(s))
  ELSE IF ~macros[s[1]].func THEN Normal(macros, macros[s[1]].body \o Tail(s))
  ELSE NormalCall(macros, s, CallArgs(macros[s[1]], s, SkipSpace(s, 2) + 1))

RangeOf(s) == {s[i] : i \in DOMAIN s}
RECURSIVE Reached(_, _, _)
Reached(macros, names, n) ==
  IF n = 0 THEN names
  ELSE Reached(macros, names \cup UNION {RangeOf(macros[x].body) \cap DOMAIN macros : x \in names}, n - 1)
Acyclic(macros) ==
  \A x \in DOMAIN macros : x \notin Reached(macros, RangeOf(macros[x].body) \cap DOMAIN macros, 3)

(* A function macro that is named without a call, here or in a body.       *)
Bare(macros, s) == \E i \in DOMAIN s : s[i] \in DOMAIN macros /\ macros[s[i]].func /\ ~IsCall(s, i)

(* Expansion never runs away, whatever the macros; and where macros do not *)
(* name themselves, expanding the arguments first gives what expanding     *)
(* everything from the outside gives.                                      *)
MacroExact(macros, text) ==
  \A r \in {expand_into(macros, text, {}, 0)} :
    /\ r.ok # "macro expansion too deep"
    /\ r.ok = "ok" /\ Acyclic(macros) /\ ~Bare(macros, text) /\ (\A x \in DOMAIN macros : ~Bare(macros, macros[x].body))
         => r.out = Normal(macros, text)
=============================================================================
