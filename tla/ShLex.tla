------------------------------- MODULE ShLex --------------------------------
(***************************************************************************)
(* The lexer of the shell (src/src/cmd/sh/sh_lexer.c): the tokens of a     *)
(* line, with quotes and backslashes taken off and variables expanded.     *)
(*                                                                         *)
(* A line, a word and a value are sequences of characters.  No allocation  *)
(* ever fails here.                                                        *)
(***************************************************************************)
EXTENDS Integers, Sequences, SequencesExt, FiniteSetsExt

CONSTANTS
  Letters,           \* the characters isalpha accepts, and '_'
  DigitValue,        \* the digits, and what they are worth
  NameSize           \* sizeof(name) in expand_variable

ASSUME ShLexAssumption ==
  Letters \cap DOMAIN DigitValue = {} /\ NameSize \in Nat

SH_OK == 0
SH_ERR_NOMEM == 1
SH_ERR_LEX == 2
SH_ERR_PARSE == 3

SQ == "'"
DQ == "\""
BS == "\\"
NL == "\n"
BQ == "backquote"
Blanks == {" "}

(* Takes steps from x until one stops, at most n.                          *)
Repeat(step(_), x, n) ==
  LET after[k \in 0..n] ==
        IF k = 0 THEN x
        ELSE LET y == after[k - 1] IN IF y.stop THEN y ELSE step(y)
  IN after[n]

(* The first position from i on that holds a character of C, or where the  *)
(* input ends.                                                             *)
Find(s, i, C(_)) == Min({k \in i..Len(s) : C(s[k])} \cup {Len(s) + 1})

At(s, i) == IF i > Len(s) THEN "" ELSE s[i]

-----------------------------------------------------------------------------
(* Variables *)

Digits == DOMAIN DigitValue
NameChar(c) == c \in Letters \cup Digits
getenv(e, name) == IF name \in DOMAIN e THEN e[name] ELSE << >>

(* The name s[from..to-1] of a reference, with what follows it.            *)
Reference(s, e, braced, name, to) ==
  IF /\ name # << >> /\ Len(name) < NameSize
     /\ IF braced THEN At(s, to) = "}" ELSE name[1] \in Letters
  THEN [consumed |-> TRUE, text |-> getenv(e, name), pos |-> IF braced THEN to + 1 ELSE to]
  ELSE [consumed |-> FALSE, text |-> << >>, pos |-> to]

(* The reference at s[i] = '$', or what looks like one and is none.        *)
expand_variable(s, i, e) ==
  LET braced == At(s, i + 1) = "{"
      from == IF braced THEN i + 2 ELSE i + 1
      upto(to) == Reference(s, e, braced, SubSeq(s, from, to - 1), to)
  IN upto(Find(s, from, LAMBDA c : ~NameChar(c)))

(* A scan in progress: what it has read so far, up to where, and whether   *)
(* it stopped, with which error.  The buffer is NULL while it is empty.    *)
Scan(i) == [text |-> << >>, pos |-> i, stop |-> FALSE, err |-> SH_OK]
Fails(x, err) == [x EXCEPT !.stop = TRUE, !.err = err]
Takes(x, text, pos) == [x EXCEPT !.text = @ \o text, !.pos = pos]

(* An empty buffer after expand_variable is taken for a failed allocation. *)
Dollar(s, x, e) ==
  LET expanded(v) == IF x.text \o v.text = << >> THEN Fails(x, SH_ERR_NOMEM)
                     ELSE IF v.consumed THEN Takes(x, v.text, v.pos)
                     ELSE Takes(x, <<"$">>, x.pos + 1)
  IN expanded(expand_variable(s, x.pos, e))

read_single_quoted(s, i) ==
  LET close == Find(s, i + 1, LAMBDA c : c = SQ)
  IN IF close > Len(s) THEN Fails(Scan(i), SH_ERR_LEX)
     ELSE Takes(Scan(i), SubSeq(s, i + 1, close - 1), close + 1)

(* mutant: a backslash is an ordinary character between double quotes *)
MutQuotedChar(s, x) == Takes(x, <<s[x.pos]>>, x.pos + 1)

(* One character between double quotes, with the backslash before it.      *)
QuotedChar(s, x) ==
  LET n == At(s, x.pos + 1) IN
  IF s[x.pos] # BS THEN Takes(x, <<s[x.pos]>>, x.pos + 1)
  ELSE IF n \in {"", NL} THEN Fails(x, SH_ERR_LEX)
  ELSE Takes(x, IF n \in {DQ, BS, "$", BQ} THEN <<n>> ELSE <<BS, n>>, x.pos + 2)

read_double_quoted(s, i, e) ==
  LET step(x) ==
        IF x.pos > Len(s) THEN Fails(x, SH_ERR_LEX)
        ELSE IF s[x.pos] = DQ THEN [x EXCEPT !.pos = @ + 1, !.stop = TRUE]
        ELSE IF s[x.pos] = "$" THEN Dollar(s, x, e)
        ELSE QuotedChar(s, x)
  IN Repeat(step, Scan(i + 1), Len(s) + 1)

(* Any failure between quotes is reported as an unterminated quote.        *)
read_word(s, i, e) ==
  LET quoted(x, inner) ==
        IF inner.err # SH_OK THEN Fails(x, SH_ERR_LEX) ELSE Takes(x, inner.text, inner.pos)
      step(x) ==
        LET c == At(s, x.pos) IN
        CASE c \in {"", NL, "|", "<", ">", "#"} \cup Blanks -> [x EXCEPT !.stop = TRUE]
          [] c = SQ -> quoted(x, read_single_quoted(s, x.pos))
          [] c = DQ -> quoted(x, read_double_quoted(s, x.pos, e))
          [] c = "$" -> Dollar(s, x, e)
          [] c = BS /\ x.pos < Len(s) -> Takes(x, <<s[x.pos + 1]>>, x.pos + 2)
          [] OTHER -> Takes(x, <<c>>, x.pos + 1)
  IN Repeat(step, Scan(i), Len(s) + 1)

Token(type, pos) == [type |-> type, text |-> << >>, pos |-> pos, err |-> SH_OK]

Word(word) == [type |-> "WORD", text |-> word.text, pos |-> word.pos, err |-> word.err]

(* The token that begins at s[k], behind blanks and comments.              *)
TokenAt(s, k, e) ==
  CASE k > Len(s) -> Token("EOF", k)
    [] s[k] = NL -> Token("NEWLINE", k + 1)
    [] s[k] = "|" -> Token("PIPE", k + 1)
    [] s[k] = "<" -> Token("REDIR_IN", k + 1)
    [] s[k] = ">" /\ At(s, k + 1) = ">" -> Token("REDIR_APPEND", k + 2)
    [] s[k] = ">" /\ At(s, k + 1) # ">" -> Token("REDIR_OUT", k + 1)
    [] OTHER -> Word(read_word(s, k, e))

sh_lexer_next(s, i, e) ==
  LET behind(k) == IF At(s, k) = "#" THEN Find(s, k, LAMBDA c : c = NL) ELSE k
  IN TokenAt(s, behind(Find(s, i, LAMBDA c : c \notin Blanks)), e)

(* The tokens of a line up to its end or to an error of the lexer.         *)
Tokens(s, e) ==
  LET take(x, t) ==
        IF t.err # SH_OK THEN [x EXCEPT !.err = t.err, !.stop = TRUE]
        ELSE IF t.type \in {"NEWLINE", "EOF"} THEN [x EXCEPT !.stop = TRUE]
        ELSE [x EXCEPT !.toks = Append(@, t), !.pos = t.pos]
      step(x) == take(x, sh_lexer_next(s, x.pos, e))
  IN Repeat(step, [toks |-> << >>, pos |-> 1, err |-> SH_OK, stop |-> FALSE], Len(s) + 1)
=============================================================================
