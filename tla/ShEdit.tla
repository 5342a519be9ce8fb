------------------------------- MODULE ShEdit -------------------------------
(***************************************************************************)
(* The line editor of the interactive shell (src/src/cmd/sh/sh_edit.c) and *)
(* the loop that uses it (run_interactive_tty of sh_main.c): editing keys, *)
(* escape sequences read with a timeout, the history, completion, and the  *)
(* mode of the terminal around every command.                              *)
(*                                                                         *)
(* The functions on struct sh_line and struct sh_edit are operators on the *)
(* record le.  The layout of the list of matches is left out.              *)
(***************************************************************************)
EXTENDS ShLex

CONSTANTS
  Keys,          \* bytes the terminal may send
  Builtins,      \* "cd", "pwd" and "exit", as sequences of characters
  Commands,      \* [name, kind] of the entries of the four path directories
  Tree,          \* directory |-> its entries [name, kind]
  MaxHistory,    \* SH_HISTORY_MAX, 128 in the code
  MaxParams,     \* 15 in the code
  Env,           \* the variables the shell has, and their values
  MaxTyped       \* bound: bytes read, those a full buffer drops apart

VARIABLES
  le,            \* [data, pos, hist_index, draft, tab_armed]
  history,
  shpc,          \* "prompt", "rawing", "read", "esc", "seq", "restore", "restoring", "run", "done"
  params,        \* of the escape sequence being read
  ready,         \* a byte of it has come, and poll has not timed out
  result,        \* "ok", "cancel", "eof" or "err", when sh_edit_line has returned
  tty,           \* "cooked" or "raw"
  sh_tty_is_raw,
  count,         \* bytes read so far
  left           \* the line that was left by the last move up from the newest
vars == <<le, history, shpc, params, ready, result, tty, sh_tty_is_raw, count, left>>

Space == " "
Slash == "/"
Backslash == "\\"
Special == {Space, "|", "<", ">", "#", Backslash, "'", "\""}

-----------------------------------------------------------------------------
(* The line *)

SetLine(l, s) == [l EXCEPT !.data = s, !.pos = Len(s)]
Before(l) == SubSeq(l.data, 1, l.pos)
After(l) == SubSeq(l.data, l.pos + 1, Len(l.data))
Cut(l, from, to) == SubSeq(l.data, 1, from) \o SubSeq(l.data, to + 1, Len(l.data))

sh_line_insert(l, c) == [l EXCEPT !.data = Append(Before(l), c) \o After(l), !.pos = @ + 1]
sh_line_delete_before(l) ==
  IF l.pos = 0 THEN l ELSE [l EXCEPT !.data = Cut(l, l.pos - 1, l.pos), !.pos = @ - 1]
sh_line_delete_at(l) == IF l.pos >= Len(l.data) THEN l ELSE [l EXCEPT !.data = Cut(l, l.pos, l.pos + 1)]
sh_line_kill_to_end(l) == [l EXCEPT !.data = Before(l)]
sh_line_kill_to_start(l) == [l EXCEPT !.data = After(l), !.pos = 0]

(* The spaces before the cursor and the word before them go.               *)
sh_line_erase_word(l) ==
  LET word == {i \in 1 .. l.pos : l.data[i] # Space}
      gap == IF word = {} THEN {} ELSE {i \in 1 .. Max(word) : l.data[i] = Space}
      start == IF gap = {} THEN 0 ELSE Max(gap)
  IN [l EXCEPT !.data = Cut(l, start, l.pos), !.pos = start]

sh_line_replace(l, start, text) ==
  [l EXCEPT !.data = SubSeq(l.data, 1, start) \o text \o After(l), !.pos = start + Len(text)]

-----------------------------------------------------------------------------
(* History *)

sh_history_add(h, line) ==
  IF \A i \in DOMAIN line : line[i] = Space THEN h
  ELSE Append(IF Len(h) = MaxHistory THEN Tail(h) ELSE h, line)

AtNewest(l) == l.hist_index = Len(history)

HistoryUp(l) ==
  IF l.hist_index = 0 THEN l
  ELSE SetLine([l EXCEPT !.hist_index = @ - 1, !.draft = IF AtNewest(l) THEN l.data ELSE @],
               history[l.hist_index])

HistoryDown(l) ==
  IF AtNewest(l) THEN l
  ELSE LET i == l.hist_index + 1
       IN SetLine([l EXCEPT !.hist_index = i], IF i = Len(history) THEN l.draft ELSE history[i + 1])

-----------------------------------------------------------------------------
(* Completion *)

(* sh_complete_context: the word that ends at the cursor.                  *)
Fresh == [start |-> 0, at_cmd |-> TRUE, in_word |-> FALSE, word_cmd |-> FALSE, quoted |-> FALSE,
          quote |-> "", skip |-> FALSE, comment |-> FALSE]

InWord(x, i) ==
  IF x.in_word THEN x ELSE [x EXCEPT !.in_word = TRUE, !.start = i - 1, !.word_cmd = x.at_cmd]

ContextChar(l, x, i) ==
  LET c == l.data[i] IN
  CASE x.skip -> [x EXCEPT !.skip = FALSE]
    [] x.comment -> x
    [] ~x.skip /\ ~x.comment /\ x.quote # "" ->
         IF x.quote = "\"" /\ c = Backslash /\ i < l.pos THEN [x EXCEPT !.skip = TRUE]
         ELSE IF c = x.quote THEN [x EXCEPT !.quote = ""] ELSE x
    [] OTHER ->
         CASE c = Backslash -> [x EXCEPT !.skip = i < l.pos]
           [] c \in {"'", "\""} -> [InWord(x, i) EXCEPT !.quoted = TRUE, !.quote = c]
           [] c = Space -> IF x.in_word THEN [x EXCEPT !.in_word = FALSE, !.quoted = FALSE, !.at_cmd = FALSE] ELSE x
           [] c \in {"|", "<", ">"} -> [x EXCEPT !.in_word = FALSE, !.quoted = FALSE, !.at_cmd = c = "|"]
           [] c = "#" -> [x EXCEPT !.comment = TRUE]
           [] OTHER -> InWord(x, i)

sh_complete_context(l) ==
  LET x == FoldLeft(LAMBDA a, i : ContextChar(l, a, i), Fresh, [i \in 1 .. l.pos |-> i])
  IN [start |-> IF x.in_word THEN x.start ELSE l.pos,
      cmd_pos |-> IF x.in_word THEN x.word_cmd ELSE x.at_cmd,
      valid |-> ~x.comment /\ (~x.in_word \/ (~x.quoted /\ x.quote = ""))]

(* A backslash makes the next character an ordinary one.                   *)
sh_complete_word_text(l, start) ==
  LET s == SubSeq(l.data, start + 1, l.pos)
      escape == FoldLeft(LAMBDA a, i : Append(a, s[i] = Backslash /\ i < Len(s) /\ (i = 1 \/ ~a[i - 1])),
                         << >>, [i \in DOMAIN s |-> i])
  IN FoldLeft(LAMBDA a, i : IF escape[i] THEN a ELSE Append(a, s[i]), << >>, [i \in DOMAIN s |-> i])

(* mutant: a backslash is not escaped *)
MutEscape(text) ==
  FlattenSeq([i \in DOMAIN text |-> IF text[i] \in Special \ {Backslash} THEN <<Backslash, text[i]>> ELSE <<text[i]>>])

sh_complete_escape(text) ==
  FlattenSeq([i \in DOMAIN text |-> IF text[i] \in Special THEN <<Backslash, text[i]>> ELSE <<text[i]>>])

Split(word) ==
  LET slashes == {i \in DOMAIN word : word[i] = Slash}
      dirlen == IF slashes = {} THEN 0 ELSE Max(slashes)
  IN [dirpart |-> SubSeq(word, 1, dirlen), base |-> SubSeq(word, dirlen + 1, Len(word))]

sh_complete_dir_name(dirpart) ==
  IF dirpart = << >> THEN <<".">>
  ELSE SubSeq(dirpart, 1, Max({1} \cup {i \in DOMAIN dirpart : dirpart[i] # Slash}))

sh_complete_scan_dir(entries, prefix, base) ==
  {[name |-> prefix \o e.name, is_dir |-> e.kind = "dir"] :
     e \in {f \in entries : IsPrefix(base, f.name) /\ (f.name[1] = "." => base # << >> /\ base[1] = ".")}}

sh_complete_collect(word, cmd_pos) ==
  LET w == Split(word) IN
  IF cmd_pos /\ w.dirpart = << >>
  THEN {[name |-> b, is_dir |-> FALSE] : b \in {b \in Builtins : IsPrefix(word, b)}}
       \cup sh_complete_scan_dir({e \in Commands : e.kind = "exec"}, << >>, word)
  ELSE LET dir == sh_complete_dir_name(w.dirpart)
       IN IF dir \in DOMAIN Tree THEN sh_complete_scan_dir(Tree[dir], w.dirpart, w.base) ELSE {}

sh_complete_lcp(list) ==
  LET names == {m.name : m \in list}
      first == CHOOSE n \in names : TRUE
  IN SubSeq(first, 1, Max({k \in 0 .. Len(first) : \A n \in names : IsPrefix(SubSeq(first, 1, k), n)}))

(* What a tab does, given the matches of the word from start to the cursor. *)
Insert(l, start, text) == sh_line_replace([l EXCEPT !.tab_armed = FALSE], start, sh_complete_escape(text))
Only(l, start, m) == sh_line_insert(Insert(l, start, m.name), IF m.is_dir THEN Slash ELSE Space)
Several(l, start, word, lcp) ==
  IF Len(lcp) > Len(word) THEN Insert(l, start, lcp) ELSE [l EXCEPT !.tab_armed = ~@]
Matched(l, start, word, list) ==
  CASE list = {} -> [l EXCEPT !.tab_armed = FALSE]
    [] Cardinality(list) = 1 -> Only(l, start, CHOOSE m \in list : TRUE)
    [] OTHER -> Several(l, start, word, sh_complete_lcp(list))

CompleteWord(l, ctx, word) ==
  IF ctx.valid THEN Matched(l, ctx.start, word, sh_complete_collect(word, ctx.cmd_pos)) ELSE l
CompleteAt(l, ctx) == CompleteWord(l, ctx, sh_complete_word_text(l, ctx.start))
sh_edit_complete(l) == CompleteAt(l, sh_complete_context(l))

-----------------------------------------------------------------------------
(* Keys *)

ToStart(l) == [l EXCEPT !.pos = 0]
ToEnd(l) == [l EXCEPT !.pos = Len(l.data)]
Forward(l) == IF l.pos < Len(l.data) THEN [l EXCEPT !.pos = @ + 1] ELSE l
Back(l) == IF l.pos > 0 THEN [l EXCEPT !.pos = @ - 1] ELSE l

Control == {"^A", "^B", "^D", "^E", "^F", "^K", "^N", "^P", "^U", "^W", "BS", "TAB"}
Edit(l, c) ==
  CASE c = "^A" -> ToStart(l)
    [] c = "^B" -> Back(l)
    [] c = "^D" -> sh_line_delete_at(l)
    [] c = "^E" -> ToEnd(l)
    [] c = "^F" -> Forward(l)
    [] c = "^K" -> sh_line_kill_to_end(l)
    [] c = "^N" -> HistoryDown(l)
    [] c = "^P" -> HistoryUp(l)
    [] c = "^U" -> sh_line_kill_to_start(l)
    [] c = "^W" -> sh_line_erase_word(l)
    [] c = "BS" -> sh_line_delete_before(l)
    [] c = "TAB" -> sh_edit_complete(l)
    [] OTHER -> sh_line_insert(l, c)

Finals == {"A", "B", "C", "D", "H", "F", "~", "[", "O", "a", Backslash}
Final(l, c) ==
  CASE c = "A" -> HistoryUp(l)
    [] c = "B" -> HistoryDown(l)
    [] c = "C" -> Forward(l)
    [] c = "D" -> Back(l)
    [] c = "H" \/ (c = "~" /\ params \in {<<"1">>, <<"7">>}) -> ToStart(l)
    [] c = "F" \/ (c = "~" /\ params \in {<<"4">>, <<"8">>}) -> ToEnd(l)
    [] c = "~" /\ params = <<"3">> -> sh_line_delete_at(l)
    [] OTHER -> l

-----------------------------------------------------------------------------
(* run_interactive_tty and sh_edit_line *)

NewLine == [data |-> << >>, pos |-> 0, hist_index |-> Len(history), draft |-> << >>, tab_armed |-> FALSE]

Init ==
  /\ history = << >> /\ le = NewLine /\ shpc = "prompt" /\ params = << >> /\ ready = FALSE /\ result = "ok"
  /\ tty = "cooked" /\ sh_tty_is_raw = FALSE /\ count = 0 /\ left = << >>

(* sh_tty_raw, up to its assignment to the flag, or its failure.           *)
sh_tty_raw ==
  /\ shpc = "prompt"
  /\ \/ tty' = "raw" /\ shpc' = "rawing"
     \/ shpc' = "done" /\ UNCHANGED tty
  /\ UNCHANGED <<le, history, params, ready, result, sh_tty_is_raw, count, left>>

sh_edit_init ==
  /\ shpc = "rawing" /\ shpc' = "read"
  /\ sh_tty_is_raw' = TRUE
  /\ le' = NewLine /\ left' = << >>
  /\ UNCHANGED <<history, params, ready, result, tty, count>>

Return(r) == result' = r /\ shpc' = "restore"
Reads(c) == c \in Keys /\ count < MaxTyped /\ count' = count + 1
Disarmed(l, c) == IF c = "TAB" THEN l ELSE [l EXCEPT !.tab_armed = FALSE]
Leaves(l, after) == IF AtNewest(l) /\ after.hist_index < l.hist_index THEN l.data ELSE left

Key(c) ==
  /\ shpc = "read" /\ Reads(c) /\ params' = << >>
  /\ CASE c = "CR" -> Return("ok") /\ UNCHANGED <<le, left>>
       [] c = "^C" -> Return("cancel") /\ UNCHANGED <<le, left>>
       [] c = "^D" /\ le.data = << >> -> Return("eof") /\ UNCHANGED <<le, left>>
       [] c = "ESC" -> shpc' = "esc" /\ le' = Disarmed(le, c) /\ UNCHANGED <<result, left>>
       [] OTHER -> /\ le' = Edit(Disarmed(le, c), c) /\ left' = Leaves(le, le')
                   /\ UNCHANGED <<shpc, result>>
  /\ UNCHANGED <<history, ready, tty, sh_tty_is_raw>>

(* The end of the input, or a read, a write or an allocation that fails.   *)
KeyFails ==
  /\ shpc = "read"
  /\ \E r \in {"eof", "err"} : Return(r)
  /\ UNCHANGED <<le, history, params, ready, tty, sh_tty_is_raw, count, left>>

(* poll returns because there is a byte, and sh_tty_getc takes it.  A byte *)
(* that cannot end the sequence is dropped when its buffer is full; these  *)
(* are not counted, so that there is no end to them.                       *)
Full == shpc = "seq" /\ Len(params) = MaxParams
Counts(c) == ~Full \/ c \in Finals

Arrives ==
  /\ shpc \in {"esc", "seq"} /\ ~ready /\ (Full \/ count < MaxTyped)
  /\ ready' = TRUE
  /\ UNCHANGED <<le, history, shpc, params, result, tty, sh_tty_is_raw, count, left>>

sh_tty_getc(c) ==
  /\ ready /\ ready' = FALSE
  /\ c \in Keys
  /\ IF Counts(c) THEN Reads(c) ELSE UNCHANGED count

sh_edit_escape(c) ==
  /\ shpc = "esc" /\ sh_tty_getc(c)
  /\ shpc' = IF c \in {"[", "O"} THEN "seq" ELSE "read"
  /\ UNCHANGED <<le, history, params, result, tty, sh_tty_is_raw, left>>

sh_edit_escape_seq(c) ==
  /\ shpc = "seq" /\ sh_tty_getc(c)
  /\ IF c \in Finals THEN le' = Final(le, c) /\ left' = Leaves(le, le') /\ shpc' = "read" /\ UNCHANGED params
     ELSE /\ params' = IF Full THEN params ELSE Append(params, c)
          /\ UNCHANGED <<le, left, shpc>>
  /\ UNCHANGED <<history, result, tty, sh_tty_is_raw>>

(* 50 milliseconds without a byte: what comes later is text again.         *)
Timeout ==
  /\ shpc \in {"esc", "seq"} /\ ~ready /\ shpc' = "read"
  /\ UNCHANGED <<le, history, params, ready, result, tty, sh_tty_is_raw, count, left>>

sh_tty_restore ==
  /\ shpc = "restore" /\ shpc' = "restoring" /\ tty' = "cooked"
  /\ UNCHANGED <<le, history, params, ready, result, sh_tty_is_raw, count, left>>

Returned ==
  /\ shpc = "restoring" /\ sh_tty_is_raw' = FALSE
  /\ shpc' = CASE result = "ok" -> "run" [] result = "cancel" -> "prompt" [] OTHER -> "done"
  /\ history' = IF result = "ok" THEN sh_history_add(history, le.data) ELSE history
  /\ UNCHANGED <<le, params, ready, result, tty, count, left>>

(* run_line: the command ends, or it is "exit".                            *)
Ran ==
  /\ shpc = "run" /\ shpc' \in {"prompt", "done"}
  /\ UNCHANGED <<le, history, params, ready, result, tty, sh_tty_is_raw, count, left>>

(* SIGHUP or SIGTERM; the handler is there before the first prompt.        *)
sh_tty_fatal ==
  /\ shpc # "done" /\ shpc' = "done"
  /\ tty' = IF sh_tty_is_raw THEN "cooked" ELSE tty
  /\ sh_tty_is_raw' = FALSE
  /\ result' = IF shpc = "rawing" THEN "early" ELSE result
  /\ UNCHANGED <<le, history, params, ready, count, left>>

Step == sh_edit_init \/ Timeout \/ sh_tty_restore \/ Returned

Next ==
  \/ Step \/ sh_tty_raw \/ KeyFails \/ Arrives \/ Ran \/ sh_tty_fatal
  \/ \E c \in Keys : Key(c) \/ sh_edit_escape(c) \/ sh_edit_escape_seq(c)

(* The shell runs, takes the byte there is, and poll returns after 50      *)
(* milliseconds without one.                                               *)
Fairness ==
  /\ WF_vars(Step)
  /\ []<>(ready => shpc = "done")

-----------------------------------------------------------------------------
(* The cursor stays in the line and the history in its bound; the line on  *)
(* the newest place after a move down is the one that was left there.      *)
LineSound ==
  /\ le.pos <= Len(le.data)
  /\ Len(history) <= MaxHistory /\ (shpc \in {"read", "esc", "seq"} => le.hist_index <= Len(history))
  /\ shpc = "read" /\ le.hist_index + 1 = Len(history) => HistoryDown(le).data = left

Names == UNION {Tree[d] : d \in DOMAIN Tree} \cup {e \in Commands : e.kind = "exec"}
         \cup {[name |-> b, kind |-> "exec"] : b \in Builtins}

(* The text s ends in a word, of the tokens T that the lexer finds in it.  *)
OpenWord(T, s) == T # << >> /\ Last(T).type = "WORD" /\ Last(T).pos = Len(s) + 1

(* From the tokens T of what was before the cursor to the tokens R of what *)
(* is there now only the word at the cursor changed, to that of a match.   *)
CompletedWord(T, R, open, ended) ==
  LET old == IF open THEN Last(T).text ELSE << >>
      new == Last(R).text
  IN /\ R # << >> /\ Front(R) = IF open THEN Front(T) ELSE T
     /\ Last(R).type = "WORD" /\ IsPrefix(old, new)
     /\ \E e \in Names :
          /\ ~ended /\ Last(new) # Slash => IsPrefix(Split(new).base, e.name)
          /\ ended => Split(new).base = e.name /\ e.kind # "dir"

(* Completion replaces the word before the cursor, and nothing else, by    *)
(* what the lexer reads as the name of the only match, or as the longest   *)
(* beginning that the matches share.  Left out are a word that begins with *)
(* a backslash, which is not seen as one; a word with a '$', which         *)
(* sh_complete_escape does not protect, so that the lexer may expand it;   *)
(* and a line that the lexer refuses before it is completed.               *)
CompletionExact ==
  shpc = "read" =>
    \A after \in {sh_edit_complete(le)}, start \in {sh_complete_context(le).start} :
      /\ after.data # le.data
      /\ ~(start > 1 /\ le.data[start - 1] = Backslash)
      /\ "$" \notin Range(SubSeq(after.data, start + 1, after.pos))
      => \A typed \in {Tokens(Before(le), Env)}, read \in {Tokens(Before(after), Env)} :
           /\ After(after) = After(le)
           /\ typed.err = SH_OK =>
                /\ read.err = SH_OK
                /\ CompletedWord(typed.toks, read.toks, OpenWord(typed.toks, Before(le)),
                                 ~OpenWord(read.toks, Before(after)))

(* No command runs, and the shell does not end, with the terminal raw.     *)
TerminalCooked == shpc \in {"run", "prompt"} \/ (shpc = "done" /\ result # "early") => tty = "cooked"

ShEditSound == LineSound /\ CompletionExact /\ TerminalCooked

(* The buffer of an escape sequence is full and drops the byte that came.  *)
Drops == Full /\ ready /\ ~ready' /\ shpc' = "seq"

(* An escape sequence that is never completed does not hold up the keys:   *)
(* it is given up when no byte comes for 50 milliseconds.  Only a user who *)
(* never pauses and never presses a key that ends it keeps it open, and    *)
(* what is typed then is lost.                                             *)
EscapeEnds == (shpc \in {"esc", "seq"} ~> shpc \notin {"esc", "seq"}) \/ []<><<Drops>>_vars
=============================================================================
