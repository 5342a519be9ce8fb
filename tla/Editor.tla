------------------------------- MODULE Editor -------------------------------
(***************************************************************************)
(* The full-screen editor (src/src/cmd/edit.c): text, cursor and window,   *)
(* the keys and escape sequences, saving through a temporary file, and the *)
(* mode of the terminal.                                                   *)
(*                                                                         *)
(* The operations of the C code on struct editor are operators on the      *)
(* record ed.  A file is a sequence of characters with LF between lines.   *)
(* What is drawn is left out, except the part of the text that is shown.   *)
(***************************************************************************)
EXTENDS Integers, Sequences, SequencesExt

CONSTANTS
  Files,       \* contents the file may have at the start
  Bytes,       \* bytes the terminal may send
  Sizes,       \* [rows, cols] the terminal may have
  TabWidth, SeqMax, MaxTicks,  \* 8, 8 and 30 in the code
  MaxKeys      \* bound: bytes typed and windows resized, bytes dropped apart

VARIABLES
  ed,          \* [lines, row, col, top, left, dirty, quit_armed, quit, rows, cols]
  keys,        \* [esc, ticks, seq]
  burst,       \* more bytes of the same read are to come
  winch_flag,
  epc,         \* "start", "raw", "loop", "save", "write", "sync", "rename", "restore", "done"
  term,        \* the terminal: "cooked" or "raw"
  disk,        \* the file: its content
  temp,        \* the temporary file, Missing if there is none
  typed,       \* bytes typed and windows resized so far
  saved,       \* what the last save that succeeded wrote
  unlucky      \* "memory": an allocation failed; "early": killed before the handlers

vars == <<ed, keys, burst, winch_flag, epc, term, disk, temp, typed, saved, unlucky>>

LF == "LF"
CR == "CR"
Tab == "tab"
Missing == <<"missing">>

Least(a, b) == IF a < b THEN a ELSE b
Greatest(a, b) == IF a > b THEN a ELSE b

-----------------------------------------------------------------------------
(* Files and lines *)

Segments(text) ==
  FoldLeft(LAMBDA a, c : IF c = LF THEN Append(a, << >>) ELSE [a EXCEPT ![Len(a)] = Append(@, c)],
           << << >> >>, text)
Chomp(l) == IF l # << >> /\ Last(l) = CR THEN Front(l) ELSE l

load_file(text) ==
  LET s == Segments(text)
      lines == IF Len(s) > 1 /\ Last(s) = << >> THEN Front(s) ELSE s
  IN [i \in DOMAIN lines |-> Chomp(lines[i])]

(* What save_file writes: no newline after a last line that is empty.      *)
Text(lines) ==
  FlattenSeq([i \in DOMAIN lines |->
                IF i < Len(lines) \/ lines[i] # << >> THEN Append(lines[i], LF) ELSE << >>])

-----------------------------------------------------------------------------
(* Window and cursor; rows and columns count from 0 *)

LineLen(e, r) == Len(e.lines[r + 1])

line_width(line, col) ==
  FoldLeft(LAMBDA w, c : IF c = Tab THEN w + TabWidth - (w % TabWidth) ELSE w + 1,
           0, SubSeq(line, 1, Least(col, Len(line))))

clamp_cursor(e) ==
  LET row == Least(e.row, Len(e.lines) - 1)
  IN [e EXCEPT !.row = row, !.top = Least(e.top, row), !.col = Least(e.col, LineLen(e, row))]

TextRows(e) == IF e.rows > 1 THEN e.rows - 1 ELSE 1

Scrolled(e, width) ==
  [e EXCEPT !.top = IF e.row >= e.top + TextRows(e) THEN e.row - TextRows(e) + 1 ELSE Least(e.top, e.row),
            !.left = IF width < e.left THEN width
                     ELSE IF width >= e.left + e.cols THEN width - e.cols + 1 ELSE e.left]

ensure_visible(e) ==
  LET c == clamp_cursor(e) IN Scrolled(c, line_width(c.lines[c.row + 1], c.col))

get_winsize(e, size) == [e EXCEPT !.rows = Greatest(size.rows, 2), !.cols = Greatest(size.cols, 2)]

move_up(e) == clamp_cursor(IF e.row > 0 THEN [e EXCEPT !.row = @ - 1] ELSE e)
move_down(e) == clamp_cursor(IF e.row + 1 < Len(e.lines) THEN [e EXCEPT !.row = @ + 1] ELSE e)
move_left(e) ==
  IF e.col > 0 THEN [e EXCEPT !.col = @ - 1]
  ELSE IF e.row > 0 THEN [e EXCEPT !.row = @ - 1, !.col = LineLen(e, e.row - 1)] ELSE e
move_right(e) ==
  IF e.col < LineLen(e, e.row) THEN [e EXCEPT !.col = @ + 1]
  ELSE IF e.row + 1 < Len(e.lines) THEN [e EXCEPT !.row = @ + 1, !.col = 0] ELSE e
move_home(e) == [e EXCEPT !.col = 0]
move_end(e) == [e EXCEPT !.col = LineLen(e, e.row)]
move_page(e, up) ==
  clamp_cursor([e EXCEPT !.row = IF up THEN Greatest(e.row - TextRows(e), 0)
                                 ELSE Least(e.row + TextRows(e), Len(e.lines) - 1)])

-----------------------------------------------------------------------------
(* Editing *)

mark_dirty(e) == [e EXCEPT !.dirty = TRUE, !.quit_armed = FALSE]
Current(e) == e.lines[e.row + 1]
Head1(e) == SubSeq(Current(e), 1, e.col)
Tail1(e) == SubSeq(Current(e), e.col + 1, Len(Current(e)))
SetLine(e, line) == [e EXCEPT !.lines[e.row + 1] = line]

(* Line r + 1 is appended to line r and goes.                              *)
Join(e, r) ==
  [e EXCEPT !.lines = SubSeq(e.lines, 1, r) \o <<e.lines[r + 1] \o e.lines[r + 2]>>
                      \o SubSeq(e.lines, r + 3, Len(e.lines))]

insert_byte(e, c) == mark_dirty([SetLine(e, Append(Head1(e), c) \o Tail1(e)) EXCEPT !.col = @ + 1])

insert_newline(e) ==
  mark_dirty([e EXCEPT !.lines = SubSeq(e.lines, 1, e.row) \o <<Head1(e), Tail1(e)>>
                                 \o SubSeq(e.lines, e.row + 2, Len(e.lines)),
                       !.row = @ + 1, !.col = 0])

(* The new line is there, and the allocation of its text fails.            *)
HalfNewline(e) ==
  [e EXCEPT !.lines = SubSeq(e.lines, 1, e.row + 1) \o << << >> >>
                      \o SubSeq(e.lines, e.row + 2, Len(e.lines))]

backspace(e) ==
  IF e.col > 0 THEN mark_dirty([SetLine(e, Front(Head1(e)) \o Tail1(e)) EXCEPT !.col = @ - 1])
  ELSE IF e.row > 0
  THEN mark_dirty([Join(e, e.row - 1) EXCEPT !.row = @ - 1, !.col = LineLen(e, e.row - 1)]) ELSE e

delete_forward(e) ==
  IF e.col < LineLen(e, e.row) THEN mark_dirty(SetLine(e, Head1(e) \o Tail(Tail1(e))))
  ELSE IF e.row + 1 < Len(e.lines) THEN mark_dirty(Join(e, e.row)) ELSE e

kill_to_eol(e) == IF e.col >= LineLen(e, e.row) THEN e ELSE mark_dirty(SetLine(e, Head1(e)))

request_quit(e) ==
  IF e.dirty /\ ~e.quit_armed THEN [e EXCEPT !.quit_armed = TRUE] ELSE [e EXCEPT !.quit = TRUE]

-----------------------------------------------------------------------------
(* Keys *)

(* ^S is not here: it begins a save.                                       *)
handle_key(e, c) ==
  CASE c = "^B" -> move_left(e)
    [] c = "^F" -> move_right(e)
    [] c = "^N" -> move_down(e)
    [] c = "^P" -> move_up(e)
    [] c = "^A" -> move_home(e)
    [] c = "^E" -> move_end(e)
    [] c = "^K" -> kill_to_eol(e)
    [] c = CR -> insert_newline(e)
    [] c = "BS" -> backspace(e)
    [] c = "^Q" -> request_quit(e)
    [] c \in {"a", Tab, "[", "O", "A", "3", "5", "6", "~"} -> insert_byte(e, c)
    [] OTHER -> e

Digits == {"1", "3", "4", "5", "6", "7", "8"}
NoEscape == [esc |-> FALSE, ticks |-> 0, seq |-> << >>]

Arrow(e, c) ==
  CASE c = "A" -> move_up(e)
    [] c = "B" -> move_down(e)
    [] c = "C" -> move_right(e)
    [] c = "D" -> move_left(e)

(* atoi of what follows the bracket: one digit, or a number that is no key. *)
Tilde(e, seq) ==
  IF Len(seq) # 3 THEN e
  ELSE CASE seq[2] \in {"1", "7"} -> move_home(e)
         [] seq[2] \in {"4", "8"} -> move_end(e)
         [] seq[2] = "3" -> delete_forward(e)
         [] seq[2] = "5" -> move_page(e, TRUE)
         [] seq[2] = "6" -> move_page(e, FALSE)
         [] OTHER -> e

(* What an escape sequence does when it is complete, and whether it is:    *)
(* a digit asks for more, anything else ends it.                           *)
Incomplete(seq) == Len(seq) = 1 \/ (seq[1] = "[" /\ Last(seq) \in Digits)

parse_escape(e, seq) ==
  IF Incomplete(seq) THEN e
  ELSE CASE seq[1] = "O" -> IF Last(seq) \in {"A", "B", "C", "D"} THEN Arrow(e, Last(seq)) ELSE e
         [] Last(seq) \in {"A", "B", "C", "D"} -> Arrow(e, Last(seq))
         [] Last(seq) = "H" -> move_home(e)
         [] Last(seq) = "F" -> move_end(e)
         [] Last(seq) = "~" -> Tilde(e, seq)
         [] OTHER -> e

(* A byte, outside and inside of an escape sequence; the buffer of a long  *)
(* sequence does not grow.                                                 *)
Starts(c) == CASE c = "ESC" -> << >> [] c = "CSI" -> <<"[">> [] c = "SS3" -> <<"O">>
Grown(seq, c) == IF Len(seq) < SeqMax THEN Append(seq, c) ELSE seq

Next1(k, c) ==
  IF ~k.esc THEN IF c \in {"ESC", "CSI", "SS3"} THEN [esc |-> TRUE, ticks |-> 0, seq |-> Starts(c)] ELSE k
  ELSE IF k.seq = << >> /\ c = "ESC" THEN [k EXCEPT !.ticks = 0]
  ELSE IF k.seq = << >> /\ c \notin {"[", "O"} THEN NoEscape
  ELSE IF Incomplete(Grown(k.seq, c)) THEN [k EXCEPT !.ticks = 0, !.seq = Grown(k.seq, c)]
  ELSE NoEscape

(* The byte is dropped: another ESC, or one that the full buffer of an     *)
(* unfinished sequence does not take.  Only the ticks begin again.         *)
Dropped(k, c) == k.esc /\ Next1(k, c) = [k EXCEPT !.ticks = 0]

(* The byte is a key of its own.                                           *)
Plain(k, c) == IF k.esc THEN k.seq = << >> /\ c \notin {"ESC", "[", "O"} ELSE c \notin {"ESC", "CSI", "SS3"}

feed_byte(e, k, c) ==
  IF Plain(k, c) THEN handle_key(e, c)
  ELSE IF k.esc /\ ~(k.seq = << >> /\ c = "ESC") THEN parse_escape(e, Grown(k.seq, c)) ELSE e

-----------------------------------------------------------------------------
(* main *)

Init ==
  /\ disk \in Files /\ saved = disk /\ temp \in {Missing, <<"a">>}
  /\ ed = [lines |-> load_file(disk), row |-> 0, col |-> 0, top |-> 0, left |-> 0, dirty |-> FALSE,
           quit_armed |-> FALSE, quit |-> FALSE, rows |-> 2, cols |-> 2]
  /\ keys = NoEscape /\ burst = FALSE /\ winch_flag = FALSE /\ epc = "start" /\ term = "cooked"
  /\ typed = 0 /\ unlucky = {}

Start ==
  /\ epc = "start"
  /\ \E size \in Sizes : ed' = get_winsize(ed, size)
  /\ term' = "raw" /\ epc' = "raw"
  /\ UNCHANGED <<keys, burst, winch_flag, disk, temp, typed, saved, unlucky>>

(* The handlers are installed, and the window is drawn.                    *)
Install ==
  /\ epc = "raw" /\ epc' = "loop"
  /\ ed' = ensure_visible(ed)
  /\ UNCHANGED <<keys, burst, winch_flag, term, disk, temp, typed, saved, unlucky>>

Winch ==
  /\ epc = "loop" /\ ~burst /\ winch_flag
  /\ winch_flag' = FALSE
  /\ \E size \in Sizes : ed' = ensure_visible(get_winsize(ed, size))
  /\ UNCHANGED <<keys, burst, epc, term, disk, temp, typed, saved, unlucky>>

Quit ==
  /\ epc = "loop" /\ ~burst /\ ~winch_flag /\ ed.quit
  /\ epc' = "restore"
  /\ UNCHANGED <<ed, keys, burst, winch_flag, term, disk, temp, typed, saved, unlucky>>

(* mutant: the ticks are not counted *)
MutTick ==
  /\ epc = "loop" /\ ~burst /\ ~winch_flag /\ ~ed.quit /\ keys.esc
  /\ IF keys.ticks + 1 >= MaxTicks THEN keys' = NoEscape /\ ed' = ensure_visible(ed) ELSE UNCHANGED <<keys, ed>>
  /\ UNCHANGED <<burst, winch_flag, epc, term, disk, temp, typed, saved, unlucky>>

(* read returns 0 after a tenth of a second.                               *)
Tick ==
  /\ epc = "loop" /\ ~burst /\ ~winch_flag /\ ~ed.quit /\ keys.esc
  /\ IF keys.ticks + 1 >= MaxTicks THEN keys' = NoEscape /\ ed' = ensure_visible(ed)
     ELSE keys' = [keys EXCEPT !.ticks = @ + 1] /\ UNCHANGED ed
  /\ UNCHANGED <<burst, winch_flag, epc, term, disk, temp, typed, saved, unlucky>>

(* The window is drawn after the last byte of a read, unless an escape     *)
(* sequence is open.                                                       *)
Drawn(e, k, more) == IF more \/ k.esc THEN e ELSE ensure_visible(e)

(* Bytes that are dropped are not counted, so that there is no end to them. *)
Key(c) ==
  /\ epc = "loop" /\ (burst \/ (~winch_flag /\ ~ed.quit))
  /\ IF Dropped(keys, c) THEN UNCHANGED typed ELSE typed < MaxKeys /\ typed' = typed + 1
  /\ \E more \in {m \in BOOLEAN : m => typed' < MaxKeys} :
       /\ keys' = Next1(keys, c)
       /\ burst' = more
       /\ IF Plain(keys, c) /\ c = "^S" THEN epc' = "save" /\ UNCHANGED ed
          ELSE epc' = epc /\ ed' = Drawn(feed_byte(ed, keys, c), keys', more)
  /\ UNCHANGED <<winch_flag, term, disk, temp, saved, unlucky>>

(* The second allocation of a new line fails.                              *)
NoMemory ==
  /\ epc = "loop" /\ ~burst /\ ~winch_flag /\ ~ed.quit /\ typed < MaxKeys /\ ~keys.esc
  /\ typed' = typed + 1
  /\ ed' = ensure_visible(HalfNewline(ed)) /\ unlucky' = unlucky \cup {"memory"}
  /\ UNCHANGED <<keys, burst, winch_flag, epc, term, disk, temp, saved>>

(* A read or a write to the terminal fails.                                *)
TerminalFails ==
  /\ epc = "loop" /\ ~burst /\ epc' = "restore"
  /\ UNCHANGED <<ed, keys, burst, winch_flag, term, disk, temp, typed, saved, unlucky>>

restore_terminal ==
  /\ epc = "restore" /\ term' = "cooked" /\ epc' = "done"
  /\ UNCHANGED <<ed, keys, burst, winch_flag, disk, temp, typed, saved, unlucky>>

-----------------------------------------------------------------------------
(* save_file *)

Resume(e) == epc' = "loop" /\ ed' = Drawn(e, keys, burst)

SaveOpen ==
  /\ epc = "save"
  /\ \/ temp' = << >> /\ epc' = "write" /\ UNCHANGED ed
     \/ Resume(ed) /\ UNCHANGED temp
  /\ UNCHANGED <<keys, burst, winch_flag, term, disk, typed, saved, unlucky>>

(* mutant: the file itself is written *)
MutSaveWrite ==
  /\ epc = "write"
  /\ \E n \in 0 .. Len(Text(ed.lines)) :
       /\ disk' = SubSeq(Text(ed.lines), 1, n)
       /\ IF n = Len(Text(ed.lines)) THEN epc' = "sync" /\ temp' = disk' /\ UNCHANGED ed
          ELSE Resume(ed) /\ temp' = Missing
  /\ UNCHANGED <<keys, burst, winch_flag, term, typed, saved, unlucky>>

SaveWrite ==
  /\ epc = "write"
  /\ \/ temp' = Text(ed.lines) /\ epc' = "sync" /\ UNCHANGED ed
     \/ temp' = Missing /\ Resume(ed)
  /\ UNCHANGED <<keys, burst, winch_flag, term, disk, typed, saved, unlucky>>

SaveSync ==  \* fsync and close
  /\ epc = "sync"
  /\ \/ epc' = "rename" /\ UNCHANGED <<temp, ed>>
     \/ temp' = Missing /\ Resume(ed)
  /\ UNCHANGED <<keys, burst, winch_flag, term, disk, typed, saved, unlucky>>

SaveRename ==
  /\ epc = "rename" /\ temp' = Missing
  /\ \/ disk' = temp /\ saved' = Text(ed.lines) /\ Resume([ed EXCEPT !.dirty = FALSE, !.quit_armed = FALSE])
     \/ Resume(ed) /\ UNCHANGED <<disk, saved>>
  /\ UNCHANGED <<keys, burst, winch_flag, term, typed, unlucky>>

-----------------------------------------------------------------------------
(* Signals: SIGWINCH, and SIGTERM or SIGHUP at any point *)

on_winch ==
  /\ epc \in {"loop", "save", "write"} /\ ~winch_flag /\ typed < MaxKeys
  /\ winch_flag' = TRUE /\ typed' = typed + 1
  /\ UNCHANGED <<ed, keys, burst, epc, term, disk, temp, saved, unlucky>>

(* The handler restores the terminal; before it is installed, the signal   *)
(* just ends the editor.  What was written of temp may be incomplete.      *)
on_fatal ==
  /\ epc \notin {"start", "done"}
  /\ term' = IF epc = "raw" THEN term ELSE "cooked"
  /\ unlucky' = IF epc = "raw" THEN unlucky \cup {"early"} ELSE unlucky
  /\ epc' = "done"
  /\ UNCHANGED <<ed, keys, burst, winch_flag, disk, temp, typed, saved>>

Step ==
  \/ Start \/ Install \/ Winch \/ Quit \/ Tick \/ restore_terminal
  \/ SaveOpen \/ SaveWrite \/ SaveSync \/ SaveRename

Next == Step \/ (\E c \in Bytes : Key(c)) \/ NoMemory \/ TerminalFails \/ on_winch \/ on_fatal

(* The editor runs, read returns after a tenth of a second without a byte, *)
(* and the loop over the bytes of a read comes to its end.                 *)
Fairness == WF_vars(Tick \/ Winch \/ Quit) /\ []<>(burst => epc # "loop")

-----------------------------------------------------------------------------
(* The cursor is always at a place of the text, and when the window has    *)
(* been drawn it is inside of the window.                                  *)
CursorInText ==
  /\ Len(ed.lines) >= 1 /\ ed.row < Len(ed.lines) /\ ed.col <= LineLen(ed, ed.row)
  /\ epc = "loop" /\ ~burst /\ ~keys.esc =>
       LET width == line_width(Current(ed), ed.col)
       IN /\ ed.top <= ed.row /\ ed.row < ed.top + TextRows(ed)
          /\ ed.left <= width /\ width < ed.left + ed.cols

NoLastEmpty(lines) == IF Len(lines) > 1 /\ Last(lines) = << >> THEN Front(lines) ELSE lines

(* Whatever fails and whenever the editor is killed, the file holds what   *)
(* it held or what a complete save wrote; a text that is not marked as     *)
(* changed reads back from the file (up to an empty last line), so that    *)
(* leaving without a question loses nothing.                               *)
NothingUnsaved ==
  /\ disk = saved
  /\ ~ed.dirty /\ "memory" \notin unlucky => load_file(disk) \in {ed.lines, NoLastEmpty(ed.lines)}

(* The editor leaves the terminal as it found it, unless it is killed      *)
(* before its handlers are installed.                                      *)
TerminalRestored == epc = "done" /\ "early" \notin unlucky => term = "cooked"

EditorSound == CursorInText /\ NothingUnsaved /\ TerminalRestored

(* A byte came and was dropped.                                            *)
Drops == keys.esc /\ keys' = [keys EXCEPT !.ticks = 0] /\ <<keys, burst>>' # <<keys, burst>>

(* An escape sequence that is not completed is forgotten after a while     *)
(* without a byte, however often the window is resized meanwhile.  Only a  *)
(* user who never pauses keeps it open: by ESC after ESC, or by any bytes  *)
(* once digits have filled its buffer, and what is typed then is lost.     *)
EditorResponds == (keys.esc ~> (~keys.esc \/ epc \in {"restore", "done"})) \/ []<><<Drops>>_vars
=============================================================================
