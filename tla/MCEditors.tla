----------------------------- MODULE MCEditors ------------------------------
(***************************************************************************)
(* The two programs that take the terminal out of its line mode: edit and  *)
(* the interactive shell.  A behaviour is one of Programs; the other has   *)
(* ended.                                                                  *)
(***************************************************************************)
EXTENDS Integers, Sequences, TLC

CONSTANTS Programs

VARIABLES
  ed, keys, burst, winch_flag, epc, term, disk, temp, typed, saved, unlucky,
  le, history, shpc, params, ready, result, tty, sh_tty_is_raw, count, left

(* edit *)
LF == "LF"
CR == "CR"
Files == {<<"a", CR, LF, "tab", "a">>, << >>}
Bytes == {"ESC", "CSI", "SS3", "[", "A", "B", "3", "6", "~", "a", "tab", CR, "BS", "^Q", "^S", "^K", "^B", "^E", "^N"}
Sizes == {[rows |-> 2, cols |-> 3], [rows |-> 1, cols |-> 1]}
TabWidth == 2
SeqMax == 3
MaxTicks == 2
MaxKeys == 3
E == INSTANCE Editor

(* The shell's line editor *)
Entry(n, k) == [name |-> n, kind |-> k]
Keys == {"a", "/", " ", "\\", "'", "$", "TAB", "CR", "^P", "^N", "^W", "^B", "^K", "BS", "ESC", "[", "A", "3", "~"}
Builtins == {<<"c", "d">>}
Commands == {Entry(<<"a", "c">>, "exec"), Entry(<<"b">>, "file"), Entry(<<"a", " ", "b">>, "exec")}
Tree == (<<".">> :> {Entry(<<"a">>, "dir"), Entry(<<".", "a">>, "file"), Entry(<<"b">>, "file"), Entry(<<"$", "a">>, "file")})
        @@ (<<"a">> :> {Entry(<<" ", "\\">>, "file")}) @@ (<<"/">> :> {Entry(<<"a">>, "dir")})
MaxHistory == 2
MaxParams == 1
(* $a holds what would be two words; no other variable is set.             *)
Letters == {"a", "b", "c", "d"}
DigitValue == ("3" :> 3)
NameSize == 3
Env == (<<"a">> :> <<"b", " ", "|">>)
MaxTyped == 4
L == INSTANCE ShEdit

-----------------------------------------------------------------------------
evars == <<ed, keys, burst, winch_flag, epc, term, disk, temp, typed, saved, unlucky>>
lvars == <<le, history, shpc, params, ready, result, tty, sh_tty_is_raw, count, left>>
vars == <<evars, lvars>>

EditRests ==
  /\ disk = << >> /\ saved = disk /\ temp = E!Missing /\ burst = FALSE /\ winch_flag = FALSE
  /\ ed = [lines |-> << << >> >>, row |-> 0, col |-> 0, top |-> 0, left |-> 0, dirty |-> FALSE,
           quit_armed |-> FALSE, quit |-> TRUE, rows |-> 2, cols |-> 2]
  /\ keys = E!NoEscape /\ epc = "done" /\ term = "cooked" /\ typed = 0 /\ unlucky = {}
ShellRests ==
  /\ history = << >> /\ le = L!NewLine /\ shpc = "done" /\ params = << >> /\ ready = FALSE /\ result = "eof"
  /\ tty = "cooked" /\ sh_tty_is_raw = FALSE /\ count = 0 /\ left = << >>

Init ==
  \E prog \in Programs :
    /\ IF prog = "edit" THEN E!Init ELSE EditRests
    /\ IF prog = "sh" THEN L!Init ELSE ShellRests

Next ==
  \/ E!Next /\ UNCHANGED lvars
  \/ L!Next /\ UNCHANGED evars

Spec == Init /\ [][Next]_vars /\ E!Fairness /\ L!Fairness

-----------------------------------------------------------------------------
(* edit keeps its cursor in the text and in the window, its file whole and *)
(* what is not saved marked, and gives the terminal back.                  *)
EditorSound == E!EditorSound

(* The shell's line, its history, what completion puts into the line, and  *)
(* the mode of the terminal around commands are right.                     *)
ShEditSound == L!ShEditSound

(* An escape sequence that is not completed does not hold up the keys, as  *)
(* long as typing pauses some time.                                        *)
EditorsRespond == E!EditorResponds /\ L!EscapeEnds
=============================================================================
