------------------------------- MODULE Xargs --------------------------------
(***************************************************************************)
(* xargs (src/src/cmd/xargs.c): the input is split into items, the items   *)
(* are given to a command in batches, and the exit statuses are merged.    *)
(* The command is external.                                                *)
(***************************************************************************)
EXTENDS Integers, Sequences, SequencesExt

CONSTANTS
  Inputs,     \* what standard input may hold: sequences of letters, Space and Nul
  Space, Nul,
  MaxArgs     \* values of -n; 0 when it is not given

VARIABLES
  opts,       \* [nul_separated, no_run_empty, max_args]
  input,      \* the bytes of standard input
  tokens, start,
  ret,        \* the exit status so far
  ran,        \* per call of run_batch: [args, code], args as the command got them
  xpc         \* "read", "run" or "done"

vars == <<opts, input, tokens, start, ret, ran, xpc>>

Init ==
  /\ opts \in [nul_separated : BOOLEAN, no_run_empty : BOOLEAN, max_args : MaxArgs]
  /\ input \in Inputs
  /\ tokens = << >> /\ start = 1 /\ ret = 0 /\ ran = << >> /\ xpc = "read"

(* isspace, or the NUL that -0 asks for.                                   *)
Separates(c, nul) == c = (IF nul THEN Nul ELSE Space)

(* mutant: an item that the end of input ends is forgotten *)
MutSplit(buf, nul) ==
  FoldLeft(LAMBDA a, c :
             IF Separates(c, nul)
             THEN [items |-> IF a.word = << >> THEN a.items ELSE Append(a.items, a.word),
                   word |-> << >>]
             ELSE [a EXCEPT !.word = Append(@, c)],
           [items |-> << >>, word |-> << >>], buf).items

split_tokens(buf, nul) ==
  FoldLeft(LAMBDA a, c :
             CASE Separates(c, nul) -> [a EXCEPT !.open = FALSE]
               [] a.open -> [a EXCEPT !.items[Len(a.items)] = Append(@, c)]
               [] OTHER -> [items |-> Append(a.items, <<c>>), open |-> TRUE],
           [items |-> << >>, open |-> FALSE], buf).items

(* An argument of execvp ends at its first NUL.                            *)
CString(t) == IF Nul \in ToSet(t) THEN SubSeq(t, 1, SelectInSeq(t, LAMBDA c : c = Nul) - 1) ELSE t

(* read_all and split_tokens: both may fail, and nothing is run then.      *)
ReadInput ==
  /\ xpc = "read"
  /\ \/ /\ tokens' = split_tokens(input, opts.nul_separated)
        /\ xpc' = IF tokens' = << >> /\ opts.no_run_empty THEN "done" ELSE "run"
        /\ UNCHANGED ret
     \/ /\ ret' = 1 /\ xpc' = "done"
        /\ UNCHANGED tokens
  /\ UNCHANGED <<opts, input, start, ran>>

(* What run_batch returns: the command is not started, it is waited for in *)
(* vain, dies of a signal, exits with 255, with another status (127 when   *)
(* execvp fails), or with 0.                                               *)
Outcomes == {"not started", "not waited", "signal", "255", "other", "0"}

run_batch(o) ==
  CASE o \in {"not started", "not waited"} -> 1
    [] o = "signal" -> 125
    [] o = "255" -> 124
    [] o = "other" -> 123
    [] o = "0" -> 0

Count ==
  LET left == Len(tokens) - start + 1
  IN IF opts.max_args = 0 \/ opts.max_args > left THEN left ELSE opts.max_args

Batch ==
  /\ xpc = "run"
  /\ \E o \in Outcomes :
       LET r == run_batch(o)
           items == SubSeq(tokens, start, start + Count - 1)
       IN /\ ret' = IF tokens = << >> \/ r = 124 \/ (r # 0 /\ ret = 0) THEN r ELSE ret
          /\ ran' = Append(ran, [args |-> [i \in DOMAIN items |-> CString(items[i])],
                                 outcome |-> o])
  /\ start' = start + Count
  /\ xpc' = IF start' <= Len(tokens) THEN "run" ELSE "done"
  /\ UNCHANGED <<opts, input, tokens>>

Next == ReadInput \/ Batch

-----------------------------------------------------------------------------
(* The items of the input by their places: maximal runs without separator. *)
Edge(i) == i \in {0, Len(input) + 1} \/ (i \in DOMAIN input /\ Separates(input[i], opts.nul_separated))

Runs ==
  {r \in (0 .. Len(input)) \X (2 .. Len(input) + 1) :
     Edge(r[1]) /\ Edge(r[2]) /\ r[1] + 1 < r[2] /\ \A i \in r[1] + 1 .. r[2] - 1 : ~Edge(i)}

Items ==
  LET inOrder == SetToSortSeq(Runs, LAMBDA a, b : a[1] < b[1])
  IN [i \in DOMAIN inOrder |-> CString(SubSeq(input, inOrder[i][1] + 1, inOrder[i][2] - 1))]

(* Every item is given to the command once and in order, whatever became   *)
(* of earlier batches; no call gets more than -n items; and the exit       *)
(* status is 0 exactly if every call was made and ended with 0, 124 if one *)
(* exited with 255.                                                        *)
ArgumentsOnce ==
  (xpc = "done" /\ ret # 1) \/ ran # << >> =>
    /\ IsPrefix(FlattenSeq([i \in DOMAIN ran |-> ran[i].args]), Items)
    /\ \A i \in DOMAIN ran : opts.max_args # 0 => Len(ran[i].args) <= opts.max_args
    /\ xpc = "done" =>
         /\ FlattenSeq([i \in DOMAIN ran |-> ran[i].args]) = Items
         /\ (ret = 0) = (\A i \in DOMAIN ran : ran[i].outcome = "0")
         /\ (ret = 124) = (\E i \in DOMAIN ran : ran[i].outcome = "255")
         /\ ran = << >> => Items = << >> /\ opts.no_run_empty

=============================================================================
