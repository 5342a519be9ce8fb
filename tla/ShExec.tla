------------------------------- MODULE ShExec -------------------------------
(***************************************************************************)
(* The shell runs a pipeline (src/src/cmd/sh/sh_exec.c): it makes the      *)
(* pipes, forks a child per command, closes its own ends and waits; each   *)
(* child moves its ends to its standard descriptors, closes the rest,      *)
(* resets the signals, opens its redirections and executes its program.    *)
(*                                                                         *)
(* The shell and the children interleave at every system call that the     *)
(* others can notice.  A pipe is at its end when its buffer is empty and   *)
(* no process holds its write end, which makes every forgotten end a       *)
(* reader that never finishes.                                             *)
(***************************************************************************)
EXTENDS Integers, FiniteSets

CONSTANTS
  MaxCmds,     \* the longest pipeline (bound of the model)
  Redirs,      \* the redirections a command may have: sets of "in" and "out"
  Cap,         \* the bytes a pipe holds
  MaxWrite,    \* the bytes a program writes (bound of the model)
  MaxInts      \* how often the user presses Ctrl-C (bound of the model)

ASSUME ShExecAssumption ==
  /\ MaxCmds \in Nat \ {0} /\ Cap \in Nat \ {0} /\ MaxWrite \in Nat /\ MaxInts \in Nat
  /\ Redirs \subseteq SUBSET {"in", "out"}

Cmds == 1..MaxCmds
Pipes == 1..(MaxCmds - 1)
Ends == Pipes \X {"r", "w"}
R(k) == <<k, "r">>
W(k) == <<k, "w">>
Tty == <<0, "tty">>
File == <<0, "file">>

Killed(sig) == 128 + sig
SIGINT == 2
SIGPIPE == 13
SH_ERR_NOMEM == 1
SH_ERR_SYS == 5

VARIABLES
  n,        \* p->nr_cmds
  redir,    \* the redirections of each command
  pc,       \* where sh_pipeline_exec is
  i,        \* its loop counter
  ends,     \* the pipe ends each process holds beside its standard descriptors;
            \*   the shell is process 0
  stdin,    \* what the standard descriptors of the children refer to: a pipe end,
  stdout,   \*   the terminal or a file
  st,       \* how far each child is
  sig,      \* whether it ignores SIGINT, as the shell does, or not
  want,     \* the bytes its program still wants to write
  eof,      \* whether its program has met the end of its input
  status,   \* what waitpid tells of it, in the shell's terms
  buf,      \* the number of bytes in each pipe
  err, exit,   \* what sh_pipeline_exec returns; err is 0 for SH_OK
  ints

shell == <<n, redir, pc, i, err, exit>>
kids == <<stdin, stdout, st, sig, want, eof, status>>
vars == <<shell, kids, ends, buf, ints>>

Setup == {"forked", "duped", "closed", "reset", "redirected"}
Alive(p) == st[p] \in Setup \cup {"running"}

(* The processes that hold an end: a child also through its descriptors.   *)
Holders(e) == {p \in 0..MaxCmds : e \in ends[p]}
                \cup {p \in Cmds : Alive(p) /\ e \in {stdin[p], stdout[p]}}

-----------------------------------------------------------------------------
(* The shell *)

Go(where) == pc' = where /\ UNCHANGED <<n, redir>>

(* malloc fails: nothing is left open.                                     *)
AllocFails ==
  /\ \/ pc = "pipe" /\ i = 1 /\ n > 1
     \/ pc = "kids"
  /\ Go("done")
  /\ err' = SH_ERR_NOMEM
  /\ ends' = [ends EXCEPT ![0] = {}]
  /\ UNCHANGED <<i, exit, kids, buf, ints>>

MakePipe ==
  /\ pc = "pipe"
  /\ IF i < n
     THEN /\ ends' = [ends EXCEPT ![0] = @ \cup {R(i), W(i)}]
          /\ i' = i + 1
          /\ Go("pipe")
     ELSE /\ i' = 1
          /\ Go("kids")
          /\ UNCHANGED ends
  /\ UNCHANGED <<err, exit, kids, buf, ints>>

(* The pipes made before stay open in the shell.                           *)
PipeFails ==
  /\ pc = "pipe" /\ i < n
  /\ Go("done")
  /\ err' = SH_ERR_SYS
  /\ UNCHANGED <<i, exit, kids, ends, buf, ints>>

AllocKids ==
  /\ pc = "kids"
  /\ Go("fork")
  /\ UNCHANGED <<i, err, exit, kids, ends, buf, ints>>

(* The child inherits the shell's ends and its ignored signals.            *)
Fork ==
  /\ pc = "fork" /\ i <= n
  /\ st' = [st EXCEPT ![i] = "forked"]
  /\ ends' = [ends EXCEPT ![i] = ends[0]]
  /\ i' = i + 1
  /\ Go("fork")
  /\ UNCHANGED <<err, exit, stdin, stdout, sig, want, eof, status, buf, ints>>

(* The shell waits for the children it has, with its own ends still open.  *)
ForkFails ==
  /\ pc = "fork" /\ i <= n
  /\ Go("abort")
  /\ i' = 1
  /\ err' = SH_ERR_SYS
  /\ UNCHANGED <<exit, kids, ends, buf, ints>>

(* mutant: the shell goes on to wait with its ends still open *)
MutCloseEnds ==
  /\ pc = "fork" /\ i = n + 1
  /\ i' = 1
  /\ Go("wait")
  /\ UNCHANGED <<ends, err, exit, kids, buf, ints>>

CloseEnds ==
  /\ pc = "fork" /\ i = n + 1
  /\ ends' = [ends EXCEPT ![0] = {}]
  /\ i' = 1
  /\ Go("wait")
  /\ UNCHANGED <<err, exit, kids, buf, ints>>

(* mutant: the status of every child overwrites the one before, as reaped *)
MutReap(p) == st[p] = "zombie" /\ UNCHANGED st

Reap(p) == st[p] = "zombie" /\ st' = [st EXCEPT ![p] = "reaped"]

(* waitpid(kids[i]), in the order of the pipeline                          *)
Wait ==
  /\ pc = "wait" /\ i <= n
  /\ Reap(i)
  /\ IF i = n THEN exit' = status[i] /\ Go("done") ELSE UNCHANGED exit /\ Go("wait")
  /\ i' = i + 1
  /\ UNCHANGED <<err, stdin, stdout, sig, want, eof, status, ends, buf, ints>>

Forked == {p \in Cmds : st[p] # "none"}

AbortWait ==
  /\ pc = "abort" /\ i \in Forked
  /\ Reap(i)
  /\ i' = i + 1
  /\ Go("abort")
  /\ UNCHANGED <<err, exit, stdin, stdout, sig, want, eof, status, ends, buf, ints>>

AbortClose ==
  /\ pc = "abort" /\ i \notin Forked
  /\ ends' = [ends EXCEPT ![0] = {}]
  /\ Go("done")
  /\ UNCHANGED <<i, err, exit, kids, buf, ints>>

-----------------------------------------------------------------------------
(* The children up to execvp *)

(* A process ends, and all its descriptors are closed.                     *)
Dies(p, code) ==
  /\ st' = [st EXCEPT ![p] = "zombie"]
  /\ status' = [status EXCEPT ![p] = code]
  /\ ends' = [ends EXCEPT ![p] = {}]
  /\ UNCHANGED <<stdin, stdout, sig, want, eof>>

(* dup2, open or execvp fails: _exit(127)                                  *)
ChildFails(p) ==
  /\ \/ st[p] = "forked" /\ n > 1
     \/ st[p] = "reset" /\ redir[p] # {}
     \/ st[p] = "redirected"
  /\ Dies(p, 127)
  /\ UNCHANGED <<shell, buf, ints>>

ChildDup(p) ==
  /\ st[p] = "forked"
  /\ stdin' = [stdin EXCEPT ![p] = IF p > 1 THEN R(p - 1) ELSE @]
  /\ stdout' = [stdout EXCEPT ![p] = IF p < n THEN W(p) ELSE @]
  /\ st' = [st EXCEPT ![p] = "duped"]
  /\ UNCHANGED <<shell, ends, sig, want, eof, status, buf, ints>>

(* mutant: a child closes the pipes beside it and not the others *)
MutChildClose(p) ==
  /\ st[p] = "duped"
  /\ ends' = [ends EXCEPT ![p] = @ \ {R(p - 1), W(p - 1), R(p), W(p)}]
  /\ st' = [st EXCEPT ![p] = "closed"]
  /\ UNCHANGED <<shell, stdin, stdout, sig, want, eof, status, buf, ints>>

ChildClose(p) ==
  /\ st[p] = "duped"
  /\ ends' = [ends EXCEPT ![p] = {}]
  /\ st' = [st EXCEPT ![p] = "closed"]
  /\ UNCHANGED <<shell, stdin, stdout, sig, want, eof, status, buf, ints>>

ChildSignals(p) ==
  /\ st[p] = "closed"
  /\ sig' = [sig EXCEPT ![p] = "default"]
  /\ st' = [st EXCEPT ![p] = "reset"]
  /\ UNCHANGED <<shell, ends, stdin, stdout, want, eof, status, buf, ints>>

(* apply_redirs_child                                                      *)
ChildRedirs(p) ==
  /\ st[p] = "reset"
  /\ stdin' = [stdin EXCEPT ![p] = IF "in" \in redir[p] THEN File ELSE @]
  /\ stdout' = [stdout EXCEPT ![p] = IF "out" \in redir[p] THEN File ELSE @]
  /\ st' = [st EXCEPT ![p] = "redirected"]
  /\ UNCHANGED <<shell, ends, sig, want, eof, status, buf, ints>>

ChildExec(p) ==
  /\ st[p] = "redirected"
  /\ st' = [st EXCEPT ![p] = "running"]
  /\ UNCHANGED <<shell, ends, stdin, stdout, sig, want, eof, status, buf, ints>>

-----------------------------------------------------------------------------
(* The programs (external): they read their input to its end, write what   *)
(* they have to and exit; some exit early.                                 *)

Read(p) ==
  /\ st[p] = "running" /\ ~eof[p]
  /\ IF stdin[p] \notin Ends
     THEN eof' = [eof EXCEPT ![p] = TRUE] /\ UNCHANGED buf
     ELSE LET k == stdin[p][1] IN
          \/ buf[k] > 0 /\ buf' = [buf EXCEPT ![k] = @ - 1] /\ UNCHANGED eof
          \/ buf[k] = 0 /\ Holders(W(k)) = {}
             /\ eof' = [eof EXCEPT ![p] = TRUE] /\ UNCHANGED buf
  /\ UNCHANGED <<shell, ends, stdin, stdout, st, sig, want, status, ints>>

Write(p) ==
  /\ st[p] = "running" /\ want[p] > 0
  /\ IF stdout[p] \notin Ends
     THEN /\ want' = [want EXCEPT ![p] = @ - 1]
          /\ UNCHANGED <<buf, ends, stdin, stdout, st, sig, eof, status>>
     ELSE LET k == stdout[p][1] IN
          IF Holders(R(k)) = {}
          THEN Dies(p, Killed(SIGPIPE)) /\ UNCHANGED buf
          ELSE /\ buf[k] < Cap
               /\ buf' = [buf EXCEPT ![k] = @ + 1]
               /\ want' = [want EXCEPT ![p] = @ - 1]
               /\ UNCHANGED <<ends, stdin, stdout, st, sig, eof, status>>
  /\ UNCHANGED <<shell, ints>>

Finish(p) ==
  /\ st[p] = "running" /\ eof[p] /\ want[p] = 0
  /\ Dies(p, 0)
  /\ UNCHANGED <<shell, buf, ints>>

ExitEarly(p) ==
  /\ st[p] = "running"
  /\ Dies(p, 1)
  /\ UNCHANGED <<shell, buf, ints>>

(* Ctrl-C reaches the whole process group; the shell ignores it, and so    *)
(* does a child that has not reset its signals yet.                        *)
Interrupt ==
  /\ ints < MaxInts
  /\ ints' = ints + 1
  /\ LET hit == {p \in Cmds : Alive(p) /\ sig[p] = "default"} IN
     /\ st' = [p \in Cmds |-> IF p \in hit THEN "zombie" ELSE st[p]]
     /\ status' = [p \in Cmds |-> IF p \in hit THEN Killed(SIGINT) ELSE status[p]]
     /\ ends' = [p \in 0..MaxCmds |-> IF p \in hit THEN {} ELSE ends[p]]
  /\ UNCHANGED <<shell, stdin, stdout, sig, want, eof, buf>>

-----------------------------------------------------------------------------
Init ==
  /\ n \in Cmds
  /\ redir \in [1..n -> Redirs]
  /\ pc = "pipe" /\ i = 1
  /\ ends = [p \in 0..MaxCmds |-> {}]
  /\ stdin = [p \in Cmds |-> Tty] /\ stdout = [p \in Cmds |-> Tty]
  /\ st = [p \in Cmds |-> "none"]
  /\ sig = [p \in Cmds |-> "ignore"]
  /\ want = [p \in 1..n |-> MaxWrite]
  /\ eof = [p \in Cmds |-> FALSE]
  /\ status = [p \in Cmds |-> 0]
  /\ buf = [k \in Pipes |-> 0]
  /\ err = 0 /\ exit = 0 /\ ints = 0

Shell ==
  \/ AllocFails \/ MakePipe \/ PipeFails \/ AllocKids \/ Fork \/ ForkFails
  \/ CloseEnds \/ Wait \/ AbortWait \/ AbortClose

Kid(p) ==
  \/ ChildDup(p) \/ ChildClose(p) \/ ChildSignals(p) \/ ChildRedirs(p) \/ ChildExec(p)
  \/ Finish(p)

Next ==
  \/ Shell
  \/ \E p \in Cmds : Kid(p) \/ Read(p) \/ Write(p) \/ ChildFails(p) \/ ExitEarly(p)
  \/ Interrupt

(* The kernel runs every process that can run; a program that can read and *)
(* write does both.  Nobody has to fail, to exit early or to press Ctrl-C.  *)
Fairness ==
  /\ WF_vars(Shell)
  /\ \A p \in Cmds : WF_vars(Kid(p)) /\ WF_vars(Read(p)) /\ WF_vars(Write(p))

Spec == Init /\ [][Next]_vars /\ Fairness

-----------------------------------------------------------------------------
(* Properties *)

(* A program runs with no pipe end but its neighbours': one it does not    *)
(* know of could not be closed, and would keep a reader from its end.      *)
OnlyItsPipes ==
  \A p \in Cmds : st[p] = "running" =>
    /\ ends[p] = {}
    /\ stdin[p] \in Ends => p > 1 /\ stdin[p] = R(p - 1)
    /\ stdout[p] \in Ends => p < n /\ stdout[p] = W(p)

(* When sh_pipeline_exec returns it has reaped every child it forked and,  *)
(* unless pipe() failed, closed every pipe end it opened; the status it    *)
(* returns is that of the last command.                                    *)
CleanReturn ==
  pc = "done" =>
    /\ \A p \in Cmds : st[p] \in {"none", "reaped"}
    /\ ends[0] = {} \/ (err = SH_ERR_SYS /\ Forked = {})
    /\ err = 0 => exit = status[n] /\ \A p \in 1..n : st[p] = "reaped"

(* Unless fork() fails the shell gets its prompt back, however the pipes   *)
(* fill, whichever programs fail and whichever exit before the others.     *)
PipelineFinishes == <>(pc \in {"done", "abort"})
=============================================================================
