---------------------------- MODULE ShExecProofs ----------------------------
(***************************************************************************)
(* What the shell's pipelines keep, whatever their length, the size of a   *)
(* pipe, the number of bytes and of interrupts.                            *)
(*                                                                         *)
(* The invariant has three parts.  TypeOK types the variables.  KidsOK     *)
(* says of each child which pipe ends it has: none once it has closed      *)
(* them, and its neighbours' on its standard descriptors.  ShellOK says at *)
(* each place of sh_pipeline_exec which children there are and which are   *)
(* reaped.                                                                 *)
(***************************************************************************)
EXTENDS ShExec, TLAPS

States == {"none", "zombie", "reaped", "running"} \cup Setup
Places == {"pipe", "kids", "fork", "wait", "abort", "done"}

TypeOK ==
  /\ n \in Cmds /\ i \in 1..(MaxCmds + 1) /\ pc \in Places
  /\ err \in {0, SH_ERR_NOMEM, SH_ERR_SYS}
  /\ ends \in [0..MaxCmds -> SUBSET Ends]
  /\ stdin \in [Cmds -> Ends \cup {Tty, File}]
  /\ stdout \in [Cmds -> Ends \cup {Tty, File}]
  /\ st \in [Cmds -> States]
  /\ status \in [Cmds -> Nat]

(* A child holds beside its standard descriptors only what it inherited    *)
(* and has not closed yet, and on them nothing but its own ends.           *)
KidsOK ==
  \A p \in Cmds :
    /\ st[p] \notin {"forked", "duped"} => ends[p] = {}
    /\ stdin[p] \in Ends => p > 1 /\ stdin[p] = R(p - 1)
    /\ stdout[p] \in Ends => p < n /\ stdout[p] = W(p)
    /\ st[p] # "none" => p <= n

(* The children are forked from the first on, and reaped so.               *)
ShellOK ==
  /\ pc \in {"pipe", "kids"} =>
       /\ err = 0 /\ i <= n /\ (pc = "kids" => i = 1)
       /\ \A p \in Cmds : st[p] = "none"
  /\ pc = "fork" =>
       /\ err = 0 /\ i <= n + 1
       /\ \A p \in Cmds : (st[p] # "none" <=> p < i) /\ st[p] # "reaped"
  /\ pc = "wait" =>
       /\ err = 0 /\ i <= n /\ ends[0] = {}
       /\ \A p \in 1..n : (st[p] = "reaped" <=> p < i) /\ st[p] # "none"
  /\ pc = "abort" =>
       /\ err = SH_ERR_SYS
       /\ \A p \in Cmds : st[p] = "reaped" <=> p < i
       /\ \A p, q \in Cmds : p < q /\ st[p] = "none" => st[q] = "none"
  /\ CleanReturn

IInv == TypeOK /\ KidsOK /\ ShellOK

-----------------------------------------------------------------------------
(* An end of a pipe is not the terminal and not a file.                    *)
LEMMA EndsFacts ==
  /\ Tty \notin Ends /\ File \notin Ends
  /\ \A k \in Pipes : R(k) \in Ends /\ W(k) \in Ends
BY DEF Ends, Pipes, Tty, File, R, W

(* The invariant holds before the first pipe is made.                      *)
LEMMA InitIInv == Init => IInv
BY ShExecAssumption, EndsFacts
   DEF Init, IInv, TypeOK, KidsOK, ShellOK, CleanReturn, Cmds, Places, States, Setup

(* Every step of the shell keeps it.                                       *)
LEMMA ShellStep == IInv /\ Shell => IInv'
<1> SUFFICES ASSUME IInv, Shell PROVE IInv'
  OBVIOUS
<1> USE ShExecAssumption, EndsFacts DEF IInv, TypeOK, Cmds, Go, kids
<1>1. CASE AllocFails
  BY <1>1 DEF AllocFails, KidsOK, ShellOK, CleanReturn, Places, Forked, SH_ERR_NOMEM
<1>2. CASE MakePipe
  <2>1. /\ pc = "pipe" /\ UNCHANGED <<n, redir, err, exit, kids, buf, ints>>
        /\ \/ /\ i < n /\ ends' = [ends EXCEPT ![0] = @ \cup {R(i), W(i)}] /\ i' = i + 1
              /\ pc' = "pipe" /\ i \in Pipes
           \/ i' = 1 /\ pc' = "kids" /\ UNCHANGED ends
    BY <1>2 DEF MakePipe, Pipes
  <2>2. TypeOK'
    <3>1. i' \in 1..(MaxCmds + 1) /\ pc' \in Places
      BY <2>1 DEF Places
    <3>2. ends' \in [0..MaxCmds -> SUBSET Ends]
      <4>1. i \in Pipes => ends[0] \cup {R(i), W(i)} \in SUBSET Ends
        OBVIOUS
      <4> QED BY <2>1, <4>1
    <3> QED BY <2>1, <3>1, <3>2
  <2>3. KidsOK'
    BY <2>1 DEF KidsOK
  <2>4. ShellOK'
    BY <2>1 DEF ShellOK, CleanReturn
  <2> QED BY <2>2, <2>3, <2>4
<1>3. CASE PipeFails
  BY <1>3 DEF PipeFails, KidsOK, ShellOK, CleanReturn, Places, Forked, SH_ERR_SYS
<1>4. CASE AllocKids
  BY <1>4 DEF AllocKids, KidsOK, ShellOK, CleanReturn, Places
<1>5. CASE Fork
  <2>1. /\ pc = "fork" /\ pc' = "fork" /\ i \in 1..n /\ i \in Cmds /\ i' = i + 1
        /\ st' = [st EXCEPT ![i] = "forked"] /\ ends' = [ends EXCEPT ![i] = ends[0]]
        /\ UNCHANGED <<n, redir, err, exit, stdin, stdout, sig, want, eof, status, buf, ints>>
    BY <1>5 DEF Fork
  <2>2. TypeOK'
    BY <2>1 DEF States, Setup
  <2>3. KidsOK'
    BY <2>1 DEF KidsOK, Setup
  <2>4. ShellOK'
    BY <2>1 DEF ShellOK, CleanReturn
  <2> QED BY <2>2, <2>3, <2>4
<1>6. CASE ForkFails
  BY <1>6 DEF ForkFails, KidsOK, ShellOK, CleanReturn, Places
<1>7. CASE CloseEnds
  BY <1>7 DEF CloseEnds, KidsOK, ShellOK, CleanReturn, Places
<1>8. CASE Wait
  <2>1. /\ pc = "wait" /\ i \in 1..n /\ i \in Cmds /\ st[i] = "zombie" /\ i' = i + 1
        /\ st' = [st EXCEPT ![i] = "reaped"]
        /\ UNCHANGED <<n, redir, err, stdin, stdout, sig, want, eof, status, ends, buf, ints>>
        /\ IF i = n THEN exit' = status[i] /\ pc' = "done" ELSE UNCHANGED exit /\ pc' = "wait"
    BY <1>8 DEF Wait, Reap
  <2>2. TypeOK'
    BY <2>1 DEF States, Places
  <2>3. KidsOK'
    BY <2>1 DEF KidsOK
  <2>4. ShellOK'
    BY <2>1 DEF ShellOK, CleanReturn, KidsOK, Forked
  <2> QED BY <2>2, <2>3, <2>4
<1>9. CASE AbortWait
  <2>1. /\ pc = "abort" /\ pc' = "abort" /\ i \in Cmds /\ st[i] = "zombie" /\ i' = i + 1
        /\ st' = [st EXCEPT ![i] = "reaped"]
        /\ UNCHANGED <<n, redir, err, exit, stdin, stdout, sig, want, eof, status, ends, buf, ints>>
    BY <1>9 DEF AbortWait, Reap, Forked
  <2>2. TypeOK'
    BY <2>1 DEF States
  <2>3. KidsOK'
    BY <2>1 DEF KidsOK
  <2>4. ShellOK'
    BY <2>1 DEF ShellOK, CleanReturn
  <2> QED BY <2>2, <2>3, <2>4
<1>10. CASE AbortClose
  BY <1>10 DEF AbortClose, KidsOK, ShellOK, CleanReturn, Places, Forked, SH_ERR_SYS
<1> QED BY <1>1, <1>2, <1>3, <1>4, <1>5, <1>6, <1>7, <1>8, <1>9, <1>10 DEF Shell

(* A child that steps without ending keeps its place in the pipeline: it   *)
(* was forked and is not reaped, before as well as after.                  *)
LEMMA ChildMoves ==
  ASSUME IInv, NEW p \in Cmds, NEW s \in States, Alive(p), s \notin {"none", "reaped", "forked", "duped"},
         st' = [st EXCEPT ![p] = s], ends' \in [0..MaxCmds -> SUBSET Ends], ends'[p] = {},
         \A q \in (0..MaxCmds) \ {p} : ends'[q] = ends[q],
         stdin' \in [Cmds -> Ends \cup {Tty, File}], stdout' \in [Cmds -> Ends \cup {Tty, File}],
         status' \in [Cmds -> Nat],
         \A q \in Cmds : stdin'[q] \in {stdin[q], File} /\ stdout'[q] \in {stdout[q], File},
         \A q \in Cmds \ {p} : status'[q] = status[q],
         UNCHANGED shell
  PROVE  IInv'
<1> USE ShExecAssumption, EndsFacts DEF IInv, Cmds, shell
<1>1. st[p] \in Setup \cup {"running"} /\ st[p] # "none" /\ st[p] # "reaped" /\ p # 0
  BY DEF Alive, Setup
<1>2. TypeOK'
  BY DEF TypeOK
<1>3. KidsOK'
  <2> SUFFICES ASSUME NEW q \in Cmds
               PROVE  /\ st'[q] \notin {"forked", "duped"} => ends'[q] = {}
                      /\ stdin'[q] \in Ends => q > 1 /\ stdin'[q] = R(q - 1)
                      /\ stdout'[q] \in Ends => q < n' /\ stdout'[q] = W(q)
                      /\ st'[q] # "none" => q <= n'
    BY DEF KidsOK
  <2>1. st'[q] = IF q = p THEN s ELSE st[q]
    BY DEF TypeOK
  <2>2. q \in 0..MaxCmds /\ (q = p => ends'[q] = {}) /\ (q # p => ends'[q] = ends[q])
    OBVIOUS
  <2>3. stdin'[q] \in {stdin[q], File} /\ stdout'[q] \in {stdout[q], File} /\ n' = n
    OBVIOUS
  <2> QED BY <1>1, <2>1, <2>2, <2>3 DEF KidsOK
<1>4. ShellOK'
  <2>1. st'[p] = s /\ \A q \in Cmds \ {p} : st'[q] = st[q]
    BY DEF TypeOK
  <2>2. ends'[0] = ends[0] /\ Forked' = Forked
    BY <1>1, <2>1 DEF Forked
  <2>3. pc # "done"
    BY <1>1 DEF ShellOK, CleanReturn
  <2>4. \A q \in Cmds : (st'[q] = "none" <=> st[q] = "none") /\ (st'[q] = "reaped" <=> st[q] = "reaped")
    BY <1>1, <2>1
  <2>5. 1..n \subseteq Cmds
    BY DEF TypeOK
  <2> QED BY <2>2, <2>3, <2>4, <2>5 DEF ShellOK, CleanReturn
<1> QED BY <1>2, <1>3, <1>4

(* A child that ends gives up its ends and is left for the shell to reap.  *)
LEMMA ChildDies ==
  ASSUME IInv, NEW p \in Cmds, NEW code \in Nat, Alive(p), Dies(p, code), UNCHANGED shell
  PROVE  IInv'
<1>1. TypeOK /\ p \in 0..MaxCmds
  BY DEF IInv, Cmds
<1>2. /\ "zombie" \in States /\ "zombie" \notin {"none", "reaped", "forked", "duped"}
      /\ st' = [st EXCEPT ![p] = "zombie"]
  BY DEF Dies, States
<1>3. /\ ends' \in [0..MaxCmds -> SUBSET Ends] /\ ends'[p] = {}
      /\ \A q \in (0..MaxCmds) \ {p} : ends'[q] = ends[q]
  BY <1>1 DEF Dies, TypeOK
<1>4. /\ stdin' \in [Cmds -> Ends \cup {Tty, File}] /\ stdout' \in [Cmds -> Ends \cup {Tty, File}]
      /\ status' \in [Cmds -> Nat]
      /\ \A q \in Cmds : stdin'[q] \in {stdin[q], File} /\ stdout'[q] \in {stdout[q], File}
      /\ \A q \in Cmds \ {p} : status'[q] = status[q]
  BY <1>1 DEF Dies, TypeOK
<1> QED BY <1>2, <1>3, <1>4, ChildMoves

(* A child that has taken its neighbours' pipes still holds all ends.      *)
LEMMA ChildDupStep == ASSUME IInv, NEW p \in Cmds, ChildDup(p) PROVE IInv'
<1> USE ShExecAssumption, EndsFacts DEF IInv, Cmds, ChildDup
<1>1. st[p] = "forked" /\ pc # "done" /\ p <= n
  BY DEF ShellOK, CleanReturn, KidsOK
<1>2. /\ UNCHANGED <<n, redir, pc, i, err, exit, ends, status>>
      /\ st' = [st EXCEPT ![p] = "duped"]
      /\ (p > 1 => p - 1 \in Pipes) /\ (p < n => p \in Pipes)
  BY <1>1 DEF shell, TypeOK, Pipes
<1>3. TypeOK'
  <2>1. st' \in [Cmds -> States]
    BY <1>2 DEF TypeOK, States, Setup
  <2>2. stdin' \in [Cmds -> Ends \cup {Tty, File}] /\ stdout' \in [Cmds -> Ends \cup {Tty, File}]
    BY <1>2 DEF TypeOK
  <2> QED BY <1>2, <2>1, <2>2 DEF TypeOK
<1>4. KidsOK'
  BY <1>1, <1>2 DEF TypeOK, KidsOK
<1>5. ShellOK'
  <2>1. \A q \in Cmds : (st'[q] = "none" <=> st[q] = "none") /\ (st'[q] = "reaped" <=> st[q] = "reaped")
    BY <1>1, <1>2 DEF TypeOK
  <2>2. 1..n \subseteq Cmds
    BY DEF TypeOK
  <2> QED BY <1>1, <1>2, <2>1, <2>2 DEF ShellOK, CleanReturn
<1> QED BY <1>3, <1>4, <1>5

(* The steps of a child between fork and its end.                          *)
LEMMA ChildStep ==
  ASSUME IInv, NEW p \in Cmds,
         Kid(p) \/ Read(p) \/ Write(p) \/ ChildFails(p) \/ ExitEarly(p)
  PROVE  IInv'
<1>1. TypeOK /\ KidsOK /\ p \in 0..MaxCmds
  BY DEF IInv, Cmds
<1>2. ASSUME NEW code \in Nat, Alive(p), Dies(p, code), UNCHANGED shell PROVE IInv'
  BY <1>2, ChildDies
<1>3. ASSUME NEW s \in {"closed", "reset", "redirected", "running"}, Alive(p),
             st' = [st EXCEPT ![p] = s], ends' \in [0..MaxCmds -> SUBSET Ends], ends'[p] = {},
             \A q \in (0..MaxCmds) \ {p} : ends'[q] = ends[q],
             stdin' \in [Cmds -> Ends \cup {Tty, File}],
             stdout' \in [Cmds -> Ends \cup {Tty, File}],
             \A q \in Cmds : stdin'[q] \in {stdin[q], File} /\ stdout'[q] \in {stdout[q], File},
             UNCHANGED <<shell, status>>
      PROVE  IInv'
  <2>1. s \in States /\ s \notin {"none", "reaped", "forked", "duped"}
    BY <1>3 DEF States, Setup
  <2>2. status' \in [Cmds -> Nat] /\ (\A q \in Cmds \ {p} : status'[q] = status[q]) /\ UNCHANGED shell
    BY <1>1, <1>3 DEF TypeOK
  <2> QED BY <1>3, <2>1, <2>2, ChildMoves
<1>4. CASE ChildDup(p)
  BY <1>4, ChildDupStep
<1>5. CASE ChildClose(p)
  BY <1>1, <1>3, <1>5 DEF ChildClose, TypeOK, Alive, Setup
<1>6. CASE ChildSignals(p)
  BY <1>1, <1>3, <1>6 DEF ChildSignals, TypeOK, KidsOK, Alive, Setup
<1>7. CASE ChildRedirs(p)
  <2>1. st[p] = "reset" /\ Alive(p) /\ ends[p] = {} /\ UNCHANGED <<shell, status, ends>>
    BY <1>1, <1>7 DEF ChildRedirs, KidsOK, Alive, Setup
  <2>2. /\ stdin' = [stdin EXCEPT ![p] = IF "in" \in redir[p] THEN File ELSE @]
        /\ stdout' = [stdout EXCEPT ![p] = IF "out" \in redir[p] THEN File ELSE @]
        /\ st' = [st EXCEPT ![p] = "redirected"]
    BY <1>7 DEF ChildRedirs
  <2> QED BY <1>1, <1>3, <2>1, <2>2 DEF TypeOK
<1>8. CASE ChildExec(p)
  BY <1>1, <1>3, <1>8 DEF ChildExec, TypeOK, KidsOK, Alive, Setup
<1>9. CASE Finish(p)
  BY <1>2, <1>9 DEF Finish, Alive
<1>10. CASE ChildFails(p)
  BY <1>2, <1>10 DEF ChildFails, Alive, Setup
<1>11. CASE ExitEarly(p)
  BY <1>2, <1>11 DEF ExitEarly, Alive
<1>12. ASSUME UNCHANGED <<shell, ends, stdin, stdout, st, status>> PROVE IInv'
  BY <1>12 DEF IInv, TypeOK, KidsOK, ShellOK, CleanReturn, Forked, shell
<1>13. CASE Read(p)
  BY <1>12, <1>13 DEF Read
<1>14. CASE Write(p)
  <2>1. CASE Dies(p, Killed(SIGPIPE)) /\ UNCHANGED shell
    BY <1>2, <1>14, <2>1 DEF Write, Alive, Killed, SIGPIPE
  <2>2. CASE UNCHANGED <<shell, ends, stdin, stdout, st, status>>
    BY <1>12, <2>2
  <2> QED BY <1>14, <2>1, <2>2 DEF Write
<1> QED BY <1>4, <1>5, <1>6, <1>7, <1>8, <1>9, <1>10, <1>11, <1>13, <1>14 DEF Kid

(* Ctrl-C ends children, and no shell.                                     *)
LEMMA InterruptStep == IInv /\ Interrupt => IInv'
<1> SUFFICES ASSUME IInv, Interrupt PROVE IInv'
  OBVIOUS
<1> DEFINE hit == {p \in Cmds : Alive(p) /\ sig[p] = "default"}
<1> USE ShExecAssumption, EndsFacts DEF IInv, Cmds
<1>1. /\ st' = [p \in Cmds |-> IF p \in hit THEN "zombie" ELSE st[p]]
      /\ status' = [p \in Cmds |-> IF p \in hit THEN Killed(SIGINT) ELSE status[p]]
      /\ ends' = [p \in 0..MaxCmds |-> IF p \in hit THEN {} ELSE ends[p]]
      /\ UNCHANGED <<n, redir, pc, i, err, exit, stdin, stdout>>
  BY DEF Interrupt, shell
<1>2. \A p \in hit : p \in Cmds /\ st[p] \notin {"none", "reaped"}
  BY DEF Alive, Setup
<1> HIDE DEF hit
<1>3. TypeOK'
  BY <1>1 DEF TypeOK, States, Killed, SIGINT
<1>4. KidsOK'
  BY <1>1, <1>2 DEF TypeOK, KidsOK
<1>5. ShellOK'
  <2>1. \A q \in Cmds : (st'[q] = "none" <=> st[q] = "none") /\ (st'[q] = "reaped" <=> st[q] = "reaped")
    BY <1>1, <1>2
  <2>2. 1..n \subseteq Cmds /\ ends'[0] = ends[0]
    BY <1>1, <1>2 DEF TypeOK
  <2>3. pc = "done" => hit = {}
    BY <1>2 DEF ShellOK, CleanReturn
  <2>4. Forked' = Forked
    BY <2>1 DEF Forked
  <2>5. pc = "done" => status' = status
    BY <1>1, <2>3 DEF TypeOK
  <2> QED BY <1>1, <2>1, <2>2, <2>4, <2>5 DEF ShellOK, CleanReturn
<1> QED BY <1>3, <1>4, <1>5

-----------------------------------------------------------------------------
(* The invariant holds in every state of every pipeline.                   *)
THEOREM Invariant == Spec => []IInv
<1>1. IInv /\ [Next]_vars => IInv'
  <2> SUFFICES ASSUME IInv, [Next]_vars PROVE IInv'
    OBVIOUS
  <2>1. CASE Shell
    BY <2>1, ShellStep
  <2>2. CASE \E p \in Cmds : Kid(p) \/ Read(p) \/ Write(p) \/ ChildFails(p) \/ ExitEarly(p)
    BY <2>2, ChildStep
  <2>3. CASE Interrupt
    BY <2>3, InterruptStep
  <2>4. CASE UNCHANGED vars
    BY <2>4 DEF vars, shell, kids, IInv, TypeOK, KidsOK, ShellOK, CleanReturn, Forked
  <2> QED BY <2>1, <2>2, <2>3, <2>4 DEF Next
<1> QED BY InitIInv, <1>1, PTL DEF Spec

(* A program of a pipeline of any length runs with no pipe end but its     *)
(* neighbours': the loop of the child in sh_pipeline_exec closes all.      *)
THEOREM ProgramsHoldTheirPipes == Spec => []OnlyItsPipes
<1>1. IInv => OnlyItsPipes
  BY DEF IInv, KidsOK, OnlyItsPipes
<1> QED BY <1>1, Invariant, PTL

(* sh_pipeline_exec leaves no child unreaped, closes its ends, and returns *)
(* the status of the last command, whichever call failed before.           *)
THEOREM ShellReturnsClean == Spec => []CleanReturn
<1>1. IInv => CleanReturn
  BY DEF IInv, ShellOK
<1> QED BY <1>1, Invariant, PTL

(* Once the shell waits and its children have closed what they inherited,  *)
(* nobody but a pipe's writer and its reader holds an end of it: a reader  *)
(* then meets the end of its input, or a writer SIGPIPE, when its          *)
(* neighbour is gone.                                                      *)
NoForgottenEnd ==
  pc = "wait" /\ (\A p \in Cmds : st[p] \notin {"forked", "duped"}) =>
    \A k \in Pipes : Holders(W(k)) \subseteq {k} /\ Holders(R(k)) \subseteq {k + 1}

(* No end of a pipe is forgotten in any process.                           *)
THEOREM NeighboursMeetTheEnd == Spec => []NoForgottenEnd
<1>1. IInv => NoForgottenEnd
  <2> SUFFICES ASSUME IInv, pc = "wait", \A p \in Cmds : st[p] \notin {"forked", "duped"},
                      NEW k \in Pipes, NEW p \in 0..MaxCmds
               PROVE  (p \in Holders(W(k)) => p = k) /\ (p \in Holders(R(k)) => p = k + 1)
    BY ShExecAssumption DEF NoForgottenEnd, Holders, Cmds
  <2>1. ends[p] = {}
    BY DEF IInv, ShellOK, KidsOK, Cmds
  <2>2. p \in Cmds => /\ stdin[p] \in Ends => stdin[p] = <<p - 1, "r">>
                      /\ stdout[p] \in Ends => stdout[p] = <<p, "w">>
    BY DEF IInv, KidsOK, R, W
  <2>3. p \in Holders(W(k)) => p \in Cmds /\ <<k, "w">> \in {stdin[p], stdout[p]}
    BY <2>1 DEF Holders, W
  <2>4. p \in Holders(R(k)) => p \in Cmds /\ <<k, "r">> \in {stdin[p], stdout[p]}
    BY <2>1 DEF Holders, R
  <2>5. <<k, "w">> \in Ends /\ <<k, "r">> \in Ends /\ k \in Int
    BY EndsFacts DEF R, W, Pipes
  <2> QED BY <2>2, <2>3, <2>4, <2>5
<1> QED BY <1>1, Invariant, PTL
=============================================================================
