------------------------------ MODULE FileTree ------------------------------
(***************************************************************************)
(* The commands that copy, move and remove trees of files: cp.c, mv.c and  *)
(* rm.c under src/src/cmd.                                                 *)
(*                                                                         *)
(* The files are a function from paths to nodes.  A process takes one step *)
(* per system call that changes them or that another process may overtake; *)
(* the recursion of copy_tree, remove_tree and remove_path is a stack of   *)
(* frames.  A system call may fail for reasons of its own (a fault), and   *)
(* every state is one in which the process may be killed.                  *)
(***************************************************************************)
EXTENDS Integers, Sequences, SequencesExt, FiniteSets

CONSTANTS
  Trees,       \* the trees the commands may find: functions from paths to nodes
  Jobs,        \* the commands that run together: sequences of commands
  PathMax,     \* PATH_MAX, in components
  MaxProcs,    \* how many commands run together (bound of the model)
  MaxFaults    \* how many system calls fail (bound of the model)

(* The names in a path, in a tree and in the operands of a command.        *)
NamesOf(path) == {path[i] : i \in DOMAIN path}
NamesIn(t) == UNION {NamesOf(p) \cup (IF t[p].type = "link" THEN NamesOf(t[p].data) ELSE {}) : p \in DOMAIN t}
NamesFor(c) == NamesOf(c.dest) \cup UNION {NamesOf(c.src[i]) : i \in DOMAIN c.src}

Name ==
  (UNION {NamesIn(t) : t \in Trees})
    \cup (UNION {UNION {NamesFor(j[q]) : q \in DOMAIN j} : j \in Jobs})
Path == Seq(Name) \ {<< >>}

(* What is in a tree is in a directory of it or is a device.  A link leads *)
(* to no link: Resolve follows one.                                        *)
TreeConstants(t) ==
  \A p \in DOMAIN t :
    /\ p \in Path /\ t[p].type \in {"dir", "file", "link"}
    /\ Len(p) > 1 => Front(p) \in DOMAIN t /\ t[Front(p)].type = "dir"
    /\ t[p].type = "link" =>
         t[p].data \in Path /\ (t[p].data \in DOMAIN t => t[t[p].data].type # "link")

ASSUME FileTreeAssumption ==
  /\ PathMax \in Nat /\ MaxFaults \in Nat /\ MaxProcs \in Nat
  /\ \A t \in Trees : TreeConstants(t)
  /\ \A j \in Jobs :
       /\ Len(j) <= MaxProcs /\ DOMAIN j = 1 .. Len(j)
       /\ \A q \in DOMAIN j :
            /\ j[q].name \in {"cp", "mv", "rm"} /\ (j[q].name # "rm" => j[q].dest \in Path)
            /\ Len(j[q].src) \in Nat /\ DOMAIN j[q].src = 1 .. Len(j[q].src)
            /\ \A i \in DOMAIN j[q].src : j[q].src[i] \in Path

VARIABLES
  job,      \* the commands: [name, src, dest, r, f], with the options -r and -f
  fs, fs0,  \* the tree, and the one the commands found
  proc,     \* the processes that run them
  faults

vars == <<job, fs, fs0, proc, faults>>

Procs == DOMAIN job

Dir == [type |-> "dir", data |-> << >>]
File(data) == [type |-> "file", data |-> data]
Link(path) == [type |-> "link", data |-> path]

-----------------------------------------------------------------------------
(* The file system (external).  The first component of a path is a device; *)
(* symbolic links are absolute and lead to no other link.                  *)

Enter(t, p, name) ==
  LET q == Append(p, name)
  IN IF q \in DOMAIN t /\ t[q].type = "link" THEN t[q].data ELSE q

Resolve(t, path) ==
  LET at[i \in 0 .. Len(path)] == IF i = 0 THEN << >> ELSE Enter(t, at[i - 1], path[i])
  IN at[Len(path)]

(* The path of the entry itself, be it a link.                             *)
Entry(t, path) == Append(Resolve(t, Front(path)), Last(path))

Is(t, path, type) == path \in DOMAIN t /\ t[path].type = type
Entries(t, dir) == {Last(p) : p \in {p \in DOMAIN t : Front(p) = dir}}
Beneath(path, top) == IsPrefix(top, path)
Without(t, S) == [p \in DOMAIN t \ S |-> t[p]]
With(t, path, node) == [p \in DOMAIN t \cup {path} |-> IF p = path THEN node ELSE t[p]]
CanHold(t, path) == Len(path) > 1 /\ Is(t, Front(path), "dir")

(* rename(2) onto dest: the trees it may leave, none where it fails.       *)
rename(t, src, dest) ==
  LET moved == {p \in DOMAIN t : Beneath(p, src)}
      at(p) == src \o SubSeq(p, Len(dest) + 1, Len(p))
      fits == dest \notin DOMAIN t
                \/ (t[src].type = "dir" /\ t[dest].type = "dir" /\ Entries(t, dest) = {})
                \/ (t[src].type # "dir" /\ t[dest].type # "dir")
      left == Without(t, moved \cup {dest})
      there == {dest \o SubSeq(p, Len(src) + 1, Len(p)) : p \in moved}
  IN IF src \notin DOMAIN t \/ ~CanHold(t, dest) THEN {}
     ELSE IF src = dest THEN {t}
     ELSE IF Beneath(dest, src) \/ ~fits THEN {}
     ELSE {[p \in DOMAIN left \cup there |-> IF p \in there THEN t[at(p)] ELSE left[p]]}

-----------------------------------------------------------------------------
(* A process: where it is, the operand it is at, whether its destination   *)
(* is a directory, the frames of its recursion, its exit status, whether   *)
(* it has printed an error, whether it took back a copy, and (a history    *)
(* variable) where the links lead of which readlink failed to tell it.     *)

Fresh == [pc |-> "start", i |-> 1, into |-> FALSE, stack |-> << >>, ret |-> 0,
          errs |-> FALSE, undone |-> FALSE, astray |-> {}]

Frame(op, src, dest) ==
  [op |-> op, at |-> IF op = "copy" THEN "stat" ELSE "readlink", src |-> src, dest |-> dest,
   off |-> 0, batch |-> {}, seen |-> {}, ret |-> 0]

Source(c, x) == c.src[x.i]
Target(c, x) == IF x.into THEN Append(c.dest, Last(c.src[x.i])) ELSE c.dest

(* The loop of main goes on to the next operand.                           *)
Operand(x, ret) ==
  [x EXCEPT !.pc = "next", !.i = @ + 1, !.ret = IF ret = 0 THEN @ ELSE 1, !.stack = << >>]

(* copy_tree, remove_tree or remove_path is called from main or move_one.  *)
Call(x, op, src, dest) == [x EXCEPT !.pc = op, !.stack = <<Frame(op, src, dest)>>]

(* mutant: the sources are removed whether or not they were copied *)
MutReturned(c, x, ret) ==
  CASE x.pc = "copy" /\ c.name = "mv" -> Call(x, "remove", Source(c, x), Source(c, x))
    [] x.pc = "remove" /\ c.name = "mv" /\ ret # 0 ->
         [Call(x, "remove", Target(c, x), Target(c, x)) EXCEPT !.pc = "undo", !.undone = TRUE]
    [] OTHER -> Operand(x, ret)

(* ... and returns ret there.                                              *)
Returned(c, x, ret) ==
  CASE x.pc = "copy" /\ c.name = "mv" /\ ret = 0 ->
         Call(x, "remove", Source(c, x), Source(c, x))
    [] x.pc = "remove" /\ c.name = "mv" /\ ret # 0 ->
         [Call(x, "remove", Target(c, x), Target(c, x)) EXCEPT !.pc = "undo", !.undone = TRUE]
    [] x.pc = "undo" -> Operand(x, 1)
    [] OTHER -> Operand(x, ret)

Top(x) == Last(x.stack)
Goes(x, f) == [x EXCEPT !.stack = Append(Front(@), f)]
At(q, op, at) ==
  LET x == proc[q] IN x.stack # << >> /\ Top(x).op = op /\ Top(x).at = at

(* The top frame returns ret: mv gives up a directory when it cannot copy  *)
(* an entry, cp ignores it, and removing goes on and remembers it.         *)
Return(c, x, ret) ==
  LET rest == Front(x.stack)
      up == Last(rest)
  IN IF rest = << >> THEN Returned(c, x, ret)
     ELSE LET y == [x EXCEPT !.stack = rest] IN
          IF ret = 0 \/ (up.op = "copy" /\ c.name = "cp") THEN y
          ELSE IF up.op = "remove" THEN Goes(y, [up EXCEPT !.ret = -1])
          ELSE Goes(y, [up EXCEPT !.at = "fail"])

Fail(c, x) == [Return(c, x, -1) EXCEPT !.errs = TRUE]

(* Process q takes its step to x.                                          *)
Step(q, x) == proc' = [proc EXCEPT ![q] = x] /\ UNCHANGED <<job, fs0>>
Works == UNCHANGED faults
Keeps(q, x) == Step(q, x) /\ UNCHANGED fs /\ Works

(* A system call fails: the process continues as x.                        *)
Faulty(q, x) ==
  /\ faults < MaxFaults /\ faults' = faults + 1
  /\ Step(q, x) /\ UNCHANGED fs

-----------------------------------------------------------------------------
(* main *)

(* What dest is, is asked once, before the first operand.                  *)
Start(q) ==
  LET c == job[q]
      x == [proc[q] EXCEPT !.into = c.name # "rm" /\ Is(fs, Resolve(fs, c.dest), "dir")]
  IN /\ x.pc = "start"
     /\ IF c.name # "rm" /\ Len(c.src) > 1 /\ ~x.into
        THEN Keeps(q, [x EXCEPT !.pc = "exited", !.ret = 2])
        ELSE Keeps(q, [x EXCEPT !.pc = "next"])

NextOperand(q) ==
  LET c == job[q]
      x == proc[q]
  IN /\ x.pc = "next"
     /\ Keeps(q, IF x.i > Len(c.src) THEN [x EXCEPT !.pc = "exited"]
                 ELSE IF c.name = "rm" THEN Call(x, "remove", Source(c, x), Source(c, x))
                 ELSE IF x.into /\ Len(Target(c, x)) > PathMax
                 THEN [Operand(x, 1) EXCEPT !.errs = TRUE]
                 ELSE IF c.name = "mv" THEN [x EXCEPT !.pc = "rename"]
                 ELSE Call(x, "copy", Source(c, x), Target(c, x)))

(* move_one: only a move to another device becomes a copy.                 *)
Move(q) ==
  LET c == job[q]
      x == proc[q]
      src == Entry(fs, Source(c, x))
      dest == Entry(fs, Target(c, x))
      failed == [Operand(x, 1) EXCEPT !.errs = TRUE]
  IN /\ x.pc = "rename"
     /\ \/ /\ src[1] = dest[1]
           /\ IF rename(fs, src, dest) = {} THEN Keeps(q, failed)
              ELSE Step(q, Operand(x, 0)) /\ fs' \in rename(fs, src, dest) /\ Works
        \/ src[1] # dest[1] /\ Keeps(q, Call(x, "copy", Source(c, x), Target(c, x)))
        \/ Faulty(q, failed)

-----------------------------------------------------------------------------
(* copy_tree, copy_file and copy_dir of cp.c and mv.c *)

(* stat follows links; cp copies a directory only with -r.                 *)
CopyStat(q) ==
  LET c == job[q]
      x == proc[q]
      f == Top(x)
      src == Resolve(fs, f.src)
  IN /\ At(q, "copy", "stat")
     /\ \/ Keeps(q, IF src \notin DOMAIN fs \/ (fs[src].type = "dir" /\ c.name = "cp" /\ ~c.r)
                    THEN Fail(c, x)
                    ELSE IF fs[src].type = "file" THEN Goes(x, [f EXCEPT !.at = "open"])
                    ELSE Goes(x, [f EXCEPT !.at = IF c.name = "cp" THEN "opendir" ELSE "mkdir"]))
        \/ Faulty(q, Fail(c, x))

(* Both files are opened; the destination is created, or cut to nothing.   *)
CopyOpen(q) ==
  LET c == job[q]
      x == proc[q]
      f == Top(x)
      dest == Resolve(fs, f.dest)
  IN /\ At(q, "copy", "open")
     /\ \/ IF Is(fs, dest, "dir") \/ ~CanHold(fs, dest) THEN Keeps(q, Fail(c, x))
           ELSE /\ Step(q, Goes(x, [f EXCEPT !.at = "write"]))
                /\ fs' = With(fs, dest, File(<< >>))
                /\ Works
        \/ Faulty(q, Fail(c, x))

(* One buffer is read and written, until the end of the source.            *)
CopyWrite(q) ==
  LET c == job[q]
      x == proc[q]
      f == Top(x)
      data == fs[Resolve(fs, f.src)].data
      dest == Resolve(fs, f.dest)
  IN /\ At(q, "copy", "write")
     /\ \/ IF f.off >= Len(data) THEN Keeps(q, Return(c, x, 0))
           ELSE /\ Step(q, Goes(x, [f EXCEPT !.off = @ + 1]))
                /\ fs' = With(fs, dest, File(Append(fs[dest].data, data[f.off + 1])))
                /\ Works
        \/ Faulty(q, Fail(c, x))

(* mkdir of copy_dir: a destination that exists is taken as it is.         *)
MakeDir(q) ==
  LET c == job[q]
      x == proc[q]
      f == Top(x)
      dest == Entry(fs, f.dest)
      done == Goes(x, [f EXCEPT !.at = IF c.name = "cp" THEN "list" ELSE "opendir"])
  IN /\ At(q, "copy", "mkdir")
     /\ \/ dest \in DOMAIN fs /\ Keeps(q, done)
        \/ dest \notin DOMAIN fs /\ CanHold(fs, dest)
           /\ Step(q, done) /\ fs' = With(fs, dest, Dir) /\ Works
        \/ dest \notin DOMAIN fs /\ ~CanHold(fs, dest) /\ Keeps(q, Fail(c, x))
        \/ Faulty(q, Fail(c, x))

(* A directory that could not be copied: copy_dir returns.                 *)
GiveUp(q) == At(q, "copy", "fail") /\ Keeps(q, Return(job[q], proc[q], -1))

-----------------------------------------------------------------------------
(* Reading a directory, to copy it or to remove it *)

OpenDir(q) ==
  LET c == job[q]
      x == proc[q]
      f == Top(x)
      next == IF f.op = "copy" /\ c.name = "cp" THEN "mkdir" ELSE "list"
  IN /\ x.stack # << >> /\ f.at = "opendir"
     /\ \/ Keeps(q, IF Is(fs, Resolve(fs, f.src), "dir") THEN Goes(x, [f EXCEPT !.at = next])
                    ELSE Fail(c, x))
        \/ Faulty(q, Fail(c, x))

(* mutant: the directory is read from its start again *)
MutUnseen(f) == Entries(fs, Resolve(fs, f.src))

Unseen(f) == Entries(fs, Resolve(fs, f.src)) \ f.seen

(* posix_getdents fills the buffer with some of the entries not seen yet.  *)
List(q) ==
  LET c == job[q]
      x == proc[q]
      f == Top(x)
      removing == f.op = "remove"
      end == IF removing THEN Goes(x, [f EXCEPT !.at = "rmdir"]) ELSE Return(c, x, 0)
      broken == IF removing THEN [Goes(x, [f EXCEPT !.at = "rmdir", !.ret = -1]) EXCEPT !.errs = TRUE]
                ELSE Fail(c, x)
  IN /\ x.stack # << >> /\ f.at = "list" /\ f.batch = {}
     /\ \/ Unseen(f) = {} /\ Keeps(q, end)
        \/ \E batch \in SUBSET Unseen(f) \ {{}} :
             Keeps(q, Goes(x, [f EXCEPT !.batch = batch, !.seen = @ \cup batch]))
        \/ Faulty(q, broken)

(* The loop over the entries: one that makes too long a path is left out   *)
(* when removing, and ends copying.                                        *)
Descend(q) ==
  LET c == job[q]
      x == proc[q]
      f == Top(x)
  IN /\ x.stack # << >> /\ f.at = "list"
     /\ \E e \in f.batch :
          LET src == Append(f.src, e)
              dest == Append(f.dest, e)
              y == Goes(x, [f EXCEPT !.batch = @ \ {e}])
          IN Keeps(q, IF Len(src) <= PathMax /\ Len(dest) <= PathMax
                      THEN [y EXCEPT !.stack = Append(@, Frame(f.op, src, dest))]
                      ELSE IF f.op = "copy" THEN Fail(c, x)
                      ELSE [Goes(y, [f EXCEPT !.batch = @ \ {e}, !.ret = -1]) EXCEPT !.errs = TRUE])

-----------------------------------------------------------------------------
(* remove_path of rm.c and remove_tree of mv.c, which is remove_path with  *)
(* -r and without -f *)

recursive(c) == c.name = "mv" \/ c.r
force(c) == c.name = "rm" /\ c.f

(* mutant: links are followed to what they name *)
MutRemoveLook(q) ==
  LET x == proc[q]
  IN /\ At(q, "remove", "readlink")
     /\ Keeps(q, Goes(x, [Top(x) EXCEPT !.at = "stat"]))

(* readlink finds out about links.  Any failure of it is taken to mean     *)
(* that there is none, also where it failed on a link.                     *)
RemoveLook(q) ==
  LET x == proc[q]
      f == Top(x)
      path == Entry(fs, f.src)
      astray == [x EXCEPT !.astray = @ \cup {fs[path].data}]
  IN /\ At(q, "remove", "readlink")
     /\ \/ Is(fs, path, "link") /\ Keeps(q, Goes(x, [f EXCEPT !.at = "unlink"]))
        \/ ~Is(fs, path, "link") /\ Keeps(q, Goes(x, [f EXCEPT !.at = "stat"]))
        \/ Is(fs, path, "link") /\ Faulty(q, Goes(astray, [f EXCEPT !.at = "stat"]))

(* stat, which follows links, tells directories from the rest.             *)
RemoveStat(q) ==
  LET c == job[q]
      x == proc[q]
      f == Top(x)
      node == Resolve(fs, f.src)
  IN /\ At(q, "remove", "stat")
     /\ \/ Keeps(q, IF node \notin DOMAIN fs THEN (IF force(c) THEN Return(c, x, 0) ELSE Fail(c, x))
                    ELSE IF fs[node].type # "dir" THEN Goes(x, [f EXCEPT !.at = "unlink"])
                    ELSE IF recursive(c) THEN Goes(x, [f EXCEPT !.at = "opendir"])
                    ELSE Fail(c, x))
        \/ Faulty(q, Fail(c, x))

Unlink(q) ==
  LET c == job[q]
      x == proc[q]
      path == Entry(fs, Top(x).src)
      removable == Is(fs, path, "file") \/ Is(fs, path, "link")
  IN /\ At(q, "remove", "unlink")
     /\ \/ removable /\ Step(q, Return(c, x, 0)) /\ fs' = Without(fs, {path}) /\ Works
        \/ ~removable /\ Keeps(q, Fail(c, x))
        \/ Faulty(q, Fail(c, x))

(* mutant: a directory that cannot be removed is passed over *)
MutRmdir(q) ==
  LET c == job[q]
      x == proc[q]
      f == Top(x)
      path == Entry(fs, f.src)
      empty == Is(fs, path, "dir") /\ Entries(fs, path) = {}
  IN /\ At(q, "remove", "rmdir")
     /\ \/ empty /\ Step(q, Return(c, x, f.ret)) /\ fs' = Without(fs, {path}) /\ Works
        \/ ~empty /\ Keeps(q, Return(c, x, 0))
        \/ Faulty(q, Return(c, x, 0))

(* rmdir removes empty directories, and no link to one.                    *)
Rmdir(q) ==
  LET c == job[q]
      x == proc[q]
      f == Top(x)
      path == Entry(fs, f.src)
      empty == Is(fs, path, "dir") /\ Entries(fs, path) = {}
  IN /\ At(q, "remove", "rmdir")
     /\ \/ empty /\ Step(q, Return(c, x, f.ret)) /\ fs' = Without(fs, {path}) /\ Works
        \/ path \in DOMAIN fs /\ ~empty /\ Keeps(q, Fail(c, x))
        \/ path \notin DOMAIN fs /\ Keeps(q, IF force(c) THEN Return(c, x, f.ret) ELSE Fail(c, x))
        \/ Faulty(q, Fail(c, x))

-----------------------------------------------------------------------------
Init ==
  /\ job \in Jobs
  /\ fs \in Trees /\ fs0 = fs
  /\ proc = [q \in Procs |-> Fresh]
  /\ faults = 0

Process(q) ==
  \/ Start(q) \/ NextOperand(q) \/ Move(q)
  \/ CopyStat(q) \/ CopyOpen(q) \/ CopyWrite(q) \/ MakeDir(q) \/ GiveUp(q)
  \/ OpenDir(q) \/ List(q) \/ Descend(q)
  \/ RemoveLook(q) \/ RemoveStat(q) \/ Unlink(q) \/ Rmdir(q)

Next == \E q \in 1..MaxProcs : q \in Procs /\ Process(q)

(* The kernel runs every process that can run.                             *)
Spec == Init /\ [][Next]_vars /\ \A q \in 1..MaxProcs : WF_vars(q \in Procs /\ Process(q))

-----------------------------------------------------------------------------
(* Properties *)

Alone == Len(job) = 1

(* The places of an operand in the tree as it was found: where it is, and  *)
(* where it goes; and where p under `from' goes.                           *)
From(q, i) == Entry(fs0, job[q].src[i])
To(q, i) == Entry(fs0, Target(job[q], [proc[q] EXCEPT !.i = i]))
Moved(p, from, to) == to \o SubSeq(p, Len(from) + 1, Len(p))
Copied(q, i) == job[q].name = "cp" \/ From(q, i)[1] # To(q, i)[1]

Held(path) == {p \in DOMAIN fs0 : Beneath(p, path)}
Overlap(p, r) == Beneath(p, r) \/ Beneath(r, p)

(* Operands that do not get into each other's way: none goes to where      *)
(* another one is or goes to, as two of one name do.                       *)
Apart(q) ==
  \A i, j \in DOMAIN job[q].src :
    i # j => ~Overlap(To(q, i), To(q, j)) /\ ~Overlap(To(q, i), From(q, j))

(* Copying does not follow links that it finds where it copies to: they    *)
(* may lead back to what is copied, which open then cuts to nothing.       *)
PlainGoal(q) ==
  \A i \in DOMAIN job[q].src :
    Copied(q, i) => \A p \in Held(To(q, i)) : fs0[p].type # "link"

(* mv may be killed at any moment and loses no file: each one it was asked *)
(* to move is whole where it was or where it goes.  It is otherwise in     *)
(* mv.c where operands are not apart (the second file of one name goes     *)
(* over the first), where a copy goes through links at the destination,    *)
(* where readlink fails on a link beneath an operand, and once a source    *)
(* could not be removed after it was copied: move_one then removes the     *)
(* copy, and what was removed of the source is in neither place.           *)
NothingLost ==
  Alone /\ job[1].name = "mv" /\ Apart(1) /\ PlainGoal(1) /\ ~proc[1].undone /\ proc[1].astray = {} =>
    \A p \in UNION {Held(From(1, i)) : i \in DOMAIN job[1].src} : fs0[p].type = "file" =>
      \/ p \in DOMAIN fs /\ fs[p] = fs0[p]
      \/ \E i \in DOMAIN job[1].src :
           LET there == Moved(p, From(1, i), To(1, i)) IN
           p \in Held(From(1, i)) /\ there \in DOMAIN fs /\ fs[there] = fs0[p]

(* Whether `to' holds what `from' held at first.  A copy has what links    *)
(* name in their place.                                                    *)
Same(from, to, copied) ==
  \A p \in Held(from) :
    LET named(r) == IF copied THEN Resolve(fs0, r) ELSE r IN
    \A r \in Held(named(p)) :
      LET dest == Moved(r, named(p), Moved(p, from, to))
      IN dest \in DOMAIN fs /\ fs[dest] = fs0[named(r)]

(* No link beneath an operand leads to where an operand goes or another is.*)
ReadsApart(q) ==
  \A i, j \in DOMAIN job[q].src : \A p \in Held(From(q, i)) : fs0[p].type = "link" =>
    ~Overlap(fs0[p].data, To(q, j)) /\ (i # j => ~Overlap(fs0[p].data, From(q, j)))

(* An empty directory copied onto what is none: mkdir finds that it exists *)
(* and copy_dir takes it for done, so that cp and mv make nothing and mv   *)
(* removes the directory.                                                  *)
OntoOther(q, i) ==
  \E p \in Held(From(q, i)) :
    LET dest == Moved(p, From(q, i), To(q, i)) IN
    /\ Is(fs0, Resolve(fs0, p), "dir") /\ Entries(fs0, Resolve(fs0, p)) = {}
    /\ dest \in DOMAIN fs0 /\ fs0[dest].type # "dir"

Gone(path) == ~\E p \in DOMAIN fs : Beneath(p, Entry(fs, path))

(* A link to nothing that readlink failed on: rm -f takes it for missing.  *)
Overlooked(q, path) ==
  force(job[q]) /\ Is(fs0, Entry(fs0, path), "link") /\ fs0[Entry(fs0, path)].data \in proc[q].astray

(* Success is real, whatever system calls failed on the way.  After rm     *)
(* exits with 0 its operands are gone, but for a link to nothing on which  *)
(* readlink failed and that -f lets rm ignore.  After mv they are at the   *)
(* destination and only there, and after cp, unless it printed an error,   *)
(* at the destination and where they were: where operands are apart, the   *)
(* copy reads through no link what is written or moved and writes through  *)
(* none, is not of a file onto itself, and is of no empty directory onto   *)
(* what is none.  (Of two operands of mv, one beneath the other, the first *)
(* may take away what the second was to move.)                             *)
SuccessIsReal ==
  \A q \in Procs : (proc[q].pc = "exited" /\ proc[q].ret = 0) =>
    \A i \in DOMAIN job[q].src :
      LET path == job[q].src[i]
          from == From(q, i)
          to == To(q, i)
          sound == Apart(q) /\ PlainGoal(q) /\ (Copied(q, i) => ReadsApart(q) /\ ~OntoOther(q, i))
          nested == \E k \in DOMAIN job[q].src : k # i /\ Overlap(From(q, k), from)
      IN CASE job[q].name = "rm" -> Gone(path) \/ Overlooked(q, path)
           [] job[q].name = "mv" /\ Alone /\ sound /\ ~nested ->
                from = to \/ (Gone(path) /\ Same(from, to, Copied(q, i)))
           [] job[q].name = "cp" /\ Alone /\ sound /\ ~proc[q].errs ->
                Resolve(fs0, from) = to \/ (Same(from, to, TRUE) /\ Same(from, from, FALSE))
           [] OTHER -> TRUE

(* Nothing is removed through a symbolic link that was seen to be one: rm  *)
(* and mv remove entries of the trees they were given and of no other,     *)
(* even where system calls fail and where a link in such a tree leads to   *)
(* another directory.  Where readlink itself fails on a link, they follow  *)
(* it, and remove entries of the directory it leads to, against the        *)
(* comment in remove_path, and of no further one.  (move_one that takes    *)
(* back a copy removes the whole destination, with what it held before.)   *)
LinksNotFollowed ==
  \A p \in DOMAIN fs0 \ DOMAIN fs :
    \E q \in Procs : \E i \in DOMAIN job[q].src :
      /\ job[q].name # "cp"
      /\ \/ Beneath(p, From(q, i))
         \/ proc[q].undone /\ Beneath(p, To(q, i))
         \/ \E dir \in proc[q].astray : Beneath(p, dir)

(* Every command ends, even cp -r of a directory into itself, which the    *)
(* length of paths stops.                                                  *)
CommandsFinish == <>(\A q \in DOMAIN proc : proc[q].pc = "exited")

(* rm -f ignores missing files: unless a system call failed for another    *)
(* reason it does not fail, also when somebody else removes them too.      *)
ForceIgnoresMissing ==
  \A q \in Procs : job[q].name = "rm" /\ job[q].f /\ job[q].r /\ faults = 0 => proc[q].ret = 0
=============================================================================
