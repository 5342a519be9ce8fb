----------------------------- MODULE Supervisor -----------------------------
(***************************************************************************)
(* init (src/src/cmd/init.c): it prepares the file system, starts a shell, *)
(* waits for it among the orphans it inherits, and starts the next one     *)
(* when a key is pressed.  The shell, the orphans and the user at the      *)
(* console are external.                                                   *)
(***************************************************************************)
EXTENDS Integers, Sequences

CONSTANTS
  Present,     \* the sets of paths that may exist when the system starts
  MaxOrphans   \* bound: orphans at once

VARIABLES
  fs,          \* the entries that exist: [path, owner, mode]
  ipc,         \* "setup", "fork", "wait", "key", "fail"
  shell,       \* "none", "forked", "running", "zombie"
  alive, dead  \* orphans that run, and that have ended

vars == <<fs, ipc, shell, alive, dead>>

-----------------------------------------------------------------------------
(* setup_users: a failing call is ignored, so each is a function of fs.    *)

(* Some paths of each kind; parents and kinds are those of the image.      *)
Parent(p) ==
  CASE p \in {"/bin/su", "/bin/ln"} -> "/bin"
    [] p = "/etc/shadow" -> "/etc"
    [] p = "/var/tmp" -> "/var"
    [] p = "/home/user" -> "/home"
    [] OTHER -> "/"
Paths == {"/bin", "/bin/su", "/bin/ln", "/etc", "/etc/shadow", "/root", "/tmp", "/var",
          "/var/tmp", "/home", "/home/user"}
Links == {"/bin/ln"}
Entry(p, u, m) == [path |-> p, owner |-> u, mode |-> m]

Chown(f, p, u) == {IF e.path = p THEN [e EXCEPT !.owner = u] ELSE e : e \in f}
Chmod(f, p, m) == {IF e.path = p THEN [e EXCEPT !.mode = m] ELSE e : e \in f}
Mkdir(f, p, m) ==
  LET there == {e.path : e \in f} \cup {"/"}
  IN IF p \in there \/ Parent(p) \notin there THEN f ELSE f \cup {Entry(p, "root", m)}

(* All that is below the directory, except symbolic links.                 *)
chown_tree(f, dir) ==
  {IF Parent(e.path) = dir /\ e.path \notin Links THEN [e EXCEPT !.owner = "root"] ELSE e : e \in f}

Apply(f, call) ==
  CASE call[1] = "tree" -> chown_tree(f, call[2])
    [] call[1] = "chown" -> Chown(f, call[2], call[3])
    [] call[1] = "chmod" -> Chmod(f, call[2], call[3])
    [] call[1] = "mkdir" -> Mkdir(f, call[2], call[3])

System(d) == << <<"tree", d>>, <<"chown", d, "root">>, <<"chmod", d, "0755">> >>
RootDir(d) == << <<"chown", d, "root">>, <<"chmod", d, "0755">> >>

Calls ==
  System("/bin") \o System("/etc") \o System("/var") \o RootDir("/root") \o RootDir("/tmp")
  \o << <<"mkdir", "/root", "0700">>, <<"chmod", "/root", "0700">>,
        <<"mkdir", "/tmp", "1777">>, <<"chmod", "/tmp", "1777">>,
        <<"mkdir", "/var/tmp", "1777">>, <<"chown", "/var/tmp", "root">>,
        <<"chmod", "/var/tmp", "1777">>,
        <<"mkdir", "/home", "0755">>, <<"chown", "/home", "root">>, <<"chmod", "/home", "0755">>,
        <<"mkdir", "/home/user", "0755">>, <<"chown", "/home/user", "user">>,
        <<"chmod", "/home/user", "0755">>,
        <<"chmod", "/etc/shadow", "0600">>, <<"chmod", "/bin/su", "4755">> >>

setup_users ==
  /\ ipc = "setup" /\ ipc' = "fork"
  /\ LET after[i \in 0 .. Len(Calls)] == IF i = 0 THEN fs ELSE Apply(after[i - 1], Calls[i])
     IN fs' = after[Len(Calls)]
  /\ UNCHANGED <<shell, alive, dead>>

-----------------------------------------------------------------------------
Init ==
  /\ \E s \in Present : \E u \in {"root", "user"} :
       fs = {Entry(p, u, "0644") : p \in s}
  /\ ipc = "setup" /\ shell = "none" /\ alive = 0 /\ dead = 0

Fork ==
  /\ ipc = "fork"
  /\ \/ shell' = "forked" /\ ipc' = "wait"
     \/ ipc' = "fail" /\ UNCHANGED shell
  /\ UNCHANGED <<fs, alive, dead>>

(* mutant: any child that ends is taken for the shell *)
MutReapOrphan ==
  /\ ipc \in {"wait", "fail"} /\ dead > 0
  /\ dead' = dead - 1
  /\ ipc' = IF ipc = "wait" THEN "key" ELSE ipc
  /\ UNCHANGED <<fs, shell, alive>>

(* wait returns an orphan: it is not the shell, and init waits on.  A wait *)
(* that a signal interrupts, or that finds no child, changes nothing.      *)
ReapOrphan ==
  /\ ipc \in {"wait", "fail"} /\ dead > 0
  /\ dead' = dead - 1
  /\ UNCHANGED <<fs, ipc, shell, alive>>

ReapShell ==
  /\ ipc = "wait" /\ shell = "zombie"
  /\ shell' = "none" /\ ipc' = "key"
  /\ UNCHANGED <<fs, alive, dead>>

(* getchar returns: a key, the end of input or an interrupt.               *)
Key == ipc = "key" /\ ipc' = "fork" /\ UNCHANGED <<fs, shell, alive, dead>>

ShellStarts ==  \* execvp succeeds, or the child exits
  /\ shell = "forked" /\ shell' \in {"running", "zombie"}
  /\ UNCHANGED <<fs, ipc, alive, dead>>
ShellEnds == shell = "running" /\ shell' = "zombie" /\ UNCHANGED <<fs, ipc, alive, dead>>
Adopt == shell = "running" /\ alive + dead < MaxOrphans /\ alive' = alive + 1 /\ UNCHANGED <<fs, ipc, shell, dead>>
OrphanEnds == alive > 0 /\ alive' = alive - 1 /\ dead' = dead + 1 /\ UNCHANGED <<fs, ipc, shell>>

InitStep == setup_users \/ Fork \/ ReapOrphan \/ ReapShell
Next == InitStep \/ Key \/ ShellStarts \/ ShellEnds \/ Adopt \/ OrphanEnds

(* init runs; a child that was forked gets to execvp.  The user and the    *)
(* programs owe nothing.                                                   *)
Fairness == WF_vars(setup_users \/ Fork) /\ SF_vars(ReapOrphan) /\ SF_vars(ReapShell) /\ WF_vars(ShellStarts)

-----------------------------------------------------------------------------
(* init never starts a shell while another is there, and none before the   *)
(* password hashes are private and the programs that change user belong to *)
(* root; what is under /home/user stays with its user.                     *)
OneShell ==
  /\ ipc \in {"setup", "fork", "key", "fail"} => shell = "none"
  /\ shell # "none" => \A e \in fs :
       /\ e.path = "/etc/shadow" => e.owner = "root" /\ e.mode = "0600"
       /\ e.path = "/bin/su" => e.owner = "root" /\ e.mode = "4755"
       /\ e.path = "/tmp" => e.mode = "1777"
       /\ e.path = "/root" => e.mode = "0700"
       /\ e.path = "/home/user" => e.owner = "user"

(* A shell that ends is noticed, the next one is started once a key is     *)
(* pressed unless fork fails, and orphans do not pile up while init waits. *)
InitSupervises ==
  /\ (shell = "zombie") ~> (ipc = "key")
  /\ (ipc = "fork") ~> (shell # "none" \/ ipc = "fail")
  /\ (dead = MaxOrphans) ~> (dead < MaxOrphans \/ ipc = "key")
=============================================================================
