------------------------------ MODULE Accounts ------------------------------
(***************************************************************************)
(* passwd, login and su (src/src/cmd) over the account files of            *)
(* src/src/libbrkc/pwd and crypto/pw.c: who may change a password, how     *)
(* /etc/shadow is replaced, and what a login accepts.                      *)
(*                                                                         *)
(* Files are inodes under two names, so that a process goes on with the    *)
(* file it opened.  A line of the shadow file is [user, hash]; the hash is *)
(* the password itself (SHA-256 is external), or "locked" for "*", which   *)
(* is the hash of none, as is that of a line torn by a failed write.  The  *)
(* empty string is "empty".  Each system call may fail, and a process may  *)
(* be killed between any two.                                              *)
(***************************************************************************)
EXTENDS Integers, Sequences, FiniteSets

CONSTANTS
  Passwd,     \* lines of /etc/passwd: [name, uid, gid, fields]
  Group,      \* lines of /etc/group: [gid, members]
  Shadow,     \* lines of /etc/shadow at the start: [user, hash]
  Words,      \* the strings that names and passwords are
  Passwords,  \* what may be typed
  Procs,      \* processes that may be passwd
  MaxBegun    \* bound: calls of passwd

ShadowLine == [user : Words, hash : Words]

AccountsConstants ==
  /\ Passwd \in Seq([name : Words, uid : Nat, gid : Nat, fields : Nat])
  /\ Group \in Seq([gid : Nat, members : SUBSET Words])
  /\ Shadow \in Seq(ShadowLine)
  /\ {"empty", "locked", "torn"} \subseteq Words /\ Passwords \subseteq Words \ {"locked", "torn"}
  /\ IsFiniteSet(Procs) /\ MaxBegun \in Nat

VARIABLES
  names,      \* "shadow" and "tmp" -> an inode, 0 when there is no such file
  disk,       \* inode -> its lines
  proc,       \* the passwd processes
  session,    \* a login or su at work
  begun,      \* calls of passwd so far
  expected,   \* what the shadow file should hold
  overlap,    \* two updates have run at once
  fault,      \* a read error was met
  spoiled     \* a file that a failed fprintf had torn was put in place

vars == <<names, disk, proc, session, begun, expected, overlap, fault, spoiled>>
ghosts == <<expected, overlap, fault, spoiled>>

(* Enough for the files that have a name or are open in a process.         *)
Inodes == 1 .. 2 * Cardinality(Procs) + 1
NoProc == [pc |-> "idle", user |-> "empty", hash |-> "empty", new |-> "empty", in |-> 0, out |-> 0,
           read |-> 0, found |-> FALSE, at |-> 0, pending |-> << >>, torn |-> FALSE]
NoSession == [pc |-> "none", user |-> "empty", hash |-> "empty", valid |-> {}, typed |-> "empty"]

Init ==
  /\ names = [shadow |-> 1, tmp |-> 0]
  /\ disk = [i \in Inodes |-> IF i = 1 THEN Shadow ELSE << >>]
  /\ proc = [p \in Procs |-> NoProc]
  /\ session = NoSession /\ begun = 0
  /\ expected = Shadow /\ overlap = FALSE /\ fault = FALSE /\ spoiled = FALSE

-----------------------------------------------------------------------------
(* pwd.c, grp.c, shadow.c, pw.c *)

(* The first line of those that match; << >> if there is none.             *)
First(lines, hits) ==
  IF hits = {} THEN << >> ELSE <<lines[CHOOSE i \in hits : \A j \in hits : i <= j]>>

(* A line must parse, and have the name or the uid.                        *)
lookup(name, uid, by_uid) ==
  First(Passwd, {i \in DOMAIN Passwd :
                   /\ Passwd[i].fields >= 7
                   /\ IF by_uid THEN Passwd[i].uid = uid ELSE Passwd[i].name = name})
getpwnam(name) == lookup(name, 0, FALSE)
getpwuid(uid) == lookup("empty", uid, TRUE)

getspnam(user) ==
  IF names.shadow = 0 THEN << >>
  ELSE LET lines == disk[names.shadow]
       IN First(lines, {i \in DOMAIN lines : lines[i].user = user})

pw_verify(password, stored) == stored # "locked" /\ stored # "empty" /\ password = stored

(* A line of /etc/group, for a user: the group is noted if it is new, and  *)
(* counted even where there is no room for it.                             *)
AddGroup(a, g, user, max) ==
  IF user \notin g.members \/ (\E k \in DOMAIN a.groups : a.groups[k] = g.gid) THEN a
  ELSE [n |-> a.n + 1, groups |-> IF a.n < max THEN Append(a.groups, g.gid) ELSE a.groups]

(* The groups of a user, at most max of them.                              *)
getgrouplist(user, gid, max) ==
  LET run[i \in 0 .. Len(Group)] ==
        IF i = 0 THEN [n |-> 1, groups |-> IF 0 < max THEN <<gid>> ELSE << >>]
        ELSE AddGroup(run[i - 1], Group[i], user, max)
  IN run[Len(Group)]

-----------------------------------------------------------------------------
(* passwd: main *)

(* Nothing is known to have damaged the shadow file.                       *)
Undamaged == ~overlap /\ ~fault /\ ~spoiled

Goes(p, rec) == proc' = [proc EXCEPT ![p] = rec]
Ends(p) == Goes(p, NoProc)
GivesUp(p) == Goes(p, [NoProc EXCEPT !.pc = "unlink"])
Updating(q) == proc[q].pc \in {"openout", "copy", "giveup", "close", "chmod", "rename", "unlink"}

(* Root is not asked for the old password; others may change only their    *)
(* own, and must have one.                                                 *)
Begin(p) ==
  /\ proc[p].pc = "idle" /\ begun < MaxBegun
  /\ begun' = begun + 1
  /\ \E caller \in {Passwd[i].uid : i \in DOMAIN Passwd} :
     \E pw \in {getpwnam(Passwd[i].name) : i \in DOMAIN Passwd} \cup {getpwuid(caller)} :
       LET user == IF pw = << >> THEN "empty" ELSE pw[1].name
       IN IF pw = << >> THEN Ends(p)
          ELSE IF caller = 0 THEN Goes(p, [NoProc EXCEPT !.pc = "new", !.user = user])
          ELSE IF pw[1].uid # caller \/ getspnam(user) = << >> THEN Ends(p)
          ELSE IF getspnam(user)[1].hash = "empty" THEN Ends(p)
          ELSE Goes(p, [NoProc EXCEPT !.pc = "old", !.user = user, !.hash = getspnam(user)[1].hash])
  /\ UNCHANGED <<names, disk, session>> /\ UNCHANGED ghosts

OldPassword(p) ==
  /\ proc[p].pc = "old"
  /\ \E typed \in Passwords :
       IF pw_verify(typed, proc[p].hash) THEN Goes(p, [proc[p] EXCEPT !.pc = "new", !.hash = "empty"]) ELSE Ends(p)
  /\ UNCHANGED <<names, disk, session, begun>> /\ UNCHANGED ghosts

(* The new password and its confirmation.                                  *)
NewPassword(p) ==
  /\ proc[p].pc = "new"
  /\ \E typed, confirm \in Passwords :
       IF typed = "empty" \/ typed # confirm THEN Ends(p)
       ELSE Goes(p, [proc[p] EXCEPT !.pc = "openin", !.new = typed])
  /\ UNCHANGED <<names, disk, session, begun>> /\ UNCHANGED ghosts

-----------------------------------------------------------------------------
(* passwd: update_shadow, a step for each system call that matters *)

OpenIn(p) ==
  /\ proc[p].pc = "openin"
  /\ \/ names.shadow # 0 /\ Goes(p, [proc[p] EXCEPT !.pc = "openout", !.in = names.shadow])
     \/ Ends(p)
  /\ overlap' = (overlap \/ \E q \in Procs \ {p} : Updating(q))
  /\ UNCHANGED <<names, disk, session, begun, expected, fault, spoiled>>

Held == {names.shadow, names.tmp} \cup {proc[q].in : q \in Procs} \cup {proc[q].out : q \in Procs}
Fresh == CHOOSE i \in Inodes : i \notin Held

(* fopen with "w" empties the file that is there, whoever is writing it.   *)
OpenOut(p) ==
  /\ proc[p].pc = "openout"
  /\ \/ LET i == IF names.tmp = 0 THEN Fresh ELSE names.tmp
        IN /\ names' = [names EXCEPT !.tmp = i]
           /\ disk' = [disk EXCEPT ![i] = << >>]
           /\ Goes(p, [proc[p] EXCEPT !.pc = "copy", !.out = i])
     \/ Ends(p) /\ UNCHANGED <<names, disk>>
  /\ UNCHANGED <<session, begun>> /\ UNCHANGED ghosts

Replace(lines, user, hash) ==
  LET new == [i \in DOMAIN lines |-> IF lines[i].user = user THEN [user |-> user, hash |-> hash]
                                     ELSE lines[i]]
  IN IF \E i \in DOMAIN lines : lines[i].user = user THEN new
     ELSE Append(new, [user |-> user, hash |-> hash])

-----------------------------------------------------------------------------
(* The stream that the lines go to: each is written when it ends.  When a  *)
(* write fails the stream keeps the whole line, although a part of it may  *)
(* be in the file, and takes no other; fclose writes it once more.         *)

TornLine == [user |-> "torn", hash |-> "torn"]

(* A line in its place in a file that another process may have emptied.    *)
PutLine(lines, k, line) ==
  [i \in 1 .. (IF Len(lines) < k THEN k ELSE Len(lines)) |->
     IF i = k THEN line ELSE IF i <= Len(lines) THEN lines[i] ELSE TornLine]

Writes(p, rec, line) ==
  /\ rec.pending = << >>
  /\ disk' = [disk EXCEPT ![rec.out] = PutLine(@, rec.at + 1, line)]
  /\ Goes(p, [rec EXCEPT !.at = @ + 1])

FailsToWrite(p, rec, line) ==
  \/ rec.pending # << >> /\ Goes(p, rec) /\ UNCHANGED disk
  \/ /\ rec.pending = << >>
     /\ \E torn \in BOOLEAN :
          /\ Goes(p, [rec EXCEPT !.pending = <<line>>, !.torn = torn])
          /\ disk' = IF torn THEN [disk EXCEPT ![rec.out] = PutLine(@, rec.at + 1, TornLine)] ELSE disk

(* The file when fclose has written what is pending: after a part of it.   *)
Flushed(lines, rec) ==
  IF rec.pending = << >> THEN lines
  ELSE PutLine(lines, rec.at + 1, IF rec.torn THEN TornLine ELSE rec.pending[1])

(* fclose fails with nothing or a part written.                            *)
FailsToFlush(p) ==
  /\ proc[p].pending # << >>
  /\ \/ UNCHANGED disk
     \/ disk' = [disk EXCEPT ![proc[p].out] = PutLine(@, proc[p].at + 1, TornLine)]

(* A line is torn, or one is missing that fprintf could not write.         *)
Spoilt(rec) == rec.torn \/ rec.at + Len(rec.pending) < rec.read

-----------------------------------------------------------------------------
(* passwd: the rest of update_shadow *)

(* A line is read and goes to out: the result of fwrite is looked at, that *)
(* of fprintf, which writes the line of the user, is not.                  *)
CopyLine(p) ==
  /\ proc[p].pc = "copy" /\ proc[p].read < Len(disk[proc[p].in])
  /\ LET line == disk[proc[p].in][proc[p].read + 1]
         new == [user |-> proc[p].user, hash |-> proc[p].new]
         rec == [proc[p] EXCEPT !.read = @ + 1]
     IN IF line.user = proc[p].user
        THEN LET found == [rec EXCEPT !.found = TRUE] IN Writes(p, found, new) \/ FailsToWrite(p, found, new)
        ELSE Writes(p, rec, line) \/ FailsToWrite(p, [rec EXCEPT !.pc = "giveup"], line)
  /\ UNCHANGED <<names, session, begun>> /\ UNCHANGED ghosts

(* The file ends, or a read fails, which looks the same; a user who was    *)
(* not found gets a line, and again the result is not looked at.           *)
CopyEnds(p) ==
  /\ proc[p].pc = "copy"
  /\ LET rec == [proc[p] EXCEPT !.pc = "close"]
         new == [user |-> proc[p].user, hash |-> proc[p].new]
     IN IF proc[p].found THEN Goes(p, rec) /\ UNCHANGED disk
        ELSE Writes(p, rec, new) \/ FailsToWrite(p, rec, new)
  /\ fault' = (fault \/ proc[p].read < Len(disk[proc[p].in]))
  /\ UNCHANGED <<names, session, begun, expected, overlap, spoiled>>

(* Both files are closed, whatever comes of it.                            *)
GiveUp(p) ==
  /\ proc[p].pc = "giveup"
  /\ FailsToFlush(p) \/ disk' = [disk EXCEPT ![proc[p].out] = Flushed(@, proc[p])]
  /\ GivesUp(p)
  /\ UNCHANGED <<names, session, begun>> /\ UNCHANGED ghosts

(* mutant: the result of fclose is not looked at *)
MutCloseOut(p) ==
  /\ proc[p].pc = "close"
  /\ FailsToFlush(p) \/ disk' = [disk EXCEPT ![proc[p].out] = Flushed(@, proc[p])]
  /\ Goes(p, [proc[p] EXCEPT !.pc = "chmod"])
  /\ UNCHANGED <<names, session, begun>> /\ UNCHANGED ghosts

(* fclose of out and, if that succeeds, of in, which may fail as well.     *)
CloseOut(p) ==
  /\ proc[p].pc = "close"
  /\ \/ /\ disk' = [disk EXCEPT ![proc[p].out] = Flushed(@, proc[p])]
        /\ Goes(p, [proc[p] EXCEPT !.pc = "chmod"]) \/ GivesUp(p)
     \/ FailsToFlush(p) /\ GivesUp(p)
  /\ UNCHANGED <<names, session, begun>> /\ UNCHANGED ghosts

Chmod(p) ==
  /\ proc[p].pc = "chmod"
  /\ \/ names.tmp # 0 /\ Goes(p, [proc[p] EXCEPT !.pc = "rename"])
     \/ GivesUp(p)
  /\ UNCHANGED <<names, disk, session, begun>> /\ UNCHANGED ghosts

(* Both names are looked up again.                                         *)
Rename(p) ==
  /\ proc[p].pc = "rename"
  /\ \/ /\ names.tmp # 0 /\ Ends(p)
        /\ names' = [shadow |-> names.tmp, tmp |-> 0]
        /\ expected' = Replace(expected, proc[p].user, proc[p].new)
        /\ spoiled' = (spoiled \/ Spoilt(proc[p]))
        /\ session' = IF session.pc = "prompt" /\ session.user = proc[p].user
                      THEN [session EXCEPT !.valid = @ \cup {proc[p].new}] ELSE session
     \/ GivesUp(p) /\ UNCHANGED <<names, expected, spoiled, session>>
  /\ UNCHANGED <<disk, begun, overlap, fault>>

Unlink(p) ==
  /\ proc[p].pc = "unlink" /\ Ends(p)
  /\ names' = [names EXCEPT !.tmp = 0] \/ UNCHANGED names
  /\ UNCHANGED <<disk, session, begun>> /\ UNCHANGED ghosts

Killed(p) ==
  /\ proc[p].pc # "idle" /\ Ends(p)
  /\ UNCHANGED <<names, disk, session, begun>> /\ UNCHANGED ghosts

-----------------------------------------------------------------------------
(* login and su *)

Right(user) == {expected[i].hash : i \in {j \in DOMAIN expected : expected[j].user = user}}

(* login asks everybody; su lets root pass, and refuses an empty hash.     *)
(* Bound: a login begins while the file is undamaged.                      *)
Ask ==
  /\ session.pc = "none" /\ Undamaged
  /\ \E i \in DOMAIN Passwd, prog \in {"login", "su"}, uid \in {0, 1} :
       LET user == Passwd[i].name
           sp == getspnam(user)
       IN session' =
            IF getpwnam(user) = << >> THEN NoSession
            ELSE IF prog = "su" /\ uid = 0 THEN [NoSession EXCEPT !.pc = "root"]
            ELSE IF sp = << >> THEN NoSession
            ELSE IF prog = "su" /\ sp[1].hash = "empty" THEN NoSession
            ELSE [NoSession EXCEPT !.pc = "prompt", !.user = user, !.hash = sp[1].hash,
                                   !.valid = Right(user)]
  /\ UNCHANGED <<names, disk, proc, begun>> /\ UNCHANGED ghosts

(* The password is compared with the hash that was read before the prompt; *)
(* then setgid, setuid and execv, each of which may fail.                  *)
Answer ==
  /\ session.pc = "prompt"
  /\ \/ session' = NoSession
     \/ \E typed \in Passwords :
          /\ pw_verify(typed, session.hash)
          /\ session' = [session EXCEPT !.pc = "in", !.typed = typed, !.hash = "empty", !.user = "empty"]
  /\ UNCHANGED <<names, disk, proc, begun>> /\ UNCHANGED ghosts

PasswdStep(p) ==
  \/ OldPassword(p) \/ NewPassword(p) \/ OpenIn(p) \/ OpenOut(p) \/ CopyLine(p) \/ CopyEnds(p)
  \/ GiveUp(p) \/ CloseOut(p) \/ Chmod(p) \/ Rename(p) \/ Unlink(p)

Next == Ask \/ Answer \/ \E p \in Procs : Begin(p) \/ PasswdStep(p) \/ Killed(p)

Spec == Init /\ [][Next]_vars

-----------------------------------------------------------------------------
(* The shadow file is whole: exactly the lines it had with the passwords   *)
(* that passwd reported as changed, although processes are killed and      *)
(* calls fail at any point; and a login was let in with a password that    *)
(* was right while it was asked.  The code keeps this as long as no two    *)
(* updates run at once, no read of the old file fails, and no file is put  *)
(* in place that a failed fprintf, whose result nobody looks at, had torn  *)
(* before fclose wrote the line once more: three faults of update_shadow.  *)
ShadowWhole ==
  Undamaged =>
    /\ names.shadow # 0 /\ disk[names.shadow] = expected
    /\ session.pc = "in" => session.typed \in session.valid \ {"empty", "locked"}

(* The groups of a user: the one of his line and those he is a member of.  *)
GroupsOf(user, gid) ==
  {gid} \cup {Group[g].gid : g \in {h \in DOMAIN Group : user \in Group[h].members}}

(* A list of groups that fits is complete and without duplicates, and one  *)
(* that does not is noticed.                                               *)
ListExact(user, gid, max) ==
  LET r == getgrouplist(user, gid, max)
  IN IF r.n > max THEN max < Cardinality(GroupsOf(user, gid))
     ELSE /\ {r.groups[k] : k \in DOMAIN r.groups} = GroupsOf(user, gid)
          /\ \A j, k \in DOMAIN r.groups : r.groups[j] = r.groups[k] => j = k

(* getgrouplist is exact for every user, whatever the size of the list.    *)
GroupsExact ==
  begun = 0 => \A i \in DOMAIN Passwd, max \in 0 .. 3 : ListExact(Passwd[i].name, Passwd[i].gid, max)

AccountsSound == ShadowWhole /\ GroupsExact

=============================================================================
