--------------------------- MODULE AccountsProofs ----------------------------
(***************************************************************************)
(* passwd keeps /etc/shadow whole, whatever the account files hold and     *)
(* however many processes there are, as long as no two of them are in      *)
(* update_shadow at once, no read fails, and none puts a file in place     *)
(* that a failed fprintf had torn; and getgrouplist is exact.              *)
(*                                                                         *)
(* The invariant follows the one process that is in update_shadow: the     *)
(* file it reads is the shadow file, the one it writes is the temporary    *)
(* one.  While it copies, that file holds the lines read so far, edited,   *)
(* once the line that waits in the stream is written, unless a line is     *)
(* torn or lost; between fclose and rename it is what the shadow file is   *)
(* to become.  Killed processes leave a temporary file behind; the next    *)
(* update empties it.                                                      *)
(***************************************************************************)
EXTENDS Accounts, SequenceTheorems, FiniteSetTheorems, NatFacts

Lines == Seq(ShadowLine)
Early == {"idle", "old", "new", "openin"}
Busy == {"copy", "giveup", "close", "chmod", "rename"}
Places == Early \cup {"openout", "unlink"} \cup Busy

ProcType ==
  [pc : Places, user : Words, hash : Words, new : Words, in : Inodes \cup {0},
   out : Inodes \cup {0}, read : Nat, found : BOOLEAN, at : Nat,
   pending : {<< >>} \cup {<<line>> : line \in ShadowLine}, torn : BOOLEAN]

SessionType ==
  [pc : {"none", "prompt", "in", "root"}, user : Words, hash : Words, valid : SUBSET Words,
   typed : Words]

TypeOK ==
  /\ names \in [shadow : Inodes, tmp : Inodes \cup {0}]
  /\ disk \in [Inodes -> Lines] /\ expected \in Lines
  /\ proc \in [Procs -> ProcType]
  /\ session \in SessionType

Whole == names.tmp # names.shadow /\ disk[names.shadow] = expected

OneUpdate == \A p, q \in Procs : Updating(p) /\ Updating(q) => p = q

(* The first n lines, with the password of the user changed.               *)
Edited(line, user, hash) == IF line.user = user THEN [user |-> user, hash |-> hash] ELSE line
Prefix(lines, n, user, hash) == [i \in 1..n |-> Edited(lines[i], user, hash)]

(* The copy, when a line has been read n times.                            *)
CopyOK(rec, lines) ==
  /\ rec.read <= Len(expected)
  /\ rec.found <=> \E i \in 1..rec.read : expected[i].user = rec.user
  /\ rec.pending = << >> => ~rec.torn /\ rec.at = rec.read
  /\ rec.pending # << >> => rec.found /\ rec.at < rec.read
  /\ ~Spoilt(rec) =>
       Len(lines) = rec.at /\ Flushed(lines, rec) = Prefix(expected, rec.read, rec.user, rec.new)

(* What a process in update_shadow has made of the temporary file.         *)
Copies(rec, lines) ==
  /\ rec.pc = "copy" => CopyOK(rec, lines)
  /\ rec.pc = "close" /\ ~Spoilt(rec) => Flushed(lines, rec) = Replace(expected, rec.user, rec.new)
  /\ rec.pc \in {"chmod", "rename"} /\ ~Spoilt(rec) => lines = Replace(expected, rec.user, rec.new)

(* A process that has not read or written a line.                          *)
Clean(rec) == rec.read = 0 /\ ~rec.found /\ rec.at = 0 /\ rec.pending = << >> /\ ~rec.torn

ProcOK(p) ==
  /\ ~Updating(p) => proc[p].in = 0 /\ proc[p].out = 0
  /\ proc[p].pc \in Early \cup {"openout"} => Clean(proc[p])
  /\ proc[p].pc = "openout" => proc[p].in = names.shadow /\ proc[p].out = 0
  /\ proc[p].pc \in Busy =>
       proc[p].in = names.shadow /\ proc[p].out = names.tmp /\ names.tmp # 0
  /\ Copies(proc[p], disk[names.tmp])

(* The hash that login compares with was in the file when it asked.        *)
SessionOK ==
  /\ session.pc = "prompt" => session.hash \in session.valid
  /\ session.pc = "in" => session.typed \in session.valid \ {"empty", "locked"}

Good == TypeOK /\ Whole /\ OneUpdate /\ (\A p \in Procs : ProcOK(p)) /\ SessionOK

IInv == Undamaged => Good

-----------------------------------------------------------------------------
(* The operators of the model *)

(* First returns nothing, or one line, one of those that match.            *)
LEMMA FirstFacts ==
  ASSUME NEW S, NEW lines \in Seq(S), NEW hits \in SUBSET DOMAIN lines
  PROVE  \/ First(lines, hits) = << >>
         \/ \E i \in hits : First(lines, hits) = <<lines[i]>> /\ lines[i] \in S
<1>1. hits \in SUBSET Nat
  BY LenProperties
<1>2. CASE hits # {}
  <2> DEFINE i == CHOOSE i \in hits : \A j \in hits : i <= j
  <2>1. i \in hits
    <3>1. \E m \in hits : \A k \in hits : m <= k
      BY <1>1, <1>2, LeastNumber
    <3> QED BY <3>1
  <2>2. First(lines, hits) = <<lines[i]>>
    BY <1>2 DEF First
  <2>3. lines[i] \in S
    BY <2>1, ElementOfSeq, LenProperties
  <2> HIDE DEF i
  <2> QED BY <2>1, <2>2, <2>3
<1>3. CASE hits = {}
  BY <1>3 DEF First
<1> QED BY <1>2, <1>3

(* The lines of the shadow file, with a password changed, are lines.       *)
LEMMA ReplaceType ==
  ASSUME NEW lines \in Lines, NEW user \in Words, NEW hash \in Words
  PROVE  Replace(lines, user, hash) \in Lines
<1> DEFINE e == [user |-> user, hash |-> hash]
           new == [i \in DOMAIN lines |-> IF lines[i].user = user THEN e ELSE lines[i]]
<1>1. e \in ShadowLine
  BY DEF ShadowLine
<1>2. Len(lines) \in Nat /\ DOMAIN lines = 1..Len(lines) /\ \A i \in DOMAIN lines : lines[i] \in ShadowLine
  BY ElementOfSeq, LenProperties DEF Lines
<1>3. new \in Lines
  <2> HIDE DEF e
  <2> QED BY <1>1, <1>2 DEF Lines
<1>4. Append(new, e) \in Lines
  <2> HIDE DEF new, e
  <2> QED BY <1>1, <1>3, AppendProperties DEF Lines
<1>5. Replace(lines, user, hash) \in {new, Append(new, e)}
  BY DEF Replace
<1> QED BY <1>3, <1>4, <1>5

(* A line put in its place gives lines, and one more after the last.       *)
LEMMA PutLineFacts ==
  ASSUME {"torn"} \subseteq Words, NEW lines \in Lines, NEW k \in Nat \ {0}, NEW line \in ShadowLine
  PROVE  /\ TornLine \in ShadowLine /\ PutLine(lines, k, line) \in Lines
         /\ k = Len(lines) + 1 => /\ Len(PutLine(lines, k, line)) = k
                                  /\ PutLine(lines, k, line) = [i \in 1..k |-> IF i = k THEN line ELSE lines[i]]
<1> DEFINE n == IF Len(lines) < k THEN k ELSE Len(lines)
<1>1. Len(lines) \in Nat /\ n \in Nat /\ \A i \in 1..Len(lines) : lines[i] \in ShadowLine
  BY ElementOfSeq, LenProperties DEF Lines
<1>2. TornLine \in ShadowLine
  BY DEF TornLine, ShadowLine
<1>3. PutLine(lines, k, line) =
        [i \in 1..n |-> IF i = k THEN line ELSE IF i <= Len(lines) THEN lines[i] ELSE TornLine]
  BY DEF PutLine
<1>4. \A i \in 1..n : (IF i = k THEN line ELSE IF i <= Len(lines) THEN lines[i] ELSE TornLine) \in ShadowLine
  <2> HIDE DEF n
  <2> QED BY <1>1, <1>2
<1>5. PutLine(lines, k, line) \in Lines
  <2> HIDE DEF n
  <2> QED BY <1>1, <1>3, <1>4 DEF Lines
<1>6. ASSUME k = Len(lines) + 1
      PROVE  /\ Len(PutLine(lines, k, line)) = k
             /\ PutLine(lines, k, line) = [i \in 1..k |-> IF i = k THEN line ELSE lines[i]]
  <2>1. n = k
    BY <1>1, <1>6
  <2>2. \A i \in 1..k : i # k => i <= Len(lines)
    BY <1>1, <1>6
  <2>3. PutLine(lines, k, line) = [i \in 1..k |-> IF i = k THEN line ELSE lines[i]]
    <3> HIDE DEF n
    <3> QED BY <1>3, <2>1, <2>2
  <2>4. DOMAIN PutLine(lines, k, line) = 1..k
    BY <2>3
  <2> QED BY <1>5, <2>3, <2>4, LenProperties DEF Lines
<1> QED BY <1>2, <1>5, <1>6

(* The lines read so far, edited, grow by one line at a time.              *)
LEMMA PrefixFacts ==
  ASSUME {"torn"} \subseteq Words, NEW lines \in Lines, NEW user \in Words, NEW hash \in Words,
         NEW n \in 0..Len(lines)
  PROVE  /\ Prefix(lines, n, user, hash) \in Lines /\ Len(Prefix(lines, n, user, hash)) = n
         /\ n < Len(lines) =>
              /\ Edited(lines[n + 1], user, hash) \in ShadowLine
              /\ PutLine(Prefix(lines, n, user, hash), n + 1, Edited(lines[n + 1], user, hash))
                   = Prefix(lines, n + 1, user, hash)
<1> DEFINE e == [user |-> user, hash |-> hash]
           pre == Prefix(lines, n, user, hash)
<1>1. /\ Len(lines) \in Nat /\ n \in Nat /\ n <= Len(lines) /\ DOMAIN lines = 1..Len(lines)
      /\ \A i \in 1..Len(lines) : lines[i] \in ShadowLine
  BY ElementOfSeq, LenProperties DEF Lines
<1>2. e \in ShadowLine
  BY DEF ShadowLine
<1>3. \A i \in 1..Len(lines) : Edited(lines[i], user, hash) \in ShadowLine
  BY <1>1, <1>2 DEF Edited
<1>4. \A i \in 1..n : i \in 1..Len(lines)
  BY <1>1
<1>5. pre \in Lines /\ DOMAIN pre = 1..n
  BY <1>1, <1>3, <1>4 DEF Prefix, Lines
<1>6. Len(pre) = n
  BY <1>1, <1>5, LenProperties DEF Lines
<1>7. \A i \in 1..n : pre[i] = Edited(lines[i], user, hash)
  BY DEF Prefix
<1> HIDE DEF e, pre
<1>8. ASSUME NEW line \in ShadowLine
      PROVE  PutLine(pre, n + 1, line) = [i \in 1..(n + 1) |-> IF i = n + 1 THEN line ELSE pre[i]]
  <2>1. n + 1 \in Nat \ {0} /\ n + 1 = Len(pre) + 1
    BY <1>1, <1>6
  <2> QED BY <1>5, <2>1, PutLineFacts
<1>9. ASSUME n < Len(lines)
      PROVE  /\ Edited(lines[n + 1], user, hash) \in ShadowLine
             /\ PutLine(pre, n + 1, Edited(lines[n + 1], user, hash)) = Prefix(lines, n + 1, user, hash)
  <2>1. Edited(lines[n + 1], user, hash) \in ShadowLine
    BY <1>1, <1>3, <1>9
  <2>2. \A i \in 1..(n + 1) : (IF i = n + 1 THEN Edited(lines[n + 1], user, hash) ELSE pre[i])
                                = Edited(lines[i], user, hash)
    BY <1>1, <1>7
  <2> QED BY <1>8, <2>1, <2>2 DEF Prefix
<1> QED BY <1>5, <1>6, <1>9 DEF pre

(* They are the new file when all are read, up to the line of a user who   *)
(* was not found.                                                          *)
LEMMA PrefixWhole ==
  ASSUME {"torn"} \subseteq Words, NEW lines \in Lines, NEW user \in Words, NEW hash \in Words,
         NEW n \in Nat, n = Len(lines)
  PROVE  IF \E i \in 1..n : lines[i].user = user
         THEN Prefix(lines, n, user, hash) = Replace(lines, user, hash)
         ELSE PutLine(Prefix(lines, n, user, hash), n + 1, [user |-> user, hash |-> hash])
                = Replace(lines, user, hash)
<1> DEFINE e == [user |-> user, hash |-> hash]
           pre == Prefix(lines, n, user, hash)
<1>1. Len(lines) \in Nat /\ DOMAIN lines = 1..Len(lines) /\ e \in ShadowLine
  BY LenProperties DEF Lines, ShadowLine
<1>2. pre \in Lines /\ Len(pre) = n /\ DOMAIN pre = 1..n
  <2>1. n \in 0..Len(lines)
    BY <1>1
  <2>2. pre \in Lines /\ Len(pre) = n
    BY <2>1, PrefixFacts
  <2> QED BY <2>2 DEF Prefix
<1>3. PutLine(pre, n + 1, e) = [i \in 1..(n + 1) |-> IF i = n + 1 THEN e ELSE pre[i]]
  <2>1. n + 1 \in Nat \ {0} /\ n + 1 = Len(pre) + 1
    BY <1>2
  <2> HIDE DEF e, pre
  <2> QED BY <1>1, <1>2, <2>1, PutLineFacts
<1> HIDE DEF e, pre
<1> QED
  <2> DEFINE new == [i \in DOMAIN lines |-> IF lines[i].user = user THEN e ELSE lines[i]]
  <2>1. pre = new
    BY <1>1 DEF pre, Prefix, Edited, e
  <2>2. Replace(lines, user, hash) =
          IF \E i \in DOMAIN lines : lines[i].user = user THEN new ELSE Append(new, e)
    BY DEF Replace, e
  <2>3. PutLine(pre, n + 1, e) = Append(pre, e)
    <3>1. Append(pre, e) = [i \in 1..(n + 1) |-> IF i = n + 1 THEN e ELSE pre[i]]
      <4> DEFINE a == Append(pre, e)
                 b == [i \in 1..(n + 1) |-> IF i = n + 1 THEN e ELSE pre[i]]
      <4>1. /\ a \in Lines /\ Len(a) = n + 1 /\ \A i \in 1..n : a[i] = pre[i]
            /\ a[n + 1] = e
        BY <1>1, <1>2, AppendProperties DEF Lines
      <4>2. a = [i \in 1..(n + 1) |-> a[i]]
        BY <4>1, LenProperties DEF Lines
      <4>3. \A i \in 1..(n + 1) : i = n + 1 \/ i \in 1..n
        BY <1>1
      <4>4. \A i \in 1..(n + 1) : a[i] = IF i = n + 1 THEN e ELSE pre[i]
        <5> HIDE DEF a
        <5> QED BY <4>1, <4>3
      <4> HIDE DEF a
      <4>5. a = b
        BY <4>2, <4>4
      <4> QED BY <4>5 DEF a
    <3> QED BY <1>3, <3>1
  <2> HIDE DEF new
  <2> QED BY <1>1, <2>1, <2>2, <2>3 DEF e, pre

-----------------------------------------------------------------------------
(* There are inodes.                                                       *)
LEMMA SomeInodes ==
  ASSUME AccountsConstants
  PROVE  1 \in Inodes /\ 0 \notin Inodes /\ (Procs # {} => 2 \in Inodes)
<1>1. Cardinality(Procs) \in Nat /\ (Procs # {} => Cardinality(Procs) # 0)
  BY FS_CardinalityType, FS_EmptySet DEF AccountsConstants
<1> QED BY <1>1 DEF Inodes

(* A process that is not at work.                                          *)
LEMMA NoProcFacts ==
  ASSUME AccountsConstants
  PROVE  /\ NoProc \in ProcType /\ NoProc.pc = "idle" /\ NoProc.in = 0 /\ NoProc.out = 0 /\ Clean(NoProc)
         /\ [NoProc EXCEPT !.pc = "unlink"] \in ProcType /\ [NoProc EXCEPT !.pc = "unlink"].pc = "unlink"
BY DEF AccountsConstants, NoProc, ProcType, Places, Early, Clean

(* The shadow file is whole at the start.                                  *)
LEMMA InitGood == AccountsConstants /\ Init => Good
<1> SUFFICES ASSUME AccountsConstants, Init PROVE Good
  OBVIOUS
<1>1. Shadow \in Lines /\ 1 \in Inodes /\ << >> \in Lines
  BY SomeInodes DEF AccountsConstants, Lines
<1>2. \A p \in Procs : proc[p] = NoProc
  BY DEF Init
<1>3. TypeOK
  <2>1. names \in [shadow : Inodes, tmp : Inodes \cup {0}] /\ disk \in [Inodes -> Lines] /\ expected \in Lines
    BY <1>1 DEF Init
  <2>2. proc \in [Procs -> ProcType]
    BY NoProcFacts DEF Init
  <2>3. session \in SessionType
    BY DEF AccountsConstants, Init, NoSession, SessionType
  <2> QED BY <2>1, <2>2, <2>3 DEF TypeOK
<1>4. Whole /\ SessionOK
  BY <1>1 DEF Init, Whole, SessionOK, NoSession
<1>5. OneUpdate /\ \A p \in Procs : ProcOK(p)
  BY <1>2, NoProcFacts DEF OneUpdate, ProcOK, Updating, Copies, Busy
<1> QED BY <1>3, <1>4, <1>5 DEF Good

(* A step of one process keeps the invariant if it is right for that       *)
(* process, if files are touched only by the one in update_shadow, and if  *)
(* it goes there only when no other is.                                    *)
LEMMA ProcStep ==
  ASSUME Good, NEW p \in Procs, NEW rec \in ProcType, proc' = [proc EXCEPT ![p] = rec],
         rec.pc \in {"openout", "unlink"} \cup Busy => \A q \in Procs \ {p} : ~Updating(q),
         Updating(p) \/ UNCHANGED <<names, disk, expected>>,
         names' \in [shadow : Inodes, tmp : Inodes \cup {0}], disk' \in [Inodes -> Lines],
         expected' \in Lines,
         session' \in SessionType,
         ProcOK(p)', Whole', SessionOK'
  PROVE  Good'
<1>1. TypeOK /\ OneUpdate /\ \A q \in Procs : ProcOK(q)
  BY DEF Good
<1>2. proc \in [Procs -> ProcType]
  BY <1>1 DEF TypeOK
<1>3. proc' \in [Procs -> ProcType] /\ proc'[p] = rec /\ \A q \in Procs \ {p} : proc'[q] = proc[q]
  BY <1>2
<1>4. TypeOK'
  BY <1>3 DEF TypeOK
<1>5. \A q \in Procs \ {p} : Updating(q)' <=> Updating(q)
  BY <1>3 DEF Updating
<1>6. Updating(p)' => \A q \in Procs \ {p} : ~Updating(q)
  BY <1>3 DEF Updating, Busy
<1>7. OneUpdate'
  BY <1>1, <1>5, <1>6 DEF OneUpdate
<1>8. ASSUME NEW q \in Procs \ {p} PROVE ProcOK(q)'
  <2>1. CASE Updating(p)
    <3>1. ~Updating(q) /\ proc'[q] = proc[q] /\ ProcOK(q)
      BY <1>1, <1>3, <1>8, <2>1 DEF OneUpdate
    <3> QED BY <3>1 DEF ProcOK, Updating, Busy, Copies
  <2>2. CASE UNCHANGED <<names, disk, expected>>
    <3>1. proc'[q] = proc[q] /\ ProcOK(q)
      BY <1>1, <1>3
    <3> QED BY <2>2, <3>1 DEF ProcOK, Updating, Copies, CopyOK
  <2> QED BY <2>1, <2>2
<1> QED BY <1>4, <1>7, <1>8 DEF Good

(* A process that is not in update_shadow, or leaves it, and touches       *)
(* nothing but the name of the temporary file.                             *)
LEMMA QuietStep ==
  ASSUME Good, NEW p \in Procs, NEW rec \in ProcType, Goes(p, rec),
         rec.pc \in Early, rec.in = 0, rec.out = 0, Clean(rec),
         \/ UNCHANGED names
         \/ Updating(p) /\ names' = [names EXCEPT !.tmp = 0],
         UNCHANGED <<disk, expected, session>>, AccountsConstants
  PROVE  Good'
<1>1. TypeOK /\ Whole /\ SessionOK /\ proc \in [Procs -> ProcType]
  BY DEF Good, TypeOK
<1>2. proc' = [proc EXCEPT ![p] = rec] /\ proc'[p] = rec
  BY <1>1 DEF Goes
<1>3. ProcOK(p)'
  BY <1>2 DEF ProcOK, Updating, Early, Busy, Copies
<1>4. names' \in [shadow : Inodes, tmp : Inodes \cup {0}] /\ Whole'
  BY <1>1, SomeInodes DEF TypeOK, Whole
<1>5. SessionOK'
  BY <1>1 DEF SessionOK
<1>6. disk' \in [Inodes -> Lines] /\ expected' \in Lines
      /\ session' \in SessionType
  BY <1>1 DEF TypeOK
<1>7. Updating(p) \/ UNCHANGED <<names, disk, expected>>
  OBVIOUS
<1>8. rec.pc \notin {"openout", "unlink"} \cup Busy
  BY DEF Early, Busy
<1> QED BY <1>2, <1>3, <1>4, <1>5, <1>6, <1>7, <1>8, ProcStep

(* A process that ends leaves the shadow file as it was.                   *)
LEMMA EndStep ==
  ASSUME Good, NEW p \in Procs, Ends(p),
         \/ UNCHANGED names
         \/ Updating(p) /\ names' = [names EXCEPT !.tmp = 0],
         UNCHANGED <<disk, expected, session>>, AccountsConstants
  PROVE  Good'
BY QuietStep, NoProcFacts DEF Ends, Early

(* A step of update_shadow that touches only the temporary file.           *)
LEMMA UpdateStep ==
  ASSUME AccountsConstants, Good, NEW p \in Procs, proc[p].pc \in Busy, NEW rec \in ProcType, Goes(p, rec),
         NEW new \in Lines, disk' = [disk EXCEPT ![names.tmp] = new], UNCHANGED <<names, expected, session>>,
         \/ rec.pc = "unlink"
         \/ rec.pc \in Busy /\ rec.in = proc[p].in /\ rec.out = proc[p].out /\ Copies(rec, new)
  PROVE  Good'
<1>1. TypeOK /\ Whole /\ SessionOK /\ OneUpdate /\ proc \in [Procs -> ProcType] /\ ProcOK(p) /\ Updating(p)
  BY DEF Good, TypeOK, Updating, Busy
<1>2. names.tmp \in Inodes /\ names.tmp # names.shadow /\ proc[p].in = names.shadow /\ proc[p].out = names.tmp
  BY <1>1 DEF ProcOK, TypeOK, Whole
<1>3. disk' \in [Inodes -> Lines] /\ disk'[names.tmp] = new /\ disk'[names.shadow] = expected
  BY <1>1, <1>2 DEF TypeOK, Whole
<1>4. proc' = [proc EXCEPT ![p] = rec] /\ proc'[p] = rec
  BY <1>1 DEF Goes
<1>5. ProcOK(p)'
  <2>1. CASE rec.pc = "unlink"
    BY <1>4, <2>1 DEF ProcOK, Updating, Early, Busy, Copies
  <2>2. CASE rec.pc \in Busy /\ rec.in = proc[p].in /\ rec.out = proc[p].out /\ Copies(rec, new)
    <3>1. rec.pc \notin Early \cup {"openout"} /\ Updating(p)'
      BY <1>4, <2>2 DEF Early, Busy, Updating
    <3>2. names.tmp # 0
      BY <1>1 DEF ProcOK
    <3>3. Copies(rec, new)'
      BY <2>2 DEF Copies, CopyOK
    <3>4. Copies(proc[p], disk[names.tmp])'
      BY <1>3, <1>4, <3>3 DEF Copies, CopyOK
    <3> QED BY <1>2, <1>4, <2>2, <3>1, <3>2, <3>4 DEF ProcOK
  <2> QED BY <2>1, <2>2
<1>6. /\ \A q \in Procs \ {p} : ~Updating(q)
      /\ Whole' /\ SessionOK' /\ expected' \in Lines /\ session' \in SessionType
      /\ names' \in [shadow : Inodes, tmp : Inodes \cup {0}]
  BY <1>1, <1>2, <1>3 DEF OneUpdate, Whole, SessionOK, TypeOK
<1> QED BY <1>1, <1>3, <1>4, <1>5, <1>6, ProcStep

(* One that touches no file, or gives up.                                  *)
LEMMA StillFiles ==
  ASSUME AccountsConstants, Good, NEW p \in Procs, proc[p].pc \in Busy, UNCHANGED disk
  PROVE  disk[names.tmp] \in Lines /\ disk' = [disk EXCEPT ![names.tmp] = disk[names.tmp]]
<1>1. TypeOK /\ ProcOK(p)
  BY DEF Good
<1> QED BY <1>1 DEF TypeOK, ProcOK

(* What getspnam finds is a line of the shadow file with the user's name.  *)
LEMMA FoundInShadow ==
  ASSUME TypeOK, NEW user
  PROVE  \/ getspnam(user) = << >>
         \/ \E i \in DOMAIN disk[names.shadow] :
              /\ disk[names.shadow][i].user = user /\ getspnam(user) = <<disk[names.shadow][i]>>
              /\ disk[names.shadow][i] \in ShadowLine
<1> DEFINE lines == disk[names.shadow]
           hits == {i \in DOMAIN lines : lines[i].user = user}
<1>1. lines \in Seq(ShadowLine)
  BY DEF TypeOK, Lines
<1>2. hits \in SUBSET DOMAIN lines
  OBVIOUS
<1>3. getspnam(user) \in {<< >>, First(lines, hits)}
  BY DEF getspnam
<1>4. \A i \in hits : i \in DOMAIN lines /\ lines[i].user = user
  OBVIOUS
<1> HIDE DEF lines, hits
<1>5. \/ First(lines, hits) = << >>
      \/ \E i \in hits : First(lines, hits) = <<lines[i]>> /\ lines[i] \in ShadowLine
  BY <1>1, <1>2, FirstFacts
<1> QED BY <1>3, <1>4, <1>5 DEF lines

(* What lookup finds is a line of /etc/passwd.                             *)
LEMMA FoundInPasswd ==
  ASSUME AccountsConstants, NEW name, NEW uid, NEW by_uid,
         lookup(name, uid, by_uid) # << >>
  PROVE  lookup(name, uid, by_uid)[1].name \in Words
<1> DEFINE T == [name : Words, uid : Nat, gid : Nat, fields : Nat]
           hits == {i \in DOMAIN Passwd : /\ Passwd[i].fields >= 7
                                         /\ IF by_uid THEN Passwd[i].uid = uid ELSE Passwd[i].name = name}
<1>1. Passwd \in Seq(T) /\ hits \in SUBSET DOMAIN Passwd
  BY DEF AccountsConstants
<1>2. lookup(name, uid, by_uid) = First(Passwd, hits)
  BY DEF lookup
<1> HIDE DEF hits, T
<1>3. PICK i \in hits : First(Passwd, hits) = <<Passwd[i]>> /\ Passwd[i] \in T
  BY <1>1, <1>2, FirstFacts
<1>4. First(Passwd, hits)[1] = Passwd[i]
  BY <1>3
<1> QED BY <1>2, <1>3, <1>4 DEF T

-----------------------------------------------------------------------------
(* The steps of passwd before update_shadow, and the death of one.         *)
LEMMA BeginStep ==
  ASSUME AccountsConstants, Good, NEW p \in Procs, Begin(p) PROVE Good'
<1>1. TypeOK /\ UNCHANGED <<names, disk, expected, session>> /\ proc[p].pc = "idle"
  BY DEF Begin, ghosts, Good
<1>2. PICK caller, pw :
        /\ pw \in {getpwnam(Passwd[i].name) : i \in DOMAIN Passwd} \cup {getpwuid(caller)}
        /\ LET user == IF pw = << >> THEN "empty" ELSE pw[1].name
           IN IF pw = << >> THEN Ends(p)
              ELSE IF caller = 0 THEN Goes(p, [NoProc EXCEPT !.pc = "new", !.user = user])
              ELSE IF pw[1].uid # caller \/ getspnam(user) = << >> THEN Ends(p)
              ELSE IF getspnam(user)[1].hash = "empty" THEN Ends(p)
              ELSE Goes(p, [NoProc EXCEPT !.pc = "old", !.user = user, !.hash = getspnam(user)[1].hash])
  BY DEF Begin
<1> DEFINE user == IF pw = << >> THEN "empty" ELSE pw[1].name
           asks == [NoProc EXCEPT !.pc = "old", !.user = user, !.hash = getspnam(user)[1].hash]
           sets == [NoProc EXCEPT !.pc = "new", !.user = user]
<1>3. user \in Words
  <2>1. PICK name, uid, by_uid : pw = lookup(name, uid, by_uid)
    <3>1. pw \in {getpwnam(Passwd[i].name) : i \in DOMAIN Passwd} \cup {getpwuid(caller)}
      BY <1>2
    <3> QED BY <3>1 DEF getpwnam, getpwuid
  <2>2. pw # << >> => pw[1].name \in Words
    BY <2>1, FoundInPasswd
  <2> QED BY <2>2 DEF AccountsConstants
<1>4. getspnam(user) # << >> => getspnam(user)[1].hash \in Words
  <2> HIDE DEF user
  <2> QED BY <1>1, FoundInShadow DEF ShadowLine
<1>5. \/ Ends(p) \/ Goes(p, sets)
      \/ Goes(p, asks) /\ getspnam(user) # << >>
  BY <1>2
<1> HIDE DEF user
<1>6. sets \in ProcType /\ sets.pc \in Early /\ sets.in = 0 /\ sets.out = 0 /\ Clean(sets)
  BY <1>3, NoProcFacts DEF NoProc, ProcType, Places, Early, Clean
<1>7. getspnam(user) # << >> => asks \in ProcType /\ asks.pc \in Early /\ asks.in = 0 /\ asks.out = 0 /\ Clean(asks)
  BY <1>3, <1>4, NoProcFacts DEF NoProc, ProcType, Places, Early, Clean
<1> HIDE DEF asks, sets
<1> QED BY <1>1, <1>5, <1>6, <1>7, QuietStep, EndStep

(* The old and the new password, and a kill.                               *)
LEMMA PromptSteps ==
  ASSUME AccountsConstants, Good, NEW p \in Procs, OldPassword(p) \/ NewPassword(p) \/ Killed(p)
  PROVE  Good'
<1>1. /\ TypeOK /\ UNCHANGED <<names, disk, expected, session>>
      /\ proc[p] \in ProcType /\ ProcOK(p)
  BY DEF OldPassword, NewPassword, Killed, ghosts, Good, TypeOK
<1>2. CASE Killed(p)
  BY <1>1, <1>2, EndStep DEF Killed
<1>3. CASE OldPassword(p)
  <2> DEFINE rec == [proc[p] EXCEPT !.pc = "new", !.hash = "empty"]
  <2>1. Ends(p) \/ Goes(p, rec)
    BY <1>3 DEF OldPassword
  <2>2. rec \in ProcType /\ rec.pc \in Early /\ rec.in = 0 /\ rec.out = 0 /\ Clean(rec)
    BY <1>1, <1>3 DEF AccountsConstants, OldPassword, ProcType, Places, ProcOK, Updating, Early, Clean
  <2> HIDE DEF rec
  <2> QED BY <1>1, <2>1, <2>2, EndStep, QuietStep
<1>4. CASE NewPassword(p)
  <2>1. PICK typed \in Passwords : Ends(p) \/ Goes(p, [proc[p] EXCEPT !.pc = "openin", !.new = typed])
    BY <1>4 DEF NewPassword
  <2> DEFINE rec == [proc[p] EXCEPT !.pc = "openin", !.new = typed]
  <2>2. rec \in ProcType /\ rec.pc \in Early /\ rec.in = 0 /\ rec.out = 0 /\ Clean(rec)
    BY <1>1, <1>4 DEF AccountsConstants, NewPassword, ProcType, Places, ProcOK, Updating, Early, Clean
  <2>3. Ends(p) \/ Goes(p, rec)
    BY <2>1
  <2> HIDE DEF rec
  <2> QED BY <1>1, <2>2, <2>3, EndStep, QuietStep
<1> QED BY <1>2, <1>3, <1>4

(* A process begins its update: no other is at one.                        *)
LEMMA OpenInStep ==
  ASSUME AccountsConstants, Good, NEW p \in Procs, OpenIn(p), ~overlap' PROVE Good'
<1>1. /\ TypeOK /\ Whole /\ SessionOK /\ UNCHANGED <<names, disk, expected, session>>
      /\ proc[p] \in ProcType /\ ProcOK(p) /\ proc[p].pc = "openin"
  BY DEF OpenIn, Good, TypeOK
<1>2. \A q \in Procs \ {p} : ~Updating(q)
  BY DEF OpenIn
<1> DEFINE rec == [proc[p] EXCEPT !.pc = "openout", !.in = names.shadow]
<1>3. Ends(p) \/ Goes(p, rec)
  BY DEF OpenIn
<1>4. CASE Goes(p, rec)
  <2>1. rec \in ProcType /\ rec.pc = "openout" /\ rec.in = names.shadow /\ rec.out = 0 /\ Clean(rec)
    BY <1>1 DEF TypeOK, ProcType, Places, ProcOK, Updating, Early, Clean
  <2> HIDE DEF rec
  <2>2. proc' = [proc EXCEPT ![p] = rec] /\ proc'[p] = rec
    BY <1>1, <1>4 DEF Goes, TypeOK
  <2>3. ProcOK(p)'
    BY <1>1, <2>1, <2>2 DEF ProcOK, Updating, Busy, Copies
  <2>4. Whole' /\ SessionOK'
    BY <1>1 DEF Whole, SessionOK
  <2>5. /\ names' \in [shadow : Inodes, tmp : Inodes \cup {0}] /\ disk' \in [Inodes -> Lines]
        /\ expected' \in Lines
        /\ session' \in SessionType
    BY <1>1 DEF TypeOK
  <2> QED BY <1>1, <1>2, <2>1, <2>2, <2>3, <2>4, <2>5, ProcStep
<1>5. CASE Ends(p)
  BY <1>1, <1>5, EndStep
<1> QED BY <1>3, <1>4, <1>5

(* A file that has no name and is open nowhere can be made.                *)
LEMMA FreshFacts ==
  ASSUME AccountsConstants, Good, NEW p \in Procs, proc[p].pc = "openout", names.tmp = 0
  PROVE  Fresh \in Inodes /\ Fresh # names.shadow
<1>1. TypeOK /\ OneUpdate /\ \A q \in Procs : ProcOK(q)
  BY DEF Good
<1>2. \A q \in Procs : proc[q].in \in {0, names.shadow} /\ proc[q].out = 0
  BY <1>1 DEF OneUpdate, ProcOK, Updating
<1>3. names.shadow \in Held /\ Held \subseteq {0, names.shadow}
  BY <1>2 DEF Held
<1>4. \E i \in Inodes : i \notin Held
  <2>1. 1 \in Inodes /\ 2 \in Inodes /\ 1 # 0 /\ 2 # 0 /\ 1 # 2
    BY SomeInodes
  <2> QED BY <1>3, <2>1
<1>5. Fresh \in Inodes /\ Fresh \notin Held
  BY <1>4 DEF Fresh
<1> QED BY <1>3, <1>5

(* The temporary file is made or emptied; it is not the shadow file.       *)
LEMMA OpenOutStep ==
  ASSUME AccountsConstants, Good, NEW p \in Procs, OpenOut(p) PROVE Good'
<1>1. /\ TypeOK /\ Whole /\ SessionOK /\ UNCHANGED <<expected, session>>
      /\ proc[p] \in ProcType /\ ProcOK(p) /\ proc[p].pc = "openout" /\ Updating(p)
      /\ \A q \in Procs \ {p} : ~Updating(q)
  BY DEF OpenOut, Good, TypeOK, OneUpdate, Updating, ghosts
<1>2. CASE Ends(p) /\ UNCHANGED <<names, disk>>
  BY <1>1, <1>2, EndStep
<1> DEFINE i == IF names.tmp = 0 THEN Fresh ELSE names.tmp
           rec == [proc[p] EXCEPT !.pc = "copy", !.out = i]
<1>3. CASE /\ names' = [names EXCEPT !.tmp = i] /\ disk' = [disk EXCEPT ![i] = << >>] /\ Goes(p, rec)
  <2>1. i \in Inodes /\ i # names.shadow /\ i # 0
    BY <1>1, FreshFacts, SomeInodes DEF TypeOK, Whole
  <2> HIDE DEF i
  <2>2. rec \in ProcType /\ rec.pc = "copy" /\ rec.in = names.shadow /\ rec.out = i /\ Clean(rec)
    BY <1>1, <2>1 DEF ProcType, Places, ProcOK, Busy, Clean
  <2> HIDE DEF rec
  <2>3. proc' = [proc EXCEPT ![p] = rec] /\ proc'[p] = rec
    BY <1>1, <1>3 DEF Goes, TypeOK
  <2>4. /\ names' \in [shadow : Inodes, tmp : Inodes \cup {0}] /\ names'.shadow = names.shadow
        /\ names'.tmp = i
    BY <1>1, <1>3, <2>1 DEF TypeOK
  <2>5. /\ disk' \in [Inodes -> Lines] /\ disk'[i] = << >> /\ disk'[names.shadow] = disk[names.shadow]
    BY <1>1, <1>3, <2>1 DEF TypeOK, Lines
  <2>6. ProcOK(p)'
    <3>1. CopyOK(rec, << >>)
      <4>1. Prefix(expected, 0, rec.user, rec.new) = << >> /\ Len(<< >>) = 0 /\ Len(expected) \in Nat
        BY <1>1, LenProperties DEF Prefix, TypeOK, Lines
      <4> QED BY <2>2, <4>1 DEF Clean, CopyOK, Flushed
    <3>2. Copies(proc[p], disk[names.tmp])'
      BY <1>1, <2>2, <2>3, <2>4, <2>5, <3>1 DEF Copies, CopyOK
    <3> QED BY <2>1, <2>2, <2>3, <2>4, <2>5, <3>2 DEF ProcOK, Updating, Early, Busy
  <2>7. Whole' /\ SessionOK' /\ expected' \in Lines /\ session' \in SessionType
    BY <1>1, <2>1, <2>4, <2>5 DEF Whole, SessionOK, TypeOK
  <2> QED BY <1>1, <2>2, <2>3, <2>4, <2>5, <2>6, <2>7, ProcStep
<1> QED BY <1>2, <1>3 DEF OpenOut

(* What a process that is copying knows.                                   *)
LEMMA CopyFacts ==
  ASSUME AccountsConstants, Good, NEW p \in Procs, proc[p].pc \in Busy
  PROVE  /\ proc[p] \in ProcType /\ proc[p].in = names.shadow /\ proc[p].out = names.tmp
         /\ disk[names.shadow] = expected /\ expected \in Lines /\ Len(expected) \in Nat
         /\ disk[names.tmp] \in Lines /\ names.tmp \in Inodes /\ disk \in [Inodes -> Lines]
         /\ Copies(proc[p], disk[names.tmp]) /\ {"torn"} \subseteq Words
BY LenProperties DEF Good, TypeOK, Whole, ProcOK, Lines, AccountsConstants

(* A write has failed: p goes on with r, and the temporary file is new.    *)
Failed(p, rec, line, r, new) ==
  /\ Goes(p, r) /\ disk' = [disk EXCEPT ![names.tmp] = new]
  /\ \/ rec.pending # << >> /\ r = rec
     \/ /\ rec.pending = << >> /\ \E torn \in BOOLEAN : r = [rec EXCEPT !.pending = <<line>>, !.torn = torn]
        /\ ~r.torn => new = disk[names.tmp]

(* A write that fails leaves lines, or what was there.                     *)
LEMMA FailedWrite ==
  ASSUME AccountsConstants, Good, NEW p \in Procs, proc[p].pc \in Busy,
         NEW rec \in ProcType, rec.out = proc[p].out, rec.at = proc[p].at, NEW line \in ShadowLine,
         FailsToWrite(p, rec, line)
  PROVE  \E r \in ProcType, new \in Lines : Failed(p, rec, line, r, new)
<1>1. CASE rec.pending # << >> /\ Goes(p, rec) /\ UNCHANGED disk
  BY <1>1, StillFiles DEF Failed
<1>2. ASSUME NEW torn \in BOOLEAN, rec.pending = << >>,
             Goes(p, [rec EXCEPT !.pending = <<line>>, !.torn = torn]),
             disk' = IF torn THEN [disk EXCEPT ![rec.out] = PutLine(@, rec.at + 1, TornLine)] ELSE disk
      PROVE  \E r \in ProcType, new \in Lines : Failed(p, rec, line, r, new)
  <2> DEFINE r == [rec EXCEPT !.pending = <<line>>, !.torn = torn]
             lines == disk[names.tmp]
             new == IF torn THEN PutLine(lines, rec.at + 1, TornLine) ELSE lines
  <2>1. r \in ProcType /\ r.torn = torn
    BY DEF ProcType
  <2>2. lines \in Lines /\ rec.out = names.tmp /\ names.tmp \in Inodes /\ disk \in [Inodes -> Lines]
    BY CopyFacts
  <2>3. PutLine(lines, rec.at + 1, TornLine) \in Lines
    <3>1. rec.at + 1 \in Nat \ {0} /\ {"torn"} \subseteq Words
      BY CopyFacts DEF ProcType
    <3>2. TornLine \in ShadowLine
      BY <3>1 DEF TornLine, ShadowLine
    <3> HIDE DEF lines
    <3> QED BY <2>2, <3>1, <3>2, PutLineFacts
  <2>4. new \in Lines
    BY <2>2, <2>3
  <2>5. disk' = [disk EXCEPT ![names.tmp] = new]
    <3>1. CASE torn
      BY <1>2, <2>2, <3>1
    <3>2. CASE ~torn
      <4>1. disk' = disk /\ new = disk[names.tmp]
        BY <1>2, <3>2
      <4> HIDE DEF new
      <4> QED BY <2>2, <4>1
    <3> QED BY <3>1, <3>2
  <2>6. ~r.torn => new = disk[names.tmp]
    BY <2>1
  <2>7. Goes(p, r) /\ rec.pending = << >> /\ \E t \in BOOLEAN : r = [rec EXCEPT !.pending = <<line>>, !.torn = t]
    BY <1>2
  <2> HIDE DEF r, new
  <2>8. Failed(p, rec, line, r, new)
    BY <2>5, <2>6, <2>7 DEF Failed
  <2> QED BY <2>1, <2>4, <2>8
<1> QED BY <1>1, <1>2 DEF FailsToWrite

(* A write that succeeds puts the line in its place.                       *)
LEMMA GoodWrite ==
  ASSUME AccountsConstants, Good, NEW p \in Procs, proc[p].pc \in Busy,
         NEW rec \in ProcType, rec.out = proc[p].out, NEW line \in ShadowLine, Writes(p, rec, line)
  PROVE  /\ rec.pending = << >> /\ [rec EXCEPT !.at = @ + 1] \in ProcType /\ Goes(p, [rec EXCEPT !.at = @ + 1])
         /\ PutLine(disk[names.tmp], rec.at + 1, line) \in Lines
         /\ disk' = [disk EXCEPT ![names.tmp] = PutLine(disk[names.tmp], rec.at + 1, line)]
<1>1. rec.at + 1 \in Nat \ {0} /\ {"torn"} \subseteq Words /\ disk[names.tmp] \in Lines /\ rec.out = names.tmp
  BY CopyFacts DEF ProcType
<1>2. PutLine(disk[names.tmp], rec.at + 1, line) \in Lines
  BY <1>1, PutLineFacts
<1>3. [rec EXCEPT !.at = @ + 1] \in ProcType
  BY DEF ProcType
<1> QED BY <1>1, <1>2, <1>3 DEF Writes

(* A line is copied, or fails to be: then it waits in the stream, or the   *)
(* copy is spoilt, or passwd gives up.                                     *)
LEMMA CopyLineStep ==
  ASSUME AccountsConstants, Good, NEW p \in Procs, CopyLine(p) PROVE Good'
<1> DEFINE me == proc[p]
           lines == disk[names.tmp]
           line == expected[me.read + 1]
           edited == Edited(line, me.user, me.new)
           rec == [me EXCEPT !.read = @ + 1]
           found == [rec EXCEPT !.found = TRUE]
           gives == [rec EXCEPT !.pc = "giveup"]
           pre(n) == Prefix(expected, n, me.user, me.new)
<1>1. /\ UNCHANGED <<names, expected, session>> /\ me.pc = "copy" /\ me.pc \in Busy
  BY DEF CopyLine, ghosts, Busy
<1>2. /\ me \in ProcType /\ expected \in Lines /\ Len(expected) \in Nat /\ lines \in Lines
      /\ me.in = names.shadow /\ me.out = names.tmp
      /\ disk[names.shadow] = expected /\ CopyOK(me, lines) /\ {"torn"} \subseteq Words
  BY <1>1, CopyFacts DEF Copies
<1>3. me.read < Len(expected) /\ me.read \in Nat /\ me.at \in Nat /\ me.user \in Words /\ me.new \in Words
  BY <1>2 DEF CopyLine, ProcType
<1>4. /\ IF line.user = me.user THEN Writes(p, found, edited) \/ FailsToWrite(p, found, edited)
         ELSE Writes(p, rec, edited) \/ FailsToWrite(p, gives, edited)
  BY <1>2 DEF CopyLine, Edited
<1>5. me.read \in 0..Len(expected)
  BY <1>2, <1>3
<1>6. /\ edited \in ShadowLine
      /\ PutLine(pre(me.read), me.read + 1, edited) = pre(me.read + 1) /\ Len(pre(me.read)) = me.read
      /\ pre(me.read + 1) \in Lines /\ Len(pre(me.read + 1)) = me.read + 1
  <2>1. /\ expected \in Lines /\ Len(expected) \in Nat /\ {"torn"} \subseteq Words
        /\ me.user \in Words /\ me.new \in Words
    BY <1>2, <1>3
  <2>2. me.read \in 0..Len(expected) /\ me.read + 1 \in 0..Len(expected) /\ me.read < Len(expected)
    BY <1>2, <1>3
  <2>3. ASSUME NEW u \in Words, NEW h \in Words, NEW n \in 0..Len(expected)
        PROVE  /\ Prefix(expected, n, u, h) \in Lines /\ Len(Prefix(expected, n, u, h)) = n
               /\ n < Len(expected) =>
                    /\ Edited(expected[n + 1], u, h) \in ShadowLine
                    /\ PutLine(Prefix(expected, n, u, h), n + 1, Edited(expected[n + 1], u, h))
                         = Prefix(expected, n + 1, u, h)
    <3> HIDE DEF me, lines, line, edited, rec, found, gives, pre
    <3> QED BY <2>1, <2>3, PrefixFacts
  <2> QED BY <2>1, <2>2, <2>3
<1>7. /\ rec \in ProcType /\ found \in ProcType /\ gives \in ProcType
  <2>1. rec \in ProcType
    BY <1>2, <1>3 DEF ProcType
  <2>2. found \in ProcType
    <3> HIDE DEF rec
    <3> QED BY <2>1 DEF ProcType
  <2>3. gives \in ProcType
    <3> HIDE DEF rec
    <3> QED BY <2>1 DEF ProcType, Places, Busy
  <2> QED BY <2>1, <2>2, <2>3
<1>8. \A r \in {rec, found, gives} :
        /\ r.out = me.out /\ r.in = me.in /\ r.at = me.at /\ r.pending = me.pending /\ r.user = me.user
        /\ r.new = me.new /\ r.read = me.read + 1 /\ r.torn = me.torn
  BY <1>2 DEF ProcType
<1>9. /\ rec.pc = "copy" /\ found.pc = "copy" /\ gives.pc = "giveup"
      /\ rec.found = me.found /\ found.found
  BY <1>1, <1>2 DEF ProcType
<1>10. me.pending = << >> => lines = pre(me.read) /\ me.at = me.read /\ ~me.torn
  <2>1. ASSUME me.pending = << >> PROVE ~Spoilt(me)
    BY <1>2, <1>3, <2>1 DEF CopyOK, Spoilt
  <2> QED BY <1>2, <2>1 DEF CopyOK, Flushed
<1>11. (\E i \in 1..(me.read + 1) : expected[i].user = me.user) <=> me.found \/ line.user = me.user
  <2>1. \A i : i \in 1..(me.read + 1) <=> i \in 1..me.read \/ i = me.read + 1
    BY <1>3
  <2> QED BY <1>2, <2>1 DEF CopyOK
<1> HIDE DEF me, lines, line, edited, rec, found, gives, pre
<1>12. ASSUME NEW r \in {rec, found}, Writes(p, r, edited), r.found <=> me.found \/ line.user = me.user
       PROVE  Good'
  <2> DEFINE a == [r EXCEPT !.at = @ + 1]
             new == PutLine(lines, r.at + 1, edited)
  <2>1. /\ r.pending = << >> /\ a \in ProcType /\ Goes(p, a) /\ new \in Lines
        /\ disk' = [disk EXCEPT ![names.tmp] = new]
    BY <1>1, <1>6, <1>7, <1>8, <1>12, GoodWrite DEF me, lines
  <2>2. r \in ProcType /\ r.pc = "copy"
    BY <1>7, <1>9
  <2>3. /\ a.pc = "copy" /\ a.in = me.in /\ a.out = me.out /\ a.at = me.at + 1 /\ a.read = me.read + 1
        /\ a.pending = << >> /\ ~a.torn /\ a.user = me.user /\ a.new = me.new /\ a.found = r.found
    BY <1>8, <1>10, <2>1, <2>2 DEF ProcType
  <2>4. new = pre(me.read + 1)
    BY <1>6, <1>8, <1>10, <2>1
  <2> HIDE DEF a, new
  <2>5. CopyOK(a, new)
    <3>1. a.read <= Len(expected) /\ a.at = a.read
      BY <1>2, <1>3, <1>10, <1>8, <2>1, <2>3
    <3>2. a.found <=> \E i \in 1..a.read : expected[i].user = a.user
      BY <1>11, <1>12, <2>3
    <3>3. Len(new) = a.at /\ Flushed(new, a) = Prefix(expected, a.read, a.user, a.new)
      BY <1>6, <2>3, <2>4, <3>1 DEF Flushed, pre
    <3> QED BY <2>3, <3>1, <3>2, <3>3 DEF CopyOK
  <2>6. Copies(a, new)
    BY <2>3, <2>5 DEF Copies
  <2> QED BY <1>1, <2>1, <2>3, <2>6, UpdateStep DEF me, Busy
<1>13. CASE line.user = me.user /\ FailsToWrite(p, found, edited)
  <2>1. PICK r \in ProcType, new \in Lines :
           /\ Goes(p, r) /\ disk' = [disk EXCEPT ![names.tmp] = new]
           /\ \/ found.pending # << >> /\ r = found
              \/ /\ found.pending = << >>
                 /\ \E torn \in BOOLEAN : r = [found EXCEPT !.pending = <<edited>>, !.torn = torn]
                 /\ ~r.torn => new = lines
    <3>1. found \in ProcType /\ found.out = proc[p].out /\ found.at = proc[p].at /\ edited \in ShadowLine
      BY <1>6, <1>7, <1>8 DEF me
    <3>2. FailsToWrite(p, found, edited) /\ proc[p].pc \in Busy
      BY <1>1, <1>13 DEF me
    <3>3. PICK r \in ProcType, new \in Lines : Failed(p, found, edited, r, new)
      BY <3>1, <3>2, FailedWrite
    <3> QED BY <3>3 DEF Failed, lines
  <2>2. /\ r.pc = "copy" /\ r.in = me.in /\ r.out = me.out /\ r.at = me.at /\ r.read = me.read + 1
        /\ r.user = me.user /\ r.new = me.new /\ r.found
    BY <1>7, <1>8, <1>9, <2>1 DEF ProcType
  <2>3. \/ me.pending # << >> /\ r.pending = me.pending
        \/ me.pending = << >> /\ r.pending = <<edited>> /\ (~r.torn => new = lines)
    BY <1>7, <1>8, <2>1 DEF ProcType
  <2>4. CopyOK(r, new)
    <3>1. r.read <= Len(expected)
      BY <1>2, <1>3, <2>2
    <3>2. \E i \in 1..r.read : expected[i].user = r.user
      BY <1>11, <1>13, <2>2
    <3>3. r.pending # << >> /\ r.at < r.read
      <4>1. <<edited>> # << >>
        OBVIOUS
      <4>2. r.pending # << >>
        BY <2>3, <4>1
      <4>3. me.at <= me.read
        BY <1>2, <1>3, <1>10 DEF CopyOK
      <4> QED BY <1>3, <2>2, <4>2, <4>3
    <3>4. ASSUME ~Spoilt(r)
          PROVE  Len(new) = r.at /\ Flushed(new, r) = Prefix(expected, r.read, r.user, r.new)
      <4>1. me.pending = << >>
        <5>1. SUFFICES ASSUME me.pending # << >> PROVE FALSE
          OBVIOUS
        <5>2. me.at < me.read /\ Len(r.pending) = 1
          BY <1>2, <2>3, <5>1 DEF CopyOK, ProcType
        <5> QED BY <1>3, <2>2, <3>4, <5>2 DEF Spoilt
      <4>2. new = lines /\ r.pending[1] = edited /\ ~r.torn /\ r.at = me.read
        BY <1>10, <2>2, <2>3, <3>4, <4>1 DEF Spoilt
      <4>3. Flushed(new, r) = PutLine(pre(me.read), me.read + 1, edited)
        BY <1>10, <3>3, <4>1, <4>2 DEF Flushed
      <4>4. Len(new) = r.at
        BY <1>6, <1>10, <4>1, <4>2
      <4> QED BY <1>6, <2>2, <4>3, <4>4 DEF pre
    <3> QED BY <2>2, <3>1, <3>2, <3>3, <3>4 DEF CopyOK
  <2>5. Copies(r, new)
    BY <2>2, <2>4 DEF Copies
  <2> QED BY <1>1, <2>1, <2>2, <2>5, UpdateStep DEF me, Busy
<1>14. CASE FailsToWrite(p, gives, edited)
  <2>1. PICK r \in ProcType, new \in Lines :
           /\ Goes(p, r) /\ disk' = [disk EXCEPT ![names.tmp] = new]
           /\ r = gives \/ \E torn \in BOOLEAN : r = [gives EXCEPT !.pending = <<edited>>, !.torn = torn]
    <3>1. gives \in ProcType /\ gives.out = proc[p].out /\ gives.at = proc[p].at /\ edited \in ShadowLine
      BY <1>6, <1>7, <1>8 DEF me
    <3>2. FailsToWrite(p, gives, edited) /\ proc[p].pc \in Busy
      BY <1>1, <1>14 DEF me
    <3>3. PICK r \in ProcType, new \in Lines : Failed(p, gives, edited, r, new)
      BY <3>1, <3>2, FailedWrite
    <3> QED BY <3>3 DEF Failed
  <2>2. r.pc = "giveup" /\ r.in = me.in /\ r.out = me.out
    BY <1>7, <1>8, <1>9, <2>1 DEF ProcType
  <2>3. Copies(r, new)
    BY <2>2 DEF Copies
  <2> QED BY <1>1, <2>1, <2>2, <2>3, UpdateStep DEF me, Busy
<1> QED BY <1>4, <1>9, <1>12, <1>13, <1>14

(* The whole file has been read: the copy is the new file, once what waits *)
(* in the stream is written.                                               *)
LEMMA CopyEndsStep ==
  ASSUME AccountsConstants, Good, NEW p \in Procs, CopyEnds(p), ~fault' PROVE Good'
<1> DEFINE me == proc[p]
           lines == disk[names.tmp]
           line == [user |-> me.user, hash |-> me.new]
           rec == [me EXCEPT !.pc = "close"]
           all == Replace(expected, me.user, me.new)
<1>1. /\ UNCHANGED <<names, expected, session>> /\ me.pc = "copy" /\ me.pc \in Busy
  BY DEF CopyEnds, Busy
<1>2. /\ me \in ProcType /\ expected \in Lines /\ Len(expected) \in Nat /\ lines \in Lines
      /\ me.in = names.shadow /\ me.out = names.tmp
      /\ disk[names.shadow] = expected /\ CopyOK(me, lines) /\ {"torn"} \subseteq Words
  BY <1>1, CopyFacts DEF Copies
<1>3. me.read = Len(expected) /\ me.read \in Nat /\ me.at \in Nat /\ me.user \in Words /\ me.new \in Words
  <2>1. me.read \in Nat /\ me.at \in Nat /\ me.user \in Words /\ me.new \in Words
    BY <1>2 DEF ProcType
  <2>2. ~(me.read < Len(disk[me.in]))
    BY DEF CopyEnds
  <2>3. me.read <= Len(expected) /\ disk[me.in] = expected
    BY <1>2 DEF CopyOK
  <2> QED BY <1>2, <2>1, <2>2, <2>3
<1>4. IF me.found THEN Goes(p, rec) /\ UNCHANGED disk ELSE Writes(p, rec, line) \/ FailsToWrite(p, rec, line)
  BY DEF CopyEnds
<1>5. LET pre == Prefix(expected, me.read, me.user, me.new)
      IN IF me.found THEN pre = all ELSE PutLine(pre, me.read + 1, line) = all
  <2>1. me.read \in Nat /\ me.read = Len(expected)
    BY <1>3
  <2>2. me.found <=> \E i \in 1..me.read : expected[i].user = me.user
    BY <1>2 DEF CopyOK
  <2> QED BY <1>2, <1>3, <2>1, <2>2, PrefixWhole
<1>6. /\ rec \in ProcType /\ line \in ShadowLine /\ rec.pc = "close" /\ rec.in = me.in /\ rec.out = me.out
      /\ rec.at = me.at /\ rec.read = me.read /\ rec.user = me.user /\ rec.new = me.new
      /\ rec.pending = me.pending /\ rec.torn = me.torn
  BY <1>2, <1>3 DEF ProcType, Places, Busy, ShadowLine
<1>7. me.pending = << >> => lines = Prefix(expected, me.read, me.user, me.new) /\ me.at = me.read /\ ~me.torn
  <2>1. ASSUME me.pending = << >> PROVE ~Spoilt(me)
    BY <1>2, <1>3, <2>1 DEF CopyOK, Spoilt
  <2> QED BY <1>2, <2>1 DEF CopyOK, Flushed
<1>8. ~me.found => me.pending = << >>
  BY <1>2 DEF CopyOK
<1> HIDE DEF me, lines, line, rec, all
<1>9. CASE me.found /\ Goes(p, rec) /\ UNCHANGED disk
  <2>1. ~Spoilt(rec) => Flushed(lines, rec) = all
    BY <1>2, <1>5, <1>6, <1>9 DEF CopyOK, Spoilt, Flushed
  <2>2. Copies(rec, lines)
    BY <1>6, <2>1 DEF Copies, all
  <2>3. disk' = [disk EXCEPT ![names.tmp] = lines]
    BY <1>1, <1>9, StillFiles DEF me, lines
  <2> QED BY <1>1, <1>2, <1>6, <1>9, <2>2, <2>3, UpdateStep DEF me, Busy
<1>10. CASE ~me.found /\ Writes(p, rec, line)
  <2> DEFINE a == [rec EXCEPT !.at = @ + 1]
             new == PutLine(lines, rec.at + 1, line)
  <2>1. /\ a \in ProcType /\ Goes(p, a) /\ new \in Lines
        /\ disk' = [disk EXCEPT ![names.tmp] = new]
    BY <1>1, <1>6, <1>10, GoodWrite DEF me, lines
  <2>2. /\ a.pc = "close" /\ a.in = me.in /\ a.out = me.out /\ a.pending = << >>
        /\ a.user = me.user /\ a.new = me.new
    BY <1>6, <1>8, <1>10 DEF ProcType
  <2>3. new = all
    BY <1>5, <1>6, <1>7, <1>8, <1>10
  <2> HIDE DEF a, new
  <2>4. Copies(a, new)
    BY <2>2, <2>3 DEF Copies, Flushed, all
  <2> QED BY <1>1, <2>1, <2>2, <2>4, UpdateStep DEF me, Busy
<1>11. CASE ~me.found /\ FailsToWrite(p, rec, line)
  <2>1. PICK r \in ProcType, new \in Lines :
           /\ Goes(p, r) /\ disk' = [disk EXCEPT ![names.tmp] = new]
           /\ \E torn \in BOOLEAN : r = [rec EXCEPT !.pending = <<line>>, !.torn = torn]
           /\ ~r.torn => new = lines
    <3>1. rec \in ProcType /\ rec.out = proc[p].out /\ rec.at = proc[p].at /\ rec.pending = << >>
      BY <1>6, <1>8, <1>11 DEF me
    <3>2. FailsToWrite(p, rec, line) /\ proc[p].pc \in Busy /\ line \in ShadowLine
      BY <1>1, <1>6, <1>11 DEF me
    <3>3. PICK r \in ProcType, new \in Lines : Failed(p, rec, line, r, new)
      BY <3>1, <3>2, FailedWrite
    <3> QED BY <3>1, <3>3 DEF Failed, lines
  <2>2. /\ r.pc = "close" /\ r.in = me.in /\ r.out = me.out /\ r.pending = <<line>> /\ r.at = me.at
        /\ r.user = me.user /\ r.new = me.new
    BY <1>6, <2>1 DEF ProcType
  <2>3. ASSUME ~Spoilt(r) PROVE Flushed(new, r) = all
    <3>1. ~r.torn /\ new = lines
      BY <2>1, <2>3 DEF Spoilt
    <3>2. Flushed(new, r) = PutLine(lines, me.at + 1, line)
      BY <2>2, <3>1 DEF Flushed
    <3> QED BY <1>5, <1>7, <1>8, <1>11, <3>2
  <2>4. Copies(r, new)
    BY <2>2, <2>3 DEF Copies, all
  <2> QED BY <1>1, <2>1, <2>2, <2>4, UpdateStep DEF me, Busy
<1> QED BY <1>4, <1>9, <1>10, <1>11

(* fclose leaves lines, whether it fails or not.                           *)
LEMMA FlushFacts ==
  ASSUME AccountsConstants, Good, NEW p \in Procs, proc[p].pc \in Busy
  PROVE  /\ Flushed(disk[names.tmp], proc[p]) \in Lines /\ proc[p].out = names.tmp
         /\ FailsToFlush(p) => \E new \in Lines : disk' = [disk EXCEPT ![names.tmp] = new]
<1> DEFINE me == proc[p]
           lines == disk[names.tmp]
<1>1. me \in ProcType /\ lines \in Lines /\ {"torn"} \subseteq Words /\ me.out = names.tmp
  BY CopyFacts
<1>2. me.at + 1 \in Nat \ {0} /\ me.torn \in BOOLEAN /\ (me.pending # << >> => me.pending[1] \in ShadowLine)
  BY <1>1 DEF ProcType
<1>3. TornLine \in ShadowLine
  BY <1>1 DEF TornLine, ShadowLine
<1> HIDE DEF me, lines
<1>4. \A line \in ShadowLine : PutLine(lines, me.at + 1, line) \in Lines
  BY <1>1, <1>2, PutLineFacts
<1>5. Flushed(lines, me) \in Lines
  BY <1>1, <1>2, <1>3, <1>4 DEF Flushed
<1>6. ASSUME FailsToFlush(p) PROVE \E new \in Lines : disk' = [disk EXCEPT ![names.tmp] = new]
  <2>1. CASE UNCHANGED disk
    BY <2>1, StillFiles
  <2>2. CASE disk' = [disk EXCEPT ![names.tmp] = PutLine(lines, me.at + 1, TornLine)]
    BY <1>3, <1>4, <2>2
  <2> QED BY <1>1, <1>6, <2>1, <2>2 DEF FailsToFlush, me, lines
<1> QED BY <1>1, <1>5, <1>6 DEF me, lines

(* passwd closes the files and gives up; the shadow file stays.            *)
LEMMA GiveUpStep ==
  ASSUME AccountsConstants, Good, NEW p \in Procs, GiveUp(p) PROVE Good'
<1>1. UNCHANGED <<names, expected, session>> /\ proc[p].pc \in Busy /\ Goes(p, [NoProc EXCEPT !.pc = "unlink"])
  BY DEF GiveUp, GivesUp, ghosts, Busy
<1>2. PICK new \in Lines : disk' = [disk EXCEPT ![names.tmp] = new]
  BY <1>1, FlushFacts DEF GiveUp
<1> QED BY <1>1, <1>2, NoProcFacts, UpdateStep

(* fclose writes what waits in the stream, or passwd gives up and the      *)
(* shadow file stays.                                                      *)
LEMMA CloseOutStep ==
  ASSUME AccountsConstants, Good, NEW p \in Procs, CloseOut(p) PROVE Good'
<1> DEFINE rec == [proc[p] EXCEPT !.pc = "chmod"]
           new == Flushed(disk[names.tmp], proc[p])
<1>1. UNCHANGED <<names, expected, session>> /\ proc[p].pc = "close" /\ proc[p].pc \in Busy
  BY DEF CloseOut, ghosts, Busy
<1>2. new \in Lines /\ proc[p].out = names.tmp /\ proc[p] \in ProcType /\ Copies(proc[p], disk[names.tmp])
  BY <1>1, FlushFacts, CopyFacts
<1>3. CASE disk' = [disk EXCEPT ![proc[p].out] = Flushed(@, proc[p])] /\ Goes(p, rec)
  <2>1. /\ rec \in ProcType /\ rec.pc = "chmod" /\ rec.in = proc[p].in /\ rec.out = proc[p].out
        /\ rec.user = proc[p].user /\ rec.new = proc[p].new /\ Spoilt(rec) = Spoilt(proc[p])
    BY <1>2 DEF ProcType, Places, Busy, Spoilt
  <2> HIDE DEF rec
  <2>2. Copies(rec, new)
    BY <1>1, <1>2, <2>1 DEF Copies
  <2>3. disk' = [disk EXCEPT ![names.tmp] = new]
    BY <1>2, <1>3
  <2> HIDE DEF new
  <2> QED BY <1>1, <1>2, <1>3, <2>1, <2>2, <2>3, UpdateStep DEF Busy
<1>4. CASE disk' = [disk EXCEPT ![proc[p].out] = Flushed(@, proc[p])] /\ GivesUp(p)
  <2>1. disk' = [disk EXCEPT ![names.tmp] = new]
    BY <1>2, <1>4
  <2> HIDE DEF new
  <2> QED BY <1>1, <1>2, <1>4, <2>1, NoProcFacts, UpdateStep DEF GivesUp
<1>5. CASE FailsToFlush(p) /\ GivesUp(p)
  <2>1. PICK any \in Lines : disk' = [disk EXCEPT ![names.tmp] = any]
    BY <1>1, <1>5, FlushFacts
  <2> QED BY <1>1, <1>5, <2>1, NoProcFacts, UpdateStep DEF GivesUp
<1> QED BY <1>3, <1>4, <1>5 DEF CloseOut

(* A step that touches no file: passwd gives up, or goes on.               *)
LEMMA GivesUpStep ==
  ASSUME AccountsConstants, Good, NEW p \in Procs, proc[p].pc \in Busy, GivesUp(p),
         UNCHANGED <<names, disk, expected, session>>
  PROVE  Good'
BY StillFiles, NoProcFacts, UpdateStep DEF GivesUp

(* The mode is set, or passwd gives up.                                    *)
LEMMA ChmodStep ==
  ASSUME AccountsConstants, Good, NEW p \in Procs, Chmod(p) PROVE Good'
<1> DEFINE rec == [proc[p] EXCEPT !.pc = "rename"]
<1>1. UNCHANGED <<names, disk, expected, session>> /\ proc[p].pc = "chmod" /\ proc[p].pc \in Busy
  BY DEF Chmod, ghosts, Busy
<1>2. CASE Goes(p, rec)
  <2>1. proc[p] \in ProcType /\ Copies(proc[p], disk[names.tmp])
    BY <1>1, CopyFacts
  <2>2. /\ rec \in ProcType /\ rec.pc = "rename" /\ rec.in = proc[p].in /\ rec.out = proc[p].out
        /\ rec.user = proc[p].user /\ rec.new = proc[p].new /\ Spoilt(rec) = Spoilt(proc[p])
    BY <2>1 DEF ProcType, Places, Busy, Spoilt
  <2> HIDE DEF rec
  <2>3. Copies(rec, disk[names.tmp])
    BY <1>1, <2>1, <2>2 DEF Copies
  <2>4. disk[names.tmp] \in Lines /\ disk' = [disk EXCEPT ![names.tmp] = disk[names.tmp]]
    BY <1>1, StillFiles
  <2> QED BY <1>1, <1>2, <2>2, <2>3, <2>4, UpdateStep DEF Busy
<1>3. CASE GivesUp(p)
  BY <1>1, <1>3, GivesUpStep
<1> QED BY <1>2, <1>3 DEF Chmod

(* The temporary file is removed, or stays.                                *)
LEMMA UnlinkStep ==
  ASSUME AccountsConstants, Good, NEW p \in Procs, Unlink(p) PROVE Good'
<1>1. /\ UNCHANGED <<disk, expected, session>> /\ Ends(p) /\ Updating(p)
      /\ names' = [names EXCEPT !.tmp = 0] \/ UNCHANGED names
  BY DEF Unlink, ghosts, Updating
<1> QED BY <1>1, EndStep

(* rename makes the new file the shadow file, unless it is spoilt; a login *)
(* that is asking may be answered with the new password from now on.       *)
LEMMA RenameStep ==
  ASSUME AccountsConstants, Good, NEW p \in Procs, Rename(p), ~spoiled' PROVE Good'
<1>1. /\ TypeOK /\ Whole /\ SessionOK /\ UNCHANGED disk
      /\ proc[p] \in ProcType /\ ProcOK(p) /\ proc[p].pc = "rename" /\ Updating(p) /\ proc[p].pc \in Busy
  BY DEF Rename, Good, TypeOK, Updating, Busy
<1>2. CASE GivesUp(p) /\ UNCHANGED <<names, expected, spoiled, session>>
  BY <1>1, <1>2, GivesUpStep
<1>3. CASE /\ Ends(p) /\ names' = [shadow |-> names.tmp, tmp |-> 0]
           /\ expected' = Replace(expected, proc[p].user, proc[p].new)
           /\ spoiled' = (spoiled \/ Spoilt(proc[p]))
           /\ session' = IF session.pc = "prompt" /\ session.user = proc[p].user
                         THEN [session EXCEPT !.valid = @ \cup {proc[p].new}] ELSE session
  <2>1. /\ names.tmp \in Inodes /\ names.tmp # 0
        /\ disk[names.tmp] = Replace(expected, proc[p].user, proc[p].new)
        /\ proc[p].new \in Words
    <3>1. ~Spoilt(proc[p])
      BY <1>3
    <3> QED BY <1>1, <3>1 DEF ProcOK, TypeOK, ProcType, Copies
  <2>2. disk' \in [Inodes -> Lines] /\ expected' = disk'[names.tmp] /\ expected' \in Lines
    BY <1>1, <1>3, <2>1 DEF TypeOK
  <2>3. names' \in [shadow : Inodes, tmp : Inodes \cup {0}] /\ Whole'
    BY <1>3, <2>1, <2>2 DEF Whole
  <2>4. proc' = [proc EXCEPT ![p] = NoProc] /\ proc'[p] = NoProc
    BY <1>1, <1>3 DEF Ends, Goes, TypeOK
  <2>5. ProcOK(p)'
    BY <2>4, NoProcFacts DEF ProcOK, Updating, Early, Busy, Copies
  <2>6. session' \in SessionType /\ SessionOK'
    BY <1>1, <1>3, <2>1 DEF TypeOK, SessionType, SessionOK
  <2>7. NoProc.pc \notin {"openout", "unlink"} \cup Busy
    BY NoProcFacts DEF Busy
  <2> QED BY <1>1, <2>2, <2>3, <2>4, <2>5, <2>6, <2>7, NoProcFacts, ProcStep
<1> QED BY <1>2, <1>3 DEF Rename

(* A login or su asks with the hash it has read, and compares with it.     *)
LEMMA LoginSteps ==
  ASSUME AccountsConstants, Good, Ask \/ Answer PROVE Good'
<1>1. TypeOK /\ Whole /\ SessionOK /\ UNCHANGED <<names, disk, proc, expected>>
  BY DEF Ask, Answer, Good, ghosts
<1>2. NoSession \in SessionType /\ [NoSession EXCEPT !.pc = "root"] \in SessionType
  BY DEF NoSession, SessionType, AccountsConstants
<1>3. session' \in SessionType /\ SessionOK'
  <2>1. CASE Ask
    <3>1. PICK i \in DOMAIN Passwd, prog \in {"login", "su"}, uid \in {0, 1} :
            LET user == Passwd[i].name
                sp == getspnam(user)
            IN session' =
                 IF getpwnam(user) = << >> THEN NoSession
                 ELSE IF prog = "su" /\ uid = 0 THEN [NoSession EXCEPT !.pc = "root"]
                 ELSE IF sp = << >> THEN NoSession
                 ELSE IF prog = "su" /\ sp[1].hash = "empty" THEN NoSession
                 ELSE [NoSession EXCEPT !.pc = "prompt", !.user = user, !.hash = sp[1].hash,
                                        !.valid = Right(user)]
      BY <2>1 DEF Ask
    <3> DEFINE user == Passwd[i].name
               sp == getspnam(user)
               asks == [NoSession EXCEPT !.pc = "prompt", !.user = user, !.hash = sp[1].hash,
                                         !.valid = Right(user)]
    <3>2. \/ session' \in {NoSession, [NoSession EXCEPT !.pc = "root"]}
          \/ session' = asks /\ sp # << >>
      BY <3>1
    <3>3. user \in Words
      <4> DEFINE T == [name : Words, uid : Nat, gid : Nat, fields : Nat]
      <4>1. Passwd \in Seq(T)
        BY DEF AccountsConstants
      <4>2. Passwd[i] \in T
        <5> HIDE DEF T
        <5> QED BY <4>1, ElementOfSeq, LenProperties
      <4> QED BY <4>2
    <3> HIDE DEF user
    <3>4. ASSUME sp # << >> PROVE sp[1].hash \in Words /\ sp[1].hash \in Right(user)
      <4>1. PICK k \in DOMAIN expected :
              expected[k].user = user /\ sp = <<expected[k]>> /\ expected[k] \in ShadowLine
        BY <1>1, <3>4, FoundInShadow DEF Whole
      <4>2. sp[1] = expected[k]
        BY <4>1
      <4> QED BY <4>1, <4>2 DEF Right, ShadowLine
    <3>5. Right(user) \in SUBSET Words
      <4>1. \A k \in DOMAIN expected : expected[k] \in ShadowLine
        BY <1>1, ElementOfSeq, LenProperties DEF TypeOK, Lines
      <4> QED BY <4>1 DEF Right, ShadowLine
    <3> HIDE DEF sp
    <3>6. sp # << >> => /\ asks \in SessionType /\ asks.pc = "prompt"
                        /\ asks.hash = sp[1].hash /\ asks.valid = Right(user)
      BY <1>2, <3>3, <3>4, <3>5 DEF NoSession, SessionType
    <3> HIDE DEF asks
    <3>7. NoSession.pc = "none" /\ [NoSession EXCEPT !.pc = "root"].pc = "root"
      BY DEF NoSession
    <3> QED BY <1>2, <3>2, <3>4, <3>6, <3>7 DEF SessionOK
  <2>2. CASE Answer
    <3>1. CASE session' = NoSession
      BY <1>2, <3>1 DEF NoSession, SessionOK
    <3>2. ASSUME NEW typed \in Passwords, pw_verify(typed, session.hash), session.pc = "prompt",
                 session' = [session EXCEPT !.pc = "in", !.typed = typed, !.hash = "empty", !.user = "empty"]
          PROVE  session' \in SessionType /\ SessionOK'
      BY <1>1, <3>2 DEF AccountsConstants, TypeOK, SessionType, SessionOK, pw_verify
    <3> QED BY <2>2, <3>1, <3>2 DEF Answer
  <2> QED BY <2>1, <2>2
<1> QED BY <1>1, <1>3 DEF Good, TypeOK, Whole, OneUpdate, ProcOK, Updating, Copies, CopyOK

-----------------------------------------------------------------------------
(* getgrouplist *)

(* A list of distinct elements is as long as the set of them.              *)
LEMMA DistinctCount ==
  ASSUME NEW S, NEW s \in Seq(S), \A j, k \in DOMAIN s : s[j] = s[k] => j = k
  PROVE  Cardinality({s[k] : k \in DOMAIN s}) = Len(s)
<1> DEFINE R == {s[k] : k \in DOMAIN s}
<1>1. Len(s) \in Nat /\ DOMAIN s = 1..Len(s)
  BY LenProperties
<1>2. s \in Bijection(1..Len(s), R)
  BY <1>1 DEF Bijection, Injection, Surjection, IsInjective
<1>3. ExistsBijection(1..Len(s), R)
  <2> HIDE DEF R
  <2> QED BY <1>2 DEF ExistsBijection
<1> HIDE DEF R
<1>4. Cardinality(R) = Len(s)
  BY <1>1, <1>3, FS_CountingElements
<1> QED BY <1>4 DEF R

GroupList == [n : Nat, groups : Seq(Nat)]
GroupLine == [gid : Nat, members : SUBSET Words]

(* a lists the groups of S, or S has too many.                             *)
ListOf(a, S, max) ==
  /\ a \in GroupList /\ IsFiniteSet(S)
  /\ \/ /\ a.n <= max /\ Len(a.groups) = a.n /\ {a.groups[k] : k \in DOMAIN a.groups} = S
        /\ \A j, k \in DOMAIN a.groups : a.groups[j] = a.groups[k] => j = k
     \/ a.n > max /\ max < Cardinality(S)

(* A line of /etc/group is taken into account.                             *)
LEMMA AddGroupExact ==
  ASSUME NEW user, NEW max \in Nat, NEW S, NEW a, NEW g \in GroupLine, ListOf(a, S, max)
  PROVE  ListOf(AddGroup(a, g, user, max), IF user \in g.members THEN S \cup {g.gid} ELSE S, max)
<1> DEFINE T == S \cup {g.gid}
           b == [n |-> a.n + 1, groups |-> IF a.n < max THEN Append(a.groups, g.gid) ELSE a.groups]
<1>1. a.n \in Nat /\ a.groups \in Seq(Nat) /\ g.gid \in Nat /\ a \in GroupList /\ IsFiniteSet(S)
  BY DEF ListOf, GroupList, GroupLine
<1>2. Len(a.groups) \in Nat /\ DOMAIN a.groups = 1..Len(a.groups)
  BY <1>1, LenProperties
<1>3. IsFiniteSet(T) /\ Cardinality(T) = IF g.gid \in S THEN Cardinality(S) ELSE Cardinality(S) + 1
  BY <1>1, FS_AddElement
<1>4. Cardinality(S) \in Nat
  BY <1>1, FS_CardinalityType
<1>5. CASE user \notin g.members
  BY <1>5 DEF AddGroup
<1>6. CASE user \in g.members /\ \E k \in DOMAIN a.groups : a.groups[k] = g.gid
  <2>1. AddGroup(a, g, user, max) = a
    BY <1>6 DEF AddGroup
  <2>2. CASE a.n <= max
    <3>1. T = S
      BY <1>6, <2>2, <1>1 DEF ListOf
    <3> QED BY <1>6, <2>1, <3>1
  <2>3. CASE a.n > max
    <3>1. max < Cardinality(T)
      BY <1>1, <1>3, <1>4, <2>3 DEF ListOf
    <3> QED BY <1>1, <1>3, <1>6, <2>1, <2>3, <3>1 DEF ListOf
  <2> QED BY <1>1, <2>2, <2>3
<1>7. CASE user \in g.members /\ ~\E k \in DOMAIN a.groups : a.groups[k] = g.gid
  <2>1. AddGroup(a, g, user, max) = b
    BY <1>7 DEF AddGroup
  <2>2. b.n = a.n + 1 /\ b.n \in Nat
    BY <1>1
  <2>3. CASE a.n < max
    <3> DEFINE s == Append(a.groups, g.gid)
    <3>1. /\ s \in Seq(Nat) /\ Len(s) = Len(a.groups) + 1 /\ DOMAIN s = 1..Len(s) /\ s[Len(s)] = g.gid
          /\ \A k \in DOMAIN a.groups : s[k] = a.groups[k]
      BY <1>1, <1>2, AppendProperties, LenProperties
    <3>2. b.groups = s
      BY <2>3
    <3> HIDE DEF s
    <3>3. b \in GroupList
      <4>1. b = [n |-> a.n + 1, groups |-> s]
        BY <2>3 DEF s
      <4> HIDE DEF b
      <4> QED BY <1>1, <3>1, <4>1 DEF GroupList
    <3> HIDE DEF b
    <3>4. /\ Len(a.groups) = a.n /\ {a.groups[k] : k \in DOMAIN a.groups} = S
          /\ \A j, k \in DOMAIN a.groups : a.groups[j] = a.groups[k] => j = k
      BY <1>1, <2>3 DEF ListOf
    <3>5. \A k \in DOMAIN s : (k \in DOMAIN a.groups /\ s[k] = a.groups[k]) \/ (k = Len(s) /\ s[k] = g.gid)
      BY <1>2, <3>1
    <3>6. {s[k] : k \in DOMAIN s} = T
      <4>1. ASSUME NEW k \in DOMAIN s PROVE s[k] \in T
        BY <3>4, <3>5
      <4>2. ASSUME NEW x \in T PROVE \E k \in DOMAIN s : s[k] = x
        <5>1. CASE x = g.gid
          BY <1>2, <3>1, <5>1
        <5>2. CASE x \in S
          <6>1. PICK k \in DOMAIN a.groups : a.groups[k] = x
            BY <3>4, <5>2
          <6>2. k \in DOMAIN s
            BY <1>2, <3>1
          <6> QED BY <3>1, <6>1, <6>2
        <5> QED BY <5>1, <5>2
      <4> QED BY <4>1, <4>2
    <3>7. \A j, k \in DOMAIN s : s[j] = s[k] => j = k
      BY <1>7, <3>4, <3>5
    <3>8. b.n <= max /\ Len(b.groups) = b.n
      BY <1>1, <2>2, <2>3, <3>1, <3>2, <3>4
    <3>9. ListOf(b, T, max)
      <4> HIDE DEF T
      <4> QED BY <1>3, <3>2, <3>3, <3>6, <3>7, <3>8 DEF ListOf
    <3> QED BY <1>7, <2>1, <3>9
  <2>4. CASE ~(a.n < max)
    <3>1. b = [n |-> a.n + 1, groups |-> a.groups]
      BY <2>4
    <3>2. b \in GroupList
      BY <1>1, <3>1 DEF GroupList
    <3> HIDE DEF b
    <3>3. b.n > max
      BY <1>1, <2>2, <2>4
    <3>4. max < Cardinality(T)
      <4>1. CASE a.n = max
        <5>1. Cardinality(S) = max /\ g.gid \notin S
          BY <1>1, <1>7, <4>1, DistinctCount DEF ListOf
        <5> QED BY <1>3, <1>4, <5>1
      <4>2. CASE a.n > max
        BY <1>1, <1>3, <1>4, <4>2 DEF ListOf
      <4> QED BY <1>1, <2>4, <4>1, <4>2
    <3> QED BY <1>3, <1>7, <2>1, <3>2, <3>3, <3>4 DEF ListOf
  <2> QED BY <2>3, <2>4
<1> QED BY <1>5, <1>6, <1>7

(* getgrouplist is exact for every user, every /etc/group and a list of    *)
(* any size.                                                               *)
LEMMA GroupListExact ==
  ASSUME AccountsConstants, NEW user, NEW gid \in Nat, NEW max \in Nat
  PROVE  ListExact(user, gid, max)
<1> DEFINE n == Len(Group)
           first == [n |-> 1, groups |-> IF 0 < max THEN <<gid>> ELSE << >>]
           loop(g) == [i \in 0..n |-> IF i = 0 THEN first ELSE AddGroup(g[i - 1], Group[i], user, max)]
           run == CHOOSE g : g = loop(g)
           S(i) == {gid} \cup {Group[g].gid : g \in {h \in 1..i : user \in Group[h].members}}
<1>1. n \in Nat /\ DOMAIN Group = 1..n /\ \A i \in 1..n : Group[i] \in GroupLine
  <2>1. Group \in Seq(GroupLine)
    BY DEF AccountsConstants, GroupLine
  <2> QED BY <2>1, ElementOfSeq, LenProperties
<1>2. ListOf(first, S(0), max) /\ first \in GroupList
  <2>1. S(0) = {gid}
    OBVIOUS
  <2>2. IsFiniteSet({gid}) /\ Cardinality({gid}) = 1
    BY FS_Singleton
  <2>3. CASE max = 0
    <3>1. first = [n |-> 1, groups |-> << >>]
      BY <2>3
    <3>2. first.n = 1 /\ first \in GroupList
      BY <3>1 DEF GroupList
    <3> HIDE DEF first, S
    <3> QED BY <2>1, <2>2, <2>3, <3>2 DEF ListOf
  <2>4. CASE max # 0
    <3>1. first = [n |-> 1, groups |-> <<gid>>]
      BY <2>4
    <3>2. {<<gid>>[k] : k \in DOMAIN <<gid>>} = {gid}
      OBVIOUS
    <3>3. \A j, k \in DOMAIN <<gid>> : j = k
      OBVIOUS
    <3>4. <<gid>> \in Seq(Nat) /\ Len(<<gid>>) = 1
      OBVIOUS
    <3> HIDE DEF first, S
    <3> QED BY <2>1, <2>2, <2>4, <3>1, <3>2, <3>3, <3>4 DEF ListOf, GroupList
  <2> QED BY <2>3, <2>4
<1> HIDE DEF n, first
<1>3. \A i \in 1..n, a \in GroupList : AddGroup(a, Group[i], user, max) \in GroupList
  <2> SUFFICES ASSUME NEW i \in 1..n, NEW a \in GroupList PROVE AddGroup(a, Group[i], user, max) \in GroupList
    OBVIOUS
  <2>1. a.n \in Nat /\ a.groups \in Seq(Nat) /\ Group[i].gid \in Nat
    BY <1>1 DEF GroupList, GroupLine
  <2>2. Append(a.groups, Group[i].gid) \in Seq(Nat)
    BY <2>1, AppendProperties
  <2> DEFINE s == IF a.n < max THEN Append(a.groups, Group[i].gid) ELSE a.groups
  <2>3. s \in Seq(Nat)
    BY <2>1, <2>2
  <2>4. AddGroup(a, Group[i], user, max) \in {a, [n |-> a.n + 1, groups |-> s]}
    BY DEF AddGroup
  <2> HIDE DEF s
  <2> QED BY <2>1, <2>3, <2>4 DEF GroupList
<1>4. PICK g \in [0..n -> GroupList] :
        g[0] = first /\ \A i \in 1..n : g[i] = AddGroup(g[i - 1], Group[i], user, max)
  <2> DEFINE h == [i \in 1..n |-> [a \in GroupList |-> AddGroup(a, Group[i], user, max)]]
  <2>1. h \in [1..n -> [GroupList -> GroupList]]
    BY <1>3
  <2>2. PICK g \in [0..n -> GroupList] : g[0] = first /\ \A i \in 1..n : g[i] = h[i][g[i - 1]]
    <3> HIDE DEF h
    <3> QED BY <1>1, <1>2, <2>1, Recursion
  <2>3. ASSUME NEW i \in 1..n PROVE g[i] = AddGroup(g[i - 1], Group[i], user, max)
    <3>1. g[i - 1] \in GroupList
      BY <1>1
    <3> QED BY <2>2, <3>1
  <2> QED BY <2>2, <2>3
<1>5. run = loop(run)
  <2>1. g = loop(g)
    BY <1>1, <1>4
  <2> HIDE DEF loop
  <2> QED BY <2>1
<1> HIDE DEF run
<1>6. \A i \in 0..n : ListOf(run[i], S(i), max)
  <2> DEFINE P == {i \in Nat : i <= n => ListOf(run[i], S(i), max)}
  <2>1. 0 \in P
    <3>1. run[0] = first
      BY <1>1, <1>5
    <3> HIDE DEF S
    <3> QED BY <1>2, <3>1
  <2>2. ASSUME NEW k \in P, k + 1 <= n PROVE ListOf(run[k + 1], S(k + 1), max)
    <3>1. k \in Nat /\ k + 1 \in 1..n /\ k + 1 \in 0..n /\ ListOf(run[k], S(k), max)
      <4> HIDE DEF S
      <4> QED BY <1>1, <2>2
    <3>2. run[k + 1] = AddGroup(run[k], Group[k + 1], user, max)
      <4>1. k + 1 # 0 /\ (k + 1) - 1 = k
        BY <3>1
      <4>2. loop(run)[k + 1] = AddGroup(run[(k + 1) - 1], Group[k + 1], user, max)
        BY <3>1, <4>1
      <4> HIDE DEF loop
      <4> QED BY <1>5, <4>1, <4>2
    <3>3. S(k + 1) = IF user \in Group[k + 1].members THEN S(k) \cup {Group[k + 1].gid} ELSE S(k)
      <4>1. \A h : h \in 1..(k + 1) <=> h \in 1..k \/ h = k + 1
        BY <3>1
      <4> QED BY <4>1
    <3> HIDE DEF S
    <3>4. Group[k + 1] \in GroupLine
      BY <1>1, <3>1
    <3>5. ListOf(AddGroup(run[k], Group[k + 1], user, max),
                 IF user \in Group[k + 1].members THEN S(k) \cup {Group[k + 1].gid} ELSE S(k), max)
      BY <3>1, <3>4, AddGroupExact
    <3> QED BY <3>2, <3>3, <3>5
  <2>3. P = Nat
    <3> HIDE DEF S
    <3>1. P \in SUBSET Nat /\ \A k \in P : k + 1 \in P
      BY <2>2
    <3> HIDE DEF P
    <3> QED BY <2>1, <3>1, Induction
  <2> HIDE DEF S
  <2> QED BY <1>1, <2>3
<1>7. getgrouplist(user, gid, max) = run[n]
  BY DEF getgrouplist, n, first, run
<1>8. S(n) = GroupsOf(user, gid)
  BY <1>1 DEF GroupsOf
<1>9. ListOf(run[n], S(n), max)
  <2> HIDE DEF S
  <2> QED BY <1>1, <1>6
<1> HIDE DEF S
<1>10. ListOf(getgrouplist(user, gid, max), GroupsOf(user, gid), max)
  BY <1>7, <1>8, <1>9
<1> QED BY <1>10 DEF ListOf, ListExact, GroupList

-----------------------------------------------------------------------------
(* Every step keeps the invariant.                                         *)
LEMMA NextIInv == AccountsConstants /\ IInv /\ [Next]_vars => IInv'
<1> SUFFICES ASSUME AccountsConstants, IInv, [Next]_vars, ~overlap', ~fault', ~spoiled' PROVE Good'
  BY DEF IInv, Undamaged
<1>1. CASE UNCHANGED vars
  BY <1>1 DEF vars, IInv, Undamaged, Good, TypeOK, Whole, OneUpdate, ProcOK, SessionOK, Updating, Copies, CopyOK
<1>2. CASE Next
  <2>1. (overlap => overlap') /\ (fault => fault') /\ (spoiled => spoiled')
    <3>1. CASE Ask \/ Answer
      <4>1. UNCHANGED ghosts
        BY <3>1, Zenon DEF Ask, Answer
      <4> QED BY <4>1 DEF ghosts
    <3>2. ASSUME NEW p \in Procs, Begin(p) \/ PasswdStep(p) \/ Killed(p)
          PROVE  (overlap => overlap') /\ (fault => fault') /\ (spoiled => spoiled')
      <4>1. CASE OpenIn(p)
        BY <4>1, Zenon DEF OpenIn
      <4>2. CASE CopyEnds(p)
        BY <4>2, Zenon DEF CopyEnds
      <4>3. CASE Rename(p)
        <5>1. overlap' = overlap /\ fault' = fault
          BY <4>3 DEF Rename
        <5>2. spoiled => spoiled'
          BY <4>3, Zenon DEF Rename
        <5> QED BY <5>1, <5>2
      <4>4. CASE Begin(p) \/ Killed(p) \/ OldPassword(p) \/ NewPassword(p) \/ OpenOut(p)
                 \/ CopyLine(p) \/ GiveUp(p) \/ CloseOut(p) \/ Chmod(p) \/ Unlink(p)
        <5>1. UNCHANGED ghosts
          BY <4>4 DEF Begin, Killed, OldPassword, NewPassword, OpenOut, CopyLine, GiveUp, CloseOut, Chmod, Unlink
        <5> QED BY <5>1 DEF ghosts
      <4> QED BY <3>2, <4>1, <4>2, <4>3, <4>4 DEF PasswdStep
    <3> QED BY <1>2, <3>1, <3>2 DEF Next
  <2>2. Good
    BY <2>1 DEF IInv, Undamaged
  <2>3. CASE Ask \/ Answer
    BY <2>2, <2>3, LoginSteps
  <2>4. ASSUME NEW p \in Procs, Begin(p) \/ PasswdStep(p) \/ Killed(p) PROVE Good'
    BY <2>2, <2>4, BeginStep, PromptSteps, OpenInStep, OpenOutStep, CopyLineStep, CopyEndsStep, GiveUpStep,
       CloseOutStep, ChmodStep, RenameStep, UnlinkStep DEF PasswdStep
  <2> QED BY <1>2, <2>3, <2>4 DEF Next
<1> QED BY <1>1, <1>2

(* The invariant says that the shadow file is whole.                       *)
LEMMA InvariantWhole == AccountsConstants /\ IInv => ShadowWhole
BY SomeInodes DEF IInv, Undamaged, Good, TypeOK, Whole, SessionOK, ShadowWhole

(* The list of groups is exact for every user in /etc/passwd.              *)
LEMMA GroupsAreExact == AccountsConstants => GroupsExact
<1> SUFFICES ASSUME AccountsConstants PROVE GroupsExact
  OBVIOUS
<1>1. ASSUME NEW i \in DOMAIN Passwd, NEW max \in 0 .. 3
      PROVE  ListExact(Passwd[i].name, Passwd[i].gid, max)
  <2> DEFINE T == [name : Words, uid : Nat, gid : Nat, fields : Nat]
  <2>1. Passwd \in Seq(T)
    BY DEF AccountsConstants
  <2>2. Passwd[i] \in T
    <3> HIDE DEF T
    <3> QED BY <2>1, ElementOfSeq, LenProperties
  <2>3. Passwd[i].gid \in Nat /\ max \in Nat
    BY <2>2
  <2> QED BY <2>3, GroupListExact
<1> QED BY <1>1 DEF GroupsExact

(* Whatever the account files hold, however many processes there are, and  *)
(* wherever calls fail or a process is killed: an update of the shadow     *)
(* file (update_shadow of passwd.c) changes one password or nothing, and a *)
(* login is let in only with a password that was right (login.c, su.c),    *)
(* until two updates run at once, a read of the old file fails, or a file  *)
(* that a failed fprintf has torn is put in place; and getgrouplist is     *)
(* exact.                                                                  *)
THEOREM AccountsAreSound == AccountsConstants => (Spec => []AccountsSound)
<1> SUFFICES ASSUME AccountsConstants PROVE Spec => []AccountsSound
  OBVIOUS
<1>1. Init => IInv
  BY InitGood DEF IInv
<1>2. IInv /\ [Next]_vars => IInv'
  BY NextIInv
<1>3. IInv => AccountsSound
  BY InvariantWhole, GroupsAreExact DEF AccountsSound
<1> QED BY <1>1, <1>2, <1>3, PTL DEF Spec
=============================================================================
