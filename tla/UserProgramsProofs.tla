------------------------- MODULE UserProgramsProofs -------------------------
(***************************************************************************)
(* The programs of UserPrograms keep what the proofs about their modules   *)
(* show of them alone: a program that is not the one that was started is   *)
(* at rest, can take no step and satisfies its property as it is.          *)
(*                                                                         *)
(* HP and AP are the modules that those proofs extend, with the same       *)
(* parameters and variables as H and A, so that their definitions are      *)
(* the same; the lemmas that say so expand both.                           *)
(***************************************************************************)
EXTENDS UserPrograms, NatFacts, SequenceTheorems, TLAPS

HP == INSTANCE HarnessProofs
AP == INSTANCE AccountsProofs

(* A step of the programs is a step of each of them, or leaves it alone.   *)
LEMMA OneAtATime ==
  ASSUME [Next]_vars
  PROVE  /\ [H!Next]_hvars /\ [X!Next]_xvars /\ [I!Next]_ivars /\ [A!Next]_avars
         /\ [R!Next]_rvars /\ [W!Next]_wvars /\ [D!Next]_dvars
BY Zenon DEF Next, vars

-----------------------------------------------------------------------------
(* brktest *)

(* H and HP have the same initial states, steps and property.              *)
LEMMA SameHarness ==
  /\ H!HarnessConstants = HP!HarnessConstants
  /\ H!Init = HP!Init /\ H!Next = HP!Next
  /\ H!HarnessSound = HP!HarnessSound
<1>1. H!HarnessConstants = HP!HarnessConstants
  BY DEF H!HarnessConstants, HP!HarnessConstants, H!CaseType, HP!CaseType
<1>2. H!Init = HP!Init
  BY DEF
     H!Init, HP!Init, H!Plan, HP!Plan, H!run_group, HP!run_group, H!suite_is_stress,
     HP!suite_is_stress, H!NoSuchCase, HP!NoSuchCase
<1>3. H!Next = HP!Next
  BY DEF
     H!Case, HP!Case, H!InUnit, HP!InUnit, H!Advance, HP!Advance, H!Report, HP!Report,
     H!NoChild, HP!NoChild, H!SkipReason, HP!SkipReason, H!SkipCase, HP!SkipCase,
     H!RunInProcess, HP!RunInProcess, H!Fork, HP!Fork, H!ForkFails, HP!ForkFails, H!Poll,
     HP!Poll, H!Kill, HP!Kill, H!Check, HP!Check, H!Reap, HP!Reap, H!Verdict, HP!Verdict,
     H!ReportCase, HP!ReportCase, H!EndUnit, HP!EndUnit, H!Finish, HP!Finish,
     H!HarnessStep, HP!HarnessStep, H!ChildStarts, HP!ChildStarts, H!ChildEnds,
     HP!ChildEnds, H!KidStarts, HP!KidStarts, H!KidEnds, HP!KidEnds, H!TimePasses,
     HP!TimePasses, H!Environment, HP!Environment, H!Next, HP!Next, H!process, HP!process,
     H!Answers, HP!Answers, H!harness, HP!harness
<1>4. H!HarnessSound = HP!HarnessSound
  BY DEF
     H!HarnessSound, HP!HarnessSound, H!EveryCaseCounted, HP!EveryCaseCounted,
     H!VerdictsTrue, HP!VerdictsTrue, H!TimeoutKillsAll, HP!TimeoutKillsAll, H!AllCases,
     HP!AllCases, H!Before, HP!Before, H!Logged, HP!Logged
<1> QED BY <1>1, <1>2, <1>3, <1>4

(* brktest at rest takes no step.                                          *)
LEMMA HarnessStays == HarnessRests /\ [H!Next]_hvars => HarnessRests'
<1> SUFFICES ASSUME HarnessRests, H!Next PROVE FALSE
  BY DEF HarnessRests, hvars
<1>1. pc = "done" /\ child = "none"
  BY DEF HarnessRests
<1> QED BY <1>1 DEF H!Next, H!HarnessStep, H!Environment, H!SkipCase, H!RunInProcess, H!Fork,
          H!ForkFails, H!Poll, H!Check, H!Reap, H!ReportCase, H!EndUnit, H!Finish,
          H!ChildStarts, H!ChildEnds, H!KidStarts, H!KidEnds, H!TimePasses

(* ... and has nothing to report.                                          *)
LEMMA HarnessAtRest == HarnessRests => HarnessSound
<1> SUFFICES ASSUME HarnessRests PROVE HarnessSound
  OBVIOUS
<1>1. DOMAIN log = {} /\ DOMAIN plan = {}
  BY DEF HarnessRests
<1>2. H!AllCases = {} /\ H!Logged = {}
  BY <1>1 DEF H!AllCases, H!Logged
<1> QED BY <1>1, <1>2
    DEF HarnessSound, H!HarnessSound, H!EveryCaseCounted, H!VerdictsTrue, H!TimeoutKillsAll

(* brktest's report and exit status are true of its cases (harness.c,      *)
(* main.c), whatever the suites, the targets and the options are, and      *)
(* whatever the cases do.                                                  *)
THEOREM ProgramsHarnessSound == Spec => []HarnessSound
<1> DEFINE Inv == HP!IInv \/ HarnessRests
<1>1. Init => Inv
  BY ProgramsAssumption, SameHarness, HP!InitIInv DEF Init
<1>2. Inv /\ [Next]_vars => Inv'
  <2>1. HP!IInv /\ [H!Next]_hvars => HP!IInv'
    BY SameHarness, HP!NextIInv DEF HP!vars, hvars
  <2> QED BY <2>1, OneAtATime, HarnessStays
<1>3. Inv => HarnessSound
  BY HP!InvariantSound, SameHarness, HarnessAtRest DEF HarnessSound
<1> QED BY <1>1, <1>2, <1>3, PTL DEF Spec

-----------------------------------------------------------------------------
(* passwd, login and su *)

(* A and AP have the same initial states, steps and property.              *)
LEMMA SameAccounts ==
  /\ A!AccountsConstants = AP!AccountsConstants
  /\ A!Init = AP!Init /\ A!Next = AP!Next
  /\ A!ShadowWhole = AP!ShadowWhole /\ A!GroupsExact = AP!GroupsExact
<1>1. A!AccountsConstants = AP!AccountsConstants
  BY DEF A!AccountsConstants, AP!AccountsConstants, A!ShadowLine, AP!ShadowLine,
         A!IsFiniteSet, AP!IsFiniteSet
<1>2. A!Init = AP!Init
  BY DEF
     A!Init, AP!Init, A!Inodes, AP!Inodes, A!NoProc, AP!NoProc, A!NoSession, AP!NoSession,
     A!Cardinality, AP!Cardinality
<1>3. A!Next = AP!Next
  BY DEF
     A!First, AP!First, A!lookup, AP!lookup, A!getpwnam, AP!getpwnam, A!getpwuid,
     AP!getpwuid, A!getspnam, AP!getspnam, A!pw_verify, AP!pw_verify, A!Goes, AP!Goes,
     A!Ends, AP!Ends, A!GivesUp, AP!GivesUp, A!Updating, AP!Updating, A!Begin, AP!Begin, A!OldPassword,
     AP!OldPassword, A!NewPassword, AP!NewPassword, A!OpenIn, AP!OpenIn, A!Held, AP!Held,
     A!Fresh, AP!Fresh, A!OpenOut, AP!OpenOut, A!Replace, AP!Replace,
     A!TornLine, AP!TornLine, A!PutLine, AP!PutLine, A!Writes, AP!Writes, A!FailsToWrite,
     AP!FailsToWrite, A!Flushed, AP!Flushed, A!FailsToFlush, AP!FailsToFlush, A!Spoilt,
     AP!Spoilt, A!CopyLine, AP!CopyLine, A!CopyEnds, AP!CopyEnds, A!GiveUp, AP!GiveUp,
     A!CloseOut, AP!CloseOut, A!Chmod, AP!Chmod, A!Rename, AP!Rename, A!Unlink, AP!Unlink,
     A!Undamaged, AP!Undamaged,
     A!Killed, AP!Killed, A!Right, AP!Right, A!Ask, AP!Ask, A!Answer, AP!Answer,
     A!PasswdStep, AP!PasswdStep, A!Next, AP!Next, A!ghosts, AP!ghosts, A!Inodes,
     AP!Inodes, A!NoProc, AP!NoProc, A!NoSession, AP!NoSession, A!Cardinality,
     AP!Cardinality
<1>4. A!ShadowWhole = AP!ShadowWhole
  BY DEF A!ShadowWhole, AP!ShadowWhole, A!Undamaged, AP!Undamaged
<1>5. A!GroupsExact = AP!GroupsExact
  BY DEF
     A!GroupsExact, AP!GroupsExact, A!ListExact, AP!ListExact, A!getgrouplist,
     AP!getgrouplist, A!AddGroup, AP!AddGroup, A!GroupsOf, AP!GroupsOf, A!Cardinality,
     AP!Cardinality
<1> QED BY <1>1, <1>2, <1>3, <1>4, <1>5

(* passwd, login and su at rest take no step.                              *)
LEMMA AccountsStay == AccountsRest /\ [A!Next]_avars => AccountsRest'
<1> SUFFICES ASSUME AccountsRest, A!Next PROVE FALSE
  BY DEF AccountsRest, avars
<1>1. session.pc = "root" /\ begun = MaxBegun /\ \A p \in Procs : proc[p].pc = "idle"
  BY DEF AccountsRest, A!NoProc, A!NoSession
<1>2. ~(begun < MaxBegun)
  BY <1>1, ProgramsAssumption DEF A!AccountsConstants
<1> QED BY <1>1, <1>2 DEF A!Next, A!Ask, A!Answer, A!Begin, A!Killed, A!PasswdStep, A!OldPassword,
          A!NewPassword, A!OpenIn, A!OpenOut, A!CopyLine, A!CopyEnds, A!GiveUp, A!CloseOut, A!Chmod,
          A!Rename, A!Unlink

(* ... and the shadow file is as it was.                                   *)
LEMMA AccountsAtRest == AccountsRest => A!ShadowWhole
<1> SUFFICES ASSUME AccountsRest PROVE A!ShadowWhole
  OBVIOUS
<1>1. session.pc = "root"
  BY DEF AccountsRest, A!NoSession
<1> QED BY <1>1 DEF AccountsRest, A!ShadowWhole

(* The shadow file stays whole under passwd, login lets in whom it should, *)
(* and getgrouplist is exact (passwd.c, login.c, su.c, libbrkc/pwd),       *)
(* whatever the account files hold and wherever calls fail, until two      *)
(* updates run at once, a read of the old file fails, or a file that a     *)
(* failed fprintf has torn is put in place.                                *)
THEOREM ProgramsAccountsSound == Spec => []AccountsSound
<1> DEFINE Inv == AP!IInv \/ AccountsRest
<1>1. Init => Inv
  BY ProgramsAssumption, SameAccounts, AP!InitGood DEF Init, AP!IInv
<1>2. Inv /\ [Next]_vars => Inv'
  <2>1. AP!IInv /\ [A!Next]_avars => AP!IInv'
    BY ProgramsAssumption, SameAccounts, AP!NextIInv DEF AP!vars, avars
  <2> QED BY <2>1, OneAtATime, AccountsStay
<1>3. Inv => AccountsSound
  <2>1. A!GroupsExact
    BY ProgramsAssumption, SameAccounts, AP!GroupsAreExact
  <2>2. AP!IInv => A!ShadowWhole
    BY ProgramsAssumption, SameAccounts, AP!InvariantWhole
  <2> QED BY <2>1, <2>2, AccountsAtRest DEF AccountsSound, A!AccountsSound
<1> QED BY <1>1, <1>2, <1>3, PTL DEF Spec

-----------------------------------------------------------------------------
(* nc *)

Relaying == {"poll", "stdin", "write", "socket"}
Opening == {"start", "accept"}

SideType ==
  [pc : Relaying \cup Opening \cup {"send", "recvfrom", "wait", "done", "failed"},
   left : Nat, stdin_open : BOOLEAN, chunk : Nat, revents : BOOLEAN, got : Nat, q : Nat,
   fin : BOOLEAN, reset : BOOLEAN]

RelayType ==
  /\ udp \in BOOLEAN /\ broken \in BOOLEAN
  /\ side \in [R!Sides -> SideType]
  /\ stdin \in [R!Sides -> Nat] /\ flight \in [R!Sides -> Nat]

(* What is between the standard input of one side, len bytes long, and the *)
(* standard output of its peer.                                            *)
Flow(me, peer, len) ==
  /\ me.left <= len
  /\ peer.got + peer.q + me.chunk <= len - me.left
  /\ peer.reset \/ peer.got + peer.q + me.chunk = len - me.left
  /\ me.pc \notin {"write", "done", "failed"} => me.chunk = 0
  /\ ~me.stdin_open => me.left = 0 /\ me.chunk = 0 /\ me.pc \notin {"stdin", "write"}
  /\ me.pc \in {"stdin", "write", "socket"} /\ me.revents /\ me.q = 0 => me.fin \/ me.reset
  /\ me.fin /\ peer.pc \in Relaying => ~peer.stdin_open
  /\ me.reset => peer.pc \in {"done", "failed"}
  /\ me.pc \in Opening => ~me.fin /\ peer.pc \in Opening \cup {"failed"}
  /\ me.pc \in Relaying \cup Opening \cup {"done", "failed"}

Unbroken(me, peer, mine, theirs) ==
  /\ me.pc # "failed"
  /\ me.pc \in Opening <=> peer.pc \in Opening
  /\ me.pc = "done" /\ peer.pc \in Relaying =>
       ~peer.stdin_open /\ me.got = theirs /\ me.q = 0 /\ ~peer.reset
  /\ me.pc = "done" /\ peer.pc = "done" =>
       (~me.stdin_open => peer.got = mine) /\ (~me.stdin_open \/ ~peer.stdin_open)

TcpOK ==
  ~udp => \A s \in R!Sides :
    /\ Flow(side[s], side[R!Peer(s)], stdin[s])
    /\ ~broken => Unbroken(side[s], side[R!Peer(s)], stdin[s], stdin[R!Peer(s)])

(* The one datagram, as far as it has come; whoever has it knows its size. *)
Datagram == R!Datagram

UdpOK ==
  udp /\ ~broken =>
    LET client == side["client"]  server == side["server"] IN
    /\ client.pc \in {"wait", "done"} => Datagram \in 1..Buffer
    /\ \/ /\ client.pc \in {"start", "send"} /\ server.pc \in {"start", "recvfrom"}
          /\ client.left = stdin["client"] /\ flight["client"] = 0 /\ flight["server"] = 0
       \/ /\ client.pc = "wait" /\ server.pc = "recvfrom"
          /\ flight["client"] = 0 /\ flight["server"] = Datagram
       \/ /\ client.pc = "wait" /\ server.pc = "done" /\ server.got = Datagram
          /\ flight["client"] = Datagram /\ flight["server"] = 0
       \/ /\ client.pc = "done" /\ server.pc = "done"
          /\ client.got = Datagram /\ server.got = Datagram

UdpPlaces == udp => \A s \in R!Sides : side[s].pc \in {"start", "send", "recvfrom", "wait", "done", "failed"}

RelayInv == RelayType /\ TcpOK /\ UdpOK /\ UdpPlaces

-----------------------------------------------------------------------------
(* There are two sides, and each is the other's peer.                      *)
LEMMA PeerFacts ==
  ASSUME NEW s \in R!Sides
  PROVE  R!Peer(s) \in R!Sides /\ R!Peer(s) # s /\ R!Peer(R!Peer(s)) = s /\ R!Sides = {s, R!Peer(s)}
BY DEF R!Sides, R!Peer

(* The lesser of two numbers is one of them and exceeds neither.           *)
LEMMA LesserFacts ==
  ASSUME NEW a \in Nat, NEW b \in Nat
  PROVE  R!Lesser(a, b) \in Nat /\ R!Lesser(a, b) <= a /\ R!Lesser(a, b) <= b
BY DEF R!Lesser

(* Before anything is said, nothing is on its way.                         *)
LEMMA RelayInitInv == R!RelayConstants /\ R!Init => RelayInv
<1> SUFFICES ASSUME R!RelayConstants, R!Init PROVE RelayInv
  OBVIOUS
<1> DEFINE rec(s) == [pc |-> "start", left |-> stdin[s], stdin_open |-> TRUE, chunk |-> 0,
                      revents |-> FALSE, got |-> 0, q |-> 0, fin |-> FALSE, reset |-> FALSE]
<1>1. stdin \in [R!Sides -> Nat] /\ \A s \in R!Sides : side[s] = rec(s)
  BY DEF R!Init, R!RelayConstants
<1>2. RelayType
  <2>1. \A s \in R!Sides : rec(s) \in SideType
    BY <1>1 DEF SideType, Opening
  <2> QED BY <1>1, <2>1 DEF R!Init, RelayType
<1>3. TcpOK
  <2> SUFFICES ASSUME NEW s \in R!Sides, NEW p \in R!Sides
               PROVE  Flow(rec(s), rec(p), stdin[s]) /\ Unbroken(rec(s), rec(p), stdin[s], stdin[p])
    BY <1>1, PeerFacts DEF TcpOK
  <2>1. stdin[s] \in Nat
    BY <1>1
  <2> QED BY <2>1 DEF Flow, Unbroken, Opening, Relaying
<1>4. UdpOK /\ UdpPlaces
  BY <1>1 DEF R!Init, UdpOK, UdpPlaces, R!Sides
<1> QED BY <1>2, <1>3, <1>4 DEF RelayInv

(* A step of TCP is judged by what it leaves on the two sides.             *)
LEMMA TcpStep ==
  ASSUME RelayInv, ~udp, NEW s \in R!Sides, NEW p, p = R!Peer(s),
         NEW a \in SideType, NEW b \in SideType,
         side' = [side EXCEPT ![s] = a, ![p] = b],
         UNCHANGED <<udp, stdin, flight>>, broken' \in BOOLEAN,
         Flow(a, b, stdin[s]), Flow(b, a, stdin[p]),
         ~broken' => Unbroken(a, b, stdin[s], stdin[p]) /\ Unbroken(b, a, stdin[p], stdin[s])
  PROVE  RelayInv'
<1>1. p \in R!Sides /\ p # s /\ R!Peer(p) = s /\ R!Sides = {s, p}
  BY PeerFacts
<1>2. RelayType'
  BY <1>1 DEF RelayInv, RelayType
<1>3. side'[s] = a /\ side'[p] = b
  BY <1>1 DEF RelayInv, RelayType
<1>4. TcpOK'
  BY <1>1, <1>3 DEF TcpOK
<1>5. UdpOK' /\ UdpPlaces'
  BY DEF UdpOK, UdpPlaces
<1> QED BY <1>2, <1>4, <1>5 DEF RelayInv

(* What the invariant says of one side and its peer.                       *)
LEMMA TcpFacts ==
  ASSUME RelayInv, ~udp, NEW s \in R!Sides, NEW p, p = R!Peer(s)
  PROVE  /\ side[s] \in SideType /\ side[p] \in SideType
         /\ stdin[s] \in Nat /\ stdin[p] \in Nat /\ broken \in BOOLEAN
         /\ Flow(side[s], side[p], stdin[s]) /\ Flow(side[p], side[s], stdin[p])
         /\ ~broken => Unbroken(side[s], side[p], stdin[s], stdin[p])
                         /\ Unbroken(side[p], side[s], stdin[p], stdin[s])
BY PeerFacts DEF RelayInv, RelayType, TcpOK

-----------------------------------------------------------------------------
(* A side that goes resets its peer if it leaves bytes unread.  It goes of *)
(* itself only when it cannot write to a peer that is gone, or has read    *)
(* all there is.                                                           *)
LEMMA Leaving ==
  ASSUME RelayInv, ~udp, NEW s \in R!Sides, NEW to \in {"done", "failed"},
         side[s].pc \in Relaying, R!Leave(s, to), UNCHANGED <<udp, stdin, flight>>,
         broken' \in BOOLEAN, to = "failed" => broken', to = "done" => broken' = broken,
         to = "done" => \/ side[s].pc = "write" /\ side[R!Peer(s)].pc \notin Relaying
                        \/ /\ side[s].pc = "socket" /\ side[s].revents
                           /\ side[s].reset \/ side[s].q = 0
  PROVE  RelayInv'
<1> DEFINE p == R!Peer(s)
           me == side[s]
           peer == side[p]
           a == [me EXCEPT !.pc = to]
           b == [peer EXCEPT !.fin = TRUE, !.reset = @ \/ me.q > 0, !.q = IF me.q > 0 THEN 0 ELSE @]
<1>1. /\ me \in SideType /\ peer \in SideType /\ stdin[s] \in Nat /\ stdin[p] \in Nat
      /\ Flow(me, peer, stdin[s]) /\ Flow(peer, me, stdin[p])
      /\ ~broken => Unbroken(me, peer, stdin[s], stdin[p]) /\ Unbroken(peer, me, stdin[p], stdin[s])
  BY TcpFacts
<1>2. side' = [side EXCEPT ![s] = a, ![p] = b]
  <2>1. p \in R!Sides /\ p # s
    BY PeerFacts
  <2>2. DOMAIN side = R!Sides
    BY DEF RelayInv, RelayType
  <2> QED BY <2>1, <2>2 DEF R!Leave, R!Gone
<1>3. a \in SideType /\ b \in SideType
  BY <1>1 DEF SideType
<1>4. /\ a.pc = to /\ a.left = me.left /\ a.stdin_open = me.stdin_open /\ a.chunk = me.chunk
      /\ a.got = me.got /\ a.q = me.q /\ a.fin = me.fin /\ a.reset = me.reset /\ a.revents = me.revents
      /\ b.pc = peer.pc /\ b.left = peer.left /\ b.stdin_open = peer.stdin_open
      /\ b.chunk = peer.chunk /\ b.got = peer.got /\ b.fin = TRUE /\ b.revents = peer.revents
      /\ (b.reset <=> peer.reset \/ me.q > 0) /\ b.q = (IF me.q > 0 THEN 0 ELSE peer.q)
  BY <1>1 DEF SideType
<1>5. /\ me.left \in Nat /\ me.chunk \in Nat /\ me.got \in Nat /\ me.q \in Nat
      /\ peer.left \in Nat /\ peer.chunk \in Nat /\ peer.got \in Nat /\ peer.q \in Nat
  BY <1>1 DEF SideType
<1>6. me.pc \in Relaying /\ me.pc \notin Opening /\ me.pc \notin {"done", "failed"}
  BY DEF Relaying, Opening
<1> HIDE DEF a, b, me, peer, p
<1>7. Flow(a, b, stdin[s]) /\ Flow(b, a, stdin[p])
  <2>1. a.pc \in {"done", "failed"} /\ a.pc \notin Relaying /\ a.pc \notin Opening
    BY <1>4 DEF Relaying, Opening
  <2>2. b.pc \notin Opening
    BY <1>1, <1>4, <1>6 DEF Flow, Opening, Relaying
  <2>3. b.q <= peer.q /\ (~b.reset => b.q = peer.q /\ ~peer.reset)
    BY <1>3, <1>4, <1>5
  <2>4. Flow(a, b, stdin[s])
    BY <1>1, <1>4, <1>5, <1>6, <2>1, <2>3 DEF Flow
  <2>5. Flow(b, a, stdin[p])
    BY <1>1, <1>4, <1>5, <1>6, <2>1, <2>2 DEF Flow
  <2> QED BY <2>4, <2>5
<1>8. ASSUME ~broken' PROVE Unbroken(a, b, stdin[s], stdin[p]) /\ Unbroken(b, a, stdin[p], stdin[s])
  <2>1. to = "done" /\ ~broken /\ b.pc = peer.pc /\ a.pc = "done" /\ b.pc # "failed"
    BY <1>1, <1>4, <1>8 DEF Unbroken
  <2>2. peer.pc \in Relaying \/ peer.pc = "done"
    BY <1>1, <1>6, <2>1 DEF Flow, Unbroken
  <2>3. ~(me.pc = "write" /\ peer.pc \notin Relaying)
    BY <1>1, <1>6, <2>1, <2>2 DEF Flow, Unbroken
  <2>4. me.pc = "socket" /\ me.revents /\ ~me.reset /\ me.q = 0 /\ me.fin
    BY <1>1, <1>6, <2>1, <2>2, <2>3 DEF Flow, Unbroken, me, peer, p
  <2>5. ~b.reset /\ b.q = peer.q /\ ~peer.reset
    BY <1>1, <1>3, <1>4, <1>6, <2>4 DEF Flow, SideType
  <2>6. CASE peer.pc \in Relaying
    <3>1. ~peer.stdin_open /\ me.got = stdin[p]
      BY <1>1, <1>5, <2>4, <2>6 DEF Flow
    <3>2. peer.pc \notin Opening /\ peer.pc # "done"
      BY <2>6 DEF Relaying, Opening
    <3> QED BY <1>4, <2>1, <2>4, <2>5, <2>6, <3>1, <3>2 DEF Unbroken, Relaying, Opening
  <2>7. CASE peer.pc = "done"
    <3>1. ~me.stdin_open /\ peer.got = stdin[s]
      BY <1>1, <1>6, <2>1, <2>7 DEF Unbroken
    <3>2. ~peer.stdin_open => me.got = stdin[p]
      BY <1>1, <1>5, <2>4 DEF Flow
    <3> QED BY <1>4, <2>1, <2>7, <3>1, <3>2 DEF Unbroken, Relaying, Opening
  <2> QED BY <2>2, <2>6, <2>7
<1> QED BY <1>2, <1>3, <1>7, <1>8, TcpStep DEF p

(* As long as a side relays, nothing is settled but what its peer has.     *)
LEMMA StillRelaying ==
  ASSUME NEW me, NEW peer, NEW a, NEW b, NEW mine, NEW theirs,
         Unbroken(me, peer, mine, theirs), Unbroken(peer, me, theirs, mine),
         me.pc \in Relaying, a.pc \in Relaying, b.pc = peer.pc,
         b.pc \in Relaying \/ (b.got = peer.got /\ b.q = peer.q),
         ~me.stdin_open => ~a.stdin_open, a.reset <=> me.reset
  PROVE  Unbroken(a, b, mine, theirs) /\ Unbroken(b, a, theirs, mine)
<1>1. /\ a.pc \notin Opening \cup {"done", "failed"} /\ me.pc \notin Opening \cup {"done", "failed"}
      /\ b.pc \notin Opening /\ b.pc # "failed" /\ (b.pc \in Relaying => b.pc # "done")
  BY DEF Relaying, Opening, Unbroken
<1>2. b.pc = "done" => ~a.stdin_open /\ b.got = mine /\ b.q = 0 /\ ~a.reset
  BY <1>1 DEF Unbroken
<1> QED BY <1>1, <1>2 DEF Unbroken

(* The connection is made, or not.                                         *)
LEMMA OpeningStep == RelayInv /\ (R!tcp_server \/ R!tcp_client) => RelayInv'
<1>1. ASSUME NEW s \in R!Sides, NEW p, p = R!Peer(s), RelayInv, ~udp, UNCHANGED <<udp, stdin, flight>>,
             side[s].pc = "start",
             \/ side' = [side EXCEPT ![s].pc = "accept"] /\ UNCHANGED broken
             \/ side' = [side EXCEPT ![s].pc = "failed"] /\ broken' = TRUE
      PROVE  RelayInv'
  <2>1. /\ side[s] \in SideType /\ side[p] \in SideType /\ stdin[s] \in Nat /\ stdin[p] \in Nat
        /\ Flow(side[s], side[p], stdin[s]) /\ Flow(side[p], side[s], stdin[p])
        /\ ~broken => Unbroken(side[s], side[p], stdin[s], stdin[p])
                        /\ Unbroken(side[p], side[s], stdin[p], stdin[s])
    BY <1>1, TcpFacts
  <2>2. p \in R!Sides /\ p # s /\ side \in [R!Sides -> SideType]
    BY <1>1, PeerFacts DEF RelayInv, RelayType
  <2>3. ASSUME NEW w \in {"accept", "failed"}, side' = [side EXCEPT ![s].pc = w],
               broken' \in BOOLEAN, ~broken' => ~broken /\ w = "accept"
        PROVE  RelayInv'
    <3> DEFINE a == [side[s] EXCEPT !.pc = w]
    <3>1. a \in SideType /\ side' = [side EXCEPT ![s] = a, ![p] = side[p]]
      BY <2>1, <2>2, <2>3 DEF SideType, Opening
    <3>2. Flow(a, side[p], stdin[s]) /\ Flow(side[p], a, stdin[p])
      BY <1>1, <2>1 DEF Flow, SideType, Opening, Relaying
    <3>3. ~broken' => Unbroken(a, side[p], stdin[s], stdin[p]) /\ Unbroken(side[p], a, stdin[p], stdin[s])
      BY <1>1, <2>1, <2>3 DEF Unbroken, SideType, Opening, Relaying
    <3> HIDE DEF a
    <3> QED BY <1>1, <2>1, <2>3, <3>1, <3>2, <3>3, TcpStep
  <2> QED BY <1>1, <2>3 DEF RelayInv, RelayType
<1>2. ASSUME RelayInv, ~udp, UNCHANGED <<udp, stdin, flight, broken>>,
             side["client"].pc = "start", side["server"].pc = "accept",
             side' = [s \in R!Sides |-> [side[s] EXCEPT !.pc = "poll"]]
      PROVE  RelayInv'
  <2> DEFINE me == side["client"]
             peer == side["server"]
             a == [me EXCEPT !.pc = "poll"]
             b == [peer EXCEPT !.pc = "poll"]
  <2>1. "client" \in R!Sides /\ R!Peer("client") = "server" /\ R!Sides = {"client", "server"}
    BY DEF R!Sides, R!Peer
  <2>2. /\ me \in SideType /\ peer \in SideType /\ broken \in BOOLEAN
        /\ stdin["client"] \in Nat /\ stdin["server"] \in Nat
        /\ Flow(me, peer, stdin["client"]) /\ Flow(peer, me, stdin["server"])
        /\ ~broken => Unbroken(me, peer, stdin["client"], stdin["server"])
                        /\ Unbroken(peer, me, stdin["server"], stdin["client"])
    BY <1>2, <2>1, TcpFacts
  <2>3. a \in SideType /\ b \in SideType
    BY <2>2 DEF SideType, Relaying
  <2>4. side' = [side EXCEPT !["client"] = a, !["server"] = b]
    BY <1>2, <2>1 DEF RelayInv, RelayType
  <2>5. Flow(a, b, stdin["client"]) /\ Flow(b, a, stdin["server"])
    BY <1>2, <2>2 DEF Flow, SideType, Opening, Relaying
  <2>6. ~broken => Unbroken(a, b, stdin["client"], stdin["server"])
                    /\ Unbroken(b, a, stdin["server"], stdin["client"])
    BY <2>2 DEF Unbroken, SideType, Opening, Relaying
  <2> HIDE DEF a, b
  <2> QED BY <1>2, <2>1, <2>2, <2>3, <2>4, <2>5, <2>6, TcpStep
<1> QED BY <1>1, <1>2 DEF R!tcp_server, R!tcp_client, R!Sides

(* The steps of tcp_relay.  me and peer are the two sides before a step, a *)
(* and b after it.                                                         *)
LEMMA RelayStep ==
  ASSUME R!RelayConstants, RelayInv, ~udp, NEW s \in R!Sides,
         R!Poll(s) \/ R!ReadStdin(s) \/ R!StdinEnds(s) \/ R!WriteSocket(s) \/ R!ReadSocket(s) \/ R!Killed(s)
  PROVE  RelayInv'
<1> DEFINE p == R!Peer(s)
           me == side[s]
           peer == side[p]
<1>1. /\ me \in SideType /\ peer \in SideType /\ stdin[s] \in Nat /\ stdin[p] \in Nat
      /\ Flow(me, peer, stdin[s]) /\ Flow(peer, me, stdin[p]) /\ broken \in BOOLEAN
      /\ ~broken => Unbroken(me, peer, stdin[s], stdin[p]) /\ Unbroken(peer, me, stdin[p], stdin[s])
  BY TcpFacts
<1>2. p \in R!Sides /\ p # s /\ DOMAIN side = R!Sides /\ R!Peer(p) = s
  BY PeerFacts DEF RelayInv, RelayType
<1>3. /\ me.left \in Nat /\ me.chunk \in Nat /\ me.got \in Nat /\ me.q \in Nat
      /\ peer.left \in Nat /\ peer.chunk \in Nat /\ peer.got \in Nat /\ peer.q \in Nat
      /\ Buffer \in Nat /\ Queue \in Nat
  BY <1>1 DEF SideType, R!RelayConstants
<1>4. me.pc \in Relaying /\ me.pc \notin Opening /\ peer.pc \notin Opening
  BY <1>1 DEF Flow, Relaying, Opening, R!Poll, R!ReadStdin, R!StdinEnds, R!WriteSocket, R!ReadSocket,
             R!Killed, R!Fails
<1>5. ASSUME NEW a \in SideType, NEW b \in SideType, side' = [side EXCEPT ![s] = a, ![p] = b],
             UNCHANGED <<udp, stdin, flight, broken>>, a.pc \in Relaying, b.pc = peer.pc,
             b.pc \in Relaying \/ (b.got = peer.got /\ b.q = peer.q),
             ~me.stdin_open => ~a.stdin_open, a.reset <=> me.reset,
             Flow(a, b, stdin[s]), Flow(b, a, stdin[p])
      PROVE  RelayInv'
  <2> HIDE DEF p, me, peer
  <2>1. ~broken => Unbroken(a, b, stdin[s], stdin[p]) /\ Unbroken(b, a, stdin[p], stdin[s])
    BY <1>1, <1>4, <1>5, StillRelaying
  <2> QED BY <1>1, <1>5, <2>1, TcpStep DEF p
<1>6. CASE R!Poll(s)
  <2> SUFFICES ASSUME NEW ready \in BOOLEAN, ready => me.stdin_open, ready \/ R!Readable(s),
                      side' = [side EXCEPT ![s].pc = IF ready THEN "stdin" ELSE "socket",
                                           ![s].revents = R!Readable(s)]
               PROVE  RelayInv'
    BY <1>6 DEF R!Poll
  <2> DEFINE a == [me EXCEPT !.pc = IF ready THEN "stdin" ELSE "socket", !.revents = R!Readable(s)]
  <2>1. /\ me.pc = "poll" /\ UNCHANGED <<udp, stdin, flight, broken>>
        /\ R!Readable(s) \in BOOLEAN /\ (R!Readable(s) <=> me.q > 0 \/ me.fin \/ me.reset)
    BY <1>6, <1>1 DEF R!Poll, R!Readable, SideType
  <2>2. a \in SideType /\ side' = [side EXCEPT ![s] = a, ![p] = peer]
    BY <1>1, <1>2, <2>1 DEF SideType, Relaying
  <2>3. Flow(a, peer, stdin[s]) /\ Flow(peer, a, stdin[p])
    BY <1>1, <1>3, <2>1 DEF Flow, SideType, Opening, Relaying
  <2>4. a.pc \in Relaying /\ a.stdin_open = me.stdin_open /\ a.reset = me.reset
    BY <1>1 DEF SideType, Relaying
  <2> HIDE DEF a
  <2> QED BY <1>1, <1>5, <2>1, <2>2, <2>3, <2>4
<1>7. CASE R!ReadStdin(s)
  <2>1. PICK n \in 1 .. R!Lesser(Buffer, me.left) :
          side' = [side EXCEPT ![s].pc = "write", ![s].left = @ - n, ![s].chunk = n]
    BY <1>7 DEF R!ReadStdin
  <2> DEFINE a == [me EXCEPT !.pc = "write", !.left = @ - n, !.chunk = n]
  <2>2. me.pc = "stdin" /\ me.chunk = 0 /\ me.stdin_open /\ UNCHANGED <<udp, stdin, flight, broken>>
    BY <1>1, <1>7 DEF R!ReadStdin, Flow
  <2>3. n \in Nat /\ n <= me.left
    BY <1>3, <2>1, LesserFacts
  <2>4. a \in SideType /\ side' = [side EXCEPT ![s] = a, ![p] = peer]
    BY <1>1, <1>2, <1>3, <2>1, <2>3 DEF SideType, Relaying
  <2>5. Flow(a, peer, stdin[s]) /\ Flow(peer, a, stdin[p])
    BY <1>1, <1>3, <2>2, <2>3 DEF Flow, SideType, Opening, Relaying
  <2>6. a.pc \in Relaying /\ a.stdin_open = me.stdin_open /\ a.reset = me.reset
    BY <1>1 DEF SideType, Relaying
  <2> HIDE DEF a
  <2> QED BY <1>1, <1>5, <2>2, <2>4, <2>5, <2>6
<1>8. CASE R!StdinEnds(s)
  <2> DEFINE a == [me EXCEPT !.pc = "socket", !.stdin_open = FALSE]
             b == [peer EXCEPT !.fin = TRUE]
  <2>1. /\ me.pc = "stdin" /\ me.left = 0 /\ me.chunk = 0 /\ UNCHANGED <<udp, stdin, flight, broken>>
        /\ side' = [side EXCEPT ![s].pc = "socket", ![s].stdin_open = FALSE, ![R!Peer(s)].fin = TRUE]
    BY <1>1, <1>8 DEF R!StdinEnds, Flow
  <2>2. a \in SideType /\ b \in SideType /\ side' = [side EXCEPT ![s] = a, ![p] = b]
    BY <1>1, <1>2, <2>1 DEF SideType, Relaying
  <2>3. Flow(a, b, stdin[s]) /\ Flow(b, a, stdin[p])
    BY <1>1, <1>3, <1>4, <2>1 DEF Flow, SideType, Opening, Relaying
  <2>4. /\ a.pc \in Relaying /\ ~a.stdin_open /\ a.reset = me.reset
        /\ b.pc = peer.pc /\ b.got = peer.got /\ b.q = peer.q
    BY <1>1 DEF SideType, Relaying
  <2> HIDE DEF a, b
  <2> QED BY <1>1, <1>5, <2>1, <2>2, <2>3, <2>4
<1>9. CASE R!WriteSocket(s)
  <2>1. me.pc = "write" /\ UNCHANGED <<udp, stdin, flight, broken>>
    BY <1>9 DEF R!WriteSocket
  <2>2. CASE peer.pc \notin Relaying
    BY <1>1, <1>4, <1>9, <2>1, <2>2, Leaving DEF R!WriteSocket, Relaying
  <2>3. CASE peer.pc \in Relaying
    <3>1. PICK n \in 1 .. R!Lesser(me.chunk, Queue - peer.q) :
             side' = [side EXCEPT ![p].q = @ + n, ![s].chunk = @ - n,
                                  ![s].pc = IF me.chunk = n THEN "socket" ELSE "write"]
      BY <1>9, <2>3 DEF R!WriteSocket, Relaying
    <3>2. n \in Nat /\ n <= me.chunk
      BY <1>3, <3>1 DEF R!Lesser
    <3> DEFINE a == [me EXCEPT !.chunk = @ - n, !.pc = IF me.chunk = n THEN "socket" ELSE "write"]
               b == [peer EXCEPT !.q = @ + n]
    <3>3. a \in SideType /\ b \in SideType
      <4>1. me.chunk - n \in Nat /\ peer.q + n \in Nat
        BY <1>3, <3>2
      <4>2. a \in SideType
        BY <1>1, <4>1 DEF SideType, Relaying
      <4>3. b \in SideType
        BY <1>1, <4>1 DEF SideType
      <4> QED BY <4>2, <4>3
    <3>4. side' = [side EXCEPT ![s] = a, ![p] = b]
      BY <1>2, <3>1
    <3>5. Flow(a, b, stdin[s]) /\ Flow(b, a, stdin[p])
      BY <1>1, <1>3, <2>1, <3>2 DEF Flow, SideType, Opening, Relaying
    <3>6. /\ a.pc \in Relaying /\ a.stdin_open = me.stdin_open /\ a.reset = me.reset /\ b.pc = peer.pc
      BY <1>1 DEF SideType, Relaying
    <3> HIDE DEF a, b
    <3> QED BY <1>1, <1>5, <2>1, <2>3, <3>3, <3>4, <3>5, <3>6
  <2> QED BY <2>2, <2>3
<1>10. CASE R!ReadSocket(s)
  <2>1. me.pc = "socket" /\ UNCHANGED <<udp, stdin, flight, broken>>
    BY <1>10 DEF R!ReadSocket
  <2>2. CASE side' = [side EXCEPT ![s].pc = "poll"]
    <3> DEFINE a == [me EXCEPT !.pc = "poll"]
    <3>1. a \in SideType /\ side' = [side EXCEPT ![s] = a, ![p] = peer]
      BY <1>1, <1>2, <2>2 DEF SideType, Relaying
    <3>2. Flow(a, peer, stdin[s]) /\ Flow(peer, a, stdin[p])
      BY <1>1, <1>3, <2>1 DEF Flow, SideType, Opening, Relaying
    <3>3. a.pc \in Relaying /\ a.stdin_open = me.stdin_open /\ a.reset = me.reset
      BY <1>1 DEF SideType, Relaying
    <3> HIDE DEF a
    <3> QED BY <1>1, <1>5, <2>1, <3>1, <3>2, <3>3
  <2>3. ASSUME NEW n \in 1 .. R!Lesser(Buffer, me.q),
               side' = [side EXCEPT ![s].pc = "poll", ![s].q = @ - n, ![s].got = @ + n]
        PROVE  RelayInv'
    <3> DEFINE a == [me EXCEPT !.pc = "poll", !.q = @ - n, !.got = @ + n]
    <3>1. n \in Nat /\ n <= me.q
      BY <1>3 DEF R!Lesser
    <3>2. a \in SideType /\ side' = [side EXCEPT ![s] = a, ![p] = peer]
      BY <1>1, <1>2, <1>3, <2>3, <3>1 DEF SideType, Relaying
    <3>3. Flow(a, peer, stdin[s]) /\ Flow(peer, a, stdin[p])
      BY <1>1, <1>3, <2>1, <3>1 DEF Flow, SideType, Opening, Relaying
    <3>4. a.pc \in Relaying /\ a.stdin_open = me.stdin_open /\ a.reset = me.reset
      BY <1>1 DEF SideType, Relaying
    <3> HIDE DEF a
    <3> QED BY <1>1, <1>5, <2>1, <3>2, <3>3, <3>4
  <2>4. CASE me.revents /\ (me.reset \/ me.q = 0) /\ R!Leave(s, "done")
    BY <1>1, <1>4, <2>1, <2>4, Leaving
  <2> QED BY <1>10, <2>2, <2>3, <2>4 DEF R!ReadSocket
<1>11. CASE R!Killed(s)
  BY <1>4, <1>11, Leaving DEF R!Killed, R!Fails
<1> QED BY <1>6, <1>7, <1>8, <1>9, <1>10, <1>11

(* The datagram and its echo.                                              *)
LEMMA UdpStep ==
  ASSUME R!RelayConstants, RelayInv,
         R!udp_client \/ R!udp_server \/ R!UdpAnswer \/ \E s \in R!Sides : R!UdpStart(s)
  PROVE  RelayInv'
<1> DEFINE client == side["client"]
           server == side["server"]
<1>1. /\ "client" \in R!Sides /\ "server" \in R!Sides /\ R!Sides = {"client", "server"}
      /\ client \in SideType /\ server \in SideType /\ side \in [R!Sides -> SideType]
      /\ stdin \in [R!Sides -> Nat] /\ flight \in [R!Sides -> Nat] /\ broken \in BOOLEAN
      /\ client.left \in Nat /\ Buffer \in Nat
  BY DEF RelayInv, RelayType, R!Sides, SideType, R!RelayConstants
<1>2. udp
  <2>1. \A s \in R!Sides : ~udp => side[s].pc \notin {"send", "recvfrom", "wait"}
    BY DEF RelayInv, TcpOK, Flow, Relaying, Opening
  <2> QED BY <1>1, <2>1 DEF R!udp_client, R!udp_server, R!UdpAnswer, R!UdpStart
<1>3. ASSUME NEW a \in SideType, NEW b \in SideType,
             side' = [side EXCEPT !["client"] = a, !["server"] = b],
             {a.pc, b.pc} \subseteq {"start", "send", "recvfrom", "wait", "done", "failed"},
             flight' \in [R!Sides -> Nat], broken' \in BOOLEAN, UNCHANGED <<udp, stdin>>, UdpOK'
      PROVE  RelayInv'
  <2>1. side'["client"] = a /\ side'["server"] = b /\ side' \in [R!Sides -> SideType]
    BY <1>1, <1>3
  <2>2. RelayType' /\ TcpOK'
    BY <1>1, <1>2, <1>3, <2>1 DEF RelayType, TcpOK, RelayInv
  <2>3. UdpPlaces'
    BY <1>1, <1>3, <2>1 DEF UdpPlaces
  <2> QED BY <1>3, <2>2, <2>3 DEF RelayInv
<1>4. CASE R!udp_client
  <2>1. client.pc = "send" /\ UNCHANGED <<udp, stdin>>
    BY <1>4 DEF R!udp_client
  <2>2. ASSUME NEW n \in 0 .. R!Lesser(Buffer, client.left),
               side' = [side EXCEPT !["client"].pc = "wait", !["client"].left = @ - n],
               \/ /\ n > 0 /\ server.pc = "recvfrom" /\ flight' = [flight EXCEPT !["server"] = n]
                  /\ UNCHANGED broken
               \/ UNCHANGED flight /\ broken' = TRUE
        PROVE  RelayInv'
    <3> DEFINE a == [client EXCEPT !.pc = "wait", !.left = @ - n]
    <3>1. n \in Nat /\ n <= client.left /\ n <= Buffer
      <4> DEFINE m == R!Lesser(Buffer, client.left)
      <4>1. m \in Nat /\ m <= client.left /\ m <= Buffer
        BY <1>1, LesserFacts
      <4>2. n \in 0..m
        OBVIOUS
      <4> HIDE DEF m
      <4> QED BY <1>1, <4>1, <4>2
    <3>2. a \in SideType /\ side' = [side EXCEPT !["client"] = a, !["server"] = server]
      <4>1. client.left - n \in Nat
        BY <1>1, <3>1
      <4>2. a \in SideType
        BY <1>1, <4>1 DEF SideType
      <4>3. side' = [side EXCEPT !["client"] = a, !["server"] = server]
        BY <1>1, <2>2
      <4> QED BY <4>2, <4>3
    <3>3. flight' \in [R!Sides -> Nat] /\ broken' \in BOOLEAN
      BY <1>1, <2>2, <3>1
    <3>4. UdpOK'
      <4> SUFFICES ASSUME ~broken' PROVE UdpOK'
        BY DEF UdpOK
      <4>1. ~broken /\ server.pc = "recvfrom" /\ flight' = [flight EXCEPT !["server"] = n] /\ n > 0
        BY <2>2
      <4>2. client.left = stdin["client"] /\ flight["client"] = 0
        BY <1>2, <2>1, <4>1 DEF RelayInv, UdpOK
      <4>3. side'["client"].pc = "wait" /\ side'["client"].left = client.left - n /\ side'["server"] = server
        BY <1>1, <3>2 DEF SideType
      <4>4. Datagram' = n /\ n \in 1..Buffer
        BY <1>1, <2>1, <3>1, <4>1, <4>2, <4>3 DEF Datagram, R!Datagram
      <4>5. flight'["client"] = 0 /\ flight'["server"] = n
        BY <1>1, <4>1, <4>2
      <4> QED BY <4>1, <4>3, <4>4, <4>5 DEF UdpOK
    <3>5. {a.pc, server.pc} \subseteq {"start", "send", "recvfrom", "wait", "done", "failed"}
      BY <1>1, <1>2 DEF RelayInv, SideType, UdpPlaces
    <3> HIDE DEF a
    <3> QED BY <1>1, <1>2, <1>3, <2>1, <3>2, <3>3, <3>4, <3>5
  <2>3. CASE side' = [side EXCEPT !["client"].pc = "failed"] /\ UNCHANGED flight /\ broken' = TRUE
    <3> DEFINE a == [client EXCEPT !.pc = "failed"]
    <3>1. a \in SideType /\ side' = [side EXCEPT !["client"] = a, !["server"] = server] /\ a.pc = "failed"
      BY <1>1, <2>3 DEF SideType
    <3>2. {a.pc, server.pc} \subseteq {"start", "send", "recvfrom", "wait", "done", "failed"}
      BY <1>1, <1>2, <3>1 DEF RelayInv, UdpPlaces
    <3>3. UdpOK' /\ flight' \in [R!Sides -> Nat] /\ broken' \in BOOLEAN
      BY <1>1, <2>3 DEF UdpOK
    <3> HIDE DEF a
    <3> QED BY <1>1, <1>3, <2>1, <3>1, <3>2, <3>3
  <2> QED BY <1>4, <2>2, <2>3 DEF R!udp_client
<1>5. CASE R!udp_server
  <2> DEFINE b == [server EXCEPT !.pc = "done", !.got = flight["server"]]
  <2>1. /\ server.pc = "recvfrom" /\ flight["server"] > 0
        /\ side' = [side EXCEPT !["server"].pc = "done", !["server"].got = flight["server"]]
        /\ UNCHANGED <<udp, stdin>>
        /\ \/ flight' = [server |-> 0, client |-> flight["server"]] /\ UNCHANGED broken
           \/ flight' = [server |-> 0, client |-> 0] /\ broken' = TRUE
    BY <1>5 DEF R!udp_server
  <2>2. b \in SideType /\ side' = [side EXCEPT !["client"] = client, !["server"] = b]
    BY <1>1, <2>1 DEF SideType
  <2>3. flight' \in [R!Sides -> Nat] /\ broken' \in BOOLEAN
    <3>1. ASSUME NEW n \in Nat PROVE [server |-> 0, client |-> n] \in [R!Sides -> Nat]
      BY DEF R!Sides
    <3>2. flight["server"] \in Nat /\ 0 \in Nat
      BY <1>1
    <3>3. flight' \in [R!Sides -> Nat]
      BY <2>1, <3>1, <3>2
    <3> QED BY <1>1, <2>1, <3>3
  <2>4. UdpOK'
    <3> SUFFICES ASSUME ~broken' PROVE UdpOK'
      BY DEF UdpOK
    <3>1. ~broken /\ flight' = [server |-> 0, client |-> flight["server"]]
      BY <2>1
    <3>2. client.pc = "wait" /\ flight["server"] = Datagram /\ Datagram \in 1..Buffer
      BY <1>1, <1>2, <2>1, <3>1 DEF RelayInv, UdpOK
    <3>3. side'["server"].pc = "done" /\ side'["server"].got = flight["server"] /\ side'["client"] = client
      BY <1>1, <2>2 DEF SideType
    <3>4. flight'["client"] = flight["server"] /\ flight'["server"] = 0 /\ Datagram' = Datagram
      BY <2>1, <3>1, <3>3 DEF Datagram, R!Datagram
    <3> QED BY <3>2, <3>3, <3>4 DEF UdpOK
  <2>5. {client.pc, b.pc} \subseteq {"start", "send", "recvfrom", "wait", "done", "failed"}
    BY <1>1, <1>2 DEF RelayInv, SideType, UdpPlaces
  <2> HIDE DEF b
  <2> QED BY <1>1, <1>2, <1>3, <2>1, <2>2, <2>3, <2>4, <2>5
<1>6. CASE R!UdpAnswer
  <2> DEFINE f == flight["client"]
  <2>1. /\ client.pc = "wait" /\ flight' = [flight EXCEPT !["client"] = 0] /\ UNCHANGED <<udp, stdin>>
        /\ \/ /\ f > 0 /\ UNCHANGED broken
              /\ side' = [side EXCEPT !["client"].pc = "done", !["client"].got = f]
           \/ side' = [side EXCEPT !["client"].pc = "done"] /\ broken' = TRUE
    BY <1>6 DEF R!UdpAnswer
  <2>2. flight' \in [R!Sides -> Nat] /\ broken' \in BOOLEAN /\ f \in Nat
    BY <1>1, <2>1
  <2>3. ASSUME NEW got \in {f, client.got}, broken' \/ (~broken /\ f > 0 /\ got = f),
               side' = [side EXCEPT !["client"].pc = "done", !["client"].got = got]
        PROVE  RelayInv'
    <3> DEFINE a == [client EXCEPT !.pc = "done", !.got = got]
    <3>1. a \in SideType /\ side' = [side EXCEPT !["client"] = a, !["server"] = server]
      BY <1>1, <2>2, <2>3 DEF SideType
    <3>2. UdpOK'
      <4> SUFFICES ASSUME ~broken' PROVE UdpOK'
        BY DEF UdpOK
      <4>1. ~broken /\ f > 0 /\ got = f
        BY <2>3
      <4>2. server.pc = "done" /\ server.got = Datagram /\ got = Datagram /\ Datagram \in 1..Buffer
        BY <1>1, <1>2, <2>1, <4>1 DEF RelayInv, UdpOK
      <4>3. /\ side'["client"].pc = "done" /\ side'["client"].got = got /\ side'["server"] = server
            /\ side'["client"].left = client.left
        BY <1>1, <3>1 DEF SideType
      <4>4. Datagram' = Datagram
        BY <2>1, <4>3 DEF Datagram, R!Datagram
      <4> QED BY <4>2, <4>3, <4>4 DEF UdpOK
    <3>3. {a.pc, server.pc} \subseteq {"start", "send", "recvfrom", "wait", "done", "failed"}
      BY <1>1, <1>2 DEF RelayInv, SideType, UdpPlaces
    <3> HIDE DEF a
    <3> QED BY <1>1, <1>2, <1>3, <2>1, <2>2, <3>1, <3>2, <3>3
  <2>4. CASE side' = [side EXCEPT !["client"].pc = "done"] /\ broken' = TRUE
    <3>1. side' = [side EXCEPT !["client"].pc = "done", !["client"].got = client.got]
      BY <1>1, <2>4 DEF SideType
    <3> QED BY <2>3, <2>4, <3>1
  <2> QED BY <2>1, <2>2, <2>3, <2>4
<1>7. ASSUME NEW s \in R!Sides, R!UdpStart(s) PROVE RelayInv'
  <2> DEFINE w == IF s = "client" THEN "send" ELSE "recvfrom"
             a == IF s = "client" THEN [client EXCEPT !.pc = w] ELSE client
             b == IF s = "client" THEN server ELSE [server EXCEPT !.pc = w]
  <2>1. side[s].pc = "start" /\ side' = [side EXCEPT ![s].pc = w] /\ UNCHANGED <<udp, stdin, flight, broken>>
    BY <1>7 DEF R!UdpStart
  <2>2. a \in SideType /\ b \in SideType
    BY <1>1 DEF SideType
  <2>3. side' = [side EXCEPT !["client"] = a, !["server"] = b]
    BY <1>1, <2>1
  <2>4. /\ (a.pc = "send" /\ client.pc = "start") \/ a = client
        /\ a.left = client.left
        /\ (b.pc = "recvfrom" /\ server.pc = "start") \/ b = server
    BY <1>1, <2>1 DEF SideType
  <2> HIDE DEF a, b
  <2>5. UdpOK'
    <3>1. side'["client"] = a /\ side'["server"] = b
      BY <1>1, <2>3
    <3> SUFFICES ASSUME ~broken PROVE UdpOK'
      BY <2>1 DEF UdpOK
    <3>2. UdpOK /\ Datagram' = Datagram
      BY <2>1, <2>4, <3>1 DEF RelayInv, Datagram, R!Datagram
    <3>3. CASE client.pc \in {"start", "send"} /\ server.pc \in {"start", "recvfrom"}
      <4>1. client.left = stdin["client"] /\ flight["client"] = 0 /\ flight["server"] = 0
        BY <1>2, <3>2, <3>3 DEF UdpOK
      <4>2. a.left = client.left /\ a.pc \in {"start", "send"} /\ b.pc \in {"start", "recvfrom"}
        BY <2>4, <3>3
      <4> QED BY <2>1, <3>1, <4>1, <4>2 DEF UdpOK
    <3>4. CASE client.pc # "start" /\ server.pc # "start"
      <4>1. a = client /\ b = server
        BY <2>4, <3>4
      <4> QED BY <1>2, <2>1, <3>1, <3>2, <4>1 DEF UdpOK
    <3> QED BY <1>2, <3>2, <3>3, <3>4 DEF UdpOK
  <2>6. {a.pc, b.pc} \subseteq {"start", "send", "recvfrom", "wait", "done", "failed"}
    BY <1>1, <1>2, <2>4 DEF RelayInv, UdpPlaces
  <2> QED BY <1>1, <1>3, <2>1, <2>2, <2>3, <2>5, <2>6
<1> QED BY <1>4, <1>5, <1>6, <1>7

-----------------------------------------------------------------------------
(* The invariant says what nc promises.                                    *)
LEMMA RelayInvFaithful == RelayInv => R!RelayFaithful
<1> SUFFICES ASSUME RelayInv PROVE R!RelayFaithful
  OBVIOUS
<1>1. ~udp => \A s \in R!Sides :
        side[R!Peer(s)].got + side[R!Peer(s)].q + side[s].chunk <= stdin[s] - side[s].left
  BY DEF RelayInv, TcpOK, Flow
<1>2. ASSUME ~udp, ~broken, \A s \in R!Sides : R!Ended(s)
      PROVE  /\ \A s \in R!Sides : ~side[s].stdin_open => side[R!Peer(s)].got = stdin[s]
             /\ \E s \in R!Sides : ~side[s].stdin_open
  <2>1. \A s \in R!Sides : R!Peer(s) \in R!Sides /\ side[s].pc = "done"
    BY <1>2, PeerFacts DEF RelayInv, TcpOK, Unbroken, R!Ended
  <2>2. "client" \in R!Sides
    BY DEF R!Sides
  <2> QED BY <1>2, <2>1, <2>2 DEF RelayInv, TcpOK, Unbroken
<1>3. ASSUME udp, ~broken, R!Ended("client")
      PROVE  R!Datagram \in 1..Buffer /\ \A s \in R!Sides : side[s].got = R!Datagram
  <2>1. side["client"].pc = "done"
    BY <1>3 DEF RelayInv, UdpOK, R!Ended
  <2> QED BY <1>3, <2>1 DEF RelayInv, UdpOK, Datagram, R!Sides
<1> QED BY <1>1, <1>2, <1>3 DEF R!RelayFaithful

(* Every step of either nc keeps the invariant.                            *)
LEMMA RelayNextInv == R!RelayConstants /\ RelayInv /\ [R!Next]_rvars => RelayInv'
<1> SUFFICES ASSUME R!RelayConstants, RelayInv, [R!Next]_rvars PROVE RelayInv'
  OBVIOUS
<1>1. CASE R!tcp_server \/ R!tcp_client
  BY <1>1, OpeningStep
<1>2. CASE R!udp_client \/ R!udp_server \/ R!UdpAnswer \/ \E s \in R!Sides : R!UdpStart(s)
  BY <1>2, UdpStep
<1>3. ASSUME NEW s \in R!Sides,
             R!Poll(s) \/ R!ReadStdin(s) \/ R!StdinEnds(s) \/ R!WriteSocket(s)
               \/ R!ReadSocket(s) \/ R!Killed(s)
      PROVE  RelayInv'
  <2>1. ~udp
    BY <1>3 DEF RelayInv, UdpPlaces, R!Poll, R!ReadStdin, R!StdinEnds, R!WriteSocket, R!ReadSocket, R!Killed
  <2> QED BY <1>3, <2>1, RelayStep
<1>4. CASE UNCHANGED rvars
  BY <1>4 DEF rvars, RelayInv, RelayType, TcpOK, UdpOK, UdpPlaces, Datagram, R!Datagram
<1> QED BY <1>1, <1>2, <1>3, <1>4 DEF R!Next, R!Setup, R!Step

(* Two nc alone, whatever the lengths of their inputs, the size of a read  *)
(* and of a socket's queue: what is read arrives, and all of it from a     *)
(* side that ends, unless a process or a datagram is lost; by UDP, what    *)
(* the one read of the client took arrives and comes back.                 *)
THEOREM RelayIsFaithful == R!RelayConstants => (R!Spec => []R!RelayFaithful)
<1> SUFFICES ASSUME R!RelayConstants PROVE R!Spec => []R!RelayFaithful
  OBVIOUS
<1>1. R!Init => RelayInv
  BY RelayInitInv
<1>2. RelayInv /\ [R!Next]_R!vars => RelayInv'
  BY RelayNextInv DEF rvars, R!vars
<1> QED BY <1>1, <1>2, RelayInvFaithful, PTL DEF R!Spec

-----------------------------------------------------------------------------
(* nc at rest takes no step.                                               *)
LEMMA RelayStays == RelayRests /\ [R!Next]_rvars => RelayRests'
<1> SUFFICES ASSUME RelayRests, R!Next PROVE FALSE
  BY DEF RelayRests, rvars
<1>1. /\ ~udp /\ side["client"].pc = "done" /\ side["server"].pc = "done"
      /\ R!Sides = {"client", "server"}
  BY DEF RelayRests, R!Sides
<1>2. \A s \in R!Sides : ~R!Killed(s) /\ ~R!Step(s)
  BY <1>1 DEF R!Step, R!Poll, R!ReadStdin, R!StdinEnds, R!WriteSocket, R!ReadSocket, R!UdpStart,
              R!Killed
<1>3. ~R!Setup
  BY <1>1 DEF R!Setup, R!tcp_server, R!tcp_client, R!udp_client, R!udp_server, R!UdpAnswer
<1> QED BY <1>2, <1>3 DEF R!Next

(* ... and owes nothing.                                                   *)
LEMMA RelayAtRest == RelayRests => RelayFaithful
BY DEF RelayRests, RelayFaithful, R!RelayFaithful, R!Sides, R!Peer, R!Ended

(* nc delivers the whole input of the side that ends first (tcp_relay), or *)
(* there and back the bytes that the one read before a datagram took,      *)
(* which may be fewer than the input has (udp_client and udp_server of     *)
(* nc.c), for every length of the inputs and every size of a read and of a *)
(* socket's queue.                                                         *)
THEOREM ProgramsRelayFaithful == Spec => []RelayFaithful
<1> DEFINE Inv == RelayInv \/ RelayRests
<1>1. Init => Inv
  BY ProgramsAssumption, RelayInitInv DEF Init
<1>2. Inv /\ [Next]_vars => Inv'
  BY ProgramsAssumption, RelayNextInv, OneAtATime, RelayStays
<1>3. Inv => RelayFaithful
  BY RelayInvFaithful, RelayAtRest DEF RelayFaithful
<1> QED BY <1>1, <1>2, <1>3, PTL DEF Spec

-----------------------------------------------------------------------------
(* init *)

(* The entries of f for a path belong to u; they have mode m.              *)
OwnedBy(f, p, u) == \A e \in f : e.path = p => e.owner = u
HasMode(f, p, m) == \A e \in f : e.path = p => e.mode = m

(* What holds once setup_users has made its first i calls.                 *)
SetUp(i, f) ==
  /\ i >= 1  => OwnedBy(f, "/bin/su", "root")
  /\ i >= 4  => OwnedBy(f, "/etc/shadow", "root")
  /\ i >= 15 => HasMode(f, "/root", "0700")
  /\ i >= 17 => HasMode(f, "/tmp", "1777")
  /\ i >= 25 => OwnedBy(f, "/home/user", "user")
  /\ i >= 27 => HasMode(f, "/etc/shadow", "0600")
  /\ i >= 28 => HasMode(f, "/bin/su", "4755")

Modes == {"0600", "0644", "0700", "0755", "1777", "4755"}
Entries == [path : (UNION Present) \cup I!Paths, owner : {"root", "user"}, mode : Modes]
Systems == SUBSET Entries

(* The calls in their order, as far as the order matters.                  *)
LEMMA SetUpCalls ==
  /\ Len(I!Calls) = 28
  /\ I!Calls[1] = <<"tree", "/bin">> /\ I!Calls[4] = <<"tree", "/etc">>
  /\ I!Calls[15] = <<"chmod", "/root", "0700">> /\ I!Calls[17] = <<"chmod", "/tmp", "1777">>
  /\ I!Calls[25] = <<"chown", "/home/user", "user">>
  /\ I!Calls[27] = <<"chmod", "/etc/shadow", "0600">>
  /\ I!Calls[28] = <<"chmod", "/bin/su", "4755">>
  /\ \A i \in 1 .. 28 : LET c == I!Calls[i] IN
       \/ c[1] = "tree" /\ c[2] \in {"/bin", "/etc", "/var"} /\ i <= 7
       \/ /\ c[1] = "chown" /\ c[2] \in I!Paths /\ i <= 25
          /\ c[3] = "root" \/ (c[3] = "user" /\ i = 25)
       \/ /\ c[1] = "chmod" /\ c[3] \in Modes
          /\ c[2] = "/root" => i <= 15
          /\ c[2] = "/tmp" => i <= 17
          /\ c[2] = "/etc/shadow" => i = 27
       \/ /\ c[1] = "mkdir" /\ c[3] \in Modes
          /\ c[2] \in {"/root", "/tmp", "/var/tmp", "/home", "/home/user"}
          /\ i \in {14, 16, 18, 21, 24}
          /\ c[2] = "/root" => i = 14
          /\ c[2] = "/tmp" => i = 16
<1>1. /\ Len(I!Calls) = 28
      /\ I!Calls[1] = <<"tree", "/bin">> /\ I!Calls[2] = <<"chown", "/bin", "root">>
      /\ I!Calls[3] = <<"chmod", "/bin", "0755">> /\ I!Calls[4] = <<"tree", "/etc">>
      /\ I!Calls[5] = <<"chown", "/etc", "root">> /\ I!Calls[6] = <<"chmod", "/etc", "0755">>
      /\ I!Calls[7] = <<"tree", "/var">> /\ I!Calls[8] = <<"chown", "/var", "root">>
      /\ I!Calls[9] = <<"chmod", "/var", "0755">> /\ I!Calls[10] = <<"chown", "/root", "root">>
      /\ I!Calls[11] = <<"chmod", "/root", "0755">> /\ I!Calls[12] = <<"chown", "/tmp", "root">>
      /\ I!Calls[13] = <<"chmod", "/tmp", "0755">> /\ I!Calls[14] = <<"mkdir", "/root", "0700">>
  BY DEF I!Calls, I!System, I!RootDir
<1>2. /\ I!Calls[15] = <<"chmod", "/root", "0700">> /\ I!Calls[16] = <<"mkdir", "/tmp", "1777">>
      /\ I!Calls[17] = <<"chmod", "/tmp", "1777">> /\ I!Calls[18] = <<"mkdir", "/var/tmp", "1777">>
      /\ I!Calls[19] = <<"chown", "/var/tmp", "root">>
      /\ I!Calls[20] = <<"chmod", "/var/tmp", "1777">>
      /\ I!Calls[21] = <<"mkdir", "/home", "0755">> /\ I!Calls[22] = <<"chown", "/home", "root">>
      /\ I!Calls[23] = <<"chmod", "/home", "0755">>
      /\ I!Calls[24] = <<"mkdir", "/home/user", "0755">>
      /\ I!Calls[25] = <<"chown", "/home/user", "user">>
      /\ I!Calls[26] = <<"chmod", "/home/user", "0755">>
      /\ I!Calls[27] = <<"chmod", "/etc/shadow", "0600">>
      /\ I!Calls[28] = <<"chmod", "/bin/su", "4755">>
  BY DEF I!Calls, I!System, I!RootDir
<1> DEFINE c(i) == I!Calls[i]
<1>3. \A i \in {1, 4, 7} : c(i)[1] = "tree" /\ c(i)[2] \in {"/bin", "/etc", "/var"} /\ i <= 7
  BY <1>1
<1>4. \A i \in {2, 5, 8, 10, 12, 19, 22, 25} :
        /\ c(i)[1] = "chown" /\ c(i)[2] \in I!Paths /\ i <= 25
        /\ c(i)[3] = "root" \/ (c(i)[3] = "user" /\ i = 25)
  BY <1>1, <1>2 DEF I!Paths
<1>5. \A i \in {3, 6, 9, 11, 13, 15, 17, 20, 23, 26, 27, 28} :
        /\ c(i)[1] = "chmod" /\ c(i)[3] \in Modes
        /\ c(i)[2] = "/root" => i <= 15
        /\ c(i)[2] = "/tmp" => i <= 17
        /\ c(i)[2] = "/etc/shadow" => i = 27
  BY <1>1, <1>2 DEF Modes
<1>6. \A i \in {14, 16, 18, 21, 24} :
        /\ c(i)[1] = "mkdir" /\ c(i)[3] \in Modes
        /\ c(i)[2] \in {"/root", "/tmp", "/var/tmp", "/home", "/home/user"}
        /\ c(i)[2] = "/root" => i = 14
        /\ c(i)[2] = "/tmp" => i = 16
  BY <1>1, <1>2 DEF Modes
<1>7. \A i \in 1 .. 28 :
        \/ i \in {1, 4, 7} \/ i \in {2, 5, 8, 10, 12, 19, 22, 25}
        \/ i \in {3, 6, 9, 11, 13, 15, 17, 20, 23, 26, 27, 28} \/ i \in {14, 16, 18, 21, 24}
  OBVIOUS
<1> QED BY <1>1, <1>2, <1>3, <1>4, <1>5, <1>6, <1>7

(* What a call leaves of the entries, and which it adds.                   *)
LEMMA CallEffect ==
  ASSUME NEW f \in SUBSET Entries, NEW i \in 1 .. 28
  PROVE  LET c == I!Calls[i]  g == I!Apply(f, c) IN
         /\ g \in SUBSET Entries
         /\ c[1] \in {"tree", "chown", "chmod", "mkdir"}
         /\ c[1] = "tree" => \A e \in g : \E d \in f :
              /\ e.path = d.path /\ e.mode = d.mode
              /\ e.owner = IF I!Parent(d.path) = c[2] /\ d.path \notin I!Links THEN "root" ELSE d.owner
         /\ c[1] = "chown" => \A e \in g : \E d \in f :
              /\ e.path = d.path /\ e.mode = d.mode
              /\ e.owner = IF d.path = c[2] THEN c[3] ELSE d.owner
         /\ c[1] = "chmod" => \A e \in g : \E d \in f :
              /\ e.path = d.path /\ e.owner = d.owner
              /\ e.mode = IF d.path = c[2] THEN c[3] ELSE d.mode
         /\ c[1] = "mkdir" => \A e \in g : e \in f \/ e = I!Entry(c[2], "root", c[3])
<1> DEFINE c == I!Calls[i]
           g == I!Apply(f, c)
<1>0. /\ f \in SUBSET Entries
      /\ \A e \in f : e.path \in (UNION Present) \cup I!Paths /\ e.owner \in {"root", "user"} /\ e.mode \in Modes
  BY DEF Entries
<1>1. CASE c[1] = "tree"
  <2>1. g = {IF I!Parent(e.path) = c[2] /\ e.path \notin I!Links THEN [e EXCEPT !.owner = "root"] ELSE e : e \in f}
    BY <1>1 DEF I!Apply, I!chown_tree
  <2> QED BY <1>0, <1>1, <2>1 DEF Entries
<1>2. CASE c[1] = "chown"
  <2>1. g = {IF e.path = c[2] THEN [e EXCEPT !.owner = c[3]] ELSE e : e \in f}
    BY <1>2 DEF I!Apply, I!Chown
  <2>2. c[3] \in {"root", "user"}
    BY <1>2, SetUpCalls
  <2> QED BY <1>0, <1>2, <2>1, <2>2 DEF Entries
<1>3. CASE c[1] = "chmod"
  <2>1. g = {IF e.path = c[2] THEN [e EXCEPT !.mode = c[3]] ELSE e : e \in f}
    BY <1>3 DEF I!Apply, I!Chmod
  <2>2. c[3] \in Modes
    BY <1>3, SetUpCalls
  <2> QED BY <1>0, <1>3, <2>1, <2>2 DEF Entries
<1>4. CASE c[1] = "mkdir"
  <2>1. g \subseteq f \cup {I!Entry(c[2], "root", c[3])}
    BY <1>4 DEF I!Apply, I!Mkdir
  <2>2. c[2] \in I!Paths /\ c[3] \in Modes
    BY <1>4, SetUpCalls DEF I!Paths
  <2>3. \A p \in I!Paths, m \in Modes : I!Entry(p, "root", m) \in Entries
    BY DEF I!Entry, Entries
  <2> QED BY <1>4, <2>1, <2>2, <2>3
<1>5. c[1] \in {"tree", "chown", "chmod", "mkdir"}
  BY SetUpCalls
<1> HIDE DEF c, g
<1> QED BY <1>1, <1>2, <1>3, <1>4, <1>5 DEF c, g

(* Each call sets up one thing more and undoes none.                       *)
LEMMA CallSetsUp ==
  ASSUME NEW f \in SUBSET Entries, NEW i \in 1 .. 28, SetUp(i - 1, f)
  PROVE  SetUp(i, I!Apply(f, I!Calls[i]))
<1> DEFINE c == I!Calls[i]
           g == I!Apply(f, c)
<1> SUFFICES SetUp(i, g)
  OBVIOUS
<1>1. I!Parent("/bin/su") = "/bin" /\ I!Parent("/etc/shadow") = "/etc" /\ "/bin/su" \notin I!Links /\ "/etc/shadow" \notin I!Links
  BY DEF I!Parent, I!Links
<1>2. CASE c[1] = "tree"
  <2>1. i <= 7 /\ (i = 1 => c[2] = "/bin") /\ (i = 4 => c[2] = "/etc")
    BY <1>2, SetUpCalls
  <2>2. \A e \in g : \E d \in f :
              /\ e.path = d.path /\ e.mode = d.mode
              /\ e.owner = IF I!Parent(d.path) = c[2] /\ d.path \notin I!Links THEN "root" ELSE d.owner
    BY <1>2, CallEffect
  <2>x. i >= 1 => OwnedBy(g, "/bin/su", "root")
    BY <1>1, <2>1, <2>2 DEF SetUp, OwnedBy
  <2>y. i >= 4  => OwnedBy(g, "/etc/shadow", "root")
    BY <1>1, <2>1, <2>2 DEF SetUp, OwnedBy
  <2> QED BY <2>x, <2>y, <2>1 DEF SetUp
<1>3. CASE c[1] = "chown"
  <2>1. i # 1 /\ i # 4 /\ i # 15 /\ i # 17 /\ i <= 25 /\ (c[3] = "root" \/ i = 25) /\ (i = 25 => c[2] = "/home/user" /\ c[3] = "user")
    BY <1>3, SetUpCalls
  <2>2. \A e \in g : \E d \in f :
              /\ e.path = d.path /\ e.mode = d.mode
              /\ e.owner = IF d.path = c[2] THEN c[3] ELSE d.owner
    BY <1>3, CallEffect
  <2> HIDE DEF c, g
  <2>3. \A p, m : HasMode(f, p, m) => HasMode(g, p, m)
    BY <2>2 DEF HasMode
  <2>4. \A p, u : OwnedBy(f, p, u) /\ (c[2] = p => c[3] = u) => OwnedBy(g, p, u)
    BY <2>2 DEF OwnedBy
  <2>5. i = 25 => OwnedBy(g, "/home/user", "user")
    BY <2>1, <2>2 DEF OwnedBy
  <2> QED BY <2>1, <2>3, <2>4, <2>5 DEF SetUp
<1>4. CASE c[1] = "chmod"
  <2>1. i # 1 /\ i # 4 /\ i # 25 /\ (c[2] = "/root" => i <= 15) /\ (c[2] = "/tmp" => i <= 17) /\ (c[2] = "/etc/shadow" => i = 27)
        /\ (i = 15 => c[2] = "/root" /\ c[3] = "0700") /\ (i = 17 => c[2] = "/tmp" /\ c[3] = "1777")
        /\ (i = 27 => c[2] = "/etc/shadow" /\ c[3] = "0600") /\ (i = 28 => c[2] = "/bin/su" /\ c[3] = "4755")
    BY <1>4, SetUpCalls
  <2>2. \A e \in g : \E d \in f :
              /\ e.path = d.path /\ e.owner = d.owner
              /\ e.mode = IF d.path = c[2] THEN c[3] ELSE d.mode
    BY <1>4, CallEffect
  <2> HIDE DEF c, g
  <2>3. \A p, u : OwnedBy(f, p, u) => OwnedBy(g, p, u)
    BY <2>2 DEF OwnedBy
  <2>4. \A p, m : HasMode(f, p, m) /\ c[2] # p => HasMode(g, p, m)
    BY <2>2 DEF HasMode
  <2>5. HasMode(g, c[2], c[3])
    BY <2>2 DEF HasMode
  <2> QED BY <2>1, <2>3, <2>4, <2>5 DEF SetUp
<1>5. CASE c[1] = "mkdir"
  <2>1. /\ i \notin {1, 4, 15, 17, 25, 27, 28} /\ c[2] \notin {"/bin/su", "/etc/shadow"}
        /\ (c[2] = "/root" => i < 15) /\ (c[2] = "/tmp" => i < 17) /\ i <= 24
    BY <1>5, SetUpCalls
  <2>2. \A e \in g : e \in f \/ e.path = c[2]
    BY <1>5, CallEffect DEF I!Entry
  <2> HIDE DEF c, g
  <2>3. \A p, u : OwnedBy(f, p, u) /\ c[2] # p => OwnedBy(g, p, u)
    BY <2>2 DEF OwnedBy
  <2>4. \A p, m : HasMode(f, p, m) /\ c[2] # p => HasMode(g, p, m)
    BY <2>2 DEF HasMode
  <2> QED BY <2>1, <2>3, <2>4 DEF SetUp
<1> HIDE DEF g
<1>6. c[1] \in {"tree", "chown", "chmod", "mkdir"}
  BY SetUpCalls
<1> QED BY <1>2, <1>3, <1>4, <1>5, <1>6

(* The calls one after the other, from any file system on.                 *)
LEMMA CallsRun ==
  ASSUME NEW f \in Systems
  PROVE  \E g \in [0 .. 28 -> Systems] :
           g[0] = f /\ \A i \in 1 .. 28 : g[i] = I!Apply(g[i - 1], I!Calls[i])
<1> DEFINE n == 28
           V == Systems
           step(i, d) == I!Apply(d, I!Calls[i])
           h == [i \in 1 .. n |-> [d \in V |-> step(i, d)]]
<1>1. \A i \in 1 .. n, d \in V : step(i, d) \in V
  BY CallEffect DEF Systems
<1>2. h \in [1 .. n -> [V -> V]] /\ f \in V /\ n \in Nat
  BY <1>1
<1> HIDE DEF V, n, step
<1>3. PICK g \in [0 .. n -> V] : g[0] = f /\ \A i \in 1 .. n : g[i] = h[i][g[i - 1]]
  <2> HIDE DEF h
  <2> QED BY <1>2, Recursion
<1>4. ASSUME NEW i \in 1 .. n PROVE g[i] = step(i, g[i - 1])
  <2>1. g[i - 1] \in V
    BY <1>2
  <2> QED BY <1>3, <2>1
<1>5. \A i \in 1 .. n : g[i] = step(i, g[i - 1])
  BY <1>4
<1> QED BY <1>3, <1>5 DEF V, n, step

(* setup_users protects the password hashes and su, and gives /home/user   *)
(* to its user, whatever the file system holds.                            *)
LEMMA UsersAreSetUp ==
  ASSUME fs \in Systems, I!setup_users
  PROVE  fs' \in Systems /\ SetUp(28, fs')
<1> DEFINE V == Systems
           step(i, f) == I!Apply(f, I!Calls[i])
           loop(g) == [i \in 0 .. Len(I!Calls) |-> IF i = 0 THEN fs ELSE I!Apply(g[i - 1], I!Calls[i])]
           run == CHOOSE g : g = loop(g)
<1>0. Len(I!Calls) = 28
  BY SetUpCalls
<1>3. PICK g \in [0 .. 28 -> V] : g[0] = fs /\ \A i \in 1 .. 28 : g[i] = step(i, g[i - 1])
  BY CallsRun
<1>5. g = loop(g)
  BY <1>0, <1>3, SMTT(30)
<1>6. run = loop(run)
  <2> HIDE DEF loop
  <2> QED BY <1>5
<1>7. fs' = run[28]
  BY <1>0 DEF I!setup_users
<1>8. run[0] = fs /\ \A i \in 1 .. 28 : run[i] = step(i, run[i - 1])
  <2> HIDE DEF run
  <2>1. run = [i \in 0 .. 28 |-> IF i = 0 THEN fs ELSE I!Apply(run[i - 1], I!Calls[i])]
    BY <1>0, <1>6
  <2>2. run[0] = fs
    BY <2>1
  <2>3. \A i \in 1 .. 28 : i \in 0 .. 28 /\ i # 0
    OBVIOUS
  <2>4. \A i \in 1 .. 28 : run[i] = I!Apply(run[i - 1], I!Calls[i])
    BY <2>1, <2>3, SMTT(30)
  <2> QED BY <2>2, <2>4
<1> HIDE DEF run
<1> DEFINE P == {i \in Nat : i <= 28 => run[i] \in V /\ SetUp(i, run[i])}
<1>9. 0 \in P
  BY <1>8 DEF SetUp
<1>10. ASSUME NEW k \in P PROVE k + 1 \in P
  <2> SUFFICES ASSUME k + 1 <= 28 PROVE run[k + 1] \in V /\ SetUp(k + 1, run[k + 1])
    OBVIOUS
  <2>1. k + 1 \in 1 .. 28 /\ (k + 1) - 1 = k /\ run[k] \in V /\ SetUp(k, run[k])
    OBVIOUS
  <2>2. run[k + 1] = step(k + 1, run[k])
    BY <1>8, <2>1
  <2>3. step(k + 1, run[k]) \in V
    BY <2>1, CallEffect DEF Systems
  <2> QED BY <2>1, <2>2, <2>3, CallSetsUp DEF Systems
<1>11. P = Nat
  <2>1. P \in SUBSET Nat
    OBVIOUS
  <2> HIDE DEF P
  <2> QED BY <1>9, <1>10, <2>1, Induction
<1> QED BY <1>7, <1>11

(* What init guarantees, and that the entries are well formed until then.  *)
InitInv ==
  /\ ipc \in {"setup", "fork", "key", "fail"} => shell = "none"
  /\ ipc = "setup" => fs \in Systems
  /\ ipc # "setup" => SetUp(28, fs)

(* init never runs two shells, and none before /etc/shadow is private and  *)
(* the programs that change user belong to root (setup_users and main of   *)
(* init.c), whatever the file system holds and however many orphans init   *)
(* inherits.                                                               *)
THEOREM ProgramsOneShell == Spec => []OneShell
<1>1. Init => InitInv
  <2>1. ASSUME I!Init PROVE InitInv
    <3>1. PICK s \in Present : \E u \in {"root", "user"} : fs = {I!Entry(p, u, "0644") : p \in s}
      BY <2>1 DEF I!Init
    <3>2. fs \in Systems
      BY <3>1 DEF Systems, Entries, I!Entry, Modes
    <3> QED BY <2>1, <3>2 DEF I!Init, InitInv
  <2>2. ASSUME InitRests PROVE InitInv
    BY <2>2 DEF InitRests, InitInv, SetUp, OwnedBy, HasMode
  <2> QED BY <2>1, <2>2 DEF Init
<1>2. InitInv /\ [Next]_vars => InitInv'
  <2> SUFFICES ASSUME InitInv, [I!Next]_ivars PROVE InitInv'
    BY OneAtATime
  <2>1. CASE I!setup_users
    BY <2>1, UsersAreSetUp DEF InitInv, I!setup_users
  <2>2. CASE ~I!setup_users
    <3>1. UNCHANGED fs
      BY <2>2 DEF I!Next, I!InitStep, I!Fork, I!ReapOrphan, I!ReapShell, I!Key, I!ShellStarts,
         I!ShellEnds, I!Adopt, I!OrphanEnds, ivars
    <3>2. ipc' = "setup" => ipc = "setup"
      BY <2>2 DEF I!Next, I!InitStep, I!Fork, I!ReapOrphan, I!ReapShell, I!Key, I!ShellStarts,
         I!ShellEnds, I!Adopt, I!OrphanEnds, ivars
    <3>3. ipc = "setup" => ipc' = "setup"
      BY <2>2 DEF I!Next, I!InitStep, I!Fork, I!ReapOrphan, I!ReapShell, I!Key, I!ShellStarts,
         I!ShellEnds, I!Adopt, I!OrphanEnds, ivars
    <3>4. ipc' \in {"setup", "fork", "key", "fail"} => shell' = "none"
      BY <2>2 DEF InitInv, I!Next, I!InitStep, I!Fork, I!ReapOrphan, I!ReapShell, I!Key, I!ShellStarts,
         I!ShellEnds, I!Adopt, I!OrphanEnds, ivars
    <3> QED BY <3>1, <3>2, <3>3, <3>4 DEF InitInv
  <2> QED BY <2>1, <2>2
<1>3. InitInv => OneShell
  BY DEF InitInv, OneShell, I!OneShell, SetUp, OwnedBy, HasMode
<1> QED BY <1>1, <1>2, <1>3, PTL DEF Spec

-----------------------------------------------------------------------------
(* httpd and httpget *)

(* The part of s after its first a elements and up to the b-th.            *)
Cut(s, a, b) == SubSeq(s, a + 1, b)

(* What a cut is.                                                          *)
LEMMA CutFacts ==
  ASSUME NEW S, NEW s \in Seq(S), NEW b \in 0 .. Len(s), NEW a \in 0 .. b
  PROVE  /\ Cut(s, a, b) \in Seq(S) /\ Len(Cut(s, a, b)) = b - a
         /\ \A i \in 1 .. b - a : Cut(s, a, b)[i] = s[a + i]
<1>1. Len(s) \in Nat /\ \A i \in 1 .. Len(s) : s[i] \in S
  BY ElementOfSeq, LenProperties
<1>2. a + 1 \in Int /\ b \in Int /\ \A i \in a + 1 .. b : s[i] \in S
  BY <1>1
<1>3. /\ SubSeq(s, a + 1, b) \in Seq(S)
      /\ Len(SubSeq(s, a + 1, b)) = IF a + 1 <= b THEN b - (a + 1) + 1 ELSE 0
      /\ \A i \in 1 .. b - (a + 1) + 1 : SubSeq(s, a + 1, b)[i] = s[a + 1 + i - 1]
  <2> DEFINE m == a + 1
  <2>1. m \in Int /\ b \in Int /\ \A i \in m .. b : s[i] \in S
    BY <1>2
  <2> HIDE DEF m
  <2>2. /\ SubSeq(s, m, b) \in Seq(S)
        /\ Len(SubSeq(s, m, b)) = IF m <= b THEN b - m + 1 ELSE 0
        /\ \A i \in 1 .. b - m + 1 : SubSeq(s, m, b)[i] = s[m + i - 1]
    BY <2>1, SubSeqProperties
  <2> QED BY <2>2 DEF m
<1>4. \A x, y \in Int : x <= y => (IF x + 1 <= y THEN y - (x + 1) + 1 ELSE 0) = y - x /\ y - (x + 1) + 1 = y - x
  OBVIOUS
<1>5. \A i \in 1 .. b - a : a + 1 + i - 1 = a + i
  BY <1>1
<1> QED BY <1>1, <1>3, <1>4, <1>5 DEF Cut

(* A cut of a cut is a cut.                                                *)
LEMMA CutOfCut ==
  ASSUME NEW S, NEW s \in Seq(S), NEW b \in 0 .. Len(s), NEW a \in 0 .. b,
         NEW d \in 0 .. b - a, NEW c \in 0 .. d
  PROVE  Cut(Cut(s, a, b), c, d) = Cut(s, a + c, a + d)
<1>1. Len(s) \in Nat
  BY LenProperties
<1>2. Cut(s, a, b) \in Seq(S) /\ Len(Cut(s, a, b)) = b - a /\ \A i \in 1 .. b - a : Cut(s, a, b)[i] = s[a + i]
  BY CutFacts
<1>3. a + d \in 0 .. Len(s) /\ a + c \in 0 .. a + d /\ d \in 0 .. Len(Cut(s, a, b))
  BY <1>1, <1>2
<1>4. Cut(Cut(s, a, b), c, d) \in Seq(S) /\ Len(Cut(Cut(s, a, b), c, d)) = d - c
      /\ \A i \in 1 .. d - c : Cut(Cut(s, a, b), c, d)[i] = Cut(s, a, b)[c + i]
  BY <1>2, <1>3, CutFacts, ZenonT(30)
<1>5. Cut(s, a + c, a + d) \in Seq(S) /\ Len(Cut(s, a + c, a + d)) = (a + d) - (a + c)
      /\ \A i \in 1 .. (a + d) - (a + c) : Cut(s, a + c, a + d)[i] = s[a + c + i]
  BY <1>3, CutFacts
<1>6. (a + d) - (a + c) = d - c /\ \A i \in 1 .. d - c : c + i \in 1 .. b - a /\ a + (c + i) = a + c + i
  BY <1>1
<1>7. \A i \in 1 .. d - c : Cut(Cut(s, a, b), c, d)[i] = Cut(s, a + c, a + d)[i]
  BY <1>2, <1>4, <1>5, <1>6
<1> QED BY <1>4, <1>5, <1>6, <1>7, SeqEqual

(* Two adjacent cuts together are one.                                     *)
LEMMA CutsJoin ==
  ASSUME NEW S, NEW s \in Seq(S), NEW c \in 0 .. Len(s), NEW b \in 0 .. c, NEW a \in 0 .. b
  PROVE  Cut(s, a, b) \o Cut(s, b, c) = Cut(s, a, c)
<1>1. Len(s) \in Nat
  BY LenProperties
<1>2. a + 1 \in 1 .. Len(s) + 1 /\ b \in (a + 1) - 1 .. Len(s) /\ c \in b .. Len(s)
  BY <1>1
<1> QED BY <1>2, ConcatAdjacentSubSeq DEF Cut

(* What is cut from the beginning of a sequence stays as it grows ...      *)
LEMMA CutOfLonger ==
  ASSUME NEW S, NEW s \in Seq(S), NEW t \in Seq(S), NEW b \in 0 .. Len(s), NEW a \in 0 .. b
  PROVE  Cut(s \o t, a, b) = Cut(s, a, b)
<1>1. Len(s) \in Nat /\ Len(t) \in Nat
  BY LenProperties
<1>2. /\ s \o t \in Seq(S) /\ Len(s \o t) = Len(s) + Len(t)
      /\ \A i \in 1 .. Len(s) + Len(t) : (s \o t)[i] = IF i <= Len(s) THEN s[i] ELSE t[i - Len(s)]
  BY ConcatProperties
<1>3. b \in 0 .. Len(s \o t)
  BY <1>1, <1>2
<1>4. /\ Cut(s \o t, a, b) \in Seq(S) /\ Len(Cut(s \o t, a, b)) = b - a
      /\ \A i \in 1 .. b - a : Cut(s \o t, a, b)[i] = (s \o t)[a + i]
  BY <1>2, <1>3, CutFacts, ZenonT(30)
<1>5. /\ Cut(s, a, b) \in Seq(S) /\ Len(Cut(s, a, b)) = b - a
      /\ \A i \in 1 .. b - a : Cut(s, a, b)[i] = s[a + i]
  BY CutFacts
<1>6. \A i \in 1 .. b - a : a + i \in 1 .. Len(s) + Len(t) /\ a + i <= Len(s)
  BY <1>1
<1>7. \A i \in 1 .. b - a : Cut(s \o t, a, b)[i] = Cut(s, a, b)[i]
  BY <1>2, <1>4, <1>5, <1>6
<1> DEFINE x == Cut(s \o t, a, b)  y == Cut(s, a, b)
<1>8. x \in Seq(S) /\ y \in Seq(S) /\ Len(x) = b - a /\ Len(y) = b - a
      /\ \A i \in 1 .. b - a : x[i] = y[i]
  BY <1>4, <1>5, <1>7
<1> HIDE DEF x, y
<1>9. x = y
  BY <1>8, SeqEqual
<1> QED BY <1>9 DEF x, y

(* ... and the rest of it grows with it.                                   *)
LEMMA RestOfLonger ==
  ASSUME NEW S, NEW s \in Seq(S), NEW t \in Seq(S), NEW a \in 0 .. Len(s)
  PROVE  Cut(s \o t, a, Len(s \o t)) = Cut(s, a, Len(s)) \o t
<1>1. Len(s) \in Nat /\ Len(t) \in Nat
  BY LenProperties
<1>2. /\ s \o t \in Seq(S) /\ Len(s \o t) = Len(s) + Len(t)
      /\ \A i \in 1 .. Len(s) + Len(t) : (s \o t)[i] = IF i <= Len(s) THEN s[i] ELSE t[i - Len(s)]
  BY ConcatProperties
<1>3. Len(s \o t) \in 0 .. Len(s \o t) /\ a \in 0 .. Len(s \o t) /\ Len(s) \in 0 .. Len(s)
  BY <1>1, <1>2
<1>4. /\ Cut(s \o t, a, Len(s \o t)) \in Seq(S) /\ Len(Cut(s \o t, a, Len(s \o t))) = Len(s \o t) - a
      /\ \A i \in 1 .. Len(s \o t) - a : Cut(s \o t, a, Len(s \o t))[i] = (s \o t)[a + i]
  BY <1>2, <1>3, CutFacts, ZenonT(30)
<1>5. /\ Cut(s, a, Len(s)) \in Seq(S) /\ Len(Cut(s, a, Len(s))) = Len(s) - a
      /\ \A i \in 1 .. Len(s) - a : Cut(s, a, Len(s))[i] = s[a + i]
  BY <1>3, CutFacts
<1> DEFINE r == Cut(s, a, Len(s))
<1>6. /\ r \o t \in Seq(S) /\ Len(r \o t) = Len(r) + Len(t)
      /\ \A i \in 1 .. Len(r) + Len(t) : (r \o t)[i] = IF i <= Len(r) THEN r[i] ELSE t[i - Len(r)]
  BY <1>5, ConcatProperties
<1>7. Len(s \o t) - a = Len(r) + Len(t)
  BY <1>1, <1>2, <1>5
<1>8. ASSUME NEW i \in 1 .. Len(r) + Len(t) PROVE Cut(s \o t, a, Len(s \o t))[i] = (r \o t)[i]
  <2>1. a + i \in 1 .. Len(s) + Len(t) /\ Len(r) = Len(s) - a
    BY <1>1, <1>5
  <2>2. CASE i <= Len(r)
    <3>1. a + i <= Len(s) /\ i \in 1 .. Len(s) - a
      BY <1>1, <2>1, <2>2
    <3> QED BY <1>2, <1>4, <1>5, <1>6, <1>7, <2>1, <2>2, <3>1
  <2>3. CASE ~(i <= Len(r))
    <3>1. ~(a + i <= Len(s)) /\ i - Len(r) = (a + i) - Len(s)
      BY <1>1, <2>1, <2>3
    <3> QED BY <1>2, <1>4, <1>6, <1>7, <2>1, <2>3, <3>1
  <2> QED BY <2>2, <2>3
<1> HIDE DEF r
<1>9. Cut(s \o t, a, Len(s \o t)) = r \o t
  BY <1>4, <1>6, <1>7, <1>8, SeqEqual
<1> QED BY <1>9 DEF r
(* The bytes of the files and of what httpd writes itself.                 *)
Bytes ==
  (UNION {{s[i] : i \in DOMAIN s} : s \in Contents})
    \cup {"status and fields", "CR", "LF", "reason"}

(* The files, the header and the text of an error are sequences of bytes.  *)
LEMMA ByteSequences ==
  /\ \A s \in Contents : s \in Seq(Bytes)
  /\ W!Header \in Seq(Bytes) /\ Len(W!Header) = 5
  /\ W!ErrorText \in Seq(Bytes) /\ Len(W!ErrorText) = 1
<1>1. ASSUME NEW s \in Contents PROVE s \in Seq(Bytes)
  <2> DEFINE T == {s[i] : i \in DOMAIN s}
  <2>1. s \in Seq(T)
    BY ProgramsAssumption DEF W!HttpConstants
  <2>2. T \subseteq Bytes
    BY DEF Bytes
  <2> HIDE DEF T
  <2> QED BY <2>1, <2>2, SeqMonotonic
<1>2. "status and fields" \in Bytes /\ "CR" \in Bytes /\ "LF" \in Bytes /\ "reason" \in Bytes
  BY DEF Bytes
<1>3. W!Header \in Seq(Bytes) /\ Len(W!Header) = 5
  <2>1. \A a, b, c, d, e \in Bytes : <<a, b, c, d, e>> \in Seq(Bytes) /\ Len(<<a, b, c, d, e>>) = 5
    OBVIOUS
  <2> QED BY <1>2, <2>1, Zenon DEF W!Header
<1>4. W!ErrorText \in Seq(Bytes) /\ Len(W!ErrorText) = 1
  <2>1. \A a \in Bytes : <<a>> \in Seq(Bytes) /\ Len(<<a>>) = 1
    OBVIOUS
  <2> QED BY <1>2, <2>1, Zenon DEF W!ErrorText
<1> QED BY <1>1, <1>3, <1>4

(* What httpd has sent so far, if nobody touches the file.                 *)
Sent ==
  IF hpc \in {"recv", "parse", "stat"} THEN << >>
  ELSE IF status = 200 THEN W!Header \o Cut(file, 0, offset)
  ELSE W!Header \o W!ErrorText

(* httpget's part of what was sent: it has read the first received bytes,  *)
(* the rest is on its way, and what it has printed begins behind a header  *)
(* end: the right one, unless a segment was cut inside it.                 *)
ClientOK(all) ==
  /\ received \in 0 .. Len(all) /\ wire = Cut(all, received, Len(all))
  /\ include => ~in_headers /\ stdout = Cut(all, 0, received)
  /\ ~include /\ in_headers => stdout = << >> /\ (~split => received <= 1)
  /\ ~include /\ ~in_headers =>
       \E k \in 5 .. received : stdout = Cut(all, k, received) /\ (~split => k = 5)

ServerOK ==
  /\ offset \in 0 .. Len(file)
  /\ hpc \in {"recv", "parse", "stat"} => offset = 0
  /\ hpc = "body" => status = 200 /\ content_length = Len(file)
  /\ hpc = "closed" => content_length = Len(W!Body) /\ (status = 200 => offset = Len(file))

HttpInv ==
  /\ hpc \in {"recv", "parse", "stat", "body", "closed"} /\ gpc \in {"recv", "done"}
  /\ {include, in_headers, split, changed, truncated} \subseteq BOOLEAN
  /\ file \in Contents
  /\ gpc = "done" => hpc = "closed" /\ wire = << >>
  /\ ~changed /\ ~truncated => ServerOK /\ ClientOK(Sent)

(* What has been sent is a sequence of bytes, and begins with the header.  *)
LEMMA SentFacts ==
  ASSUME file \in Contents, offset \in 0 .. Len(file)
  PROVE  /\ Sent \in Seq(Bytes) /\ Len(Sent) \in Nat
         /\ Sent # << >> => Len(Sent) >= 5 /\ \A i \in 1 .. 5 : Sent[i] = W!Header[i]
         /\ hpc \notin {"recv", "parse", "stat"} => Len(Sent) >= 5
<1>1. file \in Seq(Bytes) /\ W!Header \in Seq(Bytes) /\ Len(W!Header) = 5
      /\ W!ErrorText \in Seq(Bytes)
  BY ByteSequences
<1>2. Cut(file, 0, offset) \in Seq(Bytes)
  <2>1. 0 \in 0 .. offset
    BY <1>1, LenProperties
  <2> QED BY <1>1, <2>1, CutFacts
<1>3. ASSUME NEW t \in Seq(Bytes)
      PROVE  /\ W!Header \o t \in Seq(Bytes) /\ Len(W!Header \o t) \in Nat /\ Len(W!Header \o t) >= 5
             /\ \A i \in 1 .. 5 : (W!Header \o t)[i] = W!Header[i]
  <2>1. Len(t) \in Nat
    BY LenProperties
  <2>2. /\ W!Header \o t \in Seq(Bytes) /\ Len(W!Header \o t) = Len(W!Header) + Len(t)
        /\ \A i \in 1 .. Len(W!Header) + Len(t) :
             (W!Header \o t)[i] = IF i <= Len(W!Header) THEN W!Header[i] ELSE t[i - Len(W!Header)]
    BY <1>1, ConcatProperties
  <2> QED BY <1>1, <2>1, <2>2
<1>4. CASE hpc \in {"recv", "parse", "stat"}
  <2>1. Sent = << >> /\ Len(Sent) = 0
    BY <1>4 DEF Sent
  <2> QED BY <1>4, <2>1
<1>5. CASE hpc \notin {"recv", "parse", "stat"} /\ status = 200
  <2>1. Sent = W!Header \o Cut(file, 0, offset)
    BY <1>5 DEF Sent
  <2> QED BY <1>2, <1>3, <2>1
<1>6. CASE hpc \notin {"recv", "parse", "stat"} /\ status # 200
  <2>1. Sent = W!Header \o W!ErrorText
    BY <1>6 DEF Sent
  <2> QED BY <1>1, <1>3, <2>1
<1> QED BY <1>4, <1>5, <1>6


(* httpd sends t: the rest on its way grows, and nothing else changes.     *)
LEMMA Sending ==
  ASSUME NEW all \in Seq(Bytes), NEW t \in Seq(Bytes), NEW new, new = all \o t, ClientOK(all),
         {include, in_headers, split} \subseteq BOOLEAN,
         wire' = wire \o t, UNCHANGED <<include, in_headers, stdout, received, split>>
  PROVE  ClientOK(new)'
<1>1. Len(all) \in Nat /\ Len(t) \in Nat /\ Len(all \o t) = Len(all) + Len(t)
  BY LenProperties, ConcatProperties
<1>2. received \in 0 .. Len(all) /\ received \in 0 .. Len(all \o t)
  BY <1>1 DEF ClientOK
<1>3. wire' = Cut(all \o t, received, Len(all \o t))
  BY <1>2, RestOfLonger DEF ClientOK
<1>4. \A k \in 0 .. received : Cut(all \o t, k, received) = Cut(all, k, received)
  BY <1>2, CutOfLonger
<1>5. 0 \in 0 .. received /\ 5 .. received \subseteq 0 .. received
  BY <1>1, <1>2
<1> QED BY <1>2, <1>3, <1>4, <1>5 DEF ClientOK

(* The first place where the header ends in seg.                           *)
LEMMA FirstEnd ==
  ASSUME NEW seg, NEW n \in Nat, Len(seg) = n, DOMAIN seg = 1 .. n, W!HeaderEnds(seg) # {}
  PROVE  /\ W!First(W!HeaderEnds(seg)) \in 1 .. n
         /\ W!EndsAt(seg, W!First(W!HeaderEnds(seg)))
         /\ \A j \in W!HeaderEnds(seg) : W!First(W!HeaderEnds(seg)) <= j
<1> DEFINE E == W!HeaderEnds(seg)
<1>1. E \in SUBSET Nat /\ E # {} /\ \A i \in E : i \in 1 .. n /\ W!EndsAt(seg, i)
  BY DEF W!HeaderEnds
<1> HIDE DEF E
<1>2. PICK m \in E : \A k \in E : m <= k
  BY <1>1, LeastNumber
<1>3. W!First(E) \in E /\ \A j \in E : W!First(E) <= j
  BY <1>2 DEF W!First
<1>4. W!First(E) \in 1 .. n /\ W!EndsAt(seg, W!First(E))
  BY <1>1, <1>3
<1> QED BY <1>3, <1>4 DEF E

(* A cut of two, and of four.                                              *)
LEMMA ShortCuts ==
  ASSUME NEW S, NEW s \in Seq(S), NEW c \in Nat
  PROVE  /\ c + 2 <= Len(s) => Cut(s, c, c + 2) = <<s[c + 1], s[c + 2]>>
         /\ c + 4 <= Len(s) => Cut(s, c, c + 4) = <<s[c + 1], s[c + 2], s[c + 3], s[c + 4]>>
<1>1. Len(s) \in Nat
  BY LenProperties
<1>2. ASSUME NEW d \in Nat, c <= d, d <= Len(s)
      PROVE  /\ Cut(s, c, d) \in Seq(S) /\ Len(Cut(s, c, d)) = d - c
             /\ \A i \in 1 .. d - c : Cut(s, c, d)[i] = s[c + i] /\ s[c + i] \in S
  <2>1. d \in 0 .. Len(s) /\ c \in 0 .. d
    BY <1>1, <1>2
  <2>2. /\ Cut(s, c, d) \in Seq(S) /\ Len(Cut(s, c, d)) = d - c
        /\ \A i \in 1 .. d - c : Cut(s, c, d)[i] = s[c + i]
    BY <2>1, CutFacts
  <2>3. \A i \in 1 .. d - c : Cut(s, c, d)[i] \in S
    BY <2>2, ElementOfSeq
  <2> QED BY <2>2, <2>3
<1>3. ASSUME c + 2 <= Len(s) PROVE Cut(s, c, c + 2) = <<s[c + 1], s[c + 2]>>
  <2> DEFINE d == c + 2  two == <<s[c + 1], s[c + 2]>>
  <2>1. d \in Nat /\ c <= d /\ d <= Len(s) /\ d - c = 2
    BY <1>3
  <2> HIDE DEF d
  <2>2. /\ Cut(s, c, d) \in Seq(S) /\ Len(Cut(s, c, d)) = 2
        /\ \A i \in 1 .. 2 : Cut(s, c, d)[i] = s[c + i] /\ s[c + i] \in S
    BY <1>2, <2>1
  <2>3. two \in Seq(S) /\ Len(two) = 2 /\ two[1] = s[c + 1] /\ two[2] = s[c + 2]
    <3>1. s[c + 1] \in S /\ s[c + 2] \in S
      BY <2>2
    <3> QED BY <3>1
  <2> HIDE DEF two
  <2>4. \A i \in 1 .. 2 : i = 1 \/ i = 2
    OBVIOUS
  <2>5. \A i \in 1 .. 2 : Cut(s, c, d)[i] = two[i]
    BY <2>2, <2>3, <2>4
  <2>6. Cut(s, c, d) = two
    BY <2>2, <2>3, <2>5, SeqEqual
  <2> QED BY <2>6 DEF d, two
<1>4. ASSUME c + 4 <= Len(s)
      PROVE  Cut(s, c, c + 4) = <<s[c + 1], s[c + 2], s[c + 3], s[c + 4]>>
  <2> DEFINE d == c + 4  four == <<s[c + 1], s[c + 2], s[c + 3], s[c + 4]>>
  <2>1. d \in Nat /\ c <= d /\ d <= Len(s) /\ d - c = 4
    BY <1>4
  <2> HIDE DEF d
  <2>2. /\ Cut(s, c, d) \in Seq(S) /\ Len(Cut(s, c, d)) = 4
        /\ \A i \in 1 .. 4 : Cut(s, c, d)[i] = s[c + i] /\ s[c + i] \in S
    BY <1>2, <2>1
  <2>3. /\ four \in Seq(S) /\ Len(four) = 4 /\ four[1] = s[c + 1] /\ four[2] = s[c + 2]
        /\ four[3] = s[c + 3] /\ four[4] = s[c + 4]
    <3>1. s[c + 1] \in S /\ s[c + 2] \in S /\ s[c + 3] \in S /\ s[c + 4] \in S
      BY <2>2
    <3> QED BY <3>1
  <2> HIDE DEF four
  <2>4. \A i \in 1 .. 4 : i = 1 \/ i = 2 \/ i = 3 \/ i = 4
    OBVIOUS
  <2>5. \A i \in 1 .. 4 : Cut(s, c, d)[i] = four[i]
    BY <2>2, <2>3, <2>4
  <2>6. Cut(s, c, d) = four
    BY <2>2, <2>3, <2>5, SeqEqual
  <2> QED BY <2>6 DEF d, four
<1> QED BY <1>3, <1>4

(* A header end in what was sent is not before the end of the header, and  *)
(* a segment that holds its last four bytes ends it there.                 *)
LEMMA WhereHeaderEnds ==
  ASSUME NEW all \in Seq(Bytes), Len(all) >= 5, \A i \in 1 .. 5 : all[i] = W!Header[i],
         NEW b \in 0 .. Len(all), NEW a \in 0 .. b
  PROVE  /\ \A i \in 1 .. b - a : W!EndsAt(Cut(all, a, b), i) => a + i >= 5
         /\ a <= 1 /\ b >= 5 => 5 - a \in W!HeaderEnds(Cut(all, a, b))
<1> DEFINE seg == Cut(all, a, b)
<1>1. Len(all) \in Nat /\ a \in Nat /\ b \in Nat
  BY LenProperties
<1>2. seg \in Seq(Bytes) /\ Len(seg) = b - a /\ \A i \in 1 .. b - a : seg[i] = all[a + i]
  BY CutFacts
<1>3. DOMAIN seg = 1 .. b - a
  BY <1>1, <1>2, LenProperties
<1>4. /\ all[1] = "status and fields" /\ all[2] = "CR" /\ all[3] = "LF" /\ all[4] = "CR"
      /\ all[5] = "LF"
  <2>1. /\ all[1] = W!Header[1] /\ all[2] = W!Header[2] /\ all[3] = W!Header[3]
        /\ all[4] = W!Header[4] /\ all[5] = W!Header[5]
    OBVIOUS
  <2>2. /\ W!Header[1] = "status and fields" /\ W!Header[2] = "CR" /\ W!Header[3] = "LF"
        /\ W!Header[4] = "CR" /\ W!Header[5] = "LF"
    BY DEF W!Header
  <2> QED BY <2>1, <2>2
<1> HIDE DEF seg
(* The places that a header end compares. *)
<1>5. ASSUME NEW i \in 1 .. b - a, i >= 4
      PROVE  SubSeq(seg, i - 3, i) = <<seg[i - 3], seg[i - 2], seg[i - 1], seg[i]>>
  <2>1. i - 4 \in Nat /\ (i - 4) + 4 <= Len(seg) /\ (i - 4) + 4 = i /\ (i - 4) + 1 = i - 3
        /\ (i - 4) + 2 = i - 2 /\ (i - 4) + 3 = i - 1
    <3>1. i \in Int /\ i >= 4 /\ i <= Len(seg)
      BY <1>1, <1>2, <1>5
    <3> QED BY <3>1
  <2>2. Cut(seg, i - 4, (i - 4) + 4)
          = <<seg[(i - 4) + 1], seg[(i - 4) + 2], seg[(i - 4) + 3], seg[(i - 4) + 4]>>
    BY <1>2, <2>1, ShortCuts
  <2> QED BY <2>1, <2>2 DEF Cut
<1>6. ASSUME NEW i \in 1 .. b - a, i >= 2
      PROVE  SubSeq(seg, i - 1, i) = <<seg[i - 1], seg[i]>>
  <2>1. i - 2 \in Nat /\ (i - 2) + 2 <= Len(seg) /\ (i - 2) + 2 = i /\ (i - 2) + 1 = i - 1
    BY <1>1, <1>2, <1>6
  <2>2. Cut(seg, i - 2, (i - 2) + 2) = <<seg[(i - 2) + 1], seg[(i - 2) + 2]>>
    BY <1>2, <2>1, ShortCuts
  <2> QED BY <2>1, <2>2 DEF Cut
<1>7. ASSUME NEW i \in 1 .. b - a, W!EndsAt(seg, i) PROVE a + i >= 5
  <2>1. CASE i >= 4 /\ SubSeq(seg, i - 3, i) = <<"CR", "LF", "CR", "LF">>
    <3>1. <<seg[i - 3], seg[i - 2], seg[i - 1], seg[i]>> = <<"CR", "LF", "CR", "LF">>
      BY <1>5, <2>1
    <3>2. seg[i - 3] = "CR"
      BY <3>1
    <3>3. i - 3 \in 1 .. b - a
      BY <1>1, <2>1
    <3>4. all[a + (i - 3)] = "CR"
      BY <1>2, <3>2, <3>3
    <3>5. a + (i - 3) # 1
      BY <1>4, <3>4
    <3> QED BY <1>1, <3>3, <3>5
  <2>2. CASE i >= 2 /\ SubSeq(seg, i - 1, i) = <<"LF", "LF">>
    <3>1. seg[i - 1] = "LF" /\ seg[i] = "LF"
      BY <1>6, <2>2
    <3>2. i - 1 \in 1 .. b - a
      BY <1>1, <2>2
    <3>3. all[a + (i - 1)] = "LF" /\ all[a + i] = "LF"
      BY <1>2, <3>1, <3>2
    <3>4. a + i \notin {1, 2, 4} /\ a + (i - 1) \notin {1, 2, 4}
      BY <1>4, <3>3
    <3>5. a + (i - 1) = (a + i) - 1 /\ a + i \in Nat /\ a + i >= 2
      BY <1>1, <2>2
    <3> QED BY <3>4, <3>5
  <2> QED BY <1>7, <2>1, <2>2 DEF W!EndsAt
<1>8. ASSUME a <= 1, b >= 5 PROVE 5 - a \in W!HeaderEnds(seg)
  <2>1. 5 - a \in 1 .. b - a /\ 5 - a >= 4
    BY <1>1, <1>8
  <2>2. SubSeq(seg, (5 - a) - 3, 5 - a) = <<seg[(5 - a) - 3], seg[(5 - a) - 2], seg[(5 - a) - 1], seg[5 - a]>>
    BY <1>5, <2>1
  <2>3. /\ (5 - a) - 3 \in 1 .. b - a /\ (5 - a) - 2 \in 1 .. b - a /\ (5 - a) - 1 \in 1 .. b - a
        /\ a + ((5 - a) - 3) = 2 /\ a + ((5 - a) - 2) = 3 /\ a + ((5 - a) - 1) = 4 /\ a + (5 - a) = 5
    BY <1>1, <1>8
  <2>4. seg[(5 - a) - 3] = "CR" /\ seg[(5 - a) - 2] = "LF" /\ seg[(5 - a) - 1] = "CR" /\ seg[5 - a] = "LF"
    BY <1>2, <1>4, <2>1, <2>3
  <2>5. W!EndsAt(seg, 5 - a)
    BY <2>1, <2>2, <2>4 DEF W!EndsAt
  <2> QED BY <1>3, <2>1, <2>5 DEF W!HeaderEnds
<1>9. (\A i \in 1 .. b - a : W!EndsAt(seg, i) => a + i >= 5)
      /\ (a <= 1 /\ b >= 5 => 5 - a \in W!HeaderEnds(seg))
  BY <1>7, <1>8
<1> QED BY <1>9 DEF seg

(* httpget reads a segment of what was sent.                               *)
LEMMA Reading ==
  ASSUME NEW all \in Seq(Bytes), all # << >> => Len(all) >= 5 /\ \A i \in 1 .. 5 : all[i] = W!Header[i],
         ClientOK(all), {include, in_headers, split} \subseteq BOOLEAN, W!read_body
  PROVE  ClientOK(all)' /\ {include, in_headers, split}' \subseteq BOOLEAN
<1>1. Len(all) \in Nat /\ received \in 0 .. Len(all)
  BY LenProperties DEF ClientOK
<1>2. Len(all) \in 0 .. Len(all) /\ received \in 0 .. Len(all)
  BY <1>1
<1>3. wire = Cut(all, received, Len(all)) /\ wire \in Seq(Bytes) /\ Len(wire) = Len(all) - received
  BY <1>2, CutFacts DEF ClientOK
<1>4. all # << >>
  <2>1. wire # << >>
    BY DEF W!read_body
  <2>2. ASSUME all = << >> PROVE FALSE
    <3>1. Len(all) = 0
      BY <2>2
    <3>2. Len(wire) = 0
      <4>1. received = 0
        BY <1>1, <3>1
      <4> QED BY <1>3, <3>1, <4>1
    <3> QED BY <1>3, <2>1, <3>2, EmptySeq
  <2> QED BY <2>2
<1>5. PICK n \in 1 .. W!Lesser(Segment, Len(wire)) :
        LET seg == SubSeq(wire, 1, n)
            r == IF in_headers THEN W!BodyOf(seg) ELSE [in_headers |-> FALSE, body |-> seg]
        IN /\ in_headers' = r.in_headers
           /\ stdout' = stdout \o r.body
           /\ wire' = SubSeq(wire, n + 1, Len(wire))
           /\ received' = received + n
  BY DEF W!read_body
<1>6. n \in 1 .. Len(all) - received
  BY <1>1, <1>3, ProgramsAssumption DEF W!Lesser, W!HttpConstants
<1> DEFINE seg == Cut(all, received, received + n)
<1>7. received + n \in 0 .. Len(all) /\ received \in 0 .. received + n /\ n \in 0 .. Len(all) - received
      /\ 0 \in 0 .. n /\ Len(all) - received \in 0 .. Len(all) - received
      /\ n \in 0 .. Len(all) - received /\ received + 0 = received
      /\ received + (Len(all) - received) = Len(all) /\ (received + n) - received = n /\ n \in Nat
  BY <1>1, <1>6
<1>8. SubSeq(wire, 1, n) = seg
  <2>1. Cut(wire, 0, n) = Cut(all, received + 0, received + n)
    BY <1>2, <1>3, <1>7, CutOfCut, ZenonT(30)
  <2>2. Cut(wire, 0, n) = SubSeq(wire, 1, n)
    BY DEF Cut
  <2> QED BY <1>7, <2>1, <2>2
<1>9. SubSeq(wire, n + 1, Len(wire)) = Cut(all, received + n, Len(all))
  <2>1. Cut(wire, n, Len(all) - received) = Cut(all, received + n, received + (Len(all) - received))
    BY <1>2, <1>3, <1>7, CutOfCut, ZenonT(30)
  <2>2. Cut(wire, n, Len(all) - received) = SubSeq(wire, n + 1, Len(wire))
    BY <1>3 DEF Cut
  <2> QED BY <1>7, <2>1, <2>2
<1>10. seg \in Seq(Bytes) /\ Len(seg) = n
  BY <1>7, CutFacts
<1>11. DOMAIN seg = 1 .. n
  BY <1>10, LenProperties
<1>12. /\ (\A i \in 1 .. n : W!EndsAt(seg, i) => received + i >= 5)
       /\ (received <= 1 /\ received + n >= 5 => 5 - received \in W!HeaderEnds(seg))
  <2>1. Len(all) >= 5 /\ \A i \in 1 .. 5 : all[i] = W!Header[i]
    BY <1>4
  <2> QED BY <1>7, <2>1, WhereHeaderEnds
<1>13. \A i \in 0 .. n : SubSeq(seg, i + 1, Len(seg)) = Cut(all, received + i, received + n)
  <2>1. SUFFICES ASSUME NEW i \in 0 .. n
                 PROVE SubSeq(seg, i + 1, Len(seg)) = Cut(all, received + i, received + n)
    OBVIOUS
  <2>2. n \in 0 .. (received + n) - received
    BY <1>7
  <2>3. Cut(Cut(all, received, received + n), i, n) = Cut(all, received + i, received + n)
    BY <1>7, <2>2, CutOfCut
  <2>4. Cut(seg, i, n) = SubSeq(seg, i + 1, Len(seg))
    BY <1>10 DEF Cut
  <2> QED BY <2>3, <2>4
<1>14. /\ received' = received + n /\ wire' = Cut(all, received', Len(all)) /\ received' \in 0 .. Len(all)
  BY <1>5, <1>7, <1>9
<1>15. include' = include /\ split' = (split \/ received' \in 2 .. 4)
  <2>1. Len(W!Header) - 1 = 4
    BY ByteSequences
  <2> QED BY <2>1 DEF W!read_body
<1> HIDE DEF seg
<1>16. CASE ~in_headers
  <2>1. in_headers' = FALSE /\ stdout' = stdout \o seg
    BY <1>5, <1>8, <1>16
  <2>2. \A k \in 0 .. received : Cut(all, k, received) \o seg = Cut(all, k, received')
    BY <1>7, <1>14, CutsJoin DEF seg
  <2>3. CASE include
    <3>1. stdout' = Cut(all, 0, received')
      <4>1. stdout = Cut(all, 0, received) /\ 0 \in 0 .. received
        BY <1>1, <2>3 DEF ClientOK
      <4> QED BY <2>1, <2>2, <4>1
    <3> QED BY <1>14, <1>15, <2>1, <2>3, <3>1 DEF ClientOK
  <2>4. CASE ~include
    <3>1. PICK k \in 5 .. received : stdout = Cut(all, k, received) /\ (~split => k = 5)
      BY <1>16, <2>4 DEF ClientOK
    <3>2. k \in 0 .. received /\ k \in 5 .. received'
      BY <1>1, <1>7, <1>14
    <3>3. stdout' = Cut(all, k, received')
      BY <2>1, <2>2, <3>1, <3>2
    <3>4. ~split' => k = 5
      BY <1>15, <3>1
    <3> QED BY <1>14, <1>15, <2>1, <2>4, <3>2, <3>3, <3>4 DEF ClientOK
  <2> QED BY <2>3, <2>4
<1>17. CASE in_headers /\ W!HeaderEnds(seg) = {}
  <2>1. in_headers' = TRUE /\ stdout' = stdout \o << >>
    BY <1>5, <1>8, <1>17 DEF W!BodyOf
  <2>2. ~include /\ stdout = << >> /\ (~split => received <= 1)
    BY <1>17 DEF ClientOK
  <2>3. stdout' = << >>
    BY <2>1, <2>2
  <2>4. ~split' => received' <= 1
    <3>1. SUFFICES ASSUME ~split' PROVE received' <= 1
      OBVIOUS
    <3>2. received <= 1 /\ received' \notin 2 .. 4
      BY <1>15, <2>2, <3>1
    <3>3. ~(received + n >= 5)
      BY <1>12, <1>17, <3>2
    <3> QED BY <1>7, <1>14, <3>2, <3>3, SMTT(30)
  <2> QED BY <1>14, <1>15, <2>1, <2>2, <2>3, <2>4 DEF ClientOK
<1>18. CASE in_headers /\ W!HeaderEnds(seg) # {}
  <2> DEFINE i == W!First(W!HeaderEnds(seg))
  <2>1. i \in 1 .. n /\ W!EndsAt(seg, i) /\ \A j \in W!HeaderEnds(seg) : i <= j
    BY <1>7, <1>10, <1>11, <1>18, FirstEnd
  <2>2. in_headers' = FALSE /\ stdout' = stdout \o SubSeq(seg, i + 1, Len(seg))
    BY <1>5, <1>8, <1>18 DEF W!BodyOf
  <2> HIDE DEF i
  <2>3. ~include /\ stdout = << >> /\ (~split => received <= 1)
    BY <1>18 DEF ClientOK
  <2>4. received + i \in 5 .. received' /\ i \in 0 .. n
    BY <1>1, <1>7, <1>12, <1>14, <2>1
  <2>5. stdout' = Cut(all, received + i, received')
    <3>1. SubSeq(seg, i + 1, Len(seg)) = Cut(all, received + i, received')
      BY <1>13, <1>14, <2>4
    <3>2. received' \in 0 .. Len(all) /\ received + i \in 0 .. received'
      BY <1>1, <1>14, <2>4
    <3>3. Cut(all, received + i, received') \in Seq(Bytes)
      BY <3>2, CutFacts
    <3> QED BY <2>2, <2>3, <3>1, <3>3, ConcatEmptySeq
  <2>6. ~split' => received + i = 5
    <3>1. SUFFICES ASSUME ~split' PROVE received + i <= 5
      BY <1>1, <2>4
    <3>2. received <= 1
      BY <1>15, <2>3, <3>1
    <3>3. received' >= 5
      BY <1>1, <1>14, <2>4
    <3>4. i <= 5 - received
      BY <1>12, <1>14, <2>1, <3>2, <3>3
    <3> QED BY <1>1, <2>1, <3>2, <3>4
  <2> QED BY <1>14, <1>15, <2>2, <2>3, <2>4, <2>5, <2>6 DEF ClientOK
<1>19. {include, in_headers, split}' \subseteq BOOLEAN
  <2>1. in_headers' \in BOOLEAN
    BY <1>5, <1>8 DEF W!BodyOf
  <2> QED BY <1>15, <2>1
<1> QED BY <1>16, <1>17, <1>18, <1>19

(* The states in which the invariant holds include all initial ones ...    *)
LEMMA HttpInit == W!Init => HttpInv
<1> SUFFICES ASSUME W!Init PROVE HttpInv
  OBVIOUS
<1>1. /\ hpc = "recv" /\ gpc = "recv" /\ include \in BOOLEAN /\ in_headers = ~include
      /\ split = FALSE /\ changed = FALSE /\ truncated = FALSE /\ file \in Contents
      /\ offset = 0 /\ wire = << >> /\ stdout = << >> /\ received = 0
  BY DEF W!Init
<1>2. Len(file) \in Nat
  BY <1>1, ByteSequences, LenProperties
<1>3. Sent = << >> /\ Len(Sent) = 0
  BY <1>1 DEF Sent
<1>4. Cut(Sent, 0, 0) = << >>
  <2>1. << >> \in Seq(Bytes) /\ 0 \in 0 .. Len(<< >>) /\ 0 \in 0 .. 0
    OBVIOUS
  <2>2. Cut(<< >>, 0, 0) \in Seq(Bytes) /\ Len(Cut(<< >>, 0, 0)) = 0 - 0
    BY <2>1, CutFacts
  <2> QED BY <1>3, <2>2, EmptySeq
<1>5. ClientOK(Sent)
  <2>1. received \in 0 .. Len(Sent) /\ wire = Cut(Sent, received, Len(Sent))
    BY <1>1, <1>3, <1>4
  <2>2. stdout = Cut(Sent, 0, received)
    BY <1>1, <1>4
  <2>3. include => ~in_headers
    BY <1>1, Zenon
  <2>4. ~include => in_headers
    BY <1>1, Zenon
  <2>5. received <= 1
    BY <1>1
  <2> QED BY <1>1, <2>1, <2>2, <2>3, <2>4, <2>5 DEF ClientOK
<1>6. ServerOK
  BY <1>1, <1>2 DEF ServerOK
<1> QED BY <1>1, <1>5, <1>6 DEF HttpInv

(* The part of the invariant that a changed file does not matter to.       *)
HttpTypes ==
  /\ hpc \in {"recv", "parse", "stat", "body", "closed"} /\ gpc \in {"recv", "done"}
  /\ {include, in_headers, split, changed, truncated} \subseteq BOOLEAN
  /\ file \in Contents
  /\ gpc = "done" => hpc = "closed" /\ wire = << >>

(* ... and every step leads from one of them to another.                   *)
LEMMA HttpNext == HttpInv /\ W!Next => HttpInv'
<1> SUFFICES ASSUME HttpInv, W!Next PROVE HttpInv'
  OBVIOUS
<1>1. HttpTypes /\ (~changed /\ ~truncated => ServerOK /\ ClientOK(Sent))
  BY DEF HttpInv, HttpTypes
<1>2. file \in Seq(Bytes) /\ Len(file) \in Nat
  BY <1>1, ByteSequences, LenProperties DEF HttpTypes
<1>3. ServerOK =>
        /\ Sent \in Seq(Bytes) /\ Len(Sent) \in Nat
        /\ Sent # << >> => Len(Sent) >= 5 /\ \A i \in 1 .. 5 : Sent[i] = W!Header[i]
        /\ hpc \notin {"recv", "parse", "stat"} => Len(Sent) >= 5
  BY <1>1, SentFacts DEF HttpTypes, ServerOK
(* Before the answer, nothing has been sent. *)
<1>4. ASSUME hpc \in {"recv", "parse", "stat"}, hpc' \in {"recv", "parse", "stat"},
             UNCHANGED <<file, offset, changed, truncated, wire, gpc>>,
             UNCHANGED <<include, in_headers, stdout, received, split>>
      PROVE  HttpInv'
  <2>1. Sent = << >> /\ Sent' = << >>
    BY <1>4 DEF Sent
  <2>2. ClientOK(Sent) => ClientOK(Sent)'
    BY <1>4, <2>1 DEF ClientOK
  <2>3. ServerOK => ServerOK'
    BY <1>4 DEF ServerOK
  <2>4. HttpTypes'
    BY <1>1, <1>4 DEF HttpTypes
  <2> QED BY <1>1, <1>4, <2>2, <2>3, <2>4 DEF HttpInv, HttpTypes
(* An answer that is only a header, or a header and an error. *)
<1>5. ASSUME hpc \in {"recv", "parse", "stat"}, UNCHANGED <<file, offset, changed, truncated, gpc>>,
             UNCHANGED <<include, in_headers, stdout, received, split>>,
             NEW t \in Seq(Bytes), wire' = wire \o t, Sent' = t, hpc' \in {"body", "closed"},
             ServerOK => ServerOK'
      PROVE  HttpInv'
  <2>1. Sent = << >> /\ << >> \in Seq(Bytes) /\ << >> \o t = t
    BY <1>5 DEF Sent
  <2>2. ClientOK(Sent) => ClientOK(Sent)'
    <3>1. SUFFICES ASSUME ClientOK(<< >>) PROVE ClientOK(Sent)'
      BY <2>1
    <3>2. ClientOK(t)'
      BY <1>1, <1>5, <2>1, <3>1, Sending DEF HttpTypes
    <3> QED BY <1>5, <2>1, <3>2 DEF ClientOK
  <2>3. HttpTypes'
    BY <1>1, <1>5 DEF HttpTypes
  <2> QED BY <1>1, <1>5, <2>2, <2>3 DEF HttpInv, HttpTypes
<1>6. CASE W!Recv
  <2>1. hpc = "recv" /\ hpc' \in {"parse", "recv"}
    BY <1>6 DEF W!Recv
  <2> QED BY <1>4, <1>6, <2>1 DEF W!Recv, W!served, W!client
<1>7. CASE W!RecvEnd
  BY <1>4, <1>7 DEF W!RecvEnd, W!served, W!client
<1>8. CASE W!Parse
  <2>1. /\ hpc = "parse" /\ UNCHANGED W!served /\ UNCHANGED W!client
        /\ (\E s \in {400, 403, 404, 405, 414} : W!send_error(s)) \/ (hpc' = "stat" /\ UNCHANGED wire)
    BY <1>8 DEF W!Parse
  <2>2. CASE hpc' = "stat" /\ UNCHANGED wire
    BY <1>4, <2>1, <2>2 DEF W!served, W!client
  <2>3. CASE \E s \in {400, 403, 404, 405, 414} : W!send_error(s)
    <3> DEFINE t == W!Header \o W!ErrorText
    <3>1. /\ status' \in {400, 403, 404, 405, 414} /\ wire' = wire \o W!Header \o W!ErrorText
          /\ content_length' = Len(W!ErrorText) /\ hpc' = "closed"
      BY <2>3 DEF W!send_error
    <3>2. status' # 200
      BY <3>1
    <3>3. Sent' = t
      BY <3>1, <3>2 DEF Sent
    <3>4. W!Body' = W!ErrorText
      BY <3>2 DEF W!Body
    <3>5. ServerOK => ServerOK'
      BY <2>1, <3>1, <3>2, <3>4 DEF ServerOK, W!served
    <3>6. t \in Seq(Bytes)
      BY ByteSequences, ConcatProperties
    <3>7. ServerOK /\ ClientOK(Sent) => wire' = wire \o t
      <4>1. SUFFICES ASSUME ServerOK, ClientOK(Sent) PROVE wire' = wire \o t
        OBVIOUS
      <4>2. wire \in Seq(Bytes)
        <5>1. received \in 0 .. Len(Sent) /\ Len(Sent) \in 0 .. Len(Sent) /\ Sent \in Seq(Bytes)
          BY <1>3, <4>1 DEF ClientOK
        <5>2. Cut(Sent, received, Len(Sent)) \in Seq(Bytes)
          BY <5>1, CutFacts
        <5> QED BY <4>1, <5>2 DEF ClientOK
      <4> QED BY <3>1, <4>2, ByteSequences, ConcatAssociative, SMTT(30)
    <3> HIDE DEF t
    <3>8. CASE changed \/ truncated
      <4>1. HttpTypes' /\ (changed' \/ truncated')
        BY <1>1, <2>1, <3>1, <3>8 DEF HttpTypes, W!served, W!client
      <4> QED BY <4>1 DEF HttpInv, HttpTypes
    <3>9. CASE ~changed /\ ~truncated
      <4>1. wire' = wire \o t
        BY <1>1, <3>7, <3>9
      <4> QED BY <1>5, <2>1, <3>1, <3>3, <3>5, <3>6, <4>1 DEF W!served, W!client
    <3> QED BY <1>1, <3>8, <3>9 DEF HttpTypes
  <2> QED BY <2>1, <2>2, <2>3
<1>9. CASE W!SendHeader
  <2>1. /\ hpc = "stat" /\ content_length' = Len(file) /\ status' = 200 /\ wire' = wire \o W!Header
        /\ hpc' = "body" /\ UNCHANGED W!served /\ UNCHANGED W!client
    BY <1>9 DEF W!SendHeader
  <2>2. CASE changed \/ truncated
    <3>1. HttpTypes' /\ (changed' \/ truncated')
      BY <1>1, <2>1, <2>2 DEF HttpTypes, W!served, W!client
    <3> QED BY <3>1 DEF HttpInv, HttpTypes
  <2>3. CASE ~changed /\ ~truncated
    <3>0. ServerOK
      BY <1>1, <2>3
    <3>1. offset' = offset /\ file' = file
      BY <2>1 DEF W!served
    <3>2. offset = 0
      BY <2>1, <3>0 DEF ServerOK
    <3>3. Cut(file, 0, 0) = << >>
      <4>1. 0 \in 0 .. Len(file) /\ 0 \in 0 .. 0
        BY <1>2
      <4>2. Cut(file, 0, 0) \in Seq(Bytes) /\ Len(Cut(file, 0, 0)) = 0 - 0
        BY <1>2, <4>1, CutFacts
      <4> QED BY <4>2, EmptySeq
    <3>4. Sent' = W!Header
      <4>1. Sent' = W!Header \o Cut(file, 0, 0)
        BY <2>1, <3>1, <3>2 DEF Sent
      <4> QED BY <3>3, <4>1, ByteSequences, ConcatEmptySeq
    <3>5. ServerOK => ServerOK'
      BY <1>2, <2>1, <3>1, <3>2 DEF ServerOK
    <3> QED BY <1>5, <2>1, <3>4, <3>5, ByteSequences DEF W!served, W!client
  <2> QED BY <1>1, <2>2, <2>3 DEF HttpTypes
<1>10. CASE W!SendBody
  <2>1. /\ hpc = "body" /\ UNCHANGED <<status, content_length, file, changed>> /\ UNCHANGED W!client
        /\ hpc' \in {"body", "closed"}
    BY <1>10 DEF W!SendBody
  <2>2. gpc # "done" /\ truncated' \in BOOLEAN
    BY <1>1, <1>10, <2>1 DEF HttpTypes, W!SendBody
  <2>3. HttpTypes'
    BY <1>1, <2>1, <2>2 DEF HttpTypes, W!client
  <2>4. CASE changed \/ truncated \/ truncated'
    <3>1. changed' \/ truncated'
      BY <1>10, <2>1, <2>4 DEF W!SendBody
    <3> QED BY <2>3, <3>1 DEF HttpInv, HttpTypes
  <2>5. CASE ~changed /\ ~truncated /\ ~truncated'
    <3>1. ServerOK /\ ClientOK(Sent) /\ status = 200 /\ content_length = Len(file)
      BY <1>1, <2>1, <2>5 DEF ServerOK
    <3>2. Sent \in Seq(Bytes) /\ offset \in 0 .. Len(file) /\ Sent = W!Header \o Cut(file, 0, offset)
      BY <1>3, <2>1, <3>1 DEF ServerOK, Sent
    <3>3. Sent' = W!Header \o Cut(file, 0, offset')
      BY <2>1, <3>1 DEF Sent
    <3>4. W!Body' = file
      BY <2>1, <3>1 DEF W!Body
    <3>5. ASSUME hpc' = "body", NEW n \in 1 .. Len(file) - offset, offset' = offset + n,
                 wire' = wire \o SubSeq(file, offset + 1, offset + n)
          PROVE  HttpInv'
      <4> DEFINE t == Cut(file, offset, offset + n)
      <4>1. /\ offset + n \in 0 .. Len(file) /\ offset \in 0 .. offset + n /\ 0 \in 0 .. offset
        BY <1>2, <3>2, <3>5
      <4>2. t \in Seq(Bytes) /\ Cut(file, 0, offset) \in Seq(Bytes)
        BY <1>2, <3>2, <4>1, CutFacts
      <4>3. Cut(file, 0, offset) \o t = Cut(file, 0, offset + n)
        BY <1>2, <4>1, CutsJoin
      <4>4. wire' = wire \o t
        BY <3>5 DEF Cut
      <4> HIDE DEF t
      <4>5. Sent' = Sent \o t
        <5>1. W!Header \in Seq(Bytes)
          BY ByteSequences
        <5>2. (W!Header \o Cut(file, 0, offset)) \o t = W!Header \o (Cut(file, 0, offset) \o t)
          BY <4>2, <5>1, ConcatAssociative, SMTT(30)
        <5> QED BY <3>2, <3>3, <3>5, <4>3, <5>2
      <4>6. ClientOK(Sent)'
        <5>1. PICK all \in Seq(Bytes) : all = Sent
          BY <3>2
        <5>2. ClientOK(all)
          BY <3>1, <5>1
        <5>3. {include, in_headers, split} \subseteq BOOLEAN
              /\ UNCHANGED <<include, in_headers, stdout, received, split>>
          BY <1>1, <2>1 DEF HttpTypes, W!client
        <5>4. PICK new : new = all \o t
          OBVIOUS
        <5>5. ClientOK(new)'
          BY <4>2, <4>4, <5>2, <5>3, <5>4, Sending
        <5>6. Sent' = new
          BY <4>5, <5>1, <5>4
        <5> QED BY <5>5, <5>6 DEF ClientOK
      <4>7. ServerOK'
        BY <2>1, <3>1, <3>5, <4>1 DEF ServerOK
      <4> QED BY <2>3, <4>6, <4>7 DEF HttpInv, HttpTypes
    <3>6. ASSUME hpc' = "closed", offset >= Len(file), UNCHANGED <<wire, offset>>
          PROVE  HttpInv'
      <4>1. offset = Len(file)
        BY <1>2, <3>2, <3>6
      <4>2. ServerOK'
        BY <2>1, <3>1, <3>2, <3>4, <3>6, <4>1 DEF ServerOK
      <4>3. ClientOK(Sent)'
        BY <2>1, <3>1, <3>2, <3>3, <3>6 DEF ClientOK, W!client
      <4> QED BY <2>3, <4>2, <4>3 DEF HttpInv, HttpTypes
    <3>7. \/ hpc' = "closed" /\ offset >= Len(file) /\ UNCHANGED <<wire, offset>>
          \/ /\ hpc' = "body"
             /\ \E n \in 1 .. Len(file) - offset :
                  /\ offset' = offset + n
                  /\ wire' = wire \o SubSeq(file, offset + 1, offset + n)
      BY <1>10, <2>1, <2>5 DEF W!SendBody
    <3> QED BY <3>5, <3>6, <3>7
  <2> QED BY <1>1, <2>2, <2>4, <2>5 DEF HttpTypes
<1>11. CASE W!FileChanges
  <2>1. HttpTypes' /\ changed'
    BY <1>1, <1>11 DEF W!FileChanges, HttpTypes, W!client
  <2> QED BY <2>1 DEF HttpInv, HttpTypes
<1>12. CASE W!read_body
  <2>1. /\ gpc = "recv" /\ gpc' = gpc /\ UNCHANGED <<hpc, status, content_length, include>>
        /\ UNCHANGED W!served
    BY <1>12 DEF W!read_body
  <2>2. Sent' = Sent /\ W!Body' = W!Body
    BY <2>1 DEF Sent, Cut, W!Body, W!served
  <2>3. ServerOK => ServerOK'
    BY <2>1, <2>2 DEF ServerOK, W!served
  <2>4. {include, in_headers, split}' \subseteq BOOLEAN
    <3>1. PICK n \in 1 .. W!Lesser(Segment, Len(wire)) :
            in_headers' = (IF in_headers THEN W!BodyOf(SubSeq(wire, 1, n))
                           ELSE [in_headers |-> FALSE, body |-> SubSeq(wire, 1, n)]).in_headers
      BY <1>12 DEF W!read_body
    <3>2. in_headers' \in BOOLEAN
      BY <3>1 DEF W!BodyOf
    <3> QED BY <1>1, <1>12, <2>1, <3>2 DEF W!read_body, HttpTypes
  <2>5. HttpTypes'
    BY <1>1, <2>1, <2>4 DEF HttpTypes, W!served
  <2>6. ServerOK /\ ClientOK(Sent) => ClientOK(Sent)'
    <3>1. SUFFICES ASSUME ServerOK, ClientOK(Sent) PROVE ClientOK(Sent)'
      OBVIOUS
    <3>2. PICK all \in Seq(Bytes) : all = Sent
      BY <1>3, <3>1
    <3>3. all # << >> => Len(all) >= 5 /\ \A i \in 1 .. 5 : all[i] = W!Header[i]
      BY <1>3, <3>1, <3>2
    <3>4. ClientOK(all)
      BY <3>1, <3>2
    <3>5. {include, in_headers, split} \subseteq BOOLEAN
      BY <1>1 DEF HttpTypes
    <3>6. ClientOK(all)'
      BY <1>12, <3>3, <3>4, <3>5, Reading
    <3>7. Sent' = all
      BY <2>2, <3>2
    <3> QED BY <3>6, <3>7 DEF ClientOK
  <2> QED BY <1>1, <2>1, <2>3, <2>5, <2>6 DEF HttpInv, HttpTypes, W!served
<1>13. CASE W!ReadEnd
  <2>1. Sent' = Sent /\ W!Body' = W!Body
    BY <1>13 DEF W!ReadEnd, Sent, Cut, W!Body, W!served
  <2>2. (ServerOK => ServerOK') /\ (ClientOK(Sent) => ClientOK(Sent)')
    BY <1>13, <2>1 DEF W!ReadEnd, ServerOK, ClientOK, W!served
  <2>3. HttpTypes'
    BY <1>1, <1>13 DEF W!ReadEnd, HttpTypes, W!served
  <2>4. UNCHANGED <<changed, truncated>>
    BY <1>13 DEF W!ReadEnd, W!served
  <2> QED BY <1>1, <2>2, <2>3, <2>4 DEF HttpInv, HttpTypes
<1> QED BY <1>6, <1>7, <1>8, <1>9, <1>10, <1>11, <1>12, <1>13 DEF W!Next

(* What the invariant says of a client that is done.                       *)
LEMMA HttpDone == HttpInv => W!HttpExact
<1> SUFFICES ASSUME HttpInv, gpc = "done", ~changed, ~truncated
             PROVE  /\ content_length = Len(W!Body)
                    /\ include => stdout = W!Header \o W!Body
                    /\ ~include => W!IsSuffixOf(stdout, W!Body)
                    /\ ~include /\ ~split => stdout = W!Body
  BY DEF W!HttpExact
<1>1. /\ hpc = "closed" /\ wire = << >> /\ ServerOK /\ ClientOK(Sent) /\ file \in Contents
      /\ {include, in_headers, split} \subseteq BOOLEAN
  BY DEF HttpInv
<1>2. /\ content_length = Len(W!Body) /\ offset \in 0 .. Len(file)
      /\ status = 200 => offset = Len(file)
  BY <1>1 DEF ServerOK
<1>3. file \in Seq(Bytes) /\ Len(file) \in Nat
  BY <1>1, ByteSequences, LenProperties
<1>4. W!Body \in Seq(Bytes) /\ Sent = W!Header \o W!Body
  <2>1. CASE status = 200
    <3>1. SubSeq(file, 1, Len(file)) = file
      BY <1>3, SubSeqFull
    <3>2. Cut(file, 0, offset) = file
      BY <1>2, <2>1, <3>1 DEF Cut
    <3> QED BY <1>1, <1>3, <2>1, <3>2 DEF Sent, W!Body
  <2>2. CASE status # 200
    BY <1>1, <2>2, ByteSequences DEF Sent, W!Body
  <2> QED BY <2>1, <2>2
<1> DEFINE n == Len(W!Body)
<1>5. /\ Sent \in Seq(Bytes) /\ Len(Sent) = 5 + n /\ n \in Nat
      /\ \A i \in 1 .. 5 + n : Sent[i] = IF i <= 5 THEN W!Header[i] ELSE W!Body[i - 5]
  <2>1. W!Header \in Seq(Bytes) /\ Len(W!Header) = 5 /\ n \in Nat
    BY <1>4, ByteSequences, LenProperties
  <2>2. /\ W!Header \o W!Body \in Seq(Bytes) /\ Len(W!Header \o W!Body) = Len(W!Header) + Len(W!Body)
        /\ \A i \in 1 .. Len(W!Header) + Len(W!Body) :
             (W!Header \o W!Body)[i]
               = IF i <= Len(W!Header) THEN W!Header[i] ELSE W!Body[i - Len(W!Header)]
    BY <1>4, <2>1, ConcatProperties
  <2> QED BY <1>4, <2>1, <2>2
<1>6. received = 5 + n
  <2>1. received \in 0 .. Len(Sent) /\ Cut(Sent, received, Len(Sent)) = << >>
    BY <1>1 DEF ClientOK
  <2>2. Len(Sent) \in 0 .. Len(Sent) /\ received \in 0 .. Len(Sent)
    BY <1>5, <2>1
  <2>3. Len(Cut(Sent, received, Len(Sent))) = Len(Sent) - received
    BY <1>5, <2>2, CutFacts
  <2>4. Len(<< >>) = 0
    OBVIOUS
  <2> QED BY <1>5, <2>1, <2>3, <2>4
<1>7. \A k \in 5 .. 5 + n : Cut(Sent, k, 5 + n) = Cut(W!Body, k - 5, n)
  <2>1. SUFFICES ASSUME NEW k \in 5 .. 5 + n PROVE Cut(Sent, k, 5 + n) = Cut(W!Body, k - 5, n)
    OBVIOUS
  <2>2. /\ 5 + n \in 0 .. Len(Sent) /\ k \in 0 .. 5 + n /\ n \in 0 .. Len(W!Body) /\ k - 5 \in 0 .. n
        /\ (5 + n) - k = n - (k - 5)
    BY <1>5
  <2>3. /\ Cut(Sent, k, 5 + n) \in Seq(Bytes) /\ Len(Cut(Sent, k, 5 + n)) = (5 + n) - k
        /\ \A i \in 1 .. (5 + n) - k : Cut(Sent, k, 5 + n)[i] = Sent[k + i]
    <3> DEFINE m == 5 + n
    <3>1. m \in 0 .. Len(Sent) /\ k \in 0 .. m
      BY <2>2
    <3> HIDE DEF m
    <3>2. Sent \in Seq(Bytes)
      BY <1>5
    <3>3. /\ Cut(Sent, k, m) \in Seq(Bytes) /\ Len(Cut(Sent, k, m)) = m - k
          /\ \A i \in 1 .. m - k : Cut(Sent, k, m)[i] = Sent[k + i]
      BY <3>1, <3>2, CutFacts
    <3> QED BY <3>3 DEF m
  <2>4. /\ Cut(W!Body, k - 5, n) \in Seq(Bytes) /\ Len(Cut(W!Body, k - 5, n)) = n - (k - 5)
        /\ \A i \in 1 .. n - (k - 5) : Cut(W!Body, k - 5, n)[i] = W!Body[(k - 5) + i]
    BY <1>4, <2>2, CutFacts
  <2>5. ASSUME NEW i \in 1 .. (5 + n) - k PROVE Sent[k + i] = W!Body[(k - 5) + i]
    <3>1. k + i \in 1 .. 5 + n /\ ~(k + i <= 5) /\ (k + i) - 5 = (k - 5) + i
      BY <1>5
    <3>2. \A j \in 1 .. 5 + n : ~(j <= 5) => Sent[j] = W!Body[j - 5]
      BY <1>5
    <3>3. Sent[k + i] = W!Body[(k + i) - 5]
      BY <3>1, <3>2
    <3> QED BY <3>1, <3>3, Zenon
  <2> DEFINE a == Cut(Sent, k, 5 + n)  b == Cut(W!Body, k - 5, n)
  <2>6. a \in Seq(Bytes) /\ b \in Seq(Bytes) /\ Len(a) = (5 + n) - k /\ Len(b) = Len(a)
    BY <2>2, <2>3, <2>4
  <2>7. \A i \in 1 .. Len(a) : a[i] = b[i]
    BY <2>2, <2>3, <2>4, <2>5, <2>6
  <2> HIDE DEF a, b
  <2>8. a = b
    BY <2>6, <2>7, SeqEqual
  <2> QED BY <2>8 DEF a, b
<1>8. Cut(W!Body, 0, n) = W!Body /\ Cut(Sent, 0, 5 + n) = Sent
  BY <1>4, <1>5, SubSeqFull DEF Cut
<1>9. include => stdout = W!Header \o W!Body
  BY <1>1, <1>4, <1>6, <1>8 DEF ClientOK
<1>10. ASSUME ~include PROVE W!IsSuffixOf(stdout, W!Body) /\ (~split => stdout = W!Body)
  <2>1. CASE ~in_headers
    <3>1. PICK k \in 5 .. received : stdout = Cut(Sent, k, received) /\ (~split => k = 5)
      BY <1>1, <1>10, <2>1 DEF ClientOK
    <3>2. stdout = Cut(W!Body, k - 5, n) /\ k - 5 \in 0 .. n
      BY <1>5, <1>6, <1>7, <3>1
    <3>3. ~split => k - 5 = 0
      BY <1>6, <3>1
    <3> QED BY <1>8, <3>2, <3>3 DEF W!IsSuffixOf, Cut
  <2>2. CASE in_headers
    <3>1. stdout = << >> /\ (~split => received <= 1)
      BY <1>1, <1>10, <2>2 DEF ClientOK
    <3>2. split
      BY <1>1, <1>5, <1>6, <3>1
    <3>3. n \in 0 .. Len(W!Body) /\ n \in 0 .. n
      BY <1>5
    <3>4. Cut(W!Body, n, n) \in Seq(Bytes) /\ Len(Cut(W!Body, n, n)) = n - n
      BY <1>4, <3>3, CutFacts
    <3>5. Cut(W!Body, n, n) = << >>
      BY <1>5, <3>4, EmptySeq
    <3> QED BY <3>1, <3>2, <3>3, <3>5 DEF W!IsSuffixOf, Cut
  <2> QED BY <2>1, <2>2
<1> QED BY <1>2, <1>9, <1>10

(* httpd and httpget at rest take no step ...                              *)
LEMMA HttpStays == HttpRests /\ [W!Next]_wvars => HttpRests'
<1> SUFFICES ASSUME HttpRests, W!Next PROVE FALSE
  BY DEF HttpRests, wvars
<1>1. hpc = "closed" /\ gpc = "done"
  BY DEF HttpRests
<1> QED BY <1>1 DEF W!Next, W!Recv, W!RecvEnd, W!Parse, W!SendHeader, W!SendBody, W!FileChanges,
            W!read_body, W!ReadEnd

(* ... with nothing printed of an empty file.                              *)
LEMMA HttpAtRest == HttpRests => W!HttpExact
<1> SUFFICES ASSUME HttpRests PROVE W!HttpExact
  OBVIOUS
<1>1. /\ W!Body = << >> /\ stdout = << >> /\ content_length = 0 /\ include = FALSE
  BY DEF HttpRests, W!Body
<1>2. Len(<< >>) = 0 /\ << >> \in Seq({}) /\ 0 \in 0 .. 0
  OBVIOUS
<1>3. SubSeq(<< >>, 0 + 1, 0) = << >>
  BY <1>2, SubSeqFull
<1>4. W!IsSuffixOf(stdout, W!Body)
  BY <1>1, <1>2, <1>3 DEF W!IsSuffixOf
<1> QED BY <1>1, <1>2, <1>4 DEF W!HttpExact

(* However recv cuts what httpd sends, httpget prints no byte of the       *)
(* header without -i, and all of the answer if the header's end is in one  *)
(* segment.                                                                *)
THEOREM ProgramsHttpExact == Spec => []HttpExact
<1> DEFINE Inv == HttpInv \/ HttpRests
<1>1. Init => Inv
  BY HttpInit, Zenon DEF Init
<1>2. Inv /\ [Next]_vars => Inv'
  <2>1. SUFFICES ASSUME Inv, [Next]_vars PROVE Inv'
    OBVIOUS
  <2>2. [W!Next]_wvars
    BY <2>1, OneAtATime
  <2>3. ASSUME HttpInv, UNCHANGED wvars PROVE HttpInv'
    <3>1. Sent' = Sent /\ W!Body' = W!Body
      BY <2>3 DEF wvars, Sent, Cut, W!Body
    <3>2. (ServerOK => ServerOK') /\ (ClientOK(Sent) => ClientOK(Sent)')
      BY <2>3, <3>1 DEF wvars, ServerOK, ClientOK
    <3>3. HttpTypes' /\ UNCHANGED <<changed, truncated>>
      BY <2>3 DEF wvars, HttpInv, HttpTypes
    <3> QED BY <2>3, <3>2, <3>3 DEF HttpInv, HttpTypes
  <2> QED BY <2>1, <2>2, <2>3, HttpNext, HttpStays
<1>3. Inv => HttpExact
  BY HttpDone, HttpAtRest DEF HttpExact
<1> QED BY <1>1, <1>2, <1>3, PTL DEF Spec
=============================================================================
