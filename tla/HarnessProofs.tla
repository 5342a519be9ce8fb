---------------------------- MODULE HarnessProofs ----------------------------
(***************************************************************************)
(* The harness reports every case, once and truly, whatever suites there   *)
(* are, whatever the cases do and however long they take.                  *)
(*                                                                         *)
(* The invariant accounts for the cases before the one the harness is at   *)
(* (Counted): each is reported, or its failure to fork is remembered in    *)
(* bad, and later in failures.  ChildOK says what is known of the child at *)
(* each place of wait_for_child.                                           *)
(***************************************************************************)
EXTENDS Harness, SequenceTheorems, NatFacts

Fates == Answers \cup {"none", "signal", "killed"}
Watching == {"poll", "check", "reap", "report"}

Entry ==
  [case : Nat \X Nat, verdict : {"ok", "not_ok", "skip"}, fate : Fates, late : BOOLEAN,
   left : Nat, own : BOOLEAN, timed_out : BOOLEAN]

TypeOK ==
  /\ plan \in Seq(Seq(CaseType)) /\ log \in Seq(Entry)
  /\ at \in (Nat \ {0}) \X (Nat \ {0})
  /\ pc \in Watching \cup {"case", "done", "dead"}
  /\ failures \in Nat /\ bad \in BOOLEAN
  /\ child \in {"none", "forked", "running", "zombie"} /\ fate \in Fates
  /\ group \in BOOLEAN /\ kids \in Nat /\ late \in BOOLEAN /\ timed_out \in BOOLEAN

(* A unit that has a failed case is counted, or will be when it ends.      *)
Failed(u) == failures > 0 \/ (u = at[1] /\ bad)

Counted ==
  /\ \A i \in DOMAIN log : log[i].case \in AllCases /\ Before(log[i].case, at)
  /\ \A i, j \in DOMAIN log : i < j => Before(log[i].case, log[j].case)
  /\ \A c \in AllCases : Before(c, at) => c \in Logged \/ Failed(c[1])
  /\ \A i \in DOMAIN log : log[i].verdict = "not_ok" => Failed(log[i].case[1])

Placed ==
  /\ at[1] <= Len(plan) + 1
  /\ at[1] <= Len(plan) => at[2] <= Len(plan[at[1]]) + 1
  /\ pc \in Watching => InUnit
  /\ pc = "done" => at[1] = Len(plan) + 1

ChildOK ==
  /\ pc \in {"poll", "check"} => ~timed_out /\ child # "none"
  /\ pc \in {"case", "report", "done", "dead"} => child = "none"
  /\ pc = "reap" => timed_out /\ child = "zombie"
  /\ pc = "report" => fate \in Answers \cup {"signal"} \/ timed_out
  /\ child = "zombie" => fate \in Answers \cup {"signal"} \/ timed_out
  /\ child = "forked" => kids = 0
  /\ pc \in {"poll", "check"} /\ child # "forked" /\ Case.own => group
  /\ timed_out => late
  /\ pc \in Watching /\ timed_out /\ Case.own => kids = 0

IInv == TypeOK /\ Counted /\ Placed /\ ChildOK /\ VerdictsTrue /\ TimeoutKillsAll

-----------------------------------------------------------------------------
(* The loop of run_group ends with a sequence of units.                    *)
LEMMA GroupType ==
  ASSUME HarnessConstants, NEW stress PROVE run_group(stress) \in Seq(Seq(CaseType))
<1> DEFINE n == Len(Suites)
           V == Seq(Seq(CaseType))
           more(i, v) == IF suite_is_stress(Suites[i]) # stress THEN v ELSE Append(v, Suites[i].cases)
           loop(g) == [i \in 0..n |-> IF i = 0 THEN << >> ELSE more(i, g[i - 1])]
           run == CHOOSE g : g = loop(g)
<1>1. n \in Nat /\ \A i \in 1..n : Suites[i].cases \in Seq(CaseType)
  <2> DEFINE S == [stress : BOOLEAN, cases : Seq(CaseType)]
  <2>1. Suites \in Seq(S)
    BY DEF HarnessConstants
  <2>2. n \in Nat /\ \A i \in 1..n : Suites[i] \in S
    <3> HIDE DEF S
    <3> QED BY <2>1, ElementOfSeq, LenProperties
  <2> QED BY <2>2
<1>2. \A i \in 1..n : \A v \in V : more(i, v) \in V
  BY <1>1, AppendProperties
<1>3. << >> \in V
  OBVIOUS
<1> HIDE DEF V, more, n
<1>4. PICK g \in [0..n -> V] : g[0] = << >> /\ \A i \in 1..n : g[i] = more(i, g[i - 1])
  <2> DEFINE h == [i \in 1..n |-> [v \in V |-> more(i, v)]]
  <2>1. h \in [1..n -> [V -> V]]
    BY <1>2
  <2>2. PICK g \in [0..n -> V] : g[0] = << >> /\ \A i \in 1..n : g[i] = h[i][g[i - 1]]
    <3> HIDE DEF h
    <3> QED BY <1>1, <1>3, <2>1, Recursion
  <2>3. ASSUME NEW i \in 1..n PROVE g[i] = more(i, g[i - 1])
    <3>1. g[i - 1] \in V
      BY <1>1
    <3> QED BY <2>2, <3>1
  <2> QED BY <2>2, <2>3
<1>5. g = loop(g)
  BY <1>1, <1>4
<1>6. run = loop(run)
  <2> HIDE DEF loop
  <2> QED BY <1>5
<1> HIDE DEF run
<1>7. \A i \in 0..n : run[i] \in V
  <2> DEFINE P == {i \in Nat : i <= n => run[i] \in V}
  <2>1. 0 \in P
    <3>1. run[0] = << >>
      BY <1>1, <1>6
    <3> QED BY <1>3, <3>1
  <2>2. ASSUME NEW k \in P, k + 1 <= n PROVE run[k + 1] \in V
    <3>1. k \in Nat /\ k + 1 \in 1..n /\ k + 1 \in 0..n /\ run[k] \in V
      BY <1>1, <2>2
    <3>2. run[k + 1] = more(k + 1, run[k])
      <4>1. k + 1 # 0 /\ (k + 1) - 1 = k
        BY <3>1
      <4>2. loop(run)[k + 1] = more(k + 1, run[(k + 1) - 1])
        BY <3>1, <4>1
      <4> HIDE DEF loop
      <4> QED BY <1>6, <4>1, <4>2
    <3> QED BY <1>2, <3>1, <3>2
  <2>3. P = Nat
    <3>1. P \in SUBSET Nat /\ \A k \in P : k + 1 \in P
      BY <2>2
    <3> HIDE DEF P
    <3> QED BY <2>1, <3>1, Induction
  <2> QED BY <1>1, <2>3
<1>8. run_group(stress) = run[n]
  BY DEF run_group, n, more, run
<1> QED BY <1>1, <1>7, <1>8 DEF V

(* What the user asks for is a sequence of units.                          *)
LEMMA PlanType ==
  ASSUME HarnessConstants, NEW t \in Targets PROVE Plan(t) \in Seq(Seq(CaseType))
<1> DEFINE V == Seq(CaseType)
<1>1. CASE t.group \in {"all", "functional", "stress"}
  <2>1. run_group(FALSE) \in Seq(V) /\ run_group(TRUE) \in Seq(V)
    BY GroupType
  <2> HIDE DEF V
  <2>2. run_group(FALSE) \o run_group(TRUE) \in Seq(V)
    BY <2>1, ConcatProperties
  <2>3. Plan(t) \in {run_group(FALSE) \o run_group(TRUE), run_group(FALSE), run_group(TRUE)}
    BY <1>1 DEF Plan
  <2> QED BY <2>1, <2>2, <2>3 DEF V
<1>2. CASE t.group \in {"suite", "case"} /\ t.suite \in DOMAIN Suites
  <2> DEFINE S == [stress : BOOLEAN, cases : V]
             cs == Suites[t.suite].cases
  <2>1. cs \in V
    <3>1. Suites \in Seq(S)
      BY DEF HarnessConstants
    <3>2. Suites[t.suite] \in S
      <4> HIDE DEF S
      <4> QED BY <1>2, <3>1, ElementOfSeq, LenProperties
    <3> QED BY <3>2
  <2>2. <<cs>> \in Seq(V) /\ << << >> >> \in Seq(V)
    BY <2>1
  <2>3. CASE t.group = "suite"
    BY <2>2, <2>3 DEF Plan
  <2>4. CASE t.group = "case" /\ t.case \in DOMAIN cs
    <3>1. cs[t.case] \in CaseType
      BY <2>1, <2>4, ElementOfSeq, LenProperties
    <3>2. <<cs[t.case]>> \in V
      BY <3>1
    <3>3. Plan(t) = << <<cs[t.case]>> >>
      BY <2>4 DEF Plan
    <3> HIDE DEF cs
    <3> QED BY <3>2, <3>3
  <2>5. CASE t.group = "case" /\ t.case \notin DOMAIN cs
    BY <2>2, <2>5 DEF Plan
  <2> QED BY <1>2, <2>3, <2>4, <2>5
<1> QED BY <1>1, <1>2 DEF HarnessConstants

(* Nothing is counted before the first case.                               *)
LEMMA InitIInv == HarnessConstants /\ Init => IInv
<1> SUFFICES ASSUME HarnessConstants, Init PROVE IInv
  OBVIOUS
<1>1. plan \in Seq(Seq(CaseType)) /\ failures \in Nat
  BY PlanType DEF Init
<1>2. TypeOK
  <2>1. log \in Seq(Entry) /\ at \in (Nat \ {0}) \X (Nat \ {0})
    BY DEF Init
  <2> QED BY <1>1, <2>1 DEF Init, TypeOK, Fates
<1>3. Counted
  <2>1. DOMAIN log = {} /\ at = <<1, 1>>
    BY DEF Init
  <2>2. \A c \in AllCases : ~Before(c, at)
    <3> SUFFICES ASSUME NEW u \in DOMAIN plan, NEW c \in DOMAIN plan[u] PROVE ~Before(<<u, c>>, at)
      BY DEF AllCases
    <3>1. u \in Nat /\ u >= 1 /\ plan[u] \in Seq(CaseType)
      BY <1>1, ElementOfSeq, LenProperties
    <3>2. c \in Nat /\ c >= 1
      BY <3>1, LenProperties
    <3> QED BY <2>1, <3>1, <3>2 DEF Before
  <2> QED BY <2>1, <2>2 DEF Counted
<1>4. Placed
  <2>1. Len(plan) \in Nat /\ (1 <= Len(plan) => plan[1] \in Seq(CaseType))
    BY <1>1, ElementOfSeq, LenProperties
  <2>2. 1 <= Len(plan) => Len(plan[1]) \in Nat
    BY <2>1, LenProperties
  <2> QED BY <2>1, <2>2 DEF Init, Placed, Watching
<1>5. ChildOK /\ VerdictsTrue /\ TimeoutKillsAll
  BY DEF Init, ChildOK, VerdictsTrue, TimeoutKillsAll, Watching
<1> QED BY <1>2, <1>3, <1>4, <1>5 DEF IInv

-----------------------------------------------------------------------------
(* Where the harness is, in numbers.                                       *)
LEMMA PlaceFacts ==
  ASSUME TypeOK
  PROVE  /\ at[1] \in Nat /\ at[2] \in Nat /\ at = <<at[1], at[2]>> /\ at[1] >= 1 /\ at[2] >= 1
         /\ Len(plan) \in Nat /\ DOMAIN plan = 1..Len(plan)
         /\ \A u \in 1..Len(plan) : /\ plan[u] \in Seq(CaseType) /\ Len(plan[u]) \in Nat
                                    /\ DOMAIN plan[u] = 1..Len(plan[u])
         /\ InUnit => at \in AllCases /\ Case \in CaseType
<1>1. at[1] \in Nat \ {0} /\ at[2] \in Nat \ {0} /\ at = <<at[1], at[2]>>
  BY DEF TypeOK
<1>2. Len(plan) \in Nat /\ DOMAIN plan = 1..Len(plan) /\ \A u \in 1..Len(plan) : plan[u] \in Seq(CaseType)
  BY ElementOfSeq, LenProperties DEF TypeOK
<1>3. \A u \in 1..Len(plan) : Len(plan[u]) \in Nat /\ DOMAIN plan[u] = 1..Len(plan[u])
  BY <1>2, LenProperties
<1>4. ASSUME InUnit PROVE at \in AllCases /\ Case \in CaseType
  <2>1. at[1] \in DOMAIN plan /\ at[2] \in DOMAIN plan[at[1]]
    BY <1>1, <1>2, <1>3, <1>4 DEF InUnit
  <2>2. at \in AllCases
    BY <1>1, <2>1 DEF AllCases
  <2>3. plan[at[1]][at[2]] \in CaseType
    BY <1>2, <1>3, <2>1, ElementOfSeq
  <2> QED BY <2>2, <2>3 DEF Case
<1> QED BY <1>1, <1>2, <1>3, <1>4

(* A case of the plan is a pair of indices.                                *)
LEMMA CaseFacts ==
  ASSUME TypeOK, NEW c \in AllCases
  PROVE  /\ c[1] \in 1..Len(plan) /\ c[2] \in 1..Len(plan[c[1]]) /\ c = <<c[1], c[2]>>
         /\ c[1] \in Nat /\ c[2] \in Nat
BY PlaceFacts DEF AllCases

(* A sequence with one more element has the elements it had and that one.  *)
LEMMA OneMore ==
  ASSUME NEW S, NEW s \in Seq(S), NEW e \in S, NEW i \in DOMAIN Append(s, e)
  PROVE  \/ i \in DOMAIN s /\ Append(s, e)[i] = s[i]
         \/ i = Len(s) + 1 /\ Append(s, e)[i] = e
BY AppendProperties, LenProperties

(* The harness goes on to the next case of the unit, with or without an    *)
(* entry for this one; without one the unit has failed.                    *)
LEMMA NextCase ==
  ASSUME IInv, InUnit, NEW e \in Entry,
         \/ log' = Append(log, e) /\ e.case = at /\ (e.verdict = "not_ok" => bad')
         \/ log' = log /\ bad',
         at' = <<at[1], at[2] + 1>>, bad => bad', UNCHANGED <<plan, failures>>
  PROVE  Counted' /\ log' \in Seq(Entry) /\ at' \in (Nat \ {0}) \X (Nat \ {0})
         /\ at'[1] <= Len(plan') + 1 /\ (at'[1] <= Len(plan') => at'[2] <= Len(plan'[at'[1]]) + 1)
<1>1. TypeOK /\ Counted /\ AllCases' = AllCases
  BY DEF IInv, AllCases
<1>2. /\ at[1] \in Nat /\ at[2] \in Nat /\ at = <<at[1], at[2]>> /\ at[1] >= 1 /\ at[2] >= 1
      /\ Len(plan) \in Nat /\ at \in AllCases
      /\ at'[1] = at[1] /\ at'[2] = at[2] + 1
  BY <1>1, PlaceFacts
<1>3. at' \in (Nat \ {0}) \X (Nat \ {0})
  BY <1>2
<1>4. at'[1] <= Len(plan') + 1 /\ (at'[1] <= Len(plan') => at'[2] <= Len(plan'[at'[1]]) + 1)
  <2>1. at[1] <= Len(plan) /\ at[2] <= Len(plan[at[1]]) /\ Len(plan[at[1]]) \in Nat
    BY <1>1, <1>2, PlaceFacts DEF InUnit
  <2> QED BY <1>2, <2>1
<1>5. log \in Seq(Entry) /\ Len(log) \in Nat /\ DOMAIN log = 1..Len(log)
  BY <1>1, LenProperties DEF TypeOK
<1>6. /\ log' \in Seq(Entry) /\ \A i \in DOMAIN log : i \in DOMAIN log' /\ log'[i] = log[i]
      /\ \/ log' = log /\ bad'
         \/ /\ DOMAIN log' = 1..(Len(log) + 1) /\ log'[Len(log) + 1] = e
            /\ e.case = at /\ (e.verdict = "not_ok" => bad')
  <2>1. CASE log' = log /\ bad'
    BY <1>5, <2>1
  <2>2. CASE log' = Append(log, e) /\ e.case = at /\ (e.verdict = "not_ok" => bad')
    <3>1. /\ log' \in Seq(Entry) /\ Len(log') = Len(log) + 1 /\ log'[Len(log) + 1] = e
          /\ \A i \in 1..Len(log) : log'[i] = log[i]
      <4>1. e \in Entry /\ log \in Seq(Entry)
        BY <1>5
      <4>2. /\ Append(log, e) \in Seq(Entry) /\ Len(Append(log, e)) = Len(log) + 1
            /\ Append(log, e)[Len(log) + 1] = e
            /\ \A i \in 1..Len(log) : Append(log, e)[i] = log[i]
        BY ONLY <4>1, AppendProperties
      <4> QED BY <2>2, <4>2
    <3>2. DOMAIN log' = 1..(Len(log) + 1)
      BY <3>1, LenProperties
    <3>3. \A i \in DOMAIN log : i \in DOMAIN log' /\ log'[i] = log[i]
      BY <1>5, <3>1, <3>2
    <3> QED BY <2>2, <3>1, <3>2, <3>3
  <2> QED BY <2>1, <2>2
<1>7. \A i \in DOMAIN log' : i \in DOMAIN log \/ (i = Len(log) + 1 /\ log'[i] = e /\ e.case = at
                                                /\ (e.verdict = "not_ok" => bad'))
  BY <1>5, <1>6
<1>8. \A c \in AllCases : Before(c, at) => Before(c, at')
  BY <1>1, <1>2, CaseFacts DEF Before
<1>9. Before(at, at') /\ \A c \in AllCases : Before(c, at') => Before(c, at) \/ c = at
  BY <1>1, <1>2, CaseFacts DEF Before
<1>10. \A u : Failed(u) => failures' > 0 \/ (u = at'[1] /\ bad')
  BY <1>2 DEF Failed
<1>11. \A i \in DOMAIN log' : log'[i].case \in AllCases' /\ Before(log'[i].case, at')
  BY <1>1, <1>2, <1>6, <1>7, <1>8, <1>9 DEF Counted
<1>12. \A i, j \in DOMAIN log' : i < j => Before(log'[i].case, log'[j].case)
  BY <1>1, <1>5, <1>6, <1>7 DEF Counted
<1>13. ASSUME NEW c \in AllCases, Before(c, at')
       PROVE  c \in Logged' \/ failures' > 0 \/ (c[1] = at'[1] /\ bad')
  <2>1. CASE Before(c, at)
    <3>1. c \in Logged \/ Failed(c[1])
      BY <1>1, <2>1 DEF Counted
    <3>2. c \in Logged => c \in Logged'
      BY <1>6 DEF Logged
    <3> QED BY <1>10, <3>1, <3>2
  <2>2. CASE c = at
    <3>1. CASE bad'
      BY <1>2, <2>2, <3>1
    <3>2. CASE ~bad'
      BY <1>5, <1>6, <2>2, <3>2 DEF Logged
    <3> QED BY <3>1, <3>2
  <2> QED BY <1>9, <1>13, <2>1, <2>2
<1>14. ASSUME NEW i \in DOMAIN log', log'[i].verdict = "not_ok"
       PROVE  failures' > 0 \/ (log'[i].case[1] = at'[1] /\ bad')
  <2>1. CASE i \in DOMAIN log
    <3>1. log'[i] = log[i] /\ Failed(log[i].case[1])
      BY <1>1, <1>6, <1>14, <2>1 DEF Counted
    <3> QED BY <1>10, <3>1
  <2>2. CASE log'[i] = e /\ e.case = at /\ bad'
    BY <1>2, <2>2
  <2> QED BY <1>7, <1>14, <2>1, <2>2
<1>15. Counted'
  BY <1>1, <1>11, <1>12, <1>13, <1>14 DEF Counted, Failed
<1> QED BY <1>3, <1>4, <1>6, <1>15

(* A unit that has failed cases is counted when it ends.                   *)
LEMMA EndUnitStep == IInv /\ EndUnit => IInv'
<1> SUFFICES ASSUME IInv, EndUnit PROVE IInv'
  OBVIOUS
<1>1. TypeOK /\ Counted /\ AllCases' = AllCases /\ Logged' = Logged
  BY DEF IInv, AllCases, EndUnit, Logged
<1>2. /\ at[1] \in Nat /\ at[2] \in Nat /\ at = <<at[1], at[2]>> /\ at[1] >= 1 /\ at[2] >= 1
      /\ Len(plan) \in Nat /\ DOMAIN plan = 1..Len(plan)
      /\ \A u \in 1..Len(plan) : Len(plan[u]) \in Nat
      /\ failures \in Nat /\ bad \in BOOLEAN
  BY <1>1, PlaceFacts DEF TypeOK
<1>3. /\ pc = "case" /\ at[1] <= Len(plan) /\ at[2] > Len(plan[at[1]])
      /\ failures' = (IF bad THEN failures + 1 ELSE failures) /\ bad' = FALSE /\ at' = <<at[1] + 1, 1>>
      /\ UNCHANGED <<config, plan, pc, timed_out, log, child, fate, group, kids, late>>
  BY DEF EndUnit, process
<1>4. at'[1] = at[1] + 1 /\ at'[2] = 1 /\ at' \in (Nat \ {0}) \X (Nat \ {0})
  BY <1>2, <1>3
<1>5. TypeOK'
  <2>1. failures' \in Nat /\ bad' \in BOOLEAN
    <3>1. failures' \in {failures, failures + 1}
      BY <1>3
    <3>2. failures \in Nat
      BY <1>1 DEF TypeOK
    <3>3. bad' \in BOOLEAN
      BY <1>3, Zenon
    <3> QED BY <3>1, <3>2, <3>3
  <2> QED BY <1>1, <1>3, <1>4, <2>1 DEF TypeOK
<1>6. Counted'
  <2>1. \A c \in AllCases : Before(c, at) <=> Before(c, at')
    <3> SUFFICES ASSUME NEW c \in AllCases PROVE Before(c, at) <=> Before(c, at')
      OBVIOUS
    <3>1. /\ c[1] \in 1..Len(plan) /\ c[2] \in 1..Len(plan[c[1]]) /\ c[1] \in Nat /\ c[2] \in Nat
      BY <1>1, CaseFacts
    <3> QED BY <1>2, <1>3, <1>4, <3>1 DEF Before
  <2>2. ASSUME NEW u PROVE Failed(u) => Failed(u)'
    BY <1>2, <1>3 DEF Failed
  <2> QED BY <1>1, <1>3, <2>1, <2>2 DEF Counted
<1>7. Placed'
  <2>1. at[1] + 1 <= Len(plan) => 1 <= Len(plan[at[1] + 1]) + 1
    BY <1>2
  <2> QED BY <1>2, <1>3, <1>4, <2>1 DEF Placed, Watching
<1>8. ChildOK' /\ VerdictsTrue' /\ TimeoutKillsAll'
  BY <1>3 DEF IInv, ChildOK, VerdictsTrue, TimeoutKillsAll, Watching
<1> QED BY <1>5, <1>6, <1>7, <1>8 DEF IInv

(* What the harness writes about a case, told from the state it leaves.    *)
Written(verdict) ==
  [case |-> at, verdict |-> verdict, fate |-> fate', late |-> late', left |-> kids',
   own |-> Case.own, timed_out |-> timed_out']

(* A step that is done with a case, and has written about it or counts it  *)
(* as failed, keeps the invariant, if what it has written is true.         *)
LEMMA DoneWithCase ==
  ASSUME IInv, InUnit, NEW failed \in BOOLEAN, Advance(failed),
         fate' \in Fates, late' \in BOOLEAN, kids' \in Nat, group' \in BOOLEAN, child' = "none",
         timed_out' \in BOOLEAN, timed_out' => late',
         \/ UNCHANGED log /\ failed
         \/ \E v \in {"ok", "not_ok", "skip"} :
              /\ log' = Append(log, Written(v)) /\ (v = "not_ok" => failed)
              /\ (v = "ok" => fate' = "0") /\ (timed_out' => v = "not_ok" /\ (Case.own => kids' = 0))
  PROVE  IInv'
<1>1. TypeOK /\ VerdictsTrue /\ TimeoutKillsAll /\ bad \in BOOLEAN
  BY DEF IInv, TypeOK
<1>2. /\ at' = <<at[1], at[2] + 1>> /\ pc' = "case" /\ UNCHANGED <<config, plan, failures>>
      /\ (bad => bad') /\ (failed => bad') /\ bad' \in BOOLEAN
  BY <1>1 DEF Advance
<1>3. Case.own \in BOOLEAN /\ at \in Nat \X Nat
  BY <1>1, PlaceFacts DEF CaseType
<1>4. log \in Seq(Entry) /\ Len(log) \in Nat /\ DOMAIN log = 1..Len(log)
  BY <1>1, LenProperties DEF TypeOK
<1> DEFINE Goal ==
             /\ Counted' /\ log' \in Seq(Entry) /\ at' \in (Nat \ {0}) \X (Nat \ {0})
             /\ at'[1] <= Len(plan') + 1 /\ (at'[1] <= Len(plan') => at'[2] <= Len(plan'[at'[1]]) + 1)
             /\ VerdictsTrue' /\ TimeoutKillsAll'
<1>5. Goal
  <2>1. CASE UNCHANGED log /\ failed
    <3>1. PICK e \in Entry : TRUE
      <4>1. [case |-> at, verdict |-> "skip", fate |-> "none", late |-> FALSE, left |-> 0,
             own |-> FALSE, timed_out |-> FALSE] \in Entry
        BY <1>3 DEF Entry, Fates
      <4> QED BY <4>1
    <3>2. VerdictsTrue' /\ TimeoutKillsAll'
      BY <1>1, <2>1 DEF VerdictsTrue, TimeoutKillsAll
    <3> QED BY <1>2, <2>1, <3>1, <3>2, NextCase
  <2>2. ASSUME NEW v \in {"ok", "not_ok", "skip"},
               log' = Append(log, Written(v)), v = "not_ok" => failed, v = "ok" => fate' = "0",
               timed_out' => v = "not_ok" /\ (Case.own => kids' = 0)
        PROVE  Goal
    <3> DEFINE e == Written(v)
    <3>1. /\ e \in Entry /\ e.case = at /\ e.verdict = v /\ e.fate = fate' /\ (e.late <=> late')
          /\ e.left = kids' /\ (e.own <=> Case.own) /\ (e.timed_out <=> timed_out')
      BY <1>3 DEF Written, Entry
    <3> HIDE DEF e
    <3>2. /\ Counted' /\ log' \in Seq(Entry) /\ at' \in (Nat \ {0}) \X (Nat \ {0})
          /\ at'[1] <= Len(plan') + 1 /\ (at'[1] <= Len(plan') => at'[2] <= Len(plan'[at'[1]]) + 1)
      BY <1>2, <2>2, <3>1, NextCase DEF e
    <3>3. \A i \in DOMAIN log' : (i \in DOMAIN log /\ log'[i] = log[i]) \/ log'[i] = e
      <4>1. log' = Append(log, e)
        BY <2>2 DEF e
      <4>2. log \in Seq(Entry) /\ e \in Entry
        BY <1>4, <3>1
      <4>3. \A i \in DOMAIN Append(log, e) :
               (i \in DOMAIN log /\ Append(log, e)[i] = log[i]) \/ Append(log, e)[i] = e
        BY <4>2, OneMore
      <4> QED BY <4>1, <4>3
    <3>4. VerdictsTrue'
      BY <1>1, <2>2, <3>1, <3>3 DEF VerdictsTrue
    <3>5. TimeoutKillsAll'
      BY <1>1, <2>2, <3>1, <3>3 DEF TimeoutKillsAll
    <3> QED BY <3>2, <3>4, <3>5
  <2> QED BY <2>1, <2>2
<1>6. TypeOK'
  BY <1>1, <1>2, <1>5 DEF TypeOK
<1>7. Placed' /\ ChildOK'
  BY <1>2, <1>5 DEF Placed, ChildOK, Watching
<1> QED BY <1>5, <1>6, <1>7 DEF IInv

(* The steps that are done with a case at once, and the report of one that *)
(* had a child.                                                            *)
LEMMA CaseSteps == IInv /\ (SkipCase \/ RunInProcess \/ ForkFails \/ ReportCase) => IInv'
<1> SUFFICES ASSUME IInv, SkipCase \/ RunInProcess \/ ForkFails \/ ReportCase PROVE IInv'
  OBVIOUS
<1>1. TypeOK /\ ChildOK /\ Placed
  BY DEF IInv
<1>2. ASSUME NoChild
      PROVE  /\ fate' \in Fates /\ late' \in BOOLEAN /\ kids' \in Nat /\ group' \in BOOLEAN
             /\ child' = "none" /\ timed_out' \in BOOLEAN /\ ~timed_out'
  <2>1. fate' \in Fates /\ kids' \in Nat /\ child' = "none" /\ ~timed_out'
    BY <1>2 DEF NoChild, Fates
  <2>2. late' \in BOOLEAN /\ group' \in BOOLEAN /\ timed_out' \in BOOLEAN
    BY <1>2, Zenon DEF NoChild
  <2> QED BY <2>1, <2>2
<1>3. CASE SkipCase
  <2>1. InUnit /\ NoChild /\ Advance(FALSE) /\ log' = Append(log, Written("skip"))
    BY <1>3 DEF SkipCase, Report, Written
  <2> QED BY <1>2, <2>1, DoneWithCase
<1>4. CASE ForkFails
  <2>1. InUnit /\ NoChild /\ Advance(TRUE) /\ UNCHANGED log
    BY <1>4 DEF ForkFails
  <2> QED BY <1>2, <2>1, DoneWithCase
<1>5. CASE RunInProcess
  <2>1. /\ InUnit /\ pc = "case" /\ child' = "none" /\ kids' = 0 /\ ~timed_out'
    BY <1>5 DEF RunInProcess
  <2>2. late' \in BOOLEAN /\ group' \in BOOLEAN /\ timed_out' \in BOOLEAN
    BY <1>5, Zenon DEF RunInProcess
  <2>3. ASSUME NEW a \in Answers, fate' = a,
               Report(CASE a = "0" -> "ok" [] a = "skip" -> "skip" [] a = "fail" -> "not_ok"),
               Advance(a = "fail")
        PROVE  IInv'
    <3> DEFINE v == CASE a = "0" -> "ok" [] a = "skip" -> "skip" [] a = "fail" -> "not_ok"
    <3>1. v \in {"ok", "not_ok", "skip"} /\ (v = "not_ok" => a = "fail") /\ (v = "ok" => a = "0")
      BY DEF Answers
    <3>2. log' = Append(log, Written(v))
      BY <2>3 DEF Report, Written
    <3>3. (a = "fail") \in BOOLEAN /\ fate' \in Fates
      BY <2>3 DEF Fates
    <3> HIDE DEF v
    <3> QED BY <2>1, <2>2, <2>3, <3>1, <3>2, <3>3, DoneWithCase
  <2>4. CASE /\ fate' = "signal" /\ pc' = "dead"
             /\ UNCHANGED <<config, plan, at, failures, bad, log>>
    <3>1. TypeOK'
      BY <1>1, <2>1, <2>2, <2>4 DEF TypeOK, Fates
    <3>2. Counted'
      BY <2>4 DEF IInv, Counted, AllCases, Logged, Failed
    <3>3. Placed' /\ ChildOK' /\ VerdictsTrue' /\ TimeoutKillsAll'
      BY <2>1, <2>4 DEF IInv, Placed, ChildOK, VerdictsTrue, TimeoutKillsAll, Watching
    <3> QED BY <3>1, <3>2, <3>3 DEF IInv
  <2> QED BY <1>5, <2>3, <2>4 DEF RunInProcess
<1>6. CASE ReportCase
  <2>1. /\ pc = "report" /\ InUnit /\ UNCHANGED <<child, fate, group, kids, late, timed_out>>
        /\ log' = Append(log, Written(Verdict)) /\ Advance(Verdict = "not_ok")
    BY <1>1, <1>6 DEF ReportCase, Report, Written, process, Placed, Watching
  <2>2. /\ fate' \in Fates /\ late' \in BOOLEAN /\ kids' \in Nat /\ group' \in BOOLEAN
        /\ child' = "none" /\ timed_out' \in BOOLEAN /\ (timed_out' => late')
        /\ (timed_out' /\ Case.own => kids' = 0)
    BY <1>1, <2>1 DEF TypeOK, ChildOK, Watching
  <2>3. /\ Verdict \in {"ok", "not_ok", "skip"} /\ (Verdict = "ok" => fate' = "0")
        /\ (timed_out' => Verdict = "not_ok")
    BY <1>1, <2>1 DEF ChildOK, Verdict, Answers
  <2>4. (Verdict = "not_ok") \in BOOLEAN
    OBVIOUS
  <2> QED BY <2>1, <2>2, <2>3, <2>4, DoneWithCase
<1> QED BY <1>3, <1>4, <1>5, <1>6

(* The steps around the child leave the account as it is.                  *)
LEMMA SameCase ==
  ASSUME IInv, UNCHANGED <<plan, at, failures, bad, log>>,
         pc' \in Watching => InUnit, pc' = "done" => at[1] > Len(plan)
  PROVE  Counted' /\ Placed' /\ VerdictsTrue' /\ TimeoutKillsAll' /\ (Case.own <=> Case'.own)
<1>1. Counted'
  BY DEF IInv, Counted, AllCases, Logged, Failed
<1>2. Placed'
  <2>1. TypeOK
    BY DEF IInv
  <2>2. Len(plan) \in Nat /\ at[1] \in Nat
    BY <2>1, PlaceFacts
  <2> QED BY <2>2 DEF IInv, Placed, InUnit
<1>3. VerdictsTrue' /\ TimeoutKillsAll' /\ (Case.own <=> Case'.own)
  BY DEF IInv, VerdictsTrue, TimeoutKillsAll, Case
<1> QED BY <1>1, <1>2, <1>3

(* The harness with its child.                                             *)
LEMMA ChildSteps == IInv /\ (Fork \/ Poll \/ Check \/ Reap \/ Finish) => IInv'
<1> SUFFICES ASSUME IInv, Fork \/ Poll \/ Check \/ Reap \/ Finish PROVE IInv'
  OBVIOUS
<1>1. TypeOK /\ ChildOK /\ Placed
  BY DEF IInv
<1>2. UNCHANGED <<config, plan, at, failures, bad, log>>
  BY DEF Fork, Poll, Check, Reap, Finish
<1>3. pc' \in Watching => InUnit
  BY <1>1 DEF Fork, Poll, Check, Reap, Finish, Placed, Watching
<1>4. pc' = "done" => at[1] > Len(plan)
  BY DEF Fork, Poll, Check, Reap, Finish
<1>5. Counted' /\ Placed' /\ VerdictsTrue' /\ TimeoutKillsAll' /\ (Case.own <=> Case'.own)
  BY <1>2, <1>3, <1>4, SameCase
<1>6. TypeOK' /\ ChildOK'
  <2>1. CASE Fork
    <3>1. /\ pc' = "poll" /\ child' = "forked" /\ fate' = "none" /\ kids' = 0 /\ ~timed_out' /\ ~late'
      BY <2>1 DEF Fork
    <3>2. late' \in BOOLEAN /\ group' \in BOOLEAN /\ timed_out' \in BOOLEAN
      BY <2>1, Zenon DEF Fork
    <3> QED BY <1>1, <1>2, <3>1, <3>2 DEF TypeOK, ChildOK, Fates, Watching
  <2>2. CASE Poll
    <3>1. /\ pc = "poll" /\ UNCHANGED <<fate, group, kids, late, timed_out>>
          /\ \/ child = "zombie" /\ child' = "none" /\ pc' = "report"
             \/ child # "zombie" /\ child' = child /\ pc' = "check"
      BY <2>2 DEF Poll
    <3>2. TypeOK'
      BY <1>1, <1>2, <3>1 DEF TypeOK, Watching
    <3>3. ChildOK'
      BY <1>1, <1>5, <3>1 DEF TypeOK, ChildOK, Watching
    <3> QED BY <3>2, <3>3
  <2>3. CASE Check
    <3>1. pc = "check" /\ UNCHANGED <<group, late>> /\ InUnit
      BY <1>1, <2>3 DEF Check, Placed, Watching
    <3>2. CASE late
      <4>1. /\ child' = "zombie" /\ pc' = "reap" /\ timed_out'
            /\ fate' = (IF child = "zombie" THEN fate ELSE "killed")
            /\ kids' = (IF Case.own /\ group THEN 0 ELSE kids)
        BY <2>3, <3>2 DEF Check, Kill
      <4>2. timed_out' \in BOOLEAN /\ fate' \in Fates
        BY <1>1, <2>3, <3>2, <4>1 DEF Check, TypeOK, Fates
      <4>3. kids' \in Nat
        <5>1. kids' \in {0, kids}
          BY <4>1
        <5> QED BY <1>1, <5>1 DEF TypeOK
      <4>4. TypeOK'
        BY <1>1, <1>2, <3>1, <4>1, <4>2, <4>3 DEF TypeOK, Watching
      <4>5. Case.own => kids' = 0
        <5>1. CASE child = "forked"
          BY <1>1, <4>1, <5>1 DEF ChildOK
        <5>2. CASE child # "forked"
          BY <1>1, <3>1, <4>1, <5>2 DEF ChildOK
        <5> QED BY <5>1, <5>2
      <4>6. ChildOK'
        BY <1>5, <3>1, <3>2, <4>1, <4>5 DEF ChildOK
      <4> QED BY <4>4, <4>6
    <3>3. CASE ~late
      <4>1. pc' = "poll" /\ UNCHANGED <<timed_out, child, fate, kids>>
        BY <2>3, <3>3 DEF Check
      <4> QED BY <1>1, <1>2, <1>5, <3>1, <4>1 DEF TypeOK, ChildOK, Watching
    <3> QED BY <3>2, <3>3
  <2>4. CASE Reap
    <3>1. /\ pc = "reap" /\ child' = "none" /\ pc' = "report"
          /\ UNCHANGED <<fate, group, kids, late, timed_out>>
      BY <2>4 DEF Reap
    <3> QED BY <1>1, <1>2, <1>5, <3>1 DEF TypeOK, ChildOK, Watching
  <2>5. CASE Finish
    <3>1. pc = "case" /\ pc' = "done" /\ UNCHANGED <<child, fate, group, kids, late, timed_out>>
      BY <2>5 DEF Finish, process
    <3> QED BY <1>1, <1>2, <1>5, <3>1 DEF TypeOK, ChildOK, Watching
  <2> QED BY <2>1, <2>2, <2>3, <2>4, <2>5
<1> QED BY <1>5, <1>6 DEF IInv

(* What the case does, and the time that passes, is not the harness's.     *)
LEMMA EnvironmentSteps == IInv /\ Environment => IInv'
<1> SUFFICES ASSUME IInv, Environment PROVE IInv'
  OBVIOUS
<1>1. TypeOK /\ ChildOK /\ Placed
  BY DEF IInv
<1>2. UNCHANGED <<config, plan, at, pc, failures, bad, timed_out, log>>
  BY DEF Environment, ChildStarts, ChildEnds, KidStarts, KidEnds, TimePasses, harness
<1>3. (pc' \in Watching => InUnit) /\ (pc' = "done" => at[1] > Len(plan))
  <2>1. Len(plan) \in Nat
    BY <1>1, PlaceFacts
  <2> QED BY <1>1, <1>2, <2>1 DEF Placed
<1>4. Counted' /\ Placed' /\ VerdictsTrue' /\ TimeoutKillsAll' /\ (Case.own <=> Case'.own)
  BY <1>2, <1>3, SameCase
<1>5. TypeOK' /\ ChildOK'
  <2>1. CASE ChildStarts
    <3>1. child = "forked" /\ child' = "running" /\ UNCHANGED <<fate, kids, late>> /\ (group' <=> Case.own)
      BY <2>1 DEF ChildStarts
    <3>2. group' \in BOOLEAN
      <4>1. pc \in Watching
        BY <1>1, <3>1 DEF ChildOK, TypeOK, Watching
      <4>2. Case \in CaseType
        BY <1>1, <4>1, PlaceFacts DEF Placed
      <4>3. group' = Case.own
        BY <2>1 DEF ChildStarts
      <4> QED BY <4>2, <4>3 DEF CaseType
    <3>3. TypeOK'
      BY <1>1, <1>2, <3>1, <3>2 DEF TypeOK
    <3>4. ChildOK'
      BY <1>1, <1>2, <1>4, <3>1 DEF ChildOK
    <3> QED BY <3>3, <3>4
  <2>2. CASE ChildEnds
    <3>1. /\ child = "running" /\ child' = "zombie" /\ fate' \in Answers \cup {"signal"}
          /\ UNCHANGED <<group, kids, late>>
      BY <2>2 DEF ChildEnds
    <3>2. TypeOK'
      BY <1>1, <1>2, <3>1 DEF TypeOK, Fates
    <3>3. ChildOK'
      BY <1>1, <1>2, <1>4, <3>1 DEF ChildOK
    <3> QED BY <3>2, <3>3
  <2>3. CASE KidStarts
    <3>1. child = "running" /\ kids' = kids + 1 /\ UNCHANGED <<child, fate, group, late>>
      BY <2>3 DEF KidStarts
    <3>2. TypeOK'
      BY <1>1, <1>2, <3>1 DEF TypeOK
    <3>3. pc \in {"poll", "check"}
      BY <1>1, <3>1 DEF ChildOK, TypeOK, Watching
    <3>4. ChildOK'
      BY <1>1, <1>2, <1>4, <3>1, <3>3 DEF ChildOK, Watching
    <3> QED BY <3>2, <3>4
  <2>4. CASE KidEnds
    <3>1. kids > 0 /\ kids' = kids - 1 /\ UNCHANGED <<child, fate, group, late>> /\ kids \in Nat
      BY <1>1, <2>4 DEF KidEnds, TypeOK
    <3>2. TypeOK'
      BY <1>1, <1>2, <3>1 DEF TypeOK
    <3>3. ChildOK'
      BY <1>1, <1>2, <1>4, <3>1 DEF ChildOK
    <3> QED BY <3>2, <3>3
  <2>5. CASE TimePasses
    <3>1. late' /\ late' \in BOOLEAN /\ UNCHANGED <<child, fate, group, kids>>
      BY <2>5, Zenon DEF TimePasses
    <3>2. TypeOK'
      BY <1>1, <1>2, <3>1 DEF TypeOK
    <3>3. ChildOK'
      BY <1>1, <1>2, <1>4, <3>1 DEF ChildOK
    <3> QED BY <3>2, <3>3
  <2> QED BY <2>1, <2>2, <2>3, <2>4, <2>5 DEF Environment
<1> QED BY <1>4, <1>5 DEF IInv

(* When the harness is done every case is one of those it has accounted    *)
(* for.                                                                    *)
LEMMA InvariantSound == IInv => HarnessSound
<1> SUFFICES ASSUME IInv PROVE HarnessSound
  OBVIOUS
<1>1. TypeOK /\ Counted /\ VerdictsTrue /\ TimeoutKillsAll
  BY DEF IInv
<1>2. Logged \subseteq AllCases
  BY <1>1 DEF Counted, Logged
<1>3. ASSUME pc = "done"
      PROVE  /\ \A c \in AllCases : Before(c, at) /\ c[1] # at[1]
             /\ \A u : Failed(u) => u = at[1] \/ failures > 0
  <2>1. at[1] = Len(plan) + 1 /\ Len(plan) \in Nat
    BY <1>1, <1>3, PlaceFacts DEF IInv, Placed
  <2>2. \A c \in AllCases : Before(c, at) /\ c[1] # at[1]
    BY <1>1, <2>1, CaseFacts DEF Before
  <2> QED BY <2>2 DEF Failed
<1>4. pc = "done" /\ failures = 0 => AllCases \subseteq Logged
  BY <1>1, <1>3 DEF Counted, Failed
<1>5. ASSUME pc = "done", NEW i \in DOMAIN log, log[i].verdict = "not_ok" PROVE failures > 0
  <2>1. log[i].case \in AllCases /\ Failed(log[i].case[1])
    BY <1>1, <1>5 DEF Counted
  <2> QED BY <1>3, <1>5, <2>1
<1>6. EveryCaseCounted
  BY <1>1, <1>2, <1>4, <1>5 DEF EveryCaseCounted, Counted
<1> QED BY <1>1, <1>6 DEF HarnessSound

(* Every step of the harness and of its cases keeps the invariant.         *)
LEMMA NextIInv == IInv /\ [Next]_vars => IInv'
<1>1. ASSUME IInv, UNCHANGED vars PROVE IInv'
  BY <1>1 DEF vars, IInv, TypeOK, Counted, Placed, ChildOK, VerdictsTrue, TimeoutKillsAll,
              AllCases, Logged, Failed, InUnit, Case
<1> QED BY <1>1, CaseSteps, ChildSteps, EndUnitStep, EnvironmentSteps DEF Next, HarnessStep

(* Whatever the suites, the target, and what the cases do or leave running *)
(* (run_group, test_run_suite, wait_for_child): every case is reported     *)
(* once and in order or counted as failed, no verdict is false, and a      *)
(* timeout leaves nothing of the case running.                             *)
THEOREM HarnessIsSound == HarnessConstants => (Spec => []HarnessSound)
<1> SUFFICES ASSUME HarnessConstants PROVE Spec => []HarnessSound
  OBVIOUS
<1>1. Init => IInv
  BY InitIInv
<1>2. IInv /\ [Next]_vars => IInv'
  BY NextIInv
<1>3. IInv => HarnessSound
  BY InvariantSound
<1> QED BY <1>1, <1>2, <1>3, PTL DEF Spec
=============================================================================
