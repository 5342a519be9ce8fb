------------------------------ MODULE Harness -------------------------------
(***************************************************************************)
(* The test harness of brktest: harness.c runs each case in a child,       *)
(* polls for it and kills it when its time is up; main.c chooses the       *)
(* suites and counts.  Both are under src/src/cmd/brktest.                 *)
(*                                                                         *)
(* What a case does is external: it may start processes of its own, hang,  *)
(* return anything or die of a signal.  A clock that cannot be read, and   *)
(* the seed and the stress parameters, are left out.                       *)
(***************************************************************************)
EXTENDS Integers, Sequences

CONSTANTS
  Suites,     \* a sequence of [stress, cases]; a case is [root, destructive, own]
  Targets,    \* what the user asks for: [group] or [suite] or [suite, case]
  Configs,    \* [root, allow, isolate]
  MaxKids     \* the processes a case starts at once

CaseType == [root : BOOLEAN, destructive : BOOLEAN, own : BOOLEAN]

HarnessConstants ==
  /\ Suites \in Seq([stress : BOOLEAN, cases : Seq(CaseType)])
  /\ \A t \in Targets :
       \/ t.group \in {"all", "functional", "stress"}
       \/ t.group \in {"suite", "case"} /\ t.suite \in DOMAIN Suites
  /\ MaxKids \in Nat

VARIABLES
  config,     \* test_config and the effective user
  plan,       \* the suites to run, each a sequence of cases
  at,         \* <<unit, case>>: where the harness is
  pc,         \* "case", "poll", "check", "reap", "report", "done", "dead"
  failures,   \* the units that failed
  bad,        \* whether a case of this unit has failed
  child,      \* "none", "forked", "running" or "zombie"
  fate,       \* what became of the child: its answer, or how it died
  group,      \* the child has a process group of its own
  kids,       \* processes the case has started
  late,       \* the time limit of this case is over
  timed_out,
  log         \* the results reported so far, with what is true of the case

vars == <<config, plan, at, pc, failures, bad, child, fate, group, kids, late, timed_out, log>>
process == <<child, fate, group, kids, late>>

Answers == {"0", "skip", "fail"}

-----------------------------------------------------------------------------
(* main.c *)

suite_is_stress(s) == s.stress

run_group(stress) ==
  LET run[i \in 0..Len(Suites)] ==
        IF i = 0 THEN << >>
        ELSE IF suite_is_stress(Suites[i]) # stress THEN run[i - 1]
        ELSE Append(run[i - 1], Suites[i].cases)
  IN run[Len(Suites)]

(* The suites a target stands for.  A case that is not there is a unit of  *)
(* none that fails; an unknown suite ends brktest at once.                 *)
Plan(t) ==
  CASE t.group = "all" -> run_group(FALSE) \o run_group(TRUE)
    [] t.group = "functional" -> run_group(FALSE)
    [] t.group = "stress" -> run_group(TRUE)
    [] t.group = "suite" -> <<Suites[t.suite].cases>>
    [] t.group = "case" -> IF t.case \in DOMAIN Suites[t.suite].cases
                           THEN << <<Suites[t.suite].cases[t.case]>> >> ELSE << << >> >>

NoSuchCase(t) == t.group = "case" /\ t.case \notin DOMAIN Suites[t.suite].cases

Init ==
  /\ config \in Configs
  /\ \E t \in Targets :
       /\ plan = Plan(t)
       /\ failures = IF NoSuchCase(t) THEN 1 ELSE 0
  /\ at = <<1, 1>> /\ pc = "case" /\ bad = FALSE /\ log = << >>
  /\ child = "none" /\ fate = "none" /\ group = FALSE /\ kids = 0
  /\ late = FALSE /\ timed_out = FALSE

-----------------------------------------------------------------------------
(* harness.c *)

Case == plan[at[1]][at[2]]
InUnit == at[1] <= Len(plan) /\ at[2] <= Len(plan[at[1]])

(* The next case; whether this one failed is remembered for the unit.      *)
Advance(failed) ==
  /\ at' = <<at[1], at[2] + 1>>
  /\ bad' = (bad \/ failed)
  /\ pc' = "case"
  /\ UNCHANGED <<config, plan, failures>>

(* report_skip and report_result print a line and count it for TAP.        *)
Report(verdict) ==
  log' = Append(log, [case |-> at, verdict |-> verdict, fate |-> fate', late |-> late',
                      left |-> kids', own |-> Case.own, timed_out |-> timed_out'])

NoChild ==
  /\ child' = "none" /\ fate' = "none" /\ group' = FALSE /\ kids' = 0 /\ late' = FALSE
  /\ timed_out' = FALSE

SkipReason(c) == (c.root /\ ~config.root) \/ (c.destructive /\ ~config.allow)

SkipCase ==
  /\ pc = "case" /\ InUnit /\ SkipReason(Case)
  /\ NoChild /\ Report("skip") /\ Advance(FALSE)

(* Without isolation a case that dies takes the harness with it.           *)
RunInProcess ==
  /\ pc = "case" /\ InUnit /\ ~SkipReason(Case) /\ ~config.isolate
  /\ child' = "none" /\ group' = FALSE /\ kids' = 0 /\ late' = FALSE /\ timed_out' = FALSE
  /\ \/ \E a \in Answers :
          /\ fate' = a
          /\ Report(CASE a = "0" -> "ok" [] a = "skip" -> "skip" [] a = "fail" -> "not_ok")
          /\ Advance(a = "fail")
     \/ /\ fate' = "signal" /\ pc' = "dead"
        /\ UNCHANGED <<config, plan, at, failures, bad, log>>

Fork ==
  /\ pc = "case" /\ InUnit /\ ~SkipReason(Case) /\ config.isolate
  /\ child' = "forked" /\ fate' = "none" /\ group' = FALSE /\ kids' = 0 /\ late' = FALSE
  /\ timed_out' = FALSE
  /\ pc' = "poll"
  /\ UNCHANGED <<config, plan, at, failures, bad, log>>

(* A fork that fails is a failure, and nothing is reported.                *)
ForkFails ==
  /\ pc = "case" /\ InUnit /\ ~SkipReason(Case) /\ config.isolate
  /\ NoChild /\ UNCHANGED log
  /\ Advance(TRUE)

(* waitpid with WNOHANG in wait_for_child.                                 *)
Poll ==
  /\ pc = "poll"
  /\ IF child = "zombie" THEN child' = "none" /\ pc' = "report"
     ELSE pc' = "check" /\ UNCHANGED child
  /\ UNCHANGED <<config, plan, at, failures, bad, fate, group, kids, late, timed_out, log>>

(* kill(-pid) reaches the group, which exists once the child has called    *)
(* setpgid; otherwise the child alone is killed.                           *)
Kill ==
  /\ fate' = IF child = "zombie" THEN fate ELSE "killed"
  /\ child' = "zombie"
  /\ kids' = IF Case.own /\ group THEN 0 ELSE kids

(* The time is compared; the child may have ended since the poll.          *)
Check ==
  /\ pc = "check"
  /\ IF late THEN timed_out' = TRUE /\ Kill /\ pc' = "reap"
     ELSE pc' = "poll" /\ UNCHANGED <<timed_out, child, fate, kids>>
  /\ UNCHANGED <<config, plan, at, failures, bad, group, late, log>>

Reap ==
  /\ pc = "reap" /\ child = "zombie"
  /\ child' = "none" /\ pc' = "report"
  /\ UNCHANGED <<config, plan, at, failures, bad, fate, group, kids, late, timed_out, log>>

(* mutant: a signal is not looked for *)
MutVerdict ==
  IF timed_out THEN "not_ok" ELSE IF fate = "skip" THEN "skip"
  ELSE IF fate = "fail" THEN "not_ok" ELSE "ok"

Verdict ==
  IF timed_out THEN "not_ok"
  ELSE CASE fate = "signal" -> "not_ok" [] fate = "skip" -> "skip"
         [] fate = "fail" -> "not_ok" [] fate = "0" -> "ok"

ReportCase ==
  /\ pc = "report"
  /\ UNCHANGED process /\ UNCHANGED timed_out
  /\ Report(Verdict)
  /\ Advance(Verdict = "not_ok")

(* test_run_suite returns, and brktest after the last one.                 *)
EndUnit ==
  /\ pc = "case" /\ at[1] <= Len(plan) /\ at[2] > Len(plan[at[1]])
  /\ failures' = IF bad THEN failures + 1 ELSE failures
  /\ bad' = FALSE
  /\ at' = <<at[1] + 1, 1>>
  /\ UNCHANGED <<config, plan, pc, timed_out, log>> /\ UNCHANGED process

Finish ==
  /\ pc = "case" /\ at[1] > Len(plan)
  /\ pc' = "done"
  /\ UNCHANGED <<config, plan, at, failures, bad, timed_out, log>> /\ UNCHANGED process

HarnessStep ==
  \/ SkipCase \/ RunInProcess \/ Fork \/ ForkFails \/ Poll \/ Check \/ Reap
  \/ ReportCase \/ EndUnit \/ Finish

-----------------------------------------------------------------------------
(* The case (external), and time. *)

harness == <<config, plan, at, pc, failures, bad, timed_out, log>>

ChildStarts ==
  /\ child = "forked" /\ child' = "running" /\ group' = Case.own
  /\ UNCHANGED <<fate, kids, late>> /\ UNCHANGED harness

ChildEnds ==
  /\ child = "running" /\ child' = "zombie"
  /\ \E f \in Answers \cup {"signal"} : fate' = f
  /\ UNCHANGED <<group, kids, late>> /\ UNCHANGED harness

KidStarts ==
  /\ child = "running" /\ kids < MaxKids /\ kids' = kids + 1
  /\ UNCHANGED <<child, fate, group, late>> /\ UNCHANGED harness

KidEnds ==
  /\ pc \in {"poll", "check", "reap"} /\ kids > 0 /\ kids' = kids - 1
  /\ UNCHANGED <<child, fate, group, late>> /\ UNCHANGED harness

TimePasses ==
  /\ pc \in {"poll", "check"} /\ ~late /\ late' = TRUE
  /\ UNCHANGED <<child, fate, group, kids>> /\ UNCHANGED harness

Environment == ChildStarts \/ ChildEnds \/ KidStarts \/ KidEnds \/ TimePasses

Next == HarnessStep \/ Environment

(* The harness runs, and time passes; a case may hang for ever.            *)
Fairness == WF_vars(HarnessStep) /\ WF_vars(TimePasses)

Spec == Init /\ [][Next]_vars /\ Fairness

-----------------------------------------------------------------------------
(* The cases of the plan, and the order they are run in.                   *)
AllCases == UNION {{<<u, c>> : c \in DOMAIN plan[u]} : u \in DOMAIN plan}
Before(a, b) == a[1] < b[1] \/ (a[1] = b[1] /\ a[2] < b[2])

Logged == {log[i].case : i \in DOMAIN log}

(* A case is reported once and in order; one that is missing could not be  *)
(* forked; brktest exits with 0 only when all were reported and none is    *)
(* "not ok".                                                               *)
EveryCaseCounted ==
  /\ Logged \subseteq AllCases
  /\ \A i, j \in DOMAIN log : i < j => Before(log[i].case, log[j].case)
  /\ pc = "done" /\ failures = 0 => Logged = AllCases
  /\ pc = "done" /\ (\E i \in DOMAIN log : log[i].verdict = "not_ok") => failures > 0

(* A case is called "ok" only if its function returned 0, and a timeout    *)
(* only if its time was up.                                                *)
VerdictsTrue ==
  \A i \in DOMAIN log :
    /\ log[i].verdict = "ok" => log[i].fate = "0"
    /\ log[i].timed_out => log[i].late /\ log[i].verdict = "not_ok"

(* Nothing of a case that has a group of its own survives a timeout.       *)
TimeoutKillsAll ==
  \A i \in DOMAIN log : log[i].own /\ log[i].timed_out => log[i].left = 0

(* What brktest's exit status and its report tell is so.                   *)
HarnessSound == EveryCaseCounted /\ VerdictsTrue /\ TimeoutKillsAll

(* brktest ends, whatever its cases do.                                    *)
HarnessEnds == <>(pc \in {"done", "dead"})
=============================================================================
