---------------------------- MODULE UserPrograms ----------------------------
(***************************************************************************)
(* The programs beside the allocator, the streams, the shell and the file  *)
(* commands, one at a time: a behaviour begins with one of Programs at its *)
(* start and the others at rest in a final state, where none of their      *)
(* steps is possible.                                                      *)
(***************************************************************************)
EXTENDS Integers, Sequences

CONSTANTS
  Programs,                                                 \* those that may be started
  Suites, Targets, Configs, MaxKids,                        \* brktest
  Inputs, Space, Nul, MaxArgs,                              \* xargs
  Present, MaxOrphans,                                      \* init
  Passwd, Group, Shadow, Words, Passwords, Procs, MaxBegun, \* passwd, login and su
  Lengths, Buffer, Queue,                                   \* nc
  Requests, Contents, ReqMax, PathMax, Segment,             \* httpd and httpget
  Resolvers, Ports, HostNames, MaxLookups, MaxLabel, MaxName  \* gethostbyname

VARIABLES
  config, plan, at, pc, failures, bad, child, fate, group, kids, late, timed_out, log,
  opts, input, tokens, start, ret, ran, xpc,
  fs, ipc, shell, alive, dead,
  names, disk, proc, session, begun, expected, overlap, fault, spoiled,
  udp, side, stdin, flight, broken,
  up, request, hpc, status, content_length, file, offset, wire, include, in_headers, stdout,
  gpc, received, split, changed, truncated,
  resolver, sent, asked

H == INSTANCE Harness
X == INSTANCE Xargs
I == INSTANCE Supervisor
A == INSTANCE Accounts
R == INSTANCE Relay
W == INSTANCE Http
D == INSTANCE Resolver

(* What the modules assume of their parameters.                            *)
ASSUME ProgramsAssumption ==
  H!HarnessConstants /\ A!AccountsConstants /\ R!RelayConstants /\ W!HttpConstants

-----------------------------------------------------------------------------
hvars == <<config, plan, at, pc, failures, bad, child, fate, group, kids, late, timed_out, log>>
xvars == <<opts, input, tokens, start, ret, ran, xpc>>
ivars == <<fs, ipc, shell, alive, dead>>
avars == <<names, disk, proc, session, begun, expected, overlap, fault, spoiled>>
rvars == <<udp, side, stdin, flight, broken>>
wvars == <<up, request, hpc, status, content_length, file, offset, wire, include, in_headers,
          stdout, gpc, received, split, changed, truncated>>
dvars == <<resolver, sent, asked>>

vars == <<hvars, xvars, ivars, avars, rvars, wvars, dvars>>

HarnessRests ==
  /\ config = 0 /\ plan = << >> /\ at = <<1, 1>> /\ pc = "done" /\ failures = 0 /\ bad = FALSE
  /\ child = "none" /\ fate = "none" /\ group = FALSE /\ kids = 0 /\ late = FALSE
  /\ timed_out = FALSE /\ log = << >>
XargsRests ==
  /\ opts = [nul_separated |-> FALSE, no_run_empty |-> TRUE, max_args |-> 0]
  /\ input = << >> /\ tokens = << >> /\ start = 1 /\ ret = 0 /\ ran = << >> /\ xpc = "done"
InitRests == fs = {} /\ ipc = "off" /\ shell = "none" /\ alive = 0 /\ dead = 0
AccountsRest ==
  /\ names = [shadow |-> 1, tmp |-> 0] /\ disk = <<Shadow>> /\ proc = [p \in Procs |-> A!NoProc]
  /\ session = [A!NoSession EXCEPT !.pc = "root"]
  /\ begun = MaxBegun /\ expected = Shadow /\ overlap = FALSE /\ fault = FALSE /\ spoiled = FALSE
RelayRests ==
  /\ udp = FALSE /\ stdin = [s \in R!Sides |-> 0] /\ flight = stdin /\ broken = FALSE
  /\ side = [s \in R!Sides |-> [pc |-> "done", stdin_open |-> FALSE, got |-> 0, left |-> 0, q |-> 0,
                                chunk |-> 0, reset |-> FALSE]]
HttpRests ==
  /\ up = << >> /\ request = << >> /\ hpc = "closed" /\ status = 200 /\ content_length = 0
  /\ file = << >> /\ offset = 0 /\ wire = << >> /\ include = FALSE /\ in_headers = FALSE
  /\ stdout = << >> /\ gpc = "done" /\ received = 0 /\ split = FALSE /\ changed = FALSE
  /\ truncated = FALSE
ResolverRests ==
  /\ sent = << >> /\ asked = MaxLookups
  /\ resolver = [p \in Resolvers |-> [pc |-> "idle", addr |-> << >>, port |-> 0]]

Init ==
  \E prog \in Programs :
    /\ IF prog = "brktest" THEN H!Init ELSE HarnessRests
    /\ IF prog = "xargs" THEN X!Init ELSE XargsRests
    /\ IF prog = "init" THEN I!Init ELSE InitRests
    /\ IF prog = "passwd" THEN A!Init ELSE AccountsRest
    /\ IF prog = "nc" THEN R!Init ELSE RelayRests
    /\ IF prog = "http" THEN W!Init ELSE HttpRests
    /\ IF prog = "resolver" THEN D!Init ELSE ResolverRests

Next ==
  \/ H!Next /\ UNCHANGED <<xvars, ivars, avars, rvars, wvars, dvars>>
  \/ X!Next /\ UNCHANGED <<hvars, ivars, avars, rvars, wvars, dvars>>
  \/ I!Next /\ UNCHANGED <<hvars, xvars, avars, rvars, wvars, dvars>>
  \/ A!Next /\ UNCHANGED <<hvars, xvars, ivars, rvars, wvars, dvars>>
  \/ R!Next /\ UNCHANGED <<hvars, xvars, ivars, avars, wvars, dvars>>
  \/ W!Next /\ UNCHANGED <<hvars, xvars, ivars, avars, rvars, dvars>>
  \/ D!Next /\ UNCHANGED <<hvars, xvars, ivars, avars, rvars, wvars>>

Fairness == H!Fairness /\ I!Fairness /\ R!Fairness /\ D!Fairness

Spec == Init /\ [][Next]_vars /\ Fairness

-----------------------------------------------------------------------------
(* brktest's report and exit status are true of its cases.                 *)
HarnessSound == H!HarnessSound

(* xargs gives every item to the command once, and merges the statuses.    *)
ArgumentsOnce == X!ArgumentsOnce

(* init never runs two shells, and none before the system is set up.       *)
OneShell == I!OneShell

(* passwd never damages the shadow file, and login accepts what it should. *)
AccountsSound == A!AccountsSound

(* nc delivers the whole input of the side that ends first, and by UDP     *)
(* what its one read took.                                                 *)
RelayFaithful == R!RelayFaithful

(* httpget prints what httpd sends, if the header ends in one segment.     *)
HttpExact == W!HttpExact

(* httpget prints what httpd sends, however it is cut into segments, as    *)
(* the comment on the carry in read_body has it.                           *)
BodyDelivered == W!BodyDelivered

(* gethostbyname returns the address of the name that was asked for.       *)
AnswersMatch == D!AnswersMatch

(* brktest, nc and gethostbyname end; init replaces its shell and reaps    *)
(* its orphans.                                                            *)
ProgramsProgress == H!HarnessEnds /\ I!InitSupervises /\ R!RelayEnds /\ D!LookupEnds
=============================================================================
