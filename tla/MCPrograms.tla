----------------------------- MODULE MCPrograms -----------------------------
(***************************************************************************)
(* Small instances of the programs: three suites' cases, five letters of   *)
(* input for xargs, two images for init, an account that may log in, one   *)
(* that may not and a line that does not parse, two concurrent passwd,     *)
(* inputs longer than a buffer, requests of every outcome, and two         *)
(* processes that look up names over two ports.                            *)
(***************************************************************************)
EXTENDS UserPrograms, SequencesExt

CONSTANTS p1, p2, r1, r2

(* The test harness *)
Case(r, o) == [root |-> r, destructive |-> r, own |-> o]
MCSuites == << [stress |-> TRUE, cases |-> <<Case(FALSE, TRUE)>>],
             [stress |-> FALSE, cases |-> <<Case(FALSE, FALSE), Case(TRUE, TRUE)>>] >>
MCTargets == {[group |-> "functional"], [group |-> "suite", suite |-> 1], [group |-> "case", suite |-> 1, case |-> 2]}
MCConfigs == {c \in [root : BOOLEAN, allow : BOOLEAN, isolate : BOOLEAN] : c.allow => c.root}

(* xargs *)
MCInputs == SeqOf({"a", Space, Nul}, 4) \cup {<<"a", Space, "b", Space, "c">>}

(* init *)
MCPresent == {{"/bin", "/bin/su", "/bin/ln", "/etc", "/etc/shadow", "/var", "/home", "/home/user", "/tmp"},
            {"/bin", "/bin/su", "/etc", "/etc/shadow", "/var", "/root"}}

(* passwd, login and su *)
MCPasswd == << [name |-> "r", uid |-> 5, gid |-> 5, fields |-> 3],
             [name |-> "root", uid |-> 0, gid |-> 0, fields |-> 7],
             [name |-> "u", uid |-> 1, gid |-> 1, fields |-> 7] >>
MCGroup == << [gid |-> 1, members |-> {"root", "u"}], [gid |-> 2, members |-> {"u"}],
            [gid |-> 2, members |-> {"u"}] >>
MCShadow == << [user |-> "u", hash |-> "p"] >>
MCWords == {"empty", "locked", "torn", "r", "root", "u", "p", "q"}
MCPasswords == {"empty", "p", "q"}

(* httpd and httpget *)
Line(m, path) == <<m, " ">> \o path \o <<" ", "HTTP/1.0", "CR", "LF", "CR", "LF">>
MCRequests ==
  {Line("GET", <<"/">>), Line("GET", <<"/", "f", "?">>), Line("GET", <<"/", "d">>),
   Line("GET", <<"/", "no">>), Line("GET", <<"/", "..">>), Line("GET", <<"/", "a", "b", "c", "d">>),
   Line("POST", <<"/", "f">>), <<"GET">>, << >>, <<"GET", " ", " ", "/", " ", "LF", "LF">>}
MCContents == {<< >>, <<"x">>, <<"LF", "LF", "x">>}

(* gethostbyname *)
MCHostNames == {<<97, 46, 98>>, <<99, 46>>, <<97, 46, 46>>, <<49, 46, 50, 46, 51, 46, 52>>}
=============================================================================
