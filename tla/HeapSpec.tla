------------------------------ MODULE HeapSpec ------------------------------
(***************************************************************************)
(* What malloc, calloc, realloc and free promise a program, with no word   *)
(* on blocks, lists or regions: the program holds pointers to byte ranges  *)
(* of at least the size it asked for, ranges never overlap, and a pointer  *)
(* keeps its range until the program frees or reallocates it.              *)
(***************************************************************************)
EXTENDS Integers

CONSTANT Align

VARIABLE live      \* the size last asked for, by the pointers held

Apart(p, m, q, n) == p + m <= q \/ q + n <= p

(* The range of size bytes at p is aligned and free of the ranges of f.    *)
Fits(f, p, size) ==
  /\ p > 0 /\ p % Align = 0
  /\ \A q \in DOMAIN f : q # p /\ Apart(p, size, q, f[q])

With(f, p, size) == [q \in DOMAIN f \cup {p} |-> IF q = p THEN size ELSE f[q]]

Without(p) == [q \in DOMAIN live \ {p} |-> live[q]]

Init == live = << >>

Alloc(p, size) == Fits(live, p, size) /\ live' = With(live, p, size)

Release(p) == live' = Without(p)

(* In place or by a move; the old range is given up only for the new one.  *)
Resize(p, q, size) ==
  /\ Fits(Without(p), q, size)
  /\ q # p => Fits(live, q, size)
  /\ live' = With(Without(p), q, size)

Next ==
  \/ \E p \in DOMAIN live' : Alloc(p, live'[p])
  \/ \E p \in DOMAIN live : Release(p)
  \/ \E p \in DOMAIN live, q \in DOMAIN live' : Resize(p, q, live'[q])

Spec == Init /\ [][Next]_live
=============================================================================
