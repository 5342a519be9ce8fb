--------------------------- MODULE FileTreeProofs ---------------------------
(***************************************************************************)
(* What rm, mv and cp remove, for every tree, whatever the operands and    *)
(* however many rm run together.                                           *)
(***************************************************************************)
EXTENDS FileTree, NatFacts, SequenceTheorems, TLAPS

-----------------------------------------------------------------------------
(* Paths *)

Names == Seq(Name)

(* A path is what leads to it, and a name.                                 *)
LEMMA PathFacts ==
  ASSUME NEW p \in Path
  PROVE  /\ p \in Names /\ p # << >> /\ Len(p) \in Nat /\ Len(p) >= 1
         /\ Front(p) \in Names /\ Len(Front(p)) = Len(p) - 1 /\ Last(p) \in Name
         /\ \A i \in 1 .. Len(p) - 1 : Front(p)[i] = p[i]
         /\ p = Append(Front(p), Last(p))
<1>1. p \in Seq(Name) /\ p # << >>
  BY DEF Path
<1>2. Len(p) \in Nat /\ Len(p) >= 1
  BY <1>1, LenProperties, EmptySeq
<1>3. PICK s \in Seq(Name), e \in Name : p = Append(s, e)
  BY <1>1, SequenceEmptyOrAppend
<1>4. /\ Len(p) = Len(s) + 1 /\ Len(s) \in Nat /\ p[Len(s) + 1] = e
      /\ \A i \in 1 .. Len(s) : p[i] = s[i]
  BY <1>3, AppendProperties, LenProperties
<1>5. Len(s) = Len(p) - 1 /\ Last(p) = e
  BY <1>4 DEF Last
<1>6. Front(p) = s
  <2> DEFINE n == Len(p) - 1
  <2>1. n \in Int /\ n = Len(s) /\ 1 \in Int /\ \A i \in 1 .. n : p[i] \in Name
    BY <1>1, <1>2, <1>5, ElementOfSeq
  <2> HIDE DEF n
  <2>2. /\ SubSeq(p, 1, n) \in Seq(Name) /\ Len(SubSeq(p, 1, n)) = IF 1 <= n THEN n - 1 + 1 ELSE 0
        /\ \A i \in 1 .. n - 1 + 1 : SubSeq(p, 1, n)[i] = p[1 + i - 1]
    BY <2>1, SubSeqProperties
  <2>3. n - 1 + 1 = n /\ \A i \in 1 .. n : 1 + i - 1 = i
    BY <2>1
  <2>4. Len(SubSeq(p, 1, n)) = n
    BY <1>4, <2>1, <2>2, <2>3
  <2>5. \A i \in 1 .. n : SubSeq(p, 1, n)[i] = s[i]
    BY <1>4, <2>1, <2>2, <2>3
  <2>6. SubSeq(p, 1, n) = s
    BY <1>3, <2>1, <2>2, <2>4, <2>5, SeqEqual
  <2> QED BY <2>6 DEF Front, n
<1> QED BY <1>1, <1>2, <1>3, <1>4, <1>5, <1>6 DEF Names

(* ... and adding a name to what leads to it makes a path.                 *)
LEMMA AppendFacts ==
  ASSUME NEW s \in Names, NEW e \in Name
  PROVE  /\ Append(s, e) \in Path /\ Front(Append(s, e)) = s /\ Last(Append(s, e)) = e
         /\ Len(Append(s, e)) = Len(s) + 1 /\ Len(s) \in Nat
         /\ \A i \in 1 .. Len(s) : Append(s, e)[i] = s[i]
<1>1. s \in Seq(Name) /\ Len(s) \in Nat
  BY LenProperties DEF Names
<1> DEFINE p == Append(s, e)
<1>2. /\ p \in Seq(Name) /\ p # << >> /\ Len(p) = Len(s) + 1 /\ \A i \in 1 .. Len(s) : p[i] = s[i]
      /\ p[Len(s) + 1] = e
  BY <1>1, AppendProperties
<1>3. p \in Path
  BY <1>2 DEF Path
<1>4. Last(p) = e
  BY <1>2 DEF Last
<1> HIDE DEF p
<1>5. Front(p) = s
  <2>1. /\ Front(p) \in Seq(Name) /\ Len(Front(p)) = Len(p) - 1
        /\ \A i \in 1 .. Len(p) - 1 : Front(p)[i] = p[i]
    BY <1>3, PathFacts DEF Names
  <2>2. Len(Front(p)) = Len(s)
    BY <1>1, <1>2, <2>1
  <2>3. \A i \in 1 .. Len(s) : Front(p)[i] = s[i]
    BY <1>1, <1>2, <2>1
  <2> QED BY <1>1, <2>1, <2>2, <2>3, SeqEqual
<1> QED BY <1>1, <1>2, <1>3, <1>4, <1>5 DEF p

(* Being beneath, place by place.                                          *)
LEMMA BeneathMeans ==
  ASSUME NEW p \in Names, NEW top \in Names
  PROVE  Beneath(p, top) <=> Len(top) <= Len(p) /\ \A i \in 1 .. Len(top) : p[i] = top[i]
<1> DEFINE n == Len(top)
<1>1. p \in Seq(Name) /\ top \in Seq(Name) /\ n \in Nat /\ Len(p) \in Nat
  BY LenProperties DEF Names
<1>2. SubSeq(top, 1, n) = top
  BY <1>1, SubSeqFull
<1> HIDE DEF n
<1>3. ASSUME n <= Len(p)
      PROVE  /\ SubSeq(p, 1, n) \in Seq(Name) /\ Len(SubSeq(p, 1, n)) = n
             /\ \A i \in 1 .. n : SubSeq(p, 1, n)[i] = p[i]
  <2>1. n \in Int /\ 1 \in Int /\ \A i \in 1 .. n : p[i] \in Name
    BY <1>1, <1>3, ElementOfSeq
  <2>2. /\ SubSeq(p, 1, n) \in Seq(Name) /\ Len(SubSeq(p, 1, n)) = IF 1 <= n THEN n - 1 + 1 ELSE 0
        /\ \A i \in 1 .. n - 1 + 1 : SubSeq(p, 1, n)[i] = p[1 + i - 1]
    BY <2>1, SubSeqProperties
  <2>3. n - 1 + 1 = n /\ \A i \in 1 .. n : 1 + i - 1 = i
    BY <2>1
  <2> QED BY <1>1, <2>1, <2>2, <2>3
<1>4. Len(top) = n
  BY DEF n
<1>5. n <= Len(p) /\ (\A i \in 1 .. n : p[i] = top[i]) => SubSeq(p, 1, n) = top
  BY <1>1, <1>3, <1>4, SeqEqual
<1>6. n <= Len(p) /\ SubSeq(p, 1, n) = top => \A i \in 1 .. n : p[i] = top[i]
  BY <1>3
<1> QED BY <1>2, <1>4, <1>5, <1>6 DEF Beneath, IsPrefix

(* What is beneath a path stays beneath it a name further down, and a path *)
(* beneath another is that one or in a directory beneath it.               *)
LEMMA BeneathFacts ==
  ASSUME NEW top \in Path
  PROVE  /\ Beneath(top, top)
         /\ \A s \in Names, e \in Name : Beneath(s, top) => Beneath(Append(s, e), top)
         /\ \A p \in Path : Beneath(p, top) /\ p # top =>
              Len(p) > 1 /\ Front(p) \in Path /\ Beneath(Front(p), top)
<1>1. top \in Names /\ Len(top) \in Nat /\ Len(top) >= 1
  BY PathFacts
<1>2. Beneath(top, top)
  BY <1>1, BeneathMeans
<1>3. ASSUME NEW s \in Names, NEW e \in Name, Beneath(s, top) PROVE Beneath(Append(s, e), top)
  <2>1. Len(top) <= Len(s) /\ \A i \in 1 .. Len(top) : s[i] = top[i]
    BY <1>1, <1>3, BeneathMeans
  <2>2. /\ Append(s, e) \in Names /\ Len(Append(s, e)) = Len(s) + 1 /\ Len(s) \in Nat
        /\ \A i \in 1 .. Len(s) : Append(s, e)[i] = s[i]
    BY AppendFacts, PathFacts
  <2>3. Len(top) <= Len(Append(s, e)) /\ \A i \in 1 .. Len(top) : Append(s, e)[i] = top[i]
    BY <1>1, <2>1, <2>2
  <2> QED BY <1>1, <2>2, <2>3, BeneathMeans
<1>4. ASSUME NEW p \in Path, Beneath(p, top), p # top
      PROVE  Len(p) > 1 /\ Front(p) \in Path /\ Beneath(Front(p), top)
  <2>1. /\ p \in Names /\ Len(p) \in Nat /\ Front(p) \in Names /\ Len(Front(p)) = Len(p) - 1
        /\ \A i \in 1 .. Len(p) - 1 : Front(p)[i] = p[i]
    BY PathFacts
  <2>2. Len(top) <= Len(p) /\ \A i \in 1 .. Len(top) : p[i] = top[i]
    BY <1>1, <1>4, <2>1, BeneathMeans
  <2>3. Len(top) # Len(p)
    <3>1. SUFFICES ASSUME Len(top) = Len(p) PROVE p = top
      BY <1>4
    <3>2. p \in Seq(Name) /\ top \in Seq(Name) /\ \A i \in 1 .. Len(p) : p[i] = top[i]
      BY <1>1, <2>1, <2>2, <3>1 DEF Names
    <3> QED BY <3>1, <3>2, SeqEqual
  <2>4. Len(top) <= Len(p) - 1 /\ Len(p) > 1
    BY <1>1, <2>1, <2>2, <2>3
  <2>5. Beneath(Front(p), top)
    <3>1. Len(top) <= Len(Front(p)) /\ \A i \in 1 .. Len(top) : Front(p)[i] = top[i]
      BY <1>1, <2>1, <2>2, <2>4
    <3> QED BY <1>1, <2>1, <3>1, BeneathMeans
  <2>6. Front(p) \in Path
    <3>1. Len(Front(p)) > 0
      BY <2>1, <2>4
    <3> QED BY <2>1, <3>1, EmptySeq DEF Names, Path
  <2> QED BY <2>4, <2>5, <2>6
<1> QED BY <1>2, <1>3, <1>4

-----------------------------------------------------------------------------
(* Looking up paths *)

LinksArePaths(t) == \A p \in DOMAIN t : t[p].type = "link" => t[p].data \in Path

(* One component after the other.                                          *)
Walk(t, u, g) ==
  /\ g[0] = << >> /\ \A i \in 1 .. Len(u) : g[i] = Enter(t, g[i - 1], u[i])
  /\ \A i \in 0 .. Len(u) : g[i] \in Names

LEMMA EnterFacts ==
  ASSUME NEW t, LinksArePaths(t), NEW s \in Names, NEW e \in Name
  PROVE  Enter(t, s, e) \in Path
<1>1. Append(s, e) \in Path
  BY AppendFacts
<1> QED BY <1>1 DEF Enter, LinksArePaths

(* Resolve is the end of such a walk ...                                   *)
LEMMA ResolveWalks ==
  ASSUME NEW t, LinksArePaths(t), NEW u \in Names
  PROVE  \E g : Walk(t, u, g) /\ Resolve(t, u) = g[Len(u)]
<1> DEFINE n == Len(u)
           V == Names
           step(d, i) == Enter(t, d, u[i])
           h == [i \in 1 .. n |-> [d \in V |-> step(d, i)]]
           loop(g) == [i \in 0 .. n |-> IF i = 0 THEN << >> ELSE step(g[i - 1], i)]
           run == CHOOSE g : g = loop(g)
<1>1. n \in Nat /\ \A i \in 1 .. n : u[i] \in Name
  BY LenProperties, ElementOfSeq DEF Names
<1>2. << >> \in V
  BY DEF Names
<1>3. \A i \in 1 .. n, d \in V : step(d, i) \in V
  BY <1>1, EnterFacts DEF Path, Names
<1>4. Resolve(t, u) = run[n]
  BY DEF Resolve
<1> HIDE DEF n, V, step
<1>5. h \in [1 .. n -> [V -> V]]
  BY <1>3
<1>6. PICK g \in [0 .. n -> V] : g[0] = << >> /\ \A i \in 1 .. n : g[i] = h[i][g[i - 1]]
  <2> DEFINE v == << >>
  <2> SUFFICES \E g \in [0 .. n -> V] : g[0] = v /\ \A i \in 1 .. n : g[i] = h[i][g[i - 1]]
    OBVIOUS
  <2>1. v \in V /\ n \in Nat
    BY <1>1, <1>2
  <2> HIDE DEF h, v
  <2> QED BY <1>5, <2>1, Recursion
<1>7. \A i \in 1 .. n : g[i] = step(g[i - 1], i)
  <2>1. SUFFICES ASSUME NEW i \in 1 .. n PROVE g[i] = step(g[i - 1], i)
    OBVIOUS
  <2>2. g[i - 1] \in V
    BY <1>1
  <2> QED BY <1>6, <2>2
<1>8. g = loop(g)
  <2>1. DOMAIN g = 0 .. n /\ \A i \in 0 .. n : g[i] = IF i = 0 THEN << >> ELSE step(g[i - 1], i)
    BY <1>1, <1>6, <1>7
  <2> QED BY <2>1
<1>9. run = loop(run)
  <2> HIDE DEF loop
  <2> QED BY <1>8
<1> HIDE DEF run
<1>10. run[0] = << >> /\ \A i \in 1 .. n : run[i] = step(run[i - 1], i)
  <2>1. \A i \in 1 .. n : i \in 0 .. n /\ i # 0
    BY <1>1
  <2>2. 0 \in 0 .. n
    BY <1>1
  <2> QED BY <1>9, <2>1, <2>2
<1>11. \A i \in 0 .. n : run[i] \in V
  <2> DEFINE P == {i \in Nat : i <= n => run[i] \in V}
  <2>1. 0 \in P
    BY <1>2, <1>10
  <2>2. ASSUME NEW k \in P PROVE k + 1 \in P
    <3>1. SUFFICES ASSUME k + 1 <= n PROVE run[k + 1] \in V
      OBVIOUS
    <3>2. k + 1 \in 1 .. n /\ k <= n /\ k + 1 - 1 = k
      BY <1>1, <3>1
    <3>3. run[k] \in V
      BY <3>2
    <3> QED BY <1>3, <1>10, <3>2, <3>3
  <2>3. P \in SUBSET Nat
    OBVIOUS
  <2> HIDE DEF P
  <2>4. P = Nat
    BY <2>1, <2>2, <2>3, Induction
  <2> QED BY <1>1, <2>4 DEF P
<1>12. Walk(t, u, run)
  BY <1>10, <1>11 DEF Walk, n, V, step
<1> QED BY <1>4, <1>12 DEF n

(* u and v have the same first m components.                               *)
SameStart(u, v, m) == \A i \in 1 .. m : u[i] = v[i]

(* ... and walks of the same tree along the same path agree.               *)
LEMMA WalksAgree ==
  ASSUME NEW t, NEW u \in Names, NEW v \in Names, NEW g, NEW h, Walk(t, u, g), Walk(t, v, h),
         NEW m \in Nat, m <= Len(u), m <= Len(v), SameStart(u, v, m)
  PROVE  g[m] = h[m]
<1> DEFINE P == {i \in Nat : i <= m => g[i] = h[i]}
<1>1. 0 \in P
  BY DEF Walk
<1>2. ASSUME NEW k \in P PROVE k + 1 \in P
  <2>1. SUFFICES ASSUME k + 1 <= m PROVE g[k + 1] = h[k + 1]
    OBVIOUS
  <2>2. Len(u) \in Nat /\ Len(v) \in Nat
    BY LenProperties DEF Names
  <2>3. k + 1 \in 1 .. Len(u) /\ k + 1 \in 1 .. Len(v) /\ k + 1 \in 1 .. m /\ k + 1 - 1 = k
    BY <2>1, <2>2
  <2>4. g[k] = h[k]
    BY <2>1
  <2> QED BY <2>3, <2>4 DEF Walk, SameStart
<1>3. P \in SUBSET Nat
  OBVIOUS
<1> HIDE DEF P
<1>4. P = Nat
  BY <1>1, <1>2, <1>3, Induction
<1> QED BY <1>4 DEF P

(* Resolve enters one component after the other.                           *)
LEMMA ResolveFacts ==
  ASSUME NEW t, LinksArePaths(t)
  PROVE  /\ Resolve(t, << >>) = << >> /\ << >> \in Names
         /\ \A u \in Names : Resolve(t, u) \in Names
         /\ \A p \in Path : Resolve(t, p) = Enter(t, Resolve(t, Front(p)), Last(p))
<1>1. << >> \in Names /\ Len(<< >>) = 0
  BY DEF Names
<1>2. ASSUME NEW u \in Names PROVE Resolve(t, u) \in Names
  <2>1. PICK g : Walk(t, u, g) /\ Resolve(t, u) = g[Len(u)]
    BY ResolveWalks
  <2>2. Len(u) \in 0 .. Len(u)
    BY LenProperties DEF Names
  <2> QED BY <2>1, <2>2 DEF Walk
<1>3. Resolve(t, << >>) = << >>
  BY <1>1, ResolveWalks DEF Walk
<1>4. ASSUME NEW p \in Path PROVE Resolve(t, p) = Enter(t, Resolve(t, Front(p)), Last(p))
  <2>1. /\ p \in Names /\ Len(p) \in Nat /\ Len(p) >= 1 /\ Front(p) \in Names
        /\ Len(Front(p)) = Len(p) - 1 /\ \A i \in 1 .. Len(p) - 1 : Front(p)[i] = p[i]
    BY PathFacts
  <2>2. PICK g : Walk(t, p, g) /\ Resolve(t, p) = g[Len(p)]
    BY <2>1, ResolveWalks
  <2>3. PICK h : Walk(t, Front(p), h) /\ Resolve(t, Front(p)) = h[Len(Front(p))]
    BY <2>1, ResolveWalks
  <2>4. g[Len(p) - 1] = h[Len(p) - 1]
    <3> DEFINE m == Len(p) - 1
               v == Front(p)
    <3>1. m \in Nat /\ m <= Len(p) /\ m <= Len(v) /\ SameStart(p, v, m)
      BY <2>1 DEF SameStart
    <3>2. p \in Names /\ v \in Names /\ Walk(t, p, g) /\ Walk(t, v, h)
      BY <2>1, <2>2, <2>3
    <3> HIDE DEF m, v
    <3>3. g[m] = h[m]
      BY <3>1, <3>2, WalksAgree
    <3> QED BY <3>3 DEF m
  <2>5. g[Len(p)] = Enter(t, g[Len(p) - 1], p[Len(p)])
    <3>1. Len(p) \in 1 .. Len(p)
      BY <2>1
    <3> QED BY <2>2, <3>1 DEF Walk
  <2> QED BY <2>1, <2>2, <2>3, <2>4, <2>5 DEF Last
<1> QED BY <1>1, <1>2, <1>3, <1>4

-----------------------------------------------------------------------------
(* Trees *)

IsLink(t, p) == p \in DOMAIN t /\ t[p].type = "link"

(* Everything is in a directory, or is a device.                           *)
Rooted(t) ==
  \A p \in DOMAIN t : p \in Path /\ (Len(p) > 1 => Front(p) \in DOMAIN t /\ t[Front(p)].type = "dir")

(* What is in t and is a link there or in t0 is the same link in both.     *)
LinksKept(t, t0) ==
  \A p \in DOMAIN t : IsLink(t, p) \/ IsLink(t0, p) => p \in DOMAIN t0 /\ t[p] = t0[p]

(* They have the same links.                                               *)
SameLinks(t, t0) ==
  \A p : IsLink(t, p) \/ IsLink(t0, p) => IsLink(t, p) /\ IsLink(t0, p) /\ t[p] = t0[p]

(* Paths lead where the links say.                                         *)
LEMMA ResolveSame ==
  ASSUME NEW t, NEW t0, LinksArePaths(t), LinksArePaths(t0), SameLinks(t, t0)
  PROVE  \A u \in Names : Resolve(t, u) = Resolve(t0, u)
<1> DEFINE P == {n \in Nat : \A u \in Names : Len(u) = n => Resolve(t, u) = Resolve(t0, u)}
<1>1. \A u \in Names : Len(u) \in Nat
  BY LenProperties DEF Names
<1>2. 0 \in P
  <2>1. \A u \in Names : Len(u) = 0 => u = << >>
    BY EmptySeq DEF Names
  <2> QED BY <2>1, ResolveFacts
<1>3. ASSUME NEW k \in P PROVE k + 1 \in P
  <2>1. SUFFICES ASSUME NEW u \in Names, Len(u) = k + 1 PROVE Resolve(t, u) = Resolve(t0, u)
    OBVIOUS
  <2>2. u \in Path
    <3>1. u # << >>
      BY <2>1
    <3> QED BY <3>1 DEF Path, Names
  <2>3. Front(u) \in Names /\ Len(Front(u)) = k
    BY <2>1, <2>2, PathFacts
  <2>4. Resolve(t, Front(u)) = Resolve(t0, Front(u))
    BY <2>3
  <2>5. \A s, e : Enter(t, s, e) = Enter(t0, s, e)
    BY DEF Enter, SameLinks, IsLink
  <2> QED BY <2>2, <2>4, <2>5, ResolveFacts
<1>4. P \in SUBSET Nat
  OBVIOUS
<1> HIDE DEF P
<1>5. P = Nat
  BY <1>2, <1>3, <1>4, Induction
<1> QED BY <1>1, <1>5 DEF P

(* A path that leads to something in t led there in t0, if t has only      *)
(* lost things, or gained what is no link.                                 *)
LEMMA SameEntry ==
  ASSUME NEW t, NEW t0, LinksArePaths(t), LinksArePaths(t0), Rooted(t), LinksKept(t, t0)
  PROVE  /\ \A u \in Names : Resolve(t, u) \in DOMAIN t \cup {<< >>} => Resolve(t0, u) = Resolve(t, u)
         /\ \A p \in Path : Entry(t, p) \in DOMAIN t => Entry(t0, p) = Entry(t, p)
<1> DEFINE P == {n \in Nat : \A u \in Names : Len(u) = n /\ Resolve(t, u) \in DOMAIN t \cup {<< >>}
                               => Resolve(t0, u) = Resolve(t, u)}
<1>1. \A u \in Names : Len(u) \in Nat
  BY LenProperties DEF Names
<1>2. \A s \in Names, e \in Name : Append(s, e) \in DOMAIN t => s \in DOMAIN t \cup {<< >>}
  <2>1. SUFFICES ASSUME NEW s \in Names, NEW e \in Name, Append(s, e) \in DOMAIN t, s # << >>
                 PROVE s \in DOMAIN t
    OBVIOUS
  <2>2. Len(s) \in Nat /\ Len(s) # 0
    BY <1>1, <2>1, EmptySeq DEF Names
  <2>3. Front(Append(s, e)) = s /\ Len(Append(s, e)) = Len(s) + 1
    BY AppendFacts
  <2>4. Len(Append(s, e)) > 1
    BY <2>2, <2>3
  <2> QED BY <2>1, <2>3, <2>4 DEF Rooted
<1>3. 0 \in P
  <2>1. \A u \in Names : Len(u) = 0 => u = << >>
    BY EmptySeq DEF Names
  <2> QED BY <2>1, ResolveFacts
<1>4. ASSUME NEW k \in P PROVE k + 1 \in P
  <2>1. SUFFICES ASSUME NEW u \in Names, Len(u) = k + 1, Resolve(t, u) \in DOMAIN t \cup {<< >>}
                 PROVE Resolve(t0, u) = Resolve(t, u)
    OBVIOUS
  <2>2. u \in Path
    <3>1. u # << >>
      BY <2>1
    <3> QED BY <3>1 DEF Path, Names
  <2> DEFINE s == Resolve(t, Front(u))
             e == Last(u)
  <2>3. Front(u) \in Names /\ Len(Front(u)) = k /\ e \in Name
    BY <2>1, <2>2, PathFacts
  <2>4. s \in Names
    BY <2>3, ResolveFacts
  <2>5. Append(s, e) \in Path
    BY <2>3, <2>4, AppendFacts
  <2>6. /\ Resolve(t, u) = Enter(t, s, e)
        /\ Resolve(t0, u) = Enter(t0, Resolve(t0, Front(u)), e)
    BY <2>2, ResolveFacts
  <2>7. s \in DOMAIN t \cup {<< >>} => Resolve(t0, Front(u)) = s
    BY <2>3
  <2> HIDE DEF s, e
  <2>8. Append(s, e) \in DOMAIN t
    <3>1. Append(s, e) # << >>
      BY <2>5 DEF Path
    <3> QED BY <2>1, <2>6, <3>1 DEF Enter
  <2>9. Resolve(t0, Front(u)) = s
    BY <1>2, <2>3, <2>4, <2>7, <2>8
  <2>10. Enter(t0, s, e) = Enter(t, s, e)
    BY <2>8 DEF Enter, LinksKept, IsLink
  <2> QED BY <2>6, <2>9, <2>10
<1>5. P \in SUBSET Nat
  OBVIOUS
<1> HIDE DEF P
<1>6. P = Nat
  BY <1>3, <1>4, <1>5, Induction
<1>7. ASSUME NEW u \in Names, Resolve(t, u) \in DOMAIN t \cup {<< >>} PROVE Resolve(t0, u) = Resolve(t, u)
  BY <1>1, <1>6, <1>7 DEF P
<1>8. ASSUME NEW p \in Path, Entry(t, p) \in DOMAIN t PROVE Entry(t0, p) = Entry(t, p)
  <2>1. Front(p) \in Names /\ Last(p) \in Name
    BY PathFacts
  <2>2. Resolve(t, Front(p)) \in Names
    BY <2>1, ResolveFacts
  <2>3. Resolve(t, Front(p)) \in DOMAIN t \cup {<< >>}
    BY <1>2, <1>8, <2>1, <2>2 DEF Entry
  <2> QED BY <1>7, <2>1, <2>3 DEF Entry
<1> QED BY <1>7, <1>8

(* The entry of a path, and the ones in it if it is no link.               *)
LEMMA EntryFacts ==
  ASSUME NEW t, LinksArePaths(t), NEW p \in Path
  PROVE  /\ Entry(t, p) \in Path
         /\ Resolve(t, p) = IF IsLink(t, Entry(t, p)) THEN t[Entry(t, p)].data ELSE Entry(t, p)
         /\ \A e \in Name : Entry(t, Append(p, e)) = Append(Resolve(t, p), e)
<1>1. p \in Names /\ Front(p) \in Names /\ Last(p) \in Name
  BY PathFacts
<1>2. Resolve(t, Front(p)) \in Names
  BY <1>1, ResolveFacts
<1>3. Entry(t, p) \in Path
  BY <1>1, <1>2, AppendFacts DEF Entry
<1>4. Resolve(t, p) = Enter(t, Resolve(t, Front(p)), Last(p))
  BY ResolveFacts
<1>5. Resolve(t, p) = IF IsLink(t, Entry(t, p)) THEN t[Entry(t, p)].data ELSE Entry(t, p)
  BY <1>4 DEF Enter, Entry, IsLink
<1>6. \A e \in Name : Front(Append(p, e)) = p /\ Last(Append(p, e)) = e
  BY <1>1, AppendFacts
<1>7. \A e \in Name : Entry(t, Append(p, e)) = Append(Resolve(t, p), e)
  BY <1>6 DEF Entry
<1> QED BY <1>3, <1>5, <1>7

(* If a path is not in a tree, nothing beneath it is.                      *)
LEMMA GoneFacts ==
  ASSUME NEW t, Rooted(t), NEW top \in Path, top \notin DOMAIN t
  PROVE  \A p \in DOMAIN t : ~Beneath(p, top)
<1> DEFINE P == {n \in Nat : \A p \in DOMAIN t : Len(p) = n => ~Beneath(p, top)}
<1>1. \A p \in DOMAIN t : p \in Path /\ p \in Names /\ Len(p) \in Nat /\ Len(p) >= 1 /\ Len(Front(p)) = Len(p) - 1
  BY PathFacts DEF Rooted
<1>2. 0 \in P
  BY <1>1
<1>3. ASSUME NEW k \in P PROVE k + 1 \in P
  <2>1. SUFFICES ASSUME NEW p \in DOMAIN t, Len(p) = k + 1, Beneath(p, top) PROVE FALSE
    OBVIOUS
  <2>2. p \in Path /\ p # top
    BY <1>1
  <2>3. Len(p) > 1 /\ Beneath(Front(p), top)
    BY <2>1, <2>2, BeneathFacts
  <2>4. Front(p) \in DOMAIN t /\ Len(Front(p)) = k
    BY <1>1, <2>1, <2>3 DEF Rooted
  <2> QED BY <2>3, <2>4
<1>4. P \in SUBSET Nat
  OBVIOUS
<1> HIDE DEF P
<1>5. P = Nat
  BY <1>2, <1>3, <1>4, Induction
<1> QED BY <1>1, <1>5 DEF P

(* Removing an entry that holds none.                                      *)
LEMMA WithoutFacts ==
  ASSUME NEW t, NEW t0, Rooted(t), LinksKept(t, t0), NEW path \in DOMAIN t,
         t[path].type # "dir" \/ Entries(t, path) = {}
  PROVE  /\ DOMAIN Without(t, {path}) = DOMAIN t \ {path}
         /\ Rooted(Without(t, {path})) /\ LinksKept(Without(t, {path}), t0)
         /\ LinksKept(Without(t, {path}), t)
<1> DEFINE w == Without(t, {path})
<1>1. DOMAIN w = DOMAIN t \ {path} /\ \A p \in DOMAIN w : w[p] = t[p]
  BY DEF Without
<1> HIDE DEF w
<1>2. \A p \in DOMAIN w : Len(p) > 1 => Front(p) # path
  <2>1. SUFFICES ASSUME NEW p \in DOMAIN t, Len(p) > 1, Front(p) = path PROVE FALSE
    BY <1>1
  <2>2. t[path].type = "dir"
    BY <2>1 DEF Rooted
  <2>3. Last(p) \in Entries(t, path)
    BY <2>1 DEF Entries
  <2> QED BY <2>2, <2>3
<1>3. Rooted(w)
  BY <1>1, <1>2 DEF Rooted
<1>4. LinksKept(w, t0) /\ LinksKept(w, t)
  BY <1>1 DEF LinksKept, IsLink
<1> QED BY <1>1, <1>3, <1>4 DEF w

-----------------------------------------------------------------------------
(* Processes and the frames of their recursion *)

FrameType ==
  [op : {"copy", "remove"},
   at : {"stat", "open", "write", "mkdir", "fail", "readlink", "unlink", "opendir", "list", "rmdir"},
   src : Path, dest : Path, off : Nat, batch : SUBSET Name, seen : SUBSET Name, ret : {0, -1}]

ProcType ==
  [pc : {"start", "next", "rename", "copy", "remove", "undo", "exited"}, i : Nat, into : BOOLEAN,
   stack : Seq(FrameType), ret : {0, 1, 2}, errs : BOOLEAN, undone : BOOLEAN,
   astray : SUBSET Path]

(* The stacks of frames in S whose first frame is about s.                 *)
Stacks(S, s) == {st \in Seq(S) : st # << >> /\ st[1].src = s}

LEMMA FrontAppend ==
  ASSUME NEW S, NEW u \in Seq(S), NEW e \in S
  PROVE  Front(Append(u, e)) = u /\ Last(Append(u, e)) = e
<1> DEFINE st == Append(u, e)
<1>1. /\ Len(u) \in Nat /\ Len(st) = Len(u) + 1 /\ st[Len(u) + 1] = e
      /\ \A i \in 1 .. Len(u) : st[i] = u[i]
  BY AppendProperties, LenProperties
<1>2. Last(st) = e
  BY <1>1 DEF Last
<1> DEFINE v == SubSeq(st, 1, Len(u))
<1>3. v \in Seq(S) /\ Len(v) = Len(u) /\ \A i \in 1 .. Len(u) : v[i] = st[1 + i - 1]
  <2>1. \A i \in 1 .. Len(u) : st[i] \in S
    BY <1>1, ElementOfSeq
  <2>2. /\ v \in Seq(S) /\ Len(v) = Len(u) - 1 + 1
        /\ \A i \in 1 .. Len(u) - 1 + 1 : v[i] = st[1 + i - 1]
    BY <1>1, <2>1, SubSeqProperties
  <2>3. Len(u) - 1 + 1 = Len(u)
    BY <1>1
  <2> QED BY <2>2, <2>3
<1> HIDE DEF v
<1>4. \A i \in 1 .. Len(u) : v[i] = u[i]
  BY <1>1, <1>3
<1>5. v = u
  BY <1>3, <1>4, SeqEqual
<1>6. Front(st) = SubSeq(st, 1, Len(st) - 1) /\ Len(st) - 1 = Len(u)
  BY <1>1 DEF Front
<1> QED BY <1>2, <1>5, <1>6 DEF v

(* The front of a sequence is one.                                         *)
LEMMA FrontIs ==
  ASSUME NEW S, NEW st \in Seq(S), st # << >>
  PROVE  Front(st) \in Seq(S) /\ Last(st) \in S
<1>1. PICK u \in Seq(S), e \in S : st = Append(u, e)
  BY SequenceEmptyOrAppend
<1> QED BY <1>1, FrontAppend

LEMMA StacksAre ==
  ASSUME NEW S \in SUBSET FrameType, NEW s, NEW st \in Stacks(S, s)
  PROVE  st \in Seq(FrameType)
BY SeqMonotonic DEF Stacks

LEMMA StackFacts ==
  ASSUME NEW S \in SUBSET FrameType, NEW s, NEW st \in Stacks(S, s)
  PROVE  /\ st \in Seq(FrameType) /\ st # << >> /\ Last(st) \in S
         /\ \A f \in S : f.src = Last(st).src => Append(Front(st), f) \in Stacks(S, s)
         /\ \A f \in S : Append(st, f) \in Stacks(S, s)
         /\ Front(st) = << >> => Last(st).src = s
         /\ Front(st) # << >> => Front(st) \in Stacks(S, s)
<1>1. st \in Seq(S) /\ st # << >> /\ st[1].src = s
  BY DEF Stacks
<1>2. st \in Seq(FrameType)
  BY <1>1, SeqMonotonic
<1>3. PICK u \in Seq(S), e \in S : st = Append(u, e)
  BY <1>1, SequenceEmptyOrAppend
<1>4. Front(st) = u /\ Last(st) = e
  BY <1>3, FrontAppend
<1>5. \A f \in S : Append(u, f) \in Seq(S) /\ Append(u, f) # << >> /\ Append(st, f) \in Seq(S) /\ Append(st, f) # << >>
  BY <1>1, <1>3, AppendProperties
<1>6. CASE u = << >>
  <2>1. st[1] = e /\ \A f \in S : Append(u, f)[1] = f /\ Append(st, f)[1] = e
    <3>1. Len(u) = 0
      BY <1>6
    <3>2. Len(st) = 1 /\ st[1] = e
      BY <1>3, <3>1, AppendProperties
    <3>3. \A f \in S : Append(u, f)[1] = f
      BY <1>3, <3>1, AppendProperties
    <3>4. \A f \in S : Append(st, f)[1] = st[1]
      BY <1>1, <3>2, AppendProperties
    <3> QED BY <3>2, <3>3, <3>4
  <2>2. \A f \in S : f.src = e.src => Append(u, f) \in Stacks(S, s)
    BY <1>1, <1>5, <2>1 DEF Stacks
  <2>3. \A f \in S : Append(st, f) \in Stacks(S, s)
    BY <1>1, <1>5, <2>1 DEF Stacks
  <2> QED BY <1>1, <1>2, <1>3, <1>4, <1>6, <2>1, <2>2, <2>3
<1>7. CASE u # << >>
  <2>1. u[1] = st[1] /\ \A f \in S : Append(u, f)[1] = u[1] /\ Append(st, f)[1] = st[1]
    <3>1. Len(u) \in Nat /\ Len(u) >= 1
      BY <1>3, <1>7, EmptySeq, LenProperties
    <3>2. Len(st) \in Nat /\ Len(st) >= 1 /\ st[1] = u[1]
      BY <1>3, <3>1, AppendProperties
    <3>3. \A f \in S : Append(u, f)[1] = u[1]
      BY <1>3, <3>1, AppendProperties
    <3>4. \A f \in S : Append(st, f)[1] = st[1]
      BY <1>1, <3>2, AppendProperties
    <3> QED BY <3>2, <3>3, <3>4
  <2>2. u \in Stacks(S, s)
    BY <1>1, <1>3, <1>7, <2>1 DEF Stacks
  <2>3. \A f \in S : Append(u, f) \in Stacks(S, s)
    BY <1>1, <1>5, <2>1 DEF Stacks
  <2>4. \A f \in S : Append(st, f) \in Stacks(S, s)
    BY <1>1, <1>5, <2>1 DEF Stacks
  <2> QED BY <1>1, <1>2, <1>3, <1>4, <1>7, <2>2, <2>3, <2>4
<1> QED BY <1>6, <1>7

(* What processes are like but for whether they printed an error.          *)
Like(y, x) ==
  /\ y \in ProcType
  /\ y.pc = x.pc /\ y.i = x.i /\ y.into = x.into /\ y.stack = x.stack /\ y.ret = x.ret
  /\ y.undone = x.undone /\ y.astray = x.astray

(* The process goes on with frames in S, or the recursion returns ret.     *)
GoesOn(y, x, S) == \E st \in Stacks(S, x.stack[1].src) : Like(y, [x EXCEPT !.stack = st])
Ends(y, c, x, ret) == Like(y, Returned(c, x, ret))

(* Frames stay in S when a call that they made fails.                      *)
Closed(S) ==
  \A f \in S : IF f.op = "remove" THEN [f EXCEPT !.ret = -1] \in S ELSE [f EXCEPT !.at = "fail"] \in S

At1(x, S) == x \in ProcType /\ x.stack \in Stacks(S, x.stack[1].src)

LEMMA GoesFacts ==
  ASSUME NEW S \in SUBSET FrameType, NEW x \in ProcType, At1(x, S)
  PROVE  /\ Top(x) \in S /\ Top(x) \in FrameType
         /\ \A f \in S, e \in BOOLEAN : f.src = Top(x).src =>
              GoesOn(Goes(x, f), x, S) /\ GoesOn([Goes(x, f) EXCEPT !.errs = e], x, S)
<1> DEFINE st == x.stack
           s == x.stack[1].src
<1>1. st \in Stacks(S, s)
  BY DEF At1
<1>2. Last(st) \in S /\ \A f \in S : f.src = Last(st).src => Append(Front(st), f) \in Stacks(S, s)
  BY <1>1, StackFacts
<1>3. ASSUME NEW f \in S, NEW e \in BOOLEAN, f.src = Last(st).src
      PROVE  GoesOn(Goes(x, f), x, S) /\ GoesOn([Goes(x, f) EXCEPT !.errs = e], x, S)
  <2> DEFINE u == Append(Front(st), f)
  <2>1. u \in Stacks(S, s)
    BY <1>2, <1>3
  <2>0. u \in Seq(FrameType)
    BY <2>1, StacksAre
  <2> HIDE DEF u
  <2>2. Like([x EXCEPT !.stack = u], [x EXCEPT !.stack = u])
        /\ Like([[x EXCEPT !.stack = u] EXCEPT !.errs = e], [x EXCEPT !.stack = u])
    BY <2>0 DEF Like, ProcType
  <2>3. Goes(x, f) = [x EXCEPT !.stack = u]
    BY DEF Goes, u
  <2> QED BY <2>1, <2>2, <2>3 DEF GoesOn
<1> QED BY <1>2, <1>3 DEF Top

LEMMA ReturnFacts ==
  ASSUME NEW S \in SUBSET FrameType, Closed(S), NEW c, NEW x \in ProcType, At1(x, S), NEW ret \in {0, -1},
         NEW e \in BOOLEAN, Returned(c, x, ret) \in ProcType
  PROVE  \/ GoesOn(Return(c, x, ret), x, S) /\ GoesOn([Return(c, x, ret) EXCEPT !.errs = e], x, S)
         \/ /\ Top(x).src = x.stack[1].src
            /\ Ends(Return(c, x, ret), c, x, ret) /\ Ends([Return(c, x, ret) EXCEPT !.errs = e], c, x, ret)
<1> DEFINE st == x.stack
           s == x.stack[1].src
           rest == Front(st)
           y == [x EXCEPT !.stack = rest]
           up == Last(rest)
<1>1. st \in Stacks(S, s)
  BY DEF At1
<1>2. CASE rest = << >>
  <2>1. Return(c, x, ret) = Returned(c, x, ret)
    BY <1>2 DEF Return
  <2>2. Last(st).src = s
    <3> HIDE DEF st, s
    <3> QED BY <1>1, <1>2, StackFacts
  <2>3. Like(Returned(c, x, ret), Returned(c, x, ret))
        /\ Like([Returned(c, x, ret) EXCEPT !.errs = e], Returned(c, x, ret))
    BY DEF Like, ProcType
  <2> QED BY <2>1, <2>2, <2>3 DEF Ends, Top
<1>3. CASE rest # << >>
  <2>1. rest \in Stacks(S, s) /\ rest \in Seq(FrameType)
    <3> HIDE DEF st, s
    <3>1. rest \in Stacks(S, s)
      BY <1>1, <1>3, StackFacts
    <3> QED BY <3>1, StacksAre
  <2> HIDE DEF rest
  <2>2. up \in S /\ \A f \in S : f.src = up.src => Append(Front(rest), f) \in Stacks(S, s) /\ Append(Front(rest), f) \in Seq(FrameType)
    <3> HIDE DEF s
    <3>1. up \in S /\ \A f \in S : f.src = up.src => Append(Front(rest), f) \in Stacks(S, s)
      BY <2>1, StackFacts
    <3> QED BY <3>1, StacksAre
  <2>3. y \in ProcType /\ y.stack = rest
    BY <2>1 DEF ProcType
  <2>4. ASSUME NEW z, NEW u \in Stacks(S, s), u \in Seq(FrameType), z = [x EXCEPT !.stack = u]
        PROVE  GoesOn(z, x, S) /\ GoesOn([z EXCEPT !.errs = e], x, S)
    <3>1. Like(z, [x EXCEPT !.stack = u]) /\ Like([z EXCEPT !.errs = e], [x EXCEPT !.stack = u])
      BY <2>4 DEF Like, ProcType
    <3> QED BY <3>1 DEF GoesOn
  <2>5. ASSUME NEW f \in S, f.src = up.src
        PROVE  \E u \in Stacks(S, s) : u \in Seq(FrameType) /\ Goes(y, f) = [x EXCEPT !.stack = u]
    <3>1. Goes(y, f) = [x EXCEPT !.stack = Append(Front(rest), f)]
      BY <2>3 DEF Goes, ProcType
    <3> QED BY <2>2, <2>5, <3>1
  <2>6. [up EXCEPT !.ret = -1].src = up.src /\ [up EXCEPT !.at = "fail"].src = up.src
    BY <2>2 DEF FrameType
  <2>7. IF up.op = "remove" THEN [up EXCEPT !.ret = -1] \in S ELSE [up EXCEPT !.at = "fail"] \in S
    BY <2>2 DEF Closed
  <2>8. Return(c, x, ret) =
          IF ret = 0 \/ (up.op = "copy" /\ c.name = "cp") THEN y
          ELSE IF up.op = "remove" THEN Goes(y, [up EXCEPT !.ret = -1])
          ELSE Goes(y, [up EXCEPT !.at = "fail"])
    BY <1>3 DEF Return, rest
  <2> HIDE DEF up
  <2>9. \E u \in Stacks(S, s) : u \in Seq(FrameType) /\ Return(c, x, ret) = [x EXCEPT !.stack = u]
    <3>1. CASE ret = 0 \/ (up.op = "copy" /\ c.name = "cp")
      BY <2>1, <2>8, <3>1
    <3>2. CASE ~(ret = 0 \/ (up.op = "copy" /\ c.name = "cp")) /\ up.op = "remove"
      BY <2>5, <2>6, <2>7, <2>8, <3>2
    <3>3. CASE ~(ret = 0 \/ (up.op = "copy" /\ c.name = "cp")) /\ up.op # "remove"
      BY <2>5, <2>6, <2>7, <2>8, <3>3
    <3> QED BY <3>1, <3>2, <3>3
  <2> QED BY <2>4, <2>9
<1> QED BY <1>2, <1>3

-----------------------------------------------------------------------------
(* Removing *)

(* Paths beneath top, or beneath where a link leads that was overlooked.   *)
Under(p, top, A) == Beneath(p, top) \/ \E dir \in A : Beneath(p, dir)

IsGone(t, path) == Entry(t, path) \notin DOMAIN t

(* The frames of remove_path and remove_tree for such paths: what they ask *)
(* stat for is no link, or one that readlink failed on, or is gone.        *)
Removal(t, t0, top, A) ==
  {f \in FrameType :
     LET path == Entry(t0, f.src) IN
     /\ f.op = "remove" /\ f.at \in {"readlink", "stat", "unlink", "opendir", "list", "rmdir"}
     /\ Under(path, top, A)
     /\ f.at \in {"stat", "opendir", "list", "rmdir"} /\ IsLink(t0, path) =>
          t0[path].data \in A \/ (f.at = "stat" /\ IsGone(t, f.src))}

(* Nothing is removed, or one entry that holds none.                       *)
Removes(t, u, top, A) ==
  \/ u = t
  \/ \E path \in DOMAIN t :
       Under(path, top, A) /\ (t[path].type # "dir" \/ Entries(t, path) = {}) /\ u = Without(t, {path})

Gentle(t, t0) == LinksArePaths(t) /\ LinksArePaths(t0) /\ Rooted(t) /\ LinksKept(t, t0)

LEMMA RemovesFacts ==
  ASSUME NEW t, NEW u, NEW t0, NEW top, NEW A, Gentle(t, t0), Removes(t, u, top, A)
  PROVE  /\ Gentle(u, t0) /\ Gentle(u, t) /\ DOMAIN u \in SUBSET DOMAIN t
         /\ \A p \in DOMAIN t \ DOMAIN u : Under(p, top, A)
<1>1. CASE u = t
  BY <1>1 DEF Gentle, LinksKept, IsLink
<1>2. ASSUME NEW path \in DOMAIN t, Under(path, top, A), t[path].type # "dir" \/ Entries(t, path) = {},
             u = Without(t, {path})
      PROVE  /\ Gentle(u, t0) /\ Gentle(u, t) /\ DOMAIN u \in SUBSET DOMAIN t
             /\ \A p \in DOMAIN t \ DOMAIN u : Under(p, top, A)
  <2>1. DOMAIN u = DOMAIN t \ {path} /\ Rooted(u) /\ LinksKept(u, t0) /\ LinksKept(u, t)
    BY <1>2, WithoutFacts DEF Gentle
  <2>2. LinksArePaths(u)
    BY <1>2 DEF Gentle, LinksArePaths, Without
  <2> QED BY <1>2, <2>1, <2>2 DEF Gentle
<1> QED BY <1>1, <1>2 DEF Removes

LEMMA GoneStays ==
  ASSUME NEW t, NEW u, Gentle(u, t), DOMAIN u \in SUBSET DOMAIN t, NEW p \in Path, IsGone(t, p)
  PROVE  IsGone(u, p)
BY SameEntry DEF Gentle, IsGone

(* Frames stay what they are while entries are removed, and when another   *)
(* link is overlooked.                                                     *)
LEMMA RemovalGrows ==
  ASSUME NEW t, NEW u, NEW t0, NEW top, NEW A, NEW B, Gentle(u, t), DOMAIN u \in SUBSET DOMAIN t,
         A \in SUBSET B
  PROVE  /\ Removal(t, t0, top, A) \in SUBSET Removal(u, t0, top, B)
         /\ \A s : Stacks(Removal(t, t0, top, A), s) \in SUBSET Stacks(Removal(u, t0, top, B), s)
<1>1. ASSUME NEW f \in Removal(t, t0, top, A)
      PROVE  f \in Removal(u, t0, top, B)
  <2>1. f \in FrameType /\ f.src \in Path
    BY DEF Removal, FrameType
  <2>2. IsGone(t, f.src) => IsGone(u, f.src)
    BY <2>1, GoneStays
  <2>3. \A path : Under(path, top, A) => Under(path, top, B)
    BY DEF Under
  <2> QED BY <2>1, <2>2, <2>3 DEF Removal
<1>2. ASSUME NEW s, NEW st \in Stacks(Removal(t, t0, top, A), s)
      PROVE  st \in Stacks(Removal(u, t0, top, B), s)
  BY <1>1, SeqMonotonic DEF Stacks
<1> QED BY <1>1, <1>2

LEMMA RemovalFacts ==
  ASSUME NEW t, NEW t0, LinksArePaths(t0), NEW top \in Path, NEW A \in SUBSET Path
  PROVE  /\ Removal(t, t0, top, A) \in SUBSET FrameType /\ Closed(Removal(t, t0, top, A))
         /\ \A f \in Removal(t, t0, top, A), at \in {"stat", "unlink", "opendir", "list", "rmdir"} :
              \/ at = "unlink" \/ ~IsLink(t0, Entry(t0, f.src)) \/ t0[Entry(t0, f.src)].data \in A
              \/ at = "stat" /\ IsGone(t, f.src)
              => [f EXCEPT !.at = at] \in Removal(t, t0, top, A)
         /\ \A f \in Removal(t, t0, top, A), e \in Name :
              f.at = "list" => Frame("remove", Append(f.src, e), Append(f.dest, e)) \in Removal(t, t0, top, A)
<1> DEFINE R == Removal(t, t0, top, A)
<1>1. R \in SUBSET FrameType
  BY DEF Removal
<1>2. Closed(R)
  BY DEF Closed, Removal, FrameType
<1>3. ASSUME NEW f \in R, NEW at \in {"stat", "unlink", "opendir", "list", "rmdir"},
             \/ at = "unlink" \/ ~IsLink(t0, Entry(t0, f.src)) \/ t0[Entry(t0, f.src)].data \in A
             \/ at = "stat" /\ IsGone(t, f.src)
      PROVE  [f EXCEPT !.at = at] \in R
  <2>1. f \in FrameType /\ f.op = "remove" /\ Under(Entry(t0, f.src), top, A)
    BY DEF Removal
  <2>2. [f EXCEPT !.at = at] \in FrameType /\ [f EXCEPT !.at = at].op = "remove"
        /\ [f EXCEPT !.at = at].src = f.src /\ [f EXCEPT !.at = at].at = at
    BY <2>1 DEF FrameType
  <2> HIDE DEF R
  <2> QED BY <1>3, <2>1, <2>2 DEF Removal, R
<1>4. ASSUME NEW f \in R, NEW e \in Name, f.at = "list"
      PROVE  Frame("remove", Append(f.src, e), Append(f.dest, e)) \in R
  <2> DEFINE path == Entry(t0, f.src)
             child == Append(f.src, e)
             g == Frame("remove", child, Append(f.dest, e))
  <2>1. /\ f \in FrameType /\ Under(path, top, A)
        /\ IsLink(t0, path) => t0[path].data \in A
    BY <1>4 DEF Removal
  <2>2. f.src \in Path /\ f.dest \in Path
    BY <2>1 DEF FrameType
  <2>3. child \in Path /\ Append(f.dest, e) \in Path
    BY <2>2, AppendFacts, PathFacts
  <2>4. /\ path \in Path /\ Entry(t0, child) = Append(Resolve(t0, f.src), e)
        /\ Resolve(t0, f.src) = IF IsLink(t0, path) THEN t0[path].data ELSE path
    BY <2>2, EntryFacts
  <2>5. Under(Entry(t0, child), top, A)
    <3> HIDE DEF path, child
    <3>1. \A a \in Path, r \in Path : Beneath(r, a) => Beneath(Append(r, e), a)
      BY BeneathFacts, PathFacts
    <3>2. CASE IsLink(t0, path)
      <4>1. t0[path].data \in A /\ t0[path].data \in Path /\ Entry(t0, child) = Append(t0[path].data, e)
        BY <2>1, <2>4, <3>2
      <4>2. Beneath(t0[path].data, t0[path].data)
        BY <4>1, BeneathFacts
      <4> QED BY <3>1, <4>1, <4>2 DEF Under
    <3>3. CASE ~IsLink(t0, path)
      <4>1. Entry(t0, child) = Append(path, e)
        BY <2>4, <3>3
      <4> QED BY <2>1, <2>4, <3>1, <4>1 DEF Under
    <3> QED BY <3>2, <3>3
  <2>6. g \in FrameType /\ g.op = "remove" /\ g.at = "readlink" /\ g.src = child
    BY <2>3 DEF Frame, FrameType
  <2> HIDE DEF g, child
  <2> QED BY <2>5, <2>6 DEF Removal, g, child
<1> QED BY <1>1, <1>2, <1>3, <1>4

(* Process q removes, and one of its steps goes on, having perhaps         *)
(* overlooked a link, or ends with the entry gone, or with an error.       *)
Frames(q, top) == Removal(fs, fs0, top, proc[q].astray)

RemovesNow(q, top) ==
  /\ proc[q] \in ProcType /\ At1(proc[q], Frames(q, top)) /\ proc[q].pc \in {"remove", "undo"}
  /\ Gentle(fs, fs0) /\ top \in Path
  /\ \A ret \in {0, -1} : Returned(job[q], proc[q], ret) \in ProcType

RemovalOutcome(q, top) ==
  \E y : /\ Step(q, y) /\ Removes(fs, fs', top, proc[q].astray)
         /\ \/ \E B \in SUBSET Path :
                 /\ proc[q].astray \in SUBSET B
                 /\ GoesOn(y, [proc[q] EXCEPT !.astray = B], Removal(fs', fs0, top, B))
            \/ \E ret \in {0, -1} :
                 /\ Ends(y, job[q], proc[q], ret)
                 /\ ret = 0 => IsGone(fs', proc[q].stack[1].src) \/ Overlooked(q, proc[q].stack[1].src)

(* What is known of such a process.                                        *)
LEMMA RemovesNowFacts ==
  ASSUME NEW q, NEW top, RemovesNow(q, top)
  PROVE  /\ Frames(q, top) \in SUBSET FrameType /\ Closed(Frames(q, top))
         /\ proc[q] \in ProcType /\ At1(proc[q], Frames(q, top)) /\ proc[q].astray \in SUBSET Path
         /\ [proc[q] EXCEPT !.astray = proc[q].astray] = proc[q]
<1>1. proc[q] \in ProcType /\ proc[q].astray \in SUBSET Path
  BY DEF RemovesNow, ProcType
<1>2. [proc[q] EXCEPT !.astray = proc[q].astray] = proc[q]
  BY <1>1 DEF ProcType
<1>3. Frames(q, top) \in SUBSET FrameType /\ Closed(Frames(q, top))
  BY <1>1, RemovalFacts DEF RemovesNow, Gentle, Frames
<1> QED BY <1>1, <1>2, <1>3 DEF RemovesNow

(* The process goes on with frames that it could have had before.          *)
LEMMA RemovalGoesOn ==
  ASSUME NEW q, NEW top, RemovesNow(q, top), Removes(fs, fs', top, proc[q].astray), NEW y, Step(q, y),
         GoesOn(y, proc[q], Frames(q, top))
  PROVE  RemovalOutcome(q, top)
<1> DEFINE A == proc[q].astray
           s == proc[q].stack[1].src
<1>1. A \in SUBSET Path /\ A \in SUBSET A /\ [proc[q] EXCEPT !.astray = A] = proc[q]
  BY RemovesNowFacts
<1>2. Gentle(fs', fs) /\ DOMAIN fs' \in SUBSET DOMAIN fs
  BY RemovesFacts DEF RemovesNow
<1>3. Stacks(Frames(q, top), s) \in SUBSET Stacks(Removal(fs', fs0, top, A), s)
  BY <1>1, <1>2, RemovalGrows DEF Frames
<1>4. GoesOn(y, proc[q], Removal(fs', fs0, top, A))
  BY <1>3 DEF GoesOn
<1> QED BY <1>1, <1>4 DEF RemovalOutcome

LEMMA RemovalReturns ==
  ASSUME NEW q, NEW top, RemovesNow(q, top), Removes(fs, fs', top, proc[q].astray), NEW ret \in {0, -1},
         ret = 0 => IsGone(fs', Top(proc[q]).src) \/ Overlooked(q, Top(proc[q]).src)
  PROVE  /\ Step(q, Return(job[q], proc[q], ret)) => RemovalOutcome(q, top)
         /\ ret = -1 /\ Step(q, Fail(job[q], proc[q])) => RemovalOutcome(q, top)
<1> DEFINE x == proc[q]
           c == job[q]
           R == Frames(q, top)
<1>1. R \in SUBSET FrameType /\ Closed(R) /\ x \in ProcType /\ At1(x, R) /\ Returned(c, x, ret) \in ProcType
  BY RemovesNowFacts DEF RemovesNow
<1> HIDE DEF x, c, R
<1>2. \/ GoesOn(Return(c, x, ret), x, R) /\ GoesOn([Return(c, x, ret) EXCEPT !.errs = TRUE], x, R)
      \/ /\ Top(x).src = x.stack[1].src
         /\ Ends(Return(c, x, ret), c, x, ret) /\ Ends([Return(c, x, ret) EXCEPT !.errs = TRUE], c, x, ret)
  BY <1>1, ReturnFacts
<1>3. Fail(c, x) = [Return(c, x, -1) EXCEPT !.errs = TRUE]
  BY DEF Fail
<1>4. ASSUME NEW y, Step(q, y), y = Return(c, x, ret) \/ (ret = -1 /\ y = Fail(c, x))
      PROVE  RemovalOutcome(q, top)
  <2>1. GoesOn(y, x, R) \/ (Top(x).src = x.stack[1].src /\ Ends(y, c, x, ret))
    BY <1>2, <1>3, <1>4
  <2>2. CASE GoesOn(y, x, R)
    BY <1>4, <2>2, RemovalGoesOn DEF x, R
  <2>3. CASE Top(x).src = x.stack[1].src /\ Ends(y, c, x, ret)
    <3>1. ret = 0 => IsGone(fs', x.stack[1].src) \/ Overlooked(q, x.stack[1].src)
      BY <2>3 DEF x
    <3> QED BY <1>4, <2>3, <3>1 DEF RemovalOutcome, x, c
  <2> QED BY <2>1, <2>2, <2>3
<1> QED BY <1>4 DEF x, c

LEMMA RemovalGoes ==
  ASSUME NEW q, NEW top, RemovesNow(q, top), fs' = fs, NEW f \in Frames(q, top), f.src = Top(proc[q]).src
  PROVE  /\ Step(q, Goes(proc[q], f)) => RemovalOutcome(q, top)
         /\ Step(q, [Goes(proc[q], f) EXCEPT !.errs = TRUE]) => RemovalOutcome(q, top)
<1> DEFINE x == proc[q]
           R == Frames(q, top)
<1>1. R \in SUBSET FrameType /\ x \in ProcType /\ At1(x, R) /\ f \in R /\ f.src = Top(x).src
  BY RemovesNowFacts
<1>2. Removes(fs, fs', top, x.astray)
  BY DEF Removes
<1> HIDE DEF x, R
<1>3. GoesOn(Goes(x, f), x, R) /\ GoesOn([Goes(x, f) EXCEPT !.errs = TRUE], x, R)
  BY <1>1, GoesFacts
<1> QED BY <1>2, <1>3, RemovalGoesOn DEF x, R

LEMMA RemovalFails ==
  ASSUME NEW q, NEW top, RemovesNow(q, top), fs' = fs, Step(q, Fail(job[q], proc[q]))
  PROVE  RemovalOutcome(q, top)
<1>1. Removes(fs, fs', top, proc[q].astray)
  BY DEF Removes
<1> QED BY <1>1, RemovalReturns

(* What the frame at the top names, where it is there.                     *)
LEMMA RemovalTop ==
  ASSUME NEW q, NEW top, RemovesNow(q, top)
  PROVE  /\ Top(proc[q]) \in Frames(q, top) /\ Top(proc[q]) \in FrameType
         /\ Top(proc[q]).op = "remove" /\ Top(proc[q]).src \in Path
         /\ proc[q].stack # << >>
         /\ Entry(fs, Top(proc[q]).src) \in DOMAIN fs =>
              /\ Entry(fs0, Top(proc[q]).src) = Entry(fs, Top(proc[q]).src)
              /\ Under(Entry(fs, Top(proc[q]).src), top, proc[q].astray)
              /\ IsLink(fs, Entry(fs, Top(proc[q]).src)) <=> IsLink(fs0, Entry(fs, Top(proc[q]).src))
              /\ IsLink(fs, Entry(fs, Top(proc[q]).src)) =>
                   fs[Entry(fs, Top(proc[q]).src)] = fs0[Entry(fs, Top(proc[q]).src)]
<1> DEFINE x == proc[q]
           R == Frames(q, top)
           path == Entry(fs, Top(x).src)
<1>1. R \in SUBSET FrameType /\ x \in ProcType /\ At1(x, R)
  BY RemovesNowFacts
<1>2. Top(x) \in R /\ Top(x) \in FrameType
  <2> HIDE DEF x, R
  <2> QED BY <1>1, GoesFacts
<1>3. Top(x).op = "remove" /\ Top(x).src \in Path /\ Under(Entry(fs0, Top(x).src), top, x.astray)
  BY <1>2 DEF Removal, FrameType, Frames
<1>4. path \in DOMAIN fs => Entry(fs0, Top(x).src) = path
  BY <1>3, SameEntry DEF RemovesNow, Gentle
<1>5. x.stack # << >>
  BY <1>1 DEF At1, Stacks
<1>6. \A p \in DOMAIN fs : (IsLink(fs, p) <=> IsLink(fs0, p)) /\ (IsLink(fs, p) => fs[p] = fs0[p])
  BY DEF RemovesNow, Gentle, LinksKept, IsLink
<1>7. path \in DOMAIN fs => (IsLink(fs, path) <=> IsLink(fs0, path)) /\ (IsLink(fs, path) => fs[path] = fs0[path])
  <2> HIDE DEF path
  <2> QED BY <1>6
<1> QED BY <1>2, <1>3, <1>4, <1>5, <1>7

(* An entry that was removed is gone.                                      *)
LEMMA GoneWithout ==
  ASSUME NEW t, NEW t0, Gentle(t, t0), NEW p \in Path, Entry(t, p) \in DOMAIN t,
         t[Entry(t, p)].type # "dir" \/ Entries(t, Entry(t, p)) = {}
  PROVE  IsGone(Without(t, {Entry(t, p)}), p)
<1> DEFINE path == Entry(t, p)
           u == Without(t, {path})
<1>1. path \in DOMAIN t /\ (t[path].type # "dir" \/ Entries(t, path) = {}) /\ path = Entry(t, p)
  OBVIOUS
<1> HIDE DEF path
<1>2. DOMAIN u = DOMAIN t \ {path} /\ Rooted(u) /\ LinksKept(u, t)
  BY <1>1, WithoutFacts DEF Gentle
<1>3. LinksArePaths(u) /\ LinksArePaths(t)
  BY DEF Gentle, LinksArePaths, Without
<1> HIDE DEF u
<1>4. Entry(u, p) \in DOMAIN u => Entry(t, p) = Entry(u, p)
  BY <1>2, <1>3, SameEntry
<1>5. IsGone(u, p)
  BY <1>1, <1>2, <1>4 DEF IsGone
<1> QED BY <1>5 DEF u, path

(* readlink: a link, none, or a link that it fails on.                     *)
LEMMA RemovalLooks ==
  ASSUME NEW q, NEW top, RemovesNow(q, top), RemoveLook(q)
  PROVE  RemovalOutcome(q, top)
<1> DEFINE x == proc[q]
           f == Top(x)
           path == Entry(fs, f.src)
           g == [f EXCEPT !.at = "stat"]
           dir == fs[path].data
<1>1. /\ f \in Frames(q, top) /\ f \in FrameType /\ f.src \in Path
      /\ path \in DOMAIN fs =>
           /\ Entry(fs0, f.src) = path
           /\ IsLink(fs, path) <=> IsLink(fs0, path)
           /\ IsLink(fs, path) => fs[path] = fs0[path]
  BY RemovalTop
<1>2. fs' = fs /\ x \in ProcType /\ x.astray \in SUBSET Path
  BY RemovesNowFacts DEF RemoveLook, Keeps, Faulty
<1>3. \/ Step(q, Goes(x, [f EXCEPT !.at = "unlink"]))
      \/ ~IsLink(fs, path) /\ Step(q, Goes(x, g))
      \/ IsLink(fs, path) /\ Step(q, Goes([x EXCEPT !.astray = @ \cup {dir}], g))
  BY DEF RemoveLook, Keeps, Faulty, Is, IsLink
<1>4. g.src = f.src /\ g.at = "stat" /\ [f EXCEPT !.at = "unlink"].src = f.src
  BY <1>1 DEF FrameType
<1>5. CASE Step(q, Goes(x, [f EXCEPT !.at = "unlink"]))
  <2>1. [f EXCEPT !.at = "unlink"] \in Frames(q, top)
    BY <1>1, <1>2, RemovalFacts DEF RemovesNow, Gentle, Frames
  <2> QED BY <1>2, <1>4, <1>5, <2>1, RemovalGoes
<1>6. CASE ~IsLink(fs, path) /\ Step(q, Goes(x, g))
  <2>1. ~IsLink(fs0, Entry(fs0, f.src)) \/ IsGone(fs, f.src)
    BY <1>1, <1>6 DEF IsGone
  <2>2. g \in Frames(q, top)
    BY <1>1, <1>2, <2>1, RemovalFacts DEF RemovesNow, Gentle, Frames
  <2> QED BY <1>2, <1>4, <1>6, <2>2, RemovalGoes
<1>7. CASE IsLink(fs, path) /\ Step(q, Goes([x EXCEPT !.astray = @ \cup {dir}], g))
  <2> DEFINE B == x.astray \cup {dir}
             z == [x EXCEPT !.astray = B]
             S == Removal(fs, fs0, top, B)
             s == x.stack[1].src
  <2>1. path \in DOMAIN fs /\ dir \in Path /\ IsLink(fs0, path) /\ fs0[path].data = dir
    <3>1. path \in DOMAIN fs
      BY <1>7 DEF IsLink
    <3>2. dir \in Path
      <4>1. IsLink(fs, path)
        BY <1>7
      <4> HIDE DEF path
      <4> QED BY <4>1 DEF RemovesNow, Gentle, LinksArePaths, IsLink
    <3> QED BY <1>1, <1>7, <3>1, <3>2
  <2>2. B \in SUBSET Path /\ x.astray \in SUBSET B
    BY <1>2, <2>1
  <2>3. Gentle(fs, fs) /\ LinksArePaths(fs0) /\ top \in Path
    BY DEF RemovesNow, Gentle, LinksKept
  <2>4. Stacks(Frames(q, top), s) \in SUBSET Stacks(S, s) /\ f \in S
    BY <1>1, <2>2, <2>3, RemovalGrows DEF Frames
  <2>5. S \in SUBSET FrameType
    BY <2>2, <2>3, RemovalFacts
  <2>6. g \in S
    <3>1. fs0[Entry(fs0, f.src)].data \in B
      BY <1>1, <2>1
    <3> HIDE DEF B, f
    <3> QED BY <2>2, <2>3, <2>4, <3>1, RemovalFacts
  <2>7. z \in ProcType /\ z.stack = x.stack
    BY <1>2, <2>2 DEF ProcType
  <2>8. At1(x, Frames(q, top))
    BY RemovesNowFacts
  <2>9. Step(q, Goes(z, g))
    BY <1>7
  <2> HIDE DEF z, B, S, g, f, path, dir
  <2>10. At1(z, S) /\ Top(z) = f
    BY <2>4, <2>7, <2>8 DEF At1, Top, f
  <2>11. GoesOn(Goes(z, g), z, S)
    BY <1>4, <2>5, <2>6, <2>7, <2>10, GoesFacts
  <2>12. Removes(fs, fs', top, x.astray)
    BY <1>2 DEF Removes
  <2> QED BY <1>2, <2>2, <2>9, <2>11, <2>12 DEF RemovalOutcome, z, S
<1> QED BY <1>3, <1>5, <1>6, <1>7

(* stat: what is not there although readlink did not find it gone is where *)
(* an overlooked link leads.                                               *)
LEMMA RemovalStats ==
  ASSUME NEW q, NEW top, RemovesNow(q, top), RemoveStat(q)
  PROVE  RemovalOutcome(q, top)
<1> DEFINE c == job[q]
           x == proc[q]
           f == Top(x)
           path == Entry(fs, f.src)
           node == Resolve(fs, f.src)
<1>1. /\ f \in Frames(q, top) /\ f \in FrameType /\ f.src \in Path /\ f.at = "stat"
      /\ path \in DOMAIN fs =>
           /\ Entry(fs0, f.src) = path
           /\ IsLink(fs, path) <=> IsLink(fs0, path)
  BY RemovalTop DEF RemoveStat, At
<1>2. fs' = fs /\ x.astray \in SUBSET Path
  BY RemovesNowFacts DEF RemoveStat, Keeps, Faulty
<1>3. Removes(fs, fs', top, x.astray)
  BY <1>2 DEF Removes
<1>4. \/ Step(q, Fail(c, x))
      \/ force(c) /\ node \notin DOMAIN fs /\ Step(q, Return(c, x, 0))
      \/ Step(q, Goes(x, [f EXCEPT !.at = "unlink"]))
      \/ node \in DOMAIN fs /\ Step(q, Goes(x, [f EXCEPT !.at = "opendir"]))
  BY DEF RemoveStat, Keeps, Faulty
<1>5. node = IF IsLink(fs, path) THEN fs[path].data ELSE path
  BY <1>1, EntryFacts DEF RemovesNow, Gentle
<1>6. IsLink(fs0, Entry(fs0, f.src)) => fs0[Entry(fs0, f.src)].data \in x.astray \/ IsGone(fs, f.src)
  BY <1>1 DEF Removal, Frames
<1>7. path \notin DOMAIN fs => ~IsLink(fs, path)
  BY DEF IsLink
<1> HIDE DEF path, node
<1>8. CASE Step(q, Fail(c, x))
  BY <1>2, <1>8, RemovalFails
<1>9. CASE force(c) /\ node \notin DOMAIN fs /\ Step(q, Return(c, x, 0))
  <2>1. CASE path \notin DOMAIN fs
    <3>1. IsGone(fs', f.src)
      BY <1>2, <2>1 DEF IsGone, path
    <3> QED BY <1>3, <1>9, <3>1, RemovalReturns
  <2>2. CASE path \in DOMAIN fs
    <3>1. IsLink(fs, path) /\ ~IsGone(fs, f.src)
      BY <1>5, <1>9, <2>2 DEF IsGone, path
    <3>2. IsLink(fs0, Entry(fs0, f.src)) /\ Entry(fs0, f.src) = path
      BY <1>1, <2>2, <3>1 DEF path
    <3>3. Overlooked(q, f.src)
      BY <1>6, <1>9, <3>1, <3>2 DEF Overlooked, Is, IsLink
    <3> QED BY <1>3, <1>9, <3>3, RemovalReturns
  <2> QED BY <2>1, <2>2
<1>10. CASE Step(q, Goes(x, [f EXCEPT !.at = "unlink"]))
  <2>1. [f EXCEPT !.at = "unlink"] \in Frames(q, top)
    BY <1>1, <1>2, RemovalFacts DEF RemovesNow, Gentle, Frames
  <2>2. [f EXCEPT !.at = "unlink"].src = f.src
    BY <1>1 DEF FrameType
  <2> QED BY <1>2, <1>10, <2>1, <2>2, RemovalGoes
<1>11. CASE node \in DOMAIN fs /\ Step(q, Goes(x, [f EXCEPT !.at = "opendir"]))
  <2>1. ~IsGone(fs, f.src)
    BY <1>5, <1>7, <1>11 DEF IsGone, path
  <2>2. [f EXCEPT !.at = "opendir"] \in Frames(q, top)
    BY <1>1, <1>2, <1>6, <2>1, RemovalFacts DEF RemovesNow, Gentle, Frames
  <2>3. [f EXCEPT !.at = "opendir"].src = f.src
    BY <1>1 DEF FrameType
  <2> QED BY <1>2, <1>11, <2>2, <2>3, RemovalGoes
<1> QED BY <1>4, <1>8, <1>9, <1>10, <1>11

LEMMA RemovalUnlinks ==
  ASSUME NEW q, NEW top, RemovesNow(q, top), Unlink(q) \/ Rmdir(q)
  PROVE  RemovalOutcome(q, top)
<1> DEFINE c == job[q]
           x == proc[q]
           f == Top(x)
           path == Entry(fs, f.src)
<1>1. /\ f \in FrameType /\ f.src \in Path
      /\ path \in DOMAIN fs => Under(path, top, x.astray)
  BY RemovalTop
<1>2. f.ret \in {0, -1}
  BY <1>1 DEF FrameType
<1>3. \/ fs' = fs /\ Step(q, Fail(c, x))
      \/ /\ path \in DOMAIN fs /\ (fs[path].type # "dir" \/ Entries(fs, path) = {})
         /\ fs' = Without(fs, {path}) /\ \E ret \in {0, -1} : Step(q, Return(c, x, ret))
      \/ fs' = fs /\ path \notin DOMAIN fs /\ \E ret \in {0, -1} : Step(q, Return(c, x, ret))
  <2>1. CASE Unlink(q)
    BY <2>1 DEF Unlink, Keeps, Faulty, Is
  <2>2. CASE Rmdir(q)
    BY <1>2, <2>2 DEF Rmdir, Keeps, Faulty, Is
  <2> QED BY <2>1, <2>2
<1>4. CASE fs' = fs /\ Step(q, Fail(c, x))
  BY <1>4, RemovalFails
<1>5. CASE /\ path \in DOMAIN fs /\ (fs[path].type # "dir" \/ Entries(fs, path) = {})
           /\ fs' = Without(fs, {path}) /\ \E ret \in {0, -1} : Step(q, Return(c, x, ret))
  <2>1. Removes(fs, fs', top, x.astray)
    <3>1. path \in DOMAIN fs /\ Under(path, top, x.astray) /\ (fs[path].type # "dir" \/ Entries(fs, path) = {})
          /\ fs' = Without(fs, {path})
      BY <1>1, <1>5
    <3> HIDE DEF path
    <3> QED BY <3>1 DEF Removes
  <2>2. IsGone(fs', f.src)
    BY <1>1, <1>5, GoneWithout DEF RemovesNow
  <2> QED BY <1>5, <2>1, <2>2, RemovalReturns
<1>6. CASE fs' = fs /\ path \notin DOMAIN fs /\ \E ret \in {0, -1} : Step(q, Return(c, x, ret))
  <2>1. Removes(fs, fs', top, x.astray)
    BY <1>6 DEF Removes
  <2>2. IsGone(fs', f.src)
    BY <1>6 DEF IsGone
  <2> QED BY <1>6, <2>1, <2>2, RemovalReturns
<1> QED BY <1>3, <1>4, <1>5, <1>6

LEMMA RemovalReads ==
  ASSUME NEW q, NEW top, RemovesNow(q, top), OpenDir(q) \/ List(q) \/ Descend(q)
  PROVE  RemovalOutcome(q, top)
<1> DEFINE c == job[q]
           x == proc[q]
           f == Top(x)
           R == Frames(q, top)
<1>1. f \in R /\ f \in FrameType /\ f.op = "remove" /\ f.src \in Path
  BY RemovalTop
<1>2. fs' = fs
  BY DEF OpenDir, List, Descend, Keeps, Faulty
<1>3. CASE OpenDir(q)
  <2>1. f.at = "opendir" /\ (Step(q, Fail(c, x)) \/ Step(q, Goes(x, [f EXCEPT !.at = "list"])))
    BY <1>1, <1>3 DEF OpenDir, Keeps, Faulty
  <2>2. [f EXCEPT !.at = "list"] \in R /\ [f EXCEPT !.at = "list"].src = f.src
    BY <1>1, <2>1 DEF Removal, FrameType, Frames
  <2> QED BY <1>2, <2>1, <2>2, RemovalFails, RemovalGoes
<1>4. CASE List(q)
  <2>1. \/ f.at = "list" /\ Step(q, Goes(x, [f EXCEPT !.at = "rmdir"]))
        \/ f.at = "list" /\ \E batch \in SUBSET Unseen(f) : Step(q, Goes(x, [f EXCEPT !.batch = batch, !.seen = @ \cup batch]))
        \/ f.at = "list" /\ Step(q, [Goes(x, [f EXCEPT !.at = "rmdir", !.ret = -1]) EXCEPT !.errs = TRUE])
    BY <1>1, <1>4 DEF List, Keeps, Faulty
  <2>2. CASE f.at = "list" /\ Step(q, Goes(x, [f EXCEPT !.at = "rmdir"]))
    <3>1. [f EXCEPT !.at = "rmdir"] \in R /\ [f EXCEPT !.at = "rmdir"].src = f.src
      BY <1>1, <2>2 DEF Removal, FrameType, Frames
    <3> QED BY <1>2, <2>2, <3>1, RemovalGoes
  <2>3. CASE f.at = "list" /\ Step(q, [Goes(x, [f EXCEPT !.at = "rmdir", !.ret = -1]) EXCEPT !.errs = TRUE])
    <3>1. [f EXCEPT !.at = "rmdir", !.ret = -1] \in R /\ [f EXCEPT !.at = "rmdir", !.ret = -1].src = f.src
      BY <1>1, <2>3 DEF Removal, FrameType, Frames
    <3> QED BY <1>2, <2>3, <3>1, RemovalGoes
  <2>4. ASSUME f.at = "list", NEW batch \in SUBSET Unseen(f),
               Step(q, Goes(x, [f EXCEPT !.batch = batch, !.seen = @ \cup batch]))
        PROVE  RemovalOutcome(q, top)
    <3>1. batch \in SUBSET Name
      <4>1. \A p \in DOMAIN fs : p \in Path /\ Last(p) \in Name
        BY PathFacts DEF RemovesNow, Gentle, Rooted
      <4> QED BY <4>1 DEF Unseen, Entries
    <3> DEFINE g == [f EXCEPT !.batch = batch, !.seen = @ \cup batch]
    <3>2. g \in R /\ g.src = f.src
      <4>1. g \in FrameType /\ g.op = f.op /\ g.at = f.at /\ g.src = f.src
        BY <1>1, <3>1 DEF FrameType
      <4>2. \A h \in FrameType : h.op = f.op /\ h.at = f.at /\ h.src = f.src => h \in R
        BY <1>1 DEF Removal, Frames
      <4> HIDE DEF g, R
      <4> QED BY <4>1, <4>2
    <3> QED BY <1>2, <2>4, <3>2, RemovalGoes
  <2> QED BY <2>1, <2>2, <2>3, <2>4
<1>5. CASE Descend(q)
  <2>1. PICK e \in f.batch :
          \/ Step(q, [Goes(x, [f EXCEPT !.batch = @ \ {e}]) EXCEPT !.stack =
                        Append(@, Frame(f.op, Append(f.src, e), Append(f.dest, e)))])
          \/ Step(q, [Goes(Goes(x, [f EXCEPT !.batch = @ \ {e}]), [f EXCEPT !.batch = @ \ {e}, !.ret = -1])
                        EXCEPT !.errs = TRUE])
    BY <1>1, <1>5 DEF Descend, Keeps
  <2>2. f.at = "list" /\ e \in Name
    BY <1>1, <1>5 DEF Descend, FrameType
  <2> DEFINE g == [f EXCEPT !.batch = @ \ {e}]
             h == [f EXCEPT !.batch = @ \ {e}, !.ret = -1]
             d == Frame("remove", Append(f.src, e), Append(f.dest, e))
             s == x.stack[1].src
  <2>3. g \in R /\ g.src = f.src /\ h \in R /\ h.src = f.src
    BY <1>1 DEF Removal, FrameType, Frames
  <2>4. d \in R
    BY <1>1, <2>2, RemovesNowFacts, RemovalFacts DEF RemovesNow, Gentle, Frames
  <2>5. R \in SUBSET FrameType /\ x \in ProcType /\ x.stack \in Stacks(R, s) /\ Last(x.stack) = f
    BY RemovesNowFacts DEF At1, Top
  <2> HIDE DEF f, R, g, h, d, s
  <2>6. Append(Front(x.stack), g) \in Stacks(R, s)
    BY <2>3, <2>5, StackFacts
  <2> DEFINE st == Append(Front(x.stack), g)
  <2> HIDE DEF st
  <2>7. st \in Stacks(R, s) /\ Append(st, d) \in Stacks(R, s)
    BY <2>4, <2>5, <2>6, StackFacts DEF st
  <2>8. Goes(x, g) = [x EXCEPT !.stack = st]
    BY DEF Goes, st
  <2>9. CASE Step(q, [Goes(x, g) EXCEPT !.stack = Append(@, d)])
    <3> DEFINE y == [Goes(x, g) EXCEPT !.stack = Append(@, d)]
               u == Append(st, d)
    <3>1. u \in Stacks(R, s) /\ u \in Seq(FrameType)
      BY <2>5, <2>7, StacksAre
    <3>2. y = [x EXCEPT !.stack = u]
      BY <2>5, <2>8 DEF ProcType
    <3> HIDE DEF u, y
    <3>3. Like(y, [x EXCEPT !.stack = u])
      BY <2>5, <3>1, <3>2 DEF Like, ProcType
    <3>4. GoesOn(y, x, R)
      BY <3>1, <3>3 DEF GoesOn, s
    <3>5. Removes(fs, fs', top, proc[q].astray)
      BY <1>2 DEF Removes
    <3> QED BY <2>9, <3>4, <3>5, RemovalGoesOn DEF y, R
  <2>10. CASE Step(q, [Goes(Goes(x, g), h) EXCEPT !.errs = TRUE])
    <3>1. Front(st) = Front(x.stack)
      <4>1. x.stack \in Seq(FrameType) /\ x.stack # << >>
        BY <2>5, StackFacts
      <4>2. Front(x.stack) \in Seq(FrameType) /\ g \in FrameType
        BY <2>3, <2>5, <4>1, FrontIs
      <4> QED BY <4>2, FrontAppend DEF st
    <3>2. Goes(Goes(x, g), h) = Goes(x, h)
      BY <2>5, <2>8, <3>1 DEF Goes, ProcType
    <3> QED BY <1>2, <2>3, <2>10, <3>2, RemovalGoes DEF R, f
  <2> QED BY <1>1, <2>1, <2>9, <2>10 DEF g, h, d
<1> QED BY <1>3, <1>4, <1>5

LEMMA RemovalStep ==
  ASSUME NEW q, NEW top, RemovesNow(q, top), Process(q)
  PROVE  RemovalOutcome(q, top)
<1>1. /\ Top(proc[q]).op = "remove"
      /\ proc[q].pc \in {"remove", "undo"} 
  BY RemovalTop DEF RemovesNow
<1>2. ~Start(q) /\ ~NextOperand(q) /\ ~Move(q)
  BY <1>1 DEF Start, NextOperand, Move
<1>3. ~CopyStat(q) /\ ~CopyOpen(q) /\ ~CopyWrite(q) /\ ~MakeDir(q) /\ ~GiveUp(q)
  BY <1>1 DEF CopyStat, CopyOpen, CopyWrite, MakeDir, GiveUp, At
<1> QED BY <1>2, <1>3, RemovalLooks, RemovalStats, RemovalUnlinks, RemovalReads DEF Process

-----------------------------------------------------------------------------
(* Copying *)

(* Links lead to no link, and everything is in a directory.                *)
Tidy(t) ==
  /\ LinksArePaths(t) /\ Rooted(t)
  /\ \A p \in DOMAIN t : t[p].type \in {"dir", "file", "link"} /\ (t[p].type = "link" => ~IsLink(t, t[p].data))

(* t has gained files and directories, or what is in its files.            *)
Grows(t, u) ==
  DOMAIN t \in SUBSET DOMAIN u /\ SameLinks(u, t) /\ \A p \in DOMAIN t : u[p].type = t[p].type

LEMMA WithFacts ==
  ASSUME NEW t, Tidy(t), NEW path \in Path, NEW node, node.type \in {"dir", "file"},
         IF path \in DOMAIN t THEN t[path].type = node.type ELSE CanHold(t, path)
  PROVE  Tidy(With(t, path, node)) /\ Grows(t, With(t, path, node)) /\ With(t, path, node)[path] = node
<1> DEFINE u == With(t, path, node)
<1>1. /\ DOMAIN u = DOMAIN t \cup {path} /\ u[path] = node
      /\ \A p \in DOMAIN t : p # path => u[p] = t[p]
  BY DEF With
<1> HIDE DEF u
<1>2. \A p \in DOMAIN t : u[p].type = t[p].type
  BY <1>1
<1>3. SameLinks(u, t)
  BY <1>1 DEF SameLinks, IsLink
<1>4. Rooted(u)
  <2>1. ASSUME NEW p \in DOMAIN u
        PROVE  p \in Path /\ (Len(p) > 1 => Front(p) \in DOMAIN t /\ t[Front(p)].type = "dir")
    <3>1. CASE p \in DOMAIN t
      BY <3>1 DEF Tidy, Rooted
    <3>2. CASE p = path /\ p \notin DOMAIN t
      BY <3>2 DEF CanHold, Is
    <3> QED BY <1>1, <3>1, <3>2
  <2> QED BY <1>1, <1>2, <2>1 DEF Rooted
<1>5. LinksArePaths(u)
  BY <1>1 DEF Tidy, LinksArePaths
<1>6. ASSUME NEW p \in DOMAIN u
      PROVE  u[p].type \in {"dir", "file", "link"} /\ (u[p].type = "link" => ~IsLink(u, u[p].data))
  <2>1. \A r : IsLink(u, r) <=> IsLink(t, r)
    BY <1>3 DEF SameLinks
  <2>2. CASE p = path
    BY <1>1, <2>2
  <2>3. CASE p # path
    <3>1. p \in DOMAIN t /\ u[p] = t[p]
      BY <1>1, <2>3
    <3> QED BY <2>1, <3>1 DEF Tidy
  <2> QED BY <2>2, <2>3
<1>7. Tidy(u) /\ Grows(t, u)
  BY <1>1, <1>2, <1>3, <1>4, <1>5, <1>6 DEF Tidy, Grows
<1> QED BY <1>1, <1>7 DEF u

(* A path leads to no link.                                                *)
LEMMA ResolveNoLink ==
  ASSUME NEW t, Tidy(t), NEW p \in Path
  PROVE  Resolve(t, p) \in Path /\ ~IsLink(t, Resolve(t, p))
<1> DEFINE s == Resolve(t, Front(p))
           e == Last(p)
<1>1. Front(p) \in Names /\ e \in Name /\ LinksArePaths(t)
  BY PathFacts DEF Tidy
<1>2. s \in Names /\ Resolve(t, p) = Enter(t, s, e)
  BY <1>1, ResolveFacts
<1>3. Enter(t, s, e) \in Path
  BY <1>1, <1>2, EnterFacts
<1>4. ~IsLink(t, Enter(t, s, e))
  <2> HIDE DEF s, e
  <2> QED BY DEF Enter, IsLink, Tidy
<1> QED BY <1>2, <1>3, <1>4

(* The frames of copy_tree: what copy_file writes to is a file.            *)
Copying(t) ==
  {f \in FrameType : f.op = "copy" /\ (f.at = "write" => Is(t, Resolve(t, f.dest), "file"))}

LEMMA CopyingFacts ==
  ASSUME NEW t
  PROVE  /\ Copying(t) \in SUBSET FrameType /\ Closed(Copying(t))
         /\ \A f \in Copying(t), at \in {"open", "mkdir", "opendir", "list", "fail"} :
              [f EXCEPT !.at = at] \in Copying(t) /\ [f EXCEPT !.at = at].src = f.src
         /\ \A f \in Copying(t) : f \in FrameType /\ f.op = "copy" /\ f.src \in Path /\ f.dest \in Path
BY DEF Copying, Closed, FrameType

LEMMA CopyingGrows ==
  ASSUME NEW t, NEW u, Tidy(t), Tidy(u), Grows(t, u)
  PROVE  /\ \A p \in Path : Resolve(u, p) = Resolve(t, p)
         /\ Copying(t) \in SUBSET Copying(u)
         /\ \A s : Stacks(Copying(t), s) \in SUBSET Stacks(Copying(u), s)
<1>1. \A p \in Path : Resolve(u, p) = Resolve(t, p)
  BY ResolveSame DEF Tidy, Grows, Path, Names
<1>2. Copying(t) \in SUBSET Copying(u)
  <2>1. ASSUME NEW f \in Copying(t)
        PROVE  f \in Copying(u)
    <3>1. f \in FrameType /\ f.dest \in Path /\ f.op = "copy"
      BY CopyingFacts
    <3>2. CASE f.at # "write"
      BY <3>1, <3>2 DEF Copying
    <3>3. CASE f.at = "write"
      <4>1. Is(t, Resolve(t, f.dest), "file")
        BY <3>3 DEF Copying
      <4>2. Is(u, Resolve(u, f.dest), "file")
        BY <1>1, <3>1, <4>1 DEF Is, Grows
      <4> QED BY <3>1, <4>2 DEF Copying
    <3> QED BY <3>2, <3>3
  <2> QED BY <2>1
<1>3. ASSUME NEW s, NEW st \in Stacks(Copying(t), s)
      PROVE  st \in Stacks(Copying(u), s)
  BY <1>2, SeqMonotonic DEF Stacks
<1> QED BY <1>1, <1>2, <1>3

(* Process q copies, and one of its steps goes on or ends.                 *)
CopiesNow(q) ==
  /\ proc[q] \in ProcType /\ At1(proc[q], Copying(fs)) /\ proc[q].pc = "copy" /\ Tidy(fs)
  /\ \A ret \in {0, -1} : Returned(job[q], proc[q], ret) \in ProcType

CopyOutcome(q) ==
  \E y : /\ Step(q, y) /\ Tidy(fs') /\ Grows(fs, fs')
         /\ GoesOn(y, proc[q], Copying(fs')) \/ \E ret \in {0, -1} : Ends(y, job[q], proc[q], ret)

LEMMA GrowsSame ==
  ASSUME NEW t
  PROVE  Grows(t, t)
BY DEF Grows, SameLinks, IsLink

LEMMA CopyReturns ==
  ASSUME NEW q, CopiesNow(q), fs' = fs, NEW ret \in {0, -1},
         Step(q, Return(job[q], proc[q], ret)) \/ Step(q, Fail(job[q], proc[q]))
  PROVE  CopyOutcome(q)
<1> DEFINE x == proc[q]
           c == job[q]
           R == Copying(fs)
<1>1. R \in SUBSET FrameType /\ Closed(R) /\ x \in ProcType /\ At1(x, R)
      /\ \A r \in {0, -1} : Returned(c, x, r) \in ProcType
  BY CopyingFacts DEF CopiesNow
<1> HIDE DEF x, c, R
<1>2. \A r \in {0, -1} :
        \/ GoesOn(Return(c, x, r), x, R) /\ GoesOn([Return(c, x, r) EXCEPT !.errs = TRUE], x, R)
        \/ Ends(Return(c, x, r), c, x, r) /\ Ends([Return(c, x, r) EXCEPT !.errs = TRUE], c, x, r)
  BY <1>1, ReturnFacts
<1>3. Fail(c, x) = [Return(c, x, -1) EXCEPT !.errs = TRUE]
  BY DEF Fail
<1>4. PICK y : Step(q, y) /\ (y = Return(c, x, ret) \/ y = Fail(c, x))
  BY DEF c, x
<1>5. GoesOn(y, x, R) \/ \E r \in {0, -1} : Ends(y, c, x, r)
  BY <1>2, <1>3, <1>4
<1>6. Tidy(fs') /\ Grows(fs, fs') /\ Copying(fs') = R
  BY GrowsSame DEF CopiesNow, R
<1> QED BY <1>4, <1>5, <1>6 DEF CopyOutcome, x, c

LEMMA CopyGoes ==
  ASSUME NEW q, CopiesNow(q), Tidy(fs'), Grows(fs, fs'), NEW f \in Copying(fs'), f.src = Top(proc[q]).src,
         Step(q, Goes(proc[q], f))
  PROVE  CopyOutcome(q)
<1> DEFINE x == proc[q]
           R == Copying(fs')
<1>1. R \in SUBSET FrameType /\ x \in ProcType /\ f \in R /\ f.src = Top(x).src
  BY CopyingFacts DEF CopiesNow
<1>2. At1(x, R)
  BY CopyingGrows DEF CopiesNow, At1
<1> HIDE DEF x, R
<1>3. GoesOn(Goes(x, f), x, R)
  BY <1>1, <1>2, GoesFacts
<1> QED BY <1>3 DEF CopyOutcome, x, R

LEMMA CopyTop ==
  ASSUME NEW q, CopiesNow(q)
  PROVE  /\ Top(proc[q]) \in Copying(fs) /\ Top(proc[q]) \in FrameType /\ Top(proc[q]).op = "copy"
         /\ Top(proc[q]).src \in Path /\ Top(proc[q]).dest \in Path /\ proc[q].stack # << >>
<1> DEFINE x == proc[q]
           R == Copying(fs)
<1>1. R \in SUBSET FrameType /\ x \in ProcType /\ At1(x, R)
  BY CopyingFacts DEF CopiesNow
<1>2. Top(x) \in R
  <2> HIDE DEF x, R
  <2> QED BY <1>1, GoesFacts
<1>3. x.stack # << >>
  BY <1>1 DEF At1, Stacks
<1> QED BY <1>2, <1>3, CopyingFacts

(* The frame goes on to its next system call.                              *)
LEMMA CopyGoesTo ==
  ASSUME NEW q, CopiesNow(q), Tidy(fs'), Grows(fs, fs'),
         NEW at \in {"open", "mkdir", "opendir", "list"},
         Step(q, Goes(proc[q], [Top(proc[q]) EXCEPT !.at = at]))
  PROVE  CopyOutcome(q)
<1> DEFINE f == Top(proc[q])
<1>1. f \in Copying(fs')
  BY CopyTop, CopyingGrows DEF CopiesNow
<1>2. [f EXCEPT !.at = at] \in Copying(fs') /\ [f EXCEPT !.at = at].src = f.src
  BY <1>1, CopyingFacts
<1> QED BY <1>2, CopyGoes

LEMMA CopyStats ==
  ASSUME NEW q, CopiesNow(q), CopyStat(q) \/ GiveUp(q)
  PROVE  CopyOutcome(q)
<1> DEFINE c == job[q]
           x == proc[q]
           f == Top(x)
<1>1. fs' = fs /\ Tidy(fs') /\ Grows(fs, fs')
  BY GrowsSame DEF CopyStat, GiveUp, Keeps, Faulty, CopiesNow
<1>2. \/ Step(q, Fail(c, x)) \/ Step(q, Return(c, x, -1))
      \/ \E at \in {"open", "mkdir", "opendir"} : Step(q, Goes(x, [f EXCEPT !.at = at]))
  BY DEF CopyStat, GiveUp, Keeps, Faulty
<1>3. CASE Step(q, Fail(c, x)) \/ Step(q, Return(c, x, -1))
  BY <1>1, <1>3, CopyReturns
<1>4. CASE \E at \in {"open", "mkdir", "opendir"} : Step(q, Goes(x, [f EXCEPT !.at = at]))
  BY <1>1, <1>4, CopyGoesTo
<1> QED BY <1>2, <1>3, <1>4

LEMMA CopyOpens ==
  ASSUME NEW q, CopiesNow(q), CopyOpen(q)
  PROVE  CopyOutcome(q)
<1> DEFINE c == job[q]
           x == proc[q]
           f == Top(x)
           dest == Resolve(fs, f.dest)
           node == File(<< >>)
           u == With(fs, dest, node)
           g == [f EXCEPT !.at = "write"]
<1>1. \/ fs' = fs /\ Step(q, Fail(c, x))
      \/ /\ ~Is(fs, dest, "dir") /\ CanHold(fs, dest) /\ fs' = u
         /\ Step(q, Goes(x, g))
  BY DEF CopyOpen, Keeps, Faulty
<1>2. CASE fs' = fs /\ Step(q, Fail(c, x))
  BY <1>2, CopyReturns
<1>3. CASE ~Is(fs, dest, "dir") /\ CanHold(fs, dest) /\ fs' = u /\ Step(q, Goes(x, g))
  <2>1. f \in Copying(fs) /\ f \in FrameType /\ f.op = "copy" /\ f.dest \in Path
    BY CopyTop
  <2>2. dest \in Path /\ ~IsLink(fs, dest) /\ Tidy(fs)
    BY <2>1, ResolveNoLink DEF CopiesNow
  <2>3. node.type = "file"
    BY DEF File
  <2>4. IF dest \in DOMAIN fs THEN fs[dest].type = node.type ELSE CanHold(fs, dest)
    <3> HIDE DEF dest, node
    <3> QED BY <1>3, <2>2, <2>3 DEF Is, IsLink, Tidy
  <2>5. Tidy(u) /\ Grows(fs, u) /\ u[dest] = node
    <3> HIDE DEF dest, node
    <3> QED BY <2>2, <2>3, <2>4, WithFacts
  <2>6. Resolve(u, f.dest) = dest
    BY <2>1, <2>2, <2>5, CopyingGrows
  <2>7. Is(u, Resolve(u, f.dest), "file")
    <3>1. dest \in DOMAIN u
      BY DEF With
    <3> HIDE DEF dest, u, node
    <3> QED BY <2>3, <2>5, <2>6, <3>1 DEF Is
  <2>8. g \in FrameType /\ g.op = "copy" /\ g.dest = f.dest /\ g.src = f.src
    BY <2>1 DEF FrameType
  <2>9. g \in Copying(u)
    <3> HIDE DEF u, g
    <3> QED BY <2>7, <2>8 DEF Copying
  <2> HIDE DEF u, g
  <2> QED BY <1>3, <2>5, <2>8, <2>9, CopyGoes
<1> QED BY <1>1, <1>2, <1>3

LEMMA CopyWrites ==
  ASSUME NEW q, CopiesNow(q), CopyWrite(q)
  PROVE  CopyOutcome(q)
<1> DEFINE c == job[q]
           x == proc[q]
           f == Top(x)
           dest == Resolve(fs, f.dest)
           g == [f EXCEPT !.off = @ + 1]
<1>1. \/ fs' = fs /\ (Step(q, Fail(c, x)) \/ Step(q, Return(c, x, 0)))
      \/ /\ f.at = "write" /\ \E data : fs' = With(fs, dest, File(data))
         /\ Step(q, Goes(x, g))
  BY DEF CopyWrite, Keeps, Faulty, At
<1>2. CASE fs' = fs /\ (Step(q, Fail(c, x)) \/ Step(q, Return(c, x, 0)))
  BY <1>2, CopyReturns
<1>3. ASSUME f.at = "write", NEW data, fs' = With(fs, dest, File(data)), Step(q, Goes(x, g))
      PROVE  CopyOutcome(q)
  <2>1. f \in Copying(fs) /\ f \in FrameType /\ f.op = "copy" /\ f.dest \in Path
    BY CopyTop
  <2>2. dest \in Path /\ Tidy(fs) /\ dest \in DOMAIN fs /\ fs[dest].type = "file"
    BY <1>3, <2>1, ResolveNoLink DEF CopiesNow, Copying, Is
  <2>3. File(data).type = "file"
    BY DEF File
  <2> HIDE DEF dest
  <2>4. Tidy(fs') /\ Grows(fs, fs')
    BY <1>3, <2>2, <2>3, WithFacts
  <2>5. f \in Copying(fs')
    BY <2>1, <2>2, <2>4, CopyingGrows
  <2>6. g \in Copying(fs') /\ g.src = f.src
    <3>1. g \in FrameType /\ g.op = f.op /\ g.at = f.at /\ g.dest = f.dest /\ g.src = f.src
      BY <2>1 DEF FrameType
    <3> HIDE DEF g, f
    <3> QED BY <2>5, <3>1 DEF Copying
  <2> HIDE DEF g
  <2> QED BY <1>3, <2>4, <2>6, CopyGoes
<1> QED BY <1>1, <1>2, <1>3

LEMMA CopyMakesDir ==
  ASSUME NEW q, CopiesNow(q), MakeDir(q)
  PROVE  CopyOutcome(q)
<1> DEFINE c == job[q]
           x == proc[q]
           f == Top(x)
           dest == Entry(fs, f.dest)
           at == IF c.name = "cp" THEN "list" ELSE "opendir"
<1>0. Tidy(fs) /\ Grows(fs, fs)
  BY GrowsSame DEF CopiesNow
<1>1. \/ fs' = fs /\ Step(q, Fail(c, x))
      \/ fs' = fs /\ Step(q, Goes(x, [f EXCEPT !.at = at]))
      \/ /\ dest \notin DOMAIN fs /\ CanHold(fs, dest) /\ fs' = With(fs, dest, Dir)
         /\ Step(q, Goes(x, [f EXCEPT !.at = at]))
  BY DEF MakeDir, Keeps, Faulty
<1>2. at \in {"open", "mkdir", "opendir", "list"}
  OBVIOUS
<1> HIDE DEF at
<1>3. CASE fs' = fs /\ Step(q, Fail(c, x))
  BY <1>3, CopyReturns
<1>4. CASE fs' = fs /\ Step(q, Goes(x, [f EXCEPT !.at = at]))
  BY <1>0, <1>2, <1>4, CopyGoesTo
<1>5. CASE /\ dest \notin DOMAIN fs /\ CanHold(fs, dest) /\ fs' = With(fs, dest, Dir)
           /\ Step(q, Goes(x, [f EXCEPT !.at = at]))
  <2>1. dest \in Path
    BY <1>0, CopyTop, EntryFacts DEF Tidy
  <2>2. Dir.type = "dir"
    BY DEF Dir
  <2>3. Tidy(fs') /\ Grows(fs, fs')
    <3> HIDE DEF dest
    <3> QED BY <1>0, <1>5, <2>1, <2>2, WithFacts
  <2> QED BY <1>2, <1>5, <2>3, CopyGoesTo
<1> QED BY <1>1, <1>3, <1>4, <1>5

LEMMA CopyReads ==
  ASSUME NEW q, CopiesNow(q), OpenDir(q) \/ List(q) \/ Descend(q)
  PROVE  CopyOutcome(q)
<1> DEFINE c == job[q]
           x == proc[q]
           f == Top(x)
           R == Copying(fs)
<1>1. f \in R /\ f \in FrameType /\ f.op = "copy" /\ f.src \in Path /\ f.dest \in Path
  BY CopyTop
<1>2. fs' = fs /\ Tidy(fs') /\ Grows(fs, fs')
  BY GrowsSame DEF OpenDir, List, Descend, Keeps, Faulty, CopiesNow
<1>3. CASE OpenDir(q)
  <2>1. Step(q, Fail(c, x)) \/ \E at \in {"mkdir", "list"} : Step(q, Goes(x, [f EXCEPT !.at = at]))
    BY <1>3 DEF OpenDir, Keeps, Faulty
  <2> QED BY <1>2, <2>1, CopyReturns, CopyGoesTo
<1>4. CASE List(q)
  <2>1. \/ Step(q, Fail(c, x)) \/ Step(q, Return(c, x, 0))
        \/ \E batch \in SUBSET Unseen(f) : Step(q, Goes(x, [f EXCEPT !.batch = batch, !.seen = @ \cup batch]))
    BY <1>1, <1>4 DEF List, Keeps, Faulty
  <2>2. CASE Step(q, Fail(c, x)) \/ Step(q, Return(c, x, 0))
    BY <1>2, <2>2, CopyReturns
  <2>3. ASSUME NEW batch \in SUBSET Unseen(f), Step(q, Goes(x, [f EXCEPT !.batch = batch, !.seen = @ \cup batch]))
        PROVE  CopyOutcome(q)
    <3>1. batch \in SUBSET Name
      <4>1. \A p \in DOMAIN fs : p \in Path /\ Last(p) \in Name
        BY PathFacts DEF CopiesNow, Tidy, Rooted
      <4> QED BY <4>1 DEF Unseen, Entries
    <3> DEFINE g == [f EXCEPT !.batch = batch, !.seen = @ \cup batch]
    <3>2. g \in FrameType /\ g.op = f.op /\ g.at = f.at /\ g.src = f.src /\ g.dest = f.dest
      BY <1>1, <3>1 DEF FrameType
    <3> HIDE DEF g
    <3>3. g \in Copying(fs')
      BY <1>1, <1>2, <3>2 DEF Copying
    <3> QED BY <1>2, <2>3, <3>2, <3>3, CopyGoes DEF g
  <2> QED BY <2>1, <2>2, <2>3
<1>5. CASE Descend(q)
  <2>1. PICK e \in f.batch :
          \/ Step(q, Fail(c, x))
          \/ Step(q, [Goes(x, [f EXCEPT !.batch = @ \ {e}]) EXCEPT !.stack =
                        Append(@, Frame(f.op, Append(f.src, e), Append(f.dest, e)))])
    BY <1>1, <1>5 DEF Descend, Keeps
  <2>2. e \in Name
    BY <1>1 DEF FrameType
  <2> DEFINE g == [f EXCEPT !.batch = @ \ {e}]
             d == Frame("copy", Append(f.src, e), Append(f.dest, e))
             s == x.stack[1].src
  <2>3. g \in R /\ g.src = f.src
    <3>1. g \in FrameType /\ g.op = f.op /\ g.at = f.at /\ g.src = f.src /\ g.dest = f.dest
      BY <1>1 DEF FrameType
    <3> HIDE DEF g, f
    <3> QED BY <1>1, <3>1 DEF Copying
  <2>4. d \in R
    <3>1. Append(f.src, e) \in Path /\ Append(f.dest, e) \in Path
      BY <1>1, <2>2, PathFacts, AppendFacts
    <3>2. d \in FrameType /\ d.op = "copy" /\ d.at = "stat"
      BY <3>1 DEF Frame, FrameType
    <3> HIDE DEF d
    <3> QED BY <3>2 DEF Copying
  <2>5. R \in SUBSET FrameType /\ x \in ProcType /\ x.stack \in Stacks(R, s) /\ Last(x.stack) = f
    BY CopyingFacts DEF CopiesNow, At1, Top
  <2>6. CASE Step(q, Fail(c, x))
    BY <1>2, <2>6, CopyReturns
  <2> HIDE DEF f, R, g, d, s
  <2>7. Append(Front(x.stack), g) \in Stacks(R, s)
    BY <2>3, <2>5, StackFacts
  <2> DEFINE st == Append(Front(x.stack), g)
  <2> HIDE DEF st
  <2>8. Append(st, d) \in Stacks(R, s)
    BY <2>4, <2>5, <2>7, StackFacts DEF st
  <2>9. Goes(x, g) = [x EXCEPT !.stack = st]
    BY DEF Goes, st
  <2>10. CASE Step(q, [Goes(x, g) EXCEPT !.stack = Append(@, d)])
    <3> DEFINE y == [Goes(x, g) EXCEPT !.stack = Append(@, d)]
               u == Append(st, d)
    <3>1. u \in Stacks(R, s) /\ u \in Seq(FrameType)
      BY <2>5, <2>8, StacksAre
    <3>2. y = [x EXCEPT !.stack = u]
      BY <2>5, <2>9 DEF ProcType
    <3> HIDE DEF u, y
    <3>3. Like(y, [x EXCEPT !.stack = u])
      BY <2>5, <3>1, <3>2 DEF Like, ProcType
    <3>4. GoesOn(y, x, Copying(fs'))
      BY <1>2, <3>1, <3>3 DEF GoesOn, s, R
    <3> QED BY <1>2, <2>10, <3>4 DEF CopyOutcome, y
  <2> QED BY <1>1, <2>1, <2>6, <2>10 DEF g, d
<1> QED BY <1>3, <1>4, <1>5

LEMMA CopyStep ==
  ASSUME NEW q, CopiesNow(q), Process(q)
  PROVE  CopyOutcome(q)
<1>1. Top(proc[q]).op = "copy" /\ proc[q].pc = "copy"
  BY CopyTop DEF CopiesNow
<1>2. ~Start(q) /\ ~NextOperand(q) /\ ~Move(q) /\ ~RemoveLook(q) /\ ~RemoveStat(q) /\ ~Unlink(q) /\ ~Rmdir(q)
  BY <1>1 DEF Start, NextOperand, Move, RemoveLook, RemoveStat, Unlink, Rmdir, At
<1> QED BY <1>2, CopyStats, CopyOpens, CopyWrites, CopyMakesDir, CopyReads DEF Process

-----------------------------------------------------------------------------
(* The commands *)

Fixed == job \in Jobs /\ fs0 \in Trees /\ DOMAIN proc = Procs

LEMMA JobFacts ==
  ASSUME NEW j \in Jobs, NEW q \in DOMAIN j
  PROVE  /\ j[q].name \in {"cp", "mv", "rm"} /\ (j[q].name # "rm" => j[q].dest \in Path)
         /\ Len(j[q].src) \in Nat /\ DOMAIN j[q].src = 1 .. Len(j[q].src)
         /\ \A i \in 1 .. Len(j[q].src) : j[q].src[i] \in Path
BY FileTreeAssumption

LEMMA TreeFacts ==
  ASSUME NEW t \in Trees
  PROVE  Tidy(t) /\ Gentle(t, t)
<1>1. TreeConstants(t)
  BY FileTreeAssumption
<1>2. Tidy(t)
  BY <1>1 DEF TreeConstants, Tidy, LinksArePaths, Rooted, IsLink
<1> QED BY <1>2 DEF Tidy, Gentle, LinksKept, IsLink

LEMMA FrameFacts ==
  ASSUME NEW op \in {"copy", "remove"}, NEW src \in Path, NEW dest \in Path
  PROVE  /\ Frame(op, src, dest) \in FrameType /\ <<Frame(op, src, dest)>> \in Seq(FrameType)
         /\ \A S : Frame(op, src, dest) \in S => <<Frame(op, src, dest)>> \in Stacks(S, src)
         /\ \A t : op = "copy" => Frame(op, src, dest) \in Copying(t)
         /\ \A t0, t, A : op = "remove" /\ LinksArePaths(t0) => Frame(op, src, dest) \in Removal(t, t0, Entry(t0, src), A)
<1> DEFINE f == Frame(op, src, dest)
<1>1. f \in FrameType /\ f.op = op /\ f.src = src /\ (op = "copy" => f.at = "stat") /\ (op = "remove" => f.at = "readlink")
  BY DEF Frame, FrameType
<1> HIDE DEF f
<1>2. \A S : f \in S => <<f>> \in Seq(S) /\ <<f>> # << >> /\ <<f>>[1] = f
  OBVIOUS
<1>3. \A t : op = "copy" => f \in Copying(t)
  BY <1>1 DEF Copying
<1>4. ASSUME NEW t0, NEW t, NEW A, op = "remove", LinksArePaths(t0)
      PROVE  f \in Removal(t, t0, Entry(t0, src), A)
  <2>1. Beneath(Entry(t0, src), Entry(t0, src))
    BY <1>4, EntryFacts, BeneathFacts
  <2> QED BY <1>1, <1>4, <2>1 DEF Removal, Under
<1> QED BY <1>1, <1>2, <1>3, <1>4 DEF f, Stacks

(* main goes on, or calls again.                                           *)
LEMMA OperandFacts ==
  ASSUME NEW x \in ProcType, NEW ret
  PROVE  /\ Operand(x, ret) \in ProcType /\ Operand(x, ret).pc = "next" /\ Operand(x, ret).i = x.i + 1
         /\ Operand(x, ret).stack = << >> /\ Operand(x, ret).into = x.into
         /\ Operand(x, ret).ret = (IF ret = 0 THEN x.ret ELSE 1) /\ Operand(x, ret).undone = x.undone
         /\ Operand(x, ret).astray = x.astray
<1> DEFINE r == IF ret = 0 THEN x.ret ELSE 1
           y == [x EXCEPT !.pc = "next", !.i = x.i + 1, !.ret = r, !.stack = << >>]
<1>1. r \in {0, 1, 2} /\ x.i + 1 \in Nat /\ << >> \in Seq(FrameType)
  BY DEF ProcType
<1>2. Operand(x, ret) = y
  BY DEF Operand, ProcType
<1> HIDE DEF r
<1>3. /\ y \in ProcType /\ y.pc = "next" /\ y.i = x.i + 1 /\ y.stack = << >> /\ y.into = x.into
      /\ y.ret = r /\ y.undone = x.undone /\ y.astray = x.astray
  BY <1>1 DEF ProcType
<1> QED BY <1>2, <1>3 DEF r

LEMMA CallFacts ==
  ASSUME NEW x \in ProcType, NEW op \in {"copy", "remove"}, NEW src \in Path, NEW dest \in Path
  PROVE  /\ Call(x, op, src, dest) \in ProcType /\ Call(x, op, src, dest).pc = op
         /\ Call(x, op, src, dest).stack = <<Frame(op, src, dest)>> /\ Call(x, op, src, dest).i = x.i
         /\ Call(x, op, src, dest).into = x.into /\ Call(x, op, src, dest).ret = x.ret
         /\ Call(x, op, src, dest).undone = x.undone /\ Call(x, op, src, dest).astray = x.astray
<1> DEFINE f == Frame(op, src, dest)
           y == Call(x, op, src, dest)
<1>1. f \in FrameType
  BY FrameFacts
<1>2. y = [x EXCEPT !.pc = op, !.stack = <<f>>]
  BY DEF Call
<1> HIDE DEF f, y
<1>3. <<f>> \in Seq(FrameType)
  BY <1>1
<1>4. y \in ProcType /\ y.pc = op /\ y.stack = <<f>> /\ y.i = x.i
  BY <1>2, <1>3 DEF ProcType
<1>5. y.into = x.into /\ y.ret = x.ret /\ y.undone = x.undone /\ y.astray = x.astray
  BY <1>2 DEF ProcType
<1> QED BY <1>4, <1>5 DEF f, y

LEMMA RemoveCalls ==
  ASSUME NEW x \in ProcType, NEW s \in Path
  PROVE  /\ Call(x, "remove", s, s) \in ProcType /\ Call(x, "remove", s, s).pc = "remove"
         /\ Call(x, "remove", s, s).stack = <<Frame("remove", s, s)>> /\ Call(x, "remove", s, s).i = x.i
         /\ Call(x, "remove", s, s).into = x.into /\ Call(x, "remove", s, s).ret = x.ret
         /\ Call(x, "remove", s, s).undone = x.undone /\ Call(x, "remove", s, s).astray = x.astray
BY CallFacts, ZenonT(60)

LEMMA CopyCalls ==
  ASSUME NEW x \in ProcType, NEW s \in Path, NEW d \in Path
  PROVE  /\ Call(x, "copy", s, d) \in ProcType /\ Call(x, "copy", s, d).pc = "copy"
         /\ Call(x, "copy", s, d).stack = <<Frame("copy", s, d)>> /\ Call(x, "copy", s, d).i = x.i
         /\ Call(x, "copy", s, d).into = x.into /\ Call(x, "copy", s, d).astray = x.astray
BY CallFacts, ZenonT(60)

(* Every action is a step of its process.                                  *)
LEMMA StepFacts ==
  ASSUME NEW q, Process(q)
  PROVE  job' = job /\ fs0' = fs0 /\ DOMAIN proc' = DOMAIN proc
<1>1. CASE Start(q)
  BY <1>1 DEF Start, Keeps, Faulty, Step
<1>2. CASE NextOperand(q)
  BY <1>2 DEF NextOperand, Keeps, Faulty, Step
<1>3. CASE Move(q)
  BY <1>3 DEF Move, Keeps, Faulty, Step
<1>4. CASE CopyStat(q)
  BY <1>4 DEF CopyStat, Keeps, Faulty, Step
<1>5. CASE CopyOpen(q)
  BY <1>5 DEF CopyOpen, Keeps, Faulty, Step
<1>6. CASE CopyWrite(q)
  BY <1>6 DEF CopyWrite, Keeps, Faulty, Step
<1>7. CASE MakeDir(q)
  BY <1>7 DEF MakeDir, Keeps, Faulty, Step
<1>8. CASE GiveUp(q)
  BY <1>8 DEF GiveUp, Keeps, Faulty, Step
<1>9. CASE OpenDir(q)
  BY <1>9 DEF OpenDir, Keeps, Faulty, Step
<1>10. CASE List(q)
  BY <1>10 DEF List, Keeps, Faulty, Step
<1>11. CASE Descend(q)
  BY <1>11 DEF Descend, Keeps, Faulty, Step
<1>12. CASE RemoveLook(q)
  BY <1>12 DEF RemoveLook, Keeps, Faulty, Step
<1>13. CASE Unlink(q)
  BY <1>13 DEF Unlink, Keeps, Faulty, Step
<1>14. CASE Rmdir(q)
  BY <1>14 DEF Rmdir, Keeps, Faulty, Step
<1>15. CASE RemoveStat(q)
  BY <1>15 DEF RemoveStat, Keeps, Faulty, Step
<1> QED BY <1>1, <1>2, <1>3, <1>4, <1>5, <1>6, <1>7, <1>8, <1>9, <1>10, <1>11, <1>12, <1>13, <1>14, <1>15 DEF Process

(* Without frames only main takes steps.                                   *)
LEMMA IdleFacts ==
  ASSUME NEW q, Process(q), proc[q].stack = << >>
  PROVE  \/ Start(q) \/ NextOperand(q)
         \/ Move(q) /\ proc[q].pc = "rename"
BY DEF Process, CopyStat, CopyOpen, CopyWrite, MakeDir, GiveUp, OpenDir, List, Descend, RemoveLook,
       RemoveStat, Unlink, Rmdir, At, Move

-----------------------------------------------------------------------------
(* rm, as many as there are                                                *)

(* Every command is an rm.                                                 *)
Removing == \A q \in Procs : job[q].name = "rm"

Operands(q) == 1 .. Len(job[q].src)

RmProc(q) ==
  LET c == job[q]
      x == proc[q]
  IN /\ x \in ProcType /\ x.pc \in {"start", "next", "remove", "exited"} /\ x.i \in 1 .. Len(c.src) + 1
     /\ IF x.pc = "remove"
        THEN /\ x.i \in Operands(q)
             /\ x.stack \in Stacks(Removal(fs, fs0, Entry(fs0, c.src[x.i]), x.astray), c.src[x.i])
        ELSE x.stack = << >>
     /\ x.ret = 0 => \A k \in 1 .. x.i - 1 : IsGone(fs, c.src[k]) \/ Overlooked(q, c.src[k])
     /\ x.pc = "exited" /\ x.ret = 0 => x.i = Len(c.src) + 1

(* What was removed was beneath an operand or an overlooked link.          *)
OnlyOperands ==
  \A p \in DOMAIN fs0 \ DOMAIN fs :
    \E q \in Procs : \E i \in Operands(q) : Under(p, Entry(fs0, job[q].src[i]), proc[q].astray)

RmInv == Fixed /\ (Removing => Gentle(fs, fs0) /\ OnlyOperands /\ \A q \in Procs : RmProc(q))

LEMMA RmInit == Init => RmInv
<1> SUFFICES ASSUME Init, Removing PROVE Gentle(fs, fs0) /\ OnlyOperands /\ Fixed /\ \A q \in Procs : RmProc(q)
  BY DEF RmInv, Init, Fixed, Procs
<1>1. fs0 \in Trees /\ fs = fs0 /\ Fixed
  BY DEF Init, Fixed, Procs
<1>2. Gentle(fs, fs0) /\ OnlyOperands
  BY <1>1, TreeFacts DEF OnlyOperands
<1>3. ASSUME NEW q \in Procs
      PROVE  RmProc(q)
  <2>1. proc[q] = Fresh /\ Len(job[q].src) \in Nat
    BY <1>3, JobFacts DEF Init, Procs
  <2>2. << >> \in Seq(FrameType)
    OBVIOUS
  <2> QED BY <2>1, <2>2 DEF RmProc, Fresh, ProcType
<1> QED BY <1>1, <1>2, <1>3

(* A step of an rm, and what it leaves to the others.                      *)
RmStepsTo(q, y) ==
  /\ Step(q, y) /\ proc[q].astray \in SUBSET y.astray
  /\ fs' = fs \/ \E i \in Operands(q) : Removes(fs, fs', Entry(fs0, job[q].src[i]), proc[q].astray)

LEMMA RmKeeps ==
  ASSUME RmInv, Removing, NEW q \in Procs, NEW y, RmStepsTo(q, y), RmProc(q)'
  PROVE  RmInv'
<1>1. /\ UNCHANGED <<job, fs0>> /\ proc' = [proc EXCEPT ![q] = y] /\ Procs' = Procs /\ DOMAIN proc = Procs
      /\ \A r \in Procs : proc[r].astray \in SUBSET proc'[r].astray
  BY DEF RmStepsTo, Step, Procs, RmInv, Fixed
<1>2. Gentle(fs, fs0)
  BY DEF RmInv
<1>3. /\ Gentle(fs', fs0) /\ Gentle(fs', fs) /\ DOMAIN fs' \in SUBSET DOMAIN fs
      /\ \A p \in DOMAIN fs \ DOMAIN fs' :
           \E i \in Operands(q) : Under(p, Entry(fs0, job[q].src[i]), proc[q].astray)
  <2>1. CASE fs' = fs
    BY <1>2, <2>1, RemovesFacts DEF Removes
  <2>2. CASE \E i \in Operands(q) : Removes(fs, fs', Entry(fs0, job[q].src[i]), proc[q].astray)
    BY <1>2, <2>2, RemovesFacts
  <2> QED BY <2>1, <2>2 DEF RmStepsTo
<1>4. ASSUME NEW p \in DOMAIN fs0 \ DOMAIN fs'
      PROVE  \E r \in Procs : \E i \in Operands(r) : Under(p, Entry(fs0, job[r].src[i]), proc'[r].astray)
  <2>1. PICK r \in Procs : \E i \in Operands(r) : Under(p, Entry(fs0, job[r].src[i]), proc[r].astray)
    <3>1. CASE p \in DOMAIN fs
      BY <1>3, <1>4, <3>1
    <3>2. CASE p \notin DOMAIN fs
      BY <1>4, <3>2 DEF RmInv, OnlyOperands
    <3> QED BY <3>1, <3>2
  <2>2. proc[r].astray \in SUBSET proc'[r].astray
    BY <1>1
  <2> QED BY <2>1, <2>2 DEF Under
<1>5. OnlyOperands'
  BY <1>1, <1>4 DEF OnlyOperands, Operands
<1>6. ASSUME NEW r \in Procs, r # q
      PROVE  RmProc(r)'
  <2> DEFINE c == job[r]
             x == proc[r]
  <2>1. proc'[r] = x /\ RmProc(r)
    BY <1>1, <1>6 DEF RmInv
  <2>2. \A k \in 1 .. Len(c.src) : IsGone(fs, c.src[k]) => IsGone(fs', c.src[k])
    BY <1>3, GoneStays, JobFacts DEF Procs, RmInv, Fixed
  <2>3. x.i \in 1 .. Len(c.src) + 1 /\ Len(c.src) \in Nat
    BY <2>1, JobFacts DEF RmProc, Procs, RmInv, Fixed
  <2>4. \A k \in 1 .. x.i - 1 : k \in 1 .. Len(c.src)
    BY <2>3
  <2>5. \A k : Overlooked(r, c.src[k]) => Overlooked(r, c.src[k])'
    BY <1>1, <2>1 DEF Overlooked, force, Is
  <2>6. x.ret = 0 => \A k \in 1 .. x.i - 1 : IsGone(fs', c.src[k]) \/ Overlooked(r, c.src[k])'
    BY <2>1, <2>2, <2>4, <2>5 DEF RmProc
  <2>7. x.pc = "remove" =>
          x.stack \in Stacks(Removal(fs', fs0, Entry(fs0, c.src[x.i]), x.astray), c.src[x.i])
    <3>1. \A top, s : Stacks(Removal(fs, fs0, top, x.astray), s) \in SUBSET Stacks(Removal(fs', fs0, top, x.astray), s)
      BY <1>3, RemovalGrows
    <3> QED BY <2>1, <3>1 DEF RmProc
  <2>8. /\ x \in ProcType /\ x.pc \in {"start", "next", "remove", "exited"} /\ x.i \in 1 .. Len(c.src) + 1
        /\ x.pc = "remove" => x.i \in Operands(r)
        /\ x.pc # "remove" => x.stack = << >>
        /\ x.pc = "exited" /\ x.ret = 0 => x.i = Len(c.src) + 1
    BY <2>1 DEF RmProc
  <2>9. job'[r] = c /\ fs0' = fs0 /\ Operands(r)' = Operands(r)
    BY <1>1 DEF Operands
  <2> HIDE DEF c, x
  <2> QED BY <2>1, <2>6, <2>7, <2>8, <2>9 DEF RmProc, c
<1> QED BY <1>1, <1>3, <1>5, <1>6 DEF RmInv, Fixed, Removing

LEMMA RmStarts ==
  ASSUME RmInv, Removing, NEW q \in Procs, Start(q) \/ NextOperand(q)
  PROVE  \E y : RmStepsTo(q, y) /\ RmProc(q)'
<1> DEFINE c == job[q]
           x == proc[q]
<1>1. /\ c.name = "rm" /\ RmProc(q) /\ x \in ProcType /\ x.i \in 1 .. Len(c.src) + 1
      /\ Len(c.src) \in Nat /\ DOMAIN c.src = 1 .. Len(c.src) /\ \A i \in 1 .. Len(c.src) : c.src[i] \in Path
      /\ DOMAIN proc = Procs
  BY JobFacts DEF RmInv, Removing, RmProc, Fixed, Procs
<1>2. fs' = fs /\ job' = job /\ fs0' = fs0
  BY DEF Start, NextOperand, Keeps, Step
<1>6. ASSUME NEW y, Step(q, y), y.astray = x.astray
      PROVE  /\ proc'[q] = y /\ RmStepsTo(q, y)
             /\ \A k : Overlooked(q, c.src[k]) => Overlooked(q, c.src[k])'
  <2>1. proc'[q] = y
    BY <1>1, <1>6 DEF Step
  <2>2. RmStepsTo(q, y)
    BY <1>2, <1>6 DEF RmStepsTo
  <2>3. \A k : Overlooked(q, c.src[k]) => Overlooked(q, c.src[k])'
    BY <1>2, <1>6, <2>1 DEF Overlooked, force, Is
  <2> QED BY <2>1, <2>2, <2>3
<1>3. ASSUME Start(q)
      PROVE  \E y : RmStepsTo(q, y) /\ RmProc(q)'
  <2> DEFINE y == [[x EXCEPT !.into = FALSE] EXCEPT !.pc = "next"]
  <2>1. Step(q, y) /\ x.pc = "start"
    <3>1. (c.name # "rm" /\ Is(fs, Resolve(fs, c.dest), "dir")) = FALSE
      BY <1>1
    <3>2. x.pc = "start" /\ Step(q, [[x EXCEPT !.into = c.name # "rm" /\ Is(fs, Resolve(fs, c.dest), "dir")] EXCEPT !.pc = "next"])
      BY <1>1, <1>3 DEF Start, Keeps
    <3> QED BY <3>1, <3>2
  <2>2. y \in ProcType /\ y.pc = "next" /\ y.i = x.i /\ y.stack = x.stack /\ y.ret = x.ret /\ y.astray = x.astray
    BY <1>1 DEF ProcType
  <2> HIDE DEF y
  <2>3. /\ proc'[q] = y /\ RmStepsTo(q, y)
        /\ \A k : Overlooked(q, c.src[k]) => Overlooked(q, c.src[k])'
    BY <1>6, <2>1, <2>2
  <2>4. x.stack = << >> /\ (x.ret = 0 => \A k \in 1 .. x.i - 1 : IsGone(fs, c.src[k]) \/ Overlooked(q, c.src[k]))
    BY <1>1, <2>1 DEF RmProc
  <2>5. RmProc(q)'
    BY <1>1, <1>2, <2>2, <2>3, <2>4 DEF RmProc
  <2> QED BY <2>3, <2>5
<1>4. ASSUME NextOperand(q), x.i > Len(c.src)
      PROVE  \E y : RmStepsTo(q, y) /\ RmProc(q)'
  <2> DEFINE y == [x EXCEPT !.pc = "exited"]
  <2>1. Step(q, y) /\ x.pc = "next"
    BY <1>4 DEF NextOperand, Keeps
  <2>2. y \in ProcType /\ y.pc = "exited" /\ y.i = x.i /\ y.stack = x.stack /\ y.ret = x.ret /\ y.astray = x.astray
    BY <1>1 DEF ProcType
  <2> HIDE DEF y
  <2>3. /\ proc'[q] = y /\ RmStepsTo(q, y)
        /\ \A k : Overlooked(q, c.src[k]) => Overlooked(q, c.src[k])'
    BY <1>6, <2>1, <2>2
  <2>4. x.stack = << >> /\ (x.ret = 0 => \A k \in 1 .. x.i - 1 : IsGone(fs, c.src[k]) \/ Overlooked(q, c.src[k]))
    BY <1>1, <2>1 DEF RmProc
  <2>5. x.i = Len(c.src) + 1
    BY <1>1, <1>4
  <2>6. RmProc(q)'
    BY <1>1, <1>2, <2>2, <2>3, <2>4, <2>5 DEF RmProc
  <2> QED BY <2>3, <2>6
<1>5. ASSUME NextOperand(q), ~(x.i > Len(c.src))
      PROVE  \E y : RmStepsTo(q, y) /\ RmProc(q)'
  <2> DEFINE s == c.src[x.i]
             y == Call(x, "remove", s, s)
  <2>1. Step(q, y) /\ x.pc = "next"
    BY <1>1, <1>5 DEF NextOperand, Keeps, Source
  <2>2. x.i \in 1 .. Len(c.src) /\ s \in Path
    BY <1>1, <1>5
  <2>3. /\ y \in ProcType /\ y.pc = "remove" /\ y.stack = <<Frame("remove", s, s)>> /\ y.i = x.i
        /\ y.ret = x.ret /\ y.astray = x.astray
    BY <1>1, <2>2, RemoveCalls
  <2>4. LinksArePaths(fs0)
    BY DEF RmInv, Gentle
  <2>5. <<Frame("remove", s, s)>> \in Stacks(Removal(fs', fs0, Entry(fs0, s), y.astray), s)
    BY <2>2, <2>4, FrameFacts
  <2> HIDE DEF y
  <2>6. /\ proc'[q] = y /\ RmStepsTo(q, y)
        /\ \A k : Overlooked(q, c.src[k]) => Overlooked(q, c.src[k])'
    BY <1>6, <2>1, <2>3
  <2>7. x.ret = 0 => \A k \in 1 .. x.i - 1 : IsGone(fs, c.src[k]) \/ Overlooked(q, c.src[k])
    BY <1>1, <2>1 DEF RmProc
  <2>8. RmProc(q)'
    BY <1>1, <1>2, <2>2, <2>3, <2>5, <2>6, <2>7 DEF RmProc, Operands
  <2> QED BY <2>6, <2>8
<1> QED BY <1>3, <1>4, <1>5

LEMMA RmRemoves ==
  ASSUME RmInv, Removing, NEW q \in Procs, proc[q].pc = "remove", Process(q)
  PROVE  \E y : RmStepsTo(q, y) /\ RmProc(q)'
<1> DEFINE c == job[q]
           x == proc[q]
           s == c.src[x.i]
           top == Entry(fs0, s)
           After(B) == Removal(fs', fs0, top, B)
<1>1. /\ c.name = "rm" /\ RmProc(q) /\ x \in ProcType /\ x.i \in Operands(q) /\ Len(c.src) \in Nat
      /\ s \in Path /\ x.stack \in Stacks(Frames(q, top), s) /\ DOMAIN proc = Procs /\ Gentle(fs, fs0)
      /\ \A i \in Operands(q) : c.src[i] \in Path
  BY JobFacts DEF RmInv, Removing, RmProc, Fixed, Procs, Operands, Frames
<1>2. x.stack[1].src = s
  BY <1>1 DEF Stacks
<1>3. top \in Path
  BY <1>1, EntryFacts DEF Gentle
<1>4. \A ret \in {0, -1} : Returned(c, x, ret) = Operand(x, ret)
  BY <1>1 DEF Returned
<1>5. RemovesNow(q, top)
  BY <1>1, <1>2, <1>3, <1>4, OperandFacts DEF RemovesNow, At1
<1>6. RemovalOutcome(q, top)
  BY <1>5, RemovalStep
<1>7. PICK y : /\ Step(q, y) /\ Removes(fs, fs', top, x.astray)
               /\ \/ \E B \in SUBSET Path : x.astray \in SUBSET B /\ GoesOn(y, [x EXCEPT !.astray = B], After(B))
                  \/ \E ret \in {0, -1} : Ends(y, c, x, ret) /\ (ret = 0 => IsGone(fs', s) \/ Overlooked(q, s))
  BY <1>2, <1>6 DEF RemovalOutcome
<1>8. proc'[q] = y /\ job' = job /\ fs0' = fs0
  BY <1>1, <1>7 DEF Step
<1>9. ASSUME x.astray \in SUBSET y.astray
      PROVE  RmStepsTo(q, y) /\ \A k : Overlooked(q, c.src[k]) => Overlooked(q, c.src[k])'
  <2>1. RmStepsTo(q, y)
    BY <1>1, <1>7, <1>9 DEF RmStepsTo
  <2>2. \A k : Overlooked(q, c.src[k]) => Overlooked(q, c.src[k])'
    BY <1>8, <1>9 DEF Overlooked, force, Is
  <2> QED BY <2>1, <2>2
<1>10. Gentle(fs', fs) /\ DOMAIN fs' \in SUBSET DOMAIN fs
  BY <1>1, <1>7, RemovesFacts
<1>11. x.ret = 0 => \A k \in 1 .. x.i - 1 : IsGone(fs', c.src[k]) \/ Overlooked(q, c.src[k])
  <2>1. \A k \in 1 .. x.i - 1 : k \in Operands(q)
    BY <1>1 DEF Operands
  <2>2. x.ret = 0 => \A k \in 1 .. x.i - 1 : IsGone(fs, c.src[k]) \/ Overlooked(q, c.src[k])
    BY <1>1 DEF RmProc
  <2> QED BY <1>1, <1>10, <2>1, <2>2, GoneStays
<1>12. ASSUME NEW B \in SUBSET Path, x.astray \in SUBSET B, NEW st \in Stacks(After(B), s),
              Like(y, [[x EXCEPT !.astray = B] EXCEPT !.stack = st])
       PROVE  RmStepsTo(q, y) /\ RmProc(q)'
  <2>1. /\ y \in ProcType /\ y.pc = "remove" /\ y.i = x.i /\ y.stack = st /\ y.ret = x.ret /\ y.astray = B
    BY <1>1, <1>12 DEF Like, ProcType
  <2>2. RmStepsTo(q, y) /\ \A k : Overlooked(q, c.src[k]) => Overlooked(q, c.src[k])'
    BY <1>9, <1>12, <2>1
  <2>3. y.ret = 0 => \A k \in 1 .. y.i - 1 : IsGone(fs', c.src[k]) \/ Overlooked(q, c.src[k])'
    BY <1>11, <2>1, <2>2
  <2>4. y.stack \in Stacks(Removal(fs', fs0, Entry(fs0, c.src[y.i]), y.astray), c.src[y.i])
    BY <1>12, <2>1
  <2>5. y.i \in 1 .. Len(c.src) + 1 /\ y.i \in 1 .. Len(c.src)
    BY <1>1, <2>1 DEF Operands
  <2> HIDE DEF x, s, After, top
  <2>6. RmProc(q)'
    BY <1>8, <2>1, <2>3, <2>4, <2>5 DEF RmProc, Operands
  <2> QED BY <2>2, <2>6
<1>13. ASSUME NEW ret \in {0, -1}, Ends(y, c, x, ret), ret = 0 => IsGone(fs', s) \/ Overlooked(q, s)
       PROVE  RmStepsTo(q, y) /\ RmProc(q)'
  <2>1. Like(y, Operand(x, ret))
    BY <1>4, <1>13 DEF Ends
  <2>2. /\ y \in ProcType /\ y.pc = "next" /\ y.i = x.i + 1 /\ y.stack = << >>
        /\ y.ret = (IF ret = 0 THEN x.ret ELSE 1) /\ y.astray = x.astray
    BY <1>1, <2>1, OperandFacts DEF Like
  <2>3. RmStepsTo(q, y) /\ \A k : Overlooked(q, c.src[k]) => Overlooked(q, c.src[k])'
    BY <1>9, <2>2
  <2>4. y.ret = 0 => \A k \in 1 .. y.i - 1 : IsGone(fs', c.src[k]) \/ Overlooked(q, c.src[k])'
    <3>1. \A k \in 1 .. y.i - 1 : k \in 1 .. x.i - 1 \/ k = x.i
      BY <1>1, <2>2 DEF Operands
    <3>2. y.ret = 0 => x.ret = 0 /\ ret = 0
      BY <2>2
    <3>3. y.ret = 0 => \A k \in 1 .. y.i - 1 : IsGone(fs', c.src[k]) \/ Overlooked(q, c.src[k])
      BY <1>11, <1>13, <3>1, <3>2
    <3> QED BY <2>3, <3>3
  <2>5. y.i \in 1 .. Len(c.src) + 1
    BY <1>1, <2>2 DEF Operands
  <2>6. RmProc(q)'
    <3> HIDE DEF x, s
    <3> QED BY <1>8, <2>2, <2>4, <2>5 DEF RmProc
  <2> QED BY <2>3, <2>6
<1> HIDE DEF c, s, After
<1>14. \A B : GoesOn(y, [x EXCEPT !.astray = B], After(B)) =>
         \E st \in Stacks(After(B), s) : Like(y, [[x EXCEPT !.astray = B] EXCEPT !.stack = st])
  <2>1. \A B : [x EXCEPT !.astray = B].stack = x.stack
    BY <1>1 DEF ProcType
  <2> HIDE DEF x
  <2> QED BY <1>2, <2>1 DEF GoesOn
<1> QED BY <1>7, <1>12, <1>13, <1>14

LEMMA RmStep ==
  ASSUME RmInv, NEW q \in Procs, Process(q)
  PROVE  RmInv'
<1>1. job' = job /\ fs0' = fs0 /\ DOMAIN proc' = DOMAIN proc
  BY StepFacts
<1>2. CASE ~Removing
  <2>1. ~Removing' /\ Fixed'
    BY <1>1, <1>2 DEF Removing, Procs, Fixed, RmInv
  <2> QED BY <2>1 DEF RmInv
<1>3. CASE Removing
  <2>1. CASE proc[q].pc = "remove"
    BY <1>3, <2>1, RmRemoves, RmKeeps
  <2>2. CASE proc[q].pc # "remove"
    <3>1. proc[q].stack = << >> /\ proc[q].pc # "rename"
      BY <1>3, <2>2 DEF RmInv, RmProc
    <3>2. Start(q) \/ NextOperand(q)
      BY <3>1, IdleFacts
    <3> QED BY <1>3, <3>2, RmStarts, RmKeeps
  <2> QED BY <2>1, <2>2
<1> QED BY <1>2, <1>3

(* An rm that succeeds has removed its operands, and nothing else is       *)
(* removed.                                                                *)
LEMMA RmImplies ==
  ASSUME RmInv, Removing
  PROVE  SuccessIsReal /\ LinksNotFollowed
<1>1. ASSUME NEW q \in Procs, proc[q].pc = "exited", proc[q].ret = 0, NEW i \in DOMAIN job[q].src
      PROVE  Gone(job[q].src[i]) \/ Overlooked(q, job[q].src[i])
  <2>1. RmProc(q) /\ Gentle(fs, fs0)
    BY DEF RmInv
  <2>2. Len(job[q].src) \in Nat /\ i \in 1 .. Len(job[q].src) /\ job[q].src[i] \in Path
    BY JobFacts DEF RmInv, Fixed, Procs
  <2>3. IsGone(fs, job[q].src[i]) \/ Overlooked(q, job[q].src[i])
    BY <1>1, <2>1, <2>2 DEF RmProc
  <2>4. Entry(fs, job[q].src[i]) \in Path
    BY <2>1, <2>2, EntryFacts DEF Gentle
  <2> QED BY <2>1, <2>3, <2>4, GoneFacts DEF Gone, IsGone, Gentle
<1>2. SuccessIsReal
  BY <1>1 DEF SuccessIsReal, Removing
<1>3. LinksNotFollowed
  <2>1. \A q \in Procs : DOMAIN job[q].src = Operands(q) /\ job[q].name # "cp"
    BY JobFacts DEF RmInv, Fixed, Procs, Operands, Removing
  <2> QED BY <2>1 DEF LinksNotFollowed, RmInv, OnlyOperands, Under, From
<1> QED BY <1>2, <1>3

-----------------------------------------------------------------------------
(* cp, as many as there are                                                *)

CopiesOnly == \A q \in Procs : job[q].name = "cp"

CpProc(q) ==
  LET x == proc[q]
  IN /\ x \in ProcType /\ x.pc \in {"start", "next", "copy", "exited"} /\ x.i >= 1
     /\ IF x.pc = "copy" THEN x.stack \in Stacks(Copying(fs), x.stack[1].src) ELSE x.stack = << >>

CpInv == Fixed /\ (CopiesOnly => Tidy(fs) /\ DOMAIN fs0 \in SUBSET DOMAIN fs /\ \A q \in Procs : CpProc(q))

LEMMA StartFacts ==
  ASSUME NEW q, proc[q] \in ProcType, Start(q)
  PROVE  /\ fs' = fs /\ proc[q].pc = "start"
         /\ \E y \in ProcType :
              /\ Step(q, y) /\ y.pc \in {"next", "exited"} /\ y.i = proc[q].i /\ y.stack = proc[q].stack
              /\ y.undone = proc[q].undone /\ y.astray = proc[q].astray
<1> DEFINE c == job[q]
           b == c.name # "rm" /\ Is(fs, Resolve(fs, c.dest), "dir")
           x == [proc[q] EXCEPT !.into = b]
           y == [x EXCEPT !.pc = "exited", !.ret = 2]
           z == [x EXCEPT !.pc = "next"]
<1>1. b \in BOOLEAN
  OBVIOUS
<1>2. fs' = fs /\ proc[q].pc = "start" /\ (Step(q, y) \/ Step(q, z))
  BY DEF Start, Keeps, ProcType
<1> HIDE DEF b
<1>3. y \in ProcType /\ y.pc = "exited" /\ y.i = proc[q].i /\ y.stack = proc[q].stack /\ y.undone = proc[q].undone
      /\ y.astray = proc[q].astray
  BY <1>1 DEF ProcType
<1>4. z \in ProcType /\ z.pc = "next" /\ z.i = proc[q].i /\ z.stack = proc[q].stack /\ z.undone = proc[q].undone
      /\ z.astray = proc[q].astray
  BY <1>1 DEF ProcType
<1> HIDE DEF y, z
<1> QED BY <1>2, <1>3, <1>4

(* ... and of the first part of the loop of cp and mv.                     *)
LEMMA NextFacts ==
  ASSUME Fixed, NEW q \in Procs, job[q].name # "rm", proc[q] \in ProcType, proc[q].i >= 1, NextOperand(q)
  PROVE  /\ fs' = fs /\ proc[q].pc = "next"
         /\ \/ Step(q, [proc[q] EXCEPT !.pc = "exited"])
            \/ /\ proc[q].i <= Len(job[q].src)
               /\ \/ Step(q, [Operand(proc[q], 1) EXCEPT !.errs = TRUE])
                  \/ job[q].name = "mv" /\ Step(q, [proc[q] EXCEPT !.pc = "rename"])
                  \/ /\ job[q].name = "cp" /\ Source(job[q], proc[q]) \in Path /\ Target(job[q], proc[q]) \in Path
                     /\ Step(q, Call(proc[q], "copy", Source(job[q], proc[q]), Target(job[q], proc[q])))
<1> DEFINE c == job[q]
           x == proc[q]
<1>1. c.name \in {"cp", "mv"} /\ x.i \in Nat /\ Len(c.src) \in Nat /\ c.dest \in Path
      /\ \A i \in 1 .. Len(c.src) : c.src[i] \in Path
  BY JobFacts DEF ProcType, Fixed, Procs
<1>2. ~(x.i > Len(c.src)) => Source(c, x) \in Path /\ Target(c, x) \in Path
  <2>1. ASSUME x.i \in 1 .. Len(c.src)
        PROVE  Source(c, x) \in Path /\ Target(c, x) \in Path
    <3>1. Last(c.src[x.i]) \in Name /\ c.dest \in Names
      BY <1>1, <2>1, PathFacts
    <3>2. Append(c.dest, Last(c.src[x.i])) \in Path
      BY <3>1, AppendFacts
    <3> QED BY <1>1, <2>1, <3>2 DEF Source, Target
  <2> QED BY <1>1, <2>1
<1>3. fs' = fs /\ x.pc = "next"
  BY DEF NextOperand, Keeps
<1>4. CASE x.i > Len(c.src)
  BY <1>3, <1>4 DEF NextOperand, Keeps
<1>5. CASE ~(x.i > Len(c.src))
  <2>1. \/ Step(q, [Operand(x, 1) EXCEPT !.errs = TRUE])
        \/ c.name = "mv" /\ Step(q, [x EXCEPT !.pc = "rename"])
        \/ c.name # "mv" /\ Step(q, Call(x, "copy", Source(c, x), Target(c, x)))
    BY <1>1, <1>5 DEF NextOperand, Keeps
  <2> QED BY <1>1, <1>2, <1>3, <1>5, <2>1
<1> QED BY <1>4, <1>5

LEMMA CpInit == Init => CpInv
<1> SUFFICES ASSUME Init PROVE Fixed /\ Tidy(fs) /\ DOMAIN fs0 \in SUBSET DOMAIN fs /\ \A q \in Procs : CpProc(q)
  BY DEF CpInv
<1>1. fs0 \in Trees /\ fs = fs0 /\ Fixed
  BY DEF Init, Fixed, Procs
<1>2. ASSUME NEW q \in Procs
      PROVE  CpProc(q)
  <2>1. proc[q] = Fresh
    BY DEF Init, Procs
  <2>2. << >> \in Seq(FrameType)
    OBVIOUS
  <2> QED BY <2>1, <2>2 DEF CpProc, Fresh, ProcType
<1> QED BY <1>1, <1>2, TreeFacts

LEMMA CpKeeps ==
  ASSUME CpInv, CopiesOnly, NEW q \in Procs, NEW y, Step(q, y), Tidy(fs'), Grows(fs, fs'), CpProc(q)'
  PROVE  CpInv'
<1>1. job' = job /\ fs0' = fs0 /\ proc' = [proc EXCEPT ![q] = y] /\ Procs' = Procs /\ DOMAIN proc = Procs
  BY DEF Step, Procs, CpInv, Fixed
<1>2. DOMAIN fs0 \in SUBSET DOMAIN fs'
  BY DEF CpInv, Grows
<1>3. \A s : Stacks(Copying(fs), s) \in SUBSET Stacks(Copying(fs'), s)
  BY CopyingGrows DEF CpInv
<1>4. ASSUME NEW r \in Procs, r # q
      PROVE  CpProc(r)'
  <2>1. proc'[r] = proc[r] /\ CpProc(r)
    BY <1>1, <1>4 DEF CpInv
  <2> QED BY <1>3, <2>1 DEF CpProc
<1> QED BY <1>1, <1>2, <1>4 DEF CpInv, Fixed, CopiesOnly

LEMMA CpStarts ==
  ASSUME CpInv, CopiesOnly, NEW q \in Procs, Start(q) \/ NextOperand(q)
  PROVE  fs' = fs /\ \E y : Step(q, y) /\ CpProc(q)'
<1> DEFINE x == proc[q]
           c == job[q]
<1>1. /\ CpProc(q) /\ x \in ProcType /\ x.i \in Nat /\ x.i >= 1 /\ Fixed /\ DOMAIN proc = Procs /\ c.name = "cp"
  BY DEF CpInv, CpProc, ProcType, CopiesOnly, Fixed
<1>2. \A y : Step(q, y) => proc'[q] = y
  BY <1>1 DEF Step
<1>3. CASE Start(q)
  <2>1. fs' = fs /\ x.pc = "start"
    BY <1>1, <1>3, StartFacts
  <2>2. PICK y \in ProcType : Step(q, y) /\ y.pc \in {"next", "exited"} /\ y.i = x.i /\ y.stack = x.stack
    BY <1>1, <1>3, StartFacts
  <2>3. proc'[q] = y /\ x.stack = << >>
    BY <1>1, <1>2, <2>1, <2>2 DEF CpProc
  <2>4. CpProc(q)'
    BY <1>1, <2>2, <2>3 DEF CpProc
  <2> QED BY <2>1, <2>2, <2>4
<1>4. CASE NextOperand(q)
  <2>1. /\ fs' = fs /\ x.pc = "next"
        /\ \/ Step(q, [x EXCEPT !.pc = "exited"])
           \/ Step(q, [Operand(x, 1) EXCEPT !.errs = TRUE])
           \/ /\ Source(c, x) \in Path /\ Target(c, x) \in Path
              /\ Step(q, Call(x, "copy", Source(c, x), Target(c, x)))
    BY <1>1, <1>4, NextFacts
  <2>2. x.stack = << >>
    BY <1>1, <2>1 DEF CpProc
  <2>3. CASE Step(q, [x EXCEPT !.pc = "exited"])
    <3> DEFINE y == [x EXCEPT !.pc = "exited"]
    <3>1. y \in ProcType /\ y.pc = "exited" /\ y.i = x.i /\ y.stack = << >> /\ proc'[q] = y
      BY <1>1, <1>2, <2>2, <2>3 DEF ProcType
    <3>2. CpProc(q)'
      <4> HIDE DEF y
      <4> QED BY <1>1, <3>1 DEF CpProc
    <3> QED BY <2>1, <2>3, <3>2
  <2>4. CASE Step(q, [Operand(x, 1) EXCEPT !.errs = TRUE])
    <3> DEFINE z == Operand(x, 1)
               y == [z EXCEPT !.errs = TRUE]
    <3>1. z \in ProcType /\ z.pc = "next" /\ z.i = x.i + 1 /\ z.stack = << >>
      BY <1>1, OperandFacts
    <3> HIDE DEF z
    <3>2. y \in ProcType /\ y.pc = "next" /\ y.i = x.i + 1 /\ y.stack = << >>
      BY <3>1 DEF ProcType
    <3>3. proc'[q] = y
      BY <1>2, <2>4 DEF z
    <3>4. CpProc(q)'
      <4> HIDE DEF y
      <4> QED BY <1>1, <3>2, <3>3 DEF CpProc
    <3> QED BY <2>1, <2>4, <3>4
  <2>5. CASE /\ Source(c, x) \in Path /\ Target(c, x) \in Path
             /\ Step(q, Call(x, "copy", Source(c, x), Target(c, x)))
    <3> DEFINE s == Source(c, x)
               d == Target(c, x)
               y == Call(x, "copy", s, d)
    <3>0. s \in Path /\ d \in Path /\ Step(q, y)
      BY <2>5
    <3> HIDE DEF s, d
    <3>1. y \in ProcType /\ y.pc = "copy" /\ y.i = x.i /\ y.stack = <<Frame("copy", s, d)>>
      BY <1>1, <3>0, CopyCalls
    <3>2. <<Frame("copy", s, d)>> \in Stacks(Copying(fs'), s)
      BY <3>0, FrameFacts
    <3>3. y.stack \in Stacks(Copying(fs'), y.stack[1].src)
      BY <3>1, <3>2 DEF Stacks
    <3>4. proc'[q] = y
      BY <1>2, <3>0
    <3>5. CpProc(q)'
      <4> HIDE DEF y
      <4> QED BY <1>1, <3>1, <3>3, <3>4 DEF CpProc
    <3> QED BY <2>1, <3>0, <3>5
  <2> QED BY <2>1, <2>3, <2>4, <2>5
<1> QED BY <1>3, <1>4

LEMMA CpCopies ==
  ASSUME CpInv, CopiesOnly, NEW q \in Procs, proc[q].pc = "copy", Process(q)
  PROVE  \E y : Step(q, y) /\ Tidy(fs') /\ Grows(fs, fs') /\ CpProc(q)'
<1> DEFINE x == proc[q]
           c == job[q]
           s == x.stack[1].src
<1>1. /\ x \in ProcType /\ x.i \in Nat /\ x.i >= 1 /\ x.stack \in Stacks(Copying(fs), s) /\ c.name = "cp" /\ Tidy(fs)
      /\ DOMAIN proc = Procs /\ x.pc = "copy"
  BY DEF CpInv, CpProc, ProcType, CopiesOnly, Fixed
<1>2. \A ret \in {0, -1} : Returned(c, x, ret) = Operand(x, ret)
  BY <1>1 DEF Returned
<1>3. CopiesNow(q)
  BY <1>1, <1>2, OperandFacts DEF CopiesNow, At1
<1>4. PICK y : /\ Step(q, y) /\ Tidy(fs') /\ Grows(fs, fs')
               /\ GoesOn(y, x, Copying(fs')) \/ \E ret \in {0, -1} : Ends(y, c, x, ret)
  BY <1>3, CopyStep DEF CopyOutcome
<1>0. \A z : Step(q, z) => proc'[q] = z
  BY <1>1 DEF Step
<1>5. proc'[q] = y
  BY <1>0, <1>4
<1> HIDE DEF x, c
<1>6. CASE GoesOn(y, x, Copying(fs'))
  <2> HIDE DEF s
  <2>1. PICK st \in Stacks(Copying(fs'), s) : Like(y, [x EXCEPT !.stack = st])
    BY <1>6 DEF GoesOn, s
  <2>2. y \in ProcType /\ y.pc = "copy" /\ y.i = x.i /\ y.stack = st
    BY <1>1, <2>1 DEF Like, ProcType
  <2>3. st \in Stacks(Copying(fs'), st[1].src)
    BY <2>1 DEF Stacks
  <2>4. y.i >= 1 /\ y.pc = "copy" /\ y.stack \in Stacks(Copying(fs'), y.stack[1].src)
    BY <1>1, <2>2, <2>3
  <2>5. CpProc(q)'
    BY <1>5, <2>2, <2>4 DEF CpProc
  <2> QED BY <1>4, <2>5
<1>7. ASSUME NEW ret \in {0, -1}, Ends(y, c, x, ret)
      PROVE  CpProc(q)'
  <2>1. Like(y, Operand(x, ret))
    BY <1>2, <1>7 DEF Ends
  <2>2. y \in ProcType /\ y.pc = "next" /\ y.i = x.i + 1 /\ y.stack = << >>
    BY <1>1, <2>1, OperandFacts DEF Like
  <2>3. y.i >= 1
    BY <1>1, <2>2
  <2> QED BY <1>5, <2>2, <2>3 DEF CpProc
<1> QED BY <1>4, <1>6, <1>7

LEMMA CpStep ==
  ASSUME CpInv, NEW q \in Procs, Process(q)
  PROVE  CpInv'
<1>1. job' = job /\ fs0' = fs0 /\ DOMAIN proc' = DOMAIN proc
  BY StepFacts
<1>2. CASE ~CopiesOnly
  BY <1>1, <1>2 DEF CopiesOnly, Procs, Fixed, CpInv
<1>3. CASE CopiesOnly
  <2>1. CASE proc[q].pc = "copy"
    BY <1>3, <2>1, CpCopies, CpKeeps
  <2>2. CASE proc[q].pc # "copy"
    <3>1. proc[q].stack = << >> /\ proc[q].pc # "rename"
      BY <1>3, <2>2 DEF CpInv, CpProc
    <3>2. Start(q) \/ NextOperand(q)
      BY <3>1, IdleFacts
    <3>3. fs' = fs /\ \E y : Step(q, y) /\ CpProc(q)'
      BY <1>3, <3>2, CpStarts
    <3>4. Tidy(fs') /\ Grows(fs, fs')
      BY <1>3, <3>3, GrowsSame DEF CpInv
    <3> QED BY <1>3, <3>3, <3>4, CpKeeps
  <2> QED BY <2>1, <2>2
<1> QED BY <1>2, <1>3

LEMMA CpImplies ==
  ASSUME CpInv, CopiesOnly
  PROVE  LinksNotFollowed
BY DEF CpInv, LinksNotFollowed

-----------------------------------------------------------------------------
(* mv of one operand                                                       *)

MovesOne == Len(job) = 1 /\ job[1].name = "mv" /\ Len(job[1].src) = 1

(* Where mv takes its operand, and what may be missing.                    *)
Goal == Target(job[1], [proc[1] EXCEPT !.i = 1])
Missing(p, x) ==
  Under(p, Entry(fs0, job[1].src[1]), x.astray) \/ (x.undone /\ Beneath(p, Entry(fs0, Goal)))
OnlyMoved == \A p \in DOMAIN fs0 \ DOMAIN fs : Missing(p, proc[1])

MvProc ==
  LET c == job[1]
      x == proc[1]
  IN /\ x \in ProcType /\ x.i \in {1, 2} /\ (x.pc \notin {"next", "exited"} => x.i = 1)
     /\ x.pc \in {"start", "rename"} \/ (x.pc = "next" /\ x.i = 1) => fs = fs0
     /\ x.pc \in {"start", "next", "rename", "exited"} => x.stack = << >>
     /\ x.pc = "copy" =>
          Tidy(fs) /\ Grows(fs0, fs) /\ x.stack \in Stacks(Copying(fs), x.stack[1].src)
     /\ x.pc = "remove" =>
          Gentle(fs, fs0) /\ x.stack \in Stacks(Removal(fs, fs0, Entry(fs0, c.src[1]), x.astray), c.src[1])
     /\ x.pc = "undo" =>
          Gentle(fs, fs0) /\ x.stack \in Stacks(Removal(fs, fs0, Entry(fs0, Goal), x.astray), Goal) /\ x.undone

MvInv == Fixed /\ (MovesOne => MvProc /\ OnlyMoved)

LEMMA MvFacts ==
  ASSUME MvInv, MovesOne
  PROVE  /\ Procs = {1} /\ DOMAIN proc = {1} /\ MvProc /\ OnlyMoved /\ Fixed /\ proc[1] \in ProcType
         /\ job[1].name = "mv" /\ Len(job[1].src) = 1 /\ job[1].src[1] \in Path /\ Goal \in Path
         /\ Tidy(fs0) /\ Gentle(fs0, fs0)
         /\ proc[1].i = 1 => Source(job[1], proc[1]) = job[1].src[1] /\ Target(job[1], proc[1]) = Goal
<1> DEFINE c == job[1]
           x == proc[1]
<1>1. job \in Jobs /\ fs0 \in Trees /\ MvProc /\ OnlyMoved /\ Fixed /\ x \in ProcType
  BY DEF MvInv, Fixed, MvProc
<1>2. Procs = {1}
  BY <1>1, FileTreeAssumption DEF Procs, MovesOne
<1>3. c.src[1] \in Path /\ c.dest \in Path
  BY <1>1, <1>2, JobFacts DEF Procs, MovesOne
<1>4. Append(c.dest, Last(c.src[1])) \in Path
  <2>1. c.dest \in Names /\ Last(c.src[1]) \in Name
    BY <1>3, PathFacts
  <2> QED BY <2>1, AppendFacts
<1>5. [x EXCEPT !.i = 1].into = x.into /\ [x EXCEPT !.i = 1].i = 1
  BY <1>1 DEF ProcType
<1>6. Goal = IF x.into THEN Append(c.dest, Last(c.src[1])) ELSE c.dest
  BY <1>5 DEF Goal, Target
<1>7. x.i = 1 => Source(c, x) = c.src[1] /\ Target(c, x) = Goal
  BY <1>6 DEF Source, Target
<1>8. Tidy(fs0) /\ Gentle(fs0, fs0)
  BY <1>1, TreeFacts
<1> QED BY <1>1, <1>2, <1>3, <1>4, <1>6, <1>7, <1>8 DEF MovesOne, Fixed

(* A step of mv to y, which keeps its destination, and what it removes.    *)
MvStepsTo(y) ==
  /\ Step(1, y)
  /\ \/ fs' = fs0
     \/ /\ y.into = proc[1].into /\ (proc[1].undone => y.undone) /\ proc[1].astray \in SUBSET y.astray
        /\ \A p \in DOMAIN fs \ DOMAIN fs' : Missing(p, y)

LEMMA MvKeeps ==
  ASSUME MvInv, MovesOne, NEW y \in ProcType, MvStepsTo(y)
  PROVE  /\ job' = job /\ fs0' = fs0 /\ proc'[1] = y
         /\ y.into = proc[1].into => Goal' = Goal
         /\ MvProc' => MvInv'
<1>1. job' = job /\ fs0' = fs0 /\ proc' = [proc EXCEPT ![1] = y] /\ DOMAIN proc = {1} /\ Procs = {1} /\ OnlyMoved
      /\ Fixed /\ proc[1] \in ProcType
  BY MvFacts DEF MvStepsTo, Step
<1>2. proc'[1] = y
  BY <1>1
<1>3. y.into = proc[1].into => Goal' = Goal
  <2>1. [y EXCEPT !.i = 1].into = y.into /\ [y EXCEPT !.i = 1].i = 1
    BY DEF ProcType
  <2>2. [proc[1] EXCEPT !.i = 1].into = proc[1].into /\ [proc[1] EXCEPT !.i = 1].i = 1
    BY <1>1 DEF ProcType
  <2> QED BY <1>1, <1>2, <2>1, <2>2 DEF Goal, Target
<1>4. OnlyMoved'
  <2>1. CASE fs' = fs0
    BY <1>1, <2>1 DEF OnlyMoved
  <2>2. CASE /\ y.into = proc[1].into /\ (proc[1].undone => y.undone) /\ proc[1].astray \in SUBSET y.astray
             /\ \A p \in DOMAIN fs \ DOMAIN fs' : Missing(p, y)
    <3>1. Goal' = Goal
      BY <1>3, <2>2
    <3>2. \A p : Missing(p, proc[1]) => Missing(p, y)
      BY <2>2 DEF Missing, Under
    <3>3. \A p \in DOMAIN fs0 \ DOMAIN fs' : Missing(p, y)
      BY <1>1, <2>2, <3>2 DEF OnlyMoved
    <3>4. \A p : Missing(p, y) => Missing(p, proc[1])'
      BY <1>1, <1>2, <3>1 DEF Missing
    <3> QED BY <1>1, <3>3, <3>4 DEF OnlyMoved
  <2> QED BY <2>1, <2>2 DEF MvStepsTo
<1> QED BY <1>1, <1>2, <1>3, <1>4 DEF MvInv, Fixed, MovesOne, Procs

(* rename(2) takes nothing away but what it moves.                         *)
LEMMA RenameFacts ==
  ASSUME NEW t, NEW src \in Path, NEW dest \in Path, NEW u \in rename(t, src, dest)
  PROVE  \A p \in DOMAIN t \ DOMAIN u : Beneath(p, src)
<1> DEFINE moved == {p \in DOMAIN t : Beneath(p, src)}
           left == Without(t, moved \cup {dest})
           there == {dest \o SubSeq(p, Len(src) + 1, Len(p)) : p \in moved}
<1>1. src \in DOMAIN t /\ (u = t \/ DOMAIN u = DOMAIN left \cup there)
  BY DEF rename
<1>2. dest \in there
  <2>1. src \in moved
    BY <1>1, BeneathFacts
  <2>2. SubSeq(src, Len(src) + 1, Len(src)) = << >>
    <3>1. Len(src) \in Nat
      BY PathFacts
    <3> QED BY <3>1, SubSeqEmpty
  <2>3. dest \o << >> = dest
    BY ConcatEmptySeq DEF Path
  <2> QED BY <2>1, <2>2, <2>3
<1>3. DOMAIN left = DOMAIN t \ (moved \cup {dest})
  BY DEF Without
<1> QED BY <1>1, <1>2, <1>3

(* Where mv is between the recursions.                                     *)
LEMMA MvIdle ==
  ASSUME MvInv, MovesOne, NEW y \in ProcType, MvStepsTo(y), y.stack = << >>, y.pc \in {"next", "rename", "exited"},
         y.i \in {1, 2}, y.pc = "rename" => y.i = 1,
         y.pc = "rename" \/ (y.pc = "next" /\ y.i = 1) => fs' = fs0
  PROVE  MvInv'
<1>1. job' = job /\ fs0' = fs0 /\ proc'[1] = y /\ (MvProc' => MvInv')
  BY MvKeeps
<1>2. MvProc'
  BY <1>1 DEF MvProc
<1> QED BY <1>1, <1>2

(* ... and where it calls one of them.                                     *)
LEMMA MvCalls ==
  ASSUME MvInv, MovesOne, NEW y \in ProcType, MvStepsTo(y), y.into = proc[1].into, y.i = 1,
         \/ /\ y.pc = "copy" /\ Tidy(fs') /\ Grows(fs0, fs')
            /\ \E s : y.stack \in Stacks(Copying(fs'), s)
         \/ /\ y.pc = "remove" /\ Gentle(fs', fs0)
            /\ y.stack \in Stacks(Removal(fs', fs0, Entry(fs0, job[1].src[1]), y.astray), job[1].src[1])
         \/ /\ y.pc = "undo" /\ Gentle(fs', fs0) /\ y.undone
            /\ y.stack \in Stacks(Removal(fs', fs0, Entry(fs0, Goal), y.astray), Goal)
  PROVE  MvInv'
<1>1. job' = job /\ fs0' = fs0 /\ proc'[1] = y /\ (MvProc' => MvInv') /\ Goal' = Goal
  BY MvKeeps
<1>2. y.pc = "copy" => y.stack \in Stacks(Copying(fs'), y.stack[1].src)
  BY DEF Stacks
<1>3. MvProc'
  BY <1>1, <1>2 DEF MvProc
<1> QED BY <1>1, <1>3

LEMMA MvStarts ==
  ASSUME MvInv, MovesOne, Start(1) \/ NextOperand(1)
  PROVE  MvInv'
<1> DEFINE x == proc[1]
<1>1. /\ 1 \in Procs /\ MvProc /\ Fixed /\ x \in ProcType /\ job[1].name = "mv" /\ Len(job[1].src) = 1
      /\ x.i \in {1, 2}
  BY MvFacts DEF MvProc
<1>2. CASE Start(1)
  <2>1. fs' = fs /\ x.pc = "start"
    BY <1>1, <1>2, StartFacts
  <2>2. PICK y \in ProcType : Step(1, y) /\ y.pc \in {"next", "exited"} /\ y.i = x.i /\ y.stack = x.stack
    BY <1>1, <1>2, StartFacts
  <2>3. fs' = fs0 /\ x.stack = << >>
    BY <1>1, <2>1 DEF MvProc
  <2>4. MvStepsTo(y)
    BY <2>2, <2>3 DEF MvStepsTo
  <2> QED BY <1>1, <2>2, <2>3, <2>4, MvIdle
<1>3. CASE NextOperand(1)
  <2>0. x.i >= 1 /\ job[1].name # "rm" /\ job[1].name # "cp"
    BY <1>1
  <2>1. /\ fs' = fs /\ x.pc = "next"
        /\ \/ Step(1, [x EXCEPT !.pc = "exited"])
           \/ x.i <= 1 /\ Step(1, [Operand(x, 1) EXCEPT !.errs = TRUE])
           \/ x.i <= 1 /\ Step(1, [x EXCEPT !.pc = "rename"])
    <3> HIDE DEF x
    <3>1. job[1].name = "cp" => FALSE
      BY <1>1
    <3> QED BY <1>1, <1>3, <2>0, <3>1, NextFacts DEF x
  <2>2. x.stack = << >> /\ (x.i = 1 => fs = fs0)
    BY <1>1, <2>1 DEF MvProc
  <2>3. ASSUME NEW y \in ProcType, Step(1, y), y.into = x.into, y.undone = x.undone,
               y.astray = x.astray, y.stack = << >>, y.pc \in {"next", "rename", "exited"}, y.i \in {1, 2}, y.pc = "rename" => x.i = 1 /\ y.i = 1,
               y.pc = "next" => y.i = 2
        PROVE  MvInv'
    <3>1. MvStepsTo(y)
      BY <2>1, <2>3 DEF MvStepsTo
    <3>2. y.pc = "rename" => fs' = fs0
      BY <2>1, <2>2, <2>3
    <3> QED BY <2>3, <3>1, <3>2, MvIdle
  <2>4. CASE Step(1, [x EXCEPT !.pc = "exited"])
    <3> DEFINE y == [x EXCEPT !.pc = "exited"]
    <3>1. /\ y \in ProcType /\ y.into = x.into /\ y.undone = x.undone /\ y.astray = x.astray
          /\ y.stack = << >> /\ y.pc = "exited" /\ y.i = x.i
      BY <1>1, <2>2 DEF ProcType
    <3> HIDE DEF y
    <3> QED BY <1>1, <2>3, <2>4, <3>1 DEF y
  <2>5. CASE x.i <= 1 /\ Step(1, [x EXCEPT !.pc = "rename"])
    <3> DEFINE y == [x EXCEPT !.pc = "rename"]
    <3>1. /\ y \in ProcType /\ y.into = x.into /\ y.undone = x.undone /\ y.astray = x.astray
          /\ y.stack = << >> /\ y.pc = "rename" /\ y.i = x.i
      BY <1>1, <2>2 DEF ProcType
    <3>2. x.i = 1
      BY <1>1, <2>5
    <3> HIDE DEF y
    <3> QED BY <2>3, <2>5, <3>1, <3>2 DEF y
  <2>6. CASE x.i <= 1 /\ Step(1, [Operand(x, 1) EXCEPT !.errs = TRUE])
    <3> DEFINE z == Operand(x, 1)
               y == [z EXCEPT !.errs = TRUE]
    <3>1. /\ z \in ProcType /\ z.pc = "next" /\ z.i = x.i + 1 /\ z.stack = << >> /\ z.into = x.into
          /\ z.undone = x.undone /\ z.astray = x.astray
      BY <1>1, OperandFacts
    <3> HIDE DEF z
    <3>2. /\ y \in ProcType /\ y.pc = "next" /\ y.i = x.i + 1 /\ y.stack = << >> /\ y.into = x.into
          /\ y.undone = x.undone /\ y.astray = x.astray
      BY <3>1 DEF ProcType
    <3>3. x.i + 1 = 2
      BY <1>1, <2>6
    <3>4. Step(1, y)
      BY <2>6 DEF z
    <3> HIDE DEF y
    <3> QED BY <2>3, <3>2, <3>3, <3>4
  <2> QED BY <2>1, <2>4, <2>5, <2>6
<1> QED BY <1>2, <1>3

LEMMA MvMoves ==
  ASSUME MvInv, MovesOne, Move(1)
  PROVE  MvInv'
<1> DEFINE x == proc[1]
           c == job[1]
           src == Entry(fs, Source(c, x))
           dest == Entry(fs, Target(c, x))
<1>1. /\ x \in ProcType /\ x.pc = "rename" /\ x.i = 1 /\ fs = fs0 /\ Source(c, x) = c.src[1] /\ Target(c, x) = Goal
      /\ c.src[1] \in Path /\ Goal \in Path /\ Tidy(fs0) /\ x.stack = << >>
  BY MvFacts DEF MvProc, Move
<1>2. src = Entry(fs0, c.src[1]) /\ src \in Path /\ dest \in Path
  <2>1. LinksArePaths(fs0)
    BY <1>1 DEF Tidy
  <2> QED BY <1>1, <2>1, EntryFacts
<1> HIDE DEF src, dest
<1>3. \/ fs' = fs /\ Step(1, [Operand(x, 1) EXCEPT !.errs = TRUE])
      \/ fs' \in rename(fs, src, dest) /\ Step(1, Operand(x, 0))
      \/ fs' = fs /\ Step(1, Call(x, "copy", c.src[1], Goal))
  BY <1>1 DEF Move, Keeps, Faulty, src, dest
<1>4. ASSUME NEW ret, NEW y, Step(1, y), y = Operand(x, ret) \/ y = [Operand(x, ret) EXCEPT !.errs = TRUE],
             fs' = fs \/ fs' \in rename(fs, src, dest)
      PROVE  MvInv'
  <2> DEFINE z == Operand(x, ret)
  <2>1. /\ z \in ProcType /\ z.pc = "next" /\ z.i = x.i + 1 /\ z.stack = << >> /\ z.into = x.into
        /\ z.undone = x.undone /\ z.astray = x.astray
    BY <1>1, OperandFacts
  <2>2. y = z \/ y = [z EXCEPT !.errs = TRUE]
    BY <1>4
  <2> HIDE DEF z
  <2>3. /\ y \in ProcType /\ y.pc = "next" /\ y.i = x.i + 1 /\ y.stack = << >> /\ y.into = x.into
        /\ y.undone = x.undone /\ y.astray = x.astray
    BY <2>1, <2>2 DEF ProcType
  <2>4. \A p \in DOMAIN fs \ DOMAIN fs' : Beneath(p, Entry(fs0, c.src[1]))
    <3>1. CASE fs' = fs
      BY <3>1
    <3>2. CASE fs' \in rename(fs, src, dest)
      BY <1>2, <3>2, RenameFacts
    <3> QED BY <1>4, <3>1, <3>2
  <2>5. MvStepsTo(y)
    BY <1>4, <2>3, <2>4 DEF MvStepsTo, Missing, Under
  <2>6. y.i = 2
    BY <1>1, <2>3
  <2> QED BY <2>3, <2>5, <2>6, MvIdle
<1>5. CASE fs' = fs /\ Step(1, Call(x, "copy", c.src[1], Goal))
  <2> DEFINE y == Call(x, "copy", c.src[1], Goal)
  <2>0. ASSUME NEW s \in Path, NEW d \in Path
        PROVE  /\ Call(x, "copy", s, d) \in ProcType /\ Call(x, "copy", s, d).pc = "copy"
               /\ Call(x, "copy", s, d).stack = <<Frame("copy", s, d)>>
               /\ Call(x, "copy", s, d).i = x.i /\ Call(x, "copy", s, d).into = x.into
    <3>1. x \in ProcType
      BY <1>1
    <3> HIDE DEF x, c, y
    <3> QED BY <3>1, CopyCalls
  <2>1. /\ y \in ProcType /\ y.pc = "copy" /\ y.stack = <<Frame("copy", c.src[1], Goal)>> /\ y.i = 1
        /\ y.into = x.into
    BY <1>1, <2>0
  <2>2. y.stack \in Stacks(Copying(fs'), c.src[1])
    BY <1>1, <2>1, FrameFacts
  <2>3. Tidy(fs') /\ Grows(fs0, fs') /\ fs' = fs0
    BY <1>1, <1>5, GrowsSame
  <2>4. MvStepsTo(y)
    BY <1>5, <2>3 DEF MvStepsTo
  <2> HIDE DEF y
  <2> QED BY <2>1, <2>2, <2>3, <2>4, MvCalls
<1> QED BY <1>3, <1>4, <1>5

LEMMA GrowsGentle ==
  ASSUME NEW t, NEW u, Tidy(t), Tidy(u), Grows(t, u)
  PROVE  Gentle(u, t) /\ DOMAIN t \in SUBSET DOMAIN u /\ \A v : Grows(u, v) => Grows(t, v)
<1>1. Gentle(u, t)
  BY DEF Tidy, Grows, Gentle, LinksKept, SameLinks, IsLink
<1>2. ASSUME NEW v, Grows(u, v)
      PROVE  Grows(t, v)
  <2>1. SameLinks(v, t)
    BY <1>2 DEF Grows, SameLinks
  <2>2. DOMAIN t \in SUBSET DOMAIN v /\ \A p \in DOMAIN t : v[p].type = t[p].type
    BY <1>2 DEF Grows
  <2> QED BY <2>1, <2>2 DEF Grows
<1> QED BY <1>1, <1>2 DEF Grows

(* When a recursion of mv returns, main goes on or calls the next one.     *)
LEMMA MvReturned ==
  ASSUME MvInv, MovesOne, NEW ret \in {0, -1}, proc[1].pc \in {"copy", "remove", "undo"}
  PROVE  LET x == proc[1]
             y == Returned(job[1], x, ret)
         IN /\ y \in ProcType /\ y.into = x.into /\ (x.undone => y.undone) /\ y.astray = x.astray
            /\ \/ y.pc = "next" /\ y.i = 2 /\ y.stack = << >>
               \/ /\ x.pc = "copy" /\ y.pc = "remove" /\ y.i = 1
                  /\ \A t : y.stack \in Stacks(Removal(t, fs0, Entry(fs0, job[1].src[1]), y.astray), job[1].src[1])
               \/ /\ x.pc = "remove" /\ y.pc = "undo" /\ y.i = 1 /\ y.undone
                  /\ \A t : y.stack \in Stacks(Removal(t, fs0, Entry(fs0, Goal), y.astray), Goal)
<1> DEFINE x == proc[1]
           c == job[1]
           y == Returned(c, x, ret)
<1>1. /\ x \in ProcType /\ x.i = 1 /\ c.name = "mv" /\ c.src[1] \in Path /\ Goal \in Path
      /\ Source(c, x) = c.src[1] /\ Target(c, x) = Goal /\ LinksArePaths(fs0)
  BY MvFacts DEF MvProc, Tidy
<1>2. \/ \E r \in {0, 1, -1} : y = Operand(x, r)
      \/ x.pc = "copy" /\ y = Call(x, "remove", c.src[1], c.src[1])
      \/ x.pc = "remove" /\ y = [Call(x, "remove", Goal, Goal) EXCEPT !.pc = "undo", !.undone = TRUE]
  BY <1>1 DEF Returned
<1> HIDE DEF y
<1>3. ASSUME NEW r \in {0, 1, -1}, y = Operand(x, r)
      PROVE  /\ y \in ProcType /\ y.into = x.into /\ (x.undone => y.undone) /\ y.pc = "next" /\ y.i = 2
             /\ y.stack = << >> /\ y.astray = x.astray
  BY <1>1, <1>3, OperandFacts
<1>6. \A s \in Path :
        LET z == Call(x, "remove", s, s) IN
        /\ z \in ProcType /\ z.pc = "remove" /\ z.stack = <<Frame("remove", s, s)>> /\ z.i = x.i
        /\ z.into = x.into /\ z.undone = x.undone /\ z.astray = x.astray
  <2>1. x \in ProcType
    BY <1>1
  <2> HIDE DEF x, c
  <2> QED BY <2>1, RemoveCalls
<1>4. CASE x.pc = "copy" /\ y = Call(x, "remove", c.src[1], c.src[1])
  <2>1. /\ y \in ProcType /\ y.into = x.into /\ (x.undone => y.undone) /\ y.pc = "remove" /\ y.i = 1
        /\ y.stack = <<Frame("remove", c.src[1], c.src[1])>> /\ y.astray = x.astray
    BY <1>1, <1>4, <1>6
  <2>2. \A t : y.stack \in Stacks(Removal(t, fs0, Entry(fs0, c.src[1]), y.astray), c.src[1])
    BY <1>1, <2>1, FrameFacts
  <2> QED BY <1>4, <2>1, <2>2 DEF y
<1>5. CASE x.pc = "remove" /\ y = [Call(x, "remove", Goal, Goal) EXCEPT !.pc = "undo", !.undone = TRUE]
  <2> DEFINE z == Call(x, "remove", Goal, Goal)
  <2>1. /\ z \in ProcType /\ z.into = x.into /\ z.i = 1 /\ z.stack = <<Frame("remove", Goal, Goal)>>
        /\ z.astray = x.astray
    BY <1>1, <1>6
  <2> HIDE DEF z
  <2>2. /\ y \in ProcType /\ y.into = x.into /\ y.undone /\ y.pc = "undo" /\ y.i = 1
        /\ y.stack = <<Frame("remove", Goal, Goal)>> /\ y.astray = x.astray
    BY <1>5, <2>1 DEF ProcType, z
  <2>3. \A t : y.stack \in Stacks(Removal(t, fs0, Entry(fs0, Goal), y.astray), Goal)
    BY <1>1, <2>2, FrameFacts
  <2> QED BY <1>5, <2>2, <2>3 DEF y
<1> QED BY <1>2, <1>3, <1>4, <1>5 DEF y

LEMMA MvCopies ==
  ASSUME MvInv, MovesOne, proc[1].pc = "copy", Process(1)
  PROVE  MvInv'
<1> DEFINE x == proc[1]
           c == job[1]
           s == x.stack[1].src
<1>1. /\ x \in ProcType /\ x.i = 1 /\ x.pc = "copy" /\ Tidy(fs) /\ Tidy(fs0) /\ Grows(fs0, fs)
      /\ x.stack \in Stacks(Copying(fs), s) /\ DOMAIN proc = {1}
  BY MvFacts DEF MvProc
<1>2. \A ret \in {0, -1} : Returned(c, x, ret) \in ProcType
  BY MvReturned
<1>3. CopiesNow(1)
  BY <1>1, <1>2 DEF CopiesNow, At1
<1>4. PICK y : /\ Step(1, y) /\ Tidy(fs') /\ Grows(fs, fs')
               /\ GoesOn(y, x, Copying(fs')) \/ \E ret \in {0, -1} : Ends(y, c, x, ret)
  BY <1>3, CopyStep DEF CopyOutcome
<1>5. Gentle(fs', fs0) /\ Grows(fs0, fs') /\ DOMAIN fs \in SUBSET DOMAIN fs'
  <2>1. Grows(fs0, fs')
    BY <1>1, <1>4, GrowsGentle
  <2>2. DOMAIN fs \in SUBSET DOMAIN fs'
    BY <1>4 DEF Grows
  <2> QED BY <1>1, <1>4, <2>1, <2>2, GrowsGentle
<1>6. ASSUME y.into = x.into, x.undone => y.undone, y.astray = x.astray
      PROVE  MvStepsTo(y)
  BY <1>4, <1>5, <1>6 DEF MvStepsTo
<1>7. CASE GoesOn(y, x, Copying(fs'))
  <2> HIDE DEF s
  <2>1. PICK st \in Stacks(Copying(fs'), s) : Like(y, [x EXCEPT !.stack = st])
    BY <1>7 DEF GoesOn, s
  <2>2. /\ y \in ProcType /\ y.pc = "copy" /\ y.i = 1 /\ y.stack = st /\ y.into = x.into
        /\ y.undone = x.undone /\ y.astray = x.astray
    BY <1>1, <2>1 DEF Like, ProcType
  <2>3. y.stack \in Stacks(Copying(fs'), s)
    BY <2>2
  <2>4. MvStepsTo(y)
    BY <1>6, <2>2
  <2> QED BY <1>4, <1>5, <2>2, <2>3, <2>4, MvCalls
<1>8. ASSUME NEW ret \in {0, -1}, Ends(y, c, x, ret)
      PROVE  MvInv'
  <2> DEFINE z == Returned(c, x, ret)
  <2>1. /\ z.into = x.into /\ (x.undone => z.undone) /\ z.astray = x.astray
        /\ \/ z.pc = "next" /\ z.i = 2 /\ z.stack = << >>
           \/ /\ z.pc = "remove" /\ z.i = 1
              /\ z.stack \in Stacks(Removal(fs', fs0, Entry(fs0, c.src[1]), z.astray), c.src[1])
    BY <1>1, MvReturned
  <2> HIDE DEF z
  <2>2. /\ y \in ProcType /\ y.pc = z.pc /\ y.i = z.i /\ y.into = z.into /\ y.stack = z.stack
        /\ y.undone = z.undone /\ y.astray = z.astray
    BY <1>8 DEF Ends, Like, z
  <2>3. MvStepsTo(y)
    BY <1>6, <2>1, <2>2
  <2>4. CASE z.pc = "next" /\ z.i = 2 /\ z.stack = << >>
    BY <2>2, <2>3, <2>4, MvIdle
  <2>5. CASE /\ z.pc = "remove" /\ z.i = 1
             /\ z.stack \in Stacks(Removal(fs', fs0, Entry(fs0, c.src[1]), z.astray), c.src[1])
    BY <1>5, <2>1, <2>2, <2>3, <2>5, MvCalls
  <2> QED BY <2>1, <2>4, <2>5
<1> QED BY <1>4, <1>7, <1>8

(* mv removes its operand, or takes back the copy.                         *)
LEMMA MvRemoves ==
  ASSUME MvInv, MovesOne, proc[1].pc \in {"remove", "undo"}, Process(1)
  PROVE  MvInv'
<1> DEFINE x == proc[1]
           c == job[1]
           s == IF x.pc = "remove" THEN c.src[1] ELSE Goal
           top == Entry(fs0, s)
           After(B) == Removal(fs', fs0, top, B)
<1>1. /\ x \in ProcType /\ x.i = 1 /\ Gentle(fs, fs0) /\ s \in Path /\ DOMAIN proc = {1}
      /\ x.stack \in Stacks(Frames(1, top), s) /\ (x.pc # "remove" => x.pc = "undo" /\ x.undone)
  BY MvFacts DEF MvProc, Frames
<1>2. \A ret \in {0, -1} : Returned(c, x, ret) \in ProcType
  BY MvReturned
<1> HIDE DEF s
<1>3. x.stack[1].src = s /\ top \in Path
  BY <1>1, EntryFacts DEF Stacks, Gentle
<1>4. RemovesNow(1, top)
  BY <1>1, <1>2, <1>3 DEF RemovesNow, At1
<1>5. PICK y : /\ Step(1, y) /\ Removes(fs, fs', top, x.astray)
               /\ \/ \E B \in SUBSET Path : x.astray \in SUBSET B /\ GoesOn(y, [x EXCEPT !.astray = B], After(B))
                  \/ \E ret \in {0, -1} : Ends(y, c, x, ret)
  BY <1>4, RemovalStep DEF RemovalOutcome
<1>6. Gentle(fs', fs0) /\ \A p \in DOMAIN fs \ DOMAIN fs' : Under(p, top, x.astray)
  BY <1>1, <1>5, RemovesFacts
<1>7. ASSUME y.into = x.into, x.undone => y.undone, x.astray \in SUBSET y.astray
      PROVE  MvStepsTo(y)
  <2>1. \A p : Under(p, top, x.astray) => Missing(p, y)
    BY <1>1, <1>7 DEF s, Missing, Under
  <2> QED BY <1>5, <1>6, <1>7, <2>1 DEF MvStepsTo
<1> HIDE DEF top, After, x, c
<1>8. ASSUME NEW B \in SUBSET Path, x.astray \in SUBSET B, GoesOn(y, [x EXCEPT !.astray = B], After(B))
      PROVE  MvInv'
  <2>1. PICK st \in Stacks(After(B), s) : Like(y, [[x EXCEPT !.astray = B] EXCEPT !.stack = st])
    <3>1. [x EXCEPT !.astray = B].stack = x.stack
      BY <1>1 DEF ProcType
    <3> QED BY <1>3, <1>8, <3>1 DEF GoesOn
  <2>2. /\ y \in ProcType /\ y.pc = x.pc /\ y.i = 1 /\ y.stack = st /\ y.into = x.into
        /\ y.undone = x.undone /\ y.astray = B
    BY <1>1, <2>1 DEF Like, ProcType
  <2>3. MvStepsTo(y)
    BY <1>7, <1>8, <2>2
  <2>4. CASE x.pc = "remove"
    <3>1. After(B) = Removal(fs', fs0, Entry(fs0, c.src[1]), B) /\ s = c.src[1]
      BY <2>4 DEF After, top, s
    <3> QED BY <1>6, <2>1, <2>2, <2>3, <2>4, <3>1, MvCalls DEF x, c
  <2>5. CASE x.pc # "remove"
    <3>1. After(B) = Removal(fs', fs0, Entry(fs0, Goal), B) /\ s = Goal
      BY <2>5 DEF After, top, s
    <3> QED BY <1>1, <1>6, <2>1, <2>2, <2>3, <2>5, <3>1, MvCalls DEF x, c
  <2> QED BY <2>4, <2>5
<1>9. ASSUME NEW ret \in {0, -1}, Ends(y, c, x, ret)
      PROVE  MvInv'
  <2> DEFINE z == Returned(c, x, ret)
  <2>1. x.pc \in {"remove", "undo"}
    BY DEF x
  <2>2. /\ z.into = x.into /\ (x.undone => z.undone) /\ z.astray = x.astray
        /\ \/ z.pc = "next" /\ z.i = 2 /\ z.stack = << >>
           \/ /\ z.pc = "undo" /\ z.i = 1 /\ z.undone
              /\ z.stack \in Stacks(Removal(fs', fs0, Entry(fs0, Goal), z.astray), Goal)
    BY <2>1, MvReturned DEF x, c
  <2> HIDE DEF z
  <2>3. /\ y \in ProcType /\ y.pc = z.pc /\ y.i = z.i /\ y.into = z.into /\ y.stack = z.stack
        /\ y.undone = z.undone /\ y.astray = z.astray
    BY <1>9 DEF Ends, Like, z
  <2>4. MvStepsTo(y)
    BY <1>7, <2>2, <2>3
  <2>5. CASE z.pc = "next" /\ z.i = 2 /\ z.stack = << >>
    BY <2>3, <2>4, <2>5, MvIdle
  <2>6. CASE /\ z.pc = "undo" /\ z.i = 1 /\ z.undone
             /\ z.stack \in Stacks(Removal(fs', fs0, Entry(fs0, Goal), z.astray), Goal)
    BY <1>6, <2>2, <2>3, <2>4, <2>6, MvCalls DEF x
  <2> QED BY <2>2, <2>5, <2>6
<1> QED BY <1>5, <1>8, <1>9

LEMMA MvStep ==
  ASSUME MvInv, NEW q \in Procs, Process(q)
  PROVE  MvInv'
<1>1. job' = job /\ fs0' = fs0 /\ DOMAIN proc' = DOMAIN proc
  BY StepFacts
<1>2. CASE ~MovesOne
  BY <1>1, <1>2 DEF MovesOne, Procs, Fixed, MvInv
<1>3. CASE MovesOne
  <2>1. q = 1 /\ MvProc /\ proc[1] \in ProcType
    BY <1>3, MvFacts
  <2>2. CASE proc[1].pc = "copy"
    BY <1>3, <2>1, <2>2, MvCopies
  <2>3. CASE proc[1].pc \in {"remove", "undo"}
    BY <1>3, <2>1, <2>3, MvRemoves
  <2>4. CASE proc[1].pc \in {"start", "next", "rename", "exited"}
    <3>1. proc[1].stack = << >>
      BY <2>1, <2>4 DEF MvProc
    <3> QED BY <1>3, <2>1, <3>1, IdleFacts, MvStarts, MvMoves
  <2>5. proc[1].pc \in {"start", "next", "rename", "copy", "remove", "undo", "exited"}
    BY <2>1 DEF ProcType
  <2> QED BY <2>2, <2>3, <2>4, <2>5
<1> QED BY <1>2, <1>3

LEMMA MvInit == Init => MvInv
<1> SUFFICES ASSUME Init PROVE Fixed /\ (MovesOne => MvProc /\ OnlyMoved)
  BY DEF MvInv
<1>1. Fixed /\ fs = fs0
  BY DEF Init, Fixed, Procs
<1>2. ASSUME MovesOne
      PROVE  MvProc
  <2>1. Procs = {1}
    BY <1>1, <1>2, FileTreeAssumption DEF Procs, MovesOne, Fixed
  <2>2. proc[1] = Fresh /\ << >> \in Seq(FrameType)
    BY <2>1 DEF Init
  <2> QED BY <1>1, <2>2 DEF MvProc, Fresh, ProcType
<1> QED BY <1>1, <1>2 DEF OnlyMoved

LEMMA MvImplies ==
  ASSUME MvInv, MovesOne
  PROVE  LinksNotFollowed
<1>1. /\ Procs = {1} /\ OnlyMoved /\ job[1].name = "mv" /\ DOMAIN job[1].src = {1}
  <2>1. DOMAIN job[1].src = 1 .. 1
    BY MvFacts, JobFacts DEF Fixed, Procs
  <2> QED BY <2>1, MvFacts
<1> QED BY <1>1 DEF LinksNotFollowed, OnlyMoved, Missing, Under, Goal, From, To

-----------------------------------------------------------------------------
(* The theorems *)

LEMMA SpecKeeps ==
  ASSUME RmInv /\ CpInv /\ MvInv, [Next]_vars
  PROVE  RmInv' /\ CpInv' /\ MvInv'
<1>1. CASE Next
  BY <1>1, RmStep, CpStep, MvStep DEF Next
<1>2. CASE UNCHANGED vars
  <2>1. job' = job /\ fs' = fs /\ fs0' = fs0 /\ proc' = proc
    BY <1>2 DEF vars
  <2>2. RmInv'
    BY <2>1 DEF RmInv, Fixed, Procs, Removing, OnlyOperands, Operands, RmProc, Overlooked
  <2>3. CpInv'
    BY <2>1 DEF CpInv, Fixed, Procs, CopiesOnly, CpProc
  <2>4. MvInv'
    BY <2>1 DEF MvInv, Fixed, Procs, MovesOne, MvProc, OnlyMoved, Missing, Goal
  <2> QED BY <2>2, <2>3, <2>4
<1> QED BY <1>1, <1>2

(* Nothing is removed through a symbolic link that readlink did not fail   *)
(* on, whatever the trees, the operands and the system calls that fail:    *)
(* however many rm run, they remove only entries beneath their operands;   *)
(* an mv of one operand only what is beneath it and, where it takes back   *)
(* its copy, what is beneath the destination; and cp removes nothing.      *)
(* Where readlink does fail on a link, rm and mv also remove what is       *)
(* beneath the directory it leads to, and nothing else.                    *)
THEOREM RemovesOnlyOperands == Spec => [](Removing \/ MovesOne \/ CopiesOnly => LinksNotFollowed)
<1>1. Init => RmInv /\ CpInv /\ MvInv
  BY RmInit, CpInit, MvInit
<1>2. RmInv /\ CpInv /\ MvInv /\ [Next]_vars => (RmInv /\ CpInv /\ MvInv)'
  BY SpecKeeps
<1>3. RmInv /\ CpInv /\ MvInv => (Removing \/ MovesOne \/ CopiesOnly => LinksNotFollowed)
  BY RmImplies, CpImplies, MvImplies
<1> QED BY <1>1, <1>2, <1>3, PTL DEF Spec

(* When rm exits with 0 its operands are gone, with all that was beneath   *)
(* them, whatever system calls failed on the way and whatever other rm run *)
(* at the same time: but for an operand that is a link to nothing, on      *)
(* which readlink failed and which rm -f then takes for missing.           *)
THEOREM RmSuccessIsReal == Spec => [](Removing => SuccessIsReal)
<1>1. Init => RmInv
  BY RmInit
<1>2. RmInv /\ [Next]_vars => RmInv'
  <2>1. CASE UNCHANGED vars
    <3>1. job' = job /\ fs' = fs /\ fs0' = fs0 /\ proc' = proc
      BY <2>1 DEF vars
    <3> QED BY <3>1 DEF RmInv, Fixed, Procs, Removing, OnlyOperands, Operands, RmProc, Overlooked
  <2> QED BY <2>1, RmStep DEF Next
<1>3. RmInv => (Removing => SuccessIsReal)
  BY RmImplies
<1> QED BY <1>1, <1>2, <1>3, PTL DEF Spec
=============================================================================
