----------------------------- MODULE TlsfProofs -----------------------------
(***************************************************************************)
(* The inductive invariant of the allocator, the theorems that follow from *)
(* it and the refinement of HeapSpec.                                      *)
(*                                                                         *)
(* First the size classes and the two-level index of malloc.c: the mapping *)
(* functions return classes, and tlsf_free_insert, tlsf_free_remove and    *)
(* tlsf_find keep and use well-linked lists.  Then the block headers:      *)
(* cutting, merging and marking blocks keeps the boundary tags right, and  *)
(* tlsf_split leaves a sound heap.  The lemmas after that take the         *)
(* functions of malloc.c one by one: what tlsf_free_block does between its *)
(* steps, the regions and their cache, tlsf_grow and malloc; the steps of  *)
(* the specification come last.                                            *)
(***************************************************************************)
EXTENDS Tlsf, NatFacts, NaturalsInduction, WellFoundedInduction, FiniteSetTheorems, TLAPS

-----------------------------------------------------------------------------
(* Size classes *)

(* A set of naturals that is not empty has a least element.                *)
LEMMA MinExists ==
  ASSUME NEW S, S \subseteq Nat, S # {}
  PROVE  \E x \in S : \A y \in S : x <= y
<1>1. PICK x \in S : \A y \in S : ~(<<y, x>> \in OpToRel(<, Nat))
  BY NatLessThanWellFounded, WFMin, Zenon
<1>2. \A y \in S : x <= y
  <2> TAKE y \in S
  <2>1. ~(y < x) BY <1>1, Zenon DEF OpToRel
  <2> QED BY <2>1, SMT
<1> QED BY <1>2

(* A power of two, under a name the arithmetic of the provers leaves alone. *)
Pow(i) == 2^i

(* The powers of two the size classes use are positive naturals.           *)
LEMMA PowType == \A i \in 0..(FLMax + 3) : Pow(i) \in Nat /\ Pow(i) >= 1
<1> DEFINE B == {j \in 0..(FLMax + 3) : ~(Pow(j) \in Nat /\ Pow(j) >= 1)}
<1>1. ASSUME B # {} PROVE FALSE
  <2>1. PICK m \in B : \A y \in B : m <= y
    <3>1. B \subseteq Nat OBVIOUS
    <3> HIDE DEF B
    <3> QED BY <1>1, <3>1, MinExists
  <2>2. CASE m = 0
    BY <2>1, <2>2, PowerAssumption DEF Pow
  <2>3. CASE m # 0
    <3>1. m - 1 \in 0..(FLMax + 2) /\ (m - 1) + 1 = m /\ m - 1 \notin B
      BY <2>1, <2>3, TlsfAssumption
    <3>2. Pow(m - 1) >= 1 /\ Pow(m-1) \in Nat BY <3>1, TlsfAssumption
    <3>3. Pow(m) = 2 * Pow(m - 1)
      BY <3>1, PowerAssumption DEF Pow
    <3> QED BY <3>2, <3>3, <2>1
  <2> QED BY <2>2, <2>3
<1> QED BY <1>1

(* The powers of two grow with their exponents.                            *)
LEMMA PowMono ==
  ASSUME NEW i \in 0..(FLMax+3), NEW j \in 0..(FLMax+3), i <= j
  PROVE  Pow(i) <= Pow(j)
<1> DEFINE B == {k \in i..(FLMax + 3) : Pow(k) < Pow(i)}
<1>1. ASSUME B # {} PROVE FALSE
  <2>1. PICK m \in B : \A y \in B : m <= y
    <3>1. B \subseteq Nat BY TlsfAssumption
    <3> HIDE DEF B
    <3> QED BY <1>1, <3>1, MinExists
  <2>2. m # i BY <2>1, PowType
  <2>3. m - 1 \in 0..(FLMax + 2) /\ (m - 1) + 1 = m /\ m - 1 \notin B /\ m-1 \in i..(FLMax + 3)
      BY <2>1, <2>2, TlsfAssumption
  <2>4. Pow(m - 1) >= Pow(i) /\ Pow(m-1) \in Nat /\ Pow(m) \in Nat /\ Pow(i) \in Nat BY <2>3, PowType, TlsfAssumption
  <2>5. Pow(m) = 2 * Pow(m - 1)
      BY <2>3, PowerAssumption DEF Pow
  <2> QED BY <2>4, <2>5, <2>1
<1> QED BY <1>1, PowType, TlsfAssumption

(* What the macros TLSF_SL_COUNT and TLSF_MAX_BLOCK_SIZE stand for.        *)
LEMMA Constants ==
  /\ SLCount \in Nat /\ SLCount >= 1 /\ SLCount = Pow(SLLog2)
  /\ MaxBlock \in Nat /\ MaxBlock = Pow(FLMax + 1)
  /\ Pow(FLMax + 2) = 2 * MaxBlock /\ Pow(FLMax + 3) = 4 * MaxBlock
  /\ MinBlock \in Nat /\ MinBlock >= 2
<1>1. FLMax + 1 \in 0..(FLMax + 2) /\ FLMax + 2 \in 0..(FLMax + 2) BY TlsfAssumption
<1>2. Pow((FLMax + 1) + 1) = 2 * Pow(FLMax + 1) /\ Pow((FLMax + 2) + 1) = 2 * Pow(FLMax + 2)
  BY <1>1, PowerAssumption DEF Pow
<1>3. (FLMax + 1) + 1 = FLMax + 2 /\ (FLMax + 2) + 1 = FLMax + 3 BY TlsfAssumption
<1> QED BY <1>2, <1>3, PowType, TlsfAssumption DEF Pow, SLCount, MaxBlock

(* tlsf_fls returns the position of the highest one bit.                   *)
LEMMA HighestBit ==
  ASSUME NEW size \in Nat, 1 <= size, size < 4 * MaxBlock
  PROVE  /\ tlsf_fls(size) \in 0..(FLMax + 2)
         /\ Pow(tlsf_fls(size)) <= size /\ size < Pow(tlsf_fls(size) + 1)
<1> DEFINE B == {j \in 0..(FLMax + 2) : size < Pow(j + 1)}
<1>1. B \subseteq Nat /\ FLMax + 2 \in B
  <2>1. (FLMax + 2) + 1 = FLMax + 3 BY TlsfAssumption
  <2> QED BY <2>1, Constants, TlsfAssumption
<1>2. PICK m \in B : \A y \in B : m <= y
  <2> HIDE DEF B
  <2> QED BY <1>1, MinExists
<1>3. Pow(m) <= size
  <2>1. CASE m = 0 BY <2>1, PowerAssumption DEF Pow
  <2>2. CASE m # 0
    <3>1. m - 1 \in 0..(FLMax + 2) /\ m - 1 \notin B /\ (m - 1) + 1 = m
      BY <2>2, <1>2, TlsfAssumption
    <3>2. Pow(m) \in Nat BY <1>2, PowType, TlsfAssumption
    <3> QED BY <3>1, <3>2
  <2> QED BY <2>1, <2>2
<1> QED BY <1>2, <1>3 DEF tlsf_fls, Pow

(* The first-level index of a class a block can have.                      *)
ClassLevel(c) == c[1] = 0 \/ SLLog2 <= c[1]

(* tlsf_mapping_insert returns a class, or fails, and never fails for a    *)
(* size below the largest block.                                           *)
LEMMA InsertRange ==
  ASSUME NEW size \in Nat, 1 <= size, size < 4 * MaxBlock
  PROVE  /\ tlsf_mapping_insert(size) \in Classes \cup {NoClass}
         /\ tlsf_mapping_insert(size) # NoClass => ClassLevel(tlsf_mapping_insert(size))
         /\ size < MaxBlock => tlsf_mapping_insert(size) \in Classes
<1>1. CASE size < SLCount
  <2>1. size \div Align \in Nat /\ size \div Align <= size
    BY TlsfAssumption
  <2> QED BY Constants, <1>1, <2>1, TlsfAssumption DEF tlsf_mapping_insert, Classes, NoClass, ClassLevel
<1>2. CASE size >= SLCount
  <2> DEFINE f == tlsf_fls(size)
  <2>1. f \in 0..(FLMax + 2) /\ Pow(f) <= size /\ size < Pow(f + 1)
    BY HighestBit
  <2> HIDE DEF f
  <2>2. Pow(f) \in Nat /\ Pow(f + 1) \in Nat BY <2>1, PowType, TlsfAssumption
  <2>3. ASSUME size < MaxBlock PROVE f <= FLMax
    <3>1. SUFFICES ASSUME FLMax + 1 <= f PROVE FALSE BY <2>1, TlsfAssumption
    <3>2. Pow(FLMax + 1) <= Pow(f) BY <3>1, <2>1, PowMono, TlsfAssumption
    <3> QED BY Constants, <2>1, <2>2, <2>3, <3>2
  <2>4. SLLog2 <= f
    <3>1. SUFFICES ASSUME f + 1 <= SLLog2 PROVE FALSE BY <2>1, TlsfAssumption
    <3>2. Pow(f + 1) <= Pow(SLLog2) BY <3>1, <2>1, PowMono, TlsfAssumption
    <3> QED BY Constants, <1>2, <2>1, <2>2, <3>2
  <2>5. Pow(f - SLLog2) \in Nat /\ Pow(f - SLLog2) >= 1
    BY <2>1, <2>4, PowType, TlsfAssumption
  <2> DEFINE q == size \div Pow(f - SLLog2)
  <2>6. q \in Nat BY <2>5
  <2> HIDE DEF q
  <2>7. q % SLCount \in 0..(SLCount - 1) BY Constants, <2>6
  <2>8. tlsf_mapping_insert(size) = IF f > FLMax THEN NoClass ELSE <<f, q % SLCount>>
    BY Constants, <1>2, <2>1 DEF tlsf_mapping_insert, q, f, Pow
  <2> QED BY <2>1, <2>3, <2>4, <2>7, <2>8, TlsfAssumption DEF Classes, ClassLevel
<1> QED BY Constants, <1>1, <1>2

(* The failure of the mapping functions is no class.                       *)
LEMMA NoClassOut == NoClass \notin Classes
BY TlsfAssumption DEF NoClass, Classes

(* tlsf_mapping_search returns a class or fails.                           *)
LEMMA SearchRange ==
  ASSUME NEW size \in Nat, 1 <= size, size < MaxBlock
  PROVE  /\ tlsf_mapping_search(size) \in Classes \cup {NoClass}
         /\ tlsf_mapping_search(size) # NoClass => ClassLevel(tlsf_mapping_search(size))
<1>0. size < 4 * MaxBlock BY Constants
<1>1. CASE size < SLCount
  BY <1>0, <1>1, InsertRange DEF tlsf_mapping_search
<1>2. CASE ~(size < SLCount)
  <2> DEFINE f == tlsf_fls(size)
             round == 2^(f - SLLog2) - 1
  <2>1. f \in 0..(FLMax + 2) /\ Pow(f) <= size /\ size < Pow(f + 1)
    BY <1>0, HighestBit
  <2>2. SLLog2 <= f
    <3>1. SUFFICES ASSUME f + 1 <= SLLog2 PROVE FALSE BY <2>1, TlsfAssumption
    <3>2. Pow(f + 1) <= Pow(SLLog2) BY <3>1, <2>1, PowMono, TlsfAssumption
    <3>3. Pow(f + 1) \in Nat BY <2>1, PowType, TlsfAssumption
    <3> QED BY Constants, <1>2, <2>1, <3>2, <3>3
  <2>3. Pow(f - SLLog2) \in Nat /\ Pow(f - SLLog2) >= 1 /\ Pow(f - SLLog2) <= Pow(f) /\ Pow(f) \in Nat
    BY <2>1, <2>2, PowType, PowMono, TlsfAssumption
  <2>4. round \in Nat /\ round <= size BY <2>1, <2>3 DEF Pow
  <2> HIDE DEF round
  <2>5. size + round \in Nat /\ 1 <= size + round /\ size + round < 4 * MaxBlock
    BY <2>4, Constants
  <2>6. /\ tlsf_mapping_insert(size + round) \in Classes \cup {NoClass}
        /\ tlsf_mapping_insert(size + round) # NoClass => ClassLevel(tlsf_mapping_insert(size + round))
    BY <2>5, InsertRange
  <2> QED BY <1>2, <2>6 DEF tlsf_mapping_search, round
<1> QED BY <1>1, <1>2

(* What integer division leaves.                                           *)
LEMMA DivBounds ==
  ASSUME NEW z \in Nat, NEW u \in Nat, u >= 1
  PROVE  /\ z \div u \in Nat
         /\ (z \div u) * u <= z /\ z < (z \div u) * u + u
<1>1. u \in Nat \ {0} OBVIOUS
<1>2. z \div u \in Nat BY <1>1
<1>3. u * (z \div u) <= z /\ z < u * (z \div u) + u
  <2>1. u * (z \div u) <= z BY <1>1
  <2>2. z < u * (z \div u) + u BY <1>1
  <2> QED BY <2>1, <2>2
<1>4. \A q \in Nat : u * q = q * u OBVIOUS
<1> QED BY <1>2, <1>3, <1>4

(* Products keep an order.                                                 *)
LEMMA TimesMono ==
  ASSUME NEW a \in Nat, NEW b \in Nat, NEW u \in Nat, a <= b
  PROVE  a * u \in Nat /\ b * u \in Nat /\ a * u <= b * u
<1>1. PICK d \in Nat : b = a + d
  <2>1. b - a \in Nat /\ b = a + (b - a) OBVIOUS
  <2> QED BY <2>1
<1>2. b * u = a * u + d * u BY <1>1
<1>3. a * u \in Nat /\ d * u \in Nat OBVIOUS
<1> HIDE <1>1
<1> QED BY <1>2, <1>3

(* A quotient lies between n and 2n: its remainder modulo n.                *)
LEMMA ModTop ==
  ASSUME NEW n \in Nat, NEW q \in Nat, n >= 1, n <= q, q < 2 * n
  PROVE  q % n = q - n
OBVIOUS

(* An exponent that is a sum makes a product.                              *)
LEMMA PowSplit ==
  ASSUME NEW k \in 0..(FLMax + 2), SLLog2 + k <= FLMax + 2
  PROVE  Pow(SLLog2 + k) = SLCount * Pow(k)
<1> DEFINE B == {j \in 0..(FLMax + 2) : SLLog2 + j <= FLMax + 2 /\ Pow(SLLog2 + j) # SLCount * Pow(j)}
<1>0. SLLog2 \in Nat /\ FLMax \in Nat BY TlsfAssumption
<1>1. ASSUME B # {} PROVE FALSE
  <2>1. PICK m \in B : \A y \in B : m <= y
    <3>1. B \subseteq Nat OBVIOUS
    <3> HIDE DEF B
    <3> QED BY <1>1, <3>1, MinExists
  <2>2. CASE m = 0
    <3>1. Pow(0) = 1 BY PowerAssumption DEF Pow
    <3>2. SLLog2 + 0 = SLLog2 BY <1>0
    <3>3. SLCount * 1 = SLCount BY Constants
    <3> QED BY <2>1, <2>2, <3>1, <3>2, <3>3, Constants
  <2>3. CASE m # 0
    <3>1. m - 1 \in 0..(FLMax + 2) /\ SLLog2 + (m - 1) <= FLMax + 2 /\ SLLog2 + (m - 1) \in 0..(FLMax + 2)
          /\ (SLLog2 + (m - 1)) + 1 = SLLog2 + m /\ (m - 1) + 1 = m /\ ~(m <= m - 1)
      BY <2>1, <2>3, <1>0
    <3>2. Pow(SLLog2 + (m - 1)) = SLCount * Pow(m - 1) BY <3>1, <2>1
    <3>3. Pow(SLLog2 + m) = 2 * Pow(SLLog2 + (m - 1)) /\ Pow(m) = 2 * Pow(m - 1)
      BY <3>1, PowerAssumption DEF Pow
    <3>4. Pow(m - 1) \in Nat /\ SLCount \in Nat BY <3>1, PowType, Constants, <1>0
    <3>5. \A a, b \in Nat : 2 * (a * b) = a * (2 * b) OBVIOUS
    <3>6. Pow(SLLog2 + m) = SLCount * Pow(m) BY <3>2, <3>3, <3>4, <3>5
    <3> QED BY <3>6, <2>1
  <2> QED BY <2>2, <2>3
<1> QED BY <1>1

(* A size below TLSF_SL_COUNT has a class of the first level 0, and        *)
(* tlsf_mapping_search does not round it.                                  *)
LEMMA SmallClass ==
  ASSUME NEW size \in Nat, size < SLCount, NEW c, c = tlsf_mapping_insert(size)
  PROVE  /\ c = <<0, size \div Align>> /\ c[1] = 0 /\ c[2] = size \div Align
         /\ tlsf_mapping_search(size) = c
         /\ tlsf_class_min(c) = (size \div Align) * Align
<1>1. Align \in Nat /\ Align >= 1 BY TlsfAssumption
<1>2. size \div Align \in Nat /\ size \div Align <= size BY <1>1, TlsfAssumption
<1>3. size \div Align < SLCount
  <2> DEFINE q == size \div Align
  <2>1. q \in Nat /\ q <= size BY <1>2
  <2> HIDE DEF q
  <2>2. q < SLCount BY <2>1, Constants
  <2> QED BY <2>2 DEF q
<1>4. c = <<0, size \div Align>> BY <1>3 DEF tlsf_mapping_insert
<1> QED BY <1>4 DEF tlsf_mapping_search, tlsf_class_min

(* A class at f whose blocks start at q units of u bytes.                  *)
LargeClass(size, f, u, q) ==
  /\ f \in 1..(FLMax + 2) /\ SLLog2 <= f /\ f + 1 \in 0..(FLMax + 3) /\ f \in 0..(FLMax + 3)
  /\ u = Pow(f - SLLog2) /\ u \in Nat /\ u >= 1
  /\ Pow(f) = SLCount * u /\ Pow(f) \in Nat /\ Pow(f + 1) \in Nat
  /\ Pow(f) <= size /\ size < Pow(f + 1)
  /\ q \in Nat /\ SLCount <= q /\ q * u \in Nat /\ q * u <= size /\ size < q * u + u
  /\ Pow(f) <= q * u
  /\ tlsf_mapping_insert(size) = IF f > FLMax THEN NoClass ELSE <<f, q - SLCount>>
  /\ tlsf_class_min(<<f, q - SLCount>>) = q * u

(* The class of a size from TLSF_SL_COUNT on, and the least size in it.    *)
LEMMA LargeSize ==
  ASSUME NEW size \in Nat, 2 <= size, SLCount <= size, size < 4 * MaxBlock,
         NEW f, f = tlsf_fls(size), NEW u, u = Pow(f - SLLog2), NEW q, q = size \div u
  PROVE  LargeClass(size, f, u, q)
<1>0. SLLog2 \in Nat /\ FLMax \in Nat /\ SLLog2 <= FLMax BY TlsfAssumption
<1>1. f \in 0..(FLMax + 2) /\ Pow(f) <= size /\ size < Pow(f + 1) BY HighestBit
<1>2. Pow(f) \in Nat /\ Pow(f + 1) \in Nat /\ f \in 0..(FLMax + 3) /\ f + 1 \in 0..(FLMax + 3) BY <1>0, <1>1, PowType
<1>3. SLLog2 <= f
  <2>1. SUFFICES ASSUME f + 1 <= SLLog2 PROVE FALSE BY <1>0, <1>1
  <2>2. Pow(f + 1) <= Pow(SLLog2) BY <2>1, <1>0, <1>1, PowMono
  <2> QED BY Constants, <1>1, <1>2, <2>2
<1>4. Pow(f + 1) = 2 * Pow(f) BY <1>1, PowerAssumption DEF Pow
<1>5. f # 0
  <2>1. Pow(0) = 1 BY PowerAssumption DEF Pow
  <2> QED BY <2>1, <1>1, <1>4
<1>6. f - SLLog2 \in 0..(FLMax + 2) /\ SLLog2 + (f - SLLog2) = f /\ f - SLLog2 \in 0..(FLMax + 3)
  BY <1>0, <1>1, <1>3
<1>7. u \in Nat /\ u >= 1 BY <1>6, PowType
<1>8. Pow(f) = SLCount * u
  <2> DEFINE k == f - SLLog2
  <2>1. k \in 0..(FLMax + 2) /\ SLLog2 + k = f /\ f <= FLMax + 2 BY <1>0, <1>1, <1>6
  <2> HIDE DEF k
  <2>2. Pow(SLLog2 + k) = SLCount * Pow(k) BY <2>1, PowSplit
  <2> QED BY <2>1, <2>2 DEF k
<1>9. q \in Nat /\ q * u <= size /\ size < q * u + u BY <1>7, DivBounds
<1>10. q * u \in Nat /\ SLCount \in Nat /\ SLCount >= 1 BY <1>7, <1>9, Constants
<1>11. SLCount <= q
  <2>1. SUFFICES ASSUME q + 1 <= SLCount PROVE FALSE BY <1>9, <1>10
  <2>2. (q + 1) * u <= SLCount * u BY <2>1, <1>7, <1>9, <1>10, TimesMono
  <2>3. (q + 1) * u = q * u + u BY <1>7, <1>9
  <2> QED BY ONLY <2>2, <2>3, <1>1, <1>2, <1>8, <1>9, <1>10, <1>7
<1>12. q < 2 * SLCount
  <2>1. SUFFICES ASSUME 2 * SLCount <= q PROVE FALSE BY <1>9, <1>10
  <2>2. (2 * SLCount) * u <= q * u BY <2>1, <1>7, <1>9, <1>10, TimesMono
  <2>3. (2 * SLCount) * u = 2 * (SLCount * u) BY <1>7, <1>10
  <2>4. Pow(f) \in Nat BY <1>2
  <2> QED BY ONLY <2>2, <2>3, <2>4, <1>1, <1>4, <1>8, <1>9, <1>10, <1>7
<1>13. q % SLCount = q - SLCount BY <1>9, <1>10, <1>11, <1>12, ModTop
<1>14. Pow(f) <= q * u
  <2>1. SLCount * u <= q * u BY <1>7, <1>9, <1>10, <1>11, TimesMono
  <2> QED BY <2>1, <1>8
<1>15. tlsf_mapping_insert(size) = IF f > FLMax THEN NoClass ELSE <<f, q - SLCount>>
  BY <1>10, <1>13, Constants DEF tlsf_mapping_insert, Pow
<1>16. tlsf_class_min(<<f, q - SLCount>>) = q * u
  <2>1. tlsf_class_min(<<f, q - SLCount>>) = Pow(f) + (q - SLCount) * u
    BY <1>5 DEF tlsf_class_min, Pow
  <2>2. \A a, b, c \in Nat : b <= a => b * c + (a - b) * c = a * c OBVIOUS
  <2>3. SLCount * u + (q - SLCount) * u = q * u BY <2>2, <1>7, <1>9, <1>10, <1>11
  <2> QED BY <2>1, <2>3, <1>8
<1>17. f \in 1..(FLMax + 2) BY <1>0, <1>1, <1>5
<1> QED BY <1>1, <1>2, <1>3, <1>7, <1>8, <1>9, <1>10, <1>11, <1>14, <1>15, <1>16, <1>17 DEF LargeClass

(* A size below a power of two has its highest bit below it too.           *)
LEMMA FlsBelow ==
  ASSUME NEW f \in 0..(FLMax + 2), NEW g \in 0..(FLMax + 2), Pow(f) < Pow(g + 1)
  PROVE  f <= g
<1>0. FLMax \in Nat BY TlsfAssumption
<1>1. SUFFICES ASSUME g + 1 <= f PROVE FALSE BY <1>0
<1>2. g + 1 \in 0..(FLMax + 3) /\ f \in 0..(FLMax + 3) BY <1>0
<1>3. Pow(g + 1) <= Pow(f) /\ Pow(f) \in Nat /\ Pow(g + 1) \in Nat BY <1>1, <1>2, PowMono, PowType
<1> QED BY <1>3

(* Class d is class c or one tlsf_find looks at after c.                   *)
Reaches(c, d) == c[1] < d[1] \/ (c[1] = d[1] /\ c[2] <= d[2])

(* What tlsf_mapping_search makes of a large size.                         *)
SearchedLarge(need, c, rounded, f, u, q) ==
  /\ rounded \in Nat /\ need <= rounded /\ rounded < 4 * MaxBlock
  /\ LargeClass(rounded, f, u, q)
  /\ f <= FLMax /\ c = <<f, q - SLCount>> /\ need <= q * u

(* tlsf_mapping_search rounds a large size up: no block of the class it    *)
(* returns is smaller than the size.                                       *)
LEMMA SearchLarge ==
  ASSUME NEW need \in Nat, 2 <= need, SLCount <= need, need < MaxBlock,
         NEW c, c = tlsf_mapping_search(need), c # NoClass
  PROVE  \E rounded, f, u, q : SearchedLarge(need, c, rounded, f, u, q)
<1>0. need < 4 * MaxBlock /\ FLMax \in Nat BY Constants, TlsfAssumption
<1>1. PICK g, v, p : g = tlsf_fls(need) /\ v = Pow(g - SLLog2) /\ p = need \div v OBVIOUS
<1>2. LargeClass(need, g, v, p) BY <1>0, <1>1, LargeSize
<1>3. /\ g \in 1..(FLMax + 2) /\ g \in 0..(FLMax + 3) /\ g + 1 \in 0..(FLMax + 3)
      /\ v \in Nat /\ v >= 1 /\ Pow(g) = SLCount * v /\ Pow(g) \in Nat /\ Pow(g + 1) \in Nat
      /\ Pow(g) <= need /\ need < Pow(g + 1)
  BY <1>2 DEF LargeClass
<1>4. v <= Pow(g)
  <2>1. 1 * v <= SLCount * v BY <1>3, Constants, TimesMono
  <2>2. 1 * v = v BY <1>3
  <2> QED BY <2>1, <2>2, <1>3
<1>5. PICK rounded : rounded = need + (v - 1) OBVIOUS
<1>6. c = tlsf_mapping_insert(rounded)
  BY <1>1, <1>3, <1>5, Constants DEF tlsf_mapping_search, Pow
<1>7. rounded \in Nat /\ need <= rounded /\ rounded < 4 * MaxBlock /\ SLCount <= rounded /\ 2 <= rounded
  BY <1>0, <1>3, <1>4, <1>5, Constants
<1>8. PICK f, u, q : f = tlsf_fls(rounded) /\ u = Pow(f - SLLog2) /\ q = rounded \div u OBVIOUS
<1>9. LargeClass(rounded, f, u, q) BY <1>7, <1>8, LargeSize
<1>10. /\ f \in 1..(FLMax + 2) /\ f \in 0..(FLMax + 3) /\ u \in Nat /\ Pow(f) \in Nat /\ Pow(f + 1) \in Nat
       /\ rounded < Pow(f + 1) /\ q * u \in Nat /\ rounded < q * u + u /\ Pow(f) <= q * u
       /\ c = IF f > FLMax THEN NoClass ELSE <<f, q - SLCount>>
  BY <1>9, <1>6 DEF LargeClass
<1>11. f <= FLMax /\ c = <<f, q - SLCount>> BY <1>0, <1>10
<1>12. g <= f
  <2>1. Pow(g) < Pow(f + 1) BY <1>3, <1>7, <1>10
  <2>2. f \in 0..(FLMax + 2) /\ g \in 0..(FLMax + 2) BY <1>0, <1>3, <1>10
  <2> QED BY <2>1, <2>2, FlsBelow
<1>13. need <= q * u
  <2>1. CASE f = g
    <3>1. u = v BY <2>1, <1>1, <1>8
    <3> QED BY <3>1, <1>3, <1>5, <1>10
  <2>2. CASE f # g
    <3>1. g + 1 <= f BY <2>2, <1>0, <1>3, <1>10, <1>12
    <3>2. Pow(g + 1) <= Pow(f) BY <3>1, <1>3, <1>10, PowMono
    <3> QED BY <3>2, <1>3, <1>10
  <2> QED BY <2>1, <2>2
<1> QED BY <1>7, <1>9, <1>11, <1>13 DEF SearchedLarge

(* The classes tlsf_find looks at hold exactly the blocks that are at      *)
(* least as large as the class it starts from, and that class is large     *)
(* enough.                                                                 *)
LEMMA GoodFit ==
  ASSUME NEW need \in Nat, 2 <= need, need < MaxBlock, need % Align = 0,
         NEW c, c = tlsf_mapping_search(need), c # NoClass,
         NEW size \in Nat, 2 <= size, size < MaxBlock, NEW d, d = tlsf_mapping_insert(size)
  PROVE  /\ need <= tlsf_class_min(c)
         /\ Reaches(c, d) <=> tlsf_class_min(c) <= size
<1>0. size < 4 * MaxBlock /\ SLCount \in Nat /\ SLCount >= 1 /\ FLMax \in Nat /\ Align \in Nat /\ Align >= 1
  BY Constants, TlsfAssumption
<1>d. ASSUME SLCount <= size
      PROVE  \E f, u, q : LargeClass(size, f, u, q) /\ f <= FLMax /\ d = <<f, q - SLCount>>
  <2>1. PICK f, u, q : f = tlsf_fls(size) /\ u = Pow(f - SLLog2) /\ q = size \div u OBVIOUS
  <2>2. LargeClass(size, f, u, q) BY <1>0, <1>d, <2>1, LargeSize
  <2>3. d # NoClass BY <1>0, InsertRange, NoClassOut
  <2>4. f \in 1..(FLMax + 2) /\ d = IF f > FLMax THEN NoClass ELSE <<f, q - SLCount>>
    BY <2>2 DEF LargeClass
  <2>5. f <= FLMax /\ d = <<f, q - SLCount>> BY <2>3, <2>4, <1>0
  <2> QED BY <2>2, <2>5
<1>1. CASE need < SLCount
  <2> DEFINE s == need \div Align
             t == size \div Align
  <2>1. c[1] = 0 /\ c[2] = s /\ tlsf_class_min(c) = s * Align BY <1>1, SmallClass
  <2>2. s \in Nat /\ t \in Nat /\ t * Align <= size /\ size < t * Align + Align
        /\ s * Align <= need /\ need < s * Align + Align
    BY <1>0, DivBounds
  <2>3. s * Align = need
    BY <1>0, TlsfAssumption
  <2> HIDE DEF s, t
  <2>4. CASE size < SLCount
    <3>1. d[1] = 0 /\ d[2] = t BY <2>4, SmallClass DEF t
    <3>2. Reaches(c, d) <=> s <= t BY <2>1, <2>2, <3>1 DEF Reaches
    <3>3. ASSUME s <= t PROVE s * Align <= size
      <4>1. s * Align \in Nat /\ t * Align \in Nat /\ s * Align <= t * Align BY <2>2, <3>3, <1>0, TimesMono
      <4> QED BY <4>1, <2>2
    <3>4. ASSUME t + 1 <= s PROVE size < s * Align
      <4>1. s * Align \in Nat /\ (t + 1) * Align <= s * Align BY <2>2, <3>4, <1>0, TimesMono
      <4>2. (t + 1) * Align = t * Align + Align /\ t * Align \in Nat BY <2>2, <1>0
      <4> QED BY <4>1, <4>2, <2>2, <1>0
    <3>5. s * Align \in Nat BY <2>3
    <3> QED BY <2>1, <2>2, <2>3, <3>2, <3>3, <3>4, <3>5
  <2>5. CASE SLCount <= size
    <3>1. PICK f, u, q : LargeClass(size, f, u, q) /\ d = <<f, q - SLCount>> BY <2>5, <1>d
    <3>2. f \in 1..(FLMax + 2) BY <3>1 DEF LargeClass
    <3>3. c[1] < d[1] BY <3>1, <3>2, <2>1
    <3> QED BY <3>3, <2>1, <2>3, <2>5, <1>0, <1>1 DEF Reaches
  <2> QED BY <1>0, <2>4, <2>5
<1>2. CASE SLCount <= need
  <2>1. PICK rounded, f, u, q : SearchedLarge(need, c, rounded, f, u, q) BY <1>2, SearchLarge
  <2>2. /\ rounded \in Nat /\ need <= q * u /\ f <= FLMax /\ c = <<f, q - SLCount>>
        /\ f \in 1..(FLMax + 2) /\ f \in 0..(FLMax + 3) /\ f + 1 \in 0..(FLMax + 3)
        /\ u = Pow(f - SLLog2) /\ u \in Nat /\ u >= 1 /\ q \in Nat /\ SLCount <= q /\ q * u \in Nat
        /\ Pow(f) \in Nat /\ Pow(f + 1) \in Nat /\ Pow(f) <= q * u /\ q * u <= rounded /\ rounded < Pow(f + 1)
        /\ tlsf_class_min(c) = q * u
    BY <2>1 DEF SearchedLarge, LargeClass
  <2>3. CASE size < SLCount
    <3>1. d[1] = 0 BY <2>3, SmallClass
    <3>2. ~Reaches(c, d) BY <3>1, <2>2, <1>0 DEF Reaches
    <3> QED BY <3>2, <2>2, <2>3, <1>0, <1>2
  <2>4. CASE SLCount <= size
    <3>1. PICK g, v, p : LargeClass(size, g, v, p) /\ g <= FLMax /\ d = <<g, p - SLCount>> BY <2>4, <1>d
    <3>2. /\ g \in 1..(FLMax + 2) /\ g \in 0..(FLMax + 3) /\ g + 1 \in 0..(FLMax + 3)
          /\ v = Pow(g - SLLog2) /\ v \in Nat /\ v >= 1 /\ p \in Nat /\ SLCount <= p /\ p * v \in Nat
          /\ Pow(g) \in Nat /\ Pow(g + 1) \in Nat /\ Pow(g) <= size /\ size < Pow(g + 1)
          /\ p * v <= size /\ size < p * v + v
      BY <3>1 DEF LargeClass
    <3>3. Reaches(c, d) <=> f < g \/ (f = g /\ q <= p)
      BY <3>1, <3>2, <2>2, <1>0 DEF Reaches
    <3>4. CASE f < g
      <4>1. Pow(f + 1) <= Pow(g) BY <3>4, <3>2, <2>2, PowMono
      <4> QED BY <4>1, <3>2, <3>3, <3>4, <2>2
    <3>5. CASE g < f
      <4>1. Pow(g + 1) <= Pow(f) BY <3>5, <3>2, <2>2, PowMono
      <4>2. ~Reaches(c, d) BY <3>3, <3>5, <3>2, <2>2
      <4> QED BY <4>1, <4>2, <3>2, <2>2
    <3>6. CASE f = g /\ q <= p
      <4>1. q * u <= p * u BY <3>6, <3>2, <2>2, TimesMono
      <4>2. u = v BY <3>6, <3>2, <2>2
      <4> QED BY <4>1, <4>2, <3>2, <3>3, <3>6, <2>2
    <3>7. CASE f = g /\ p + 1 <= q
      <4>1. (p + 1) * u <= q * u BY <3>7, <3>2, <2>2, TimesMono
      <4>2. u = v BY <3>7, <3>2, <2>2
      <4>3. (p + 1) * v = p * v + v BY <3>2
      <4>4. size < q * u BY <4>1, <4>2, <4>3, <3>2, <2>2
      <4>5. ~Reaches(c, d) BY <3>3, <3>7, <3>2, <2>2
      <4> QED BY <4>4, <4>5, <2>2
    <3> QED BY <3>2, <2>2, <3>4, <3>5, <3>6, <3>7
  <2> QED BY <1>0, <2>3, <2>4
<1> QED BY <1>0, <1>1, <1>2

-----------------------------------------------------------------------------
(* Free lists *)

(* h is a record with the fields of a heap.                                *)
IsHeap(h) ==
  h = [blk |-> h.blk, links |-> h.links, head |-> h.head, sl |-> h.sl, fl |-> h.fl,
       regions |-> h.regions, cache |-> h.cache, ccount |-> h.ccount, cbytes |-> h.cbytes]

(* g and h differ in the free lists alone.                                 *)
SameBlocks(g, h) ==
  g.blk = h.blk /\ g.regions = h.regions /\ g.cache = h.cache
  /\ g.ccount = h.ccount /\ g.cbytes = h.cbytes

(* The free lists hold the blocks of S, each with a class.                 *)
ListTypes(h, S) ==
  /\ h.links \in [S -> Link]
  /\ S \subseteq Nat \ {0}
  /\ \A b \in S : ClassOf(h, b) \in Classes /\ ClassOf(h, b) # NoClass
  /\ h.head \in [Classes -> Nat]
  /\ h.sl \in [0..FLMax -> SUBSET (0..SLCount-1)]
  /\ h.fl \subseteq 0..FLMax

(* next and prev links are inverse, and stay within a class.               *)
Chained(h, S) ==
  /\ \A b \in S : h.links[b].next # NULL =>
        /\ h.links[b].next \in S
        /\ h.links[h.links[b].next].prev = b
        /\ ClassOf(h, h.links[b].next) = ClassOf(h, b)
  /\ \A b \in S : h.links[b].prev # NULL =>
        /\ h.links[b].prev \in S
        /\ h.links[h.links[b].prev].next = b
        /\ ClassOf(h, h.links[b].prev) = ClassOf(h, b)

(* The blocks without a prev link are the heads of their lists.            *)
Headed(h, S) ==
  /\ \A b \in S : h.links[b].prev = NULL <=> h.head[ClassOf(h, b)] = b
  /\ \A c \in Classes : h.head[c] # NULL => h.head[c] \in S /\ ClassOf(h, h.head[c]) = c

(* The bitmaps tell which lists have a head.                               *)
Mapped(h) ==
  /\ \A c \in Classes : h.head[c] # NULL <=> c[2] \in h.sl[c[1]]
  /\ \A f \in 0..FLMax : f \in h.fl <=> h.sl[f] # {}

(* No list runs in a circle: some rank of the blocks falls along the next  *)
(* links.                                                                  *)
Ranked(h, S) ==
  \E rank \in [S -> Nat] :
    \A b \in S : h.links[b].next # NULL => rank[h.links[b].next] < rank[b]

(* The free lists of h hold exactly the blocks of S, well linked.          *)
Linked(h, S) ==
  ListTypes(h, S) /\ Chained(h, S) /\ Headed(h, S) /\ Mapped(h) /\ Ranked(h, S)

(* A class is a pair of a first-level and a second-level index.            *)
LEMMA ClassParts ==
  ASSUME NEW c \in Classes
  PROVE  c[1] \in 0..FLMax /\ c[2] \in 0..(SLCount - 1) /\ c = <<c[1], c[2]>>
BY DEF Classes

(* tlsf_free_insert adds a block to the free lists and keeps them well     *)
(* linked.                                                                 *)
LEMMA FreeInsert ==
  ASSUME NEW h, NEW S, NEW b \in Nat \ {0}, b \notin S, IsHeap(h), Linked(h, S),
         ClassOf(h, b) \in Classes, ClassOf(h, b) # NoClass
  PROVE  /\ IsHeap(tlsf_free_insert(h, b))
         /\ SameBlocks(tlsf_free_insert(h, b), h)
         /\ Linked(tlsf_free_insert(h, b), S \cup {b})
<1> DEFINE c == ClassOf(h, b)
           next == h.head[c]
           links == [a \in DOMAIN h.links \cup {b} |->
                         IF a = b THEN [next |-> next, prev |-> NULL]
                         ELSE IF a = next THEN [h.links[a] EXCEPT !.prev = b]
                         ELSE h.links[a]]
           head == [h.head EXCEPT ![c] = b]
           sl == [h.sl EXCEPT ![c[1]] = @ \cup {c[2]}]
           fl == h.fl \cup {c[1]}
           g == tlsf_free_insert(h, b)
<1>1. g = [blk |-> h.blk, links |-> links, head |-> head, sl |-> sl, fl |-> fl,
       regions |-> h.regions, cache |-> h.cache, ccount |-> h.ccount, cbytes |-> h.cbytes]
  BY DEF IsHeap, tlsf_free_insert
<1>2. IsHeap(g) /\ SameBlocks(g, h) BY <1>1 DEF IsHeap, SameBlocks
<1>3. /\ g.links = links /\ g.head = head /\ g.sl = sl /\ g.fl = fl /\ g.blk = h.blk
      /\ \A x : ClassOf(g, x) = ClassOf(h, x) 
  BY <1>1 DEF ClassOf
<1>4. DOMAIN h.links = S /\ next \in Nat /\ c \in Classes
  BY DEF Linked, ListTypes
<1>5. /\ links \in [S \cup {b} -> Link]
      /\ links[b].next = next /\ links[b].prev = NULL
      /\ \A a \in S : links[a].next = h.links[a].next
      /\ \A a \in S : links[a].prev = IF a = next THEN b ELSE h.links[a].prev
  BY <1>4 DEF Linked, ListTypes, Link, NULL
<1>6. /\ head \in [Classes -> Nat] /\ head[c] = b
      /\ \A d \in Classes : d # c => head[d] = h.head[d]
  BY <1>4 DEF Linked, ListTypes
<1>7. c[1] \in 0..FLMax /\ c[2] \in 0..(SLCount - 1) /\ c = <<c[1], c[2]>> BY <1>4, ClassParts
<1>8. /\ sl \in [0..FLMax -> SUBSET (0..SLCount-1)]
      /\ sl[c[1]] = h.sl[c[1]] \cup {c[2]}
      /\ \A f \in 0..FLMax : f # c[1] => sl[f] = h.sl[f]
  BY <1>7 DEF Linked, ListTypes
<1>9. next # NULL => next \in S /\ ClassOf(h, next) = c /\ h.links[next].prev = NULL
  BY <1>4 DEF Linked, Headed
<1> HIDE DEF links, head, sl, g, c, next
<1>10. ListTypes(g, S \cup {b})
  BY <1>3, <1>5, <1>6, <1>7, <1>8 DEF Linked, ListTypes, c
<1>11. Chained(g, S \cup {b})
  <2>0. \A a \in S : a # b BY DEF Linked
  <2>a. S \subseteq Nat \ {0} BY DEF Linked, ListTypes
  <2>1. \A a \in S : h.links[a].next # next \/ next = NULL
    BY <1>9, <2>a DEF Linked, Chained, NULL
  <2>2. ASSUME NEW a \in S \cup {b}, links[a].next # NULL
        PROVE  links[a].next \in S \cup {b} /\ links[links[a].next].prev = a
               /\ ClassOf(h, links[a].next) = ClassOf(h, a)
    <3>1. CASE a = b BY <3>1, <2>2, <1>5, <1>9 DEF c
    <3>2. CASE a \in S BY <3>2, <2>1, <2>2, <1>5, <1>9 DEF Linked, Chained
    <3> QED BY <3>1, <3>2
  <2>3. ASSUME NEW a \in S \cup {b}, links[a].prev # NULL
        PROVE  links[a].prev \in S \cup {b} /\ links[links[a].prev].next = a
               /\ ClassOf(h, links[a].prev) = ClassOf(h, a)
    <3>1. a \in S BY <2>3, <1>5
    <3>2. CASE a = next BY <3>1, <3>2, <2>3, <1>5, <1>9, <2>a DEF c, NULL
    <3>3. CASE a # next BY <3>1, <3>3, <2>3, <1>5, <1>9 DEF Linked, Chained
    <3> QED BY <3>2, <3>3
  <2> QED BY <2>2, <2>3, <1>3 DEF Chained
<1>12. Headed(g, S \cup {b})
  <2>0. S \subseteq Nat \ {0} /\ \A a \in S : ClassOf(h, a) \in Classes BY DEF Linked, ListTypes
  <2>1. ASSUME NEW a \in S \cup {b} PROVE links[a].prev = NULL <=> head[ClassOf(h, a)] = a
    <3>1. CASE a = b BY <3>1, <1>5, <1>6 DEF c
    <3>2. CASE a \in S /\ a = next 
      BY <3>2, <1>5, <1>6, <1>9, <2>0 DEF NULL
    <3>3. CASE a \in S /\ a # next
      BY <3>3, <1>5, <1>6, <1>9, <2>0 DEF Linked, Headed, next
    <3> QED BY <3>1, <3>2, <3>3
  <2>2. ASSUME NEW d \in Classes, head[d] # NULL
        PROVE  head[d] \in S \cup {b} /\ ClassOf(h, head[d]) = d
    BY <1>6, <2>2 DEF Linked, Headed, c
  <2> QED BY <2>1, <2>2, <1>3 DEF Headed
<1>13. Mapped(g)
  <2>1. ASSUME NEW d \in Classes PROVE head[d] # NULL <=> d[2] \in sl[d[1]]
    <3>1. d[1] \in 0..FLMax /\ d[2] \in 0..(SLCount - 1) /\ d = <<d[1], d[2]>> BY ClassParts
    <3>2. h.head[d] # NULL <=> d[2] \in h.sl[d[1]] BY DEF Linked, Mapped
    <3>3. CASE d = c BY <3>3, <1>6, <1>8 DEF NULL
    <3>4. CASE d # c
      <4>1. head[d] = h.head[d] BY <3>4, <1>6
      <4>2. d[2] \in sl[d[1]] <=> d[2] \in h.sl[d[1]] BY <3>1, <3>4, <1>7, <1>8
      <4> QED BY <4>1, <4>2, <3>2
    <3> QED BY <3>3, <3>4
  <2>2. ASSUME NEW f \in 0..FLMax PROVE f \in fl <=> sl[f] # {}
    BY <1>8 DEF Linked, Mapped
  <2> QED BY <2>1, <2>2, <1>3 DEF Mapped
<1>14. Ranked(g, S \cup {b})
  <2>1. PICK rank \in [S -> Nat] : \A a \in S : h.links[a].next # NULL => rank[h.links[a].next] < rank[a]
    BY DEF Linked, Ranked
  <2> DEFINE new == [a \in S \cup {b} |-> IF a # b THEN rank[a] ELSE IF next = NULL THEN 0 ELSE rank[next] + 1]
  <2>2. \A a \in S : a # b BY DEF Linked
  <2>3. new \in [S \cup {b} -> Nat]
    <3>1. \A a \in S : rank[a] \in Nat BY <2>1
    <3> QED BY <3>1, <1>9
  <2>4. ASSUME NEW a \in S \cup {b}, links[a].next # NULL PROVE new[links[a].next] < new[a]
    <3>1. CASE a = b
      <4>1. links[a].next = next /\ next # NULL /\ next \in S /\ rank[next] \in Nat BY <3>1, <2>4, <1>5, <1>9, <2>1
      <4>2. new[next] = rank[next] /\ new[a] = rank[next] + 1 BY <4>1, <3>1, <2>2
      <4> HIDE DEF new
      <4> QED BY <4>1, <4>2
    <3>2. CASE a # b
      <4>1. links[a].next = h.links[a].next /\ h.links[a].next \in S BY <3>2, <2>4, <1>5 DEF Linked, Chained
      <4> QED BY <4>1, <3>2, <2>1, <2>2, <2>4
    <3> QED BY <3>1, <3>2
  <2> HIDE DEF new
  <2> QED BY <2>3, <2>4, <1>3 DEF Ranked
<1> QED BY <1>2, <1>10, <1>11, <1>12, <1>13, <1>14 DEF Linked, g

(* tlsf_free_remove takes a block off the free lists and keeps them well   *)
(* linked.                                                                 *)
LEMMA FreeRemove ==
  ASSUME NEW h, NEW S, NEW b \in S, IsHeap(h), Linked(h, S)
  PROVE  /\ IsHeap(tlsf_free_remove(h, b))
         /\ SameBlocks(tlsf_free_remove(h, b), h)
         /\ Linked(tlsf_free_remove(h, b), S \ {b})
<1> DEFINE c == ClassOf(h, b)
           next == h.links[b].next
           prev == h.links[b].prev
           first == IF prev = NULL THEN next ELSE h.head[c]
           slc == IF first = NULL THEN h.sl[c[1]] \ {c[2]} ELSE h.sl[c[1]]
           links == [a \in DOMAIN h.links \ {b} |->
                         [next |-> IF a = prev THEN next ELSE h.links[a].next,
                          prev |-> IF a = next THEN prev ELSE h.links[a].prev]]
           head == [h.head EXCEPT ![c] = first]
           sl == [h.sl EXCEPT ![c[1]] = slc]
           fl == IF first = NULL /\ slc = {} THEN h.fl \ {c[1]} ELSE h.fl
           g == tlsf_free_remove(h, b)
<1>0. c # NoClass /\ c \in Classes /\ b \in Nat \ {0} BY DEF Linked, ListTypes
<1>1. g = [blk |-> h.blk, links |-> links, head |-> head, sl |-> sl, fl |-> fl,
       regions |-> h.regions, cache |-> h.cache, ccount |-> h.ccount, cbytes |-> h.cbytes]
  BY <1>0 DEF IsHeap, tlsf_free_remove
<1>2. IsHeap(g) /\ SameBlocks(g, h) BY <1>1 DEF IsHeap, SameBlocks
<1>3. /\ g.links = links /\ g.head = head /\ g.sl = sl /\ g.fl = fl /\ g.blk = h.blk
      /\ \A x : ClassOf(g, x) = ClassOf(h, x) 
  BY <1>1 DEF ClassOf
<1>4. DOMAIN h.links = S /\ next \in Nat /\ prev \in Nat /\ S \subseteq Nat \ {0}
  BY DEF Linked, ListTypes, Link
<1>5. /\ links \in [S \ {b} -> Link]
      /\ \A a \in S \ {b} : links[a].next = IF a = prev THEN next ELSE h.links[a].next
      /\ \A a \in S \ {b} : links[a].prev = IF a = next THEN prev ELSE h.links[a].prev
  BY <1>4 DEF Linked, ListTypes, Link, NULL
<1>6. /\ head \in [Classes -> Nat] /\ head[c] = first
      /\ \A d \in Classes : d # c => head[d] = h.head[d]
  BY <1>0, <1>4 DEF Linked, ListTypes
<1>7. c[1] \in 0..FLMax /\ c[2] \in 0..(SLCount - 1) /\ c = <<c[1], c[2]>> BY <1>0, ClassParts
<1>8. /\ sl \in [0..FLMax -> SUBSET (0..SLCount-1)]
      /\ sl[c[1]] = slc
      /\ \A f \in 0..FLMax : f # c[1] => sl[f] = h.sl[f]
  BY <1>7 DEF Linked, ListTypes
<1>9. /\ next # NULL => next \in S /\ h.links[next].prev = b /\ ClassOf(h, next) = c
      /\ prev # NULL => prev \in S /\ h.links[prev].next = b /\ ClassOf(h, prev) = c
      /\ prev = NULL <=> h.head[c] = b
  BY DEF Linked, Chained, Headed
<1>10. ListTypes(g, S \ {b})
  <2>1. fl \subseteq 0..FLMax BY DEF Linked, ListTypes
  <2> HIDE DEF links, head, sl, g, c, next, prev, first, slc, fl
  <2> QED BY <1>3, <1>5, <1>6, <1>7, <1>8, <2>1 DEF Linked, ListTypes
<1> HIDE DEF links, head, sl, g, c, next, prev, slc
<1>11. Chained(g, S \ {b})
  <2>2. ASSUME NEW a \in S \ {b}, links[a].next # NULL
        PROVE  links[a].next \in S \ {b} /\ links[links[a].next].prev = a
               /\ ClassOf(h, links[a].next) = ClassOf(h, a)
    <3>1. CASE a = prev 
      BY <3>1, <2>2, <1>5, <1>9, <1>4 DEF NULL, next, prev
    <3>2. CASE a # prev 
      <4>1. links[a].next = h.links[a].next BY <3>2, <1>5
      <4>2. h.links[a].next \in S /\ h.links[h.links[a].next].prev = a /\ ClassOf(h, h.links[a].next) = ClassOf(h, a)
        BY <4>1, <2>2 DEF Linked, Chained
      <4>3. h.links[a].next # b BY <4>2, <3>2 DEF prev
      <4>4. h.links[a].next # next BY <4>2, <1>9, <1>4, <2>2, <4>1
      <4> QED BY <4>1, <4>2, <4>3, <4>4, <1>5
    <3> QED BY <3>1, <3>2
  <2>3. ASSUME NEW a \in S \ {b}, links[a].prev # NULL
        PROVE  links[a].prev \in S \ {b} /\ links[links[a].prev].next = a
               /\ ClassOf(h, links[a].prev) = ClassOf(h, a)
    <3>1. CASE a = next
      BY <3>1, <2>3, <1>5, <1>9, <1>4 DEF NULL, next, prev
    <3>2. CASE a # next 
      <4>1. links[a].prev = h.links[a].prev BY <3>2, <1>5
      <4>2. h.links[a].prev \in S /\ h.links[h.links[a].prev].next = a /\ ClassOf(h, h.links[a].prev) = ClassOf(h, a)
        BY <4>1, <2>3 DEF Linked, Chained
      <4>3. h.links[a].prev # b BY <4>2, <3>2 DEF next
      <4>4. h.links[a].prev # prev BY <4>2, <1>9, <1>4, <2>3, <4>1
      <4> QED BY <4>1, <4>2, <4>3, <4>4, <1>5
    <3> QED BY <3>1, <3>2
  <2> QED BY <2>2, <2>3, <1>3 DEF Chained
<1>12. Headed(g, S \ {b})
  <2>0. \A a \in S : ClassOf(h, a) \in Classes BY DEF Linked, ListTypes
  <2>1. ASSUME NEW a \in S \ {b} PROVE links[a].prev = NULL <=> head[ClassOf(h, a)] = a
    <3>0. h.links[a].prev = NULL <=> h.head[ClassOf(h, a)] = a BY DEF Linked, Headed
    <3>1. CASE a = next
      <4>1. links[a].prev = prev BY <3>1, <1>5
      <4>2. ClassOf(h, a) = c /\ h.links[a].prev = b BY <3>1, <1>9, <1>4 DEF NULL
      <4>3. h.head[c] # a BY <4>2, <3>0, <1>0 DEF NULL
      <4> QED BY <4>1, <4>2, <4>3, <3>1, <1>6, <1>4, <1>0 DEF NULL
    <3>2. CASE a # next
      <4>1. links[a].prev = h.links[a].prev BY <3>2, <1>5
      <4>2. CASE ClassOf(h, a) = c
        BY <4>1, <4>2, <3>0, <3>2, <1>6, <1>9 
      <4>3. CASE ClassOf(h, a) # c
        BY <4>1, <4>3, <3>0, <1>6, <2>0
      <4> QED BY <4>2, <4>3
    <3> QED BY <3>1, <3>2
  <2>2. ASSUME NEW d \in Classes, head[d] # NULL
        PROVE  head[d] \in S \ {b} /\ ClassOf(h, head[d]) = d
    <3>0. h.head[d] # NULL => h.head[d] \in S /\ ClassOf(h, h.head[d]) = d BY DEF Linked, Headed
    <3>1. CASE d = c /\ prev = NULL
      <4>1. next # b BY <3>1, <1>9, <1>4, <1>0 DEF NULL, next, prev
      <4> QED BY <3>1, <2>2, <4>1, <1>6, <1>9
    <3>2. CASE d = c /\ prev # NULL 
      BY <3>2, <2>2, <3>0, <1>6, <1>9
    <3>3. CASE d # c
      BY <3>3, <2>2, <3>0, <1>6 DEF c
    <3> QED BY <3>1, <3>2, <3>3
  <2> QED BY <2>1, <2>2, <1>3 DEF Headed
<1>13. Mapped(g)
  <2>0. first # NULL => h.head[c] # NULL BY <1>0, <1>9 DEF NULL
  <2>1. ASSUME NEW d \in Classes PROVE head[d] # NULL <=> d[2] \in sl[d[1]]
    <3>1. d[1] \in 0..FLMax /\ d[2] \in 0..(SLCount - 1) /\ d = <<d[1], d[2]>> BY ClassParts
    <3>2. h.head[d] # NULL <=> d[2] \in h.sl[d[1]] BY DEF Linked, Mapped
    <3>3. CASE d = c BY <3>2, <3>3, <1>6, <1>8, <2>0 DEF slc
    <3>4. CASE d # c
      <4>1. head[d] = h.head[d] BY <3>4, <1>6
      <4>2. d[2] \in sl[d[1]] <=> d[2] \in h.sl[d[1]] BY <3>1, <3>4, <1>7, <1>8 DEF slc
      <4> QED BY <4>1, <4>2, <3>2
    <3> QED BY <3>3, <3>4
  <2>2. ASSUME NEW f \in 0..FLMax PROVE f \in fl <=> sl[f] # {}
    BY <1>7, <1>8 DEF Linked, Mapped, slc
  <2> QED BY <2>1, <2>2, <1>3 DEF Mapped
<1>14. Ranked(g, S \ {b})
  <2>1. PICK rank \in [S -> Nat] : \A a \in S : h.links[a].next # NULL => rank[h.links[a].next] < rank[a]
    BY DEF Linked, Ranked
  <2> DEFINE new == [a \in S \ {b} |-> rank[a]]
  <2>2. new \in [S \ {b} -> Nat] BY <2>1
  <2>3. ASSUME NEW a \in S \ {b}, links[a].next # NULL PROVE new[links[a].next] < new[a]
    <3>0. links[a].next \in S \ {b} BY <2>3, <1>3, <1>11 DEF Chained
    <3>1. new[links[a].next] = rank[links[a].next] /\ new[a] = rank[a] BY <3>0
    <3>2. CASE a = prev
      <4>1. links[a].next = next /\ next # NULL /\ prev # NULL BY <3>2, <2>3, <1>4, <1>5 DEF NULL
      <4>2. rank[next] < rank[b] BY <4>1, <2>1 DEF next
      <4>3. rank[b] < rank[a] BY <4>1, <3>2, <1>0, <1>9, <2>1 DEF NULL
      <4>4. rank[next] \in Nat /\ rank[b] \in Nat /\ rank[a] \in Nat BY <4>1, <1>9, <2>1
      <4> HIDE DEF new
      <4> QED BY <3>1, <4>1, <4>2, <4>3, <4>4
    <3>3. CASE a # prev
      <4>1. links[a].next = h.links[a].next BY <3>3, <1>5
      <4> HIDE DEF new
      <4> QED BY <3>1, <4>1, <2>1, <2>3
    <3> QED BY <3>2, <3>3
  <2> HIDE DEF new
  <2> QED BY <2>2, <2>3, <1>3 DEF Ranked
<1> QED BY <1>2, <1>10, <1>11, <1>12, <1>13, <1>14 DEF Linked, g

(* The least element of a set that is not empty belongs to it.             *)
LEMMA LeastIn ==
  ASSUME NEW X, X \subseteq Nat, X # {}
  PROVE  Least(X) \in X
BY MinExists DEF Least

(* The list of a class that has a block has a head: going back along the   *)
(* prev links ends, as the rank rises and blocks are finitely many.        *)
LEMMA ListHead ==
  ASSUME NEW h, NEW S, Linked(h, S), IsFiniteSet(S), NEW a \in S
  PROVE  h.head[ClassOf(h, a)] # NULL
<1> DEFINE C == {b \in S : ClassOf(h, b) = ClassOf(h, a)}
           L == StrictSubsetOrdering(S)
<1>1. PICK rank \in [S -> Nat] : \A b \in S : h.links[b].next # NULL => rank[h.links[b].next] < rank[b]
  BY DEF Linked, Ranked
<1> DEFINE Above(b) == {x \in S : rank[b] <= rank[x]}
           F == {Above(b) : b \in C}
<1>2. F \subseteq FiniteSubsetsOf(S)
  <2> SUFFICES ASSUME NEW b \in C PROVE IsFiniteSet(Above(b)) /\ Above(b) \in SUBSET S BY DEF FiniteSubsetsOf
  <2>1. Above(b) \subseteq S OBVIOUS
  <2> HIDE DEF Above
  <2> QED BY <2>1, FS_Subset
<1>3. \E x \in F : \A y \in F : ~(<<y, x>> \in L)
  <2>1. IsWellFoundedOn(L, FiniteSubsetsOf(S)) BY FS_StrictSubsetOrderingWellFounded
  <2>2. F # {} OBVIOUS
  <2> HIDE DEF F, L
  <2> QED BY <1>2, <2>1, <2>2, WFMin
<1>4. PICK m \in C : \A b \in C : ~(<<Above(b), Above(m)>> \in L) BY <1>3
<1>5. m \in S /\ ClassOf(h, m) = ClassOf(h, a) /\ m # NULL BY DEF Linked, ListTypes, NULL
<1>6. h.links[m].prev = NULL
  <2> SUFFICES ASSUME h.links[m].prev # NULL PROVE FALSE OBVIOUS
  <2> DEFINE p == h.links[m].prev
  <2>1. p \in S /\ h.links[p].next = m /\ ClassOf(h, p) = ClassOf(h, m) BY <1>5 DEF Linked, Chained
  <2> HIDE DEF p
  <2>2. rank[m] < rank[p] /\ rank[m] \in Nat /\ rank[p] \in Nat BY <1>1, <1>5, <2>1
  <2>3. \A x \in S : rank[x] \in Nat BY <1>1
  <2>4. Above(p) \subseteq Above(m) /\ m \in Above(m) /\ m \notin Above(p) BY <1>5, <2>2, <2>3
  <2>5. Above(p) \subseteq S /\ Above(m) \subseteq S OBVIOUS
  <2>6. p \in C BY <1>5, <2>1
  <2> HIDE DEF Above, C
  <2>7. <<Above(p), Above(m)>> \in L BY <2>4, <2>5 DEF StrictSubsetOrdering
  <2> QED BY <1>4, <2>6, <2>7
<1>7. h.head[ClassOf(h, m)] = m BY <1>5, <1>6 DEF Linked, Headed
<1> QED BY <1>5, <1>7

(* tlsf_find returns a block whose class it may look at, and NULL only     *)
(* when no block has such a class: the bitmaps hide nothing.               *)
LEMMA FindExact ==
  ASSUME NEW h, NEW S, Linked(h, S), IsFiniteSet(S), NEW size \in Nat, 1 <= size, size < MaxBlock,
         NEW c, c = tlsf_mapping_search(size), NEW b, b = tlsf_find(h, size)
  PROVE  /\ b # NULL => b \in S /\ c # NoClass /\ Reaches(c, ClassOf(h, b))
         /\ b = NULL /\ c # NoClass => \A a \in S : ~Reaches(c, ClassOf(h, a))
<1> DEFINE sl_map == {s \in h.sl[c[1]] : s >= c[2]}
           fl_map == {f \in h.fl : f > c[1]}
           fl == Least(fl_map)
<1>1. c \in Classes \cup {NoClass} BY SearchRange
<1>2. ASSUME NEW f \in 0..FLMax, NEW s \in h.sl[f]
      PROVE  h.head[<<f, s>>] \in S /\ ClassOf(h, h.head[<<f, s>>]) = <<f, s>> /\ h.head[<<f, s>>] # NULL
  <2>1. s \in 0..(SLCount - 1) BY <1>2 DEF Linked, ListTypes
  <2>2. <<f, s>> \in Classes BY <2>1 DEF Classes
  <2>3. h.head[<<f, s>>] # NULL BY <1>2, <2>2 DEF Linked, Mapped
  <2> QED BY <2>2, <2>3 DEF Linked, Headed
<1>3. CASE c \in Classes /\ h.fl # {}
  <2>0. c[1] \in 0..FLMax /\ c[2] \in 0..(SLCount - 1) BY <1>3, ClassParts
  <2>1. \A f \in 0..FLMax : h.sl[f] \subseteq Nat /\ h.sl[f] \subseteq 0..(SLCount - 1)
    <3> TAKE f \in 0..FLMax
    <3>1. h.sl[f] \in SUBSET (0..(SLCount - 1)) BY DEF Linked, ListTypes
    <3>2. 0..(SLCount - 1) \subseteq Nat BY Constants
    <3> QED BY <3>1, <3>2, Zenon
  <2>2. CASE sl_map # {}
    <3>1. Least(sl_map) \in sl_map BY <2>0, <2>1, <2>2, LeastIn
    <3>2. b = h.head[<<c[1], Least(sl_map)>>]
      BY <1>3, <2>2, NoClassOut DEF tlsf_find
    <3> DEFINE s == Least(sl_map)
    <3>3. s \in h.sl[c[1]] /\ s >= c[2] /\ s \in Nat BY <2>0, <2>1, <3>1
    <3> HIDE DEF s, sl_map
    <3>4. b \in S /\ ClassOf(h, b) = <<c[1], s>> /\ b # NULL BY <2>0, <3>2, <3>3, <1>2 DEF s
    <3>5. Reaches(c, <<c[1], s>>) BY <2>0, <3>3, Constants DEF Reaches
    <3> QED BY <1>3, <3>4, <3>5, NoClassOut
  <2>3. CASE sl_map = {} /\ fl_map = {}
    <3>1. b = NULL BY <1>3, <2>3, NoClassOut DEF tlsf_find
    <3>2. ASSUME NEW a \in S, Reaches(c, ClassOf(h, a)) PROVE FALSE
      <4> DEFINE d == ClassOf(h, a)
      <4>1. d \in Classes /\ h.head[d] # NULL BY ListHead DEF Linked, ListTypes
      <4> HIDE DEF d
      <4>2. d[1] \in 0..FLMax /\ d[2] \in 0..(SLCount - 1) BY <4>1, ClassParts
      <4>3. d[2] \in h.sl[d[1]] /\ d[1] \in h.fl BY <4>1, <4>2 DEF Linked, Mapped
      <4>4. c[1] < d[1] \/ (c[1] = d[1] /\ c[2] <= d[2]) BY <3>2 DEF Reaches, d
      <4>5. CASE c[1] < d[1]
        <5>1. d[1] \in fl_map BY <4>2, <4>3, <4>5, <2>0
        <5> QED BY <5>1, <2>3
      <4>6. CASE c[1] = d[1] /\ c[2] <= d[2]
        <5>1. d[2] \in sl_map BY <4>2, <4>3, <4>6, <2>0
        <5> QED BY <5>1, <2>3
      <4> QED BY <4>4, <4>5, <4>6
    <3> QED BY <3>1, <3>2
  <2>4. CASE sl_map = {} /\ fl_map # {}
    <3>1. fl_map \subseteq Nat BY TlsfAssumption DEF Linked, ListTypes
    <3>2. fl \in h.fl /\ fl > c[1]
      <4> HIDE DEF fl_map
      <4>1. fl \in fl_map BY <3>1, <2>4, LeastIn
      <4> QED BY <4>1 DEF fl_map
    <3>3. fl \in 0..FLMax /\ h.sl[fl] # {} BY <3>2 DEF Linked, ListTypes, Mapped
    <3>4. Least(h.sl[fl]) \in h.sl[fl] BY <2>1, <3>3, LeastIn
    <3>5. b = h.head[<<fl, Least(h.sl[fl])>>]
      BY <1>3, <2>4, NoClassOut DEF tlsf_find
    <3> HIDE DEF fl
    <3>6. b \in S /\ ClassOf(h, b) = <<fl, Least(h.sl[fl])>> /\ b # NULL BY <3>3, <3>4, <3>5, <1>2
    <3>7. Reaches(c, <<fl, Least(h.sl[fl])>>) BY <2>0, <3>2, <3>3 DEF Reaches
    <3> QED BY <1>3, <3>6, <3>7, NoClassOut
  <2> QED BY <2>2, <2>3, <2>4
<1>4. CASE c = NoClass
  BY <1>4 DEF tlsf_find
<1>5. CASE h.fl = {} /\ c \in Classes
  <2>1. b = NULL BY <1>5 DEF tlsf_find
  <2>2. ASSUME NEW a \in S PROVE FALSE
    <3> DEFINE d == ClassOf(h, a)
    <3>1. d \in Classes /\ h.head[d] # NULL BY ListHead DEF Linked, ListTypes
    <3> HIDE DEF d
    <3>2. d[1] \in 0..FLMax BY <3>1, ClassParts
    <3>3. d[1] \in h.fl BY <3>1, <3>2 DEF Linked, Mapped
    <3> QED BY <3>3, <1>5
  <2> QED BY <2>1, <2>2
<1> QED BY <1>1, <1>3, <1>4, <1>5

-----------------------------------------------------------------------------
(* The physical layout *)

(* The start and end sentinels of the active regions.                      *)
Sentinels(h) == Starts(h) \cup Ends(h)

(* Two regions share no memory.                                            *)
ApartRegions(r, q) == r.base + r.size <= q.base \/ q.base + q.size <= r.base

(* A region mmap may return for tlsf_grow: room for the metadata, the      *)
(* sentinels and one block, and no larger than the largest block.          *)
RegionOK(r) ==
  /\ r \in Region
  /\ r.base > 0
  /\ RegionOverhead + MinBlock <= r.size /\ r.size <= MaxBlock
  /\ r.base + r.size <= AddrMax

(* Regions, active or cached, are well formed and share no memory.         *)
Mapping(h) ==
  /\ \A r \in h.regions \cup h.cache : RegionOK(r)
  /\ \A r, q \in h.regions \cup h.cache : r # q => ApartRegions(r, q)
  /\ h.regions \cap h.cache = {}

(* The sentinels of an active region are used blocks of a header each.     *)
SentinelsOK(h) ==
  \A r \in h.regions :
    /\ StartOf(r) \in DOMAIN h.blk /\ h.blk[StartOf(r)].used /\ h.blk[StartOf(r)].size = Header
    /\ EndOf(r) \in DOMAIN h.blk /\ h.blk[EndOf(r)].used /\ h.blk[EndOf(r)].size = Header

(* Blocks are records at positive addresses, and only sentinels are smaller *)
(* than TLSF_MIN_BLOCK_SIZE.                                               *)
BlockTypes(h) ==
  /\ h.blk \in [DOMAIN h.blk -> Block]
  /\ DOMAIN h.blk \subseteq Nat \ {0}
  /\ \A b \in DOMAIN h.blk : b \notin Sentinels(h) => h.blk[b].size >= MinBlock

(* The physical layout of the heap is sound.                               *)
Phys(h) == Mapping(h) /\ BlockTypes(h) /\ SentinelsOK(h) /\ Tiled(h) /\ Disjoint(h)

(* The arithmetic facts about the constants, apart from their assumptions  *)
(* on powers.                                                              *)
LEMMA SizeFacts ==
  /\ Header \in Nat /\ Header >= 1 /\ Meta \in Nat /\ MinBlock \in Nat /\ Header < MinBlock
  /\ MaxBlock \in Nat /\ AddrMax \in Nat
  /\ RegionOverhead = Meta + 2 * Header
  /\ Bases \subseteq Nat
BY Constants, TlsfAssumption DEF RegionOverhead

(* Where the parts of a region lie.                                        *)
LEMMA RegionFacts ==
  ASSUME NEW r, RegionOK(r)
  PROVE  /\ r.base \in Nat /\ r.size \in Nat /\ r.base > 0
         /\ StartOf(r) \in Nat /\ FirstOf(r) \in Nat /\ EndOf(r) \in Nat /\ UsableOf(r) \in Nat
         /\ FirstOf(r) = StartOf(r) + Header /\ EndOf(r) + Header = r.base + r.size
         /\ EndOf(r) = FirstOf(r) + UsableOf(r)
         /\ r.base <= StartOf(r) 
         /\ MinBlock <= UsableOf(r) /\ UsableOf(r) < MaxBlock
         /\ r.base + r.size <= AddrMax
<1>1. r.base \in Nat /\ r.size \in Nat BY SizeFacts DEF RegionOK, Region
<1> QED BY <1>1, SizeFacts DEF RegionOK, StartOf, FirstOf, EndOf, UsableOf

(* What every block header holds.                                          *)
LEMMA BlockFacts ==
  ASSUME NEW h, Phys(h), NEW b \in DOMAIN h.blk
  PROVE  /\ b \in Nat /\ b > 0 /\ h.blk[b].size \in Nat /\ h.blk[b].prev \in Nat
         /\ h.blk[b].used \in BOOLEAN
         /\ h.blk[b].size >= 1
         /\ NextBlock(h, b) \in Nat /\ NextBlock(h, b) = b + h.blk[b].size
         /\ h.blk[b] = [size |-> h.blk[b].size, used |-> h.blk[b].used, prev |-> h.blk[b].prev]
         /\ PrevBlock(h, b) = b - h.blk[b].prev
<1>1. h.blk[b] \in Block /\ b \in Nat \ {0} BY DEF Phys, BlockTypes
<1>2. h.blk[b].size >= 1
  <2>1. CASE b \in Sentinels(h)
    <3>1. PICK r \in h.regions : b = StartOf(r) \/ b = EndOf(r) BY <2>1 DEF Sentinels, Starts, Ends
    <3> QED BY <3>1, TlsfAssumption DEF Phys, SentinelsOK
  <2>2. CASE b \notin Sentinels(h)
    BY <2>2, <1>1, Constants DEF Phys, BlockTypes, Block
  <2> QED BY <2>1, <2>2
<1> QED BY <1>1, <1>2 DEF Block, NextBlock, PrevBlock

(* A block that is no sentinel lies between the sentinels of a region.     *)
LEMMA Inside ==
  ASSUME NEW h, Phys(h), NEW b \in DOMAIN h.blk, b \notin Sentinels(h)
  PROVE  \E r \in h.regions :
           /\ FirstOf(r) <= b /\ NextBlock(h, b) <= EndOf(r)
<1>1. PICK r \in h.regions : StartOf(r) <= b /\ NextBlock(h, b) <= r.base + r.size
  BY DEF Phys, Disjoint
<1>2. StartOf(r) \in DOMAIN h.blk /\ EndOf(r) \in DOMAIN h.blk 
      /\ h.blk[StartOf(r)].size = Header /\ h.blk[EndOf(r)].size = Header
  BY DEF Phys, SentinelsOK
<1>3. b # StartOf(r) /\ b # EndOf(r) BY DEF Sentinels, Starts, Ends
<1>4. RegionOK(r) BY DEF Phys, Mapping
<1>a. /\ StartOf(r) \in Nat /\ EndOf(r) \in Nat /\ FirstOf(r) \in Nat /\ r.base + r.size \in Nat
      /\ FirstOf(r) = StartOf(r) + Header /\ EndOf(r) + Header = r.base + r.size
  BY <1>4, RegionFacts
<1>b. b \in Nat /\ NextBlock(h, b) \in Nat /\ NextBlock(h, b) = b + h.blk[b].size
      /\ h.blk[b].size \in Nat /\ h.blk[b].size >= 1 BY BlockFacts
<1>5. NextBlock(h, StartOf(r)) = FirstOf(r) /\ NextBlock(h, EndOf(r)) = r.base + r.size
  BY <1>2, <1>a DEF NextBlock
<1>c. /\ StartOf(r) < b => FirstOf(r) <= b
      /\ EndOf(r) < b => r.base + r.size <= b
      /\ b < EndOf(r) => NextBlock(h, b) <= EndOf(r)
  BY <1>2, <1>5 DEF Phys, Disjoint
<1>6. FirstOf(r) <= b
  BY <1>1, <1>3, <1>a, <1>b, <1>c
<1>7. b < EndOf(r)
  BY <1>1, <1>3, <1>a, <1>b, <1>c
<1> QED BY <1>6, <1>7, <1>c

(* A block that is no sentinel has a size the mapping functions accept, and *)
(* both its neighbours are blocks.                                         *)
LEMMA BlockSizes ==
  ASSUME NEW h, Phys(h), NEW b \in DOMAIN h.blk, b \notin Sentinels(h)
  PROVE  /\ MinBlock <= h.blk[b].size /\ h.blk[b].size < MaxBlock
         /\ ClassOf(h, b) \in Classes /\ ClassOf(h, b) # NoClass
         /\ NextBlock(h, b) \in DOMAIN h.blk
         /\ b \in Addr /\ NextBlock(h, b) \in Addr
         /\ PrevBlock(h, b) \in DOMAIN h.blk
<1>1. PICK r \in h.regions : FirstOf(r) <= b /\ NextBlock(h, b) <= EndOf(r) BY Inside
<1>2. RegionOK(r) BY DEF Phys, Mapping
<1>a. b \in Nat /\ NextBlock(h, b) \in Nat /\ NextBlock(h, b) = b + h.blk[b].size
      /\ h.blk[b].size \in Nat /\ h.blk[b].size >= 1 /\ b > 0 BY BlockFacts
<1>b. /\ FirstOf(r) \in Nat /\ UsableOf(r) \in Nat /\ EndOf(r) = FirstOf(r) + UsableOf(r)
      /\ UsableOf(r) < MaxBlock /\ EndOf(r) + Header = r.base + r.size /\ r.base + r.size <= AddrMax
  BY <1>2, RegionFacts
<1>3. MinBlock <= h.blk[b].size /\ h.blk[b].size < MaxBlock
  <2>1. h.blk[b].size >= MinBlock BY DEF Phys, BlockTypes
  <2> QED BY <1>1, <1>a, <1>b, <2>1, SizeFacts
<1>4. tlsf_mapping_insert(h.blk[b].size) \in Classes
  <2>1. h.blk[b].size < 4 * MaxBlock BY <1>3, <1>a, SizeFacts
  <2> QED BY <1>3, <2>1, <1>a, InsertRange
<1>5. b \in Addr /\ NextBlock(h, b) \in Addr
  BY <1>1, <1>a, <1>b, SizeFacts DEF Addr
<1>6. NextBlock(h, b) \in DOMAIN h.blk /\ PrevBlock(h, b) \in DOMAIN h.blk
  BY DEF Phys, Tiled, Sentinels
<1> QED BY <1>3, <1>4, <1>5, <1>6, NoClassOut DEF ClassOf

-----------------------------------------------------------------------------
(* Cutting a block *)

(* g and h differ in the block headers alone.                              *)
SameIndex(g, h) ==
  /\ IsHeap(g)
  /\ g.links = h.links /\ g.head = h.head /\ g.sl = h.sl /\ g.fl = h.fl
  /\ g.regions = h.regions /\ g.cache = h.cache /\ g.ccount = h.ccount /\ g.cbytes = h.cbytes

(* A block that is no sentinel starts after, and ends before, every other  *)
(* block.                                                                  *)
LEMMA Order ==
  ASSUME NEW h, Phys(h), NEW a \in DOMAIN h.blk, NEW b \in DOMAIN h.blk, a # b
  PROVE  \/ a + h.blk[a].size <= b
         \/ b + h.blk[b].size <= a
<1>1. a \in Nat /\ b \in Nat BY BlockFacts
<1>2. (a < b => NextBlock(h, a) <= b) /\ (b < a => NextBlock(h, b) <= a) BY DEF Phys, Disjoint
<1> QED BY <1>1, <1>2 DEF NextBlock

(* Replacing the block headers leaves the rest of the heap.                *)
LEMMA SetBlk ==
  ASSUME NEW h, IsHeap(h), NEW x
  PROVE  SameIndex([h EXCEPT !.blk = x], h) /\ [h EXCEPT !.blk = x].blk = x
BY DEF IsHeap, SameIndex

(* What Cut leaves, field by field.                                        *)
CutResult(g, h, b, need, tail, rest, next) ==
  /\ SameIndex(g, h)
  /\ tail \in Nat /\ rest \in Nat /\ MinBlock <= rest
  /\ b < tail /\ tail < next /\ tail + rest = next
  /\ tail \notin DOMAIN h.blk /\ next \in DOMAIN h.blk /\ b # next
  /\ DOMAIN g.blk = DOMAIN h.blk \cup {tail}
  /\ g.blk \in [DOMAIN h.blk \cup {tail} -> Block]
  /\ g.blk[tail].size = rest /\ g.blk[tail].used = FALSE /\ g.blk[tail].prev = need
  /\ g.blk[b].size = need /\ g.blk[next].prev = rest
  /\ \A a \in DOMAIN h.blk : g.blk[a].used = h.blk[a].used
  /\ \A a \in DOMAIN h.blk : a # b => g.blk[a].size = h.blk[a].size
  /\ \A a \in DOMAIN h.blk : a # next => g.blk[a].prev = h.blk[a].prev

(* Cut splits one header in two and corrects the tag behind them.          *)
LEMMA CutFields ==
  ASSUME NEW h, IsHeap(h), Phys(h), NEW b \in DOMAIN h.blk, b \notin Sentinels(h),
         NEW need \in Nat, MinBlock <= need, need + MinBlock <= h.blk[b].size,
         NEW g, g = Cut(h, b, need), NEW tail, tail = b + need,
         NEW rest, rest = h.blk[b].size - need, NEW next, next = NextBlock(h, b)
  PROVE  CutResult(g, h, b, need, tail, rest, next)
<1> DEFINE blk == [a \in DOMAIN h.blk \cup {tail} |->
                    IF a = tail THEN [size |-> rest, used |-> FALSE, prev |-> need]
                    ELSE IF a = b THEN [h.blk[a] EXCEPT !.size = need]
                    ELSE IF a = next THEN [h.blk[a] EXCEPT !.prev = rest]
                    ELSE h.blk[a]]
<1>1. g = [h EXCEPT !.blk = blk]
  BY Zenon DEF Cut
<1>2. SameIndex(g, h) /\ g.blk = blk
  <2> HIDE DEF blk
  <2> QED BY <1>1, SetBlk
<1>3. b \in Nat /\ h.blk[b].size \in Nat /\ next = b + h.blk[b].size BY BlockFacts
<1>4. tail \in Nat /\ rest \in Nat /\ MinBlock <= rest /\ b < tail /\ tail < next /\ b # next /\ tail + rest = next
  BY <1>3, SizeFacts
<1>5. tail \notin DOMAIN h.blk
  <2>1. SUFFICES ASSUME tail \in DOMAIN h.blk PROVE FALSE OBVIOUS
  <2>2. tail # b BY <1>3, <1>4
  <2>3. b + h.blk[b].size <= tail \/ tail + h.blk[tail].size <= b BY <2>1, <2>2, Order
  <2>4. h.blk[tail].size \in Nat BY <2>1, BlockFacts
  <2> QED BY <1>4, <1>3, <2>3, <2>4
<1>6. next \in DOMAIN h.blk BY BlockSizes
<1>7. ASSUME NEW a \in DOMAIN h.blk
      PROVE  /\ blk[a] \in Block
             /\ blk[a].size = IF a = b THEN need ELSE h.blk[a].size
             /\ blk[a].used = h.blk[a].used
             /\ blk[a].prev = IF a = next THEN rest ELSE h.blk[a].prev
  <2>1. h.blk[a] \in Block BY DEF Phys, BlockTypes
  <2>2. blk[a] = IF a = b THEN [h.blk[a] EXCEPT !.size = need]
                 ELSE IF a = next THEN [h.blk[a] EXCEPT !.prev = rest]
                 ELSE h.blk[a]
    BY <1>5
  <2> HIDE DEF blk
  <2>3. CASE a = b BY <2>3, <2>1, <2>2, <1>4 DEF Block
  <2>4. CASE a # b /\ a = next BY <2>4, <2>1, <2>2, <1>4 DEF Block
  <2>5. CASE a # b /\ a # next BY <2>5, <2>1, <2>2, <1>4 DEF Block
  <2> QED BY <2>3, <2>4, <2>5
<1>8. /\ DOMAIN blk = DOMAIN h.blk \cup {tail}
      /\ blk[tail] = [size |-> rest, used |-> FALSE, prev |-> need]
      /\ blk = [a \in DOMAIN blk |-> blk[a]]
  OBVIOUS
<1>9. blk[tail] \in Block /\ blk[tail].size = rest /\ blk[tail].used = FALSE /\ blk[tail].prev = need
  <2> HIDE DEF blk
  <2> QED BY <1>8, <1>4 DEF Block
<1> HIDE DEF blk
<1>10. blk \in [DOMAIN h.blk \cup {tail} -> Block] BY <1>7, <1>8, <1>9
<1> QED BY <1>2, <1>4, <1>5, <1>6, <1>7, <1>8, <1>9, <1>10 DEF CutResult

(* Cut keeps the physical layout sound.                                    *)
LEMMA CutPhys ==
  ASSUME NEW h, IsHeap(h), Phys(h), NEW b \in DOMAIN h.blk, b \notin Sentinels(h),
         NEW need \in Nat, MinBlock <= need, need + MinBlock <= h.blk[b].size
  PROVE  Phys(Cut(h, b, need))
<1>0. PICK g, tail, rest, next : g = Cut(h, b, need) /\ tail = b + need
                /\ rest = h.blk[b].size - need /\ next = NextBlock(h, b)
  OBVIOUS
<1> DEFINE D == DOMAIN h.blk
<1>1. /\ SameIndex(g, h)
      /\ tail \in Nat /\ rest \in Nat /\ MinBlock <= rest
      /\ b < tail /\ tail < next /\ tail + rest = next
      /\ tail \notin D /\ next \in D /\ b # next
      /\ DOMAIN g.blk = D \cup {tail}
      /\ g.blk \in [D \cup {tail} -> Block]
      /\ g.blk[tail].size = rest /\ g.blk[tail].used = FALSE /\ g.blk[tail].prev = need
      /\ g.blk[b].size = need /\ g.blk[next].prev = rest
      /\ \A a \in D : g.blk[a].used = h.blk[a].used
      /\ \A a \in D : a # b => g.blk[a].size = h.blk[a].size
      /\ \A a \in D : a # next => g.blk[a].prev = h.blk[a].prev
  <2>1. CutResult(g, h, b, need, tail, rest, next) BY <1>0, CutFields
  <2> QED BY <2>1 DEF CutResult
<1>2. b \in Nat /\ h.blk[b].size \in Nat /\ next = b + h.blk[b].size /\ b > 0 /\ tail = b + need
  BY <1>0, BlockFacts
<1> HIDE DEF D
<1>4. /\ NextBlock(g, tail) = next /\ PrevBlock(g, tail) = b
      /\ NextBlock(g, b) = tail
      /\ PrevBlock(g, next) = tail
  BY <1>1, <1>2 DEF NextBlock, PrevBlock
<1>4a. /\ \A a \in D : a # b => NextBlock(g, a) = NextBlock(h, a)
       /\ \A a \in D : a # next => PrevBlock(g, a) = PrevBlock(h, a)
  BY <1>1 DEF NextBlock, PrevBlock
<1>5. Starts(g) = Starts(h) /\ Ends(g) = Ends(h) /\ Sentinels(g) = Sentinels(h)
  BY <1>1 DEF SameIndex, Starts, Ends, Sentinels
<1>6. Starts(h) \subseteq D /\ Ends(h) \subseteq D
  BY DEF Phys, SentinelsOK, Starts, Ends, D
<1>7. b \notin Starts(h) /\ b \notin Ends(h) BY DEF Sentinels
<1>8. Mapping(g) BY <1>1 DEF Phys, Mapping, SameIndex
<1>9. BlockTypes(g)
  <2>3. ASSUME NEW a \in D \cup {tail}, a \notin Sentinels(h) PROVE g.blk[a].size >= MinBlock
    <3>1. CASE a = tail \/ a = b BY <3>1, <1>1
    <3>2. CASE a \in D /\ a # b BY <3>2, <2>3, <1>1 DEF Phys, BlockTypes, D
    <3> QED BY <3>1, <3>2
  <2>4. D \cup {tail} \subseteq Nat \ {0} BY <1>1, <1>2 DEF Phys, BlockTypes, D
  <2> QED BY <2>3, <2>4, <1>1, <1>5 DEF BlockTypes
<1>10. SentinelsOK(g)
  <2> SUFFICES ASSUME NEW r \in h.regions
               PROVE  /\ StartOf(r) \in D \cup {tail} /\ g.blk[StartOf(r)].used /\ g.blk[StartOf(r)].size = Header
                      /\ EndOf(r) \in D \cup {tail} /\ g.blk[EndOf(r)].used /\ g.blk[EndOf(r)].size = Header
    BY <1>1 DEF SentinelsOK, SameIndex
  <2>1. /\ StartOf(r) \in D /\ h.blk[StartOf(r)].used /\ h.blk[StartOf(r)].size = Header
        /\ EndOf(r) \in D /\ h.blk[EndOf(r)].used /\ h.blk[EndOf(r)].size = Header
    BY DEF Phys, SentinelsOK, D
  <2>2. StartOf(r) # b /\ EndOf(r) # b BY <1>7 DEF Starts, Ends
  <2> QED BY <2>1, <2>2, <1>1
<1>11. Tiled(g)
  <2>1. ASSUME NEW a \in D \cup {tail}, a \notin Ends(h)
        PROVE  NextBlock(g, a) \in D \cup {tail} /\ g.blk[NextBlock(g, a)].prev = g.blk[a].size
    <3>1. CASE a = tail BY <3>1, <1>1, <1>4
    <3>2. CASE a = b
      <4>1. b \in D BY DEF D
      <4> QED BY <3>2, <4>1, <1>1, <1>4
    <3>3. CASE a \in D \ {b}
      <4>1. NextBlock(h, a) \in D /\ h.blk[NextBlock(h, a)].prev = h.blk[a].size
        BY <3>3, <2>1 DEF Phys, Tiled, D
      <4>2. NextBlock(h, a) # next
        <5>1. a + h.blk[a].size <= b \/ b + h.blk[b].size <= a BY <3>3, Order DEF D
        <5>2. a \in Nat /\ h.blk[a].size \in Nat /\ h.blk[a].size >= 1 /\ NextBlock(h, a) = a + h.blk[a].size
          BY <3>3, BlockFacts DEF D
        <5> QED BY <5>1, <5>2, <1>2, <1>1
      <4>3. NextBlock(g, a) = NextBlock(h, a) BY <3>3, <1>4a
      <4>4. g.blk[NextBlock(h, a)].prev = h.blk[NextBlock(h, a)].prev BY <4>1, <4>2, <1>1
      <4>5. g.blk[a].size = h.blk[a].size BY <3>3, <1>1
      <4> QED BY <4>1, <4>3, <4>4, <4>5
    <3> QED BY <3>1, <3>2, <3>3
  <2>2. ASSUME NEW a \in D \cup {tail}, a \notin Starts(h)
        PROVE  PrevBlock(g, a) \in D \cup {tail} /\ g.blk[PrevBlock(g, a)].size = g.blk[a].prev
    <3>1. CASE a = tail 
      <4>1. b \in D BY DEF D
      <4> QED BY <3>1, <4>1, <1>1, <1>4
    <3>2. CASE a = next BY <3>2, <1>1, <1>4
    <3>3. CASE a \in D \ {next}
      <4>1. PrevBlock(h, a) \in D /\ h.blk[PrevBlock(h, a)].size = h.blk[a].prev
        BY <3>3, <2>2 DEF Phys, Tiled, D
      <4>2. PrevBlock(h, a) # b
        <5>1. a \in Nat /\ h.blk[a].prev \in Nat /\ PrevBlock(h, a) = a - h.blk[a].prev
          BY <3>3, BlockFacts DEF D
        <5> QED BY <3>3, <4>1, <5>1, <1>2
      <4>3. PrevBlock(g, a) = PrevBlock(h, a) BY <3>3, <1>4a
      <4>4. g.blk[PrevBlock(h, a)].size = h.blk[PrevBlock(h, a)].size BY <4>1, <4>2, <1>1
      <4>5. g.blk[a].prev = h.blk[a].prev BY <3>3, <1>1
      <4> QED BY <4>1, <4>3, <4>4, <4>5
    <3> QED BY <3>1, <3>2, <3>3
  <2> QED BY <2>1, <2>2, <1>1, <1>5 DEF Tiled
<1>12. Disjoint(g)
  <2>0. \A a \in D : a \in Nat /\ h.blk[a].size \in Nat /\ h.blk[a].size >= 1 /\ NextBlock(h, a) = a + h.blk[a].size
    BY BlockFacts DEF D
  <2>1. ASSUME NEW a \in D \cup {tail}, NEW c \in D \cup {tail}, a < c
        PROVE  NextBlock(g, a) <= c
    <3>1. CASE a \in D /\ c \in D
      <4>1. NextBlock(h, a) <= c BY <3>1, <2>1 DEF Phys, Disjoint, D
      <4> QED BY <4>1, <3>1, <1>4, <1>4a, <1>2, <1>1, <2>0
    <3>2. CASE a = tail /\ c \in D
      <4>1. c # b BY <3>2, <2>1, <1>1, <1>2
      <4>2. b + h.blk[b].size <= c \/ c + h.blk[c].size <= b
        BY <3>2, <4>1, Order DEF D
      <4> QED BY <4>2, <3>2, <2>1, <2>0, <1>1, <1>2, <1>4
    <3>3. CASE a \in D /\ a # b /\ c = tail
      <4>1. a + h.blk[a].size <= b \/ b + h.blk[b].size <= a
        BY <3>3, Order DEF D
      <4> QED BY <4>1, <3>3, <2>1, <1>1, <1>2, <1>4a, <2>0
    <3>4. CASE a = b /\ c = tail
      BY <3>4, <1>1, <1>4
    <3>5. ~(a = tail /\ c = tail) BY <2>1, <1>1
    <3> QED BY <3>1, <3>2, <3>3, <3>4, <3>5
  <2>2. ASSUME NEW a \in D \cup {tail}
        PROVE  \E r \in h.regions : StartOf(r) <= a /\ NextBlock(g, a) <= r.base + r.size
    <3>1. PICK r \in h.regions : StartOf(r) <= b /\ NextBlock(h, b) <= r.base + r.size
      BY DEF Phys, Disjoint
    <3>2. StartOf(r) \in Nat /\ r.base + r.size \in Nat
      BY RegionFacts DEF Phys, Mapping
    <3>3. CASE a = tail \/ a = b BY <3>1, <3>2, <3>3, <1>0, <1>1, <1>2, <1>4
    <3>4. CASE a \in D \ {b} BY <3>4, <1>4a DEF Phys, Disjoint, D
    <3> QED BY <3>3, <3>4
  <2> QED BY <2>1, <2>2, <1>1 DEF Disjoint, SameIndex
<1> QED BY <1>0, <1>8, <1>9, <1>10, <1>11, <1>12 DEF Phys

-----------------------------------------------------------------------------
(* Merging two blocks, marking one *)

(* What Absorb leaves, field by field.                                     *)
AbsorbResult(g, h, b, next, total, after) ==
  /\ SameIndex(g, h)
  /\ total \in Nat /\ total = h.blk[b].size + h.blk[next].size
  /\ b < next /\ next < after /\ b + total = after
  /\ b \in DOMAIN h.blk /\ next \in DOMAIN h.blk /\ after \in DOMAIN h.blk
  /\ DOMAIN g.blk = DOMAIN h.blk \ {next}
  /\ g.blk \in [DOMAIN h.blk \ {next} -> Block]
  /\ g.blk[b].size = total /\ g.blk[after].prev = total
  /\ \A a \in DOMAIN h.blk \ {next} : g.blk[a].used = h.blk[a].used
  /\ \A a \in DOMAIN h.blk \ {next} : a # b => g.blk[a].size = h.blk[a].size
  /\ \A a \in DOMAIN h.blk \ {next} : a # after => g.blk[a].prev = h.blk[a].prev

(* Absorb makes one header of two and corrects the tag behind them.        *)
LEMMA AbsorbFields ==
  ASSUME NEW h, IsHeap(h), Phys(h), NEW b \in DOMAIN h.blk, b \notin Sentinels(h),
         NEW next, next = NextBlock(h, b), next \notin Sentinels(h),
         NEW g, g = Absorb(h, b),
         NEW total, total = h.blk[b].size + h.blk[next].size, NEW after, after = b + total
  PROVE  AbsorbResult(g, h, b, next, total, after)
<1> DEFINE blk == [a \in DOMAIN h.blk \ {next} |->
                    IF a = b THEN [h.blk[a] EXCEPT !.size = total]
                    ELSE IF a = after THEN [h.blk[a] EXCEPT !.prev = total]
                    ELSE h.blk[a]]
<1>1. g = [h EXCEPT !.blk = blk]
  BY Zenon DEF Absorb
<1>2. SameIndex(g, h) /\ g.blk = blk
  <2> HIDE DEF blk
  <2> QED BY <1>1, SetBlk
<1>3. next \in DOMAIN h.blk BY BlockSizes
<1>4. /\ b \in Nat /\ h.blk[b].size \in Nat /\ h.blk[b].size >= 1 /\ next = b + h.blk[b].size
      /\ next \in Nat /\ h.blk[next].size \in Nat /\ h.blk[next].size >= 1
      /\ NextBlock(h, next) = next + h.blk[next].size
  BY <1>3, BlockFacts
<1>5. total \in Nat /\ b < next /\ next < after /\ b + total = after /\ after = NextBlock(h, next)
  BY <1>4
<1>6. after \in DOMAIN h.blk BY <1>3, <1>5, BlockSizes
<1>7. ASSUME NEW a \in DOMAIN h.blk \ {next}
      PROVE  /\ blk[a] \in Block
             /\ blk[a].size = IF a = b THEN total ELSE h.blk[a].size
             /\ blk[a].used = h.blk[a].used
             /\ blk[a].prev = IF a = after THEN total ELSE h.blk[a].prev
  <2>1. h.blk[a] \in Block BY DEF Phys, BlockTypes
  <2>2. blk[a] = IF a = b THEN [h.blk[a] EXCEPT !.size = total]
                 ELSE IF a = after THEN [h.blk[a] EXCEPT !.prev = total]
                 ELSE h.blk[a]
    OBVIOUS
  <2> HIDE DEF blk
  <2>3. CASE a = b BY <2>3, <2>1, <2>2, <1>4, <1>5 DEF Block
  <2>4. CASE a # b /\ a = after BY <2>4, <2>1, <2>2, <1>5 DEF Block
  <2>5. CASE a # b /\ a # after BY <2>5, <2>1, <2>2 DEF Block
  <2> QED BY <2>3, <2>4, <2>5
<1>8. DOMAIN blk = DOMAIN h.blk \ {next} /\ blk = [a \in DOMAIN blk |-> blk[a]]
  OBVIOUS
<1> HIDE DEF blk
<1>9. blk \in [DOMAIN h.blk \ {next} -> Block] BY <1>7, <1>8
<1>10. b \in DOMAIN h.blk \ {next} /\ after \in DOMAIN h.blk \ {next} BY <1>4, <1>5, <1>6
<1> QED BY <1>2, <1>3, <1>4, <1>5, <1>6, <1>7, <1>8, <1>9, <1>10 DEF AbsorbResult

(* Absorb keeps the physical layout sound.                                 *)
LEMMA AbsorbPhys ==
  ASSUME NEW h, IsHeap(h), Phys(h), NEW b \in DOMAIN h.blk, b \notin Sentinels(h),
         NextBlock(h, b) \notin Sentinels(h)
  PROVE  Phys(Absorb(h, b))
<1>0. PICK g, next, total, after : g = Absorb(h, b) /\ next = NextBlock(h, b)
                /\ total = h.blk[b].size + h.blk[next].size /\ after = b + total
  OBVIOUS
<1> DEFINE D == DOMAIN h.blk
<1>1. /\ SameIndex(g, h)
      /\ total \in Nat /\ total = h.blk[b].size + h.blk[next].size
      /\ b < next /\ next < after /\ b + total = after
      /\ b \in D /\ next \in D /\ after \in D
      /\ DOMAIN g.blk = D \ {next}
      /\ g.blk \in [D \ {next} -> Block]
      /\ g.blk[b].size = total /\ g.blk[after].prev = total
      /\ \A a \in D \ {next} : g.blk[a].used = h.blk[a].used
      /\ \A a \in D \ {next} : a # b => g.blk[a].size = h.blk[a].size
      /\ \A a \in D \ {next} : a # after => g.blk[a].prev = h.blk[a].prev
  <2>1. AbsorbResult(g, h, b, next, total, after) BY <1>0, AbsorbFields
  <2> QED BY <2>1 DEF AbsorbResult
<1>2. /\ b \in Nat /\ h.blk[b].size \in Nat /\ next = b + h.blk[b].size /\ b > 0
      /\ next \in Nat /\ h.blk[next].size \in Nat /\ after = next + h.blk[next].size
      /\ after \in Nat
      /\ NextBlock(h, next) = after
  <2>1. /\ b \in Nat /\ h.blk[b].size \in Nat /\ next = b + h.blk[b].size /\ b > 0 BY <1>0, <1>1, BlockFacts
  <2>2. next \in Nat /\ h.blk[next].size \in Nat /\ NextBlock(h, next) = next + h.blk[next].size
    BY <1>1, BlockFacts
  <2> QED BY <2>1, <2>2, <1>1
<1>3. /\ b \in D \ {next} /\ after \in D \ {next} /\ total >= h.blk[b].size
      /\ \A a, n \in Nat : (a + n <= b \/ b + h.blk[b].size <= a) /\ n >= 1 => a + n # next
      /\ \A a, n \in Nat : (a + n <= next \/ next + h.blk[next].size <= a) /\ n >= 1 => a + n # after
  <2>1. b < next /\ next < after /\ b \in D /\ after \in D /\ total = h.blk[b].size + h.blk[next].size BY <1>1
  <2> HIDE DEF D
  <2> QED BY <2>1, <1>2
<1>2a. next \notin Sentinels(h) BY <1>0
<1> HIDE DEF D
<1>4. NextBlock(g, b) = after /\ PrevBlock(g, after) = b
  <2>1. g.blk[b].size = total /\ g.blk[after].prev = total /\ b + total = after /\ total \in Nat BY <1>1
  <2>2. b \in Nat /\ after \in Nat BY <1>2
  <2>3. after - total = b BY <2>1, <2>2
  <2> QED BY <2>1, <2>3 DEF NextBlock, PrevBlock
<1>4a. /\ \A a \in D \ {next} : a # b => NextBlock(g, a) = NextBlock(h, a)
       /\ \A a \in D \ {next} : a # after => PrevBlock(g, a) = PrevBlock(h, a)
  BY <1>1 DEF NextBlock, PrevBlock
<1>5. Starts(g) = Starts(h) /\ Ends(g) = Ends(h) /\ Sentinels(g) = Sentinels(h)
  BY <1>1 DEF SameIndex, Starts, Ends, Sentinels
<1>7. b \notin Starts(h) /\ b \notin Ends(h) /\ next \notin Starts(h) /\ next \notin Ends(h)
  BY <1>2a DEF Sentinels
<1>8. Mapping(g) BY <1>1 DEF Phys, Mapping, SameIndex
<1>9. BlockTypes(g)
  <2>1. h.blk[b].size >= MinBlock BY DEF Phys, BlockTypes
  <2>3. ASSUME NEW a \in D \ {next}, a \notin Sentinels(h) PROVE g.blk[a].size >= MinBlock
    <3>1. CASE a = b
      <4>1. g.blk[a].size = total BY <3>1, <1>1
      <4>2. total \in Nat /\ total >= h.blk[b].size /\ h.blk[b].size \in Nat BY <1>1, <1>2, <1>3
      <4> QED BY <4>1, <4>2, <2>1, SizeFacts
    <3>2. CASE a # b BY <3>2, <2>3, <1>1 DEF Phys, BlockTypes, D
    <3> QED BY <3>1, <3>2
  <2>4. D \ {next} \subseteq Nat \ {0} BY DEF Phys, BlockTypes, D
  <2> QED BY <2>3, <2>4, <1>1, <1>5 DEF BlockTypes
<1>10. SentinelsOK(g)
  <2> SUFFICES ASSUME NEW r \in h.regions
               PROVE  /\ StartOf(r) \in D \ {next} /\ g.blk[StartOf(r)].used /\ g.blk[StartOf(r)].size = Header
                      /\ EndOf(r) \in D \ {next} /\ g.blk[EndOf(r)].used /\ g.blk[EndOf(r)].size = Header
    BY <1>1 DEF SentinelsOK, SameIndex
  <2>1. /\ StartOf(r) \in D /\ h.blk[StartOf(r)].used /\ h.blk[StartOf(r)].size = Header
        /\ EndOf(r) \in D /\ h.blk[EndOf(r)].used /\ h.blk[EndOf(r)].size = Header
    BY DEF Phys, SentinelsOK, D
  <2>2. StartOf(r) # b /\ EndOf(r) # b /\ StartOf(r) # next /\ EndOf(r) # next BY <1>7 DEF Starts, Ends
  <2> QED BY <2>1, <2>2, <1>1
<1>11. Tiled(g)
  <2>1. ASSUME NEW a \in D \ {next}, a \notin Ends(h)
        PROVE  NextBlock(g, a) \in D \ {next} /\ g.blk[NextBlock(g, a)].prev = g.blk[a].size
    <3>2. CASE a = b BY <3>2, <1>1, <1>3, <1>4
    <3>3. CASE a # b
      <4>1. NextBlock(h, a) \in D /\ h.blk[NextBlock(h, a)].prev = h.blk[a].size
        BY <2>1 DEF Phys, Tiled, D
      <4>0. a \in Nat /\ h.blk[a].size \in Nat /\ h.blk[a].size >= 1 /\ NextBlock(h, a) = a + h.blk[a].size
          BY <3>3, BlockFacts DEF D
      <4>2. NextBlock(h, a) # next
        <5>1. a + h.blk[a].size <= b \/ b + h.blk[b].size <= a BY <3>3, Order DEF D
        <5> QED BY <5>1, <4>0, <1>3
      <4>2a. NextBlock(h, a) # after
        <5>1. a + h.blk[a].size <= next \/ next + h.blk[next].size <= a BY <1>1, Order DEF D
        <5> QED BY <5>1, <4>0, <1>3
      <4>3. NextBlock(g, a) = NextBlock(h, a) BY <3>3, <1>4a
      <4>4. g.blk[NextBlock(h, a)].prev = h.blk[NextBlock(h, a)].prev BY <4>1, <4>2, <4>2a, <1>1
      <4>5. g.blk[a].size = h.blk[a].size BY <3>3, <1>1
      <4> QED BY <4>1, <4>2, <4>3, <4>4, <4>5
    <3> QED BY <3>2, <3>3
  <2>2. ASSUME NEW a \in D \ {next}, a \notin Starts(h)
        PROVE  PrevBlock(g, a) \in D \ {next} /\ g.blk[PrevBlock(g, a)].size = g.blk[a].prev
    <3>2. CASE a = after BY <3>2, <1>1, <1>2, <1>4
    <3>3. CASE a # after
      <4>1. PrevBlock(h, a) \in D /\ h.blk[PrevBlock(h, a)].size = h.blk[a].prev
        BY <2>2 DEF Phys, Tiled, D
      <4>2. PrevBlock(h, a) # b /\ PrevBlock(h, a) # next
        <5>1. a \in Nat /\ h.blk[a].prev \in Nat /\ PrevBlock(h, a) = a - h.blk[a].prev
          BY <3>3, BlockFacts DEF D
        <5> QED BY <3>3, <4>1, <5>1, <1>2
      <4>3. PrevBlock(g, a) = PrevBlock(h, a) BY <3>3, <1>4a
      <4>4. g.blk[PrevBlock(h, a)].size = h.blk[PrevBlock(h, a)].size BY <4>1, <4>2, <1>1
      <4>5. g.blk[a].prev = h.blk[a].prev BY <3>3, <1>1
      <4> QED BY <4>1, <4>2, <4>3, <4>4, <4>5
    <3> QED BY <3>2, <3>3
  <2> QED BY <2>1, <2>2, <1>1, <1>5 DEF Tiled
<1>12. Disjoint(g)
  <2>0. \A a \in D : a \in Nat /\ h.blk[a].size \in Nat /\ h.blk[a].size >= 1 /\ NextBlock(h, a) = a + h.blk[a].size
    BY BlockFacts DEF D
  <2>1. ASSUME NEW a \in D \ {next}, NEW c \in D \ {next}, a < c
        PROVE  NextBlock(g, a) <= c
    <3>0. NextBlock(h, a) <= c BY <2>1 DEF Phys, Disjoint, D
    <3>1. CASE a # b BY <3>0, <3>1, <1>4a
    <3>2. CASE a = b
      <4>1. next < c BY <3>0, <3>2, <1>2, <2>0, <2>1
      <4>2. NextBlock(h, next) <= c BY <4>1, <1>1 DEF Phys, Disjoint, D
      <4> QED BY <4>2, <3>2, <1>2, <1>4
    <3> QED BY <3>1, <3>2
  <2>2. ASSUME NEW a \in D \ {next}
        PROVE  \E r \in h.regions : StartOf(r) <= a /\ NextBlock(g, a) <= r.base + r.size
    <3>3. CASE a = b
      <4>1. PICK r \in h.regions : FirstOf(r) <= b /\ NextBlock(h, b) <= EndOf(r)
        BY Inside
      <4>2. /\ StartOf(r) \in Nat /\ r.base + r.size \in Nat /\ FirstOf(r) = StartOf(r) + Header
            /\ EndOf(r) \in Nat /\ EndOf(r) + Header = r.base + r.size
        BY RegionFacts DEF Phys, Mapping
      <4>3. EndOf(r) \in D /\ EndOf(r) # next
        BY <1>7 DEF Phys, SentinelsOK, D, Ends
      <4>4. next < EndOf(r) BY <4>1, <4>2, <4>3, <1>0, <1>2
      <4>5. NextBlock(h, next) <= EndOf(r) BY <4>3, <4>4, <1>1 DEF Phys, Disjoint, D
      <4> QED BY <3>3, <4>1, <4>2, <4>5, <1>2, <1>4, SizeFacts
    <3>4. CASE a # b BY <3>4, <1>4a DEF Phys, Disjoint, D
    <3> QED BY <3>3, <3>4
  <2> QED BY <2>1, <2>2, <1>1 DEF Disjoint, SameIndex
<1> QED BY <1>0, <1>8, <1>9, <1>10, <1>11, <1>12 DEF Phys

(* What a change of the used bit leaves.                                   *)
SetUsedResult(g, h, b, u) ==
  /\ Phys(g) /\ SameIndex(g, h) /\ DOMAIN g.blk = DOMAIN h.blk
  /\ g.blk[b].used = u
  /\ \A a \in DOMAIN h.blk : g.blk[a].size = h.blk[a].size
  /\ \A a \in DOMAIN h.blk : g.blk[a].prev = h.blk[a].prev
  /\ \A a \in DOMAIN h.blk \ {b} : g.blk[a].used = h.blk[a].used

(* A change of the used bit of a block keeps the physical layout sound.    *)
LEMMA SetUsedPhys ==
  ASSUME NEW h, IsHeap(h), Phys(h), NEW b \in DOMAIN h.blk, b \notin Sentinels(h), NEW u \in BOOLEAN,
         NEW g, g = SetUsed(h, b, u)
  PROVE  SetUsedResult(g, h, b, u)
<1> DEFINE blk == [h.blk EXCEPT ![b].used = u]
           D == DOMAIN h.blk
<1>1. g = [h EXCEPT !.blk = blk]
  BY DEF SetUsed
<1>2. SameIndex(g, h) /\ g.blk = blk
  <2> HIDE DEF blk
  <2> QED BY <1>1, SetBlk
<1>3. /\ DOMAIN blk = D /\ blk[b].used = u
      /\ \A a \in D : blk[a] \in Block /\ blk[a].size = h.blk[a].size /\ blk[a].prev = h.blk[a].prev
      /\ \A a \in D \ {b} : blk[a].used = h.blk[a].used
      /\ blk = [a \in DOMAIN blk |-> blk[a]]
  BY DEF Phys, BlockTypes, Block
<1> HIDE DEF blk
<1>4. Starts(g) = Starts(h) /\ Ends(g) = Ends(h) /\ Sentinels(g) = Sentinels(h)
  BY <1>2 DEF SameIndex, Starts, Ends, Sentinels
<1>5. \A a \in D : NextBlock(g, a) = NextBlock(h, a) /\ PrevBlock(g, a) = PrevBlock(h, a)
  BY <1>2, <1>3 DEF NextBlock, PrevBlock
<1>6. BlockTypes(g)
  <2>1. blk \in [D -> Block] BY <1>3
  <2>2. D \subseteq Nat \ {0} /\ \A a \in D : a \notin Sentinels(h) => h.blk[a].size >= MinBlock
    BY DEF Phys, BlockTypes
  <2> QED BY <1>2, <1>3, <1>4, <2>1, <2>2 DEF BlockTypes
<1>7. SentinelsOK(g)
  BY <1>2, <1>3 DEF Phys, SentinelsOK, SameIndex, Sentinels, Starts, Ends
<1>8. Tiled(g) BY <1>2, <1>3, <1>4, <1>5 DEF Phys, Tiled
<1>9. Disjoint(g) BY <1>2, <1>3, <1>5 DEF Phys, Disjoint, SameIndex
<1>10. Mapping(g) BY <1>2 DEF Phys, Mapping, SameIndex
<1> QED BY <1>2, <1>3, <1>6, <1>7, <1>8, <1>9, <1>10 DEF Phys, SetUsedResult

-----------------------------------------------------------------------------
(* Layout and lists together *)

(* The blocks whose used bit is set, sentinels included.                   *)
Used(h) == {b \in DOMAIN h.blk : h.blk[b].used}

(* No free block other than x has a free block behind it.                  *)
ApartBut(h, x) ==
  \A b \in FreeBlocks(h) \ {x} : h.blk[NextBlock(h, b)].used

(* The heap is sound but for the free lists, which hold the free blocks    *)
(* other than x.                                                           *)
SoundBut(h, x) == IsHeap(h) /\ Phys(h) /\ Linked(h, FreeBlocks(h) \ {x})

(* g and h have the same regions and the same cache.                       *)
SameRegions(g, h) ==
  g.regions = h.regions /\ g.cache = h.cache /\ g.ccount = h.ccount /\ g.cbytes = h.cbytes

(* The free lists depend on the sizes of the listed blocks alone.          *)
LEMMA LinkedFrame ==
  ASSUME NEW h, NEW g, NEW S, Linked(h, S),
         g.links = h.links, g.head = h.head, g.sl = h.sl, g.fl = h.fl,
         \A a \in S : g.blk[a].size = h.blk[a].size
  PROVE  Linked(g, S)
<1>1. \A a \in S : ClassOf(g, a) = ClassOf(h, a) BY DEF ClassOf
<1>2. ListTypes(g, S) BY <1>1 DEF Linked, ListTypes
<1>3. Chained(g, S) BY <1>1 DEF Linked, Chained
<1>4. Headed(g, S) BY <1>1 DEF Linked, Headed
<1>5. Mapped(g) BY DEF Linked, Mapped
<1>6. Ranked(g, S) BY DEF Linked, Ranked
<1> QED BY <1>2, <1>3, <1>4, <1>5, <1>6 DEF Linked

(* The physical layout depends on the headers and the regions alone.       *)
LEMMA PhysFrame ==
  ASSUME NEW h, NEW g, Phys(h), g.blk = h.blk, g.regions = h.regions, g.cache = h.cache
  PROVE  /\ Phys(g) /\ Sentinels(g) = Sentinels(h) /\ FreeBlocks(g) = FreeBlocks(h)
         /\ Used(g) = Used(h)
         /\ \A b : NextBlock(g, b) = NextBlock(h, b) /\ PrevBlock(g, b) = PrevBlock(h, b)
         /\ \A x : ApartBut(g, x) <=> ApartBut(h, x)
<1>1. Starts(g) = Starts(h) /\ Ends(g) = Ends(h) /\ Sentinels(g) = Sentinels(h)
  BY DEF Starts, Ends, Sentinels
<1>2. \A b : NextBlock(g, b) = NextBlock(h, b) /\ PrevBlock(g, b) = PrevBlock(h, b)
  BY DEF NextBlock, PrevBlock
<1>3. FreeBlocks(g) = FreeBlocks(h) /\ Used(g) = Used(h) BY DEF FreeBlocks, Used
<1>4. Mapping(g) BY DEF Phys, Mapping
<1>5. BlockTypes(g) BY <1>1 DEF Phys, BlockTypes
<1>6. SentinelsOK(g) BY DEF Phys, SentinelsOK
<1>7. Tiled(g) BY <1>1, <1>2 DEF Phys, Tiled
<1>8. Disjoint(g) BY <1>2 DEF Phys, Disjoint
<1>9. \A x : ApartBut(g, x) <=> ApartBut(h, x) BY <1>2, <1>3 DEF ApartBut
<1> QED BY <1>1, <1>2, <1>3, <1>4, <1>5, <1>6, <1>7, <1>8, <1>9 DEF Phys

(* A free block and a sentinel are never the same.                         *)
LEMMA FreeNotSentinel ==
  ASSUME NEW h, Phys(h), NEW b \in FreeBlocks(h)
  PROVE  b \in DOMAIN h.blk /\ b \notin Sentinels(h) /\ b \in Nat \ {0}
         /\ ClassOf(h, b) \in Classes /\ ClassOf(h, b) # NoClass
<1>1. b \in DOMAIN h.blk /\ ~h.blk[b].used BY DEF FreeBlocks
<1>2. b \notin Sentinels(h)
  BY <1>1 DEF Phys, SentinelsOK, Sentinels, Starts, Ends
<1>3. b \in Nat \ {0} BY <1>1 DEF Phys, BlockTypes
<1> QED BY <1>1, <1>2, <1>3, BlockSizes

(* Listing the one free block that is on no list makes the index complete. *)
LEMMA InsertSound ==
  ASSUME NEW h, NEW x \in FreeBlocks(h), SoundBut(h, x), NEW g, g = tlsf_free_insert(h, x)
  PROVE  SoundBut(g, NULL) /\ SameBlocks(g, h)
<1> DEFINE S == FreeBlocks(h) \ {x}
<1>1. x \in Nat \ {0} /\ x \notin S /\ ClassOf(h, x) \in Classes /\ ClassOf(h, x) # NoClass
  BY FreeNotSentinel DEF SoundBut
<1>2. IsHeap(h) /\ Linked(h, S) /\ Phys(h) BY DEF SoundBut
<1>3. S \cup {x} = FreeBlocks(h) OBVIOUS
<1> HIDE DEF S
<1>4. IsHeap(g) /\ SameBlocks(g, h) /\ Linked(g, S \cup {x}) BY <1>1, <1>2, FreeInsert
<1>5. Phys(g) /\ FreeBlocks(g) = FreeBlocks(h) BY <1>2, <1>4, PhysFrame DEF SameBlocks
<1>6. NULL \notin FreeBlocks(g)
  <2>1. NULL \notin DOMAIN g.blk BY <1>5 DEF Phys, BlockTypes, NULL
  <2> QED BY <2>1 DEF FreeBlocks
<1>7. FreeBlocks(g) \ {NULL} = FreeBlocks(g) BY <1>6
<1> QED BY <1>3, <1>4, <1>5, <1>7 DEF SoundBut

(* Taking a free block off its list leaves the layout sound.               *)
LEMMA RemoveSound ==
  ASSUME NEW h, NEW x \in FreeBlocks(h), NEW y, SoundBut(h, y), y # x, NEW g, g = tlsf_free_remove(h, x)
  PROVE  IsHeap(g) /\ Phys(g) /\ Linked(g, (FreeBlocks(h) \ {y}) \ {x}) /\ SameBlocks(g, h)
<1>1. x \in FreeBlocks(h) \ {y} /\ IsHeap(h) /\ Phys(h) /\ Linked(h, FreeBlocks(h) \ {y}) BY DEF SoundBut
<1>2. IsHeap(g) /\ SameBlocks(g, h) /\ Linked(g, (FreeBlocks(h) \ {y}) \ {x}) BY <1>1, FreeRemove
<1>3. Phys(g) BY <1>1, <1>2, PhysFrame DEF SameBlocks
<1> QED BY <1>2, <1>3

-----------------------------------------------------------------------------
(* tlsf_split *)

(* The sentinels depend on the regions alone.                              *)
LEMMA SentinelsFrame ==
  ASSUME NEW h, NEW g, g.regions = h.regions
  PROVE  Sentinels(g) = Sentinels(h) /\ Starts(g) = Starts(h) /\ Ends(g) = Ends(h)
BY DEF Sentinels, Starts, Ends

(* What Cut leaves.                                                        *)
CutLeaves(c, h, b, tail) ==
  /\ IsHeap(c) /\ Phys(c) /\ SameRegions(c, h)
  /\ Linked(c, FreeBlocks(h) \ {b})
  /\ FreeBlocks(c) = FreeBlocks(h) \cup {tail} /\ Used(c) = Used(h)
  /\ DOMAIN c.blk = DOMAIN h.blk \cup {tail}
  /\ tail \notin DOMAIN h.blk
  /\ tail # NextBlock(h, b)
  /\ NextBlock(c, tail) = NextBlock(h, b)
  /\ \A a \in DOMAIN h.blk : c.blk[a].used = h.blk[a].used
  /\ \A a \in DOMAIN h.blk : a # b => NextBlock(c, a) = NextBlock(h, a)
  /\ c.blk[b].size = tail - b
  /\ \A a \in DOMAIN h.blk : a # b => c.blk[a].size = h.blk[a].size

(* A block that is on no list may be cut; the tail is free and on no list. *)
LEMMA CutSound ==
  ASSUME NEW h, NEW b \in DOMAIN h.blk, SoundBut(h, b), b \notin Sentinels(h),
         NEW need \in Nat, MinBlock <= need, need + MinBlock <= h.blk[b].size,
         NEW c, c = Cut(h, b, need)
  PROVE  CutLeaves(c, h, b, b + need)
<1> DEFINE tail == b + need
           rest == h.blk[b].size - need
           next == NextBlock(h, b)
<1>1. IsHeap(h) /\ Phys(h) /\ Linked(h, FreeBlocks(h) \ {b}) BY DEF SoundBut
<1>2. CutResult(c, h, b, need, tail, rest, next) BY <1>1, CutFields
<1>3. Phys(c) BY <1>1, CutPhys
<1> HIDE DEF tail, rest, next
<1>4. /\ SameIndex(c, h) /\ tail \notin DOMAIN h.blk /\ tail + rest = next
      /\ DOMAIN c.blk = DOMAIN h.blk \cup {tail}
      /\ c.blk[tail].size = rest /\ c.blk[tail].used = FALSE
      /\ \A a \in DOMAIN h.blk : c.blk[a].used = h.blk[a].used
      /\ \A a \in DOMAIN h.blk : a # b => c.blk[a].size = h.blk[a].size
  BY <1>2 DEF CutResult
<1>4a. tail # next BY <1>2 DEF CutResult
<1>5. FreeBlocks(c) = FreeBlocks(h) \cup {tail} BY <1>4 DEF FreeBlocks
<1>6. Used(c) = Used(h) BY <1>4 DEF Used
<1>7. Linked(c, FreeBlocks(h) \ {b})
  <2>1. \A a \in FreeBlocks(h) \ {b} : c.blk[a].size = h.blk[a].size BY <1>4 DEF FreeBlocks
  <2> QED BY <1>1, <1>4, <2>1, LinkedFrame DEF SameIndex
<1>8. NextBlock(c, tail) = next BY <1>4 DEF NextBlock
<1>9. \A a \in DOMAIN h.blk : a # b => NextBlock(c, a) = NextBlock(h, a) BY <1>4 DEF NextBlock
<1>10. c.blk[b].size = tail - b
  <2>1. c.blk[b].size = need BY <1>2 DEF CutResult
  <2>2. b \in Nat BY <1>1, BlockFacts
  <2> QED BY <2>1, <2>2 DEF tail
<1> QED BY <1>3, <1>4, <1>4a, <1>5, <1>6, <1>7, <1>8, <1>9, <1>10 DEF SameIndex, SameRegions, tail, next, CutLeaves

(* What absorbing the free block behind b leaves, once that block is off   *)
(* its list.                                                               *)
LEMMA AbsorbSound ==
  ASSUME NEW h, NEW b \in DOMAIN h.blk, b \notin Sentinels(h), IsHeap(h), Phys(h),
         NEW next, next = NextBlock(h, b), next \in FreeBlocks(h),
         NEW S, Linked(h, S), S \subseteq FreeBlocks(h) \ {b, next},
         NEW g, g = Absorb(h, b)
  PROVE  /\ IsHeap(g) /\ Phys(g) /\ SameRegions(g, h)
         /\ Linked(g, S)
         /\ FreeBlocks(g) = FreeBlocks(h) \ {next} /\ Used(g) = Used(h)
         /\ DOMAIN g.blk = DOMAIN h.blk \ {next}
         /\ b # next
         /\ NextBlock(g, b) = NextBlock(h, next) /\ NextBlock(h, next) \in DOMAIN g.blk
         /\ g.blk[b].size = h.blk[b].size + h.blk[next].size
         /\ g.blk[b].prev = h.blk[b].prev
         /\ \A a \in DOMAIN g.blk : g.blk[a].used = h.blk[a].used
         /\ \A a \in DOMAIN g.blk : a # b => NextBlock(g, a) = NextBlock(h, a)
         /\ \A a \in DOMAIN g.blk : a # b => g.blk[a].size = h.blk[a].size
<1> DEFINE total == h.blk[b].size + h.blk[next].size
           after == b + total
<1>1. next \in DOMAIN h.blk /\ next \notin Sentinels(h) BY FreeNotSentinel
<1>2. AbsorbResult(g, h, b, next, total, after) BY <1>1, AbsorbFields
<1>3. Phys(g) BY <1>1, AbsorbPhys
<1>3a. after = NextBlock(h, next) /\ next \in Nat /\ b \in Nat
  <2>1. b \in Nat /\ h.blk[b].size \in Nat /\ next = b + h.blk[b].size BY BlockFacts
  <2>2. next \in Nat /\ h.blk[next].size \in Nat /\ NextBlock(h, next) = next + h.blk[next].size
    BY <1>1, BlockFacts
  <2> QED BY <2>1, <2>2
<1> HIDE DEF total, after
<1>4. /\ SameIndex(g, h) /\ after \in DOMAIN h.blk
      /\ DOMAIN g.blk = DOMAIN h.blk \ {next}
      /\ g.blk[b].size = total /\ b + total = after
      /\ \A a \in DOMAIN h.blk \ {next} : g.blk[a].used = h.blk[a].used
      /\ \A a \in DOMAIN h.blk \ {next} : a # b => g.blk[a].size = h.blk[a].size
      /\ \A a \in DOMAIN h.blk \ {next} : a # after => g.blk[a].prev = h.blk[a].prev
  BY <1>2 DEF AbsorbResult
<1>4a. next # after /\ b # next /\ b # after
  <2>1. b < next /\ next < after BY <1>2 DEF AbsorbResult
  <2>2. after \in Nat BY <1>4, BlockFacts
  <2> QED BY <2>1, <2>2, <1>3a
<1>5. FreeBlocks(g) = FreeBlocks(h) \ {next} BY <1>4 DEF FreeBlocks
<1>6. Used(g) = Used(h)
  <2>1. ~h.blk[next].used BY DEF FreeBlocks
  <2> QED BY <2>1, <1>4 DEF Used
<1>7. Linked(g, S)
  <2>1. \A a \in S : g.blk[a].size = h.blk[a].size BY <1>4 DEF FreeBlocks
  <2> QED BY <1>4, <2>1, LinkedFrame DEF SameIndex
<1>8. NextBlock(g, b) = after BY <1>4 DEF NextBlock
<1>9. \A a \in DOMAIN g.blk : a # b => NextBlock(g, a) = NextBlock(h, a) BY <1>4 DEF NextBlock
<1>10. after \in DOMAIN g.blk BY <1>4, <1>4a
<1>11. g.blk[b].prev = h.blk[b].prev BY <1>4, <1>4a
<1> QED BY <1>3, <1>3a, <1>4, <1>4a, <1>5, <1>6, <1>7, <1>8, <1>9, <1>10, <1>11 DEF SameIndex, SameRegions, total

(* What tlsf_split does to the sizes: no other used block changes, block b  *)
(* keeps its size or is cut to need, and only its tail is a new block.     *)
SplitSizes(g, h, b, need) ==
  /\ \A a \in Used(h) \ {b} : g.blk[a].size = h.blk[a].size
  /\ g.blk[b].size \in {need, h.blk[b].size}
  /\ DOMAIN g.blk \subseteq DOMAIN h.blk \cup {b + need}

(* tlsf_split keeps the heap sound but for the block it splits.            *)
LEMMA SplitSound ==
  ASSUME NEW h, NEW b \in DOMAIN h.blk, SoundBut(h, b), b \notin Sentinels(h),
         ApartBut(h, NULL), NEW need \in Nat, MinBlock <= need,
         NEW g, g = tlsf_split(h, b, need)
  PROVE  /\ SoundBut(g, b) /\ SameRegions(g, h) /\ Used(g) = Used(h)
         /\ b \in DOMAIN g.blk /\ b \notin Sentinels(g) /\ ApartBut(g, b)
         /\ SplitSizes(g, h, b, need)
<1>0. IsHeap(h) /\ Phys(h) /\ Linked(h, FreeBlocks(h) \ {b}) BY DEF SoundBut
<1>0a. \A a \in FreeBlocks(h) : h.blk[NextBlock(h, a)].used /\ NextBlock(h, a) \in DOMAIN h.blk
  <2> TAKE a \in FreeBlocks(h)
  <2>1. a \in DOMAIN h.blk /\ a \notin Sentinels(h) /\ a \in Nat \ {0} BY <1>0, FreeNotSentinel
  <2>2. a # NULL BY <2>1 DEF NULL
  <2> QED BY <2>1, <2>2, <1>0, BlockSizes DEF ApartBut
<1>1. CASE h.blk[b].size < need + MinBlock
  <2>1. g = h BY <1>1 DEF tlsf_split
  <2>2. ApartBut(h, b) BY <1>0a DEF ApartBut
  <2> QED BY <2>1, <2>2 DEF SameRegions, SplitSizes
<1>2. CASE ~(h.blk[b].size < need + MinBlock)
  <2> DEFINE next == NextBlock(h, b)
             tail == b + need
             c == Cut(h, b, need)
             S == FreeBlocks(h) \ {b}
  <2>1. need + MinBlock <= h.blk[b].size
    <3>1. h.blk[b].size \in Nat BY <1>0, BlockFacts
    <3> QED BY <3>1, <1>2, SizeFacts
  <2>2. /\ IsHeap(c) /\ Phys(c) /\ SameRegions(c, h)
        /\ Linked(c, S)
        /\ FreeBlocks(c) = FreeBlocks(h) \cup {tail} /\ Used(c) = Used(h)
        /\ DOMAIN c.blk = DOMAIN h.blk \cup {tail}
        /\ tail \notin DOMAIN h.blk /\ tail # next
        /\ NextBlock(c, tail) = next
        /\ \A a \in DOMAIN h.blk : c.blk[a].used = h.blk[a].used
        /\ \A a \in DOMAIN h.blk : a # b => NextBlock(c, a) = NextBlock(h, a)
        /\ c.blk[b].size = need
        /\ \A a \in DOMAIN h.blk : a # b => c.blk[a].size = h.blk[a].size
    <3>0. b \in Nat /\ tail - b = need
      <4>1. b \in Nat BY <1>0, BlockFacts
      <4> QED BY <4>1
    <3>1. CutLeaves(c, h, b, tail) BY <2>1, CutSound
    <3> HIDE DEF c, tail
    <3> QED BY <3>0, <3>1 DEF CutLeaves
  <2>3. next \in DOMAIN h.blk BY <1>0, BlockSizes
  <2>4. tail \notin S /\ tail \in FreeBlocks(c) /\ b \in DOMAIN c.blk /\ b # tail
    BY <2>2 DEF FreeBlocks
  <2>5. Sentinels(c) = Sentinels(h) BY <2>2, SentinelsFrame DEF SameRegions
  <2>6. tail \in Nat \ {0} /\ tail \in DOMAIN c.blk /\ tail \notin Sentinels(c)
        /\ ClassOf(c, tail) \in Classes /\ ClassOf(c, tail) # NoClass
    BY <2>2, <2>4, FreeNotSentinel
  <2>7. CASE h.blk[next].used
    <3>1. g = tlsf_free_insert(c, tail) BY <1>2, <2>7 DEF tlsf_split
    <3> HIDE DEF next, tail, c, S
    <3>2. IsHeap(g) /\ SameBlocks(g, c) /\ Linked(g, S \cup {tail})
      <4>1. IsHeap(c) /\ Linked(c, S) BY <2>2
      <4> QED BY <4>1, <3>1, <2>4, <2>6, FreeInsert
    <3>3. Phys(g) /\ FreeBlocks(g) = FreeBlocks(c) /\ Used(g) = Used(c) /\ Sentinels(g) = Sentinels(c)
          /\ (ApartBut(g, b) <=> ApartBut(c, b))
      BY <3>2, <2>2, PhysFrame DEF SameBlocks
    <3>4. FreeBlocks(g) \ {b} = S \cup {tail} BY <3>3, <2>2, <2>4 DEF S
    <3>5. ApartBut(c, b)
      <4> SUFFICES ASSUME NEW a \in FreeBlocks(c) \ {b} PROVE c.blk[NextBlock(c, a)].used BY DEF ApartBut
      <4>1. CASE a = tail BY <4>1, <2>2, <2>3, <2>7
      <4>2. CASE a \in FreeBlocks(h) \ {b}
        <5>1. a \in DOMAIN h.blk BY <4>2 DEF FreeBlocks
        <5>2. NextBlock(c, a) = NextBlock(h, a) BY <5>1, <4>2, <2>2
        <5> QED BY <5>2, <4>2, <1>0a, <2>2
      <4> QED BY <4>1, <4>2, <2>2
    <3>6. SplitSizes(g, h, b, need)
      <4>1. Used(h) \subseteq DOMAIN h.blk BY DEF Used
      <4> QED BY <4>1, <3>2, <2>2 DEF SplitSizes, SameBlocks, tail
    <3> QED BY <3>2, <3>3, <3>4, <3>5, <3>6, <2>2, <2>4, <2>5 DEF SoundBut, SameBlocks, SameRegions
  <2>8. CASE ~h.blk[next].used
    <3> DEFINE r == tlsf_free_remove(c, next)
               q == Absorb(r, tail)
    <3>1. g = tlsf_free_insert(q, tail) BY <1>2, <2>8 DEF tlsf_split
    <3>2. next \in FreeBlocks(h) BY <2>3, <2>8 DEF FreeBlocks
    <3>3. b # next
      <4>1. b \in Nat /\ h.blk[b].size \in Nat /\ h.blk[b].size >= 1 /\ next = b + h.blk[b].size
        BY <1>0, BlockFacts
      <4> HIDE DEF next
      <4> QED BY <4>1
    <3> HIDE DEF next, tail, c, S
    <3>4. next \in S BY <3>2, <3>3 DEF S
    <3>5. IsHeap(r) /\ SameBlocks(r, c) /\ Linked(r, S \ {next})
      BY <3>4, <2>2, FreeRemove
    <3>6. /\ Phys(r) /\ FreeBlocks(r) = FreeBlocks(c) /\ Used(r) = Used(c) /\ Sentinels(r) = Sentinels(c)
          /\ NextBlock(r, tail) = next /\ r.blk = c.blk
          /\ \A a : NextBlock(r, a) = NextBlock(c, a)
      BY <3>5, <2>2, PhysFrame DEF SameBlocks
    <3>7. /\ tail \in DOMAIN r.blk /\ tail \notin Sentinels(r) /\ next \in FreeBlocks(r)
          /\ S \ {next} \subseteq FreeBlocks(r) \ {tail, next}
      BY <3>6, <2>6, <3>2, <2>2, <2>4 DEF S
    <3>8. /\ IsHeap(q) /\ Phys(q) /\ SameRegions(q, r)
          /\ Linked(q, S \ {next})
          /\ FreeBlocks(q) = FreeBlocks(r) \ {next} /\ Used(q) = Used(r)
          /\ DOMAIN q.blk = DOMAIN r.blk \ {next}
          /\ NextBlock(q, tail) = NextBlock(r, next) /\ NextBlock(r, next) \in DOMAIN q.blk
          /\ \A a \in DOMAIN q.blk : q.blk[a].used = r.blk[a].used
          /\ \A a \in DOMAIN q.blk : a # tail => NextBlock(q, a) = NextBlock(r, a)
          /\ \A a \in DOMAIN q.blk : a # tail => q.blk[a].size = r.blk[a].size
      <4> HIDE DEF r
      <4> QED BY <3>5, <3>6, <3>7, AbsorbSound
    <3> HIDE DEF r, q
    <3>9. Sentinels(q) = Sentinels(r) BY <3>8, SentinelsFrame DEF SameRegions
    <3>10. tail \in FreeBlocks(q) /\ tail \notin S \ {next}
      BY <3>8, <3>6, <2>4, <2>2
    <3>11. tail \in Nat \ {0} /\ ClassOf(q, tail) \in Classes /\ ClassOf(q, tail) # NoClass
      BY <3>8, <3>10, FreeNotSentinel
    <3>12. IsHeap(g) /\ SameBlocks(g, q) /\ Linked(g, (S \ {next}) \cup {tail})
      BY <3>1, <3>8, <3>10, <3>11, FreeInsert
    <3>13. Phys(g) /\ FreeBlocks(g) = FreeBlocks(q) /\ Used(g) = Used(q) /\ Sentinels(g) = Sentinels(q)
          /\ (ApartBut(g, b) <=> ApartBut(q, b))
      BY <3>12, <3>8, PhysFrame DEF SameBlocks
    <3>14. FreeBlocks(g) \ {b} = (S \ {next}) \cup {tail}
      BY <3>13, <3>8, <3>6, <2>2, <2>4 DEF S
    <3>15. ApartBut(q, b)
      <4> SUFFICES ASSUME NEW a \in FreeBlocks(q) \ {b} PROVE q.blk[NextBlock(q, a)].used BY DEF ApartBut
      <4>1. CASE a = tail
        <5>1. NextBlock(r, next) = NextBlock(h, next) BY <3>6, <2>2, <2>3, <3>3
        <5>2. h.blk[NextBlock(h, next)].used /\ NextBlock(h, next) \in DOMAIN h.blk BY <3>2, <1>0a
        <5> QED BY <4>1, <5>1, <5>2, <3>8, <3>6, <2>2
      <4>2. CASE a # tail
        <5>1. a \in FreeBlocks(h) /\ a \in DOMAIN h.blk /\ a \in DOMAIN q.blk /\ a # b
          BY <4>2, <3>8, <3>6, <2>2 DEF FreeBlocks
        <5>2. NextBlock(q, a) = NextBlock(h, a) BY <5>1, <4>2, <3>8, <3>6, <2>2
        <5>3. h.blk[NextBlock(h, a)].used /\ NextBlock(h, a) \in DOMAIN h.blk BY <5>1, <1>0a
        <5>4. NextBlock(h, a) # next BY <5>3, <2>8
        <5>5. NextBlock(h, a) \in DOMAIN q.blk BY <5>3, <5>4, <3>8, <3>6, <2>2
        <5> QED BY <5>2, <5>3, <5>5, <3>8, <3>6, <2>2
      <4> QED BY <4>1, <4>2
    <3>16. b \in DOMAIN q.blk BY <3>3, <3>6, <3>8, <2>4
    <3>17. SplitSizes(g, h, b, need)
      <4>1. \A a \in Used(h) : a \in DOMAIN h.blk /\ h.blk[a].used BY DEF Used
      <4>2. \A a \in Used(h) : a # tail /\ a # next /\ a \in DOMAIN q.blk
        BY <4>1, <2>2, <2>8, <3>6, <3>8
      <4>3. \A a \in Used(h) \ {b} : g.blk[a].size = h.blk[a].size
        BY <4>1, <4>2, <2>2, <3>6, <3>8, <3>12 DEF SameBlocks
      <4>4. g.blk[b].size = need BY <2>2, <2>4, <3>6, <3>8, <3>12, <3>16 DEF SameBlocks
      <4>5. DOMAIN g.blk \subseteq DOMAIN h.blk \cup {b + need}
        BY <2>2, <3>6, <3>8, <3>12 DEF SameBlocks, tail
      <4> QED BY <4>3, <4>4, <4>5 DEF SplitSizes
    <3> QED BY <3>5, <3>6, <3>8, <3>9, <3>12, <3>13, <3>14, <3>15, <3>16, <3>17, <2>2, <2>5
            DEF SoundBut, SameBlocks, SameRegions
  <2> QED BY <2>7, <2>8
<1> QED BY <1>1, <1>2

-----------------------------------------------------------------------------
(* Taking a block and giving it back *)

(* The heap is sound between two calls.                                    *)
Sound(h) == SoundBut(h, NULL) /\ ApartBut(h, NULL)

(* The parts of a sound heap.                                              *)
LEMMA SoundFacts ==
  ASSUME NEW h, Sound(h)
  PROVE  /\ IsHeap(h) /\ Phys(h) /\ Linked(h, FreeBlocks(h)) /\ NULL \notin FreeBlocks(h)
         /\ \A a \in FreeBlocks(h) : h.blk[NextBlock(h, a)].used /\ NextBlock(h, a) \in DOMAIN h.blk
<1>1. IsHeap(h) /\ Phys(h) /\ Linked(h, FreeBlocks(h) \ {NULL}) BY DEF Sound, SoundBut
<1>2. NULL \notin FreeBlocks(h)
  <2>1. NULL \notin DOMAIN h.blk BY <1>1 DEF Phys, BlockTypes, NULL
  <2> QED BY <2>1 DEF FreeBlocks
<1>3. FreeBlocks(h) \ {NULL} = FreeBlocks(h) BY <1>2
<1>4. ASSUME NEW a \in FreeBlocks(h) PROVE h.blk[NextBlock(h, a)].used /\ NextBlock(h, a) \in DOMAIN h.blk
  <2>1. a \in DOMAIN h.blk /\ a \notin Sentinels(h) BY <1>1, FreeNotSentinel
  <2> QED BY <2>1, <1>1, <1>2, BlockSizes DEF Sound, ApartBut
<1> QED BY <1>1, <1>2, <1>3, <1>4

(* The parts that make a heap sound.                                       *)
LEMMA SoundFrom ==
  ASSUME NEW h, IsHeap(h), Phys(h), Linked(h, FreeBlocks(h)),
         \A a \in FreeBlocks(h) : h.blk[NextBlock(h, a)].used
  PROVE  Sound(h)
<1>1. NULL \notin FreeBlocks(h)
  <2>1. NULL \notin DOMAIN h.blk BY DEF Phys, BlockTypes, NULL
  <2> QED BY <2>1 DEF FreeBlocks
<1>2. FreeBlocks(h) \ {NULL} = FreeBlocks(h) BY <1>1
<1> QED BY <1>2 DEF Sound, SoundBut, ApartBut

(* The blocks of B have the same sizes in g and h.                         *)
SameSizes(g, h, B) == \A a \in B : g.blk[a].size = h.blk[a].size

(* tlsf_class_min of a class is a natural.                                 *)
LEMMA ClassMinNat ==
  ASSUME NEW c \in Classes, ClassLevel(c)
  PROVE  tlsf_class_min(c) \in Nat
<1>1. c[1] \in 0..FLMax /\ c[2] \in Nat BY ClassParts, Constants
<1>2. CASE c[1] = 0
  <2>1. c[2] * Align \in Nat BY <1>1, TlsfAssumption
  <2> QED BY <1>2, <2>1 DEF tlsf_class_min
<1>3. CASE c[1] # 0
  <2>1. c[1] \in 0..(FLMax + 3) /\ c[1] - SLLog2 \in 0..(FLMax + 3)
    BY <1>1, <1>3, TlsfAssumption DEF ClassLevel
  <2>2. Pow(c[1]) \in Nat /\ Pow(c[1] - SLLog2) \in Nat BY <2>1, PowType
  <2>3. c[2] * Pow(c[1] - SLLog2) \in Nat BY <1>1, <2>2
  <2> QED BY <1>3, <2>2, <2>3 DEF tlsf_class_min, Pow
<1> QED BY <1>2, <1>3

(* There are finitely many free blocks.                                    *)
LEMMA FiniteFree ==
  ASSUME NEW h, Sound(h)
  PROVE  IsFiniteSet(FreeBlocks(h))
<1>1. IsHeap(h) /\ Phys(h) BY SoundFacts
<1>2. \A a \in FreeBlocks(h) : a \in Addr BY <1>1, FreeNotSentinel, BlockSizes
<1>3. FreeBlocks(h) \subseteq 1..AddrMax BY <1>2 DEF Addr
<1>4. IsFiniteSet(1..AddrMax) BY FS_Interval, TlsfAssumption
<1> QED BY <1>3, <1>4, FS_Subset

(* tlsf_find takes a block that is large enough when there is one, and     *)
(* finds none only when every free block is smaller than the class it      *)
(* starts from.                                                            *)
LEMMA FindFits ==
  ASSUME NEW h, Sound(h), NEW need \in Nat, MinBlock <= need, need < MaxBlock, need % Align = 0,
         NEW c, c = tlsf_mapping_search(need), NEW b, b = tlsf_find(h, need)
  PROVE  /\ b # NULL => /\ b \in FreeBlocks(h) /\ c # NoClass /\ need <= h.blk[b].size
                        /\ need <= tlsf_class_min(c) /\ tlsf_class_min(c) <= h.blk[b].size
         /\ b = NULL /\ c # NoClass =>
              \A a \in FreeBlocks(h) : ~(tlsf_class_min(c) <= h.blk[a].size)
<1>1. IsHeap(h) /\ Phys(h) /\ Linked(h, FreeBlocks(h)) BY SoundFacts
<1>2. IsFiniteSet(FreeBlocks(h)) BY FiniteFree
<1>3. 1 <= need /\ 2 <= need BY Constants
<1>4. /\ b # NULL => b \in FreeBlocks(h) /\ c # NoClass /\ Reaches(c, ClassOf(h, b))
      /\ b = NULL /\ c # NoClass => \A a \in FreeBlocks(h) : ~Reaches(c, ClassOf(h, a))
  BY <1>1, <1>2, <1>3, FindExact
<1>5. ASSUME NEW a \in FreeBlocks(h), c # NoClass
      PROVE  /\ need <= tlsf_class_min(c) /\ h.blk[a].size \in Nat
             /\ Reaches(c, ClassOf(h, a)) <=> tlsf_class_min(c) <= h.blk[a].size
  <2>1. a \in DOMAIN h.blk /\ a \notin Sentinels(h) BY <1>1, FreeNotSentinel
  <2>2. h.blk[a].size \in Nat BY <2>1, <1>1, BlockFacts
  <2>3. MinBlock <= h.blk[a].size /\ h.blk[a].size < MaxBlock BY <2>1, <1>1, BlockSizes
  <2>4. 2 <= h.blk[a].size BY <2>2, <2>3, Constants
  <2> QED BY <2>2, <2>3, <2>4, <1>3, <1>5, GoodFit DEF ClassOf
<1>6. ASSUME c # NoClass PROVE tlsf_class_min(c) \in Nat
  <2>1. c \in Classes /\ ClassLevel(c) BY <1>3, <1>6, SearchRange
  <2> QED BY <2>1, ClassMinNat
<1>7. \A x, y, z \in Nat : x <= y /\ y <= z => x <= z OBVIOUS
<1> QED BY <1>4, <1>5, <1>6, <1>7

(* Every block and every region starts at a multiple of TLSF_ALIGN.        *)
OnGrid(h) ==
  /\ \A a \in DOMAIN h.blk : a % Align = 0
  /\ \A r \in h.regions \cup h.cache : r.base % Align = 0 /\ r.size % Align = 0

(* Multiples of u are the products with u.                                 *)
LEMMA Multiple ==
  ASSUME NEW u \in Nat \ {0}, NEW z \in Nat
  PROVE  /\ z % u = 0 => z \div u \in Nat /\ z = u * (z \div u)
         /\ \A q \in Nat : z = u * q => z % u = 0
<1>1. ASSUME z % u = 0 PROVE z \div u \in Nat /\ z = u * (z \div u)
  <2>1. z = u * (z \div u) BY <1>1
  <2>2. z \div u \in Nat OBVIOUS
  <2> QED BY <2>1, <2>2
<1>2. ASSUME NEW q \in Nat, z = u * q PROVE z % u = 0 BY <1>2
<1> QED BY <1>1, <1>2

(* Multiples of TLSF_ALIGN are closed under sums and differences.          *)
LEMMA AlignSum ==
  ASSUME NEW a \in Nat, NEW b \in Nat, a % Align = 0, b % Align = 0
  PROVE  (a + b) % Align = 0 /\ (b <= a => (a - b) % Align = 0)
<1> DEFINE j == a \div Align
           k == b \div Align
<1>0. Align \in Nat \ {0} BY TlsfAssumption
<1>1. j \in Nat /\ k \in Nat /\ a = Align * j /\ b = Align * k BY <1>0, Multiple
<1> HIDE DEF j, k
<1>2. a + b = Align * (j + k) BY <1>0, <1>1
<1>3. (a + b) % Align = 0 BY <1>0, <1>1, <1>2, Multiple
<1>4. ASSUME b <= a PROVE (a - b) % Align = 0
  <2>1. k <= j
    <3>1. j + 1 <= k => Align * (j + 1) <= Align * k
      <4>1. \A x \in Nat : Align * x = x * Align BY <1>0
      <4> QED BY <4>1, <1>0, <1>1, TimesMono
    <3>2. Align * (j + 1) = Align * j + Align BY <1>0, <1>1
    <3>3. ~(j + 1 <= k) BY <3>1, <3>2, <1>0, <1>1, <1>4
    <3> QED BY <3>3, <1>1
  <2>2. j - k \in Nat BY <2>1, <1>1
  <2>3. a - b = Align * (j - k) /\ a - b \in Nat BY <1>0, <1>1, <1>4
  <2> QED BY <1>0, <2>2, <2>3, Multiple
<1> QED BY <1>3, <1>4

(* A multiple of TLSF_PAGE_SIZE is one of TLSF_ALIGN.                      *)
LEMMA PageAligned ==
  ASSUME NEW a \in Nat, a % Page = 0
  PROVE  a % Align = 0
<1> DEFINE j == a \div Page
           k == Page \div Align
<1>0. Align \in Nat \ {0} /\ Page \in Nat \ {0} /\ Page % Align = 0 BY TlsfAssumption
<1>1. j \in Nat /\ k \in Nat /\ a = Page * j /\ Page = Align * k BY <1>0, Multiple
<1> HIDE DEF j, k
<1>2. a = Align * (k * j) /\ k * j \in Nat BY <1>0, <1>1
<1> QED BY <1>0, <1>2, Multiple

(* The grid stays when no block and no region is new.                      *)
LEMMA GridFrame ==
  ASSUME NEW h, OnGrid(h), NEW g, DOMAIN g.blk \subseteq DOMAIN h.blk,
         g.regions \cup g.cache \subseteq h.regions \cup h.cache
  PROVE  OnGrid(g)
BY DEF OnGrid

(* The parts of an aligned region are aligned.                             *)
LEMMA RegionAligned ==
  ASSUME NEW r, RegionOK(r), r.base % Align = 0, r.size % Align = 0
  PROVE  StartOf(r) % Align = 0 /\ FirstOf(r) % Align = 0 /\ EndOf(r) % Align = 0
<1>1. r.base \in Nat /\ r.size \in Nat /\ Header \in Nat /\ Meta \in Nat BY RegionFacts, SizeFacts
<1>2. Header % Align = 0 /\ Meta % Align = 0 BY TlsfAssumption
<1>3. StartOf(r) % Align = 0 /\ StartOf(r) \in Nat
  <2>1. StartOf(r) = r.base + Meta BY DEF StartOf
  <2>2. (r.base + Meta) % Align = 0 BY <1>1, <1>2, AlignSum
  <2> QED BY <2>1, <2>2, RegionFacts
<1>4. FirstOf(r) = StartOf(r) + Header BY RegionFacts
<1>5. FirstOf(r) % Align = 0 BY <1>1, <1>2, <1>3, <1>4, AlignSum
<1>6. /\ r.base + r.size \in Nat /\ (r.base + r.size) % Align = 0
      /\ Header <= r.base + r.size /\ EndOf(r) = (r.base + r.size) - Header
  <2>1. EndOf(r) \in Nat /\ EndOf(r) + Header = r.base + r.size BY RegionFacts
  <2> QED BY <2>1, <1>1, AlignSum DEF EndOf
<1>7. EndOf(r) % Align = 0 BY <1>1, <1>2, <1>6, AlignSum
<1> QED BY <1>3, <1>5, <1>7

(* g is h with block b marked used.                                        *)
Marked(g, h, b) ==
  /\ Phys(g) /\ SameIndex(g, h) /\ DOMAIN g.blk = DOMAIN h.blk
  /\ g.blk[b].used
  /\ \A a \in DOMAIN h.blk : g.blk[a].size = h.blk[a].size
  /\ \A a \in DOMAIN h.blk \ {b} : g.blk[a].used = h.blk[a].used

(* Marking a block that is on no list as used completes the heap.          *)
LEMMA MarkedSound ==
  ASSUME NEW h, NEW b \in DOMAIN h.blk, b \notin Sentinels(h), SoundBut(h, b), ApartBut(h, b),
         NEW g, Marked(g, h, b)
  PROVE  /\ Sound(g) /\ SameRegions(g, h) /\ Used(g) = Used(h) \cup {b}
         /\ DOMAIN g.blk = DOMAIN h.blk /\ SameSizes(g, h, DOMAIN h.blk)
<1>1. IsHeap(h) /\ Phys(h) /\ Linked(h, FreeBlocks(h) \ {b}) BY DEF SoundBut
<1>2. /\ Phys(g) /\ SameIndex(g, h) /\ DOMAIN g.blk = DOMAIN h.blk
      /\ g.blk[b].used
      /\ \A a \in DOMAIN h.blk : g.blk[a].size = h.blk[a].size
      /\ \A a \in DOMAIN h.blk \ {b} : g.blk[a].used = h.blk[a].used
  BY DEF Marked
<1>3. FreeBlocks(g) = FreeBlocks(h) \ {b} BY <1>2 DEF FreeBlocks
<1>4. Used(g) = Used(h) \cup {b} BY <1>2 DEF Used
<1>5. Linked(g, FreeBlocks(g))
  <2>1. \A a \in FreeBlocks(h) \ {b} : g.blk[a].size = h.blk[a].size BY <1>2 DEF FreeBlocks
  <2>2. g.links = h.links /\ g.head = h.head /\ g.sl = h.sl /\ g.fl = h.fl BY <1>2 DEF SameIndex
  <2>3. Linked(g, FreeBlocks(h) \ {b}) BY <1>1, <2>1, <2>2, LinkedFrame
  <2> QED BY <1>3, <2>3
<1>6. ASSUME NEW a \in FreeBlocks(g) PROVE g.blk[NextBlock(g, a)].used
  <2>1. a \in DOMAIN h.blk /\ a \in FreeBlocks(h) \ {b} BY <1>3 DEF FreeBlocks
  <2>2. NextBlock(g, a) = NextBlock(h, a) BY <2>1, <1>2 DEF NextBlock
  <2>3. h.blk[NextBlock(h, a)].used BY <2>1 DEF ApartBut
  <2>4. NextBlock(h, a) \in DOMAIN h.blk BY <2>1, <1>1, FreeNotSentinel, BlockSizes
  <2> QED BY <2>2, <2>3, <2>4, <1>2
<1> QED BY <1>2, <1>3, <1>4, <1>5, <1>6, SoundFrom DEF SameIndex, SameRegions, SameSizes

(* Marking the one unlisted block used makes the heap sound.               *)
LEMMA MarkUsed ==
  ASSUME NEW h, NEW b \in DOMAIN h.blk, b \notin Sentinels(h), SoundBut(h, b), ApartBut(h, b),
         NEW u \in BOOLEAN, u, NEW g, g = SetUsed(h, b, u)
  PROVE  /\ Sound(g) /\ SameRegions(g, h) /\ Used(g) = Used(h) \cup {b}
         /\ DOMAIN g.blk = DOMAIN h.blk /\ SameSizes(g, h, DOMAIN h.blk)
<1>1. SetUsedResult(g, h, b, u) BY SetUsedPhys DEF SoundBut
<1>2. Marked(g, h, b) BY <1>1 DEF SetUsedResult, Marked
<1> QED BY <1>2, MarkedSound

(* The tail of malloc takes one free block into use and keeps the heap     *)
(* sound.                                                                  *)
LEMMA TakeSound ==
  ASSUME NEW h, Sound(h), NEW b \in FreeBlocks(h), NEW need \in Nat, MinBlock <= need,
         NEW g, g = Take(h, b, need)
  PROVE  /\ Sound(g) /\ SameRegions(g, h) /\ Used(g) = Used(h) \cup {b}
         /\ b \notin Sentinels(h) /\ b \in Nat
         /\ SameSizes(g, h, Used(h)) /\ g.blk[b].size \in {need, h.blk[b].size}
         /\ DOMAIN g.blk \subseteq DOMAIN h.blk \cup {b + need}
<1> DEFINE h1 == tlsf_free_remove(h, b)
           h2 == tlsf_split(h1, b, need)
<1>0. b \in DOMAIN h.blk /\ b \notin Sentinels(h) /\ b \in Nat BY SoundFacts, FreeNotSentinel
<1>1. IsHeap(h1) /\ SameBlocks(h1, h) /\ Linked(h1, FreeBlocks(h) \ {b})
  BY SoundFacts, FreeRemove
<1> HIDE DEF h1
<1>2. Phys(h1) /\ FreeBlocks(h1) = FreeBlocks(h) /\ Used(h1) = Used(h) /\ Sentinels(h1) = Sentinels(h)
      /\ ApartBut(h1, NULL)
  BY <1>1, SoundFacts, PhysFrame DEF SameBlocks, Sound
<1>3. b \in DOMAIN h1.blk /\ b \notin Sentinels(h1) /\ SoundBut(h1, b)
  BY <1>0, <1>1, <1>2 DEF SoundBut, SameBlocks
<1>4. /\ SoundBut(h2, b) /\ SameRegions(h2, h1) /\ Used(h2) = Used(h1)
      /\ b \in DOMAIN h2.blk /\ b \notin Sentinels(h2) /\ ApartBut(h2, b)
      /\ SplitSizes(h2, h1, b, need)
  BY <1>2, <1>3, SplitSound
<1>5. PICK u \in BOOLEAN : u /\ g = SetUsed(h2, b, u) BY DEF Take, h1
<1> HIDE DEF h2
<1>6. /\ Sound(g) /\ SameRegions(g, h2) /\ Used(g) = Used(h2) \cup {b}
      /\ DOMAIN g.blk = DOMAIN h2.blk /\ SameSizes(g, h2, DOMAIN h2.blk)
  BY <1>4, <1>5, MarkUsed
<1>7. SameSizes(g, h, Used(h)) /\ g.blk[b].size \in {need, h.blk[b].size}
      /\ DOMAIN g.blk \subseteq DOMAIN h.blk \cup {b + need}
  <2>1. b \notin Used(h) BY DEF FreeBlocks, Used
  <2>2. \A a \in Used(h) : a \in DOMAIN h2.blk /\ h2.blk[a].size = h.blk[a].size
    BY <2>1, <1>1, <1>2, <1>4 DEF SplitSizes, SameBlocks, Used
  <2> QED BY <2>2, <1>1, <1>4, <1>6 DEF SplitSizes, SameBlocks, SameSizes
<1> QED BY <1>0, <1>1, <1>2, <1>4, <1>6, <1>7 DEF SameRegions, SameBlocks

(* B is free and on no list; every other free block is followed by a used  *)
(* one or by b.                                                            *)
Floating(h, b) ==
  /\ b \in FreeBlocks(h) /\ SoundBut(h, b)
  /\ \A a \in FreeBlocks(h) \ {b} : NextBlock(h, a) = b \/ h.blk[NextBlock(h, a)].used

(* Clearing the used bit of a block leaves it floating.                    *)
LEMMA MarkFree ==
  ASSUME NEW h, Sound(h), NEW b \in Used(h), b \notin Sentinels(h), NEW u, u = FALSE,
         NEW g, g = SetUsed(h, b, u)
  PROVE  /\ Floating(g, b) /\ SameRegions(g, h) /\ Used(g) = Used(h) \ {b}
         /\ DOMAIN g.blk = DOMAIN h.blk /\ SameSizes(g, h, DOMAIN h.blk)
<1>0. b \in DOMAIN h.blk /\ h.blk[b].used BY DEF Used
<1>1. IsHeap(h) /\ Phys(h) /\ Linked(h, FreeBlocks(h)) BY SoundFacts
<1>2. /\ Phys(g) /\ SameIndex(g, h) /\ DOMAIN g.blk = DOMAIN h.blk
      /\ g.blk[b].used = FALSE
      /\ \A a \in DOMAIN h.blk : g.blk[a].size = h.blk[a].size
      /\ \A a \in DOMAIN h.blk \ {b} : g.blk[a].used = h.blk[a].used
  <2>1. SetUsedResult(g, h, b, u) BY <1>0, <1>1, SetUsedPhys
  <2> QED BY <2>1 DEF SetUsedResult
<1>3. FreeBlocks(g) = FreeBlocks(h) \cup {b} /\ b \notin FreeBlocks(h) BY <1>0, <1>2 DEF FreeBlocks
<1>4. Used(g) = Used(h) \ {b} BY <1>2 DEF Used
<1>5. Linked(g, FreeBlocks(h))
  <2>1. \A a \in FreeBlocks(h) : g.blk[a].size = h.blk[a].size BY <1>2 DEF FreeBlocks
  <2>2. g.links = h.links /\ g.head = h.head /\ g.sl = h.sl /\ g.fl = h.fl BY <1>2 DEF SameIndex
  <2> QED BY <1>1, <2>1, <2>2, LinkedFrame
<1>6. ASSUME NEW a \in FreeBlocks(h) PROVE NextBlock(g, a) = b \/ g.blk[NextBlock(g, a)].used
  <2>1. a \in DOMAIN h.blk BY DEF FreeBlocks
  <2>2. NextBlock(g, a) = NextBlock(h, a) BY <2>1, <1>2 DEF NextBlock
  <2>3. h.blk[NextBlock(h, a)].used /\ NextBlock(h, a) \in DOMAIN h.blk BY SoundFacts
  <2> QED BY <2>2, <2>3, <1>2
<1>7. FreeBlocks(g) \ {b} = FreeBlocks(h) BY <1>3
<1> QED BY <1>2, <1>3, <1>4, <1>5, <1>6, <1>7 DEF Floating, SoundBut, SameIndex, SameRegions, SameSizes

(* Coalescing forward.                                                     *)
LEMMA MergeNext ==
  ASSUME NEW h, NEW b, Floating(h, b), NEW next, next = NextBlock(h, b), ~h.blk[next].used,
         NEW g, g = Absorb(tlsf_free_remove(h, next), b)
  PROVE  /\ Floating(g, b) /\ SameRegions(g, h) /\ Used(g) = Used(h)
         /\ g.blk[NextBlock(g, b)].used
         /\ DOMAIN g.blk \subseteq DOMAIN h.blk /\ SameSizes(g, h, Used(h))
<1> DEFINE r == tlsf_free_remove(h, next)
<1>1. /\ b \in FreeBlocks(h) /\ IsHeap(h) /\ Phys(h) /\ Linked(h, FreeBlocks(h) \ {b})
      /\ \A a \in FreeBlocks(h) \ {b} : NextBlock(h, a) = b \/ h.blk[NextBlock(h, a)].used
  BY DEF Floating, SoundBut
<1>2. b \in DOMAIN h.blk /\ b \notin Sentinels(h) BY <1>1, FreeNotSentinel
<1>3. next \in FreeBlocks(h) BY <1>1, <1>2, BlockSizes DEF FreeBlocks
<1>4. b \in Nat /\ h.blk[b].size \in Nat /\ h.blk[b].size >= 1 /\ next = b + h.blk[b].size
  BY <1>1, <1>2, BlockFacts
<1>5. b # next BY <1>4
<1>6. IsHeap(r) /\ SameBlocks(r, h) /\ Linked(r, (FreeBlocks(h) \ {b}) \ {next})
  BY <1>1, <1>3, <1>5, FreeRemove
<1> HIDE DEF r
<1>7. /\ Phys(r) /\ FreeBlocks(r) = FreeBlocks(h) /\ Used(r) = Used(h) /\ Sentinels(r) = Sentinels(h)
      /\ r.blk = h.blk /\ \A a : NextBlock(r, a) = NextBlock(h, a)
  BY <1>1, <1>6, PhysFrame DEF SameBlocks
<1>8. /\ IsHeap(g) /\ Phys(g) /\ SameRegions(g, r)
      /\ Linked(g, (FreeBlocks(h) \ {b}) \ {next})
      /\ FreeBlocks(g) = FreeBlocks(r) \ {next} /\ Used(g) = Used(r)
      /\ DOMAIN g.blk = DOMAIN r.blk \ {next}
      /\ NextBlock(g, b) = NextBlock(r, next) /\ NextBlock(r, next) \in DOMAIN g.blk
      /\ \A a \in DOMAIN g.blk : g.blk[a].used = r.blk[a].used
      /\ \A a \in DOMAIN g.blk : a # b => NextBlock(g, a) = NextBlock(r, a)
      /\ \A a \in DOMAIN g.blk : a # b => g.blk[a].size = r.blk[a].size
  <2>1. /\ b \in DOMAIN r.blk /\ b \notin Sentinels(r) /\ next = NextBlock(r, b) /\ next \in FreeBlocks(r)
        /\ (FreeBlocks(h) \ {b}) \ {next} \subseteq FreeBlocks(r) \ {b, next}
        /\ g = Absorb(r, b)
    BY <1>2, <1>3, <1>7 DEF r
  <2> QED BY <2>1, <1>6, <1>7, AbsorbSound
<1>9. NextBlock(h, next) # b
  <2>1. next \in Nat /\ h.blk[next].size \in Nat /\ NextBlock(h, next) = next + h.blk[next].size
    BY <1>1, <1>3, FreeNotSentinel, BlockFacts
  <2> QED BY <2>1, <1>4
<1>10. g.blk[NextBlock(g, b)].used
  BY <1>1, <1>3, <1>5, <1>7, <1>8, <1>9
<1>11. ASSUME NEW a \in FreeBlocks(g) \ {b} PROVE NextBlock(g, a) = b \/ g.blk[NextBlock(g, a)].used
  <2>1. a \in FreeBlocks(h) \ {b, next} /\ a \in DOMAIN h.blk /\ a \in DOMAIN g.blk /\ a \notin Sentinels(h)
    BY <1>1, <1>7, <1>8, FreeNotSentinel DEF FreeBlocks
  <2>2. NextBlock(g, a) = NextBlock(h, a) BY <2>1, <1>7, <1>8
  <2>3. NextBlock(h, a) \in DOMAIN h.blk BY <2>1, <1>1, BlockSizes
  <2>4. CASE NextBlock(h, a) = b BY <2>2, <2>4
  <2>5. CASE h.blk[NextBlock(h, a)].used
    <3>1. NextBlock(h, a) # next BY <2>5
    <3> QED BY <2>2, <2>3, <2>5, <3>1, <1>7, <1>8
  <2> QED BY <1>1, <2>1, <2>4, <2>5
<1>12. b \in FreeBlocks(g) /\ FreeBlocks(g) \ {b} = (FreeBlocks(h) \ {b}) \ {next}
  BY <1>1, <1>5, <1>7, <1>8
<1>13. DOMAIN g.blk \subseteq DOMAIN h.blk /\ SameSizes(g, h, Used(h))
  <2>1. \A a \in Used(h) : a \in DOMAIN h.blk /\ a # b /\ a # next BY <1>1, <1>3 DEF FreeBlocks, Used
  <2> QED BY <2>1, <1>7, <1>8 DEF SameSizes
<1> QED BY <1>6, <1>7, <1>8, <1>10, <1>11, <1>12, <1>13 DEF Floating, SoundBut, SameRegions, SameBlocks

(* Two ranges that do not overlap have different ends.                     *)
LEMMA EndsDiffer ==
  ASSUME NEW a \in Nat, NEW n \in Nat, NEW p \in Nat, NEW m \in Nat, n >= 1, m >= 1,
         a + n <= p \/ p + m <= a
  PROVE  a + n # p + m
OBVIOUS

(* Coalescing backward.                                                    *)
LEMMA MergePrev ==
  ASSUME NEW h, NEW b, Floating(h, b), h.blk[NextBlock(h, b)].used,
         NEW prev, prev = PrevBlock(h, b), ~h.blk[prev].used,
         NEW g, g = Absorb(tlsf_free_remove(h, prev), prev)
  PROVE  /\ SoundBut(g, prev) /\ ApartBut(g, NULL) /\ SameRegions(g, h) /\ Used(g) = Used(h)
         /\ prev \in FreeBlocks(g)
         /\ DOMAIN g.blk \subseteq DOMAIN h.blk /\ SameSizes(g, h, Used(h))
<1> DEFINE r == tlsf_free_remove(h, prev)
<1>1. /\ b \in FreeBlocks(h) /\ IsHeap(h) /\ Phys(h) /\ Linked(h, FreeBlocks(h) \ {b})
      /\ \A a \in FreeBlocks(h) \ {b} : NextBlock(h, a) = b \/ h.blk[NextBlock(h, a)].used
  BY DEF Floating, SoundBut
<1>2. b \in DOMAIN h.blk /\ b \notin Sentinels(h) BY <1>1, FreeNotSentinel
<1>3. prev \in FreeBlocks(h) BY <1>1, <1>2, BlockSizes DEF FreeBlocks
<1>3a. prev \in DOMAIN h.blk /\ prev \notin Sentinels(h) BY <1>1, <1>3, FreeNotSentinel
<1>4. /\ b \in Nat /\ h.blk[b].prev \in Nat /\ prev = b - h.blk[b].prev
      /\ prev \in Nat /\ h.blk[prev].size \in Nat /\ h.blk[prev].size >= 1
      /\ NextBlock(h, prev) = prev + h.blk[prev].size
  BY <1>1, <1>2, <1>3a, BlockFacts
<1>5. h.blk[prev].size = h.blk[b].prev BY <1>1, <1>2 DEF Phys, Tiled, Sentinels
<1>6. b # prev /\ b = NextBlock(h, prev) BY <1>4, <1>5
<1>7. IsHeap(r) /\ SameBlocks(r, h) /\ Linked(r, (FreeBlocks(h) \ {b}) \ {prev})
  BY <1>1, <1>3, <1>6, FreeRemove
<1> HIDE DEF r
<1>8. /\ Phys(r) /\ FreeBlocks(r) = FreeBlocks(h) /\ Used(r) = Used(h) /\ Sentinels(r) = Sentinels(h)
      /\ r.blk = h.blk /\ \A a : NextBlock(r, a) = NextBlock(h, a)
  BY <1>1, <1>7, PhysFrame DEF SameBlocks
<1>9. /\ IsHeap(g) /\ Phys(g) /\ SameRegions(g, r)
      /\ Linked(g, (FreeBlocks(h) \ {b}) \ {prev})
      /\ FreeBlocks(g) = FreeBlocks(r) \ {b} /\ Used(g) = Used(r)
      /\ DOMAIN g.blk = DOMAIN r.blk \ {b}
      /\ NextBlock(g, prev) = NextBlock(r, b) /\ NextBlock(r, b) \in DOMAIN g.blk
      /\ \A a \in DOMAIN g.blk : g.blk[a].used = r.blk[a].used
      /\ \A a \in DOMAIN g.blk : a # prev => NextBlock(g, a) = NextBlock(r, a)
      /\ \A a \in DOMAIN g.blk : a # prev => g.blk[a].size = r.blk[a].size
  <2>1. /\ prev \in DOMAIN r.blk /\ prev \notin Sentinels(r) /\ b = NextBlock(r, prev) /\ b \in FreeBlocks(r)
        /\ (FreeBlocks(h) \ {b}) \ {prev} \subseteq FreeBlocks(r) \ {prev, b}
        /\ g = Absorb(r, prev)
    BY <1>1, <1>3a, <1>6, <1>8 DEF r
  <2> QED BY <2>1, <1>7, <1>8, AbsorbSound
<1>10. ASSUME NEW a \in FreeBlocks(g) PROVE g.blk[NextBlock(g, a)].used
  <2>1. CASE a = prev BY <2>1, <1>8, <1>9
  <2>2. CASE a # prev
    <3>1. a \in FreeBlocks(h) \ {b, prev} /\ a \in DOMAIN h.blk /\ a \in DOMAIN g.blk /\ a \notin Sentinels(h)
      BY <2>2, <1>1, <1>8, <1>9, FreeNotSentinel DEF FreeBlocks
    <3>2. NextBlock(g, a) = NextBlock(h, a) BY <3>1, <1>8, <1>9
    <3>3. NextBlock(h, a) \in DOMAIN h.blk BY <3>1, <1>1, BlockSizes
    <3>4. NextBlock(h, a) # b
      <4>1. a + h.blk[a].size <= prev \/ prev + h.blk[prev].size <= a BY <3>1, <1>1, <1>3a, Order
      <4>2. a \in Nat /\ h.blk[a].size \in Nat /\ h.blk[a].size >= 1 /\ NextBlock(h, a) = a + h.blk[a].size
        BY <3>1, <1>1, BlockFacts
      <4>3. b = prev + h.blk[prev].size /\ prev \in Nat /\ h.blk[prev].size \in Nat BY <1>4, <1>6
      <4> QED BY <4>1, <4>2, <4>3, <1>4, EndsDiffer
    <3> QED BY <3>1, <3>2, <3>3, <3>4, <1>1, <1>8, <1>9
  <2> QED BY <2>1, <2>2
<1>11. prev \in FreeBlocks(g) /\ FreeBlocks(g) \ {prev} = (FreeBlocks(h) \ {b}) \ {prev}
  BY <1>3, <1>6, <1>8, <1>9
<1>12. DOMAIN g.blk \subseteq DOMAIN h.blk /\ SameSizes(g, h, Used(h))
  <2>1. \A a \in Used(h) : a \in DOMAIN h.blk /\ a # b /\ a # prev BY <1>1, <1>3 DEF FreeBlocks, Used
  <2> QED BY <2>1, <1>8, <1>9 DEF SameSizes
<1> QED BY <1>7, <1>8, <1>9, <1>10, <1>11, <1>12 DEF ApartBut, SoundBut, SameRegions, SameBlocks

(* Between used neighbours a floating block is ready for its list.         *)
LEMMA KeepPrev ==
  ASSUME NEW h, NEW b, Floating(h, b), h.blk[NextBlock(h, b)].used, h.blk[PrevBlock(h, b)].used
  PROVE  SoundBut(h, b) /\ ApartBut(h, NULL) /\ b \in FreeBlocks(h)
<1>1. /\ b \in FreeBlocks(h) /\ SoundBut(h, b) /\ Phys(h)
      /\ \A a \in FreeBlocks(h) \ {b} : NextBlock(h, a) = b \/ h.blk[NextBlock(h, a)].used
  BY DEF Floating, SoundBut
<1>2. ASSUME NEW a \in FreeBlocks(h), NextBlock(h, a) = b PROVE FALSE
  <2>1. a \in DOMAIN h.blk /\ a \notin Sentinels(h) /\ ~h.blk[a].used
    BY <1>1, FreeNotSentinel DEF FreeBlocks
  <2>2. h.blk[b].prev = h.blk[a].size BY <1>2, <1>1, <2>1 DEF Phys, Tiled, Sentinels
  <2>3. a \in Nat /\ h.blk[a].size \in Nat /\ NextBlock(h, a) = a + h.blk[a].size
    BY <1>1, <2>1, BlockFacts
  <2>4. PrevBlock(h, b) = a BY <2>2, <2>3, <1>2 DEF PrevBlock
  <2> QED BY <2>1, <2>4
<1> QED BY <1>1, <1>2 DEF ApartBut

-----------------------------------------------------------------------------
(* Regions *)

(* The blocks the program may hold pointers to.                            *)
UserBlocks(h) == Used(h) \ Sentinels(h)

(* The block behind a block has a larger address.                          *)
LEMMA NextAfter ==
  ASSUME NEW h, Phys(h), NEW b \in DOMAIN h.blk
  PROVE  b \in Nat /\ NextBlock(h, b) \in Nat /\ NextBlock(h, b) > b
<1>1. b \in Nat /\ h.blk[b].size \in Nat /\ h.blk[b].size >= 1 /\ NextBlock(h, b) = b + h.blk[b].size
  BY BlockFacts
<1> QED BY <1>1

(* An address lies in one of two regions that share no memory.             *)
LEMMA WithinOne ==
  ASSUME NEW q, NEW r, RegionOK(q), RegionOK(r), ApartRegions(q, r), NEW x \in Nat, Within(q, x)
  PROVE  ~Within(r, x)
<1>1. q.base \in Nat /\ q.size \in Nat /\ r.base \in Nat /\ r.size \in Nat BY RegionFacts
<1> QED BY <1>1 DEF ApartRegions, Within

(* The sentinels and the first block of a region lie in it.                *)
LEMMA SentinelWithin ==
  ASSUME NEW r, RegionOK(r)
  PROVE  Within(r, StartOf(r)) /\ Within(r, FirstOf(r)) /\ Within(r, EndOf(r))
<1>1. /\ r.base \in Nat /\ r.size \in Nat /\ StartOf(r) \in Nat /\ FirstOf(r) \in Nat /\ EndOf(r) \in Nat
      /\ UsableOf(r) \in Nat /\ FirstOf(r) = StartOf(r) + Header /\ EndOf(r) + Header = r.base + r.size
      /\ EndOf(r) = FirstOf(r) + UsableOf(r) /\ r.base <= StartOf(r)
  BY RegionFacts
<1> QED BY <1>1, SizeFacts DEF Within

(* The neighbours of a block lie in its region.                            *)
LEMMA SameRegion ==
  ASSUME NEW h, Phys(h), NEW b \in DOMAIN h.blk
  PROVE  \E q \in h.regions :
           /\ Within(q, b)
           /\ b \notin Ends(h) => Within(q, NextBlock(h, b))
           /\ b \notin Starts(h) => Within(q, PrevBlock(h, b))
<1>1. PICK q \in h.regions : StartOf(q) <= b /\ NextBlock(h, b) <= q.base + q.size
  BY DEF Phys, Disjoint
<1>2. RegionOK(q) BY DEF Phys, Mapping
<1>3. /\ q.base \in Nat /\ q.size \in Nat /\ StartOf(q) \in Nat /\ EndOf(q) \in Nat
      /\ EndOf(q) + Header = q.base + q.size /\ q.base <= StartOf(q)
      /\ Header \in Nat /\ Header >= 1
  BY <1>2, RegionFacts, SizeFacts
<1>4. b \in Nat /\ NextBlock(h, b) \in Nat /\ NextBlock(h, b) > b BY NextAfter
<1>5. Within(q, b) BY <1>1, <1>3, <1>4 DEF Within
<1>6. StartOf(q) \in DOMAIN h.blk /\ EndOf(q) \in DOMAIN h.blk /\ h.blk[EndOf(q)].size = Header
  BY DEF Phys, SentinelsOK
<1>6a. NextBlock(h, EndOf(q)) = q.base + q.size BY <1>3, <1>6 DEF NextBlock
<1>7. ASSUME b \notin Ends(h) PROVE Within(q, NextBlock(h, b))
  <2>1. b # EndOf(q) BY <1>7 DEF Ends
  <2>2. EndOf(q) < b => NextBlock(h, EndOf(q)) <= b BY <1>6 DEF Phys, Disjoint
  <2>3. b < EndOf(q) BY <2>1, <2>2, <1>1, <1>3, <1>4, <1>6a
  <2>4. NextBlock(h, b) <= EndOf(q) BY <2>3, <1>6 DEF Phys, Disjoint
  <2> QED BY <2>4, <1>1, <1>3, <1>4 DEF Within
<1>8. ASSUME b \notin Starts(h) PROVE Within(q, PrevBlock(h, b))
  <2> DEFINE p == PrevBlock(h, b)
  <2>1. p \in DOMAIN h.blk /\ h.blk[p].size = h.blk[b].prev BY <1>8 DEF Phys, Tiled
  <2>2. p \in Nat /\ h.blk[b].prev \in Nat /\ p = b - h.blk[b].prev /\ NextBlock(h, p) = p + h.blk[p].size
        /\ h.blk[p].size >= 1
    BY <2>1, BlockFacts
  <2> HIDE DEF p
  <2>3. NextBlock(h, p) = b /\ p < b BY <2>1, <2>2, <1>4
  <2>4. b # StartOf(q) BY <1>8 DEF Starts
  <2>5. p < StartOf(q) => b <= StartOf(q) BY <2>1, <2>3, <1>6 DEF Phys, Disjoint
  <2> QED BY <2>2, <2>3, <2>4, <2>5, <1>1, <1>3, <1>4 DEF Within, p
<1> QED BY <1>5, <1>7, <1>8

(* A region whose first block is all of it has no other block but the      *)
(* sentinels.                                                              *)
LEMMA WholeRegion ==
  ASSUME NEW h, Phys(h), NEW r \in h.regions, FirstOf(r) \in DOMAIN h.blk,
         h.blk[FirstOf(r)].size = UsableOf(r), NEW b \in DOMAIN h.blk, Within(r, b)
  PROVE  b \in {StartOf(r), FirstOf(r), EndOf(r)}
<1>1. RegionOK(r) /\ b \in Nat BY BlockFacts DEF Phys, Mapping
<1>2. ASSUME NEW q \in h.regions, Within(q, b) PROVE q = r
  <2>1. RegionOK(q) BY DEF Phys, Mapping
  <2>2. q # r => ApartRegions(q, r) BY DEF Phys, Mapping
  <2> QED BY <1>1, <1>2, <2>1, <2>2, WithinOne
<1>3. CASE b \in Sentinels(h)
  <2>1. PICK q \in h.regions : b = StartOf(q) \/ b = EndOf(q) BY <1>3 DEF Sentinels, Starts, Ends
  <2>2. RegionOK(q) BY DEF Phys, Mapping
  <2>3. Within(q, b) BY <2>1, <2>2, SentinelWithin
  <2> QED BY <2>1, <2>3, <1>2
<1>4. CASE b \notin Sentinels(h)
  <2>1. PICK q \in h.regions : FirstOf(q) <= b /\ NextBlock(h, b) <= EndOf(q) BY <1>4, Inside
  <2>2. RegionOK(q) BY DEF Phys, Mapping
  <2>3. b \in Nat /\ NextBlock(h, b) \in Nat /\ NextBlock(h, b) > b BY NextAfter
  <2>4. /\ q.base \in Nat /\ q.size \in Nat /\ q.base <= StartOf(q) /\ StartOf(q) \in Nat
        /\ FirstOf(q) = StartOf(q) + Header /\ EndOf(q) + Header = q.base + q.size /\ EndOf(q) \in Nat
        /\ FirstOf(q) \in Nat /\ UsableOf(q) \in Nat /\ EndOf(q) = FirstOf(q) + UsableOf(q)
    BY <2>2, RegionFacts
  <2>5. Within(q, b) BY <2>1, <2>3, <2>4, SizeFacts DEF Within
  <2>6. q = r BY <2>5, <1>2
  <2>7. NextBlock(h, FirstOf(r)) = EndOf(r) BY <2>4, <2>6 DEF NextBlock
  <2>8. FirstOf(r) < b => EndOf(r) <= b BY <2>7 DEF Phys, Disjoint
  <2> QED BY <2>1, <2>3, <2>4, <2>6, <2>8
<1> QED BY <1>3, <1>4

(* tlsf_region_remove of a region that is one free block keeps the heap    *)
(* sound.                                                                  *)
LEMMA RegionRemoved ==
  ASSUME NEW h, NEW r \in h.regions, NEW w, w = FirstOf(r), w \in FreeBlocks(h),
         h.blk[w].size = UsableOf(r), SoundBut(h, w), ApartBut(h, NULL),
         NEW g, g = tlsf_region_remove(h, r)
  PROVE  /\ Sound(g) /\ UserBlocks(g) = UserBlocks(h)
         /\ g.regions = h.regions \ {r} /\ g.cache = h.cache
         /\ g.ccount = h.ccount /\ g.cbytes = h.cbytes
         /\ DOMAIN g.blk \subseteq DOMAIN h.blk /\ SameSizes(g, h, UserBlocks(h))
<1> DEFINE D == {x \in DOMAIN h.blk : ~Within(r, x)}
           blk == [a \in D |-> h.blk[a]]
<1>0. IsHeap(h) /\ Phys(h) /\ Linked(h, FreeBlocks(h) \ {w}) BY DEF SoundBut
<1>1. /\ IsHeap(g) /\ g.blk = blk /\ g.regions = h.regions \ {r}
      /\ g.links = h.links /\ g.head = h.head /\ g.sl = h.sl /\ g.fl = h.fl
      /\ g.cache = h.cache /\ g.ccount = h.ccount /\ g.cbytes = h.cbytes
  <2>1. g = [h EXCEPT !.regions = h.regions \ {r}, !.blk = blk]
    BY <1>0 DEF tlsf_region_remove, IsHeap
  <2> HIDE DEF blk
  <2> QED BY <1>0, <2>1 DEF IsHeap
<1>2. DOMAIN g.blk = D /\ \A a \in D : g.blk[a] = h.blk[a] BY <1>1
<1>3. g.blk \in [D -> Block]
  BY <1>0, <1>1 DEF Phys, BlockTypes
<1>4. /\ RegionOK(r) /\ w \in DOMAIN h.blk
      /\ Within(r, StartOf(r)) /\ Within(r, w) /\ Within(r, EndOf(r))
  BY <1>0, SentinelWithin DEF FreeBlocks, Phys, Mapping
<1>5. \A x \in DOMAIN h.blk : Within(r, x) => x \in {StartOf(r), w, EndOf(r)}
  BY <1>0, <1>4, WholeRegion
<1>6. ASSUME NEW q \in h.regions, q # r, NEW x \in Nat, Within(q, x) PROVE ~Within(r, x)
  <2>1. RegionOK(q) /\ ApartRegions(q, r) BY <1>0, <1>6 DEF Phys, Mapping
  <2> QED BY <2>1, <1>4, <1>6, WithinOne
<1> HIDE DEF D, blk
<1>7. D \subseteq DOMAIN h.blk /\ D \subseteq Nat \ {0} BY <1>0 DEF D, Phys, BlockTypes
<1>8. ASSUME NEW q \in h.regions, q # r PROVE StartOf(q) \in D /\ EndOf(q) \in D
  <2>1. StartOf(q) \in DOMAIN h.blk /\ EndOf(q) \in DOMAIN h.blk /\ RegionOK(q)
    BY <1>0 DEF Phys, SentinelsOK, Mapping
  <2>2. Within(q, StartOf(q)) /\ Within(q, EndOf(q)) BY <2>1, SentinelWithin
  <2>3. StartOf(q) \in Nat /\ EndOf(q) \in Nat BY <2>1, RegionFacts
  <2> QED BY <2>1, <2>2, <2>3, <1>6, <1>8 DEF D
<1>9. \A a \in D : /\ a \in Starts(g) <=> a \in Starts(h)
                   /\ a \in Ends(g) <=> a \in Ends(h)
                   /\ a \in Sentinels(g) <=> a \in Sentinels(h)
  <2>1. \A a \in D : a # StartOf(r) /\ a # EndOf(r) BY <1>4 DEF D
  <2> QED BY <1>1, <2>1 DEF Starts, Ends, Sentinels
<1>10. \A a \in D : NextBlock(g, a) = NextBlock(h, a) /\ PrevBlock(g, a) = PrevBlock(h, a)
  BY <1>2 DEF NextBlock, PrevBlock
<1>11. ASSUME NEW a \in D
       PROVE  /\ a \notin Ends(h) => NextBlock(h, a) \in D
              /\ a \notin Starts(h) => PrevBlock(h, a) \in D
  <2>1. a \in DOMAIN h.blk BY <1>7
  <2>2. PICK q \in h.regions : 
           /\ Within(q, a)
           /\ a \notin Ends(h) => Within(q, NextBlock(h, a))
           /\ a \notin Starts(h) => Within(q, PrevBlock(h, a))
    BY <1>0, <2>1, SameRegion
  <2>3. q # r BY <2>2 DEF D
  <2>4. /\ a \notin Ends(h) => NextBlock(h, a) \in DOMAIN h.blk
        /\ a \notin Starts(h) => PrevBlock(h, a) \in DOMAIN h.blk
    BY <1>0, <2>1 DEF Phys, Tiled
  <2>5. \A x \in DOMAIN h.blk : x \in Nat BY <1>0 DEF Phys, BlockTypes
  <2> QED BY <2>2, <2>3, <2>4, <2>5, <1>6 DEF D
<1>12. Mapping(g) BY <1>0, <1>1 DEF Phys, Mapping
<1>13. BlockTypes(g)
  BY <1>0, <1>2, <1>3, <1>7, <1>9 DEF Phys, BlockTypes
<1>14. SentinelsOK(g)
  BY <1>0, <1>1, <1>2, <1>8 DEF Phys, SentinelsOK
<1>15. Tiled(g)
  <2>1. ASSUME NEW a \in D, a \notin Ends(g)
        PROVE  NextBlock(g, a) \in D /\ g.blk[NextBlock(g, a)].prev = g.blk[a].size
    <3>1. h.blk[NextBlock(h, a)].prev = h.blk[a].size BY <1>0, <1>7, <1>9, <2>1 DEF Phys, Tiled
    <3> QED BY <2>1, <3>1, <1>2, <1>9, <1>10, <1>11
  <2>2. ASSUME NEW a \in D, a \notin Starts(g)
        PROVE  PrevBlock(g, a) \in D /\ g.blk[PrevBlock(g, a)].size = g.blk[a].prev
    <3>1. h.blk[PrevBlock(h, a)].size = h.blk[a].prev BY <1>0, <1>7, <1>9, <2>2 DEF Phys, Tiled
    <3> QED BY <2>2, <3>1, <1>2, <1>9, <1>10, <1>11
  <2> QED BY <2>1, <2>2, <1>2 DEF Tiled
<1>16. Disjoint(g)
  <2>1. \A a, b \in D : a < b => NextBlock(g, a) <= b BY <1>0, <1>7, <1>10 DEF Phys, Disjoint
  <2>2. ASSUME NEW a \in D
        PROVE  \E q \in h.regions \ {r} : StartOf(q) <= a /\ NextBlock(g, a) <= q.base + q.size
    <3>1. PICK q \in h.regions : StartOf(q) <= a /\ NextBlock(h, a) <= q.base + q.size
      BY <1>0, <1>7 DEF Phys, Disjoint
    <3>2. RegionOK(q) BY <1>0 DEF Phys, Mapping
    <3>3. q.base \in Nat /\ q.size \in Nat /\ q.base <= StartOf(q) /\ StartOf(q) \in Nat BY <3>2, RegionFacts
    <3>4. a \in Nat /\ NextBlock(h, a) \in Nat /\ NextBlock(h, a) > a BY <1>0, <1>7, NextAfter
    <3>5. Within(q, a) BY <3>1, <3>3, <3>4 DEF Within
    <3>6. q # r BY <3>5 DEF D
    <3> QED BY <3>1, <3>6, <1>10
  <2> QED BY <2>1, <2>2, <1>1, <1>2 DEF Disjoint
<1>17. FreeBlocks(g) = FreeBlocks(h) \ {w}
  <2>1. ASSUME NEW a \in FreeBlocks(h), a # w PROVE a \in D
    <3>1. a \in DOMAIN h.blk /\ ~h.blk[a].used BY DEF FreeBlocks
    <3>2. a # StartOf(r) /\ a # EndOf(r) BY <1>0, <3>1 DEF Phys, SentinelsOK
    <3> QED BY <2>1, <3>1, <3>2, <1>5 DEF D
  <2>2. w \notin D BY <1>4 DEF D
  <2> QED BY <2>1, <2>2, <1>2, <1>7 DEF FreeBlocks
<1>18. Linked(g, FreeBlocks(g))
  <2>1. \A a \in FreeBlocks(g) : g.blk[a].size = h.blk[a].size BY <1>2 DEF FreeBlocks
  <2>2. Linked(h, FreeBlocks(g)) BY <1>0, <1>17
  <2> QED BY <2>1, <2>2, <1>1, LinkedFrame
<1>19. ASSUME NEW a \in FreeBlocks(g) PROVE g.blk[NextBlock(g, a)].used
  <2>1. a \in D /\ a \in FreeBlocks(h) /\ a # NULL BY <1>2, <1>7, <1>17 DEF FreeBlocks, NULL
  <2>2. a \notin Ends(h) BY <1>0, <2>1, FreeNotSentinel DEF Sentinels
  <2>3. NextBlock(h, a) \in D BY <2>1, <2>2, <1>11
  <2>4. h.blk[NextBlock(h, a)].used BY <2>1 DEF ApartBut
  <2> QED BY <2>1, <2>3, <2>4, <1>2, <1>10
<1>20. UserBlocks(g) = UserBlocks(h)
  <2>1. ASSUME NEW a \in UserBlocks(h) PROVE a \in UserBlocks(g)
    <3>1. a \in DOMAIN h.blk /\ h.blk[a].used /\ a \notin Sentinels(h) BY DEF UserBlocks, Used
    <3>2. a # StartOf(r) /\ a # EndOf(r) BY <3>1 DEF Sentinels, Starts, Ends
    <3>3. a # w BY <3>1 DEF FreeBlocks
    <3>4. a \in D BY <3>1, <3>2, <3>3, <1>5 DEF D
    <3> QED BY <3>1, <3>4, <1>2, <1>9 DEF UserBlocks, Used
  <2>2. ASSUME NEW a \in UserBlocks(g) PROVE a \in UserBlocks(h)
    BY <1>2, <1>7, <1>9 DEF UserBlocks, Used
  <2> QED BY <2>1, <2>2
<1>21. Phys(g) BY <1>12, <1>13, <1>14, <1>15, <1>16 DEF Phys
<1>22. Sound(g) BY <1>1, <1>18, <1>19, <1>21, SoundFrom
<1>23. DOMAIN g.blk \subseteq DOMAIN h.blk /\ SameSizes(g, h, UserBlocks(h))
  <2>1. \A a \in UserBlocks(h) : a \in D BY <1>2, <1>20 DEF UserBlocks, Used
  <2> QED BY <2>1, <1>2, <1>7 DEF SameSizes
<1> QED BY <1>1, <1>20, <1>22, <1>23

(* tlsf_region_activate of unused memory keeps the heap sound.             *)
LEMMA RegionMapped ==
  ASSUME NEW h, Sound(h), NEW r, RegionOK(r),
         \A q \in h.regions \cup h.cache : ApartRegions(q, r),
         NEW g, g = tlsf_region_activate(h, r)
  PROVE  /\ Sound(g) /\ UserBlocks(g) = UserBlocks(h)
         /\ g.regions = h.regions \cup {r} /\ g.cache = h.cache
         /\ g.ccount = h.ccount /\ g.cbytes = h.cbytes
         /\ DOMAIN g.blk = DOMAIN h.blk \cup {StartOf(r), FirstOf(r), EndOf(r)}
         /\ SameSizes(g, h, DOMAIN h.blk)
         /\ FreeBlocks(g) = FreeBlocks(h) \cup {FirstOf(r)} /\ g.blk[FirstOf(r)].size = UsableOf(r)
<1> DEFINE start == StartOf(r)
           first == FirstOf(r)
           end == EndOf(r)
           usable == UsableOf(r)
           D == DOMAIN h.blk
           blk == [a \in D \cup {start, first, end} |->
                   IF a = start THEN [size |-> Header, used |-> TRUE, prev |-> 0]
                   ELSE IF a = first THEN [size |-> usable, used |-> FALSE, prev |-> Header]
                   ELSE IF a = end THEN [size |-> Header, used |-> TRUE, prev |-> usable]
                   ELSE h.blk[a]]
           m == [h EXCEPT !.blk = blk, !.regions = h.regions \cup {r}]
<1>0. /\ IsHeap(h) /\ Phys(h) /\ Linked(h, FreeBlocks(h))
      /\ \A a \in FreeBlocks(h) : h.blk[NextBlock(h, a)].used /\ NextBlock(h, a) \in D
  BY SoundFacts
<1>1. g = tlsf_free_insert(m, first) BY <1>0, Zenon DEF tlsf_region_activate
<1>2. /\ IsHeap(m) /\ m.blk = blk /\ m.regions = h.regions \cup {r}
      /\ m.links = h.links /\ m.head = h.head /\ m.sl = h.sl /\ m.fl = h.fl
      /\ m.cache = h.cache /\ m.ccount = h.ccount /\ m.cbytes = h.cbytes
  <2> HIDE DEF blk
  <2>1. PICK n : n = m OBVIOUS
  <2>2. n = [h EXCEPT !.blk = blk, !.regions = h.regions \cup {r}] BY <2>1
  <2>3. /\ IsHeap(n) /\ n.blk = blk /\ n.regions = h.regions \cup {r}
        /\ n.links = h.links /\ n.head = h.head /\ n.sl = h.sl /\ n.fl = h.fl
        /\ n.cache = h.cache /\ n.ccount = h.ccount /\ n.cbytes = h.cbytes
    <3> HIDE DEF m
    <3> QED BY <1>0, <2>2 DEF IsHeap
  <2> QED BY <2>1, <2>3
<1>3. /\ r.base \in Nat /\ r.size \in Nat /\ r.base > 0
      /\ start \in Nat /\ first \in Nat /\ end \in Nat /\ usable \in Nat
      /\ first = start + Header /\ end + Header = r.base + r.size
      /\ end = first + usable /\ r.base <= start
      /\ MinBlock <= usable /\ usable < MaxBlock
  BY RegionFacts
<1>4. Within(r, start) /\ Within(r, first) /\ Within(r, end) BY SentinelWithin
<1>5. ASSUME NEW x \in D PROVE ~Within(r, x)
  <2>1. PICK q \in h.regions : Within(q, x) BY <1>0, SameRegion
  <2>2. RegionOK(q) /\ x \in Nat BY <1>0 DEF Phys, Mapping, BlockTypes
  <2> QED BY <2>1, <2>2, WithinOne
<1>6. start \notin D /\ first \notin D /\ end \notin D BY <1>4, <1>5
<1>7. start # first /\ start # end /\ first # end /\ start > 0
  <2> HIDE DEF start, first, end, usable
  <2> QED BY <1>3, SizeFacts
<1>8. /\ blk[start] = [size |-> Header, used |-> TRUE, prev |-> 0]
      /\ blk[first] = [size |-> usable, used |-> FALSE, prev |-> Header]
      /\ blk[end] = [size |-> Header, used |-> TRUE, prev |-> usable]
      /\ \A a \in D : blk[a] = h.blk[a]
      /\ DOMAIN blk = D \cup {start, first, end}
      /\ blk = [a \in DOMAIN blk |-> blk[a]]
  <2> HIDE DEF start, first, end, usable
  <2> QED BY <1>6, <1>7
<1> HIDE DEF start, first, end, usable, D, blk, m
<1>9. /\ blk[start] \in Block /\ blk[first] \in Block /\ blk[end] \in Block
      /\ \A a \in D : blk[a] \in Block
  BY <1>0, <1>3, <1>8, SizeFacts DEF Block, Phys, BlockTypes, D
<1>10. blk \in [D \cup {start, first, end} -> Block] BY <1>8, <1>9
<1>11. D \subseteq Nat \ {0} BY <1>0 DEF Phys, BlockTypes, D
<1>11a. /\ Starts(m) = Starts(h) \cup {start} /\ Ends(m) = Ends(h) \cup {end}
        /\ Sentinels(m) = Sentinels(h) \cup {start, end}
  <2>1. Starts(m) = Starts(h) \cup {start} BY <1>2 DEF Starts, start
  <2>2. Ends(m) = Ends(h) \cup {end} BY <1>2 DEF Ends, end
  <2> QED BY <2>1, <2>2 DEF Sentinels
<1>12. Starts(h) \subseteq D /\ Ends(h) \subseteq D BY <1>0 DEF Phys, SentinelsOK, Starts, Ends, D
<1>13. \A a \in D : NextBlock(m, a) = NextBlock(h, a) /\ PrevBlock(m, a) = PrevBlock(h, a)
  BY <1>2, <1>8 DEF NextBlock, PrevBlock
<1>14. /\ NextBlock(m, start) = first /\ NextBlock(m, first) = end /\ NextBlock(m, end) = r.base + r.size
       /\ PrevBlock(m, first) = start /\ PrevBlock(m, end) = first
  <2>1. /\ m.blk[start].size = Header /\ m.blk[first].size = usable /\ m.blk[end].size = Header
        /\ m.blk[first].prev = Header /\ m.blk[end].prev = usable
    BY <1>2, <1>8
  <2> QED BY <2>1, <1>3, SizeFacts DEF NextBlock, PrevBlock
<1>15. Mapping(m)
  <2>1. r \notin h.regions \cup h.cache
    <3>1. ~ApartRegions(r, r) BY <1>3, SizeFacts DEF ApartRegions
    <3> QED BY <3>1
  <2>2. \A q \in h.regions \cup h.cache : ApartRegions(r, q) BY DEF ApartRegions
  <2>3. \A q \in h.regions \cup h.cache : RegionOK(q) BY <1>0 DEF Phys, Mapping
  <2>4. \A p, q \in h.regions \cup h.cache : p # q => ApartRegions(p, q) BY <1>0 DEF Phys, Mapping
  <2>5. h.regions \cap h.cache = {} BY <1>0 DEF Phys, Mapping
  <2> QED BY <2>1, <2>2, <2>3, <2>4, <2>5, <1>2 DEF Mapping
<1>16. BlockTypes(m)
  <2>1. ASSUME NEW a \in D \cup {start, first, end}, a \notin Sentinels(m) PROVE m.blk[a].size >= MinBlock
    <3>1. CASE a = first BY <3>1, <1>2, <1>3, <1>8
    <3>2. CASE a \in D
      <4>1. h.blk[a].size >= MinBlock BY <3>2, <2>1, <1>0, <1>11a DEF Phys, BlockTypes, D
      <4> QED BY <3>2, <4>1, <1>2, <1>8
    <3>3. CASE a = start \/ a = end BY <3>3, <2>1, <1>11a
    <3> QED BY <3>1, <3>2, <3>3
  <2>2. D \cup {start, first, end} \subseteq Nat \ {0} BY <1>3, <1>7, <1>11, SizeFacts
  <2> QED BY <2>1, <2>2, <1>2, <1>8, <1>10 DEF BlockTypes
<1>17. SentinelsOK(m)
  <2> SUFFICES ASSUME NEW q \in h.regions \cup {r}
               PROVE  /\ StartOf(q) \in D \cup {start, first, end} /\ blk[StartOf(q)].used /\ blk[StartOf(q)].size = Header
                      /\ EndOf(q) \in D \cup {start, first, end} /\ blk[EndOf(q)].used /\ blk[EndOf(q)].size = Header
    BY <1>2, <1>8 DEF SentinelsOK
  <2>1. CASE q = r BY <2>1, <1>8 DEF start, end
  <2>2. CASE q \in h.regions BY <2>2, <1>0, <1>8 DEF Phys, SentinelsOK, D
  <2> QED BY <2>1, <2>2
<1>18. Tiled(m)
  <2>1. ASSUME NEW a \in D \cup {start, first, end}, a \notin Ends(m)
        PROVE  NextBlock(m, a) \in D \cup {start, first, end} /\ m.blk[NextBlock(m, a)].prev = m.blk[a].size
    <3>1. CASE a = start BY <3>1, <1>2, <1>8, <1>14
    <3>2. CASE a = first BY <3>2, <1>2, <1>8, <1>14
    <3>3. CASE a \in D
      <4>1. NextBlock(h, a) \in D /\ h.blk[NextBlock(h, a)].prev = h.blk[a].size
        BY <3>3, <2>1, <1>0, <1>11a DEF Phys, Tiled, D
      <4> QED BY <4>1, <3>3, <1>2, <1>8, <1>13
    <3> QED BY <2>1, <3>1, <3>2, <3>3, <1>11a
  <2>2. ASSUME NEW a \in D \cup {start, first, end}, a \notin Starts(m)
        PROVE  PrevBlock(m, a) \in D \cup {start, first, end} /\ m.blk[PrevBlock(m, a)].size = m.blk[a].prev
    <3>1. CASE a = end BY <3>1, <1>2, <1>8, <1>14
    <3>2. CASE a = first BY <3>2, <1>2, <1>8, <1>14
    <3>3. CASE a \in D
      <4>1. PrevBlock(h, a) \in D /\ h.blk[PrevBlock(h, a)].size = h.blk[a].prev
        BY <3>3, <2>2, <1>0, <1>11a DEF Phys, Tiled, D
      <4> QED BY <4>1, <3>3, <1>2, <1>8, <1>13
    <3> QED BY <2>2, <3>1, <3>2, <3>3, <1>11a
  <2> QED BY <2>1, <2>2, <1>2, <1>8 DEF Tiled
<1>19. Disjoint(m)
  <2>0. ASSUME NEW a \in D PROVE NextBlock(h, a) <= r.base \/ r.base + r.size <= a
    <3>1. PICK q \in h.regions : StartOf(q) <= a /\ NextBlock(h, a) <= q.base + q.size
      BY <1>0 DEF Phys, Disjoint, D
    <3>2. RegionOK(q) /\ ApartRegions(q, r) BY <1>0 DEF Phys, Mapping
    <3>3. q.base \in Nat /\ q.size \in Nat /\ q.base <= StartOf(q) /\ StartOf(q) \in Nat BY <3>2, RegionFacts
    <3>4. a \in Nat /\ NextBlock(h, a) \in Nat BY <1>0, NextAfter DEF D
    <3> QED BY <3>1, <3>2, <3>3, <3>4, <1>3 DEF ApartRegions
  <2>0a. \A a \in D : a \in Nat /\ NextBlock(h, a) \in Nat /\ NextBlock(h, a) > a BY <1>0, NextAfter DEF D
  <2>1. ASSUME NEW a \in D \cup {start, first, end}, NEW c \in D \cup {start, first, end}, a < c
        PROVE  NextBlock(m, a) <= c
    <3>1. CASE a \in D /\ c \in D BY <3>1, <2>1, <1>0, <1>13 DEF Phys, Disjoint, D
    <3>2. CASE a \in D /\ c \in {start, first, end}
      <4>1. NextBlock(m, a) = NextBlock(h, a) BY <3>2, <1>13
      <4>2. r.base <= c /\ c < r.base + r.size /\ c \in Nat BY <3>2, <1>3, <1>4 DEF Within
      <4>3. NextBlock(h, a) <= r.base \/ r.base + r.size <= a BY <3>2, <2>0
      <4>4. a \in Nat /\ NextBlock(h, a) \in Nat BY <3>2, <2>0a
      <4> QED BY <4>1, <4>2, <4>3, <4>4, <2>1, <1>3
    <3>3. CASE a \in {start, first, end} /\ c \in D
      <4>1. r.base <= a /\ a \in Nat /\ NextBlock(m, a) <= r.base + r.size BY <3>3, <1>3, <1>4, <1>14, SizeFacts DEF Within
      <4>3. NextBlock(h, c) <= r.base \/ r.base + r.size <= c BY <3>3, <2>0
      <4>4. c \in Nat /\ NextBlock(h, c) \in Nat /\ NextBlock(h, c) > c BY <3>3, <2>0a
      <4>5. NextBlock(m, a) \in Nat BY <3>3, <1>3, <1>14
      <4> QED BY <4>1, <4>3, <4>4, <4>5, <2>1, <1>3
    <3>4. CASE a \in {start, first, end} /\ c \in {start, first, end}
      BY <3>4, <2>1, <1>3, <1>14, SizeFacts
    <3> QED BY <3>1, <3>2, <3>3, <3>4
  <2>2. ASSUME NEW a \in D \cup {start, first, end}
        PROVE  \E q \in h.regions \cup {r} : StartOf(q) <= a /\ NextBlock(m, a) <= q.base + q.size
    <3>1. CASE a \in D BY <3>1, <1>0, <1>13 DEF Phys, Disjoint, D
    <3>2. CASE a \in {start, first, end}
      <4>1. start <= a /\ NextBlock(m, a) <= r.base + r.size BY <3>2, <1>3, <1>14, SizeFacts
      <4> QED BY <4>1 DEF start
    <3> QED BY <3>1, <3>2
  <2> QED BY <2>1, <2>2, <1>2, <1>8 DEF Disjoint
<1>20. Phys(m) BY <1>15, <1>16, <1>17, <1>18, <1>19 DEF Phys
<1>21. FreeBlocks(m) = FreeBlocks(h) \cup {first} /\ first \notin FreeBlocks(h)
  BY <1>2, <1>6, <1>8 DEF FreeBlocks, D
<1>22. UserBlocks(m) = UserBlocks(h)
  <2>1. Used(m) = Used(h) \cup {start, end} BY <1>2, <1>8 DEF Used, D
  <2>2. start \notin Used(h) /\ end \notin Used(h) BY <1>6 DEF Used, D
  <2> QED BY <2>1, <2>2, <1>11a DEF UserBlocks
<1>23. Linked(m, FreeBlocks(h))
  <2>1. \A a \in FreeBlocks(h) : m.blk[a].size = h.blk[a].size BY <1>2, <1>8 DEF FreeBlocks, D
  <2> QED BY <2>1, <1>0, <1>2, LinkedFrame
<1>24. SoundBut(m, first)
  <2>1. FreeBlocks(m) \ {first} = FreeBlocks(h) BY <1>21
  <2> QED BY <2>1, <1>2, <1>20, <1>23 DEF SoundBut
<1>25. first \in FreeBlocks(m) BY <1>21
<1>26. SoundBut(g, NULL) /\ SameBlocks(g, m) BY <1>1, <1>24, <1>25, InsertSound
<1>27. ApartBut(m, NULL)
  <2> SUFFICES ASSUME NEW a \in FreeBlocks(m) PROVE m.blk[NextBlock(m, a)].used BY DEF ApartBut
  <2>1. CASE a = first BY <2>1, <1>2, <1>8, <1>14
  <2>2. CASE a \in FreeBlocks(h)
    <3>1. a \in D BY <2>2 DEF FreeBlocks, D
    <3>2. h.blk[NextBlock(h, a)].used /\ NextBlock(h, a) \in D BY <2>2, <1>0
    <3> QED BY <3>1, <3>2, <1>2, <1>8, <1>13
  <2> QED BY <2>1, <2>2, <1>21
<1>28. ApartBut(g, NULL) /\ Used(g) = Used(m) /\ Sentinels(g) = Sentinels(m)
  BY <1>20, <1>26, <1>27, PhysFrame DEF SameBlocks
<1>29. /\ DOMAIN g.blk = DOMAIN h.blk \cup {start, first, end} /\ SameSizes(g, h, DOMAIN h.blk)
       /\ FreeBlocks(g) = FreeBlocks(h) \cup {first} /\ g.blk[first].size = usable
  <2>1. g.blk = blk BY <1>2, <1>26 DEF SameBlocks
  <2>2. FreeBlocks(g) = FreeBlocks(m) BY <1>26, <1>20, PhysFrame DEF SameBlocks
  <2> QED BY <2>1, <2>2, <1>8, <1>21 DEF SameSizes, D
<1> QED BY <1>2, <1>22, <1>26, <1>28, <1>29 DEF Sound, SameBlocks, UserBlocks, start, first, end, usable

-----------------------------------------------------------------------------
(* The region cache *)

(* f adds up the sizes of every set of regions of S, in whatever order.    *)
Totals(f, S) ==
  /\ f \in [SUBSET S -> Nat] /\ f[{}] = 0
  /\ \A T \in SUBSET S : \A r \in T : f[T] = r.size + f[T \ {r}]

(* With one region more the sums are those without it, and the same with   *)
(* its size added.                                                         *)
LEMMA TotalsGrow ==
  ASSUME NEW S, NEW f, Totals(f, S), NEW x, x \notin S, x.size \in Nat, \A r \in S : r.size \in Nat
  PROVE  \E g : Totals(g, S \cup {x})
<1> DEFINE U == S \cup {x}
           g == [T \in SUBSET U |-> IF x \in T THEN x.size + f[T \ {x}] ELSE f[T]]
<1>1. \A T \in SUBSET S : f[T] \in Nat BY DEF Totals
<1>2. \A T \in SUBSET U : T \ {x} \in SUBSET S OBVIOUS
<1>3. \A T \in SUBSET U : x \notin T => T \in SUBSET S OBVIOUS
<1>4. \A T \in SUBSET S : T \in SUBSET U /\ x \notin T OBVIOUS
<1>5. \A T \in SUBSET U : g[T] \in Nat
  <2> SUFFICES ASSUME NEW T \in SUBSET U PROVE g[T] \in Nat OBVIOUS
  <2>1. CASE x \in T
    <3>1. g[T] = x.size + f[T \ {x}] BY <2>1
    <3>2. f[T \ {x}] \in Nat BY <1>1, <1>2
    <3> QED BY <3>1, <3>2
  <2>2. CASE x \notin T
    <3>1. g[T] = f[T] BY <2>2
    <3> QED BY <1>1, <1>3, <2>2, <3>1
  <2> QED BY <2>1, <2>2
<1>6. g \in [SUBSET U -> Nat] BY <1>5
<1>7. g[{}] = 0
  <2>1. {} \in SUBSET U /\ x \notin {} OBVIOUS
  <2>2. g[{}] = f[{}] BY <2>1
  <2> QED BY <2>2 DEF Totals
<1>8. ASSUME NEW T \in SUBSET U, NEW r \in T PROVE g[T] = r.size + g[T \ {r}]
  <2>0. T \ {r} \in SUBSET U /\ r.size \in Nat OBVIOUS
  <2>1. CASE r = x
    <3>1. g[T] = x.size + f[T \ {x}] BY <2>1
    <3>2. g[T \ {x}] = f[T \ {x}] BY <2>0, <2>1
    <3> QED BY <2>1, <3>1, <3>2
  <2>2. CASE r # x /\ x \in T
    <3>1. g[T] = x.size + f[T \ {x}] BY <2>2
    <3>2. g[T \ {r}] = x.size + f[(T \ {r}) \ {x}] BY <2>0, <2>2
    <3>3. T \ {x} \in SUBSET S /\ r \in T \ {x} BY <2>2
    <3>4. f[T \ {x}] = r.size + f[(T \ {x}) \ {r}] BY <3>3 DEF Totals
    <3>5. (T \ {x}) \ {r} = (T \ {r}) \ {x} /\ (T \ {x}) \ {r} \in SUBSET S BY <3>3
    <3> DEFINE rest == f[(T \ {r}) \ {x}]
    <3>7. rest \in Nat BY <1>1, <3>5
    <3>8. g[T] = x.size + (r.size + rest) /\ g[T \ {r}] = x.size + rest BY <3>1, <3>2, <3>4, <3>5
    <3> HIDE DEF g, rest
    <3>9. \A i, j, k \in Nat : i + (j + k) = j + (i + k) OBVIOUS
    <3>10. x.size + (r.size + rest) = r.size + (x.size + rest) BY <2>0, <3>7, <3>9
    <3> QED BY <3>8, <3>10
  <2>3. CASE x \notin T
    <3>1. T \in SUBSET S /\ x \notin T \ {r} BY <2>3
    <3>2. g[T] = f[T] /\ g[T \ {r}] = f[T \ {r}] BY <2>0, <2>3, <3>1
    <3> QED BY <3>1, <3>2 DEF Totals
  <2> QED BY <2>1, <2>2, <2>3
<1> HIDE DEF g
<1> QED BY <1>6, <1>7, <1>8 DEF Totals

(* Every finite set of regions has its sums.                               *)
LEMMA TotalsExist ==
  ASSUME NEW S, IsFiniteSet(S), \A r \in S : r.size \in Nat
  PROVE  \E f : Totals(f, S)
<1> DEFINE Good(X) == \E f : Totals(f, X)
           P == {n \in Nat : \A X \in SUBSET S : Cardinality(X) = n => Good(X)}
<1>0. \A X \in SUBSET S : IsFiniteSet(X) /\ Cardinality(X) \in Nat BY FS_Subset, FS_CardinalityType
<1>1. 0 \in P
  <2> SUFFICES ASSUME NEW X \in SUBSET S, Cardinality(X) = 0 PROVE Good(X) OBVIOUS
  <2>1. X = {} BY <1>0, FS_EmptySet
  <2> DEFINE f == [T \in SUBSET {} |-> 0]
  <2>2. Totals(f, {}) BY DEF Totals
  <2> QED BY <2>1, <2>2
<1>2. ASSUME NEW n \in P PROVE n + 1 \in P
  <2>0. n \in Nat OBVIOUS
  <2> SUFFICES ASSUME NEW X \in SUBSET S, Cardinality(X) = n + 1 PROVE Good(X) BY <2>0
  <2>1. X # {}
    <3>1. Cardinality({}) = 0 BY FS_EmptySet
    <3>2. n + 1 # 0 BY <2>0
    <3> QED BY <3>1, <3>2
  <2>2. PICK x : x \in X BY <2>1
  <2> DEFINE Y == X \ {x}
  <2>3. Cardinality(Y) = n
    <3>1. IsFiniteSet(X) /\ x \in X BY <1>0, <2>2
    <3>2. Cardinality(X \ {x}) = Cardinality(X) - 1 BY ONLY <3>1, FS_RemoveElement, Zenon
    <3>3. (n + 1) - 1 = n BY <2>0
    <3> QED BY <3>2, <3>3
  <2>4. PICK f : Totals(f, Y) BY <2>3
  <2>5. X = Y \cup {x} /\ x \notin Y /\ x.size \in Nat /\ \A r \in Y : r.size \in Nat BY <2>2
  <2> HIDE DEF Y
  <2> QED BY <2>4, <2>5, TotalsGrow
<1>3. P = Nat
  <2>1. P \in SUBSET Nat OBVIOUS
  <2> HIDE DEF P
  <2> QED BY <1>1, <1>2, <2>1, Induction
<1>4. Cardinality(S) \in P BY <1>0, <1>3
<1> QED BY <1>4

(* g takes the size of some region off for each set.                       *)
Counts(g, S) ==
  /\ g[{}] = 0
  /\ \A T \in SUBSET S : T # {} => \E r \in T : g[T] = r.size + g[T \ {r}]

(* Two functions that take the size of one region of each set off agree,   *)
(* whichever region they take.                                             *)
LEMMA TotalsAgree ==
  ASSUME NEW S, IsFiniteSet(S), NEW f, Totals(f, S), NEW g, Counts(g, S)
  PROVE  \A T \in SUBSET S : g[T] = f[T]
<1> DEFINE P == {n \in Nat : \A X \in SUBSET S : Cardinality(X) = n => g[X] = f[X]}
<1>0. \A X \in SUBSET S : IsFiniteSet(X) /\ Cardinality(X) \in Nat BY FS_Subset, FS_CardinalityType
<1>1. 0 \in P
  <2> SUFFICES ASSUME NEW X \in SUBSET S, Cardinality(X) = 0 PROVE g[X] = f[X] OBVIOUS
  <2>1. X = {} BY <1>0, FS_EmptySet
  <2> QED BY <2>1 DEF Totals, Counts
<1>2. ASSUME NEW n \in P PROVE n + 1 \in P
  <2>0. n \in Nat OBVIOUS
  <2> SUFFICES ASSUME NEW X \in SUBSET S, Cardinality(X) = n + 1 PROVE g[X] = f[X] BY <2>0
  <2>1. X # {}
    <3>1. Cardinality({}) = 0 BY FS_EmptySet
    <3>2. n + 1 # 0 BY <2>0
    <3> QED BY <3>1, <3>2
  <2>2. PICK r \in X : g[X] = r.size + g[X \ {r}] BY <2>1 DEF Counts
  <2>3. Cardinality(X \ {r}) = n
    <3>1. IsFiniteSet(X) /\ r \in X BY <1>0, <2>2
    <3>2. Cardinality(X \ {r}) = Cardinality(X) - 1 BY ONLY <3>1, FS_RemoveElement, Zenon
    <3>3. (n + 1) - 1 = n BY <2>0
    <3> QED BY <3>2, <3>3
  <2>4. g[X \ {r}] = f[X \ {r}] BY <2>3
  <2>5. f[X] = r.size + f[X \ {r}] BY DEF Totals
  <2> QED BY <2>2, <2>4, <2>5
<1>3. P = Nat
  <2>1. P \in SUBSET Nat OBVIOUS
  <2> HIDE DEF P
  <2> QED BY <1>1, <1>2, <2>1, Induction
<1> QED BY <1>0, <1>3

(* SumSizes adds up the sizes: it is what each such function says.         *)
LEMMA SumIsTotal ==
  ASSUME NEW S, IsFiniteSet(S), \A r \in S : r.size \in Nat, NEW f, Totals(f, S)
  PROVE  SumSizes(S) = f[S]
<1> DEFINE body(g) == [T \in SUBSET S |->
             IF T = {} THEN 0 ELSE LET r == CHOOSE r \in T : TRUE IN r.size + g[T \ {r}]]
           sum == CHOOSE g : g = body(g)
<1>1. SumSizes(S) = sum[S] BY DEF SumSizes
<1>2. f = body(f)
  <2>1. ASSUME NEW T \in SUBSET S PROVE f[T] = body(f)[T]
    <3>1. CASE T = {} BY <3>1 DEF Totals
    <3>2. CASE T # {}
      <4> DEFINE r == CHOOSE r \in T : TRUE
      <4>1. r \in T BY <3>2
      <4>2. body(f)[T] = r.size + f[T \ {r}] BY <3>2
      <4> HIDE DEF r, body
      <4> QED BY <4>1, <4>2 DEF Totals
    <3> QED BY <3>1, <3>2
  <2>2. f \in [SUBSET S -> Nat] BY DEF Totals
  <2>3. f = [T \in SUBSET S |-> f[T]] /\ body(f) = [T \in SUBSET S |-> body(f)[T]] BY <2>2
  <2> HIDE DEF body
  <2> QED BY <2>1, <2>3
<1>3. sum = body(sum)
  <2> HIDE DEF body
  <2> QED BY <1>2
<1> HIDE DEF sum
<1>4. sum[{}] = 0
  <2>1. {} \in SUBSET S /\ body(sum)[{}] = 0 OBVIOUS
  <2> HIDE DEF body
  <2> QED BY <1>3, <2>1
<1>5. \A T \in SUBSET S : T # {} => \E r \in T : sum[T] = r.size + sum[T \ {r}]
  <2> SUFFICES ASSUME NEW T \in SUBSET S, T # {} PROVE \E r \in T : sum[T] = r.size + sum[T \ {r}]
    OBVIOUS
  <2> DEFINE r == CHOOSE r \in T : TRUE
  <2>1. r \in T OBVIOUS
  <2>2. body(sum)[T] = r.size + sum[T \ {r}] OBVIOUS
  <2> HIDE DEF r, body
  <2> QED BY <1>3, <2>1, <2>2
<1> HIDE DEF body
<1>6. \A T \in SUBSET S : sum[T] = f[T]
  <2>1. Counts(sum, S) BY <1>4, <1>5 DEF Counts
  <2> QED BY <2>1, TotalsAgree
<1> QED BY <1>1, <1>6

(* The sum of a set is a number, and with one region more it is larger by  *)
(* its size.                                                               *)
LEMMA SumGrows ==
  ASSUME NEW S, IsFiniteSet(S), \A r \in S : r.size \in Nat, NEW x, x \notin S, x.size \in Nat
  PROVE  SumSizes(S) \in Nat /\ SumSizes(S \cup {x}) = SumSizes(S) + x.size
<1> DEFINE U == S \cup {x}
<1>1. IsFiniteSet(U) /\ \A r \in U : r.size \in Nat BY FS_AddElement
<1>2. S \in SUBSET U /\ U \in SUBSET U /\ x \in U /\ U \ {x} = S OBVIOUS
<1> HIDE DEF U
<1>3. PICK f : Totals(f, S) BY TotalsExist
<1>4. PICK g : Totals(g, U) BY <1>1, TotalsExist
<1>5. SumSizes(S) = f[S] /\ SumSizes(U) = g[U] BY <1>1, <1>3, <1>4, SumIsTotal
<1>6. g[U] = x.size + g[S] BY <1>2, <1>4 DEF Totals
<1>7. g[S] = f[S]
  <2>1. g[{}] = 0 BY <1>4 DEF Totals
  <2>2. \A T \in SUBSET S : T # {} => \E r \in T : g[T] = r.size + g[T \ {r}]
    <3> SUFFICES ASSUME NEW T \in SUBSET S, T # {} PROVE \E r \in T : g[T] = r.size + g[T \ {r}]
      OBVIOUS
    <3>1. T \in SUBSET U BY <1>2
    <3>2. PICK r : r \in T OBVIOUS
    <3>3. g[T] = r.size + g[T \ {r}] BY <1>4, <3>1, <3>2 DEF Totals
    <3> QED BY <3>2, <3>3
  <2>3. Counts(g, S) BY <2>1, <2>2 DEF Counts
  <2>4. \A T \in SUBSET S : g[T] = f[T] BY <1>3, <2>3, TotalsAgree
  <2> QED BY <2>4
<1>8. f[S] \in Nat BY <1>3 DEF Totals
<1> QED BY <1>5, <1>6, <1>7, <1>8 DEF U

(* No region, no byte.                                                     *)
LEMMA SumEmpty == SumSizes({}) = 0
<1>1. IsFiniteSet({}) BY FS_EmptySet
<1>2. PICK f : Totals(f, {}) BY <1>1, TotalsExist
<1>3. SumSizes({}) = f[{}] BY <1>1, <1>2, SumIsTotal
<1> QED BY <1>2, <1>3 DEF Totals

(* The counters of the region cache tell how many regions and bytes it     *)
(* has, and respect its limits.                                            *)
CacheInv(h) ==
  /\ IsFiniteSet(h.cache) /\ h.ccount = Cardinality(h.cache) /\ h.ccount <= CacheMax
  /\ h.cbytes \in Int /\ h.cbytes <= CacheBytes /\ h.cbytes = SumSizes(h.cache)

(* The inductive invariant of the heap.                                    *)
HeapInv(h) == Sound(h) /\ CacheInv(h) /\ OnGrid(h)

(* g and h differ in the region cache alone.                               *)
CacheChange(g, h) ==
  /\ IsHeap(g) /\ g.blk = h.blk /\ g.regions = h.regions
  /\ g.links = h.links /\ g.head = h.head /\ g.sl = h.sl /\ g.fl = h.fl

(* A change of the cache alone leaves the rest of the heap sound.          *)
LEMMA CacheFrame ==
  ASSUME NEW h, Sound(h), NEW g, CacheChange(g, h), Mapping(g)
  PROVE  Sound(g) /\ UserBlocks(g) = UserBlocks(h)
<1>0. IsHeap(h) /\ Phys(h) /\ Linked(h, FreeBlocks(h)) BY SoundFacts
<1>1. Starts(g) = Starts(h) /\ Ends(g) = Ends(h) /\ Sentinels(g) = Sentinels(h)
  BY SentinelsFrame DEF CacheChange
<1>2. \A b : NextBlock(g, b) = NextBlock(h, b) /\ PrevBlock(g, b) = PrevBlock(h, b)
  BY DEF CacheChange, NextBlock, PrevBlock
<1>3. FreeBlocks(g) = FreeBlocks(h) /\ Used(g) = Used(h) BY DEF CacheChange, FreeBlocks, Used
<1>4. BlockTypes(g) BY <1>0, <1>1 DEF CacheChange, Phys, BlockTypes
<1>5. SentinelsOK(g) BY <1>0 DEF CacheChange, Phys, SentinelsOK
<1>6. Tiled(g) BY <1>0, <1>1, <1>2 DEF CacheChange, Phys, Tiled
<1>7. Disjoint(g) BY <1>0, <1>2 DEF CacheChange, Phys, Disjoint
<1>8. Phys(g) BY <1>4, <1>5, <1>6, <1>7 DEF Phys
<1>9. Linked(g, FreeBlocks(g))
  <2>1. \A a \in FreeBlocks(h) : g.blk[a].size = h.blk[a].size BY DEF CacheChange
  <2>2. Linked(g, FreeBlocks(h)) BY <2>1, <1>0, LinkedFrame DEF CacheChange
  <2> QED BY <2>2, <1>3
<1>10. \A a \in FreeBlocks(g) : g.blk[NextBlock(g, a)].used BY <1>2, <1>3, SoundFacts DEF CacheChange
<1> QED BY <1>1, <1>3, <1>8, <1>9, <1>10, SoundFrom DEF CacheChange, UserBlocks

(* tlsf_region_put_cache keeps the invariant: the cache never exceeds its  *)
(* limits.                                                                 *)
LEMMA PutCache ==
  ASSUME NEW h, HeapInv(h), NEW r, RegionOK(r),
         \A q \in h.regions \cup h.cache : ApartRegions(q, r),
         r.base % Align = 0, r.size % Align = 0,
         NEW g, g = tlsf_region_put_cache(h, r)
  PROVE  HeapInv(g) /\ UserBlocks(g) = UserBlocks(h) /\ g.blk = h.blk /\ g.regions = h.regions
<1>0. IsHeap(h) /\ Phys(h) BY SoundFacts DEF HeapInv
<1>1. CASE h.ccount >= CacheMax \/ r.size > CacheBytes - h.cbytes
  BY <1>1 DEF tlsf_region_put_cache
<1>2. CASE ~(h.ccount >= CacheMax \/ r.size > CacheBytes - h.cbytes)
  <2>1. g = [h EXCEPT !.cache = h.cache \cup {r}, !.ccount = h.ccount + 1, !.cbytes = h.cbytes + r.size]
    BY <1>0, <1>2 DEF tlsf_region_put_cache, IsHeap
  <2>2. /\ CacheChange(g, h) /\ g.cache = h.cache \cup {r}
        /\ g.ccount = h.ccount + 1 /\ g.cbytes = h.cbytes + r.size
    BY <1>0, <2>1 DEF IsHeap, CacheChange
  <2>3. r.size \in Nat /\ r.base \in Nat /\ r.size >= 1 BY RegionFacts, SizeFacts, Constants DEF RegionOK, RegionOverhead
  <2>4. r \notin h.regions \cup h.cache
    <3>1. ~ApartRegions(r, r) BY <2>3 DEF ApartRegions
    <3> QED BY <3>1
  <2>5. Mapping(g)
    <3>2. \A q \in h.regions \cup h.cache : ApartRegions(r, q) BY DEF ApartRegions
    <3>3. \A q \in h.regions \cup h.cache : RegionOK(q) BY <1>0 DEF Phys, Mapping
    <3>4. \A p, q \in h.regions \cup h.cache : p # q => ApartRegions(p, q) BY <1>0 DEF Phys, Mapping
    <3>5. h.regions \cap h.cache = {} BY <1>0 DEF Phys, Mapping
    <3> QED BY <2>2, <2>4, <3>2, <3>3, <3>4, <3>5 DEF Mapping, CacheChange
  <2>6. Sound(g) /\ UserBlocks(g) = UserBlocks(h) BY <2>2, <2>5, CacheFrame DEF HeapInv
  <2>7. IsFiniteSet(g.cache) /\ Cardinality(g.cache) = Cardinality(h.cache) + 1
    <3>1. IsFiniteSet(h.cache) /\ r \notin h.cache BY <2>4 DEF HeapInv, CacheInv
    <3>2. /\ IsFiniteSet(h.cache \cup {r})
          /\ Cardinality(h.cache \cup {r}) = Cardinality(h.cache) + 1
      BY ONLY <3>1, FS_AddElement, Zenon
    <3> QED BY <2>2, <3>2
  <2>8. Cardinality(h.cache) \in Nat BY FS_CardinalityType DEF HeapInv, CacheInv
  <2>8a. SumSizes(g.cache) = h.cbytes + r.size
    <3>1. IsFiniteSet(h.cache) /\ r \notin h.cache BY <2>4 DEF HeapInv, CacheInv
    <3>2. \A q \in h.cache : q.size \in Nat BY <1>0, RegionFacts DEF Phys, Mapping
    <3>3. SumSizes(h.cache \cup {r}) = SumSizes(h.cache) + r.size BY <2>3, <3>1, <3>2, SumGrows
    <3> QED BY <2>2, <3>3 DEF HeapInv, CacheInv
  <2>9. CacheInv(g)
    BY <1>2, <2>2, <2>3, <2>7, <2>8, <2>8a, TlsfAssumption DEF HeapInv, CacheInv
  <2>10. OnGrid(g) BY <2>2 DEF HeapInv, OnGrid, CacheChange
  <2> QED BY <2>2, <2>6, <2>9, <2>10 DEF HeapInv, CacheChange
<1> QED BY <1>1, <1>2

(* tlsf_region_take_cache keeps the invariant and returns a region that may *)
(* be activated.                                                           *)
LEMMA TakeCache ==
  ASSUME NEW h, HeapInv(h), NEW r \in h.cache, NEW g, g = tlsf_region_take_cache(h, r)
  PROVE  /\ HeapInv(g) /\ UserBlocks(g) = UserBlocks(h) /\ RegionOK(r)
         /\ \A q \in g.regions \cup g.cache : ApartRegions(q, r)
         /\ r.base % Align = 0 /\ r.size % Align = 0
         /\ g.blk = h.blk /\ g.regions = h.regions
<1>0. IsHeap(h) /\ Phys(h) BY SoundFacts DEF HeapInv
<1>1. g = [h EXCEPT !.cache = h.cache \ {r}, !.ccount = h.ccount - 1, !.cbytes = h.cbytes - r.size]
  BY <1>0 DEF tlsf_region_take_cache, IsHeap
<1>2. /\ CacheChange(g, h) /\ g.cache = h.cache \ {r}
      /\ g.ccount = h.ccount - 1 /\ g.cbytes = h.cbytes - r.size
  BY <1>0, <1>1 DEF IsHeap, CacheChange
<1>3. RegionOK(r) BY <1>0 DEF Phys, Mapping
<1>4. r.size \in Nat BY <1>3, RegionFacts
<1>5. Mapping(g) BY <1>0, <1>2 DEF Phys, Mapping, CacheChange
<1>6. Sound(g) /\ UserBlocks(g) = UserBlocks(h) BY <1>2, <1>5, CacheFrame DEF HeapInv
<1>7. IsFiniteSet(g.cache) /\ Cardinality(g.cache) = Cardinality(h.cache) - 1
  <2>1. IsFiniteSet(h.cache) /\ r \in h.cache BY DEF HeapInv, CacheInv
  <2>2. /\ IsFiniteSet(h.cache \ {r})
        /\ Cardinality(h.cache \ {r}) = Cardinality(h.cache) - 1
    BY ONLY <2>1, FS_RemoveElement, Zenon
  <2> QED BY <1>2, <2>2
<1>8. Cardinality(h.cache) \in Nat BY FS_CardinalityType DEF HeapInv, CacheInv
<1>8a. SumSizes(g.cache) = h.cbytes - r.size
  <2>1. IsFiniteSet(g.cache) /\ r \notin g.cache /\ g.cache \cup {r} = h.cache BY <1>2, <1>7
  <2>2. \A q \in g.cache : q.size \in Nat BY <1>0, <1>2, RegionFacts DEF Phys, Mapping
  <2>3. SumSizes(g.cache) \in Nat /\ SumSizes(h.cache) = SumSizes(g.cache) + r.size
    BY <1>4, <2>1, <2>2, SumGrows
  <2>4. h.cbytes = SumSizes(h.cache) BY DEF HeapInv, CacheInv
  <2> QED BY <1>4, <2>3, <2>4
<1>9. CacheInv(g)
  BY <1>2, <1>4, <1>7, <1>8, <1>8a, TlsfAssumption DEF HeapInv, CacheInv
<1>10. \A q \in g.regions \cup g.cache : ApartRegions(q, r)
  <2>1. r \notin h.regions BY <1>0 DEF Phys, Mapping
  <2>2. \A p, q \in h.regions \cup h.cache : p # q => ApartRegions(p, q) BY <1>0 DEF Phys, Mapping
  <2> QED BY <2>1, <2>2, <1>2 DEF CacheChange
<1>11. g.blk = h.blk /\ g.regions = h.regions BY <1>2 DEF CacheChange
<1>12. OnGrid(g) /\ r.base % Align = 0 /\ r.size % Align = 0 BY <1>2, <1>11 DEF HeapInv, OnGrid
<1> QED BY <1>3, <1>6, <1>9, <1>10, <1>11, <1>12 DEF HeapInv

(* tlsf_region_cache_flush keeps the invariant.                            *)
LEMMA FlushCache ==
  ASSUME NEW h, HeapInv(h), NEW g, g = tlsf_region_cache_flush(h)
  PROVE  HeapInv(g) /\ UserBlocks(g) = UserBlocks(h) /\ g.blk = h.blk /\ g.regions = h.regions
<1>0. IsHeap(h) /\ Phys(h) BY SoundFacts DEF HeapInv
<1>2. CacheChange(g, h) /\ g.cache = {} /\ g.ccount = 0 /\ g.cbytes = 0
  BY <1>0 DEF IsHeap, CacheChange, tlsf_region_cache_flush
<1>3. Mapping(g) BY <1>0, <1>2 DEF Phys, Mapping, CacheChange
<1>4. Sound(g) /\ UserBlocks(g) = UserBlocks(h) BY <1>2, <1>3, CacheFrame DEF HeapInv
<1>5. CacheInv(g) BY <1>2, FS_EmptySet, SumEmpty, TlsfAssumption DEF CacheInv
<1>6. g.blk = h.blk /\ g.regions = h.regions BY <1>2 DEF CacheChange
<1>7. OnGrid(g) BY <1>2, <1>6 DEF HeapInv, OnGrid
<1> QED BY <1>4, <1>5, <1>6, <1>7 DEF HeapInv

(* Activating a region keeps the invariant, and leaves the old blocks as   *)
(* they were.                                                              *)
LEMMA Activate ==
  ASSUME NEW h, HeapInv(h), NEW r, RegionOK(r),
         \A q \in h.regions \cup h.cache : ApartRegions(q, r),
         r.base % Align = 0, r.size % Align = 0,
         NEW g, g = tlsf_region_activate(h, r)
  PROVE  /\ HeapInv(g) /\ UserBlocks(g) = UserBlocks(h)
         /\ g.regions = h.regions \cup {r} /\ SameSizes(g, h, DOMAIN h.blk)
         /\ FreeBlocks(g) = FreeBlocks(h) \cup {FirstOf(r)} /\ g.blk[FirstOf(r)].size = UsableOf(r)
<1>1. /\ Sound(g) /\ UserBlocks(g) = UserBlocks(h)
      /\ g.regions = h.regions \cup {r} /\ g.cache = h.cache
      /\ g.ccount = h.ccount /\ g.cbytes = h.cbytes
      /\ DOMAIN g.blk = DOMAIN h.blk \cup {StartOf(r), FirstOf(r), EndOf(r)}
      /\ SameSizes(g, h, DOMAIN h.blk)
      /\ FreeBlocks(g) = FreeBlocks(h) \cup {FirstOf(r)} /\ g.blk[FirstOf(r)].size = UsableOf(r)
  BY RegionMapped DEF HeapInv
<1>2. OnGrid(g) BY <1>1, RegionAligned DEF HeapInv, OnGrid
<1> QED BY <1>1, <1>2 DEF HeapInv, CacheInv

(* An active region has no free block that is all of it.                   *)
Busy(h, r) == ~(FirstOf(r) \in FreeBlocks(h) /\ h.blk[FirstOf(r)].size = UsableOf(r))

(* The region of a block in use by the program is busy.                    *)
LEMMA UserBusy ==
  ASSUME NEW h, Phys(h), NEW r \in h.regions, NEW b \in UserBlocks(h), Within(r, b)
  PROVE  Busy(h, r)
<1>1. b \in DOMAIN h.blk /\ h.blk[b].used /\ b \notin Sentinels(h) BY DEF UserBlocks, Used
<1>2. b # StartOf(r) /\ b # EndOf(r) BY <1>1 DEF Sentinels, Starts, Ends
<1>3. ASSUME FirstOf(r) \in FreeBlocks(h), h.blk[FirstOf(r)].size = UsableOf(r) PROVE FALSE
  <2>1. FirstOf(r) \in DOMAIN h.blk /\ ~h.blk[FirstOf(r)].used BY <1>3 DEF FreeBlocks
  <2>2. b = FirstOf(r) BY <1>1, <1>2, <1>3, <2>1, WholeRegion
  <2> QED BY <1>1, <2>1, <2>2
<1> QED BY <1>3 DEF Busy

(* Behind the start sentinel of a region lies its first block.             *)
LEMMA FirstBlock ==
  ASSUME NEW h, Phys(h), NEW r \in h.regions
  PROVE  FirstOf(r) \in DOMAIN h.blk
<1> DEFINE start == StartOf(r)
           first == FirstOf(r)
           end == EndOf(r)
<1>1. RegionOK(r) /\ start \in DOMAIN h.blk /\ h.blk[start].size = Header
  BY DEF Phys, Mapping, SentinelsOK
<1>2. /\ start \in Nat /\ first \in Nat /\ end \in Nat /\ UsableOf(r) \in Nat
      /\ first = start + Header /\ end = first + UsableOf(r) /\ Header \in Nat /\ Header >= 1
  BY <1>1, RegionFacts, SizeFacts
<1>3. Within(r, start) BY <1>1, SentinelWithin
<1>4. start # end /\ NextBlock(h, start) = first
  <2>1. NextBlock(h, start) = first BY <1>1, <1>2 DEF NextBlock
  <2> QED BY <2>1, <1>2
<1>5. start \notin Ends(h)
  <2>1. SUFFICES ASSUME NEW q \in h.regions, start = EndOf(q) PROVE FALSE BY DEF Ends
  <2>2. RegionOK(q) BY DEF Phys, Mapping
  <2>3. Within(q, start) BY <2>1, <2>2, SentinelWithin
  <2>4. q # r BY <1>4, <2>1
  <2>5. ApartRegions(q, r) BY <2>4 DEF Phys, Mapping
  <2> QED BY <1>1, <1>2, <1>3, <2>2, <2>3, <2>5, WithinOne
<1> QED BY <1>1, <1>4, <1>5 DEF Phys, Tiled

(* A busy region holds a block in use by the program.                      *)
LEMMA BusyUser ==
  ASSUME NEW h, Sound(h), NEW r \in h.regions, Busy(h, r)
  PROVE  \E b \in UserBlocks(h) : Within(r, b)
<1> DEFINE start == StartOf(r)
           first == FirstOf(r)
           end == EndOf(r)
<1>0. Phys(h) BY SoundFacts
<1>1. RegionOK(r) /\ start \in DOMAIN h.blk /\ h.blk[start].size = Header
  BY <1>0 DEF Phys, Mapping, SentinelsOK
<1>2. /\ start \in Nat /\ first \in Nat /\ end \in Nat /\ UsableOf(r) \in Nat
      /\ first = start + Header /\ end = first + UsableOf(r) /\ Header \in Nat /\ Header >= 1
      /\ MinBlock <= UsableOf(r) /\ MinBlock \in Nat /\ MinBlock >= 1
  BY <1>1, RegionFacts, SizeFacts
<1>3. Within(r, start) /\ Within(r, first) /\ Within(r, end) BY <1>1, SentinelWithin
<1>4. ASSUME NEW x \in DOMAIN h.blk, Within(r, x), x # start, x # end PROVE x \notin Sentinels(h)
  <2>1. SUFFICES ASSUME NEW q \in h.regions, x = StartOf(q) \/ x = EndOf(q) PROVE FALSE
    BY DEF Sentinels, Starts, Ends
  <2>2. RegionOK(q) /\ x \in Nat BY <1>0, BlockFacts DEF Phys, Mapping
  <2>3. Within(q, x) BY <2>1, <2>2, SentinelWithin
  <2>4. q # r BY <1>4, <2>1
  <2>5. ApartRegions(q, r) BY <1>0, <2>4 DEF Phys, Mapping
  <2> QED BY <1>1, <1>4, <2>2, <2>3, <2>5, WithinOne
<1>5. first \in DOMAIN h.blk BY <1>0, FirstBlock
<1>6. first # start /\ first # end BY <1>2
<1>7. first \notin Sentinels(h) BY <1>3, <1>4, <1>5, <1>6
<1>8. CASE h.blk[first].used BY <1>3, <1>5, <1>7, <1>8 DEF UserBlocks, Used
<1>9. CASE ~h.blk[first].used
  <2> DEFINE n == NextBlock(h, first)
  <2>1. first \in FreeBlocks(h) BY <1>5, <1>9 DEF FreeBlocks
  <2>2. h.blk[first].size # UsableOf(r) BY <2>1 DEF Busy
  <2>3. n \in DOMAIN h.blk /\ h.blk[n].used BY <2>1, SoundFacts
  <2>4. h.blk[first].size \in Nat /\ h.blk[first].size >= 1 /\ n = first + h.blk[first].size
    BY <1>0, <1>5, BlockFacts
  <2>5. Within(r, n)
    <3>1. first \notin Ends(h) BY <1>7 DEF Sentinels
    <3>2. PICK q \in h.regions : Within(q, first) /\ Within(q, NextBlock(h, first))
      BY <1>0, <1>5, <3>1, SameRegion
    <3>3. RegionOK(q) BY <1>0 DEF Phys, Mapping
    <3>4. q # r => ApartRegions(q, r) BY <1>0 DEF Phys, Mapping
    <3>5. q = r BY <1>1, <1>2, <1>3, <3>2, <3>3, <3>4, WithinOne
    <3> QED BY <3>2, <3>5
  <2> HIDE DEF n
  <2>6. n # start /\ n # end BY <1>2, <2>2, <2>4
  <2>7. n \notin Sentinels(h) BY <2>3, <2>5, <2>6, <1>4
  <2> QED BY <2>3, <2>5, <2>7 DEF UserBlocks, Used
<1> QED BY <1>8, <1>9

(* Every active region is busy.                                            *)
AllBusy(h) == \A r \in h.regions : Busy(h, r)

(* Regions stay busy as long as their blocks are in use.                   *)
LEMMA BusyFrame ==
  ASSUME NEW h, Sound(h), AllBusy(h), NEW g, Sound(g), g.regions \subseteq h.regions,
         UserBlocks(h) \subseteq UserBlocks(g)
  PROVE  AllBusy(g)
<1> SUFFICES ASSUME NEW r \in g.regions PROVE Busy(g, r) BY DEF AllBusy
<1>1. PICK b \in UserBlocks(h) : Within(r, b) BY BusyUser DEF AllBusy
<1>2. Phys(g) BY SoundFacts
<1> QED BY <1>1, <1>2, UserBusy

(* tlsf_free_block keeps the invariant and gives up exactly one block,     *)
(* whichever neighbours it merges and whether or not its region is retired; *)
(* it retires the region when that block was the last.                     *)
LEMMA FreeBlock ==
  ASSUME NEW h, HeapInv(h), NEW b \in UserBlocks(h), NEW g, g = tlsf_free_block(h, b)
  PROVE  /\ HeapInv(g) /\ UserBlocks(g) = UserBlocks(h) \ {b}
         /\ SameSizes(g, h, UserBlocks(g)) /\ g.regions \subseteq h.regions
         /\ AllBusy(h) => AllBusy(g)
<1> DEFINE f == SetUsed(h, b, FALSE)
           next == NextBlock(f, b)
           h1 == IF f.blk[next].used THEN f ELSE Absorb(tlsf_free_remove(f, next), b)
           prev == PrevBlock(h1, b)
           h2 == IF h1.blk[prev].used THEN h1
                 ELSE Absorb(tlsf_free_remove(h1, prev), prev)
           w == IF h1.blk[prev].used THEN b ELSE prev
           empty == {r \in h2.regions : w = FirstOf(r) /\ h2.blk[w].size = UsableOf(r)}
<1>0. Sound(h) /\ b \in Used(h) /\ b \notin Sentinels(h) BY DEF HeapInv, UserBlocks
<1>1. /\ Floating(f, b) /\ SameRegions(f, h) /\ Used(f) = Used(h) \ {b}
      /\ DOMAIN f.blk = DOMAIN h.blk /\ SameSizes(f, h, DOMAIN h.blk)
  <2>1. PICK u, x : u = FALSE /\ x = f /\ x = SetUsed(h, b, u) OBVIOUS
  <2>2. /\ Floating(x, b) /\ SameRegions(x, h) /\ Used(x) = Used(h) \ {b}
        /\ DOMAIN x.blk = DOMAIN h.blk /\ SameSizes(x, h, DOMAIN h.blk)
    <3> HIDE DEF f
    <3> QED BY <1>0, <2>1, MarkFree
  <2> HIDE DEF f
  <2> QED BY <2>1, <2>2
<1>1a. g = IF empty = {} THEN tlsf_free_insert(h2, w)
           ELSE LET r == CHOOSE r \in empty : TRUE
                IN  tlsf_region_put_cache(tlsf_region_remove(h2, r), r)
  BY Zenon DEF tlsf_free_block
<1> HIDE DEF f
<1>2. /\ Floating(h1, b) /\ SameRegions(h1, f) /\ Used(h1) = Used(f) /\ h1.blk[NextBlock(h1, b)].used
      /\ DOMAIN h1.blk \subseteq DOMAIN f.blk /\ SameSizes(h1, f, Used(f))
  <2>1. CASE f.blk[next].used BY <2>1, <1>1 DEF SameRegions, SameSizes
  <2>2. CASE ~f.blk[next].used
    <3>1. h1 = Absorb(tlsf_free_remove(f, next), b) BY <2>2
    <3> HIDE DEF h1
    <3> QED BY <2>2, <3>1, <1>1, MergeNext
  <2> QED BY <2>1, <2>2
<1> HIDE DEF h1
<1>2a. \E q \in h1.regions : Within(q, b) /\ Within(q, prev)
  <2>1. b \in FreeBlocks(h1) /\ Phys(h1) BY <1>2 DEF Floating, SoundBut
  <2>2. b \in DOMAIN h1.blk /\ b \notin Starts(h1) BY <2>1, FreeNotSentinel DEF Sentinels
  <2> QED BY <2>1, <2>2, SameRegion
<1>3. /\ SoundBut(h2, w) /\ ApartBut(h2, NULL) /\ SameRegions(h2, h1) /\ Used(h2) = Used(h1) /\ w \in FreeBlocks(h2)
      /\ DOMAIN h2.blk \subseteq DOMAIN h1.blk /\ SameSizes(h2, h1, Used(h1))
  <2>1. CASE h1.blk[prev].used BY <2>1, <1>2, KeepPrev DEF SameRegions, SameSizes
  <2>2. CASE ~h1.blk[prev].used
    <3>1. h2 = Absorb(tlsf_free_remove(h1, prev), prev) /\ w = prev BY <2>2
    <3> HIDE DEF h2, w
    <3> QED BY <2>2, <3>1, <1>2, MergePrev
  <2> QED BY <2>1, <2>2
<1>3a. w \in {b, prev} OBVIOUS
<1> HIDE DEF h2, w, prev
<1>3b. PICK home \in h2.regions : Within(home, b) /\ Within(home, w)
  BY <1>2a, <1>3, <1>3a DEF SameRegions
<1>4. SameRegions(h2, h) /\ Used(h2) = Used(h) \ {b} BY <1>1, <1>2, <1>3 DEF SameRegions
<1>4a. DOMAIN h2.blk \subseteq DOMAIN h.blk /\ SameSizes(h2, h, Used(h2))
  BY <1>1, <1>2, <1>3 DEF SameSizes, Used
<1>5. UserBlocks(h2) = UserBlocks(h) \ {b}
  <2>1. Sentinels(h2) = Sentinels(h) BY <1>4, SentinelsFrame DEF SameRegions
  <2> QED BY <1>4, <2>1 DEF UserBlocks
<1>6. CacheInv(h2) BY <1>4 DEF HeapInv, CacheInv, SameRegions
<1>6a. OnGrid(h2) BY <1>4, <1>4a, GridFrame DEF HeapInv, SameRegions
<1>6b. b \in Nat /\ w \in Nat /\ Mapping(h2) /\ Phys(h2)
  <2>1. Phys(h2) /\ w \in DOMAIN h2.blk BY <1>3 DEF SoundBut, FreeBlocks
  <2>2. Phys(h) /\ b \in DOMAIN h.blk BY <1>0, SoundFacts DEF Used
  <2> QED BY <2>1, <2>2, BlockFacts DEF Phys
<1>6c. ASSUME NEW q \in h2.regions, Within(q, b) \/ Within(q, w) PROVE q = home
  <2>1. RegionOK(q) /\ RegionOK(home) BY <1>6b DEF Mapping
  <2>2. q # home => ApartRegions(q, home) BY <1>6b DEF Mapping
  <2> QED BY <1>3b, <1>6b, <1>6c, <2>1, <2>2, WithinOne
<1>6d. ASSUME AllBusy(h), NEW x, Sound(x), UserBlocks(x) = UserBlocks(h2), x.regions \subseteq h2.regions,
              home \in x.regions => Busy(x, home)
       PROVE  AllBusy(x)
  <2> SUFFICES ASSUME NEW q \in x.regions PROVE Busy(x, q) BY DEF AllBusy
  <2>1. q \in h.regions /\ q \in h2.regions BY <1>4, <1>6d DEF SameRegions
  <2>2. PICK a \in UserBlocks(h) : Within(q, a) BY <1>0, <1>6d, <2>1, BusyUser DEF AllBusy
  <2>3. CASE a = b BY <2>1, <2>2, <2>3, <1>6c, <1>6d
  <2>4. CASE a # b
    <3>1. a \in UserBlocks(x) BY <2>4, <1>5, <1>6d
    <3>2. Phys(x) BY <1>6d, SoundFacts
    <3> QED BY <2>2, <3>1, <3>2, UserBusy
  <2> QED BY <2>3, <2>4
<1>7. CASE empty = {}
  <2>1. g = tlsf_free_insert(h2, w) BY <1>1a, <1>7
  <2>2. SoundBut(g, NULL) /\ SameBlocks(g, h2) BY <2>1, <1>3, InsertSound
  <2>3. Phys(h2) BY <1>3 DEF SoundBut
  <2>4. ApartBut(g, NULL) /\ Used(g) = Used(h2) /\ Sentinels(g) = Sentinels(h2)
    BY <2>2, <2>3, <1>3, PhysFrame DEF SameBlocks
  <2>5. /\ HeapInv(g) /\ UserBlocks(g) = UserBlocks(h2) /\ g.regions = h2.regions /\ g.blk = h2.blk
    BY <2>2, <2>4, <1>6, <1>6a DEF HeapInv, Sound, CacheInv, OnGrid, SameBlocks, UserBlocks
  <2>6. Busy(g, home)
    <3>1. SUFFICES ASSUME FirstOf(home) \in FreeBlocks(g), g.blk[FirstOf(home)].size = UsableOf(home)
                   PROVE  FALSE
      BY DEF Busy
    <3>2. FirstOf(home) \in DOMAIN h2.blk /\ h2.blk[FirstOf(home)].size = UsableOf(home)
      BY <2>5, <3>1 DEF FreeBlocks
    <3>3. w \in DOMAIN h2.blk /\ w \notin Sentinels(h2) BY <1>3, <1>6b, FreeNotSentinel
    <3>4. w # StartOf(home) /\ w # EndOf(home) BY <3>3 DEF Sentinels, Starts, Ends
    <3>5. w = FirstOf(home) BY <3>2, <3>3, <3>4, <1>3b, <1>6b, WholeRegion
    <3>6. home \in empty BY <3>2, <3>5
    <3> QED BY <3>6, <1>7
  <2>7. Sound(g) BY <2>5 DEF HeapInv
  <2>8. AllBusy(h) => AllBusy(g) BY <2>5, <2>6, <2>7, <1>6d
  <2>9. SameSizes(g, h, UserBlocks(g)) BY <2>5, <1>4a DEF SameSizes, UserBlocks, Used
  <2> QED BY <2>5, <2>8, <2>9, <1>4, <1>5 DEF SameRegions
<1>8. CASE empty # {}
  <2>1. PICK r \in empty : g = tlsf_region_put_cache(tlsf_region_remove(h2, r), r)
    <3> HIDE DEF empty
    <3> QED BY <1>1a, <1>8
  <2> DEFINE k == tlsf_region_remove(h2, r)
  <2>2. r \in h2.regions /\ w = FirstOf(r) /\ h2.blk[w].size = UsableOf(r) BY <2>1
  <2>3. /\ Sound(k) /\ UserBlocks(k) = UserBlocks(h2)
        /\ k.regions = h2.regions \ {r} /\ k.cache = h2.cache
        /\ k.ccount = h2.ccount /\ k.cbytes = h2.cbytes
        /\ DOMAIN k.blk \subseteq DOMAIN h2.blk /\ SameSizes(k, h2, UserBlocks(h2))
    BY <2>2, <1>3, RegionRemoved
  <2>4. g = tlsf_region_put_cache(k, r) BY <2>1
  <2> HIDE DEF k
  <2>5. HeapInv(k)
    <3>1. OnGrid(k) BY <2>3, <1>6a, GridFrame
    <3> QED BY <2>3, <3>1, <1>6 DEF HeapInv, CacheInv
  <2>6. Mapping(h2) BY <1>3 DEF SoundBut, Phys
  <2>7. RegionOK(r) BY <2>2, <2>6 DEF Mapping
  <2>8. \A q \in k.regions \cup k.cache : ApartRegions(q, r)
    <3>1. r \notin h2.cache BY <2>2, <2>6 DEF Mapping
    <3>2. \A p, q \in h2.regions \cup h2.cache : p # q => ApartRegions(p, q) BY <2>6 DEF Mapping
    <3> QED BY <2>2, <2>3, <3>1, <3>2
  <2>9. HeapInv(g) /\ UserBlocks(g) = UserBlocks(k) /\ g.blk = k.blk /\ g.regions = k.regions
    <3>1. r.base % Align = 0 /\ r.size % Align = 0 BY <2>2, <1>6a DEF OnGrid
    <3> QED BY <3>1, <2>4, <2>5, <2>7, <2>8, PutCache
  <2>10. SameSizes(g, h, UserBlocks(g))
    <3>1. UserBlocks(h2) \subseteq Used(h2) BY DEF UserBlocks
    <3> QED BY <3>1, <2>3, <2>9, <1>4a DEF SameSizes
  <2>11. AllBusy(h) => AllBusy(g)
    <3>1. Within(r, w) BY <2>2, <2>7, SentinelWithin
    <3>2. home \notin g.regions BY <3>1, <2>2, <2>3, <2>9, <1>6c
    <3>3. Sound(g) BY <2>9 DEF HeapInv
    <3> QED BY <3>2, <3>3, <2>3, <2>9, <1>6d
  <2> QED BY <2>3, <2>9, <2>10, <2>11, <1>4, <1>5 DEF SameRegions
<1> QED BY <1>7, <1>8

-----------------------------------------------------------------------------
(* tlsf_grow and malloc *)

(* Rounding up gives a multiple of the unit that is not smaller.           *)
LEMMA RoundUpNat ==
  ASSUME NEW n \in Nat, NEW unit \in Nat \ {0}
  PROVE  RoundUp(n, unit) \in Nat /\ n <= RoundUp(n, unit) /\ RoundUp(n, unit) % unit = 0
<1> DEFINE z == n + unit - 1
           q == z \div unit
<1>0. z \in Nat /\ unit >= 1 OBVIOUS
<1>1. RoundUp(n, unit) = q * unit BY DEF RoundUp
<1>2. z + 1 = n + unit OBVIOUS
<1> HIDE DEF z
<1>3. q \in Nat /\ z < q * unit + unit BY <1>0, DivBounds
<1> HIDE DEF q
<1>4. q * unit \in Nat /\ q * unit = unit * q BY <1>3
<1>5. (q * unit) % unit = 0 BY <1>3, <1>4, Multiple
<1>6. \A m \in Nat : z < m + unit => n <= m BY <1>0, <1>2
<1> QED BY <1>1, <1>3, <1>4, <1>5, <1>6

(* tlsf_size_to_block returns 0 or an aligned size that a block can have   *)
(* and that has room for the header and the request.                       *)
LEMMA NeedRange ==
  ASSUME NEW size \in Nat, tlsf_size_to_block(size) # 0
  PROVE  /\ tlsf_size_to_block(size) \in Nat
         /\ MinBlock <= tlsf_size_to_block(size) /\ tlsf_size_to_block(size) < MaxBlock
         /\ tlsf_size_to_block(size) % Align = 0 /\ size + Header <= tlsf_size_to_block(size)
<1> DEFINE aligned == RoundUp(size, Align)
           need == AtLeast(aligned + Header, MinBlock)
<1>1. aligned \in Nat /\ size <= aligned /\ aligned % Align = 0 BY RoundUpNat, TlsfAssumption
<1>1a. (aligned + Header) % Align = 0 /\ MinBlock % Align = 0
  <2> HIDE DEF aligned
  <2> QED BY <1>1, AlignSum, SizeFacts, TlsfAssumption
<1> HIDE DEF aligned
<1>2. need \in Nat /\ MinBlock <= need /\ need % Align = 0 /\ size + Header <= need
  <2>1. need \in Nat /\ MinBlock <= need /\ size + Header <= need BY <1>1, SizeFacts DEF AtLeast
  <2>2. need = aligned + Header \/ need = MinBlock BY DEF AtLeast
  <2> HIDE DEF need
  <2> QED BY <2>1, <2>2, <1>1a
<1>3. tlsf_size_to_block(size) = need /\ ~(need >= MaxBlock)
  BY DEF tlsf_size_to_block, aligned
<1>4. need < MaxBlock
  <2> HIDE DEF need
  <2> QED BY <1>2, <1>3, SizeFacts
<1> HIDE DEF need
<1> QED BY <1>2, <1>3, <1>4

(* The size tlsf_grow asks mmap for is that of a well-formed region.       *)
LEMMA RegionSizeOK ==
  ASSUME NEW cmin \in Nat, MinBlock <= cmin, NEW size, size = RegionSize(cmin), size # 0
  PROVE  /\ size \in Nat /\ RegionOverhead + MinBlock <= size /\ size <= MaxBlock
         /\ cmin + RegionOverhead <= size /\ size % Page = 0
<1> DEFINE raw == AtMost(AtLeast(cmin + RegionOverhead, RegionMin), MaxBlock)
           rounded == RoundUp(raw, Page)
<1>1. RegionOverhead \in Nat BY SizeFacts
<1>2. raw \in Nat BY <1>1, SizeFacts, TlsfAssumption DEF AtMost, AtLeast
<1> HIDE DEF raw
<1>3. rounded \in Nat /\ rounded % Page = 0 BY <1>2, RoundUpNat, TlsfAssumption
<1>4. size = rounded /\ ~(rounded < cmin + RegionOverhead) /\ ~(rounded > MaxBlock)
  BY DEF RegionSize, raw
<1> HIDE DEF rounded
<1>5. RegionOverhead + MinBlock <= rounded /\ rounded <= MaxBlock /\ cmin + RegionOverhead <= rounded
  BY <1>1, <1>3, <1>4, SizeFacts
<1> QED BY <1>3, <1>4, <1>5

(* What mmap returns may be activated.                                     *)
LEMMA MmapOK ==
  ASSUME NEW h, NEW size \in Nat, RegionOverhead + MinBlock <= size, size <= MaxBlock,
         size % Page = 0, NEW r \in mmap(h, size)
  PROVE  /\ RegionOK(r) /\ \A q \in h.regions \cup h.cache : ApartRegions(q, r)
         /\ r.base % Align = 0 /\ r.size % Align = 0 /\ r.size = size
<1>1. /\ r \in [base : Bases, size : {size}] /\ r.base + size <= AddrMax
      /\ \A q \in h.regions \cup h.cache : ApartRegions(r, q)
  BY DEF mmap, ApartRegions
<1>2. r.base \in Bases /\ r.size = size /\ r \in Region BY <1>1 DEF Region
<1>3. r.base > 0 BY <1>2, TlsfAssumption
<1>4. \A q \in h.regions \cup h.cache : ApartRegions(q, r) BY <1>1 DEF ApartRegions
<1>5. RegionOK(r) BY <1>1, <1>2, <1>3 DEF RegionOK
<1>6. r.base \in Nat /\ r.base % Page = 0 BY <1>2, TlsfAssumption
<1>7. r.base % Align = 0 /\ r.size % Align = 0 BY <1>2, <1>6, PageAligned
<1> QED BY <1>2, <1>4, <1>5, <1>7

(* A region of the usable size that tlsf_grow asks for.                    *)
LEMMA UsableSize ==
  ASSUME NEW r, RegionOK(r)
  PROVE  UsableOf(r) + RegionOverhead = r.size
<1>1. /\ r.base \in Nat /\ r.size \in Nat /\ StartOf(r) = r.base + Meta /\ FirstOf(r) \in Nat
      /\ FirstOf(r) = StartOf(r) + Header /\ EndOf(r) + Header = r.base + r.size /\ EndOf(r) \in Nat
      /\ EndOf(r) = FirstOf(r) + UsableOf(r) /\ UsableOf(r) \in Nat
  BY RegionFacts DEF StartOf
<1> QED BY <1>1, SizeFacts

(* The region that tlsf_grow leaves active: a new one, free from end to    *)
(* end and large enough for any block of class minimum cmin.               *)
Grown(g, h, r, cmin) ==
  /\ r \notin h.regions /\ g.regions = h.regions \cup {r} /\ RegionOK(r)
  /\ FreeBlocks(g) = FreeBlocks(h) \cup {FirstOf(r)}
  /\ g.blk[FirstOf(r)].size = UsableOf(r) /\ cmin <= UsableOf(r)

(* Activating a region that is large enough grows the heap.                *)
LEMMA GrownBy ==
  ASSUME NEW h, HeapInv(h), NEW x, HeapInv(x), UserBlocks(x) = UserBlocks(h), x.blk = h.blk,
         x.regions = h.regions,
         NEW r, RegionOK(r), \A q \in x.regions \cup x.cache : ApartRegions(q, r),
         r.base % Align = 0, r.size % Align = 0, NEW cmin, cmin <= UsableOf(r),
         NEW g, g = tlsf_region_activate(x, r)
  PROVE  HeapInv(g) /\ UserBlocks(g) = UserBlocks(h) /\ SameSizes(g, h, DOMAIN h.blk) /\ Grown(g, h, r, cmin)
<1>1. /\ HeapInv(g) /\ UserBlocks(g) = UserBlocks(x)
      /\ g.regions = x.regions \cup {r} /\ SameSizes(g, x, DOMAIN x.blk)
      /\ FreeBlocks(g) = FreeBlocks(x) \cup {FirstOf(r)} /\ g.blk[FirstOf(r)].size = UsableOf(r)
  BY Activate
<1>2. r \notin h.regions
  <2>1. r.base \in Nat /\ r.size \in Nat /\ r.size >= 1 BY RegionFacts, SizeFacts DEF RegionOK
  <2>2. ~ApartRegions(r, r) BY <2>1 DEF ApartRegions
  <2> QED BY <2>2
<1>3. FreeBlocks(x) = FreeBlocks(h) BY DEF FreeBlocks
<1>4. SameSizes(g, h, DOMAIN h.blk) BY <1>1 DEF SameSizes
<1> QED BY <1>1, <1>2, <1>3, <1>4 DEF Grown

(* Every outcome of tlsf_grow keeps the invariant, the failures after a    *)
(* cache flush included; when it succeeds there is a region to allocate    *)
(* from.                                                                   *)
LEMMA GrowSound ==
  ASSUME NEW h, HeapInv(h), NEW need \in Nat, MinBlock <= need, need < MaxBlock,
         NEW g \in tlsf_grow(h, need)
  PROVE  /\ HeapInv(g.h) /\ UserBlocks(g.h) = UserBlocks(h) /\ SameSizes(g.h, h, DOMAIN h.blk)
         /\ ~g.ok => g.h.regions = h.regions
         /\ g.ok => /\ tlsf_mapping_search(need) # NoClass
                    /\ \E r : Grown(g.h, h, r, tlsf_class_min(tlsf_mapping_search(need)))
<1> DEFINE c == tlsf_mapping_search(need)
           cmin == tlsf_class_min(c)
           size == RegionSize(cmin)
           flushed == tlsf_region_cache_flush(h)
           best == BestCached(h, cmin)
<1>1. \/ ~g.ok /\ g.h = h
      \/ ~g.ok /\ g.h = flushed
      \/ /\ g.ok /\ c # NoClass /\ ~(cmin < need)
         /\ \/ \E r \in best : g.h = tlsf_region_activate(tlsf_region_take_cache(h, r), r)
            \/ /\ size # 0
               /\ \/ \E r \in mmap(h, size) : g.h = tlsf_region_activate(h, r)
                  \/ \E r \in mmap(flushed, size) : g.h = tlsf_region_activate(flushed, r)
  <2> HIDE DEF cmin, best, flushed
  <2> QED BY DEF tlsf_grow, cmin, best, flushed
<1>2. /\ HeapInv(flushed) /\ UserBlocks(flushed) = UserBlocks(h)
      /\ flushed.blk = h.blk /\ flushed.regions = h.regions
  BY FlushCache
<1>3. ASSUME NEW r \in best, g.h = tlsf_region_activate(tlsf_region_take_cache(h, r), r)
      PROVE  HeapInv(g.h) /\ UserBlocks(g.h) = UserBlocks(h) /\ SameSizes(g.h, h, DOMAIN h.blk) /\ Grown(g.h, h, r, cmin)
  <2> DEFINE t == tlsf_region_take_cache(h, r)
  <2>1. r \in h.cache /\ UsableOf(r) >= cmin BY <1>3 DEF BestCached
  <2>2. /\ HeapInv(t) /\ UserBlocks(t) = UserBlocks(h) /\ RegionOK(r)
        /\ \A q \in t.regions \cup t.cache : ApartRegions(q, r)
        /\ r.base % Align = 0 /\ r.size % Align = 0
        /\ t.blk = h.blk /\ t.regions = h.regions
    BY <2>1, TakeCache
  <2> HIDE DEF t, cmin
  <2> QED BY <2>1, <2>2, <1>3, GrownBy DEF t
<1>4. ASSUME c # NoClass
      PROVE  cmin \in Nat
  <2>1. 1 <= need BY SizeFacts
  <2>2. c \in Classes /\ ClassLevel(c) BY <1>4, <2>1, SearchRange
  <2> HIDE DEF c
  <2> QED BY <2>2, ClassMinNat
<1>4a. ASSUME c # NoClass, ~(cmin < need), size # 0
       PROVE  /\ size \in Nat /\ RegionOverhead + MinBlock <= size /\ size <= MaxBlock
              /\ cmin + RegionOverhead <= size /\ size % Page = 0
  <2>1. cmin \in Nat BY <1>4, <1>4a
  <2> HIDE DEF cmin
  <2>2. MinBlock <= cmin BY <2>1, <1>4a, SizeFacts
  <2> QED BY <2>1, <2>2, <1>4a, RegionSizeOK
<1> HIDE DEF flushed, size, c, cmin, best
<1>5. ASSUME c # NoClass, ~(cmin < need), size # 0,
             NEW x, HeapInv(x), UserBlocks(x) = UserBlocks(h), x.blk = h.blk, x.regions = h.regions,
             NEW r \in mmap(x, size), g.h = tlsf_region_activate(x, r)
      PROVE  HeapInv(g.h) /\ UserBlocks(g.h) = UserBlocks(h) /\ SameSizes(g.h, h, DOMAIN h.blk) /\ Grown(g.h, h, r, cmin)
  <2>1. /\ RegionOK(r) /\ \A q \in x.regions \cup x.cache : ApartRegions(q, r)
        /\ r.base % Align = 0 /\ r.size % Align = 0 /\ r.size = size
    BY <1>4a, <1>5, MmapOK
  <2>2. cmin <= UsableOf(r)
    <3>1. UsableOf(r) + RegionOverhead = size /\ UsableOf(r) \in Nat /\ cmin \in Nat
      BY <2>1, <1>4, <1>5, UsableSize, RegionFacts
    <3>2. cmin + RegionOverhead <= size /\ RegionOverhead \in Nat BY <1>4a, <1>5, SizeFacts
    <3> QED BY <3>1, <3>2
  <2> QED BY <2>1, <2>2, <1>5, GrownBy
<1>6. CASE ~g.ok
  <2>1. g.h = h \/ g.h = flushed BY <1>1, <1>6
  <2> QED BY <2>1, <1>2, <1>6 DEF SameSizes
<1>7. CASE g.ok
  <2>1. c # NoClass /\ ~(cmin < need) BY <1>1, <1>7
  <2>2. /\ HeapInv(g.h) /\ UserBlocks(g.h) = UserBlocks(h) /\ SameSizes(g.h, h, DOMAIN h.blk)
        /\ \E r : Grown(g.h, h, r, cmin)
    BY <1>1, <1>2, <1>3, <1>5, <1>7
  <2> QED BY <2>1, <2>2, <1>7 DEF c, cmin
<1> QED BY <1>6, <1>7

(* What malloc leaves, with the pointer it returns: the blocks in use are  *)
(* as they were, and a pointer that is not NULL is to a new one with room  *)
(* for need bytes, in a region that is new only if no free block reached   *)
(* the class searched for.                                                 *)
MallocResult(r, h, need) ==
  /\ HeapInv(r.h) /\ SameSizes(r.h, h, UserBlocks(h))
  /\ \/ /\ r.ptr = NULL
        /\ UserBlocks(r.h) = UserBlocks(h) /\ r.h.regions = h.regions
     \/ /\ r.ptr \in Nat /\ r.ptr # NULL /\ tlsf_payload_block(r.ptr) \in Nat
        /\ tlsf_payload_block(r.ptr) \notin UserBlocks(h)
        /\ UserBlocks(r.h) = UserBlocks(h) \cup {tlsf_payload_block(r.ptr)}
        /\ need <= r.h.blk[tlsf_payload_block(r.ptr)].size
        /\ \/ r.h.regions = h.regions
           \/ /\ \E q : r.h.regions = h.regions \cup {q} /\ Within(q, tlsf_payload_block(r.ptr))
              /\ \A a \in FreeBlocks(h) : h.blk[a].size < tlsf_class_min(tlsf_mapping_search(need))

(* tlsf_payload_block undoes tlsf_block_payload.                           *)
LEMMA PayloadInverse ==
  ASSUME NEW b \in Nat
  PROVE  /\ tlsf_block_payload(b) \in Nat /\ tlsf_block_payload(b) # NULL
         /\ tlsf_payload_block(tlsf_block_payload(b)) = b
BY SizeFacts DEF tlsf_block_payload, tlsf_payload_block, NULL

(* malloc with a block at hand takes a block no pointer refers to.         *)
LEMMA FoundSound ==
  ASSUME NEW h, HeapInv(h), NEW need \in Nat, MinBlock <= need, need < MaxBlock, need % Align = 0,
         NEW b, b = tlsf_find(h, need), b # NULL, NEW g, g = Take(h, b, need)
  PROVE  /\ HeapInv(g) /\ SameSizes(g, h, UserBlocks(h)) /\ g.regions = h.regions
         /\ b \in Nat /\ b \in FreeBlocks(h) /\ b \notin UserBlocks(h)
         /\ UserBlocks(g) = UserBlocks(h) \cup {b} /\ need <= g.blk[b].size
         /\ tlsf_class_min(tlsf_mapping_search(need)) <= h.blk[b].size
<1>0. Sound(h) BY DEF HeapInv
<1>1. /\ b \in FreeBlocks(h) /\ need <= h.blk[b].size
      /\ tlsf_class_min(tlsf_mapping_search(need)) <= h.blk[b].size
  BY <1>0, FindFits
<1>2. /\ Sound(g) /\ SameRegions(g, h) /\ Used(g) = Used(h) \cup {b} /\ b \notin Sentinels(h) /\ b \in Nat
      /\ SameSizes(g, h, Used(h)) /\ g.blk[b].size \in {need, h.blk[b].size}
      /\ DOMAIN g.blk \subseteq DOMAIN h.blk \cup {b + need}
  BY <1>0, <1>1, TakeSound
<1>3. CacheInv(g) BY <1>2 DEF HeapInv, CacheInv, SameRegions
<1>4. OnGrid(g)
  <2>1. b % Align = 0 BY <1>1 DEF HeapInv, OnGrid, FreeBlocks
  <2>2. (b + need) % Align = 0 BY <2>1, <1>2, AlignSum
  <2> QED BY <2>2, <1>2 DEF HeapInv, OnGrid, SameRegions
<1>5. Sentinels(g) = Sentinels(h) BY <1>2, SentinelsFrame DEF SameRegions
<1>6. b \notin Used(h) BY <1>1 DEF FreeBlocks, Used
<1>7. b \notin UserBlocks(h) /\ UserBlocks(g) = UserBlocks(h) \cup {b}
  BY <1>2, <1>5, <1>6 DEF UserBlocks
<1>8. SameSizes(g, h, UserBlocks(h)) /\ g.regions = h.regions BY <1>2 DEF SameSizes, UserBlocks, SameRegions
<1>9. need <= g.blk[b].size
  <2>1. CASE g.blk[b].size = need BY <2>1
  <2>2. CASE g.blk[b].size = h.blk[b].size BY <2>2, <1>1
  <2> QED BY <1>2, <2>1, <2>2
<1> QED BY <1>1, <1>2, <1>3, <1>4, <1>7, <1>8, <1>9 DEF HeapInv

(* After tlsf_grow succeeds the search finds the first block of the new    *)
(* region, when it found none before.                                      *)
LEMMA GrownFound ==
  ASSUME NEW h, HeapInv(h), NEW need \in Nat, MinBlock <= need, need < MaxBlock, need % Align = 0,
         NEW c, c = tlsf_mapping_search(need), c # NoClass, tlsf_find(h, need) = NULL,
         NEW x, HeapInv(x), SameSizes(x, h, DOMAIN h.blk),
         NEW q, Grown(x, h, q, tlsf_class_min(c)),
         NEW b, b = tlsf_find(x, need)
  PROVE  /\ b = FirstOf(q) /\ b # NULL
         /\ \A a \in FreeBlocks(h) : h.blk[a].size < tlsf_class_min(c)
<1>0. Sound(h) /\ Sound(x) BY DEF HeapInv
<1>1. /\ FreeBlocks(x) = FreeBlocks(h) \cup {FirstOf(q)} /\ x.blk[FirstOf(q)].size = UsableOf(q)
      /\ tlsf_class_min(c) <= UsableOf(q)
  BY DEF Grown
<1>2. \A a \in FreeBlocks(h) : ~(tlsf_class_min(c) <= h.blk[a].size) BY <1>0, FindFits
<1>3. \A a \in FreeBlocks(h) : x.blk[a].size = h.blk[a].size BY DEF SameSizes, FreeBlocks
<1>4. b # NULL
  <2>1. ASSUME b = NULL PROVE FALSE
    <3>1. ~(tlsf_class_min(c) <= x.blk[FirstOf(q)].size) BY <2>1, <1>0, <1>1, FindFits
    <3> QED BY <3>1, <1>1
  <2> QED BY <2>1
<1>5. b \in FreeBlocks(x) /\ tlsf_class_min(c) <= x.blk[b].size BY <1>0, <1>4, FindFits
<1>6. b = FirstOf(q) BY <1>1, <1>2, <1>3, <1>5
<1>7. tlsf_class_min(c) \in Nat
  <2>1. 1 <= need BY SizeFacts
  <2>2. c \in Classes /\ ClassLevel(c) BY <2>1, SearchRange
  <2> QED BY <2>2, ClassMinNat
<1>8. \A a \in FreeBlocks(h) : h.blk[a].size \in Nat
  <2>1. Phys(h) BY <1>0, SoundFacts
  <2> QED BY <2>1, BlockFacts DEF FreeBlocks
<1>9. \A m, n \in Nat : ~(m <= n) => n < m OBVIOUS
<1> QED BY <1>2, <1>4, <1>6, <1>7, <1>8, <1>9

(* Every outcome of malloc keeps the invariant and hands out at most one   *)
(* block, which no pointer referred to.                                    *)
LEMMA MallocSound ==
  ASSUME NEW h, HeapInv(h), NEW size \in Nat, NEW need, need = tlsf_size_to_block(size),
         NEW r \in malloc(h, size)
  PROVE  MallocResult(r, h, need) /\ (need = 0 => r.ptr = NULL)
<1> DEFINE found(x) == LET b == tlsf_find(x, need) IN
                  IF b = NULL THEN [h |-> x, ptr |-> NULL]
                  ELSE [h |-> Take(x, b, need), ptr |-> tlsf_block_payload(b)]
<1>1. CASE need = 0
  <2>1. r = [h |-> h, ptr |-> NULL] BY <1>1 DEF malloc
  <2> QED BY <2>1 DEF MallocResult, SameSizes
<1>2. CASE need # 0
  <2>1. need \in Nat /\ MinBlock <= need /\ need < MaxBlock /\ need % Align = 0 BY <1>2, NeedRange
  <2>2. ASSUME NEW x, HeapInv(x), NEW b, b = tlsf_find(x, need), b # NULL
        PROVE  /\ found(x).ptr \in Nat /\ found(x).ptr # NULL /\ tlsf_payload_block(found(x).ptr) = b
               /\ HeapInv(found(x).h) /\ SameSizes(found(x).h, x, UserBlocks(x))
               /\ found(x).h.regions = x.regions
               /\ b \in Nat /\ b \in FreeBlocks(x) /\ b \notin UserBlocks(x)
               /\ UserBlocks(found(x).h) = UserBlocks(x) \cup {b} /\ need <= found(x).h.blk[b].size
    <3>1. PICK g : g = Take(x, b, need) OBVIOUS
    <3>2. found(x).h = g /\ found(x).ptr = tlsf_block_payload(b) BY <2>2, <3>1
    <3> HIDE DEF found
    <3>3. /\ HeapInv(g) /\ SameSizes(g, x, UserBlocks(x)) /\ g.regions = x.regions
          /\ b \in Nat /\ b \in FreeBlocks(x) /\ b \notin UserBlocks(x)
          /\ UserBlocks(g) = UserBlocks(x) \cup {b} /\ need <= g.blk[b].size
      BY <2>1, <2>2, <3>1, FoundSound
    <3>4. found(x).ptr \in Nat /\ found(x).ptr # NULL /\ tlsf_payload_block(found(x).ptr) = b
      BY <3>2, <3>3, PayloadInverse
    <3> QED BY <3>2, <3>3, <3>4
  <2>3. \/ tlsf_find(h, need) # NULL /\ r = found(h)
        \/ /\ tlsf_find(h, need) = NULL
           /\ \E g \in tlsf_grow(h, need) : r = IF g.ok THEN found(g.h) ELSE [h |-> g.h, ptr |-> NULL]
    BY <1>2 DEF malloc
  <2> HIDE DEF found
  <2>4. CASE tlsf_find(h, need) # NULL /\ r = found(h)
    <3>1. PICK b : b = tlsf_find(h, need) OBVIOUS
    <3>2. /\ r.ptr \in Nat /\ r.ptr # NULL /\ tlsf_payload_block(r.ptr) = b
          /\ HeapInv(r.h) /\ SameSizes(r.h, h, UserBlocks(h)) /\ r.h.regions = h.regions
          /\ b \in Nat /\ b \notin UserBlocks(h)
          /\ UserBlocks(r.h) = UserBlocks(h) \cup {b} /\ need <= r.h.blk[b].size
      BY <2>2, <2>4, <3>1
    <3> QED BY <3>2, <1>2 DEF MallocResult
  <2>5. ASSUME tlsf_find(h, need) = NULL, NEW g \in tlsf_grow(h, need),
               r = IF g.ok THEN found(g.h) ELSE [h |-> g.h, ptr |-> NULL]
        PROVE  MallocResult(r, h, need)
    <3>1. /\ HeapInv(g.h) /\ UserBlocks(g.h) = UserBlocks(h) /\ SameSizes(g.h, h, DOMAIN h.blk)
          /\ ~g.ok => g.h.regions = h.regions
          /\ g.ok => /\ tlsf_mapping_search(need) # NoClass
                     /\ \E q : Grown(g.h, h, q, tlsf_class_min(tlsf_mapping_search(need)))
      BY <2>1, GrowSound
    <3>2. SameSizes(g.h, h, UserBlocks(h)) BY <3>1 DEF SameSizes, UserBlocks, Used
    <3>3. CASE ~g.ok
      <4>1. r.h = g.h /\ r.ptr = NULL BY <3>3, <2>5
      <4> QED BY <4>1, <3>1, <3>2, <3>3 DEF MallocResult
    <3>4. CASE g.ok
      <4>0. PICK x : x = g.h OBVIOUS
      <4>1. r = found(x) BY <3>4, <2>5, <4>0
      <4>2. PICK c : c = tlsf_mapping_search(need) /\ c # NoClass BY <3>1, <3>4
      <4>3. PICK q : Grown(x, h, q, tlsf_class_min(c)) BY <3>1, <3>4, <4>0, <4>2
      <4>4. PICK b : b = tlsf_find(x, need) OBVIOUS
      <4>5. b = FirstOf(q) /\ b # NULL /\ \A a \in FreeBlocks(h) : h.blk[a].size < tlsf_class_min(c)
        BY <2>1, <2>5, <3>1, <4>0, <4>2, <4>3, <4>4, GrownFound
      <4>6. /\ r.ptr \in Nat /\ r.ptr # NULL /\ tlsf_payload_block(r.ptr) = b
            /\ HeapInv(r.h) /\ SameSizes(r.h, x, UserBlocks(x)) /\ r.h.regions = x.regions
            /\ b \in Nat /\ b \notin UserBlocks(x)
            /\ UserBlocks(r.h) = UserBlocks(x) \cup {b} /\ need <= r.h.blk[b].size
        BY <2>2, <3>1, <4>0, <4>1, <4>4, <4>5
      <4>7. UserBlocks(x) = UserBlocks(h) /\ SameSizes(r.h, h, UserBlocks(h))
        BY <3>1, <3>2, <4>0, <4>6 DEF SameSizes
      <4>8. r.h.regions = h.regions \cup {q} /\ Within(q, b)
        BY <4>3, <4>5, <4>6, SentinelWithin DEF Grown
      <4> QED BY <4>2, <4>5, <4>6, <4>7, <4>8 DEF MallocResult
    <3> QED BY <3>3, <3>4
  <2> QED BY <2>3, <2>4, <2>5, <1>2
<1> QED BY <1>1, <1>2

-----------------------------------------------------------------------------
(* The invariant *)

(* Block b has another size in g than in h, and no other block in use has. *)
Resized(g, h, b) == g.regions = h.regions /\ SameSizes(g, h, UserBlocks(h) \ {b})

(* Block b has kept its size, or is cut to need bytes.                     *)
Trimmed(g, h, b, need) == g.blk[b].size = need \/ g.blk[b].size = h.blk[b].size

(* Block b has taken over block next.                                      *)
Extended(g, h, b, next) == g.blk[b].size = h.blk[b].size + h.blk[next].size

(* A block in use may be trimmed in place.                                 *)
LEMMA TrimSound ==
  ASSUME NEW h, HeapInv(h), NEW b \in UserBlocks(h), NEW need \in Nat, MinBlock <= need, need % Align = 0,
         NEW g, g = tlsf_split(h, b, need)
  PROVE  /\ HeapInv(g) /\ UserBlocks(g) = UserBlocks(h)
         /\ Resized(g, h, b) /\ Trimmed(g, h, b, need)
<1>0. Sound(h) /\ IsHeap(h) /\ Phys(h) /\ Linked(h, FreeBlocks(h)) BY SoundFacts DEF HeapInv
<1>1. b \in DOMAIN h.blk /\ b \notin Sentinels(h) /\ b \in Used(h) BY DEF UserBlocks, Used
<1>2. FreeBlocks(h) \ {b} = FreeBlocks(h) BY <1>1 DEF FreeBlocks, Used
<1>3. SoundBut(h, b) BY <1>0, <1>2 DEF SoundBut
<1>4. ApartBut(h, NULL) BY <1>0 DEF Sound
<1>5. /\ SoundBut(g, b) /\ SameRegions(g, h) /\ Used(g) = Used(h)
      /\ b \in DOMAIN g.blk /\ b \notin Sentinels(g) /\ ApartBut(g, b)
      /\ SplitSizes(g, h, b, need)
  BY <1>1, <1>3, <1>4, SplitSound
<1>6. FreeBlocks(g) \ {b} = FreeBlocks(g) BY <1>1, <1>5 DEF FreeBlocks, Used
<1>7. Sound(g) BY <1>5, <1>6, SoundFrom DEF SoundBut, ApartBut
<1>8. Sentinels(g) = Sentinels(h) BY <1>5, SentinelsFrame DEF SameRegions
<1>9. OnGrid(g)
  <2>1. b % Align = 0 /\ b \in Nat BY <1>0, <1>1, BlockFacts DEF HeapInv, OnGrid
  <2>2. (b + need) % Align = 0 BY <2>1, AlignSum
  <2> QED BY <2>2, <1>5 DEF HeapInv, OnGrid, SameRegions, SplitSizes
<1>10. SameSizes(g, h, UserBlocks(h) \ {b}) /\ g.blk[b].size \in {need, h.blk[b].size}
  BY <1>5 DEF SplitSizes, SameSizes, UserBlocks
<1>11. CacheInv(g) /\ g.regions = h.regions BY <1>5 DEF HeapInv, CacheInv, SameRegions
<1>12. UserBlocks(g) = UserBlocks(h) BY <1>5, <1>8 DEF UserBlocks
<1> QED BY <1>7, <1>9, <1>10, <1>11, <1>12 DEF HeapInv, Resized, Trimmed

(* A block in use may take over the free block behind it.                  *)
LEMMA ExtendSound ==
  ASSUME NEW h, HeapInv(h), NEW b \in UserBlocks(h),
         NEW next, next = NextBlock(h, b), ~h.blk[next].used,
         NEW g, g = Absorb(tlsf_free_remove(h, next), b)
  PROVE  /\ HeapInv(g) /\ UserBlocks(g) = UserBlocks(h)
         /\ Resized(g, h, b) /\ Extended(g, h, b, next)
<1> DEFINE r == tlsf_free_remove(h, next)
           S == FreeBlocks(h) \ {next}
<1>0. Sound(h) /\ IsHeap(h) /\ Phys(h) /\ Linked(h, FreeBlocks(h)) BY SoundFacts DEF HeapInv
<1>1. b \in DOMAIN h.blk /\ b \notin Sentinels(h) /\ b \in Used(h) /\ h.blk[b].used BY DEF UserBlocks, Used
<1>2. next \in DOMAIN h.blk /\ next \in FreeBlocks(h)
  BY <1>0, <1>1, BlockSizes DEF FreeBlocks
<1>3. IsHeap(r) /\ SameBlocks(r, h) /\ Linked(r, S) BY <1>0, <1>2, FreeRemove
<1> HIDE DEF r
<1>4. /\ Phys(r) /\ FreeBlocks(r) = FreeBlocks(h) /\ Used(r) = Used(h) /\ Sentinels(r) = Sentinels(h)
      /\ \A a : NextBlock(r, a) = NextBlock(h, a)
      /\ r.blk = h.blk
  BY <1>0, <1>3, PhysFrame DEF SameBlocks
<1>5. b \notin FreeBlocks(h) BY <1>1 DEF FreeBlocks
<1>6. S \subseteq FreeBlocks(r) \ {b, next} BY <1>4, <1>5
<1> HIDE DEF S
<1>7. /\ IsHeap(g) /\ Phys(g) /\ SameRegions(g, r)
      /\ Linked(g, S)
      /\ FreeBlocks(g) = FreeBlocks(r) \ {next} /\ Used(g) = Used(r)
      /\ DOMAIN g.blk = DOMAIN r.blk \ {next}
      /\ \A a \in DOMAIN g.blk : g.blk[a].used = r.blk[a].used
      /\ \A a \in DOMAIN g.blk : a # b => NextBlock(g, a) = NextBlock(r, a)
      /\ NextBlock(g, b) = NextBlock(r, next)
      /\ \A a \in DOMAIN g.blk : a # b => g.blk[a].size = r.blk[a].size
  <2>1. b \in DOMAIN r.blk /\ b \notin Sentinels(r) /\ next = NextBlock(r, b) /\ next \in FreeBlocks(r)
    BY <1>1, <1>2, <1>4
  <2>2. g = Absorb(r, b) BY DEF r
  <2> QED BY <1>3, <1>4, <1>6, <2>1, <2>2, AbsorbSound
<1>8. FreeBlocks(g) = S BY <1>4, <1>7 DEF S
<1>9. ASSUME NEW a \in FreeBlocks(g) PROVE g.blk[NextBlock(g, a)].used
  <2>1. a \in FreeBlocks(h) /\ a # b /\ a \in DOMAIN g.blk BY <1>5, <1>8 DEF S, FreeBlocks
  <2>2. h.blk[NextBlock(h, a)].used /\ NextBlock(h, a) \in DOMAIN h.blk
    <3>1. a \in DOMAIN h.blk /\ a \notin Sentinels(h) BY <2>1, <1>0, FreeNotSentinel
    <3>2. h.blk[NextBlock(h, a)].used BY <2>1, SoundFacts, <1>0
    <3> QED BY <3>1, <3>2, <1>0, BlockSizes
  <2>3. NextBlock(h, a) # next BY <2>2
  <2>4. NextBlock(g, a) = NextBlock(h, a) BY <2>1, <1>4, <1>7
  <2> QED BY <2>2, <2>3, <2>4, <1>4, <1>7
<1>10. Sound(g) BY <1>7, <1>8, <1>9, SoundFrom
<1>11. Sentinels(g) = Sentinels(r) BY <1>7, SentinelsFrame DEF SameRegions
<1>12. SameRegions(g, h) BY <1>3, <1>7 DEF SameRegions, SameBlocks
<1>13. CacheInv(g) /\ g.regions = h.regions BY <1>12 DEF HeapInv, CacheInv, SameRegions
<1>14. OnGrid(g) BY <1>4, <1>7, <1>12, GridFrame DEF HeapInv, SameRegions
<1>15. UserBlocks(g) = UserBlocks(h) BY <1>4, <1>7, <1>11 DEF UserBlocks
<1>16. b # next BY <1>2, <1>5
<1>17. SameSizes(g, h, UserBlocks(h) \ {b})
  <2>1. \A a \in UserBlocks(h) : a \in DOMAIN h.blk /\ a # next BY <1>2 DEF UserBlocks, Used, FreeBlocks
  <2> QED BY <2>1, <1>4, <1>7 DEF SameSizes
<1>18. g.blk[b].size = h.blk[b].size + h.blk[next].size
  <2>1. b \in DOMAIN g.blk BY <1>1, <1>4, <1>7, <1>16
  <2>2. /\ b \in Nat /\ h.blk[b].size \in Nat /\ next = b + h.blk[b].size
        /\ next \in Nat /\ h.blk[next].size \in Nat /\ NextBlock(h, next) = next + h.blk[next].size
    BY <1>0, <1>1, <1>2, BlockFacts
  <2>3. g.blk[b].size \in Nat /\ NextBlock(g, b) = b + g.blk[b].size BY <2>1, <1>7, BlockFacts
  <2>4. b + g.blk[b].size = next + h.blk[next].size BY <2>2, <2>3, <1>4, <1>7
  <2>5. \A x, k, m, n \in Nat : x + k = (x + m) + n => k = m + n OBVIOUS
  <2>6. b + g.blk[b].size = (b + h.blk[b].size) + h.blk[next].size BY ONLY <2>2, <2>4
  <2> QED BY ONLY <2>2, <2>3, <2>5, <2>6
<1> QED BY <1>10, <1>13, <1>14, <1>15, <1>17, <1>18 DEF HeapInv, Resized, Extended

(* The pointers the program holds, and the sizes it asked for.             *)
OwnedTypes(o) == DOMAIN o \subseteq Nat \ {0} /\ \A p \in DOMAIN o : o[p] \in Nat

(* The blocks of those pointers.                                           *)
Blocks(o) == {tlsf_payload_block(p) : p \in DOMAIN o}

(* The program holds pointers to all the blocks in use, and to no other.   *)
Holds(h, o) == OwnedTypes(o) /\ Blocks(o) = UserBlocks(h)

(* The block of each pointer has room for its header and the size the      *)
(* program last asked for.                                                 *)
Roomy(h, o) == \A p \in DOMAIN o : o[p] + Header <= h.blk[tlsf_payload_block(p)].size

(* A heap and the pointers into it, between two calls.                     *)
State(h, o) == HeapInv(h) /\ AllBusy(h) /\ Holds(h, o) /\ Roomy(h, o)

(* The inductive invariant of the specification.                           *)
Inv == State(heap, owned)

(* The parts of a state.                                                   *)
LEMMA StateFacts ==
  ASSUME NEW h, NEW o, State(h, o)
  PROVE  /\ HeapInv(h) /\ AllBusy(h) /\ OwnedTypes(o) /\ Blocks(o) = UserBlocks(h) /\ Roomy(h, o)
         /\ \A p \in DOMAIN o : /\ p \in Nat /\ p # NULL /\ o[p] \in Nat
                                /\ tlsf_payload_block(p) \in UserBlocks(h)
BY DEF State, Holds, OwnedTypes, Blocks, NULL

(* The pointers of o but p.                                                *)
Without(o, p) == [q \in DOMAIN o \ {p} |-> o[q]]

(* Different pointers have different blocks.                               *)
LEMMA BlocksDiffer ==
  ASSUME NEW p \in Nat, NEW q \in Nat, tlsf_payload_block(p) = tlsf_payload_block(q)
  PROVE  p = q
BY SizeFacts DEF tlsf_payload_block

(* A new pointer adds its block.                                           *)
LEMMA HoldBlocks ==
  ASSUME NEW o, OwnedTypes(o), NEW p \in Nat \ {0}, NEW size \in Nat
  PROVE  OwnedTypes(Hold(o, p, size)) /\ Blocks(Hold(o, p, size)) = Blocks(o) \cup {tlsf_payload_block(p)}
BY DEF Hold, OwnedTypes, Blocks

(* A dropped pointer takes its block away.                                 *)
LEMMA DropBlocks ==
  ASSUME NEW o, OwnedTypes(o), NEW p \in DOMAIN o
  PROVE  OwnedTypes(Without(o, p)) /\ Blocks(Without(o, p)) = Blocks(o) \ {tlsf_payload_block(p)}
<1>1. OwnedTypes(Without(o, p)) /\ DOMAIN Without(o, p) = DOMAIN o \ {p} BY DEF Without, OwnedTypes
<1>2. \A q \in DOMAIN o : tlsf_payload_block(q) = tlsf_payload_block(p) => q = p
  BY BlocksDiffer DEF OwnedTypes
<1> QED BY <1>1, <1>2 DEF Blocks

(* free keeps the invariant and gives up the block of its pointer.         *)
LEMMA FreeSound ==
  ASSUME NEW h, HeapInv(h), NEW p, p # NULL, tlsf_payload_block(p) \in UserBlocks(h)
  PROVE  /\ HeapInv(free(h, p))
         /\ UserBlocks(free(h, p)) = UserBlocks(h) \ {tlsf_payload_block(p)}
         /\ SameSizes(free(h, p), h, UserBlocks(free(h, p))) /\ free(h, p).regions \subseteq h.regions
         /\ AllBusy(h) => AllBusy(free(h, p))
<1> DEFINE b == tlsf_payload_block(p)
           g == tlsf_free_block(h, b)
<1>1. h.blk[b].used BY DEF UserBlocks, Used
<1>2. free(h, p) = g BY <1>1 DEF free
<1>3. b \in UserBlocks(h) OBVIOUS
<1> HIDE DEF b
<1>4. /\ HeapInv(g) /\ UserBlocks(g) = UserBlocks(h) \ {b}
      /\ SameSizes(g, h, UserBlocks(g)) /\ g.regions \subseteq h.regions
      /\ AllBusy(h) => AllBusy(g)
  BY <1>3, FreeBlock
<1> QED BY <1>2, <1>4 DEF b

(* The empty heap satisfies the invariant.                                 *)
LEMMA InitInv == Init => Inv
<1> SUFFICES ASSUME Init PROVE Inv OBVIOUS
<1>1. /\ heap.blk = << >> /\ heap.links = << >> /\ heap.regions = {} /\ heap.cache = {}
      /\ heap.ccount = 0 /\ heap.cbytes = 0 /\ heap.fl = {}
      /\ heap.head = [c \in Classes |-> NULL] /\ heap.sl = [f \in 0..FLMax |-> {}]
      /\ IsHeap(heap)
      /\ owned = << >>
  BY DEF Init, IsHeap
<1>2. DOMAIN heap.blk = {} /\ DOMAIN heap.links = {} /\ DOMAIN owned = {} BY <1>1
<1>3. Sentinels(heap) = {} /\ FreeBlocks(heap) = {} /\ Used(heap) = {}
  BY <1>1, <1>2 DEF Sentinels, Starts, Ends, FreeBlocks, Used
<1>4. Phys(heap)
  <2>1. Mapping(heap) BY <1>1 DEF Mapping
  <2>2. BlockTypes(heap)
    <3>1. heap.blk \in [DOMAIN heap.blk -> Block] BY <1>1, <1>2
    <3> QED BY <3>1, <1>2 DEF BlockTypes
  <2>3. SentinelsOK(heap) BY <1>1 DEF SentinelsOK
  <2>4. Tiled(heap) /\ Disjoint(heap) BY <1>2 DEF Tiled, Disjoint
  <2> QED BY <2>1, <2>2, <2>3, <2>4 DEF Phys
<1>5. Linked(heap, {})
  <2>1. heap.links \in [{} -> Link] BY <1>1, <1>2
  <2>2. ListTypes(heap, {}) BY <2>1, <1>1 DEF ListTypes, NULL
  <2>3. Chained(heap, {}) BY DEF Chained
  <2>4. Headed(heap, {}) BY <1>1 DEF Headed
  <2>5. Mapped(heap)
    <3>1. \A c \in Classes : c[1] \in 0..FLMax BY ClassParts
    <3> QED BY <3>1, <1>1 DEF Mapped
  <2>6. Ranked(heap, {})
    <3>1. \E f : f = [b \in {} |-> 0] OBVIOUS
    <3> QED BY <3>1 DEF Ranked
  <2> QED BY <2>2, <2>3, <2>4, <2>5, <2>6 DEF Linked
<1>6. Sound(heap) BY <1>1, <1>3, <1>4, <1>5, SoundFrom
<1>7. CacheInv(heap) BY <1>1, FS_EmptySet, SumEmpty, TlsfAssumption DEF CacheInv
<1>8. Holds(heap, owned) BY <1>2, <1>3 DEF Holds, OwnedTypes, Blocks, UserBlocks
<1>9. OnGrid(heap) BY <1>1, <1>2 DEF OnGrid
<1>10. AllBusy(heap) /\ Roomy(heap, owned) BY <1>1, <1>2 DEF AllBusy, Roomy
<1> QED BY <1>6, <1>7, <1>8, <1>9, <1>10 DEF Inv, State, HeapInv

-----------------------------------------------------------------------------
(* Steps and theorems *)

(* The room in the blocks that keep their size stays.                      *)
LEMMA RoomStays ==
  ASSUME NEW h, NEW o, OwnedTypes(o), Roomy(h, o), NEW g, NEW x, DOMAIN x \subseteq DOMAIN o,
         \A p \in DOMAIN x : x[p] = o[p] /\ g.blk[tlsf_payload_block(p)].size = h.blk[tlsf_payload_block(p)].size
  PROVE  Roomy(g, x)
BY DEF Roomy

(* The size of a block of the heap is a natural.                           *)
LEMMA UserSize ==
  ASSUME NEW h, HeapInv(h), NEW b \in UserBlocks(h)
  PROVE  h.blk[b].size \in Nat /\ b \in Nat
BY SoundFacts, BlockFacts DEF HeapInv, UserBlocks, Used

(* After malloc every region is busy, a new one because malloc allocates   *)
(* from it.                                                                *)
LEMMA MallocBusy ==
  ASSUME NEW h, HeapInv(h), AllBusy(h), NEW r, NEW need, MallocResult(r, h, need)
  PROVE  AllBusy(r.h)
<1>0. Sound(h) /\ Sound(r.h) /\ Phys(r.h) BY SoundFacts DEF HeapInv, MallocResult
<1>1. UserBlocks(h) \subseteq UserBlocks(r.h) BY DEF MallocResult
<1>2. CASE r.h.regions = h.regions BY <1>0, <1>1, <1>2, BusyFrame
<1>3. ASSUME NEW q, r.h.regions = h.regions \cup {q}, NEW b \in UserBlocks(r.h), Within(q, b)
      PROVE  AllBusy(r.h)
  <2> SUFFICES ASSUME NEW a \in r.h.regions PROVE Busy(r.h, a) BY DEF AllBusy
  <2>1. CASE a = q BY <2>1, <1>0, <1>3, UserBusy
  <2>2. CASE a \in h.regions
    <3>1. PICK x \in UserBlocks(h) : Within(a, x) BY <2>2, <1>0, BusyUser DEF AllBusy
    <3> QED BY <3>1, <1>0, <1>1, UserBusy
  <2> QED BY <2>1, <2>2, <1>3
<1> QED BY <1>2, <1>3 DEF MallocResult

(* malloc leads from a state to a state, and a pointer it returns is new.  *)
LEMMA MallocState ==
  ASSUME NEW h, NEW o, State(h, o), NEW size \in Nat, NEW r \in malloc(h, size),
         NEW x, x = IF r.ptr = NULL THEN o ELSE Hold(o, r.ptr, size)
  PROVE  State(r.h, x) /\ (r.ptr # NULL => r.ptr \in Nat /\ r.ptr \notin DOMAIN o)
<1> DEFINE need == tlsf_size_to_block(size)
<1>0. /\ HeapInv(h) /\ AllBusy(h) /\ OwnedTypes(o) /\ Blocks(o) = UserBlocks(h) /\ Roomy(h, o)
  BY StateFacts
<1>1. MallocResult(r, h, need) /\ (need = 0 => r.ptr = NULL) BY <1>0, MallocSound
<1> HIDE DEF need
<1>2. HeapInv(r.h) /\ AllBusy(r.h) BY <1>0, <1>1, MallocBusy DEF MallocResult
<1>3. \A p \in DOMAIN o : r.h.blk[tlsf_payload_block(p)].size = h.blk[tlsf_payload_block(p)].size
  <2>1. SameSizes(r.h, h, UserBlocks(h)) BY <1>1 DEF MallocResult
  <2> QED BY <2>1, <1>0 DEF Blocks, SameSizes
<1>4. CASE r.ptr = NULL
  <2>1. UserBlocks(r.h) = UserBlocks(h) BY <1>1, <1>4 DEF MallocResult
  <2>2. Roomy(r.h, o) BY <1>0, <1>3, RoomStays
  <2> QED BY <1>0, <1>2, <1>4, <2>1, <2>2 DEF State, Holds
<1>5. CASE r.ptr # NULL
  <2> DEFINE b == tlsf_payload_block(r.ptr)
  <2>1. /\ r.ptr \in Nat \ {0} /\ b \notin UserBlocks(h)
        /\ UserBlocks(r.h) = UserBlocks(h) \cup {b} /\ need <= r.h.blk[b].size
    BY <1>1, <1>5 DEF MallocResult, NULL
  <2>2. x = Hold(o, r.ptr, size) BY <1>5
  <2>3. OwnedTypes(x) /\ Blocks(x) = Blocks(o) \cup {b} BY <2>1, <2>2, <1>0, HoldBlocks
  <2>4. size + Header <= r.h.blk[b].size
    <3>1. need \in Nat /\ size + Header <= need BY <1>1, <1>5, NeedRange DEF need
    <3>2. r.h.blk[b].size \in Nat BY <2>1, <1>2, UserSize
    <3>3. \A i, j, k \in Nat : i <= j /\ j <= k => i <= k OBVIOUS
    <3>4. size + Header \in Nat BY SizeFacts
    <3> QED BY <3>1, <3>2, <3>3, <3>4, <2>1
  <2>5. Roomy(r.h, x)
    <3>1. SUFFICES ASSUME NEW p \in DOMAIN x PROVE x[p] + Header <= r.h.blk[tlsf_payload_block(p)].size
      BY DEF Roomy
    <3>2. CASE p = r.ptr
      <4>1. x[p] = size BY <3>2, <2>2 DEF Hold
      <4> QED BY <4>1, <3>2, <2>4
    <3>3. CASE p # r.ptr
      <4>1. p \in DOMAIN o /\ x[p] = o[p] BY <3>1, <3>3, <2>2 DEF Hold
      <4> QED BY <4>1, <1>0, <1>3 DEF Roomy
    <3> QED BY <3>2, <3>3
  <2>6. r.ptr \notin DOMAIN o BY <2>1, <1>0 DEF Blocks
  <2> QED BY <1>0, <1>2, <2>1, <2>3, <2>5, <2>6 DEF State, Holds
<1> QED BY <1>4, <1>5

(* free leads from a state to a state.                                     *)
LEMMA FreeState ==
  ASSUME NEW h, NEW o, State(h, o), NEW p \in DOMAIN o, NEW x, x = Without(o, p)
  PROVE  State(free(h, p), x) /\ free(h, p).regions \subseteq h.regions
<1>0. /\ HeapInv(h) /\ AllBusy(h) /\ OwnedTypes(o) /\ Blocks(o) = UserBlocks(h) /\ Roomy(h, o)
      /\ p # NULL /\ tlsf_payload_block(p) \in UserBlocks(h)
  BY StateFacts
<1>1. PICK g : g = free(h, p) OBVIOUS
<1>2. /\ HeapInv(g) /\ UserBlocks(g) = UserBlocks(h) \ {tlsf_payload_block(p)}
      /\ SameSizes(g, h, UserBlocks(g)) /\ AllBusy(g) /\ g.regions \subseteq h.regions
  BY <1>0, <1>1, FreeSound
<1>3. OwnedTypes(x) /\ Blocks(x) = Blocks(o) \ {tlsf_payload_block(p)} BY <1>0, DropBlocks
<1>4. Roomy(g, x)
  <2>1. DOMAIN x \subseteq DOMAIN o /\ \A q \in DOMAIN x : x[q] = o[q] BY DEF Without
  <2>2. \A q \in DOMAIN x : tlsf_payload_block(q) \in UserBlocks(g) BY <1>0, <1>2, <1>3 DEF Blocks
  <2> QED BY <2>1, <2>2, <1>0, <1>2, RoomStays DEF SameSizes
<1> QED BY <1>0, <1>1, <1>2, <1>3, <1>4 DEF State, Holds

(* Pointers are aligned.                                                   *)
LEMMA PointerAligned ==
  ASSUME NEW h, NEW o, State(h, o), NEW p \in DOMAIN o
  PROVE  p % Align = 0
<1> DEFINE b == tlsf_payload_block(p)
<1>1. HeapInv(h) /\ p \in Nat /\ b \in UserBlocks(h) BY StateFacts
<1>2. b \in Nat /\ Header \in Nat /\ Header % Align = 0 BY <1>1, UserSize, SizeFacts, TlsfAssumption
<1>3. b % Align = 0 BY <1>1 DEF HeapInv, OnGrid, UserBlocks, Used
<1>4. p = b + Header BY <1>1, <1>2 DEF tlsf_payload_block
<1> HIDE DEF b
<1> QED BY <1>2, <1>3, <1>4, AlignSum

(* malloc, and calloc after it, keeps the invariant.                       *)
LEMMA MallocStep ==
  ASSUME Inv, NEW size \in Nat, Malloc(size)
  PROVE  Inv'
<1>1. PICK r \in malloc(heap, size) :
        heap' = r.h /\ owned' = IF r.ptr = NULL THEN owned ELSE Hold(owned, r.ptr, size)
  BY DEF Malloc
<1>2. State(r.h, IF r.ptr = NULL THEN owned ELSE Hold(owned, r.ptr, size)) BY MallocState DEF Inv
<1> QED BY <1>1, <1>2 DEF Inv

(* free keeps the invariant.                                               *)
LEMMA FreeStep ==
  ASSUME Inv, NEW p \in DOMAIN owned, Free(p)
  PROVE  Inv'
<1>1. heap' = free(heap, p) /\ owned' = Without(owned, p) BY DEF Free, Drop, Without
<1>2. State(free(heap, p), Without(owned, p)) BY FreeState DEF Inv
<1> QED BY <1>1, <1>2 DEF Inv

(* A realloc in place keeps the pointers.                                  *)
LEMMA KeptBlocks ==
  ASSUME OwnedTypes(owned), NEW p \in DOMAIN owned, NEW size \in Nat, owned' = [owned EXCEPT ![p] = size]
  PROVE  OwnedTypes(owned') /\ Blocks(owned') = Blocks(owned)
BY DEF OwnedTypes, Blocks

(* The room left when the block of p has changed and no other has.         *)
LEMMA ResizeRoom ==
  ASSUME NEW h, HeapInv(h), OwnedTypes(owned), Blocks(owned) = UserBlocks(h), Roomy(h, owned),
         NEW p \in DOMAIN owned, NEW b, b = tlsf_payload_block(p), NEW size,
         NEW g, SameSizes(g, h, UserBlocks(h) \ {b}), size + Header <= g.blk[b].size,
         NEW x, x = [owned EXCEPT ![p] = size]
  PROVE  Roomy(g, x)
<1> SUFFICES ASSUME NEW q \in DOMAIN x PROVE x[q] + Header <= g.blk[tlsf_payload_block(q)].size
  BY DEF Roomy
<1>1. CASE q = p BY <1>1
<1>2. CASE q # p
  <2>1. q \in DOMAIN owned /\ x[q] = owned[q] BY <1>2
  <2>2. p \in Nat /\ q \in Nat BY <2>1 DEF OwnedTypes
  <2>3. tlsf_payload_block(q) # b BY <2>2, <1>2, BlocksDiffer
  <2>4. tlsf_payload_block(q) \in UserBlocks(h) BY <2>1 DEF Blocks
  <2> QED BY <2>1, <2>3, <2>4 DEF SameSizes, Roomy
<1> QED BY <1>1, <1>2

(* realloc that trims the block keeps the invariant.                       *)
LEMMA ShrinkStep ==
  ASSUME Inv, NEW p \in DOMAIN owned, NEW size \in Nat, ReallocShrink(p, size)
  PROVE  Inv'
<1> DEFINE b == tlsf_payload_block(p)
           need == tlsf_size_to_block(size)
<1>0. /\ HeapInv(heap) /\ AllBusy(heap) /\ OwnedTypes(owned) /\ Blocks(owned) = UserBlocks(heap)
      /\ Roomy(heap, owned)
  BY StateFacts DEF Inv
<1>1. /\ need # 0 /\ need <= heap.blk[b].size
      /\ heap' = tlsf_split(heap, b, need) /\ owned' = [owned EXCEPT ![p] = size]
  BY DEF ReallocShrink
<1>2. need \in Nat /\ MinBlock <= need /\ need % Align = 0 /\ size + Header <= need BY <1>1, NeedRange
<1>3. b \in UserBlocks(heap) BY StateFacts DEF Inv
<1> HIDE DEF b, need
<1>5. /\ HeapInv(heap') /\ UserBlocks(heap') = UserBlocks(heap)
      /\ Resized(heap', heap, b) /\ Trimmed(heap', heap, b, need)
  <2>1. PICK g : g = heap' OBVIOUS
  <2>2. g = tlsf_split(heap, b, need) BY <2>1, <1>1
  <2>3. /\ HeapInv(g) /\ UserBlocks(g) = UserBlocks(heap)
        /\ Resized(g, heap, b) /\ Trimmed(g, heap, b, need)
    BY ONLY <2>2, <1>0, <1>2, <1>3, TrimSound
  <2> QED BY <2>1, <2>3
<1>6. OwnedTypes(owned') /\ Blocks(owned') = Blocks(owned) BY <1>0, <1>1, KeptBlocks
<1>7. size + Header <= heap'.blk[b].size
  <2>1. heap.blk[b].size \in Nat BY <1>0, <1>3, UserSize
  <2>2. size + Header \in Nat BY SizeFacts
  <2>3. \A x, y, z \in Nat : x <= y /\ y <= z => x <= z OBVIOUS
  <2>4. size + Header <= heap.blk[b].size BY <2>1, <2>2, <2>3, <1>1, <1>2
  <2> QED BY <2>4, <1>2, <1>5 DEF Trimmed
<1>8. Roomy(heap', owned') BY <1>0, <1>1, <1>5, <1>7, ResizeRoom DEF b, Resized
<1>9. AllBusy(heap') BY <1>0, <1>5, BusyFrame DEF HeapInv, Resized
<1> QED BY <1>0, <1>5, <1>6, <1>8, <1>9 DEF Inv, State, Holds

(* A request larger than a block is not one tlsf_size_to_block refuses.    *)
LEMMA NeedNotZero ==
  ASSUME NEW size \in Nat, NEW b \in UserBlocks(heap), HeapInv(heap), tlsf_size_to_block(size) > heap.blk[b].size
  PROVE  tlsf_size_to_block(size) # 0
<1>1. heap.blk[b].size \in Nat BY UserSize
<1> QED BY <1>1

(* realloc that takes over the free block behind keeps the invariant.      *)
LEMMA ExtendStep ==
  ASSUME Inv, NEW p \in DOMAIN owned, NEW size \in Nat, ReallocExtend(p, size)
  PROVE  Inv'
<1> DEFINE b == tlsf_payload_block(p)
           need == tlsf_size_to_block(size)
           next == NextBlock(heap, b)
           g == Absorb(tlsf_free_remove(heap, next), b)
<1>0. /\ HeapInv(heap) /\ AllBusy(heap) /\ OwnedTypes(owned) /\ Blocks(owned) = UserBlocks(heap)
      /\ Roomy(heap, owned)
  BY StateFacts DEF Inv
<1>1. /\ need > heap.blk[b].size /\ ~heap.blk[next].used /\ heap.blk[b].size + heap.blk[next].size >= need
      /\ heap' = tlsf_split(g, b, need) /\ owned' = [owned EXCEPT ![p] = size]
  BY DEF ReallocExtend, CanExtend
<1>2. b \in UserBlocks(heap) BY StateFacts DEF Inv
<1>3. need \in Nat /\ MinBlock <= need /\ need % Align = 0 /\ size + Header <= need
  <2> HIDE DEF b
  <2> QED BY <1>0, <1>1, <1>2, NeedNotZero, NeedRange
<1> HIDE DEF b, need, g
<1>4. /\ HeapInv(g) /\ UserBlocks(g) = UserBlocks(heap)
      /\ Resized(g, heap, b) /\ Extended(g, heap, b, next)
  <2>1. PICK n : n = next OBVIOUS
  <2> HIDE DEF next
  <2>2. n = NextBlock(heap, b) BY <2>1 DEF next
  <2>3. g = Absorb(tlsf_free_remove(heap, n), b) BY <2>1 DEF g
  <2>4. ~heap.blk[n].used BY <1>1, <2>1
  <2>5. /\ HeapInv(g) /\ UserBlocks(g) = UserBlocks(heap)
        /\ Resized(g, heap, b) /\ Extended(g, heap, b, n)
    BY ONLY <1>0, <1>2, <2>2, <2>3, <2>4, ExtendSound
  <2> QED BY <2>1, <2>5
<1> HIDE DEF next
<1>5. /\ HeapInv(heap') /\ UserBlocks(heap') = UserBlocks(g)
      /\ Resized(heap', g, b) /\ Trimmed(heap', g, b, need)
  <2>1. PICK x : x = heap' OBVIOUS
  <2>2. x = tlsf_split(g, b, need) BY <2>1, <1>1
  <2>3. b \in UserBlocks(g) BY <1>2, <1>4
  <2>4. /\ HeapInv(x) /\ UserBlocks(x) = UserBlocks(g)
        /\ Resized(x, g, b) /\ Trimmed(x, g, b, need)
    BY ONLY <2>2, <2>3, <1>3, <1>4, TrimSound
  <2> QED BY <2>1, <2>4
<1>6. OwnedTypes(owned') /\ Blocks(owned') = Blocks(owned) BY <1>0, <1>1, KeptBlocks
<1>7. size + Header <= heap'.blk[b].size
  <2>1. g.blk[b].size \in Nat BY <1>2, <1>4, UserSize
  <2>2. size + Header \in Nat BY SizeFacts
  <2>3. \A x, y, z \in Nat : x <= y /\ z >= y => x <= z OBVIOUS
  <2>4. g.blk[b].size >= need BY <1>1, <1>4 DEF Extended
  <2>5. size + Header <= g.blk[b].size BY <2>1, <2>2, <2>3, <2>4, <1>3
  <2> QED BY <2>5, <1>3, <1>5 DEF Trimmed
<1>8. Resized(heap', heap, b) BY <1>4, <1>5 DEF SameSizes, Resized
<1>9. Roomy(heap', owned') BY <1>0, <1>1, <1>7, <1>8, ResizeRoom DEF b, Resized
<1>10. AllBusy(heap') BY <1>0, <1>4, <1>5, <1>8, BusyFrame DEF HeapInv, Resized
<1> QED BY <1>0, <1>4, <1>5, <1>6, <1>9, <1>10 DEF Inv, State, Holds

(* realloc that moves keeps the invariant, when malloc fails too.          *)
LEMMA MoveStep ==
  ASSUME Inv, NEW p \in DOMAIN owned, NEW size \in Nat, ReallocMove(p, size)
  PROVE  Inv'
<1>1. PICK r \in malloc(heap, size) :
        IF r.ptr = NULL
        THEN heap' = r.h /\ owned' = owned
        ELSE heap' = free(r.h, p) /\ owned' = Hold(Drop(p), r.ptr, size)
  BY DEF ReallocMove
<1>2. PICK x : x = IF r.ptr = NULL THEN owned ELSE Hold(owned, r.ptr, size) OBVIOUS
<1>3. State(r.h, x) /\ (r.ptr # NULL => r.ptr \notin DOMAIN owned) BY <1>2, MallocState DEF Inv
<1>4. CASE r.ptr = NULL BY <1>1, <1>2, <1>3, <1>4 DEF Inv
<1>5. CASE r.ptr # NULL
  <2>1. x = Hold(owned, r.ptr, size) /\ p \in DOMAIN x BY <1>2, <1>5 DEF Hold
  <2>2. State(free(r.h, p), Without(x, p)) BY <2>1, <1>3, FreeState
  <2>3. owned' = Without(x, p) BY <2>1, <1>1, <1>3, <1>5 DEF Hold, Drop, Without
  <2> QED BY <2>2, <2>3, <1>1, <1>5 DEF Inv
<1> QED BY <1>4, <1>5

(* Every step of the specification keeps the invariant.                    *)
LEMMA Step == Inv /\ [Next]_vars => Inv'
<1> SUFFICES ASSUME Inv, [Next]_vars PROVE Inv' OBVIOUS
<1>0. Sizes \subseteq Nat BY TlsfAssumption
<1>1. ASSUME NEW size \in Sizes, Malloc(size) PROVE Inv' BY <1>0, <1>1, MallocStep
<1>2. ASSUME NEW nmemb \in Sizes, NEW size \in Sizes, Calloc(nmemb, size) PROVE Inv'
  <2>1. nmemb * size \in Nat BY <1>0
  <2>2. Malloc(nmemb * size) BY <1>2 DEF Calloc
  <2> QED BY <2>1, <2>2, MallocStep
<1>3. ASSUME NEW p \in DOMAIN owned, Free(p) PROVE Inv' BY <1>3, FreeStep
<1>4. ASSUME NEW p \in DOMAIN owned, NEW size \in Sizes, Realloc(p, size) PROVE Inv'
  <2>1. size \in Nat BY <1>0
  <2>2. CASE Free(p) BY <2>2, FreeStep
  <2>3. CASE ReallocShrink(p, size) BY <2>1, <2>3, ShrinkStep
  <2>4. CASE ReallocExtend(p, size) BY <2>1, <2>4, ExtendStep
  <2>5. CASE ReallocMove(p, size) BY <2>1, <2>5, MoveStep
  <2> QED BY <1>4, <2>2, <2>3, <2>4, <2>5 DEF Realloc
<1>5. CASE UNCHANGED vars
  <2>1. heap' = heap /\ owned' = owned BY <1>5 DEF vars
  <2> QED BY <2>1 DEF Inv
<1> QED BY <1>1, <1>2, <1>3, <1>4, <1>5 DEF Next

(* The inductive invariant holds in every reachable state of the allocator. *)
THEOREM Invariance == Spec => []Inv
BY InitInv, Step, PTL DEF Spec

(* The parts of the invariant the properties need.                         *)
LEMMA InvFacts ==
  ASSUME Inv
  PROVE  /\ Phys(heap) /\ Linked(heap, FreeBlocks(heap)) /\ CacheInv(heap)
         /\ \A a \in FreeBlocks(heap) : heap.blk[NextBlock(heap, a)].used
         /\ OwnedTypes(owned) /\ Blocks(owned) = UserBlocks(heap)
BY SoundFacts, StateFacts DEF Inv, HeapInv

(* The invariant implies type correctness.                                 *)
LEMMA InvTypeOK == Inv => TypeOK
<1> SUFFICES ASSUME Inv PROVE TypeOK OBVIOUS
<1>1. Phys(heap) /\ Linked(heap, FreeBlocks(heap)) /\ CacheInv(heap) /\ OwnedTypes(owned) BY InvFacts
<1>2. ASSUME NEW b \in DOMAIN heap.blk PROVE b \in Addr
  <2>1. CASE b \in Sentinels(heap)
    <3>1. PICK r \in heap.regions : b = StartOf(r) \/ b = EndOf(r) BY <2>1 DEF Sentinels, Starts, Ends
    <3>2. RegionOK(r) BY <1>1 DEF Phys, Mapping
    <3>3. /\ r.base \in Nat /\ r.size \in Nat /\ r.base > 0
          /\ StartOf(r) \in Nat /\ FirstOf(r) \in Nat /\ EndOf(r) \in Nat /\ UsableOf(r) \in Nat
          /\ FirstOf(r) = StartOf(r) + Header /\ EndOf(r) + Header = r.base + r.size
          /\ EndOf(r) = FirstOf(r) + UsableOf(r)
          /\ r.base <= StartOf(r) /\ r.base + r.size <= AddrMax
      BY <3>2, RegionFacts
    <3> QED BY <3>1, <3>3, SizeFacts DEF Addr
  <2>2. CASE b \notin Sentinels(heap) BY <1>1, <2>2, BlockSizes
  <2> QED BY <2>1, <2>2
<1>3. \A b \in DOMAIN heap.blk : heap.blk[b] \in Block BY <1>1 DEF Phys, BlockTypes
<1>4. DOMAIN heap.links \subseteq Addr /\ \A b \in DOMAIN heap.links : heap.links[b] \in Link
  BY <1>1, <1>2 DEF Linked, ListTypes, FreeBlocks
<1>5. /\ heap.head \in [Classes -> Nat] /\ heap.sl \in [0..FLMax -> SUBSET (0..SLCount-1)]
      /\ heap.fl \subseteq 0..FLMax
  BY <1>1 DEF Linked, ListTypes
<1>6. heap.regions \subseteq Region /\ heap.cache \subseteq Region BY <1>1 DEF Phys, Mapping, RegionOK
<1>7. heap.ccount \in Nat /\ heap.cbytes \in Int BY <1>1, FS_CardinalityType DEF CacheInv
<1>8. \A p \in DOMAIN owned : p \in Nat /\ owned[p] \in Nat BY <1>1 DEF OwnedTypes
<1> QED BY <1>2, <1>3, <1>4, <1>5, <1>6, <1>7, <1>8 DEF TypeOK

(* The heap of malloc.c and the pointers of its caller stay type correct,  *)
(* for every choice of its constants.                                      *)
THEOREM TypeCorrect == Spec => []TypeOK
BY Invariance, InvTypeOK, PTL

(* The boundary tags that free, tlsf_split and realloc coalesce along are  *)
(* right in every reachable state, and blocks never overlap.               *)
THEOREM TagsCorrect == Spec => []BoundaryTags
<1>1. Inv => BoundaryTags BY InvFacts DEF Phys, BoundaryTags
<1> QED BY <1>1, Invariance, PTL

(* No two free blocks are ever neighbours: free, tlsf_split and realloc    *)
(* coalesce on every path.                                                 *)
THEOREM Coalesced == Spec => []NoAdjacentFree
<1>1. Inv => NoAdjacentFree BY InvFacts DEF NoAdjacentFree
<1> QED BY <1>1, Invariance, PTL

(* The blocks of a class.                                                  *)
OfClass(h, S, c) == {b \in S : ClassOf(h, b) = c}

(* The next blocks of those of X are of it.                                *)
Closed(h, X) == \A b \in X : h.links[b].next # NULL => h.links[b].next \in X

(* A set of blocks of a class that has the head of their list, and of each *)
(* of its blocks the next one, has them all: the first one missing would   *)
(* have its prev block in the set.                                         *)
LEMMA ClosedIsWhole ==
  ASSUME NEW h, NEW S, Linked(h, S), IsFiniteSet(S), NEW c \in Classes,
         NEW X, h.head[c] # NULL => h.head[c] \in X, Closed(h, X)
  PROVE  OfClass(h, S, c) \subseteq X
<1> DEFINE C == OfClass(h, S, c) \ X
           L == StrictSubsetOrdering(S)
<1> SUFFICES ASSUME C # {} PROVE FALSE OBVIOUS
<1>1. PICK rank \in [S -> Nat] : \A b \in S : h.links[b].next # NULL => rank[h.links[b].next] < rank[b]
  BY DEF Linked, Ranked
<1> DEFINE Above(b) == {x \in S : rank[b] <= rank[x]}
           F == {Above(b) : b \in C}
<1>0. \A b \in C : b \in S /\ ClassOf(h, b) = c /\ b \notin X BY DEF OfClass
<1>2. F \subseteq FiniteSubsetsOf(S)
  <2> SUFFICES ASSUME NEW b \in C PROVE IsFiniteSet(Above(b)) /\ Above(b) \in SUBSET S BY DEF FiniteSubsetsOf
  <2>1. Above(b) \subseteq S OBVIOUS
  <2> HIDE DEF Above
  <2> QED BY <2>1, FS_Subset
<1>3. \E x \in F : \A y \in F : ~(<<y, x>> \in L)
  <2>1. IsWellFoundedOn(L, FiniteSubsetsOf(S)) BY FS_StrictSubsetOrderingWellFounded
  <2>2. F # {}
    <3>1. PICK b : b \in C OBVIOUS
    <3> HIDE DEF C, Above
    <3> QED BY <3>1
  <2> HIDE DEF F, L
  <2> QED BY <1>2, <2>1, <2>2, WFMin
<1>4. PICK m \in C : \A b \in C : ~(<<Above(b), Above(m)>> \in L) BY <1>3
<1>5. m \in S /\ ClassOf(h, m) = c /\ m \notin X /\ m # NULL BY <1>0 DEF Linked, ListTypes, NULL
<1>6. h.links[m].prev # NULL
  <2> SUFFICES ASSUME h.links[m].prev = NULL PROVE FALSE OBVIOUS
  <2>1. h.head[c] = m BY <1>5 DEF Linked, Headed
  <2> QED BY <1>5, <2>1
<1> DEFINE p == h.links[m].prev
<1>7. p \in S /\ h.links[p].next = m /\ ClassOf(h, p) = ClassOf(h, m) BY <1>5, <1>6 DEF Linked, Chained
<1> HIDE DEF p
<1>8. p \notin X BY <1>5, <1>7 DEF Closed
<1>9. p \in C BY <1>5, <1>7, <1>8 DEF OfClass
<1>10. rank[m] < rank[p] /\ rank[m] \in Nat /\ rank[p] \in Nat BY <1>1, <1>5, <1>7
<1>11. \A x \in S : rank[x] \in Nat BY <1>1
<1>12. Above(p) \subseteq Above(m) /\ m \in Above(m) /\ m \notin Above(p) BY <1>5, <1>10, <1>11
<1>13. Above(p) \subseteq S /\ Above(m) \subseteq S OBVIOUS
<1> HIDE DEF Above, C
<1>14. <<Above(p), Above(m)>> \in L BY <1>12, <1>13 DEF StrictSubsetOrdering
<1> QED BY <1>4, <1>9, <1>14

(* Following the next links from the head of a class's list as often as    *)
(* there are free blocks meets the blocks of the class and no others.      *)
LEMMA ListedIsClass ==
  ASSUME NEW h, NEW S, Linked(h, S), IsFiniteSet(S), DOMAIN h.links = S, NEW c \in Classes
  PROVE  Listed(h, c) = OfClass(h, S, c)
<1> DEFINE N == Cardinality(S)
           K == OfClass(h, S, c)
           V == SUBSET K
           first == {h.head[c]} \ {NULL}
           more(X) == X \cup ({h.links[b].next : b \in X} \ {NULL})
           loop(g) == [n \in 0..N |-> IF n = 0 THEN first ELSE more(g[n - 1])]
           reach == CHOOSE g : g = loop(g)
<1>1. N \in Nat BY FS_CardinalityType
<1>2. Listed(h, c) = reach[N] BY DEF Listed
<1>3. first \in V BY DEF Linked, Headed, OfClass
<1>4. ASSUME NEW X \in V PROVE more(X) \in V
  <2> SUFFICES ASSUME NEW b \in X, h.links[b].next # NULL PROVE h.links[b].next \in K OBVIOUS
  <2>1. b \in S /\ ClassOf(h, b) = c BY DEF OfClass
  <2> QED BY <2>1 DEF Linked, Chained, OfClass
<1>5. \A X \in V : X \subseteq more(X) /\ (Closed(h, X) \/ more(X) # X) /\ (Closed(h, X) => more(X) = X)
  BY DEF Closed
<1> HIDE DEF V, N, first, more
<1>6. PICK g \in [0..N -> V] : g[0] = first /\ \A i \in 1..N : g[i] = more(g[i - 1])
  <2> DEFINE f == [i \in 1..N |-> [X \in V |-> more(X)]]
  <2>1. f \in [1..N -> [V -> V]] BY <1>4
  <2>2. PICK g \in [0..N -> V] : g[0] = first /\ \A i \in 1..N : g[i] = f[i][g[i - 1]]
    <3> HIDE DEF f
    <3> QED BY <1>1, <1>3, <2>1, Recursion
  <2>3. ASSUME NEW i \in 1..N PROVE g[i] = more(g[i - 1])
    <3>1. g[i - 1] \in V BY <1>1
    <3> QED BY <2>2, <3>1
  <2> QED BY <2>2, <2>3
<1>7. g = loop(g) BY <1>1, <1>6
<1>8. reach = loop(reach)
  <2> HIDE DEF loop
  <2> QED BY <1>7
<1> HIDE DEF reach
<1>9. /\ reach[0] = first
      /\ \A k \in 0..N : k + 1 <= N => reach[k + 1] = more(reach[k])
  <2>1. reach[0] = first
    <3>1. 0 \in 0..N BY <1>1
    <3>2. loop(reach)[0] = first BY <3>1
    <3> HIDE DEF loop
    <3> QED BY <1>8, <3>2
  <2>2. ASSUME NEW k \in 0..N, k + 1 <= N PROVE reach[k + 1] = more(reach[k])
    <3>1. k + 1 \in 0..N /\ k + 1 # 0 /\ (k + 1) - 1 = k BY <1>1, <2>2
    <3>2. loop(reach)[k + 1] = more(reach[(k + 1) - 1]) BY <3>1
    <3> HIDE DEF loop
    <3> QED BY <1>8, <3>1, <3>2
  <2> QED BY <2>1, <2>2
<1> HIDE DEF loop
<1> DEFINE Full(X, n) == /\ X \in V /\ first \subseteq X
                         /\ Closed(h, X) \/ Cardinality(X) >= n + 1
<1>10. K \subseteq S /\ IsFiniteSet(K)
  <2>1. K \subseteq S BY DEF OfClass
  <2> QED BY <2>1, FS_Subset
<1>11. \A X \in V : IsFiniteSet(X) /\ Cardinality(X) \in Nat /\ Cardinality(X) <= N
  <2> SUFFICES ASSUME NEW X \in V PROVE IsFiniteSet(X) /\ Cardinality(X) \in Nat /\ Cardinality(X) <= N
    OBVIOUS
  <2>1. X \subseteq S BY <1>10 DEF V
  <2> QED BY <2>1, FS_Subset, FS_CardinalityType DEF N
<1>12. Full(first, 0)
  <2>1. CASE h.head[c] = NULL BY <1>3, <2>1 DEF first, Closed
  <2>2. CASE h.head[c] # NULL
    <3>1. first = {h.head[c]} BY <2>2 DEF first
    <3>2. Cardinality(first) = 1 BY <3>1, FS_Singleton
    <3> QED BY <1>3, <3>2
  <2> QED BY <2>1, <2>2
<1>13. ASSUME NEW X, NEW n \in Nat, Full(X, n) PROVE Full(more(X), n + 1)
  <2>0. X \in V /\ first \subseteq X BY <1>13
  <2>1. more(X) \in V /\ X \subseteq more(X) BY <1>4, <1>5, <2>0
  <2>2. CASE Closed(h, X)
    <3>1. more(X) = X BY <1>5, <2>0, <2>2
    <3> QED BY <2>0, <2>2, <3>1
  <2>3. CASE ~Closed(h, X)
    <3>1. Cardinality(X) >= n + 1 /\ more(X) # X BY <1>5, <1>13, <2>0, <2>3
    <3>2. Cardinality(X) < Cardinality(more(X))
      <4>1. IsFiniteSet(more(X)) /\ Cardinality(more(X)) \in Nat /\ Cardinality(X) \in Nat BY <1>11, <2>0, <2>1
      <4>2. Cardinality(X) <= Cardinality(more(X)) BY <4>1, <2>1, FS_Subset
      <4>3. Cardinality(X) = Cardinality(more(X)) => X = more(X) BY <4>1, <2>1, FS_Subset
      <4> QED BY <3>1, <4>1, <4>2, <4>3
    <3>3. Cardinality(more(X)) \in Nat /\ Cardinality(X) \in Nat BY <1>11, <2>0, <2>1
    <3>4. Cardinality(more(X)) >= (n + 1) + 1 BY <3>1, <3>2, <3>3
    <3> QED BY <2>0, <2>1, <3>4
  <2> QED BY <2>2, <2>3
<1>14. \A i \in 0..N : Full(reach[i], i)
  <2> DEFINE P == {i \in Nat : i <= N => Full(reach[i], i)}
  <2> HIDE DEF Full
  <2>1. 0 \in P BY <1>9, <1>12
  <2>2. ASSUME NEW k \in P PROVE k + 1 \in P
    <3> SUFFICES ASSUME k + 1 <= N PROVE Full(reach[k + 1], k + 1) OBVIOUS
    <3>1. k \in Nat /\ k \in 0..N /\ Full(reach[k], k) BY <1>1
    <3>2. reach[k + 1] = more(reach[k]) BY <1>9, <3>1
    <3> QED BY <1>13, <3>1, <3>2
  <2>3. P = Nat
    <3>1. P \in SUBSET Nat OBVIOUS
    <3> HIDE DEF P
    <3> QED BY <2>1, <2>2, <3>1, Induction
  <2> QED BY <1>1, <2>3
<1>15. Full(reach[N], N) BY <1>1, <1>14
<1>16. reach[N] \subseteq K /\ first \subseteq reach[N] /\ Closed(h, reach[N])
  <2>1. reach[N] \in V /\ first \subseteq reach[N] BY <1>15
  <2>2. Closed(h, reach[N]) BY <1>1, <1>11, <1>15, <2>1
  <2> QED BY <2>1, <2>2 DEF V
<1>17. h.head[c] # NULL => h.head[c] \in reach[N] BY <1>16 DEF first
<1>18. K \subseteq reach[N] BY <1>16, <1>17, ClosedIsWhole
<1> QED BY <1>2, <1>16, <1>18

(* The invariant implies that the lists are well linked.                   *)
LEMMA InvIndexSound == Inv => IndexSound
<1>1. ASSUME Inv PROVE IndexSound
  <2> DEFINE S == FreeBlocks(heap)
  <2>1. Linked(heap, S) BY <1>1, InvFacts
  <2> HIDE DEF S
  <2>2. DOMAIN heap.links = S BY <2>1 DEF Linked, ListTypes
  <2>3. ASSUME NEW b \in S
        PROVE /\ heap.links[b].next # NULL =>
                   /\ heap.links[b].next \in S /\ heap.links[heap.links[b].next].prev = b
                   /\ ClassOf(heap, heap.links[b].next) = ClassOf(heap, b)
              /\ IF heap.links[b].prev = NULL THEN heap.head[ClassOf(heap, b)] = b
                 ELSE heap.links[b].prev \in S /\ heap.links[heap.links[b].prev].next = b
    BY <2>1 DEF Linked, Chained, Headed
  <2>4. \A c \in Classes : heap.head[c] # NULL => heap.head[c] \in S /\ ClassOf(heap, heap.head[c]) = c
    BY <2>1 DEF Linked, Headed
  <2>5. /\ \A c \in Classes : heap.head[c] # NULL <=> c[2] \in heap.sl[c[1]]
        /\ \A f \in 0..FLMax : f \in heap.fl <=> heap.sl[f] # {}
    BY <2>1 DEF Linked, Mapped
  <2> QED BY <2>2, <2>3, <2>4, <2>5 DEF IndexSound, S
<1> QED BY <1>1

(* The free lists are doubly linked within their classes and the bitmaps   *)
(* tell which are not empty, whatever malloc, realloc and free do.         *)
THEOREM IndexLinked == Spec => []IndexSound
BY InvIndexSound, Invariance, PTL

(* The list of each class holds all the free blocks of the class and no    *)
(* others: a block that free() merges into its neighbour, or that realloc  *)
(* takes in, leaves the list it was on.                                    *)
THEOREM IndexCorrect == Spec => []IndexExact
<1>1. ASSUME Inv PROVE IndexExact
  <2> DEFINE S == FreeBlocks(heap)
  <2>1. Linked(heap, S) BY <1>1, InvFacts
  <2>2. IsFiniteSet(S) BY <1>1, FiniteFree DEF Inv, State, HeapInv
  <2>3. S = FreeBlocks(heap) OBVIOUS
  <2> HIDE DEF S
  <2>4. DOMAIN heap.links = S BY <2>1 DEF Linked, ListTypes
  <2>5. \A c \in Classes : Listed(heap, c) = OfClass(heap, S, c) BY <2>1, <2>2, <2>4, ListedIsClass
  <2> QED BY <1>1, <2>3, <2>5, InvIndexSound DEF IndexExact, OfClass
<1>2. Inv => IndexExact BY <1>1
<1> QED BY <1>2, Invariance, PTL

(* The used blocks are the sentinels and the blocks of the pointers the    *)
(* caller holds: no call leaks a block, hands one out twice or takes one   *)
(* back.                                                                   *)
THEOREM NothingLeaks == Spec => []NoLeak
<1>1. ASSUME Inv PROVE NoLeak
  <2>1. Phys(heap) /\ Blocks(owned) = UserBlocks(heap) BY <1>1, InvFacts
  <2>2. Sentinels(heap) \subseteq Used(heap)
    BY <2>1 DEF Phys, SentinelsOK, Sentinels, Starts, Ends, Used
  <2>3. Used(heap) = Sentinels(heap) \cup Blocks(owned) BY <2>1, <2>2 DEF UserBlocks
  <2>4. \A b \in Blocks(owned) : b \notin Sentinels(heap) BY <2>1 DEF UserBlocks
  <2>5. {b \in DOMAIN heap.blk : heap.blk[b].used} = Starts(heap) \cup Ends(heap) \cup {tlsf_payload_block(p) : p \in DOMAIN owned}
    BY <2>3, Zenon DEF Used, Sentinels, Blocks
  <2>6. \A p \in DOMAIN owned : tlsf_payload_block(p) \notin Starts(heap) \cup Ends(heap)
    BY <2>4 DEF Blocks, Sentinels
  <2> QED BY <2>5, <2>6 DEF NoLeak
<1>2. Inv => NoLeak BY <1>1
<1> QED BY <1>2, Invariance, PTL

(* The invariant implies the limits of the cache.                          *)
LEMMA InvCacheLimits == Inv => CacheLimits
<1>1. ASSUME Inv PROVE CacheLimits
  <2>1. Mapping(heap) /\ CacheInv(heap) BY <1>1, InvFacts DEF Phys
  <2> QED BY <2>1 DEF Mapping, CacheInv, CacheLimits, ApartRegions
<1> QED BY <1>1

(* The region cache respects both its limits, and mapped regions share no  *)
(* memory.                                                                 *)
THEOREM CacheBounded == Spec => []CacheLimits
BY InvCacheLimits, Invariance, PTL

(* The byte counter of the cache is the sum of the sizes of its regions,   *)
(* so the unsigned difference tlsf_region_put_cache takes does not wrap.   *)
THEOREM CacheCounted == Spec => []CacheAccounting
<1>1. Inv => CacheLimits /\ heap.cbytes = SumSizes(heap.cache) BY InvCacheLimits, InvFacts DEF CacheInv
<1>2. Inv => CacheAccounting BY <1>1 DEF CacheAccounting
<1> QED BY <1>2, Invariance, PTL

(* Every pointer the program holds is aligned, and to a block with room    *)
(* for the size it last asked for, through every trim, merge and move.     *)
THEOREM BlocksAreLargeEnough == Spec => []OwnedBlocks
<1>1. ASSUME Inv, NoLeak PROVE OwnedBlocks
  <2>1. HeapInv(heap) /\ Roomy(heap, owned) BY <1>1, StateFacts DEF Inv
  <2>2. ASSUME NEW p \in DOMAIN owned PROVE p % Align = 0 BY <1>1, PointerAligned DEF Inv
  <2> QED BY <1>1, <2>1, <2>2 DEF OwnedBlocks, Roomy
<1>2. Inv /\ NoLeak => OwnedBlocks BY <1>1
<1> QED BY <1>2, Invariance, NothingLeaks, PTL

(* An active region always has a block in use: the last free of a region   *)
(* retires it, and malloc activates none it does not allocate from.        *)
THEOREM RegionsAreBusy == Spec => []NoIdleRegion
<1>1. ASSUME Inv PROVE NoIdleRegion
  <2>1. Phys(heap) /\ AllBusy(heap) BY <1>1, InvFacts, StateFacts DEF Inv
  <2> QED BY <2>1, FirstBlock DEF NoIdleRegion, AllBusy, Busy, FreeBlocks
<1>2. Inv => NoIdleRegion BY <1>1
<1> QED BY <1>2, Invariance, PTL

-----------------------------------------------------------------------------
(* Growing the heap *)

(* What a step that hands out a pointer and adds a region leaves behind.   *)
Exhausted(h, size) ==
  \A b \in FreeBlocks(h) : h.blk[b].size < tlsf_class_min(tlsf_mapping_search(tlsf_size_to_block(size)))

(* malloc adds a region only when no free block reaches the class it       *)
(* searches.                                                               *)
LEMMA MallocExhausted ==
  ASSUME NEW h, NEW o, State(h, o), NEW size \in Nat, NEW r \in malloc(h, size), r.ptr # NULL,
         NEW q \in r.h.regions, q \notin h.regions
  PROVE  Exhausted(h, size)
<1>1. HeapInv(h) BY StateFacts
<1>2. PICK need : need = tlsf_size_to_block(size) OBVIOUS
<1>3. MallocResult(r, h, need) BY <1>1, <1>2, MallocSound
<1>4. \A a \in FreeBlocks(h) : h.blk[a].size < tlsf_class_min(tlsf_mapping_search(need))
  BY <1>3 DEF MallocResult
<1> QED BY <1>2, <1>4 DEF Exhausted

(* The step property of GrowOnlyWhenExhausted.                             *)
LEMMA GrowStep ==
  ASSUME Inv, Next, NEW p \in DOMAIN owned' \ DOMAIN owned, NEW q \in heap'.regions \ heap.regions
  PROVE  Exhausted(heap, owned'[p])
<1>0. Sizes \subseteq Nat BY TlsfAssumption
<1>1. ASSUME NEW size \in Nat, Malloc(size) PROVE Exhausted(heap, owned'[p])
  <2>1. PICK r \in malloc(heap, size) :
          heap' = r.h /\ owned' = IF r.ptr = NULL THEN owned ELSE Hold(owned, r.ptr, size)
    BY <1>1 DEF Malloc
  <2>2. r.ptr # NULL /\ p = r.ptr /\ owned'[p] = size BY <2>1 DEF Hold
  <2>3. Exhausted(heap, size) BY <2>1, <2>2, MallocExhausted DEF Inv
  <2> QED BY <2>2, <2>3
<1>2. ASSUME NEW nmemb \in Sizes, NEW size \in Sizes, Calloc(nmemb, size) PROVE Exhausted(heap, owned'[p])
  <2>1. nmemb * size \in Nat BY <1>0
  <2> QED BY <2>1, <1>1, <1>2 DEF Calloc
<1>3. ASSUME NEW a \in DOMAIN owned, Free(a) PROVE FALSE
  <2>1. DOMAIN owned' \subseteq DOMAIN owned BY <1>3 DEF Free, Drop
  <2> QED BY <2>1
<1>4. ASSUME NEW a \in DOMAIN owned, NEW size \in Sizes, Realloc(a, size) PROVE Exhausted(heap, owned'[p])
  <2>1. CASE Free(a) BY <2>1, <1>3
  <2>2. CASE ReallocShrink(a, size) \/ ReallocExtend(a, size)
    <3>1. owned' = [owned EXCEPT ![a] = size] BY <2>2 DEF ReallocShrink, ReallocExtend
    <3>2. DOMAIN owned' = DOMAIN owned BY <3>1
    <3> QED BY <3>2
  <2>3. CASE ReallocMove(a, size)
    <3>1. PICK r \in malloc(heap, size) :
            IF r.ptr = NULL
            THEN heap' = r.h /\ owned' = owned
            ELSE heap' = free(r.h, a) /\ owned' = Hold(Drop(a), r.ptr, size)
      BY <2>3 DEF ReallocMove
    <3>2. r.ptr # NULL /\ heap' = free(r.h, a) /\ owned' = Hold(Drop(a), r.ptr, size) BY <3>1
    <3>3. p = r.ptr /\ owned'[p] = size BY <3>2 DEF Hold, Drop
    <3>4. PICK x : x = Hold(owned, r.ptr, size) OBVIOUS
    <3>5. State(r.h, x) /\ a \in DOMAIN x BY <1>0, <3>2, <3>4, MallocState DEF Inv, Hold
    <3>6. q \in r.h.regions BY <3>2, <3>5, FreeState
    <3>7. Exhausted(heap, size) BY <1>0, <3>2, <3>6, MallocExhausted DEF Inv
    <3> QED BY <3>3, <3>7
  <2> QED BY <1>4, <2>1, <2>2, <2>3 DEF Realloc
<1> QED BY <1>0, <1>1, <1>2, <1>3, <1>4 DEF Next

(* malloc asks for another region only when no free block is as large as   *)
(* the class it searches: the bitmaps never hide a block that fits.        *)
THEOREM GrowsWhenExhausted == Spec => GrowOnlyWhenExhausted
<1> DEFINE A == \A p \in DOMAIN owned' \ DOMAIN owned :
                  \A r \in heap'.regions \ heap.regions : \A b \in FreeBlocks(heap) :
                    heap.blk[b].size
                      < tlsf_class_min(tlsf_mapping_search(tlsf_size_to_block(owned'[p])))
<1>1. Inv /\ [Next]_vars => [A]_vars
  <2> SUFFICES ASSUME Inv, Next PROVE A OBVIOUS
  <2> QED BY GrowStep DEF Exhausted
<1> HIDE DEF A
<1>2. Spec => [][A]_vars BY <1>1, Invariance, PTL DEF Spec
<1> QED BY <1>2 DEF GrowOnlyWhenExhausted, A

-----------------------------------------------------------------------------
(* malloc.c implements HeapSpec *)

(* Two pointers the program holds are to ranges that do not overlap.       *)
LEMMA RangesApart ==
  ASSUME NEW h, NEW o, State(h, o), NEW p \in DOMAIN o, NEW q \in DOMAIN o, p # q
  PROVE  H!Apart(p, o[p], q, o[q])
<1> DEFINE a == tlsf_payload_block(p)
           b == tlsf_payload_block(q)
           m == h.blk[a].size
           n == h.blk[b].size
<1>0. HeapInv(h) /\ Roomy(h, o) BY StateFacts
<1>1. p \in Nat /\ q \in Nat /\ o[p] \in Nat /\ o[q] \in Nat /\ a \in UserBlocks(h) /\ b \in UserBlocks(h)
  BY StateFacts
<1>2. o[p] + Header <= m /\ o[q] + Header <= n BY <1>0 DEF Roomy
<1>3. p = a + Header /\ q = b + Header /\ a # b /\ Header \in Nat BY <1>1, SizeFacts DEF tlsf_payload_block
<1>4. a \in Nat /\ b \in Nat /\ m \in Nat /\ n \in Nat BY <1>0, <1>1, UserSize
<1>5. a + m <= b \/ b + n <= a
  <2>1. Phys(h) /\ a \in DOMAIN h.blk /\ b \in DOMAIN h.blk BY <1>0, <1>1, SoundFacts DEF HeapInv, UserBlocks, Used
  <2> QED BY <2>1, <1>3, Order
<1> HIDE DEF a, b, m, n
<1>6. (a + Header) + o[p] <= b + Header \/ (b + Header) + o[q] <= a + Header
  BY <1>1, <1>2, <1>3, <1>4, <1>5
<1> QED BY <1>3, <1>6 DEF H!Apart

(* The range of a pointer the program holds fits among the others.         *)
LEMMA RangeFits ==
  ASSUME NEW h, NEW o, State(h, o), NEW p \in DOMAIN o, NEW f, DOMAIN f \subseteq DOMAIN o \ {p},
         \A q \in DOMAIN f : f[q] = o[q]
  PROVE  H!Fits(f, p, o[p])
<1>1. p \in Nat /\ p # NULL BY StateFacts
<1>2. p > 0 BY <1>1 DEF NULL
<1>3. p % Align = 0 BY PointerAligned
<1>4. \A q \in DOMAIN f : q # p /\ H!Apart(p, o[p], q, f[q]) BY RangesApart
<1> QED BY <1>2, <1>3, <1>4 DEF H!Fits

(* malloc allocates, or leaves the pointers alone.                         *)
LEMMA MallocImplements ==
  ASSUME Inv, NEW size \in Nat, Malloc(size)
  PROVE  [H!Next]_owned
<1>1. PICK r \in malloc(heap, size) :
        heap' = r.h /\ owned' = IF r.ptr = NULL THEN owned ELSE Hold(owned, r.ptr, size)
  BY DEF Malloc
<1>2. CASE r.ptr = NULL BY <1>1, <1>2
<1>3. CASE r.ptr # NULL
  <2>1. PICK x : x = Hold(owned, r.ptr, size) /\ owned' = x BY <1>1, <1>3
  <2>2. State(r.h, x) /\ r.ptr \notin DOMAIN owned BY <1>3, <2>1, MallocState DEF Inv
  <2>3. r.ptr \in DOMAIN x /\ x[r.ptr] = size /\ \A q \in DOMAIN owned : q \in DOMAIN x /\ (q # r.ptr => x[q] = owned[q])
    BY <2>1 DEF Hold
  <2>4. H!Fits(owned, r.ptr, x[r.ptr]) BY <2>2, <2>3, RangeFits
  <2>5. owned' = H!With(owned, r.ptr, size) BY <2>1 DEF H!With, Hold
  <2>6. H!Alloc(r.ptr, owned'[r.ptr]) BY <2>1, <2>3, <2>4, <2>5 DEF H!Alloc
  <2>7. r.ptr \in DOMAIN owned' BY <2>1, <2>3
  <2> QED BY <2>6, <2>7 DEF H!Next
<1> QED BY <1>2, <1>3

(* free releases.                                                          *)
LEMMA FreeImplements ==
  ASSUME NEW p \in DOMAIN owned, Free(p)
  PROVE  H!Next
<1>1. H!Release(p) BY DEF Free, Drop, H!Release, H!Without
<1> QED BY <1>1 DEF H!Next

(* realloc in place resizes.                                               *)
LEMMA PlaceImplements ==
  ASSUME Inv', NEW p \in DOMAIN owned, NEW size, owned' = [owned EXCEPT ![p] = size]
  PROVE  H!Next
<1>1. PICK x, h : x = owned' /\ h = heap' OBVIOUS
<1>2. State(h, x) BY <1>1 DEF Inv
<1>3. p \in DOMAIN x /\ x[p] = size /\ DOMAIN x = DOMAIN owned /\ \A q \in DOMAIN owned \ {p} : x[q] = owned[q]
  BY <1>1
<1>4. DOMAIN H!Without(p) = DOMAIN owned \ {p} /\ \A q \in DOMAIN owned \ {p} : H!Without(p)[q] = owned[q]
  BY DEF H!Without
<1>5. H!Fits(H!Without(p), p, x[p]) BY <1>2, <1>3, <1>4, RangeFits
<1>6. x = H!With(H!Without(p), p, size)
  <2>1. x = [q \in DOMAIN owned |-> IF q = p THEN size ELSE owned[q]] BY <1>1
  <2>2. DOMAIN owned = DOMAIN H!Without(p) \cup {p} BY <1>4
  <2>3. \A q \in DOMAIN owned : (IF q = p THEN size ELSE owned[q]) = (IF q = p THEN size ELSE H!Without(p)[q])
    BY <1>4
  <2> QED BY <2>1, <2>2, <2>3 DEF H!With
<1>7. H!Resize(p, p, owned'[p]) BY <1>1, <1>3, <1>5, <1>6 DEF H!Resize
<1> QED BY <1>1, <1>3, <1>7 DEF H!Next

(* realloc that moves resizes: the new range is apart from the old one too, *)
(* because both are blocks while the bytes are copied.                     *)
LEMMA MoveImplements ==
  ASSUME Inv, NEW p \in DOMAIN owned, NEW size \in Nat, ReallocMove(p, size)
  PROVE  [H!Next]_owned
<1>1. PICK r \in malloc(heap, size) :
        IF r.ptr = NULL
        THEN heap' = r.h /\ owned' = owned
        ELSE heap' = free(r.h, p) /\ owned' = Hold(Drop(p), r.ptr, size)
  BY DEF ReallocMove
<1>2. CASE r.ptr = NULL BY <1>1, <1>2
<1>3. CASE r.ptr # NULL
  <2>1. PICK x : x = Hold(owned, r.ptr, size) OBVIOUS
  <2>2. State(r.h, x) /\ r.ptr \notin DOMAIN owned BY <1>3, <2>1, MallocState DEF Inv
  <2>3. /\ r.ptr \in DOMAIN x /\ x[r.ptr] = size
        /\ \A q \in DOMAIN owned : q \in DOMAIN x /\ (q # r.ptr => x[q] = owned[q])
    BY <2>1 DEF Hold
  <2>4. /\ DOMAIN H!Without(p) = DOMAIN owned \ {p}
        /\ \A q \in DOMAIN owned \ {p} : H!Without(p)[q] = owned[q]
    BY DEF H!Without
  <2>5. H!Fits(owned, r.ptr, x[r.ptr]) BY <2>2, <2>3, RangeFits
  <2>6. H!Fits(H!Without(p), r.ptr, x[r.ptr]) BY <2>2, <2>3, <2>4, RangeFits
  <2>7. owned' = H!With(H!Without(p), r.ptr, size)
    BY <1>1, <1>3 DEF H!With, H!Without, Hold, Drop
  <2>8. r.ptr \in DOMAIN owned' /\ owned'[r.ptr] = size BY <1>1, <1>3 DEF Hold
  <2>9. H!Resize(p, r.ptr, owned'[r.ptr]) BY <2>3, <2>5, <2>6, <2>7, <2>8 DEF H!Resize
  <2> QED BY <2>8, <2>9 DEF H!Next
<1> QED BY <1>2, <1>3

(* malloc.c implements the interface of HeapSpec: every step of the        *)
(* allocator is an allocation, a release or a resize of the pointers of    *)
(* its caller, or leaves them alone.                                       *)
THEOREM HeapIsImplemented == Spec => ImplementsHeapSpec
<1>1. Init => H!Init BY DEF Init, H!Init
<1>2. Inv /\ Inv' /\ [Next]_vars => [H!Next]_owned
  <2> SUFFICES ASSUME Inv, Inv', [Next]_vars PROVE [H!Next]_owned OBVIOUS
  <2>0. Sizes \subseteq Nat BY TlsfAssumption
  <2>1. ASSUME NEW size \in Sizes, Malloc(size) PROVE [H!Next]_owned BY <2>0, <2>1, MallocImplements
  <2>2. ASSUME NEW nmemb \in Sizes, NEW size \in Sizes, Calloc(nmemb, size) PROVE [H!Next]_owned
    <3>1. nmemb * size \in Nat /\ Malloc(nmemb * size) BY <2>0, <2>2 DEF Calloc
    <3> QED BY <3>1, MallocImplements
  <2>3. ASSUME NEW p \in DOMAIN owned, Free(p) PROVE [H!Next]_owned BY <2>3, FreeImplements
  <2>4. ASSUME NEW p \in DOMAIN owned, NEW size \in Sizes, Realloc(p, size) PROVE [H!Next]_owned
    <3>1. CASE Free(p) BY <3>1, FreeImplements
    <3>2. CASE ReallocShrink(p, size) \/ ReallocExtend(p, size)
      <4>1. owned' = [owned EXCEPT ![p] = size] BY <3>2 DEF ReallocShrink, ReallocExtend
      <4> QED BY <4>1, PlaceImplements
    <3>3. CASE ReallocMove(p, size) BY <2>0, <3>3, MoveImplements
    <3> QED BY <2>4, <3>1, <3>2, <3>3 DEF Realloc
  <2>5. CASE UNCHANGED vars BY <2>5 DEF vars
  <2> QED BY <2>1, <2>2, <2>3, <2>4, <2>5 DEF Next
<1> QED BY <1>1, <1>2, Invariance, PTL DEF Spec, ImplementsHeapSpec, H!Spec
=============================================================================
