---------------------------- MODULE StdioProofs -----------------------------
(***************************************************************************)
(* What a stream keeps true between two calls, for every size of buffer,   *)
(* every file and every sequence of calls, with system calls that transfer *)
(* less than they should or fail.                                          *)
(*                                                                         *)
(* Every function of the library takes a stream that is in order (Io) to   *)
(* streams in order: the two buffers never hold bytes at once, what was    *)
(* read ahead is what the file holds before the descriptor's offset, and   *)
(* a function that did not succeed has set the error flag or was refused   *)
(* a seek.                                                                 *)
(***************************************************************************)
EXTENDS Stdio, SequenceTheorems, NatFacts

IoType ==
  [file : Seq(Bytes), pos : Nat, wbuf : Seq(Bytes), rbuf : Seq(Bytes), eof : BOOLEAN, err : BOOLEAN,
   ok : BOOLEAN, faults : Nat]

(* The bytes read ahead are those before the offset of the descriptor.     *)
Mirrors(x) ==
  /\ Len(x.rbuf) <= x.pos /\ x.pos <= Len(x.file)
  /\ \A i \in 1..Len(x.rbuf) : x.rbuf[i] = x.file[x.pos - Len(x.rbuf) + i]

Io ==
  {x \in IoType :
     /\ Mirrors(x)
     /\ x.wbuf = << >> \/ x.rbuf = << >>
     /\ Len(x.wbuf) <= BufSize /\ Len(x.rbuf) <= BufSize}

NoNewline(x) == NL \notin Range(x.wbuf)

(* No newline waits to be written, unless an error was met.                *)
Clean(x) == failed \/ x.err \/ NoNewline(x)

IInv ==
  /\ io \in Io /\ io.ok
  /\ io.err => failed
  /\ failed \in BOOLEAN
  /\ LinesFlushed /\ NothingPending

(* A stream that met the end of its file is still there.                   *)
EofOK(x) == x.eof => x.rbuf = << >> /\ Place(x) = Len(Whole(x))

(* What the refinement of ByteStream needs beside it.                      *)
RInv ==
  /\ IInv
  /\ ~failed => EofOK(io)
  /\ state = "none" => ret.call = "none" /\ io.pos = 0 /\ io.wbuf = << >> /\ io.rbuf = << >>

-----------------------------------------------------------------------------
(* Numbers and sequences *)

(* The larger and the smaller of two numbers.                              *)
LEMMA TwoNumbers ==
  ASSUME NEW a \in Int, NEW b \in Int
  PROVE  /\ Max({a, b}) = (IF a >= b THEN a ELSE b)
         /\ Min({a, b}) = (IF a <= b THEN a ELSE b)
<1> DEFINE M == Max({a, b})
           m == Min({a, b})
<1>1. M \in {a, b} /\ M >= a /\ M >= b
  <2>1. \E x \in {a, b} : \A y \in {a, b} : x >= y
    OBVIOUS
  <2> QED BY <2>1 DEF Max
<1>2. m \in {a, b} /\ m <= a /\ m <= b
  <2>1. \E x \in {a, b} : \A y \in {a, b} : x <= y
    OBVIOUS
  <2> QED BY <2>1 DEF Min
<1> HIDE DEF M, m
<1>3. M = (IF a >= b THEN a ELSE b) /\ m = (IF a <= b THEN a ELSE b)
  BY <1>1, <1>2
<1> QED BY <1>3 DEF M, m

(* A number up to the smaller of two.                                      *)
LEMMA UpToBoth ==
  ASSUME NEW a \in Int, NEW b \in Int, NEW k \in 0..Min({a, b})
  PROVE  k \in Nat /\ k <= a /\ k <= b
<1>1. Min({a, b}) = IF a <= b THEN a ELSE b
  BY TwoNumbers
<1> QED BY <1>1

(* Bytes written over a file that reaches up to them make a file.          *)
LEMMA SpliceFacts ==
  ASSUME NEW f \in Seq(Bytes), NEW p \in 0 .. Len(f), NEW s \in Seq(Bytes)
  PROVE  /\ Splice(f, p, s) \in Seq(Bytes)
         /\ Len(Splice(f, p, s)) = (IF Len(f) >= p + Len(s) THEN Len(f) ELSE p + Len(s))
         /\ \A i \in 1 .. Len(Splice(f, p, s)) :
              Splice(f, p, s)[i] = IF i > p /\ i <= p + Len(s) THEN s[i - p] ELSE f[i]
<1> DEFINE n == Max({Len(f), p + Len(s)})
           g == [i \in 1..n |-> IF i > p /\ i <= p + Len(s) THEN s[i - p] ELSE f[i]]
<1>1. Len(f) \in Nat /\ Len(s) \in Nat /\ p \in Nat /\ p <= Len(f)
  BY LenProperties
<1>2. n = (IF Len(f) >= p + Len(s) THEN Len(f) ELSE p + Len(s))
  BY <1>1, TwoNumbers
<1> HIDE DEF n
<1>3. n \in Nat
  BY <1>1, <1>2
<1>4. \A i \in 1..n : (IF i > p /\ i <= p + Len(s) THEN s[i - p] ELSE f[i]) \in Bytes
  <2> SUFFICES ASSUME NEW i \in 1..n
               PROVE  (IF i > p /\ i <= p + Len(s) THEN s[i - p] ELSE f[i]) \in Bytes
    OBVIOUS
  <2>1. CASE i > p /\ i <= p + Len(s)
    <3>1. i - p \in 1..Len(s)
      BY <1>1, <1>3, <2>1
    <3> QED BY <2>1, <3>1, ElementOfSeq
  <2>2. CASE ~(i > p /\ i <= p + Len(s))
    <3>1. i \in 1..Len(f)
      BY <1>1, <1>2, <1>3, <2>2
    <3> QED BY <2>2, <3>1, ElementOfSeq
  <2> QED BY <2>1, <2>2
<1>5. g \in Seq(Bytes) /\ Len(g) = n
  BY <1>3, <1>4, IsASeq
<1>6. Splice(f, p, s) = g
  BY DEF Splice, n
<1> QED BY <1>2, <1>3, <1>5, <1>6

(* A part of a sequence.                                                   *)
LEMMA PartFacts ==
  ASSUME NEW S, NEW s \in Seq(S), NEW a \in Nat \ {0}, NEW b \in 0 .. Len(s), a <= b + 1
  PROVE  /\ SubSeq(s, a, b) \in Seq(S) /\ Len(SubSeq(s, a, b)) = b - a + 1
         /\ \A i \in 1 .. (b - a + 1) : SubSeq(s, a, b)[i] = s[a + i - 1]
<1>1. Len(s) \in Nat /\ b \in Nat /\ b <= Len(s)
  BY LenProperties
<1>2. \A i \in a..b : s[i] \in S
  BY <1>1, ElementOfSeq
<1> QED BY <1>1, <1>2, SubSeqProperties

-----------------------------------------------------------------------------
(* fflush.c *)

(* A stream in order, field by field.                                      *)
LEMMA IoFacts ==
  ASSUME NEW x \in Io
  PROVE  /\ x \in IoType /\ x.file \in Seq(Bytes) /\ x.pos \in Nat /\ x.wbuf \in Seq(Bytes)
         /\ x.rbuf \in Seq(Bytes) /\ x.eof \in BOOLEAN /\ x.err \in BOOLEAN /\ x.ok \in BOOLEAN
         /\ x.faults \in Nat
         /\ Len(x.file) \in Nat /\ Len(x.wbuf) \in Nat /\ Len(x.rbuf) \in Nat
         /\ Len(x.rbuf) <= x.pos /\ x.pos <= Len(x.file) /\ Mirrors(x)
         /\ x.wbuf = << >> \/ x.rbuf = << >>
         /\ Len(x.wbuf) <= BufSize /\ Len(x.rbuf) <= BufSize /\ BufSize \in Nat \ {0}
BY LenProperties, StdioAssumption DEF Io, IoType, Mirrors

(* The same stream with other flags.                                       *)
LEMMA OtherFlags ==
  ASSUME NEW x \in Io, NEW y \in IoType,
         y.file = x.file, y.pos = x.pos, y.wbuf = x.wbuf, y.rbuf = x.rbuf
  PROVE  y \in Io
BY DEF Io, Mirrors

(* A function that fails sets the error flag and leaves the buffers.       *)
LEMMA ErrorFacts ==
  ASSUME NEW x \in Io, NEW y \in {Error(x), Fault(x)}
  PROVE  /\ y \in Io /\ y.file = x.file /\ y.pos = x.pos /\ y.wbuf = x.wbuf /\ y.rbuf = x.rbuf
         /\ y.err /\ ~y.ok
<1>1. x \in IoType
  BY DEF Io
<1>2. CASE y = Error(x)
  <2>1. /\ y \in IoType /\ y.file = x.file /\ y.pos = x.pos /\ y.wbuf = x.wbuf /\ y.rbuf = x.rbuf
        /\ y.err /\ ~y.ok
    BY <1>1, <1>2 DEF IoType, Error
  <2> QED BY <2>1, OtherFlags
<1>3. CASE y = Fault(x)
  <2>1. PICK n \in Nat : n = x.faults + 1
    BY <1>1 DEF IoType
  <2>2. y = [x EXCEPT !.err = TRUE, !.ok = FALSE, !.faults = n]
    BY <1>3, <2>1 DEF Fault
  <2>3. /\ y \in IoType /\ y.file = x.file /\ y.pos = x.pos /\ y.wbuf = x.wbuf /\ y.rbuf = x.rbuf
        /\ y.err /\ ~y.ok
    BY <1>1, <2>2 DEF IoType
  <2> QED BY <2>3, OtherFlags
<1> QED BY <1>2, <1>3

(* What write() leaves: bytes in the file, and the descriptor behind them. *)
LEMMA WriteFacts ==
  ASSUME NEW x \in Io, x.rbuf = << >>, NEW s \in Seq(Bytes)
  PROVE  /\ WritePos(x) \in 0 .. Len(x.file)
         /\ write(x, s) \in Io /\ write(x, s).file = Splice(x.file, WritePos(x), s)
         /\ write(x, s).pos = WritePos(x) + Len(s)
         /\ write(x, s).wbuf = x.wbuf /\ write(x, s).rbuf = << >>
         /\ (write(x, s).err <=> x.err) /\ (write(x, s).ok <=> x.ok) /\ (write(x, s).eof <=> x.eof)
         /\ write(x, s).faults = x.faults
<1>1. x \in IoType /\ x.file \in Seq(Bytes) /\ x.pos \in Nat /\ Len(x.file) \in Nat /\ x.pos <= Len(x.file)
  BY IoFacts
<1>2. WritePos(x) \in 0 .. Len(x.file)
  <2>1. WritePos(x) \in {Len(x.file), x.pos}
    BY DEF WritePos
  <2> QED BY <1>1, <2>1
<1> DEFINE f == Splice(x.file, WritePos(x), s)
           p == WritePos(x) + Len(s)
           y == [x EXCEPT !.file = f, !.pos = p]
<1>3. f \in Seq(Bytes) /\ Len(f) = (IF Len(x.file) >= p THEN Len(x.file) ELSE p)
  BY <1>1, <1>2, SpliceFacts
<1>4. Len(s) \in Nat /\ p \in Nat
  BY <1>1, <1>2, LenProperties
<1>5. p <= Len(f)
  BY <1>1, <1>3, <1>4
<1> HIDE DEF f, p
<1>6. /\ y \in IoType /\ y.file = f /\ y.pos = p /\ y.wbuf = x.wbuf /\ y.rbuf = << >>
      /\ (y.err <=> x.err) /\ (y.ok <=> x.ok) /\ (y.eof <=> x.eof) /\ y.faults = x.faults
  BY <1>1, <1>3, <1>4 DEF IoType
<1> HIDE DEF y
<1>7. Len(<< >>) = 0
  OBVIOUS
<1>8. y \in Io
  BY <1>4, <1>5, <1>6, <1>7 DEF Io, Mirrors
<1>9. write(x, s) = y
  BY DEF write, y, f, p
<1> QED BY <1>2, <1>6, <1>8, <1>9 DEF f, p

(* __stdio_flush_wbuf writes the whole buffer, or sets the error flag.     *)
LEMMA FlushFacts ==
  ASSUME NEW x \in Io, NEW y \in __stdio_flush_wbuf(x)
  PROVE  /\ y \in Io /\ y.rbuf = x.rbuf
         /\ \/ x.wbuf = << >> /\ y = x
            \/ /\ x.wbuf # << >> /\ y.wbuf = << >> /\ (y.err <=> x.err) /\ (y.ok <=> x.ok)
               /\ (y.eof <=> x.eof) /\ y.file = Splice(x.file, WritePos(x), x.wbuf)
               /\ y.pos = WritePos(x) + Len(x.wbuf)
            \/ x.wbuf # << >> /\ y.wbuf = x.wbuf /\ y.err /\ ~y.ok
<1>1. x \in IoType /\ x.wbuf \in Seq(Bytes) /\ Len(x.wbuf) \in Nat /\ x.faults \in Nat /\ x.eof \in BOOLEAN
  BY IoFacts
<1>2. CASE x.wbuf = << >>
  BY <1>2 DEF __stdio_flush_wbuf
<1>3. CASE x.wbuf # << >>
  <2>1. x.rbuf = << >>
    BY <1>3, IoFacts
  <2>2. CASE y = Error(x)
    BY <1>3, <2>2, ErrorFacts
  <2>3. CASE y = [write(x, x.wbuf) EXCEPT !.wbuf = << >>]
    <3> DEFINE w == write(x, x.wbuf)
    <3>1. /\ w \in Io /\ w.rbuf = << >> /\ (w.err <=> x.err) /\ (w.ok <=> x.ok) /\ (w.eof <=> x.eof)
          /\ w.file = Splice(x.file, WritePos(x), x.wbuf) /\ w.pos = WritePos(x) + Len(x.wbuf)
      BY <1>1, <2>1, WriteFacts
    <3>2. w \in IoType /\ << >> \in Seq(Bytes) /\ Len(<< >>) = 0 /\ BufSize \in Nat
      BY <3>1, IoFacts
    <3> HIDE DEF w
    <3>3. y = [w EXCEPT !.wbuf = << >>]
      BY <2>3 DEF w
    <3>4. /\ y \in IoType /\ y.file = w.file /\ y.pos = w.pos /\ y.rbuf = w.rbuf /\ y.wbuf = << >>
          /\ (y.err <=> w.err) /\ (y.ok <=> w.ok) /\ (y.eof <=> w.eof)
      BY <3>2, <3>3 DEF IoType
    <3>5. y \in Io
      BY <3>1, <3>2, <3>4 DEF Io, Mirrors
    <3> QED BY <1>3, <2>1, <3>1, <3>4, <3>5
  <2>4. ASSUME NEW k \in 0..(Len(x.wbuf) - 1), y = Fault(write(x, SubSeq(x.wbuf, 1, k)))
        PROVE  y \in Io /\ y.rbuf = x.rbuf /\ y.wbuf = x.wbuf /\ y.err /\ ~y.ok
    <3> DEFINE w == write(x, SubSeq(x.wbuf, 1, k))
    <3>1. SubSeq(x.wbuf, 1, k) \in Seq(Bytes)
      <4>1. k \in 0 .. Len(x.wbuf) /\ 1 \in Nat \ {0} /\ 1 <= k + 1
        BY <1>1, <2>4
      <4> QED BY <1>1, <4>1, PartFacts
    <3>2. w \in Io /\ w.rbuf = << >> /\ w.wbuf = x.wbuf
      BY <2>1, <3>1, WriteFacts
    <3> HIDE DEF w
    <3>3. y = Fault(w)
      BY <2>4 DEF w
    <3> QED BY <2>1, <3>2, <3>3, ErrorFacts
  <2> QED BY <1>3, <2>2, <2>3, <2>4 DEF __stdio_flush_wbuf
<1> QED BY <1>2, <1>3

(* __stdio_purge_readbuf gives the bytes read ahead back to the file, or   *)
(* sets the error flag of a pipe.                                          *)
LEMMA PurgeFacts ==
  ASSUME NEW x \in Io
  PROVE  LET y == __stdio_purge_readbuf(x)
         IN /\ y \in Io /\ y.wbuf = x.wbuf
            /\ \/ x.rbuf = << >> /\ y = x
               \/ /\ x.rbuf # << >> /\ y.rbuf = << >> /\ y.file = x.file /\ y.pos = x.pos - Len(x.rbuf)
                  /\ (y.err <=> x.err) /\ (y.ok <=> x.ok) /\ (y.eof <=> x.eof) /\ fd.seek
               \/ x.rbuf # << >> /\ y.err /\ ~y.ok
<1> DEFINE y == __stdio_purge_readbuf(x)
<1>1. /\ x \in IoType /\ x.pos \in Nat /\ Len(x.rbuf) \in Nat /\ Len(x.rbuf) <= x.pos
      /\ x.pos <= Len(x.file) /\ Len(x.file) \in Nat /\ BufSize \in Nat
  BY IoFacts
<1>2. CASE x.rbuf = << >>
  <2>1. y = x
    BY <1>2 DEF __stdio_purge_readbuf
  <2> QED BY <1>2, <2>1
<1>3. CASE x.rbuf # << >> /\ fd.seek
  <2> DEFINE p == x.pos - Len(x.rbuf)
  <2>1. p \in Nat /\ p <= Len(x.file) /\ << >> \in Seq(Bytes) /\ Len(<< >>) = 0
    BY <1>1
  <2>2. y = [x EXCEPT !.pos = p, !.rbuf = << >>]
    BY <1>3 DEF __stdio_purge_readbuf
  <2> HIDE DEF p, y
  <2>3. /\ y \in IoType /\ y.file = x.file /\ y.pos = p /\ y.wbuf = x.wbuf /\ y.rbuf = << >>
        /\ (y.err <=> x.err) /\ (y.ok <=> x.ok) /\ (y.eof <=> x.eof)
    BY <1>1, <2>1, <2>2 DEF IoType
  <2>4. y \in Io
    BY <1>1, <2>1, <2>3 DEF Io, Mirrors
  <2> QED BY <1>3, <2>3, <2>4 DEF p, y
<1>4. CASE x.rbuf # << >> /\ ~fd.seek
  <2>1. y = Error(x)
    BY <1>4 DEF __stdio_purge_readbuf
  <2> HIDE DEF y
  <2>2. y \in Io /\ y.wbuf = x.wbuf /\ y.err /\ ~y.ok
    BY <2>1, ErrorFacts
  <2> QED BY <1>4, <2>2 DEF y
<1> QED BY <1>2, <1>3, <1>4

(* fflush empties both buffers, or sets the error flag.                    *)
LEMMA FflushFacts ==
  ASSUME NEW x \in Io, x.ok, NEW y \in fflush(x)
  PROVE  /\ y \in Io
         /\ \/ y.ok /\ y.wbuf = << >> /\ y.rbuf = << >> /\ (y.err <=> x.err)
            \/ ~y.ok /\ y.err
         /\ x.rbuf = << >> => y.rbuf = << >>
<1>1. PICK z \in __stdio_flush_wbuf(x) : y = IF z.ok THEN __stdio_purge_readbuf(z) ELSE z
  BY DEF fflush
<1>2. /\ z \in Io /\ z.rbuf = x.rbuf
      /\ (z.wbuf = << >> /\ (z.err <=> x.err) /\ (z.ok <=> x.ok)) \/ (z.err /\ ~z.ok)
  BY <1>1, FlushFacts
<1>3. CASE z.ok
  <2>1. y = __stdio_purge_readbuf(z)
    BY <1>1, <1>3
  <2> QED BY <1>2, <1>3, <2>1, PurgeFacts
<1>4. CASE ~z.ok
  BY <1>1, <1>2, <1>4
<1> QED BY <1>3, <1>4

-----------------------------------------------------------------------------
(* fwrite.c *)

(* A stream file_write is at work on: nothing is read ahead, and if it is  *)
(* line buffered no newline waits, unless an error was met.                *)
Writing == {x \in Io : x.rbuf = << >> /\ (x.ok \/ x.err) /\ (sync \/ Clean(x))}

(* A byte in the buffer.                                                   *)
LEMMA AppendByte ==
  ASSUME NEW x \in Io, x.rbuf = << >>, Len(x.wbuf) < BufSize, NEW c \in Bytes
  PROVE  LET y == [x EXCEPT !.wbuf = Append(@, c)]
         IN /\ y \in Io /\ y.rbuf = << >> /\ (y.ok <=> x.ok) /\ (y.err <=> x.err) /\ (y.eof <=> x.eof)
            /\ y.wbuf = Append(x.wbuf, c) /\ y.file = x.file /\ y.pos = x.pos
            /\ (c # NL /\ Clean(x) => Clean(y))
<1> DEFINE s == Append(x.wbuf, c)
           y == [x EXCEPT !.wbuf = s]
<1>1. x \in IoType /\ x.wbuf \in Seq(Bytes) /\ Len(x.wbuf) \in Nat /\ BufSize \in Nat
  BY IoFacts
<1>2. s \in Seq(Bytes) /\ Len(s) = Len(x.wbuf) + 1 /\ Len(s) <= BufSize
  BY <1>1, AppendProperties
<1>3. c # NL /\ NL \notin Range(x.wbuf) => NL \notin Range(s)
  <2>1. \A i \in DOMAIN s : s[i] = c \/ (i \in DOMAIN x.wbuf /\ s[i] = x.wbuf[i])
    BY <1>1, AppendProperties, LenProperties
  <2> QED BY <2>1 DEF Range
<1> HIDE DEF s
<1>4. /\ y \in IoType /\ y.file = x.file /\ y.pos = x.pos /\ y.wbuf = s /\ y.rbuf = << >>
      /\ (y.err <=> x.err) /\ (y.ok <=> x.ok) /\ (y.eof <=> x.eof)
  BY <1>1, <1>2 DEF IoType
<1> HIDE DEF y
<1>5. y \in Io
  BY <1>2, <1>4 DEF Io, Mirrors
<1>6. [x EXCEPT !.wbuf = Append(@, c)] = y
  BY DEF y, s
<1> QED BY <1>3, <1>4, <1>5, <1>6 DEF s, NoNewline, Clean

(* A round of the loop of file_write keeps the stream in order.            *)
LEMMA PutByteFacts ==
  ASSUME NEW x \in Writing, x.ok, NEW c \in Bytes, NEW y \in PutByte(x, c)
  PROVE  y \in Writing
<1> DEFINE put(z) == [z EXCEPT !.wbuf = Append(@, c)]
           room == IF Len(x.wbuf) >= BufSize THEN fflush(x) ELSE {x}
<1>1. x \in Io /\ x.rbuf = << >> /\ (sync \/ Clean(x))
      /\ Len(x.wbuf) \in Nat /\ Len(x.wbuf) <= BufSize /\ BufSize \in Nat \ {0}
  BY IoFacts DEF Writing
<1>2. PICK z \in room :
        y \in IF z.ok /\ (IF sync THEN Len(put(z).wbuf) >= BufSize ELSE c = NL) THEN fflush(put(z))
              ELSE IF z.ok THEN {put(z)} ELSE {z}
  BY DEF PutByte
<1>3. /\ z \in Io
      /\ z.rbuf = << >>
      /\ \/ /\ z.ok /\ Len(z.wbuf) < BufSize
            /\ sync \/ Clean(z)
         \/ ~z.ok /\ z.err
  <2>1. CASE Len(x.wbuf) >= BufSize
    <3>1. z \in fflush(x)
      BY <1>2, <2>1
    <3>2. << >> \in Seq(Bytes) /\ Len(<< >>) = 0 /\ Range(<< >>) = {}
      BY DEF Range
    <3> QED BY <1>1, <3>1, <3>2, FflushFacts DEF NoNewline, Clean
  <2>2. CASE ~(Len(x.wbuf) >= BufSize)
    BY <1>1, <1>2, <2>2
  <2> QED BY <2>1, <2>2
<1>4. CASE ~z.ok
  <2>1. y = z
    BY <1>2, <1>4
  <2> QED BY <1>3, <1>4, <2>1 DEF Writing, Clean
<1>5. CASE z.ok
  <2> DEFINE w == put(z)
  <2>1. /\ w \in Io /\ w.rbuf = << >> /\ w.ok /\ (w.err <=> z.err)
        /\ (c # NL /\ Clean(z) => Clean(w))
    BY <1>3, <1>5, AppendByte
  <2>2. y \in fflush(w) \/ (y = w /\ (sync \/ c # NL))
    BY <1>2, <1>5
  <2> HIDE DEF w
  <2>3. CASE y \in fflush(w)
    <3>1. Range(<< >>) = {}
      BY DEF Range
    <3> QED BY <2>1, <2>3, <3>1, FflushFacts DEF Writing, NoNewline, Clean
  <2>4. CASE y = w /\ (sync \/ c # NL)
    BY <1>3, <1>5, <2>1, <2>4 DEF Writing
  <2> QED BY <2>2, <2>3, <2>4
<1> QED BY <1>4, <1>5

(* The loop of file_write: what every round keeps, all of them keep.  W[i] *)
(* holds the streams that may be there after i bytes.                      *)
LEMMA PutLoop ==
  ASSUME NEW s, Len(s) \in Nat, NEW W, NEW x \in W[0],
         \A i \in 1..Len(s) :
           \A y \in W[i - 1] : (IF y.ok THEN PutByte(y, s[i]) ELSE {y}) \subseteq W[i]
  PROVE  PutBytes(x, s) \subseteq W[Len(s)]
<1> DEFINE n == Len(s)
<1>n. /\ n \in Nat
      /\ \A i \in 1..n : \A y \in W[i - 1] : (IF y.ok THEN PutByte(y, s[i]) ELSE {y}) \subseteq W[i]
  OBVIOUS
<1> USE <1>n
<1> HIDE DEF n
<1> DEFINE more(i, v) == UNION {IF y.ok THEN PutByte(y, s[i]) ELSE {y} : y \in v}
           loop(g) == [i \in 0..n |-> IF i = 0 THEN {x} ELSE more(i, g[i - 1])]
           put == CHOOSE g : g = loop(g)
           V == SUBSET UNION {W[i] : i \in 0..n}
           h == [i \in 1..n |-> [v \in V |-> IF v \subseteq W[i - 1] THEN more(i, v) ELSE v]]
<1>1. \A i \in 1..n : \A v : v \subseteq W[i - 1] => more(i, v) \subseteq W[i]
  OBVIOUS
<1>2. \A i \in 0..n : SUBSET W[i] \subseteq V
  OBVIOUS
<1>3. {x} \in V /\ {x} \subseteq W[0]
  BY <1>2
<1> HIDE DEF more
<1>4. h \in [1..n -> [V -> V]]
  <2> HIDE DEF V
  <2>1. ASSUME NEW i \in 1..n, NEW v \in V, v \subseteq W[i - 1] PROVE more(i, v) \in V
    BY <1>1, <1>2, <2>1
  <2> QED BY <2>1
<1> HIDE DEF V
<1>5. PICK g \in [0..n -> V] : g[0] = {x} /\ \A i \in 1..n : g[i] = h[i][g[i - 1]]
  <2> HIDE DEF h
  <2> QED BY <1>3, <1>4, Recursion
<1>6. \A i \in 0..n : g[i] \subseteq W[i]
  <2> DEFINE P == {i \in Nat : i <= n => g[i] \subseteq W[i]}
  <2>1. 0 \in P
    BY <1>3, <1>5
  <2>2. ASSUME NEW k \in P, k + 1 <= n PROVE g[k + 1] \subseteq W[k + 1]
    <3>1. k \in Nat /\ k + 1 \in 1..n /\ k \in 0..n /\ g[k] \subseteq W[k] /\ (k + 1) - 1 = k
      BY <2>2
    <3>2. g[k + 1] = h[k + 1][g[k]] /\ g[k] \in V
      BY <1>5, <3>1
    <3>3. g[k + 1] = more(k + 1, g[k])
      BY <3>1, <3>2
    <3> QED BY <1>1, <3>1, <3>3
  <2>3. P = Nat
    <3>1. P \in SUBSET Nat /\ \A k \in P : k + 1 \in P
      BY <2>2
    <3> HIDE DEF P
    <3> QED BY <2>1, <3>1, Induction
  <2> QED BY <2>3
<1>7. put = loop(put)
  <2>1. ASSUME NEW i \in 1..n PROVE g[i] = more(i, g[i - 1])
    <3>1. i - 1 \in 0..n /\ g[i - 1] \in V /\ g[i - 1] \subseteq W[i - 1]
      BY <1>6
    <3> QED BY <1>5, <3>1
  <2>2. g = loop(g)
    BY <1>5, <2>1
  <2> HIDE DEF loop
  <2> QED BY <2>2
<1> HIDE DEF put
<1>8. \A i \in 0..n : put[i] \subseteq W[i]
  <2> DEFINE P == {i \in Nat : i <= n => put[i] \subseteq W[i]}
  <2>1. 0 \in P
    <3>1. put[0] = {x}
      BY <1>7
    <3> QED BY <1>3, <3>1
  <2>2. ASSUME NEW k \in P, k + 1 <= n PROVE put[k + 1] \subseteq W[k + 1]
    <3>1. k \in Nat /\ k + 1 \in 1..n /\ k + 1 \in 0..n /\ put[k] \subseteq W[k] /\ k + 1 # 0 /\ (k + 1) - 1 = k
      BY <2>2
    <3>2. loop(put)[k + 1] = more(k + 1, put[k])
      BY <3>1
    <3>3. put[k + 1] = more(k + 1, put[k])
      <4> HIDE DEF loop
      <4> QED BY <1>7, <3>2
    <3> QED BY <1>1, <3>1, <3>3
  <2>3. P = Nat
    <3>1. P \in SUBSET Nat /\ \A k \in P : k + 1 \in P
      BY <2>2
    <3> HIDE DEF P
    <3> QED BY <2>1, <3>1, Induction
  <2> QED BY <2>3
<1>9. PutBytes(x, s) = put[n]
  BY DEF PutBytes, put, more, n
<1> QED BY <1>8, <1>9 DEF n

(* The whole loop keeps the stream in order.                               *)
LEMMA PutBytesFacts ==
  ASSUME NEW x \in Writing, NEW s \in Seq(Bytes)
  PROVE  PutBytes(x, s) \subseteq Writing
<1> DEFINE n == Len(s)
           W == [i \in 0..n |-> Writing]
<1>1. n \in Nat /\ \A i \in 1..n : s[i] \in Bytes
  BY ElementOfSeq, LenProperties
<1>2. \A i \in 0..n : W[i] = Writing
  OBVIOUS
<1>3. \A i \in 1..n : i - 1 \in 0..n /\ i \in 0..n
  BY <1>1
<1> HIDE DEF W, n
<1>4. \A i \in 1..n : \A y \in W[i - 1] : (IF y.ok THEN PutByte(y, s[i]) ELSE {y}) \subseteq W[i]
  <2> SUFFICES ASSUME NEW i \in 1..n, NEW y \in Writing
               PROVE  (IF y.ok THEN PutByte(y, s[i]) ELSE {y}) \subseteq Writing
    BY <1>2, <1>3
  <2>1. CASE y.ok
    BY <1>1, <2>1, PutByteFacts
  <2>2. CASE ~y.ok
    BY <2>2
  <2> QED BY <2>1, <2>2
<1>5. 0 \in 0..n /\ n \in 0..n
  BY <1>1
<1>6. x \in W[0]
  BY <1>2, <1>5
<1>7. PutBytes(x, s) \subseteq W[n]
  BY <1>1, <1>4, <1>6, PutLoop DEF n
<1> QED BY <1>2, <1>5, <1>7

(* fwrite keeps the stream in order, and leaves no newline waiting.        *)
LEMMA FileWriteFacts ==
  ASSUME NEW x \in Io, x.ok, Clean(x), NEW s \in Seq(Bytes),
         NEW y \in __stdio_file_write(x, s)
  PROVE  y \in Io /\ Clean(y)
<1> DEFINE z == __stdio_purge_readbuf(x)
<1>1. Range(<< >>) = {}
  BY DEF Range
<1>2. CASE x.err
  <2>1. y = [x EXCEPT !.ok = FALSE] /\ x \in IoType
    BY <1>2 DEF __stdio_file_write, Io
  <2>2. y \in IoType /\ y.file = x.file /\ y.pos = x.pos /\ y.wbuf = x.wbuf /\ y.rbuf = x.rbuf /\ y.err
    BY <1>2, <2>1 DEF IoType
  <2> QED BY <2>2, OtherFlags DEF Clean
<1>3. CASE ~x.err
  <2>1. z \in Io /\ z.wbuf = x.wbuf /\ ((z.rbuf = << >> /\ z.ok) \/ (z.err /\ ~z.ok))
    BY PurgeFacts
  <2>2. \/ y = z
        \/ z.ok /\ ~sync /\ y \in PutBytes(z, s)
        \/ z.ok /\ sync /\ \E w \in PutBytes(z, s) : y \in IF w.ok THEN fflush(w) ELSE {w}
    BY <1>3 DEF __stdio_file_write
  <2> HIDE DEF z
  <2>3. Clean(z)
    BY <1>3, <2>1 DEF NoNewline, Clean
  <2>4. z.ok => z \in Writing
    BY <2>1, <2>3 DEF Writing
  <2>5. CASE y = z
    BY <2>1, <2>3, <2>5
  <2>6. CASE z.ok /\ ~sync /\ y \in PutBytes(z, s)
    <3>1. y \in Writing
      BY <2>4, <2>6, PutBytesFacts
    <3> QED BY <2>6, <3>1 DEF Writing
  <2>7. ASSUME z.ok, NEW w \in PutBytes(z, s), y \in IF w.ok THEN fflush(w) ELSE {w}
        PROVE  y \in Io /\ Clean(y)
    <3>1. w \in Writing
      BY <2>4, <2>7, PutBytesFacts
    <3>2. w \in Io /\ (w.ok \/ w.err)
      BY <3>1 DEF Writing
    <3>3. CASE w.ok
      <4>1. y \in fflush(w)
        BY <2>7, <3>3
      <4> QED BY <1>1, <3>2, <3>3, <4>1, FflushFacts DEF NoNewline, Clean
    <3>4. CASE ~w.ok
      BY <2>7, <3>2, <3>4 DEF Clean
    <3> QED BY <3>3, <3>4
  <2> QED BY <2>2, <2>5, <2>6, <2>7
<1> QED BY <1>2, <1>3

-----------------------------------------------------------------------------
(* fread.c, fgetc.c, fgets.c *)

(* The bytes read ahead and those behind the descriptor, one after the     *)
(* other, are what the file holds from the reader's position on.           *)
LEMMA AheadFacts ==
  ASSUME NEW x \in Io
  PROVE  LET all == x.rbuf \o SubSeq(x.file, x.pos + 1, Len(x.file))
         IN /\ all \in Seq(Bytes) /\ Len(all) = Len(x.rbuf) + Ahead(x) /\ Ahead(x) \in Nat
            /\ \A i \in 1..Len(all) : all[i] = x.file[x.pos - Len(x.rbuf) + i]
<1> DEFINE tail == SubSeq(x.file, x.pos + 1, Len(x.file))
           all == x.rbuf \o tail
           have == Len(x.rbuf)
<1>1. /\ x.file \in Seq(Bytes) /\ x.pos \in Nat /\ x.rbuf \in Seq(Bytes) /\ have \in Nat
      /\ Len(x.file) \in Nat /\ have <= x.pos /\ x.pos <= Len(x.file)
      /\ \A i \in 1..have : x.rbuf[i] = x.file[x.pos - have + i]
  BY IoFacts DEF Mirrors
<1>2. Ahead(x) = Len(x.file) - x.pos /\ Ahead(x) \in Nat
  BY <1>1 DEF Ahead
<1>3. /\ tail \in Seq(Bytes) /\ Len(tail) = Ahead(x)
      /\ \A i \in 1..Ahead(x) : tail[i] = x.file[x.pos + i]
  <2>1. x.pos + 1 \in Nat \ {0} /\ Len(x.file) \in 0..Len(x.file) /\ x.pos + 1 <= Len(x.file) + 1
    BY <1>1
  <2>2. /\ tail \in Seq(Bytes) /\ Len(tail) = Len(x.file) - (x.pos + 1) + 1
        /\ \A i \in 1..(Len(x.file) - (x.pos + 1) + 1) : tail[i] = x.file[(x.pos + 1) + i - 1]
    BY <1>1, <2>1, PartFacts
  <2>3. Len(x.file) - (x.pos + 1) + 1 = Ahead(x)
    BY <1>1, <1>2
  <2> HIDE DEF tail
  <2>4. ASSUME NEW i \in 1..Ahead(x) PROVE tail[i] = x.file[x.pos + i]
    <3>1. (x.pos + 1) + i - 1 = x.pos + i
      BY <1>1
    <3>2. tail[i] = x.file[(x.pos + 1) + i - 1]
      BY <2>2, <2>3
    <3> QED BY <3>1, <3>2
  <2> QED BY <2>2, <2>3, <2>4
<1> HIDE DEF tail
<1>4. /\ all \in Seq(Bytes) /\ Len(all) = have + Ahead(x)
      /\ \A i \in 1..Len(all) : all[i] = IF i <= have THEN x.rbuf[i] ELSE tail[i - have]
  <2>1. /\ all \in Seq(Bytes) /\ Len(all) = have + Len(tail)
        /\ \A i \in 1..(have + Len(tail)) : all[i] = IF i <= have THEN x.rbuf[i] ELSE tail[i - have]
    <3>1. x.rbuf \in Seq(Bytes) /\ tail \in Seq(Bytes)
      BY <1>1, <1>3
    <3> QED BY ONLY <3>1, ConcatProperties
  <2> HIDE DEF all, have
  <2> QED BY <1>3, <2>1
<1> HIDE DEF all, have
<1>n. PICK m \in Nat : m = have + Ahead(x)
  BY <1>1, <1>2
<1>5. ASSUME NEW i \in 1..Len(all) PROVE all[i] = x.file[x.pos - have + i]
  <2>0. i \in Nat /\ i >= 1 /\ i <= m
    BY <1>4, <1>n
  <2>1. CASE i <= have
    <3>1. i \in 1..have
      BY <1>1, <2>0, <2>1
    <3> QED BY <1>1, <1>4, <2>1, <3>1
  <2>2. CASE ~(i <= have)
    <3>1. i - have \in 1..Ahead(x) /\ x.pos + (i - have) = x.pos - have + i
      <4>1. have \in Nat /\ Ahead(x) \in Nat /\ x.pos \in Nat
        BY <1>1, <1>2
      <4> QED BY <1>n, <2>0, <2>2, <4>1
    <3> QED BY <1>3, <1>4, <2>2, <3>1
  <2> QED BY <2>1, <2>2
<1> QED BY <1>2, <1>4, <1>5 DEF all, tail, have

(* The ways the loop of fread ends, and the bytes it has then.             *)
LEMMA ReadCases ==
  ASSUME NEW x \in Io, NEW n \in Nat \ {0}, NEW r \in ReadBytes(x, n)
  PROVE  LET have == Len(x.rbuf)
             all == x.rbuf \o SubSeq(x.file, x.pos + 1, Len(x.file))
             missing == n - have
         IN \/ /\ missing <= 0 /\ r.io = [x EXCEPT !.rbuf = SubSeq(@, n + 1, have)]
               /\ r.got = SubSeq(x.rbuf, 1, n)
            \/ /\ missing > 0 /\ missing <= Ahead(x) /\ r.got = SubSeq(all, 1, n)
               /\ \E k \in 0..Min({BufSize - 1, Ahead(x) - missing}) :
                    r.io = [x EXCEPT !.pos = @ + missing + k, !.rbuf = SubSeq(all, n + 1, n + k)]
            \/ /\ missing > 0 /\ missing > Ahead(x) /\ r.got = all
               /\ r.io = [x EXCEPT !.pos = @ + Ahead(x), !.rbuf = << >>, !.eof = TRUE]
            \/ /\ missing > 0
               /\ \E k \in 0..Min({missing - 1, Ahead(x)}) :
                    /\ r.io = Fault([x EXCEPT !.pos = @ + k, !.rbuf = << >>])
                    /\ r.got = SubSeq(all, 1, have + k)
            \/ missing > 0 /\ r.io = Error([x EXCEPT !.rbuf = << >>]) /\ r.got = << >>
<1> DEFINE have == Len(x.rbuf)
           all == x.rbuf \o SubSeq(x.file, x.pos + 1, Len(x.file))
           missing == n - have
<1>1. missing \in Int /\ Ahead(x) \in Int
  BY IoFacts, AheadFacts
<1>2. ASSUME NEW w, NEW g, r = [io |-> w, got |-> g] PROVE r.io = w /\ r.got = g
  BY <1>2
<1> HIDE DEF all, missing
<1>3. CASE missing <= 0
  <2>1. r = [io |-> [x EXCEPT !.rbuf = SubSeq(@, n + 1, have)], got |-> SubSeq(x.rbuf, 1, n)]
    BY <1>3 DEF ReadBytes, missing
  <2> QED BY <1>2, <1>3, <2>1 DEF missing
<1>4. CASE ~(missing <= 0)
  <2>1. missing > 0 /\ (missing <= Ahead(x) \/ missing > Ahead(x))
    BY <1>1, <1>4
  <2>2. \/ /\ missing <= Ahead(x)
           /\ \E k \in 0..Min({BufSize - 1, Ahead(x) - missing}) :
                r = [io |-> [x EXCEPT !.pos = @ + missing + k, !.rbuf = SubSeq(all, n + 1, n + k)],
                     got |-> SubSeq(all, 1, n)]
        \/ /\ missing > Ahead(x)
           /\ r = [io |-> [x EXCEPT !.pos = @ + Ahead(x), !.rbuf = << >>, !.eof = TRUE], got |-> all]
        \/ \E k \in 0..Min({missing - 1, Ahead(x)}) :
             r = [io |-> Fault([x EXCEPT !.pos = @ + k, !.rbuf = << >>]), got |-> SubSeq(all, 1, have + k)]
        \/ r = [io |-> Error([x EXCEPT !.rbuf = << >>]), got |-> << >>]
    BY <1>4, <2>1 DEF ReadBytes, all, missing
  <2>3. \/ /\ missing <= Ahead(x) /\ r.got = SubSeq(all, 1, n)
           /\ \E k \in 0..Min({BufSize - 1, Ahead(x) - missing}) :
                r.io = [x EXCEPT !.pos = @ + missing + k, !.rbuf = SubSeq(all, n + 1, n + k)]
        \/ /\ missing > Ahead(x) /\ r.got = all
           /\ r.io = [x EXCEPT !.pos = @ + Ahead(x), !.rbuf = << >>, !.eof = TRUE]
        \/ \E k \in 0..Min({missing - 1, Ahead(x)}) :
             /\ r.io = Fault([x EXCEPT !.pos = @ + k, !.rbuf = << >>])
             /\ r.got = SubSeq(all, 1, have + k)
        \/ r.io = Error([x EXCEPT !.rbuf = << >>]) /\ r.got = << >>
    BY <1>2, <2>2
  <2> QED BY <2>1, <2>3 DEF missing, all
<1> QED BY <1>3, <1>4

(* The bytes it returns are bytes of the file.                             *)
LEMMA ReadBytesGot ==
  ASSUME NEW x \in Io, NEW n \in Nat \ {0}, NEW r \in ReadBytes(x, n)
  PROVE  r.got \in Seq(Bytes)
<1> DEFINE have == Len(x.rbuf)
           all == x.rbuf \o SubSeq(x.file, x.pos + 1, Len(x.file))
           missing == n - have
<1>1. x.rbuf \in Seq(Bytes) /\ have \in Nat /\ BufSize \in Nat
  BY IoFacts
<1>2. all \in Seq(Bytes) /\ Len(all) = have + Ahead(x) /\ Ahead(x) \in Nat
  BY AheadFacts
<1>3. \/ missing <= 0 /\ r.got = SubSeq(x.rbuf, 1, n)
      \/ missing > 0 /\ missing <= Ahead(x) /\ r.got = SubSeq(all, 1, n)
      \/ r.got = all
      \/ missing > 0 /\ \E k \in 0..Min({missing - 1, Ahead(x)}) : r.got = SubSeq(all, 1, have + k)
      \/ r.got = << >>
  BY ReadCases
<1> HIDE DEF all
<1>4. ASSUME NEW s \in Seq(Bytes), NEW k \in Nat, k <= Len(s) PROVE SubSeq(s, 1, k) \in Seq(Bytes)
  <2>1. k \in 0..Len(s) /\ 1 <= k + 1 /\ 1 \in Nat \ {0}
    BY <1>4, LenProperties
  <2> QED BY <2>1, PartFacts
<1>5. missing <= 0 => n <= have
  BY <1>1
<1>6. missing <= Ahead(x) => n <= Len(all)
  BY <1>1, <1>2
<1>7. \A k \in 0..Min({missing - 1, Ahead(x)}) : have + k \in Nat /\ have + k <= Len(all)
  <2>1. missing - 1 \in Int /\ Ahead(x) \in Int
    BY <1>1, <1>2
  <2>2. \A k \in 0..Min({missing - 1, Ahead(x)}) : k \in Nat /\ k <= Ahead(x)
    BY <2>1, UpToBoth
  <2> QED BY <1>1, <1>2, <2>2
<1>8. << >> \in Seq(Bytes)
  OBVIOUS
<1> QED BY <1>1, <1>2, <1>3, <1>4, <1>5, <1>6, <1>7, <1>8

(* The loop of fread keeps the stream in order, and fails with the error   *)
(* flag set.                                                               *)
LEMMA ReadBytesFacts ==
  ASSUME NEW x \in Io, x.ok, x.wbuf = << >>, NEW n \in Nat \ {0}, NEW r \in ReadBytes(x, n)
  PROVE  r.io \in Io /\ r.io.wbuf = << >> /\ (r.io.ok \/ r.io.err)
<1> DEFINE have == Len(x.rbuf)
           all == x.rbuf \o SubSeq(x.file, x.pos + 1, Len(x.file))
           missing == n - have
           y == r.io
<1>1. /\ x \in IoType /\ x.pos \in Nat /\ x.rbuf \in Seq(Bytes) /\ have \in Nat /\ have <= x.pos
      /\ Len(x.file) \in Nat /\ x.pos <= Len(x.file) /\ have <= BufSize /\ BufSize \in Nat \ {0}
      /\ \A i \in 1..have : x.rbuf[i] = x.file[x.pos - have + i]
  BY IoFacts DEF Mirrors
<1>2. /\ all \in Seq(Bytes) /\ Len(all) = have + Ahead(x) /\ Ahead(x) \in Nat
      /\ \A i \in 1..Len(all) : all[i] = x.file[x.pos - have + i]
  BY AheadFacts
<1>3. Ahead(x) = Len(x.file) - x.pos
  BY DEF Ahead
<1>4. << >> \in Seq(Bytes) /\ Len(<< >>) = 0
  OBVIOUS
<1>5. \/ missing <= 0 /\ y = [x EXCEPT !.rbuf = SubSeq(@, n + 1, have)]
      \/ /\ missing > 0 /\ missing <= Ahead(x)
         /\ \E k \in 0..Min({BufSize - 1, Ahead(x) - missing}) :
              y = [x EXCEPT !.pos = @ + missing + k, !.rbuf = SubSeq(all, n + 1, n + k)]
      \/ missing > 0 /\ y = [x EXCEPT !.pos = @ + Ahead(x), !.rbuf = << >>, !.eof = TRUE]
      \/ /\ missing > 0
         /\ \E k \in 0..Min({missing - 1, Ahead(x)}) : y = Fault([x EXCEPT !.pos = @ + k, !.rbuf = << >>])
      \/ missing > 0 /\ y = Error([x EXCEPT !.rbuf = << >>])
  BY ReadCases
<1>n. have \in Nat /\ x.pos \in Nat /\ have <= x.pos /\ Len(x.file) \in Nat /\ x.pos <= Len(x.file)
      /\ have <= BufSize /\ BufSize \in Nat \ {0} /\ Ahead(x) = Len(x.file) - x.pos /\ Ahead(x) \in Nat
  BY <1>1, <1>2, <1>3
<1> HIDE DEF all, have, y
<1>l. Len(all) = have + Ahead(x)
  BY <1>2
<1>6. CASE missing <= 0 /\ y = [x EXCEPT !.rbuf = SubSeq(@, n + 1, have)]
  <2> DEFINE b == SubSeq(x.rbuf, n + 1, have)
  <2>1. n + 1 \in Nat \ {0} /\ have \in 0..Len(x.rbuf) /\ n + 1 <= have + 1 /\ have - (n + 1) + 1 = have - n
    BY <1>1, <1>6 DEF have
  <2>2. b \in Seq(Bytes) /\ Len(b) = have - n /\ \A i \in 1..(have - n) : b[i] = x.rbuf[(n + 1) + i - 1]
    <3>1. /\ b \in Seq(Bytes) /\ Len(b) = have - (n + 1) + 1
          /\ \A i \in 1..(have - (n + 1) + 1) : b[i] = x.rbuf[(n + 1) + i - 1]
      BY <1>1, <2>1, PartFacts
    <3> HIDE DEF b
    <3> QED BY <2>1, <3>1
  <2> HIDE DEF b
  <2>3. /\ y \in IoType /\ y.file = x.file /\ y.pos = x.pos /\ y.wbuf = << >> /\ y.rbuf = b /\ y.ok
    BY <1>1, <1>6, <2>2 DEF IoType, b
  <2>4. \A i \in 1..Len(b) : b[i] = x.file[x.pos - Len(b) + i]
    <3> SUFFICES ASSUME NEW i \in 1..Len(b) PROVE b[i] = x.file[x.pos - Len(b) + i]
      OBVIOUS
    <3>1. (n + 1) + i - 1 \in 1..have /\ x.pos - have + ((n + 1) + i - 1) = x.pos - Len(b) + i
      BY <1>1, <2>1, <2>2
    <3> QED BY <1>1, <2>2, <3>1
  <2>5. Len(b) <= x.pos /\ Len(b) <= BufSize
    BY <1>1, <2>1, <2>2
  <2>6. y \in Io
    BY <1>1, <1>4, <2>3, <2>4, <2>5 DEF Io, Mirrors
  <2> QED BY <2>3, <2>6 DEF y
<1>7. ASSUME missing > 0, missing <= Ahead(x), NEW k \in 0..Min({BufSize - 1, Ahead(x) - missing}),
             y = [x EXCEPT !.pos = @ + missing + k, !.rbuf = SubSeq(all, n + 1, n + k)]
      PROVE  y \in Io /\ y.wbuf = << >> /\ y.ok
  <2> DEFINE b == SubSeq(all, n + 1, n + k)
             p == x.pos + missing + k
  <2>0. missing > 0 /\ missing <= Ahead(x) /\ Len(all) \in Nat
    BY <1>7, <1>l, <1>n
  <2>1. k \in Nat /\ k <= BufSize - 1 /\ k <= Ahead(x) - missing
    <3>1. BufSize - 1 \in Int /\ Ahead(x) - missing \in Int
      BY <1>1, <1>2
    <3> QED BY <3>1, UpToBoth
  <2>2. n + 1 \in Nat \ {0} /\ n + k \in 0..Len(all) /\ n + 1 <= (n + k) + 1 /\ (n + k) - (n + 1) + 1 = k
    BY <1>n, <1>l, <2>0, <2>1
  <2>3. b \in Seq(Bytes) /\ Len(b) = k /\ \A i \in 1..k : b[i] = all[(n + 1) + i - 1]
    <3>1. /\ b \in Seq(Bytes) /\ Len(b) = (n + k) - (n + 1) + 1
          /\ \A i \in 1..((n + k) - (n + 1) + 1) : b[i] = all[(n + 1) + i - 1]
      BY <1>2, <2>2, PartFacts
    <3> HIDE DEF b
    <3> QED BY <2>2, <3>1
  <2>4. p \in Nat /\ p <= Len(x.file) /\ k <= p
    BY <1>n, <1>7, <2>1
  <2> HIDE DEF b
  <2>5. \A i \in 1..k : b[i] = x.file[p - k + i]
    <3> SUFFICES ASSUME NEW i \in 1..k PROVE b[i] = x.file[p - k + i]
      OBVIOUS
    <3>1. (n + 1) + i - 1 \in 1..Len(all) /\ x.pos - have + ((n + 1) + i - 1) = p - k + i
      BY <1>n, <1>l, <2>0, <2>1
    <3> HIDE DEF p
    <3> QED BY <1>2, <2>3, <3>1
  <2> HIDE DEF p
  <2>6. y = [x EXCEPT !.pos = p, !.rbuf = b]
    BY <1>7 DEF p, b
  <2>7. /\ y \in IoType /\ y.file = x.file /\ y.pos = p /\ y.wbuf = << >> /\ y.rbuf = b /\ y.ok
    BY <1>1, <2>3, <2>4, <2>6 DEF IoType
  <2>8. y \in Io
    <3>1. Len(b) <= p /\ p <= Len(x.file) /\ Len(b) <= BufSize /\ 0 <= BufSize
      BY <1>n, <2>1, <2>3, <2>4
    <3> QED BY <1>4, <2>3, <2>5, <2>7, <3>1 DEF Io, Mirrors
  <2> QED BY <2>7, <2>8
<1>8. ASSUME NEW p \in Nat, p <= Len(x.file), NEW e \in BOOLEAN, NEW w,
             w = [x EXCEPT !.pos = p, !.rbuf = << >>, !.eof = e]
      PROVE  w \in Io /\ w.wbuf = << >> /\ w.ok
  <2>1. /\ w \in IoType /\ w.file = x.file /\ w.pos = p /\ w.wbuf = << >> /\ w.rbuf = << >> /\ w.ok
    BY <1>1, <1>4, <1>8 DEF IoType
  <2>2. 0 <= p /\ 0 <= BufSize /\ \A i \in 1..0 : FALSE
    BY <1>n
  <2> QED BY <1>4, <1>8, <2>1, <2>2 DEF Io, Mirrors
<1>9. CASE missing > 0 /\ y = [x EXCEPT !.pos = @ + Ahead(x), !.rbuf = << >>, !.eof = TRUE]
  <2>1. x.pos + Ahead(x) \in Nat /\ x.pos + Ahead(x) <= Len(x.file)
    BY <1>1, <1>3
  <2> QED BY <1>8, <1>9, <2>1 DEF y
<1>10. ASSUME NEW p \in Nat, p <= Len(x.file), NEW w, w = [x EXCEPT !.pos = p, !.rbuf = << >>]
       PROVE  w \in Io /\ w.wbuf = << >> /\ w.ok
  <2>1. x.eof \in BOOLEAN /\ w = [x EXCEPT !.pos = p, !.rbuf = << >>, !.eof = x.eof]
    BY <1>1, <1>10 DEF IoType
  <2> QED BY <1>8, <1>10, <2>1
<1>11. ASSUME missing > 0, NEW k \in 0..Min({missing - 1, Ahead(x)}),
              y = Fault([x EXCEPT !.pos = @ + k, !.rbuf = << >>])
       PROVE  y \in Io /\ y.wbuf = << >> /\ y.err
  <2>1. k \in Nat /\ k <= Ahead(x)
    <3>1. missing - 1 \in Int /\ Ahead(x) \in Int
      BY <1>1, <1>2
    <3> QED BY <3>1, UpToBoth
  <2>2. x.pos + k \in Nat /\ x.pos + k <= Len(x.file)
    BY <1>1, <1>3, <2>1
  <2> DEFINE w == [x EXCEPT !.pos = @ + k, !.rbuf = << >>]
  <2>3. w \in Io /\ w.wbuf = << >>
    BY <1>10, <2>2
  <2> HIDE DEF w
  <2>4. y = Fault(w)
    BY <1>11 DEF w
  <2> QED BY <2>3, <2>4, ErrorFacts
<1>12. CASE missing > 0 /\ y = Error([x EXCEPT !.rbuf = << >>])
  <2>1. [x EXCEPT !.rbuf = << >>] = [x EXCEPT !.pos = x.pos, !.rbuf = << >>]
    BY <1>1 DEF IoType
  <2> DEFINE w == [x EXCEPT !.rbuf = << >>]
  <2>2. w \in Io /\ w.wbuf = << >>
    BY <1>n, <1>10, <2>1
  <2> HIDE DEF w
  <2>3. y = Error(w)
    BY <1>12 DEF w
  <2>4. y \in Io /\ y.wbuf = << >> /\ y.err
    BY <2>2, <2>3, ErrorFacts
  <2> QED BY <2>4 DEF y
<1> QED BY <1>5, <1>6, <1>7, <1>9, <1>11, <1>12 DEF y

(* A stream that is read from: what it fails to do it marks as an error,   *)
(* and no newline waits to be written unless one was met.                  *)
Reading == {x \in Io : (x.ok \/ x.err) /\ Clean(x)}

(* fread and fgetc keep the stream in order.                               *)
LEMMA FreadFacts ==
  ASSUME NEW x \in Reading, NEW n \in Nat \ {0}, NEW r \in fread(x, n) \cup fgetc(x)
  PROVE  r.io \in Reading /\ r.got \in Seq(Bytes)
<1>0. << >> \in Seq(Bytes)
  OBVIOUS
<1>1. x \in Io /\ (x.ok \/ x.err) /\ Clean(x)
  BY DEF Reading
<1>2. CASE x.err
  <2>1. r.io = x /\ r.got = << >>
    BY <1>2 DEF fread, fgetc, Nothing
  <2> QED BY <1>0, <2>1
<1>3. CASE ~x.err
  <2>1. PICK y \in __stdio_flush_wbuf(x) :
          (r.io = y /\ r.got = << >>) \/ (y.ok /\ (r \in ReadBytes(y, n) \/ r \in ReadBytes(y, 1)))
    BY <1>3 DEF fread, fgetc, Nothing
  <2>2. y \in Io /\ (y.ok \/ y.err) /\ (y.ok => y.wbuf = << >>) /\ Clean(y)
    <3>1. Range(<< >>) = {}
      BY DEF Range
    <3> QED BY <1>1, <1>3, <2>1, <3>1, FlushFacts DEF NoNewline, Clean
  <2>3. CASE r.io = y /\ r.got = << >>
    BY <1>0, <2>2, <2>3 DEF Reading
  <2>4. ASSUME NEW m \in Nat \ {0}, y.ok, r \in ReadBytes(y, m) PROVE r.io \in Reading /\ r.got \in Seq(Bytes)
    <3>1. r.io \in Io /\ r.io.wbuf = << >> /\ (r.io.ok \/ r.io.err) /\ r.got \in Seq(Bytes)
      BY <2>2, <2>4, ReadBytesFacts, ReadBytesGot
    <3>2. Range(<< >>) = {}
      BY DEF Range
    <3> QED BY <3>1, <3>2 DEF Reading, NoNewline, Clean
  <2> QED BY <2>1, <2>3, <2>4
<1> QED BY <1>2, <1>3

(* A round of the loop of fgets and getdelim.                              *)
Round(i, v, by_fread) ==
  UNION {IF Len(q.got) = i - 1 /\ (Len(q.got) = 0 \/ Last(q.got) # NL)
         THEN {[io |-> p.io, got |-> q.got \o p.got] : p \in GetByte(q.io, by_fread)}
         ELSE {q} : q \in v}

Lines == [io : Reading, got : Seq(Bytes)]

(* The loop of fgets and getdelim, as the sequence of what it may have     *)
(* after each round: it keeps the stream in order.                         *)
LEMMA GetLineLoop ==
  ASSUME NEW x \in Reading, NEW n \in Nat, NEW by_fread
  PROVE  \E g : /\ g[0] = Nothing(x) /\ \A i \in 1..n : g[i] = Round(i, g[i - 1], by_fread)
                /\ \A i \in 0..n : g[i] \subseteq Lines
                /\ \A r \in GetLine(x, n, by_fread) : \E q \in g[n] :
                      r = IF q.io.ok THEN q ELSE [q EXCEPT !.got = << >>]
<1> DEFINE R == [io : Reading, got : Seq(Bytes)]
           next(i, q) == IF Len(q.got) = i - 1 /\ (Len(q.got) = 0 \/ Last(q.got) # NL)
                         THEN {[io |-> p.io, got |-> q.got \o p.got] : p \in GetByte(q.io, by_fread)}
                         ELSE {q}
           round(i, v) == UNION {next(i, q) : q \in v}
           loop(g) == [i \in 0..n |-> IF i = 0 THEN Nothing(x) ELSE round(i, g[i - 1])]
           line == CHOOSE g : g = loop(g)
           V == SUBSET R
           h == [i \in 1..n |-> [v \in V |-> round(i, v)]]
<1>1. ASSUME NEW i, NEW v \in V PROVE round(i, v) \in V
  <2> SUFFICES ASSUME NEW q \in R, NEW p \in next(i, q) PROVE p \in R
    OBVIOUS
  <2>1. CASE p = q
    BY <2>1
  <2>2. ASSUME NEW c \in GetByte(q.io, by_fread), p = [io |-> c.io, got |-> q.got \o c.got]
        PROVE  p \in R
    <3>1. q.io \in Reading /\ q.got \in Seq(Bytes)
      OBVIOUS
    <3>2. c.io \in Reading /\ c.got \in Seq(Bytes)
      BY <3>1, FreadFacts DEF GetByte
    <3>3. q.got \o c.got \in Seq(Bytes)
      BY <3>1, <3>2, ConcatProperties
    <3> QED BY <2>2, <3>2, <3>3
  <2> QED BY <2>1, <2>2
<1>2. Nothing(x) \in V
  <2>1. << >> \in Seq(Bytes)
    OBVIOUS
  <2> QED BY <2>1 DEF Nothing
<1> HIDE DEF round, V
<1>3. h \in [1..n -> [V -> V]]
  BY <1>1
<1>4. PICK g \in [0..n -> V] : g[0] = Nothing(x) /\ \A i \in 1..n : g[i] = h[i][g[i - 1]]
  <2> HIDE DEF h
  <2> DEFINE m == n
             v == Nothing(x)
  <2>1. m \in Nat /\ v \in V /\ h \in [1..m -> [V -> V]]
    BY <1>2, <1>3
  <2> HIDE DEF m, v
  <2>2. \E f \in [0..m -> V] : f[0] = v /\ \A i \in 1..m : f[i] = h[i][f[i - 1]]
    BY <2>1, Recursion
  <2> QED BY <2>2 DEF m, v
<1>5. line = loop(line)
  <2>1. ASSUME NEW i \in 1..n PROVE g[i] = round(i, g[i - 1])
    <3>1. i - 1 \in 0..n /\ g[i - 1] \in V
      OBVIOUS
    <3> QED BY <1>4, <3>1
  <2>2. g = loop(g)
    BY <1>4, <2>1
  <2> HIDE DEF loop
  <2> QED BY <2>2
<1> HIDE DEF line
<1>6. /\ line[0] = Nothing(x)
      /\ \A i \in 1..n : line[i] = round(i, line[i - 1])
  <2>1. loop(line)[0] = Nothing(x)
    BY <1>2
  <2>2. ASSUME NEW i \in 1..n PROVE loop(line)[i] = round(i, line[i - 1])
    OBVIOUS
  <2> HIDE DEF loop
  <2> QED BY <1>5, <2>1, <2>2
<1>7. \A i \in 0..n : line[i] \in V
  <2> DEFINE P == {i \in Nat : i <= n => line[i] \in V}
  <2>1. 0 \in P
    BY <1>2, <1>6
  <2>2. ASSUME NEW k \in P, k + 1 <= n PROVE line[k + 1] \in V
    <3>1. k \in Nat /\ k + 1 \in 1..n /\ line[k] \in V /\ (k + 1) - 1 = k
      BY <2>2
    <3> QED BY <1>1, <1>6, <3>1
  <2>3. P = Nat
    <3>1. P \in SUBSET Nat /\ \A k \in P : k + 1 \in P
      BY <2>2
    <3> HIDE DEF P
    <3> QED BY <2>1, <3>1, Induction
  <2> QED BY <2>3
<1>8. ASSUME NEW r \in GetLine(x, n, by_fread)
      PROVE  \E q \in line[n] : r = IF q.io.ok THEN q ELSE [q EXCEPT !.got = << >>]
  BY DEF GetLine, line, round
<1>9. /\ \A i \in 1..n : line[i] = Round(i, line[i - 1], by_fread)
      /\ \A i \in 0..n : line[i] \subseteq Lines
  BY <1>6, <1>7 DEF V, round, Round, Lines
<1> QED BY <1>6, <1>8, <1>9

(* So fgets and getdelim do, however many bytes they read.                 *)
LEMMA GetLineFacts ==
  ASSUME NEW x \in Reading, NEW n \in Nat, NEW by_fread
  PROVE  \A r \in GetLine(x, n, by_fread) : r.io \in Reading
<1>1. PICK g : /\ \A i \in 0..n : g[i] \subseteq Lines
               /\ \A r \in GetLine(x, n, by_fread) : \E q \in g[n] :
                      r = IF q.io.ok THEN q ELSE [q EXCEPT !.got = << >>]
  BY GetLineLoop
<1> SUFFICES ASSUME NEW r \in GetLine(x, n, by_fread) PROVE r.io \in Reading
  OBVIOUS
<1>2. PICK q \in Lines : r = IF q.io.ok THEN q ELSE [q EXCEPT !.got = << >>]
  BY <1>1
<1>3. q.io \in Reading /\ r.io = q.io
  BY <1>2 DEF Lines
<1> QED BY <1>3

-----------------------------------------------------------------------------
(* The calls of the program *)

(* A call returns a stream in order, and the error it met is on record.    *)
LEMMA ReturnFacts ==
  ASSUME IInv, NEW x \in Io, Clean(x), NEW call, NEW arg, NEW val, Return(call, arg, val, x)
  PROVE  /\ io' \in Io /\ io'.ok /\ (io'.err => failed') /\ failed' \in BOOLEAN /\ LinesFlushed'
         /\ io'.wbuf = x.wbuf /\ (x.err => failed')
<1>1. io' = [x EXCEPT !.ok = TRUE] /\ (failed' <=> failed \/ x.err) /\ x \in IoType
  BY DEF Return, Io
<1>2. failed' \in BOOLEAN
  BY Zenon DEF Return
<1>3. /\ io' \in IoType /\ io'.file = x.file /\ io'.pos = x.pos /\ io'.wbuf = x.wbuf /\ io'.rbuf = x.rbuf
      /\ io'.ok /\ (io'.err <=> x.err)
  BY <1>1 DEF IoType
<1>4. io' \in Io
  BY <1>3, OtherFlags
<1>5. LinesFlushed'
  BY <1>1, <1>3 DEF LinesFlushed, Clean, NoNewline
<1> QED BY <1>1, <1>2, <1>3, <1>4, <1>5

(* A stream with the flags of an error or the end of the file cleared.     *)
LEMMA ClearFacts ==
  ASSUME IInv
  PROVE  LET x == [io EXCEPT !.eof = FALSE, !.err = FALSE]
         IN x \in Io /\ x.ok /\ Clean(x)
<1> DEFINE x == [io EXCEPT !.eof = FALSE, !.err = FALSE]
<1>1. io \in IoType /\ io \in Io /\ io.ok
  BY DEF IInv, Io
<1>2. /\ x \in IoType /\ x.file = io.file /\ x.pos = io.pos /\ x.wbuf = io.wbuf /\ x.rbuf = io.rbuf
      /\ x.ok
  BY <1>1 DEF IoType
<1> HIDE DEF x
<1>3. x \in Io
  BY <1>1, <1>2, OtherFlags
<1>4. Clean(x)
  BY <1>2 DEF IInv, LinesFlushed, Clean, NoNewline
<1> QED BY <1>2, <1>3, <1>4 DEF x

(* fseek moves the descriptor within the file, with both buffers empty.    *)
LEMMA FseekFacts ==
  ASSUME NEW x \in Io, x.ok, NEW whence, NEW offset, NEW y \in fseek(x, whence, offset)
  PROVE  y \in Io /\ Clean(y)
<1>1. PICK z \in fflush(x) :
        y = IF ~z.ok \/ Lseek(z, whence, offset) = {} THEN [z EXCEPT !.ok = FALSE]
            ELSE [z EXCEPT !.pos = CHOOSE p \in Lseek(z, whence, offset) : TRUE, !.eof = FALSE]
  BY DEF fseek
<1>2. /\ z \in Io
      /\ (z.ok /\ z.wbuf = << >> /\ z.rbuf = << >>) \/ (~z.ok /\ z.err)
  BY <1>1, FflushFacts
<1>3. z \in IoType /\ Len(z.file) \in Nat /\ BufSize \in Nat
  BY <1>2, IoFacts
<1>4. Range(<< >>) = {} /\ Len(<< >>) = 0
  BY DEF Range
<1>5. Clean(z)
  BY <1>2, <1>4 DEF Clean, NoNewline
<1>6. CASE ~z.ok \/ Lseek(z, whence, offset) = {}
  <2>1. y = [z EXCEPT !.ok = FALSE]
    BY <1>1, <1>6
  <2>2. /\ y \in IoType /\ y.file = z.file /\ y.pos = z.pos /\ y.wbuf = z.wbuf /\ y.rbuf = z.rbuf
        /\ (y.err <=> z.err)
    BY <1>3, <2>1 DEF IoType
  <2> QED BY <1>2, <1>5, <2>2, OtherFlags DEF Clean, NoNewline
<1>7. CASE z.ok /\ Lseek(z, whence, offset) # {}
  <2> DEFINE p == CHOOSE p \in Lseek(z, whence, offset) : TRUE
  <2>1. p \in 0..Len(z.file)
    <3>1. p \in Lseek(z, whence, offset)
      BY <1>7
    <3> HIDE DEF p
    <3> QED BY <3>1 DEF Lseek
  <2>2. y = [z EXCEPT !.pos = p, !.eof = FALSE]
    BY <1>1, <1>7
  <2> HIDE DEF p
  <2>3. p \in Nat /\ p <= Len(z.file)
    BY <1>3, <2>1
  <2>4. /\ y \in IoType /\ y.file = z.file /\ y.pos = p /\ y.wbuf = << >> /\ y.rbuf = << >>
    BY <1>2, <1>3, <1>7, <2>2, <2>3 DEF IoType
  <2>5. y \in Io
    BY <1>3, <1>4, <2>3, <2>4 DEF Io, Mirrors
  <2> QED BY <1>4, <2>4, <2>5 DEF Clean, NoNewline
<1> QED BY <1>6, <1>7

(* A stream fopen returns.                                                 *)
LEMMA FreshFacts ==
  ASSUME NEW file \in Seq(Bytes)
  PROVE  Fresh(file) \in Io /\ Fresh(file).ok /\ ~Fresh(file).err /\ Clean(Fresh(file))
         /\ Fresh(file).wbuf = << >>
<1> DEFINE x == Fresh(file)
<1>1. << >> \in Seq(Bytes) /\ Len(<< >>) = 0 /\ Range(<< >>) = {} /\ BufSize \in Nat /\ Len(file) \in Nat
  BY StdioAssumption, LenProperties DEF Range
<1>2. /\ x \in IoType /\ x.file = file /\ x.pos = 0 /\ x.wbuf = << >> /\ x.rbuf = << >> /\ x.ok /\ ~x.err
  BY <1>1 DEF Fresh, IoType
<1> HIDE DEF x
<1>3. x \in Io
  BY <1>1, <1>2 DEF Io, Mirrors
<1> QED BY <1>1, <1>2, <1>3 DEF x, Clean, NoNewline

(* The program starts with a stream in order.                              *)
LEMMA Initially == Init => IInv
<1> SUFFICES ASSUME Init PROVE IInv
  OBVIOUS
<1>1. PICK file \in Contents : io = Fresh(file)
  BY DEF Init
<1>2. file \in Seq(Bytes)
  BY StdioAssumption
<1>3. io \in Io /\ io.ok /\ ~io.err /\ io.wbuf = << >>
  BY <1>1, <1>2, FreshFacts
<1>4. Range(<< >>) = {}
  BY DEF Range
<1>5. failed \in BOOLEAN
  BY Zenon DEF Init
<1> QED BY <1>3, <1>4, <1>5 DEF IInv, LinesFlushed, NothingPending

(* A call that leaves the stream open.                                     *)
LEMMA StaysOpen ==
  ASSUME IInv, NEW x \in Io, Clean(x), NEW call, NEW arg, NEW val, Return(call, arg, val, x), state' = "open"
  PROVE  IInv'
<1>1. /\ io' \in Io /\ io'.ok /\ (io'.err => failed') /\ failed' \in BOOLEAN /\ LinesFlushed'
  BY ReturnFacts
<1>2. Io' = Io
  BY DEF Io, IoType, Mirrors
<1>3. NothingPending'
  BY DEF NothingPending
<1> QED BY <1>1, <1>2, <1>3 DEF IInv

(* Every call keeps the stream in order, fails only with the failure on    *)
(* record, and ends the stream only when nothing is left to write.         *)
LEMMA Step == IInv /\ [Next]_vars => IInv'
<1> SUFFICES ASSUME IInv, [Next]_vars PROVE IInv'
  OBVIOUS
<1>1. io \in Io /\ io \in IoType /\ io.ok /\ (io.err => failed) /\ failed \in BOOLEAN
  BY DEF IInv, Io
<1>2. Clean(io) /\ io \in Reading
  BY <1>1 DEF IInv, LinesFlushed, Clean, NoNewline, Reading
<1>3. Range(<< >>) = {}
  BY DEF Range
<1>4. ASSUME NEW x \in fflush(io) PROVE x \in Io /\ Clean(x) /\ (x.ok => x.wbuf = << >>) /\ (x.ok \/ x.err)
  <2>1. x \in Io /\ ((x.ok /\ x.wbuf = << >>) \/ (~x.ok /\ x.err))
    BY <1>1, FflushFacts
  <2> QED BY <1>3, <2>1 DEF Clean, NoNewline
<1>5. ASSUME NEW mode \in Modes, Fopen(mode) PROVE IInv'
  <2>1. PICK file : /\ file \in {<< >>, io.file} /\ Return("fopen", 0, 0, Fresh(file)) /\ state' = "open"
    BY <1>5 DEF Fopen
  <2>2. file \in Seq(Bytes)
    BY <1>1, <2>1, IoFacts
  <2>3. Fresh(file) \in Io /\ Clean(Fresh(file))
    BY <2>2, FreshFacts
  <2> QED BY <2>1, <2>3, StaysOpen
<1>6. ASSUME NEW s \in Chunks, Fwrite(s) PROVE IInv'
  <2>1. PICK x \in __stdio_file_write(io, s) : Return("fwrite", s, IF x.ok THEN Len(s) ELSE 0, x)
    BY <1>6 DEF Fwrite
  <2>2. s \in Seq(Bytes)
    BY StdioAssumption
  <2>3. x \in Io /\ Clean(x)
    BY <1>1, <1>2, <2>1, <2>2, FileWriteFacts
  <2>4. state' = "open"
    BY <1>6 DEF Fwrite, Open
  <2> QED BY <2>1, <2>3, <2>4, StaysOpen
<1>7. ASSUME NEW r, r.io \in Reading, NEW call, NEW arg, NEW val, Return(call, arg, val, r.io), state' = "open"
      PROVE  IInv'
  <2>1. r.io \in Io /\ Clean(r.io)
    BY <1>7 DEF Reading
  <2> QED BY <1>7, <2>1, StaysOpen
<1>8. ASSUME NEW n \in Counts, Fread(n) PROVE IInv'
  <2>1. PICK r \in fread(io, n) : Return("fread", n, r.got, r.io)
    BY <1>8 DEF Fread
  <2>2. n \in Nat \ {0}
    BY StdioAssumption
  <2>3. r.io \in Reading
    BY <1>2, <2>1, <2>2, FreadFacts
  <2>4. state' = "open"
    BY <1>8 DEF Fread, Open
  <2> QED BY <1>7, <2>1, <2>3, <2>4
<1>9. ASSUME NEW n \in Counts, Fgets(n) PROVE IInv'
  <2>1. PICK r \in GetLine(io, n, FALSE) : Return("fgets", n, r.got, r.io)
    BY <1>9 DEF Fgets, fgets
  <2>2. n \in Nat
    BY StdioAssumption
  <2>3. r.io \in Reading
    BY <1>2, <2>1, <2>2, GetLineFacts
  <2>4. state' = "open"
    BY <1>9 DEF Fgets, Open
  <2> QED BY <1>7, <2>1, <2>3, <2>4
<1>10. CASE Getdelim
  <2>1. PICK r \in GetLine(io, MaxLen + 1, TRUE) : Return("fgets", MaxLen + 1, r.got, r.io)
    BY <1>10 DEF Getdelim, getdelim
  <2>2. MaxLen + 1 \in Nat
    BY StdioAssumption
  <2>3. r.io \in Reading
    BY <1>2, <2>1, <2>2, GetLineFacts
  <2>4. state' = "open"
    BY <1>10 DEF Getdelim, Open
  <2> QED BY <1>7, <2>1, <2>3, <2>4
<1>11. CASE Fflush
  <2>1. PICK x \in fflush(io) : Return("other", 0, 0, x)
    BY <1>11 DEF Fflush
  <2>2. state' = "open"
    BY <1>11 DEF Fflush, Open
  <2> QED BY <1>4, <2>1, <2>2, StaysOpen
<1>12. CASE Ftell
  <2>1. PICK x \in fflush(io) : Return("ftell", 0, IF x.ok /\ fd.seek THEN x.pos ELSE -1, x)
    BY <1>12 DEF Ftell
  <2>2. state' = "open"
    BY <1>12 DEF Ftell, Open
  <2> QED BY <1>4, <2>1, <2>2, StaysOpen
<1>13. CASE Clearerr
  <2> DEFINE x == [io EXCEPT !.eof = FALSE, !.err = FALSE]
  <2>1. x \in Io /\ Clean(x)
    BY ClearFacts
  <2>2. state' = "open" /\ Return("other", 0, 0, x)
    BY <1>13 DEF Clearerr, Open
  <2> HIDE DEF x
  <2> QED BY <2>1, <2>2, StaysOpen
<1>14. CASE Rewind
  <2> DEFINE y == [io EXCEPT !.eof = FALSE, !.err = FALSE]
  <2>1. y \in Io /\ y.ok
    BY ClearFacts
  <2>2. PICK x \in fseek(y, "SET", 0) : Return("fseek", <<"SET", 0>>, IF x.ok THEN 0 ELSE -1, x)
    BY <1>14 DEF Rewind
  <2> HIDE DEF y
  <2>3. x \in Io /\ Clean(x)
    BY <2>1, <2>2, FseekFacts
  <2>4. state' = "open"
    BY <1>14 DEF Rewind, Open
  <2> QED BY <2>2, <2>3, <2>4, StaysOpen
<1>15. ASSUME NEW whence, NEW offset, Fseek(whence, offset) PROVE IInv'
  <2>1. PICK x \in fseek(io, whence, offset) : Return("fseek", <<whence, offset>>, IF x.ok THEN 0 ELSE -1, x)
    BY <1>15 DEF Fseek
  <2>2. x \in Io /\ Clean(x)
    BY <1>1, <2>1, FseekFacts
  <2>3. state' = "open"
    BY <1>15 DEF Fseek, Open
  <2> QED BY <2>1, <2>2, <2>3, StaysOpen
<1>16. Io' = Io
  BY DEF Io, IoType, Mirrors
<1>17. CASE Fclose
  <2>1. PICK x \in fflush(io) : Return("other", 0, 0, x) /\ state' = IF x.ok THEN "closed" ELSE "open"
    BY <1>17 DEF Fclose
  <2>2. x \in Io /\ Clean(x) /\ (x.ok => x.wbuf = << >>)
    BY <1>4
  <2>3. /\ io' \in Io /\ io'.ok /\ (io'.err => failed') /\ failed' \in BOOLEAN /\ LinesFlushed'
        /\ io'.wbuf = x.wbuf
    BY <2>1, <2>2, ReturnFacts
  <2>4. NothingPending'
    BY <2>1, <2>2, <2>3 DEF NothingPending
  <2> QED BY <1>16, <2>3, <2>4 DEF IInv
<1>18. CASE Exit
  <2>1. PICK x \in (IF stream \in {"stdout", "stderr"} THEN fflush(io) ELSE {io}) : Return("other", 0, 0, x)
    BY <1>18 DEF Exit
  <2>2. state' = "exited" /\ stream' = stream
    BY <1>18 DEF Exit, Open
  <2>3. /\ x \in Io /\ Clean(x)
        /\ stream \in {"stdout", "stderr"} => (x.ok => x.wbuf = << >>) /\ (x.ok \/ x.err)
    BY <1>1, <1>2, <1>4, <2>1
  <2>4. /\ io' \in Io /\ io'.ok /\ (io'.err => failed') /\ failed' \in BOOLEAN /\ LinesFlushed'
        /\ io'.wbuf = x.wbuf /\ (x.err => failed')
    BY <2>1, <2>3, ReturnFacts
  <2>5. NothingPending'
    BY <2>2, <2>3, <2>4 DEF NothingPending
  <2> QED BY <1>16, <2>4, <2>5 DEF IInv
<1>19. CASE UNCHANGED vars
  BY <1>16, <1>19 DEF vars, IInv, LinesFlushed, NothingPending
<1> QED BY <1>5, <1>6, <1>8, <1>9, <1>10, <1>11, <1>12, <1>13, <1>14, <1>15, <1>17, <1>18, <1>19 DEF Next

(* A stream is in order between any two calls.                             *)
THEOREM Invariant == Spec => []IInv
BY Initially, Step, PTL DEF Spec

(* One buffer serves both directions of a stream, and never two at once:   *)
(* whatever the program writes, reads and seeks, and whichever system call *)
(* fails or transfers less, bytes to write and bytes read ahead never      *)
(* share it and never outgrow it.                                          *)
THEOREM OneBufferIsEnough == Spec => []BufferShared
<1>1. IInv => BufferShared
  BY IoFacts DEF IInv, BufferShared
<1> QED BY <1>1, Invariant, PTL

(* fwrite and all that print through it flush every newline: none waits in *)
(* the buffer between two calls unless a write has failed.                 *)
THEOREM WholeLinesAreShown == Spec => []LinesFlushed
<1>1. IInv => LinesFlushed
  BY DEF IInv
<1> QED BY <1>1, Invariant, PTL

(* fclose closes no stream that still has bytes to write, and exit()       *)
(* leaves none on stdout and stderr unless a write has failed.             *)
THEOREM NothingIsForgotten == Spec => []NothingPending
<1>1. IInv => NothingPending
  BY DEF IInv
<1> QED BY <1>1, Invariant, PTL

-----------------------------------------------------------------------------
(* The refinement of ByteStream: Whole(x) is the file and Place(x) the     *)
(* position that the buffers of x stand for.                               *)

Same(x, y) == Whole(y) = Whole(x) /\ Place(y) = Place(x) /\ (EofOK(x) => EofOK(y))

(* Writing nothing changes nothing.                                        *)
LEMMA SpliceNone ==
  ASSUME NEW f \in Seq(Bytes), NEW p \in 0..Len(f)
  PROVE  Splice(f, p, << >>) = f
<1> DEFINE g == Splice(f, p, << >>)
<1>1. << >> \in Seq(Bytes) /\ Len(<< >>) = 0 /\ Len(f) \in Nat
  BY LenProperties
<1>2. /\ g \in Seq(Bytes)
      /\ Len(g) = (IF Len(f) >= p + Len(<< >>) THEN Len(f) ELSE p + Len(<< >>))
      /\ \A i \in 1..Len(g) : g[i] = IF i > p /\ i <= p + Len(<< >>) THEN << >>[i - p] ELSE f[i]
  BY <1>1, SpliceFacts
<1> HIDE DEF g
<1>3. Len(g) = Len(f)
  BY <1>1, <1>2
<1>4. \A i \in 1..Len(f) : ~(i > p /\ i <= p + Len(<< >>))
  BY <1>1
<1>5. \A i \in 1..Len(f) : g[i] = f[i]
  BY <1>2, <1>3, <1>4
<1>6. g = f
  BY <1>2, <1>3, <1>5, SeqEqual
<1> QED BY <1>6 DEF g

(* Bytes and then one more behind them.                                    *)
LEMMA SpliceAppend ==
  ASSUME NEW f \in Seq(Bytes), NEW p \in 0..Len(f), NEW s \in Seq(Bytes), NEW c \in Bytes
  PROVE  Splice(Splice(f, p, s), p + Len(s), <<c>>) = Splice(f, p, Append(s, c))
<1> DEFINE g == Splice(f, p, s)
           q == p + Len(s)
           t == Append(s, c)
           l == Splice(g, q, <<c>>)
           r == Splice(f, p, t)
<1>1. Len(f) \in Nat /\ Len(s) \in Nat /\ p \in Nat /\ p <= Len(f)
  BY LenProperties
<1>2. /\ g \in Seq(Bytes) /\ Len(g) = (IF Len(f) >= q THEN Len(f) ELSE q)
      /\ \A i \in 1..Len(g) : g[i] = IF i > p /\ i <= q THEN s[i - p] ELSE f[i]
  BY SpliceFacts
<1>3. /\ t \in Seq(Bytes) /\ Len(t) = Len(s) + 1 /\ t[Len(s) + 1] = c
      /\ \A i \in 1..Len(s) : t[i] = s[i]
  BY AppendProperties
<1>4. <<c>> \in Seq(Bytes) /\ Len(<<c>>) = 1 /\ <<c>>[1] = c
  OBVIOUS
<1> HIDE DEF g, t
<1>5. /\ r \in Seq(Bytes) /\ Len(r) = (IF Len(f) >= p + Len(t) THEN Len(f) ELSE p + Len(t))
      /\ \A i \in 1..Len(r) : r[i] = IF i > p /\ i <= p + Len(t) THEN t[i - p] ELSE f[i]
  BY <1>3, SpliceFacts
<1>6. q \in 0..Len(g) /\ q \in Nat /\ Len(g) \in Nat
  BY <1>1, <1>2
<1>7. /\ l \in Seq(Bytes) /\ Len(l) = (IF Len(g) >= q + Len(<<c>>) THEN Len(g) ELSE q + Len(<<c>>))
      /\ \A i \in 1..Len(l) : l[i] = IF i > q /\ i <= q + Len(<<c>>) THEN <<c>>[i - q] ELSE g[i]
  BY <1>2, <1>4, <1>6, SpliceFacts
<1> HIDE DEF l, r
<1>8. Len(l) = Len(r) /\ Len(l) = (IF Len(f) >= q + 1 THEN Len(f) ELSE q + 1) /\ Len(l) \in Nat
  <2>1. Len(l) = (IF Len(g) >= q + 1 THEN Len(g) ELSE q + 1)
    BY <1>4, <1>7
  <2>2. Len(r) = (IF Len(f) >= q + 1 THEN Len(f) ELSE q + 1)
    <3>1. p + Len(t) = q + 1
      BY <1>1, <1>3
    <3> QED BY <1>5, <3>1
  <2>3. Len(g) = (IF Len(f) >= q THEN Len(f) ELSE q)
    BY <1>2
  <2> QED BY ONLY <1>1, <1>6, <2>1, <2>2, <2>3
<1>9. ASSUME NEW i \in 1..Len(l) PROVE l[i] = r[i]
  <2>0. i \in Nat /\ i >= 1 /\ i <= Len(l)
    BY <1>8
  <2>1. l[i] = (IF i > q /\ i <= q + 1 THEN <<c>>[i - q] ELSE g[i])
    BY <1>4, <1>7
  <2>2. r[i] = (IF i > p /\ i <= q + 1 THEN t[i - p] ELSE f[i])
    <3>1. p + Len(t) = q + 1
      BY <1>1, <1>3
    <3> QED BY <1>5, <1>8, <3>1
  <2>3. CASE i = q + 1
    <3>1. i > q /\ i <= q + 1 /\ i > p /\ i - q = 1 /\ i - p = Len(s) + 1
      BY <1>1, <1>6, <2>3
    <3> QED BY <1>3, <1>4, <2>1, <2>2, <3>1
  <2>4. CASE i > p /\ i <= q
    <3>1. ~(i > q) /\ i <= q + 1 /\ i - p \in 1..Len(s) /\ i \in 1..Len(g)
      BY <1>1, <1>2, <1>6, <2>0, <2>4
    <3>2. l[i] = g[i] /\ r[i] = t[i - p]
      BY <2>1, <2>2, <2>4, <3>1
    <3>3. g[i] = s[i - p] /\ t[i - p] = s[i - p]
      BY <1>2, <1>3, <2>4, <3>1
    <3> QED BY <3>2, <3>3
  <2>5. CASE i <= p \/ i > q + 1
    <3>1. ~(i > q /\ i <= q + 1) /\ ~(i > p /\ i <= q + 1) /\ ~(i > p /\ i <= q)
      BY <1>1, <1>6, <2>0, <2>5
    <3>2. i \in 1..Len(g)
      <4>1. i <= Len(f)
        BY <1>1, <1>6, <1>8, <2>0, <2>5
      <4> QED BY <1>1, <1>2, <1>6, <2>0, <4>1
    <3> QED BY <1>2, <2>1, <2>2, <3>1, <3>2
  <2>6. i = q + 1 \/ (i > p /\ i <= q) \/ i <= p \/ i > q + 1
    BY <1>1, <1>6, <2>0
  <2> QED BY <2>3, <2>4, <2>5, <2>6
<1>10. l = r
  BY <1>5, <1>7, <1>8, <1>9, SeqEqual
<1> QED BY <1>10 DEF l, r, g, t

(* What a stream stands for is a file and a position in it.                *)
LEMMA WholeFacts ==
  ASSUME NEW x \in Io
  PROVE  /\ Whole(x) \in Seq(Bytes) /\ Len(Whole(x)) \in Nat /\ Place(x) \in 0..Len(Whole(x))
         /\ WritePos(x) \in 0..Len(x.file)
         /\ x.wbuf = << >> => Whole(x) = x.file /\ Place(x) = x.pos - Len(x.rbuf)
         /\ x.wbuf # << >> => Place(x) = WritePos(x) + Len(x.wbuf)
<1>1. /\ x.file \in Seq(Bytes) /\ x.wbuf \in Seq(Bytes) /\ Len(x.file) \in Nat /\ Len(x.wbuf) \in Nat
      /\ x.pos \in Nat /\ Len(x.rbuf) \in Nat /\ Len(x.rbuf) <= x.pos /\ x.pos <= Len(x.file)
  BY IoFacts
<1>2. WritePos(x) \in 0..Len(x.file)
  <2>1. WritePos(x) \in {Len(x.file), x.pos}
    BY DEF WritePos
  <2> QED BY <1>1, <2>1
<1>3. /\ Whole(x) \in Seq(Bytes)
      /\ Len(Whole(x)) = (IF Len(x.file) >= WritePos(x) + Len(x.wbuf) THEN Len(x.file)
                          ELSE WritePos(x) + Len(x.wbuf))
  BY <1>1, <1>2, SpliceFacts DEF Whole
<1>4. CASE x.wbuf = << >>
  <2>1. Whole(x) = x.file
    BY <1>1, <1>2, <1>4, SpliceNone DEF Whole
  <2>2. Place(x) = x.pos - Len(x.rbuf)
    BY <1>4 DEF Place
  <2>3. Place(x) \in 0..Len(Whole(x))
    BY <1>1, <2>1, <2>2
  <2> QED BY <1>1, <1>2, <1>3, <1>4, <2>1, <2>2, <2>3
<1>5. CASE x.wbuf # << >>
  <2>1. Place(x) = WritePos(x) + Len(x.wbuf)
    BY <1>5 DEF Place
  <2>2. Place(x) \in 0..Len(Whole(x)) /\ Len(Whole(x)) \in Nat
    <3>1. WritePos(x) \in Nat
      BY <1>1, <1>2
    <3> QED BY <1>1, <1>3, <2>1, <3>1
  <2> QED BY <1>2, <1>3, <1>5, <2>1, <2>2
<1> QED BY <1>4, <1>5

(* Flushing changes nothing the program could notice.                      *)
LEMMA FlushSame ==
  ASSUME NEW x \in Io, x.ok, NEW y \in __stdio_flush_wbuf(x), y.ok
  PROVE  y.wbuf = << >> /\ Same(x, y)
<1>1. y \in Io /\ y.rbuf = x.rbuf
  BY FlushFacts
<1>2. CASE x.wbuf = << >> /\ y = x
  BY <1>2 DEF Same
<1>3. CASE /\ x.wbuf # << >> /\ y.wbuf = << >> /\ (y.eof <=> x.eof)
           /\ y.file = Splice(x.file, WritePos(x), x.wbuf) /\ y.pos = WritePos(x) + Len(x.wbuf)
  <2>1. Whole(y) = y.file /\ Place(y) = y.pos - Len(y.rbuf) /\ Place(x) = WritePos(x) + Len(x.wbuf)
    BY <1>1, <1>3, WholeFacts
  <2>2. y.rbuf = << >> /\ Len(<< >>) = 0 /\ y.pos \in Nat
    BY <1>1, <1>3, IoFacts
  <2>3. Whole(y) = Whole(x)
    BY <1>3, <2>1 DEF Whole
  <2>4. Place(y) = Place(x)
    BY <1>3, <2>1, <2>2
  <2> QED BY <1>1, <1>3, <2>3, <2>4 DEF Same, EofOK
<1> QED BY <1>2, <1>3, FlushFacts

(* So does giving back what was read ahead.                                *)
LEMMA PurgeSame ==
  ASSUME NEW x \in Io, x.ok, __stdio_purge_readbuf(x).ok
  PROVE  Same(x, __stdio_purge_readbuf(x))
<1> DEFINE y == __stdio_purge_readbuf(x)
<1>1. /\ y \in Io /\ y.wbuf = x.wbuf
      /\ \/ x.rbuf = << >> /\ y = x
         \/ /\ x.rbuf # << >> /\ y.rbuf = << >> /\ y.file = x.file /\ y.pos = x.pos - Len(x.rbuf)
            /\ (y.eof <=> x.eof)
  BY PurgeFacts
<1> HIDE DEF y
<1>2. CASE x.rbuf # << >> /\ y.rbuf = << >> /\ y.file = x.file /\ y.pos = x.pos - Len(x.rbuf)
           /\ (y.eof <=> x.eof)
  <2>1. x.wbuf = << >> /\ Len(<< >>) = 0 /\ y.pos \in Nat
    BY <1>1, <1>2, IoFacts
  <2>2. /\ Whole(y) = y.file /\ Place(y) = y.pos - Len(y.rbuf)
        /\ Whole(x) = x.file /\ Place(x) = x.pos - Len(x.rbuf)
    BY <1>1, <2>1, WholeFacts
  <2>3. Whole(y) = Whole(x) /\ Place(y) = Place(x)
    BY <1>2, <2>1, <2>2
  <2> QED BY <1>2, <2>3 DEF Same, EofOK, y
<1>3. CASE y = x
  BY <1>3 DEF Same, y
<1> QED BY <1>1, <1>2, <1>3

(* And fflush, which does both.                                            *)
LEMMA FflushSame ==
  ASSUME NEW x \in Io, x.ok, NEW y \in fflush(x), y.ok
  PROVE  Same(x, y)
<1>1. PICK z \in __stdio_flush_wbuf(x) : y = IF z.ok THEN __stdio_purge_readbuf(z) ELSE z
  BY DEF fflush
<1>2. z.ok /\ y = __stdio_purge_readbuf(z)
  BY <1>1
<1>3. z \in Io
  BY <1>1, FlushFacts
<1>4. Same(x, z) /\ Same(z, y)
  BY <1>1, <1>2, <1>3, FlushSame, PurgeSame
<1> QED BY <1>4 DEF Same

(* Where the next byte goes.                                               *)
NextAt(x) == IF Appends THEN Len(Whole(x)) ELSE Place(x)

LEMMA NextFacts ==
  ASSUME NEW x \in Io, x.rbuf = << >>
  PROVE  NextAt(x) = WritePos(x) + Len(x.wbuf) /\ NextAt(x) \in 0..Len(Whole(x))
<1>1. /\ x.file \in Seq(Bytes) /\ x.wbuf \in Seq(Bytes) /\ Len(x.file) \in Nat /\ Len(x.wbuf) \in Nat
      /\ x.pos \in Nat
  BY IoFacts
<1>2. /\ Place(x) \in 0..Len(Whole(x)) /\ Len(Whole(x)) \in Nat /\ WritePos(x) \in 0..Len(x.file)
      /\ x.wbuf = << >> => Place(x) = x.pos - Len(x.rbuf)
      /\ x.wbuf # << >> => Place(x) = WritePos(x) + Len(x.wbuf)
  BY WholeFacts
<1>3. CASE Appends
  <2>1. WritePos(x) = Len(x.file)
    BY <1>3 DEF WritePos
  <2>2. Len(Whole(x)) = (IF Len(x.file) >= WritePos(x) + Len(x.wbuf) THEN Len(x.file)
                         ELSE WritePos(x) + Len(x.wbuf))
    BY <1>1, <1>2, SpliceFacts DEF Whole
  <2>3. Len(Whole(x)) = WritePos(x) + Len(x.wbuf)
    <3>1. Len(x.file) \in Nat /\ Len(x.wbuf) \in Nat
      BY <1>1
    <3>2. Len(x.file) >= Len(x.file) + Len(x.wbuf) => Len(x.file) = Len(x.file) + Len(x.wbuf)
      <4>1. \A a, b \in Nat : a >= a + b => a = a + b
        OBVIOUS
      <4> QED BY ONLY <3>1, <4>1
    <3> QED BY <2>1, <2>2, <3>2
  <2>4. NextAt(x) = Len(Whole(x))
    BY <1>3 DEF NextAt
  <2> QED BY <1>2, <2>3, <2>4
<1>4. CASE ~Appends
  <2>1. WritePos(x) = x.pos /\ NextAt(x) = Place(x)
    BY <1>4 DEF WritePos, NextAt
  <2>2. Len(<< >>) = 0
    OBVIOUS
  <2>3. Place(x) = WritePos(x) + Len(x.wbuf)
    <3>1. CASE x.wbuf = << >>
      BY <1>1, <1>2, <2>1, <2>2, <3>1
    <3>2. CASE x.wbuf # << >>
      BY <1>2, <3>2
    <3> QED BY <3>1, <3>2
  <2> QED BY <1>2, <2>1, <2>3
<1> QED BY <1>3, <1>4

(* A byte in the buffer is a byte written.                                 *)
LEMMA AppendSame ==
  ASSUME NEW x \in Io, x.rbuf = << >>, Len(x.wbuf) < BufSize, NEW c \in Bytes
  PROVE  LET y == [x EXCEPT !.wbuf = Append(@, c)]
         IN /\ Whole(y) = Splice(Whole(x), NextAt(x), <<c>>) /\ Place(y) = NextAt(x) + 1
            /\ EofOK(x) => EofOK(y)
<1> DEFINE y == [x EXCEPT !.wbuf = Append(@, c)]
<1>1. /\ y \in Io /\ y.rbuf = << >> /\ (y.eof <=> x.eof) /\ y.wbuf = Append(x.wbuf, c)
      /\ y.file = x.file /\ y.pos = x.pos
  BY AppendByte
<1> HIDE DEF y
<1>2. x.file \in Seq(Bytes) /\ x.wbuf \in Seq(Bytes) /\ Len(x.wbuf) \in Nat /\ Len(x.file) \in Nat
  BY IoFacts
<1>3. /\ NextAt(x) = WritePos(x) + Len(x.wbuf) /\ NextAt(x) \in 0..Len(Whole(x))
      /\ WritePos(x) \in 0..Len(x.file) /\ Whole(x) \in Seq(Bytes) /\ Len(Whole(x)) \in Nat
      /\ Place(x) \in 0..Len(Whole(x))
  BY NextFacts, WholeFacts
<1>4. WritePos(y) = WritePos(x)
  BY <1>1 DEF WritePos
<1>5. Whole(y) = Splice(Whole(x), NextAt(x), <<c>>)
  <2>1. Whole(y) = Splice(x.file, WritePos(x), Append(x.wbuf, c))
    BY <1>1, <1>4 DEF Whole
  <2>2. Splice(Splice(x.file, WritePos(x), x.wbuf), WritePos(x) + Len(x.wbuf), <<c>>)
          = Splice(x.file, WritePos(x), Append(x.wbuf, c))
    BY <1>2, <1>3, SpliceAppend
  <2> QED BY <1>3, <2>1, <2>2 DEF Whole
<1>6. Place(y) = NextAt(x) + 1
  <2>1. y.wbuf # << >> /\ Len(y.wbuf) = Len(x.wbuf) + 1
    BY <1>1, <1>2, AppendProperties
  <2>2. Place(y) = WritePos(x) + (Len(x.wbuf) + 1)
    BY <1>1, <1>4, <2>1, WholeFacts
  <2>3. WritePos(x) \in Nat
    BY <1>2, <1>3
  <2> QED BY <1>2, <1>3, <2>2, <2>3
<1>7. ASSUME x.eof, Place(x) = Len(Whole(x)) PROVE Place(y) = Len(Whole(y))
  <2>1. NextAt(x) = Len(Whole(x))
    BY <1>7 DEF NextAt
  <2>2. <<c>> \in Seq(Bytes) /\ Len(<<c>>) = 1
    OBVIOUS
  <2>3. Len(Whole(y)) = (IF Len(Whole(x)) >= NextAt(x) + Len(<<c>>) THEN Len(Whole(x))
                         ELSE NextAt(x) + Len(<<c>>))
    <3>1. Len(Splice(Whole(x), NextAt(x), <<c>>)) = (IF Len(Whole(x)) >= NextAt(x) + Len(<<c>>) THEN Len(Whole(x))
                                                  ELSE NextAt(x) + Len(<<c>>))
      BY ONLY <1>3, <2>2, SpliceFacts
    <3> QED BY <1>5, <3>1
  <2> QED BY <1>3, <1>6, <2>1, <2>2, <2>3
<1> QED BY <1>1, <1>5, <1>6, <1>7 DEF y, EofOK

(* A round of the loop of file_write writes its byte.                      *)
LEMMA PutByteSame ==
  ASSUME NEW x \in Writing, x.ok, NEW c \in Bytes, NEW y \in PutByte(x, c), y.ok
  PROVE  /\ Whole(y) = Splice(Whole(x), NextAt(x), <<c>>) /\ Place(y) = NextAt(x) + 1
         /\ EofOK(x) => EofOK(y)
<1> DEFINE put(z) == [z EXCEPT !.wbuf = Append(@, c)]
           room == IF Len(x.wbuf) >= BufSize THEN fflush(x) ELSE {x}
<1>1. x \in Io /\ x.rbuf = << >> /\ Len(x.wbuf) \in Nat /\ BufSize \in Nat \ {0}
  BY IoFacts DEF Writing
<1>2. PICK z \in room :
        y \in IF z.ok /\ (IF sync THEN Len(put(z).wbuf) >= BufSize ELSE c = NL) THEN fflush(put(z))
              ELSE IF z.ok THEN {put(z)} ELSE {z}
  BY DEF PutByte
<1>3. z.ok
  BY <1>2
<1>4. z \in Io /\ z.rbuf = << >> /\ Len(z.wbuf) < BufSize /\ Same(x, z)
  <2>1. CASE Len(x.wbuf) >= BufSize
    <3>1. z \in fflush(x)
      BY <1>2, <2>1
    <3>2. Len(<< >>) = 0
      OBVIOUS
    <3> QED BY <1>1, <1>3, <3>1, <3>2, FflushFacts, FflushSame
  <2>2. CASE ~(Len(x.wbuf) >= BufSize)
    BY <1>1, <1>2, <2>2 DEF Same
  <2> QED BY <2>1, <2>2
<1>5. NextAt(z) = NextAt(x) /\ Whole(z) = Whole(x) /\ (EofOK(x) => EofOK(z))
  BY <1>4 DEF Same, NextAt
<1> DEFINE w == put(z)
<1>6. w \in Io /\ w.ok
  BY <1>3, <1>4, AppendByte
<1>7. /\ Whole(w) = Splice(Whole(z), NextAt(z), <<c>>) /\ Place(w) = NextAt(z) + 1
      /\ EofOK(z) => EofOK(w)
  BY <1>4, AppendSame
<1>8. y = w \/ y \in fflush(w)
  BY <1>2, <1>3
<1> HIDE DEF w
<1>9. Same(w, y)
  BY <1>6, <1>8, FflushSame DEF Same
<1> QED BY <1>5, <1>7, <1>9 DEF Same

(* One byte more of a sequence.                                            *)
LEMMA PrefixFacts ==
  ASSUME NEW s \in Seq(Bytes), NEW i \in 1..Len(s)
  PROVE  /\ SubSeq(s, 1, i - 1) \in Seq(Bytes) /\ Len(SubSeq(s, 1, i - 1)) = i - 1
         /\ s[i] \in Bytes /\ Append(SubSeq(s, 1, i - 1), s[i]) = SubSeq(s, 1, i)
<1> DEFINE a == SubSeq(s, 1, i - 1)
           b == SubSeq(s, 1, i)
           t == Append(a, s[i])
<1>1. Len(s) \in Nat /\ i \in Nat /\ i >= 1 /\ i <= Len(s)
  BY LenProperties
<1>2. i - 1 \in 0..Len(s) /\ i \in 0..Len(s) /\ 1 \in Nat \ {0} /\ 1 <= (i - 1) + 1 /\ 1 <= i + 1
      /\ (i - 1) - 1 + 1 = i - 1 /\ i - 1 + 1 = i
  BY <1>1
<1>3. a \in Seq(Bytes) /\ Len(a) = i - 1 /\ \A j \in 1..(i - 1) : a[j] = s[1 + j - 1]
  <2>1. a \in Seq(Bytes) /\ Len(a) = (i - 1) - 1 + 1 /\ \A j \in 1..((i - 1) - 1 + 1) : a[j] = s[1 + j - 1]
    BY <1>2, PartFacts
  <2> HIDE DEF a
  <2> QED BY <1>2, <2>1
<1>4. b \in Seq(Bytes) /\ Len(b) = i /\ \A j \in 1..i : b[j] = s[1 + j - 1]
  <2>1. b \in Seq(Bytes) /\ Len(b) = i - 1 + 1 /\ \A j \in 1..(i - 1 + 1) : b[j] = s[1 + j - 1]
    BY <1>2, PartFacts
  <2> HIDE DEF b
  <2> QED BY <1>2, <2>1
<1>5. s[i] \in Bytes
  BY ElementOfSeq
<1> HIDE DEF a, b
<1>6. t \in Seq(Bytes) /\ Len(t) = Len(a) + 1 /\ t[Len(a) + 1] = s[i] /\ \A j \in 1..Len(a) : t[j] = a[j]
  BY <1>3, <1>5, AppendProperties
<1> HIDE DEF t
<1>7. Len(t) = i /\ t[i] = s[i] /\ \A j \in 1..(i - 1) : t[j] = s[1 + j - 1]
  BY <1>2, <1>3, <1>6
<1>8. ASSUME NEW j \in 1..i PROVE t[j] = b[j]
  <2>1. CASE j = i
    <3>1. 1 + j - 1 = i /\ j \in 1..i
      BY <1>1, <2>1
    <3> QED BY <1>4, <1>7, <2>1, <3>1
  <2>2. CASE j # i
    <3>1. j \in 1..(i - 1)
      BY <1>1, <2>2
    <3> QED BY <1>4, <1>7, <3>1
  <2> QED BY <2>1, <2>2
<1>9. t = b
  BY <1>4, <1>6, <1>7, <1>8, SeqEqual
<1> QED BY <1>3, <1>5, <1>9 DEF t, a, b

(* Nothing, and all, of a sequence.                                        *)
LEMMA PrefixEnds ==
  ASSUME NEW s \in Seq(Bytes)
  PROVE  SubSeq(s, 1, 0) = << >> /\ SubSeq(s, 1, Len(s)) = s
<1>1. Len(s) \in Nat /\ s \in Seq(Bytes)
  BY LenProperties
<1>2. 0 \in 0..Len(s) /\ Len(s) \in 0..Len(s) /\ 1 \in Nat \ {0} /\ 1 <= 0 + 1 /\ 1 <= Len(s) + 1
  BY <1>1
<1> DEFINE b == SubSeq(s, 1, Len(s))
           a == SubSeq(s, 1, 0)
<1>3. b \in Seq(Bytes) /\ Len(b) = Len(s) - 1 + 1 /\ \A j \in 1..(Len(s) - 1 + 1) : b[j] = s[1 + j - 1]
  BY <1>2, PartFacts
<1>4. a \in Seq(Bytes) /\ Len(a) = 0 - 1 + 1
  BY <1>2, PartFacts
<1> HIDE DEF a, b
<1>5. a = << >>
  BY <1>4, EmptySeq
<1>6. Len(b) = Len(s) /\ \A j \in 1..Len(s) : b[j] = s[j]
  <2>1. Len(s) - 1 + 1 = Len(s)
    BY <1>1
  <2>2. \A j \in 1..Len(s) : 1 + j - 1 = j
    BY <1>1
  <2> QED BY <1>3, <2>1, <2>2
<1>7. b = s
  BY <1>3, <1>6, SeqEqual
<1> QED BY <1>5, <1>7 DEF a, b

(* The whole loop writes its bytes one behind the other.                   *)
LEMMA PutBytesSame ==
  ASSUME NEW x \in Writing, x.ok, EofOK(x), NEW s \in Seq(Bytes), NEW y \in PutBytes(x, s), y.ok
  PROVE  /\ Whole(y) = Splice(Whole(x), NextAt(x), s) /\ EofOK(y)
         /\ s # << >> => Place(y) = NextAt(x) + Len(s)
<1> DEFINE f == Whole(x)
           p == NextAt(x)
           n == Len(s)
           Done(i) == {z \in Writing : z.ok => /\ Whole(z) = Splice(f, p, SubSeq(s, 1, i)) /\ EofOK(z)
                                               /\ NextAt(z) = p + i /\ (i > 0 => Place(z) = p + i)}
           W == [i \in 0..n |-> Done(i)]
<1>1. x \in Io /\ x.rbuf = << >>
  BY DEF Writing
<1>2. f \in Seq(Bytes) /\ p \in 0..Len(f) /\ n \in Nat /\ Len(f) \in Nat /\ p \in Nat
  BY <1>1, WholeFacts, NextFacts, LenProperties
<1>3. \A i \in 0..n : W[i] = Done(i)
  OBVIOUS
<1>4. x \in Done(0)
  <2>1. Splice(f, p, SubSeq(s, 1, 0)) = f
    BY <1>2, PrefixEnds, SpliceNone
  <2>2. p + 0 = p /\ ~(0 > 0)
    BY <1>2
  <2> QED BY <2>1, <2>2
<1>5. ASSUME NEW i \in 1..n, NEW z \in Done(i - 1), NEW w \in IF z.ok THEN PutByte(z, s[i]) ELSE {z}
      PROVE  w \in Done(i)
  <2>1. CASE ~z.ok
    BY <2>1
  <2>2. CASE z.ok
    <3>1. w \in PutByte(z, s[i]) /\ z \in Writing /\ s[i] \in Bytes
      BY <2>2, ElementOfSeq
    <3>2. w \in Writing
      BY <2>2, <3>1, PutByteFacts
    <3>3. Whole(z) = Splice(f, p, SubSeq(s, 1, i - 1)) /\ EofOK(z) /\ NextAt(z) = p + (i - 1)
      BY <2>2
    <3>4. CASE w.ok
      <4>1. Whole(w) = Splice(Whole(z), NextAt(z), <<s[i]>>) /\ Place(w) = NextAt(z) + 1 /\ EofOK(w)
        BY <2>2, <3>1, <3>3, <3>4, PutByteSame
      <4>2. /\ SubSeq(s, 1, i - 1) \in Seq(Bytes) /\ Len(SubSeq(s, 1, i - 1)) = i - 1
            /\ Append(SubSeq(s, 1, i - 1), s[i]) = SubSeq(s, 1, i)
        BY PrefixFacts
      <4>3. Whole(w) = Splice(f, p, SubSeq(s, 1, i))
        <5>1. Splice(Splice(f, p, SubSeq(s, 1, i - 1)), p + Len(SubSeq(s, 1, i - 1)), <<s[i]>>)
                = Splice(f, p, Append(SubSeq(s, 1, i - 1), s[i]))
          BY <1>2, <3>1, <4>2, SpliceAppend
        <5> QED BY <3>3, <4>1, <4>2, <5>1
      <4>4. p + (i - 1) + 1 = p + i /\ i > 0
        BY <1>2
      <4>5. Place(w) = p + i
        BY <3>3, <4>1, <4>4
      <4>6. NextAt(w) = p + i
        <5>1. CASE ~Appends
          BY <4>5, <5>1 DEF NextAt
        <5>2. CASE Appends
          <6>1. p = Len(f)
            BY <5>2 DEF NextAt
          <6>2. SubSeq(s, 1, i) \in Seq(Bytes) /\ Len(SubSeq(s, 1, i)) = i
            <7>1. i \in 0..Len(s) /\ 1 \in Nat \ {0} /\ 1 <= i + 1 /\ i - 1 + 1 = i
              BY <1>2
            <7>2. SubSeq(s, 1, i) \in Seq(Bytes) /\ Len(SubSeq(s, 1, i)) = i - 1 + 1
              BY <7>1, PartFacts
            <7> QED BY <7>1, <7>2
          <6>3. Len(Whole(w)) = (IF Len(f) >= p + i THEN Len(f) ELSE p + i)
            <7> HIDE DEF f, p
            <7>1. Len(Splice(f, p, SubSeq(s, 1, i))) =
                    (IF Len(f) >= p + Len(SubSeq(s, 1, i)) THEN Len(f) ELSE p + Len(SubSeq(s, 1, i)))
              BY <1>2, <6>2, SpliceFacts
            <7> QED BY <4>3, <6>2, <7>1
          <6>4. ~(Len(f) >= p + i)
            <7> HIDE DEF f, p
            <7> QED BY <1>2, <6>1, <4>4
          <6>5. NextAt(w) = Len(Whole(w))
            BY <5>2 DEF NextAt
          <6> QED BY <6>3, <6>4, <6>5
        <5> QED BY <5>1, <5>2
      <4> QED BY <3>2, <4>1, <4>3, <4>5, <4>6
    <3>5. CASE ~w.ok
      BY <3>2, <3>5
    <3> QED BY <3>4, <3>5
  <2> QED BY <2>1, <2>2
<1> HIDE DEF Done
<1>6. \A i \in 1..n : \A z \in W[i - 1] : (IF z.ok THEN PutByte(z, s[i]) ELSE {z}) \subseteq W[i]
  <2>1. \A i \in 1..n : i - 1 \in 0..n /\ i \in 0..n
    BY <1>2
  <2> HIDE DEF W
  <2> QED BY <1>3, <1>5, <2>1
<1>7. x \in W[0] /\ n \in 0..n
  BY <1>2, <1>3, <1>4
<1> HIDE DEF W
<1>8. PutBytes(x, s) \subseteq W[n]
  BY <1>2, <1>6, <1>7, PutLoop
<1>9. y \in Done(n)
  BY <1>3, <1>7, <1>8
<1>10. /\ Whole(y) = Splice(f, p, SubSeq(s, 1, n)) /\ EofOK(y) /\ (n > 0 => Place(y) = p + n)
  BY <1>9 DEF Done
<1>11. s # << >> => n > 0
  BY <1>2, EmptySeq
<1> QED BY <1>10, <1>11, PrefixEnds

(* fwrite writes all of its bytes where the stream is, or at the end of a  *)
(* file opened to append.                                                  *)
LEMMA FileWriteSame ==
  ASSUME NEW x \in Io, x.ok, Clean(x), EofOK(x), NEW s \in Seq(Bytes),
         NEW y \in __stdio_file_write(x, s), ~y.err
  PROVE  /\ y.ok /\ EofOK(y) /\ Whole(y) = Splice(Whole(x), NextAt(x), s)
         /\ Place(y) = IF s = << >> THEN Place(x) ELSE NextAt(x) + Len(s)
<1> DEFINE z == __stdio_purge_readbuf(x)
<1>1. ~x.err
  BY DEF __stdio_file_write, Io, IoType
<1>2. z \in Io /\ z.wbuf = x.wbuf /\ ((z.rbuf = << >> /\ z.ok /\ ~z.err) \/ (z.err /\ ~z.ok))
  BY <1>1, PurgeFacts
<1>3. \/ y = z /\ (~z.ok \/ s = << >>)
      \/ z.ok /\ s # << >> /\ ~sync /\ y \in PutBytes(z, s)
      \/ z.ok /\ s # << >> /\ sync /\ \E w \in PutBytes(z, s) : y \in IF w.ok THEN fflush(w) ELSE {w}
  BY <1>1 DEF __stdio_file_write
<1>4. z.ok => Same(x, z)
  BY PurgeSame
<1> HIDE DEF z
<1>5. z.ok
  <2>1. ASSUME ~z.ok PROVE FALSE
    BY <1>2, <1>3, <2>1
  <2> QED BY <2>1
<1>6. z.rbuf = << >> /\ EofOK(z) /\ Whole(z) = Whole(x) /\ Place(z) = Place(x) /\ NextAt(z) = NextAt(x)
  BY <1>2, <1>4, <1>5 DEF Same, NextAt
<1>7. z \in Writing
  BY <1>1, <1>2, <1>5, <1>6 DEF Writing, Clean, NoNewline
<1>8. CASE y = z /\ s = << >>
  <2>1. Splice(Whole(z), NextAt(z), << >>) = Whole(z)
    BY <1>2, <1>6, WholeFacts, NextFacts, SpliceNone
  <2> QED BY <1>5, <1>6, <1>8, <2>1
<1>9. ASSUME s # << >>, NEW w \in PutBytes(z, s), w.ok
      PROVE  EofOK(w) /\ Whole(w) = Splice(Whole(x), NextAt(x), s) /\ Place(w) = NextAt(x) + Len(s)
  BY <1>5, <1>6, <1>7, <1>9, PutBytesSame
<1>10. \A w \in PutBytes(z, s) : w \in Io /\ (w.ok \/ w.err)
  BY <1>7, PutBytesFacts DEF Writing
<1>11. CASE z.ok /\ s # << >> /\ ~sync /\ y \in PutBytes(z, s)
  BY <1>9, <1>10, <1>11
<1>12. ASSUME s # << >>, NEW w \in PutBytes(z, s), y \in IF w.ok THEN fflush(w) ELSE {w}
       PROVE  y.ok /\ EofOK(y) /\ Whole(y) = Splice(Whole(x), NextAt(x), s) /\ Place(y) = NextAt(x) + Len(s)
  <2>1. w.ok
    BY <1>10, <1>12
  <2>2. y.ok
    BY <1>10, <1>12, <2>1, FflushFacts
  <2>3. Same(w, y)
    BY <1>10, <1>12, <2>1, <2>2, FflushSame
  <2> QED BY <1>9, <1>12, <2>1, <2>2, <2>3 DEF Same
<1> QED BY <1>3, <1>5, <1>8, <1>11, <1>12

(* The bytes that follow a position, at most n of them.                    *)
Following(f, a, n) == SubSeq(f, a + 1, Min({a + n, Len(f)}))

(* What follows a position, byte by byte.                                  *)
LEMMA FollowingBytes ==
  ASSUME NEW f \in Seq(Bytes), NEW a \in 0..Len(f), NEW n \in Nat
  PROVE  /\ Following(f, a, n) \in Seq(Bytes)
         /\ Len(Following(f, a, n)) = (IF a + n <= Len(f) THEN n ELSE Len(f) - a)
         /\ \A i \in 1..Len(Following(f, a, n)) : Following(f, a, n)[i] = f[a + i]
<1> DEFINE m == Min({a + n, Len(f)})
           h == SubSeq(f, a + 1, m)
           l == IF a + n <= Len(f) THEN n ELSE Len(f) - a
<1>1. Len(f) \in Nat /\ a \in Nat /\ a <= Len(f) /\ n \in Nat
  BY LenProperties
<1>2. m = (IF a + n <= Len(f) THEN a + n ELSE Len(f))
  <2>1. a + n \in Int /\ Len(f) \in Int
    BY <1>1
  <2> QED BY <2>1, TwoNumbers
<1> HIDE DEF m
<1>3. m \in 0..Len(f) /\ a + 1 \in Nat \ {0} /\ a + 1 <= m + 1 /\ m - (a + 1) + 1 = l /\ l \in Nat
  BY ONLY <1>1, <1>2
<1> HIDE DEF l
<1>4. h \in Seq(Bytes) /\ Len(h) = l /\ \A i \in 1..l : h[i] = f[a + 1 + i - 1]
  <2>1. /\ h \in Seq(Bytes) /\ Len(h) = m - (a + 1) + 1
        /\ \A i \in 1..(m - (a + 1) + 1) : h[i] = f[a + 1 + i - 1]
    BY <1>3, PartFacts
  <2> HIDE DEF h
  <2> QED BY <1>3, <2>1
<1> HIDE DEF h
<1>5. \A i \in 1..Len(h) : h[i] = f[a + i]
  <2>1. \A i \in 1..l : a + 1 + i - 1 = a + i
    BY <1>1, <1>3
  <2> QED BY <1>4, <2>1
<1> QED BY <1>4, <1>5 DEF h, m, l, Following

(* Parts of sequences that are equal.                                      *)
LEMMA FollowingFacts ==
  ASSUME NEW f \in Seq(Bytes), NEW a \in 0..Len(f), NEW n \in Nat, NEW g \in Seq(Bytes),
         Len(g) = (IF a + n <= Len(f) THEN n ELSE Len(f) - a),
         \A i \in 1..Len(g) : g[i] = f[a + i]
  PROVE  g = Following(f, a, n)
<1> DEFINE h == Following(f, a, n)
<1>1. h \in Seq(Bytes) /\ Len(h) = Len(g) /\ \A i \in 1..Len(h) : h[i] = f[a + i]
  BY FollowingBytes
<1> HIDE DEF h
<1>2. \A i \in 1..Len(g) : g[i] = h[i]
  BY <1>1
<1>3. g = h
  BY <1>1, <1>2, SeqEqual
<1> QED BY <1>3 DEF h

(* What a read is to give: the bytes that follow, with the position moved  *)
(* behind them.                                                            *)
Reads(x, n, r) ==
  /\ Whole(r.io) = Whole(x) /\ Place(r.io) = Place(x) + Len(r.got) /\ EofOK(r.io)
  /\ r.got = Following(Whole(x), Place(x), n)

(* The loop of fread returns the bytes that follow.                        *)
LEMMA ReadBytesSame ==
  ASSUME NEW x \in Io, x.ok, x.wbuf = << >>, EofOK(x), NEW n \in Nat \ {0}, NEW r \in ReadBytes(x, n),
         ~r.io.err
  PROVE  Reads(x, n, r)
<1> DEFINE have == Len(x.rbuf)
           all == x.rbuf \o SubSeq(x.file, x.pos + 1, Len(x.file))
           missing == n - have
           y == r.io
           f == x.file
           a == Place(x)
<1>1. /\ x \in IoType /\ f \in Seq(Bytes) /\ x.rbuf \in Seq(Bytes)
      /\ \A i \in 1..have : x.rbuf[i] = f[x.pos - have + i]
  BY IoFacts DEF Mirrors
<1>2. /\ all \in Seq(Bytes) /\ Len(all) = have + Ahead(x) /\ Ahead(x) \in Nat
      /\ \A i \in 1..Len(all) : all[i] = f[x.pos - have + i]
  BY AheadFacts
<1>3. Whole(x) = f /\ a = x.pos - have /\ a \in 0..Len(f)
  BY WholeFacts
<1>4. y \in Io /\ y.wbuf = << >>
  BY ReadBytesFacts
<1>5. Whole(y) = y.file /\ Place(y) = y.pos - Len(y.rbuf)
  BY <1>4, WholeFacts
<1>6. \/ /\ missing <= 0 /\ y = [x EXCEPT !.rbuf = SubSeq(@, n + 1, have)]
         /\ r.got = SubSeq(x.rbuf, 1, n)
      \/ /\ missing > 0 /\ missing <= Ahead(x) /\ r.got = SubSeq(all, 1, n)
         /\ \E k \in 0..Min({BufSize - 1, Ahead(x) - missing}) :
              y = [x EXCEPT !.pos = @ + missing + k, !.rbuf = SubSeq(all, n + 1, n + k)]
      \/ /\ missing > 0 /\ missing > Ahead(x) /\ r.got = all
         /\ y = [x EXCEPT !.pos = @ + Ahead(x), !.rbuf = << >>, !.eof = TRUE]
      \/ \E k : y = Fault([x EXCEPT !.pos = @ + k, !.rbuf = << >>])
      \/ y = Error([x EXCEPT !.rbuf = << >>])
  BY ReadCases
<1>7. ~y.err
  OBVIOUS
<1>8. /\ have \in Nat /\ x.pos \in Nat /\ have <= x.pos /\ Len(f) \in Nat /\ x.pos <= Len(f)
      /\ Ahead(x) = Len(f) - x.pos /\ Ahead(x) \in Nat /\ BufSize \in Nat \ {0} /\ a = x.pos - have
  BY <1>2, <1>3, IoFacts DEF Ahead
<1>9. Len(all) = have + Ahead(x)
  BY <1>2
<1>10. x.eof => have = 0 /\ a = Len(f)
  <2>1. Len(<< >>) = 0
    OBVIOUS
  <2> QED BY <1>3, <2>1 DEF EofOK
<1> SUFFICES /\ y.file = f /\ y.pos - Len(y.rbuf) = a + Len(r.got) /\ EofOK(y)
             /\ r.got = Following(f, a, n)
  BY <1>3, <1>5 DEF Reads
<1> HIDE DEF have, all, y, f, a
<1>11. CASE /\ missing <= 0 /\ y = [x EXCEPT !.rbuf = SubSeq(@, n + 1, have)]
            /\ r.got = SubSeq(x.rbuf, 1, n)
  <2> DEFINE b == SubSeq(x.rbuf, n + 1, have)
           c == SubSeq(x.rbuf, 1, n)
  <2>0. n - have <= 0 /\ n <= have /\ n \in Nat /\ have = Len(x.rbuf)
    <3>1. n - have <= 0
      BY <1>11
    <3>2. n - have <= 0 => n <= have
      BY <1>8
    <3> QED BY <3>1, <3>2 DEF have
  <2>1. /\ n + 1 \in Nat \ {0} /\ have \in 0..have /\ n + 1 <= have + 1 /\ have - (n + 1) + 1 = have - n
        /\ 1 \in Nat \ {0} /\ n \in 0..have /\ 1 <= n + 1 /\ n - 1 + 1 = n
    BY ONLY <1>8, <2>0
  <2>2. b \in Seq(Bytes) /\ Len(b) = have - (n + 1) + 1
    BY ONLY <1>1, <2>0, <2>1, PartFacts
  <2>3c. c \in Seq(Bytes) /\ Len(c) = n - 1 + 1 /\ \A i \in 1..(n - 1 + 1) : c[i] = x.rbuf[1 + i - 1]
    BY ONLY <1>1, <2>0, <2>1, PartFacts
  <2>3g. r.got = c
    BY <1>11
  <2> HIDE DEF c
  <2>3. r.got \in Seq(Bytes) /\ Len(r.got) = n - 1 + 1 /\ \A i \in 1..(n - 1 + 1) : r.got[i] = x.rbuf[1 + i - 1]
    BY ONLY <2>3c, <2>3g
  <2> HIDE DEF b
  <2>4. y.file = f /\ y.pos = x.pos /\ y.rbuf = b /\ (y.eof <=> x.eof)
    <3>1. y = [x EXCEPT !.rbuf = b]
      BY <1>11 DEF b
    <3> QED BY ONLY <1>1, <3>1 DEF IoType, f
  <2>5. ~x.eof
    BY ONLY <1>8, <1>10, <2>0, n \in Nat \ {0}
  <2>nl. Len(r.got) = n /\ Len(y.rbuf) = have - n
    BY ONLY <2>1, <2>2, <2>3, <2>4
  <2>6. \A i \in 1..Len(r.got) : r.got[i] = f[a + i]
    <3> SUFFICES ASSUME NEW i \in 1..Len(r.got) PROVE r.got[i] = f[a + i]
      OBVIOUS
    <3>1. i \in 1..(n - 1 + 1) /\ 1 + i - 1 = i /\ i \in 1..have /\ x.pos - have + i = a + i
      BY ONLY <1>8, <2>0, <2>1, <2>nl, i \in 1..Len(r.got)
    <3> QED BY <1>1, <2>3, <3>1
  <2>7. Len(r.got) = (IF a + n <= Len(f) THEN n ELSE Len(f) - a)
    BY ONLY <1>8, <2>0, <2>nl
  <2>8. r.got = Following(f, a, n)
    BY <1>1, <1>3, <2>3, <2>6, <2>7, FollowingFacts
  <2>9. y.pos - Len(y.rbuf) = a + Len(r.got)
    <3>1. y.pos = x.pos
      BY <2>4
    <3> QED BY ONLY <1>8, <2>0, <2>nl, <3>1
  <2> QED BY <2>4, <2>5, <2>8, <2>9 DEF EofOK
<1>12. ASSUME missing > 0, missing <= Ahead(x), r.got = SubSeq(all, 1, n),
              NEW k \in 0..Min({BufSize - 1, Ahead(x) - missing}),
              y = [x EXCEPT !.pos = @ + missing + k, !.rbuf = SubSeq(all, n + 1, n + k)]
       PROVE  /\ y.file = f /\ y.pos - Len(y.rbuf) = a + Len(r.got) /\ EofOK(y)
              /\ r.got = Following(f, a, n)
  <2> DEFINE b == SubSeq(all, n + 1, n + k)
             p == x.pos + missing + k
             c == SubSeq(all, 1, n)
  <2>z. missing > 0 /\ missing <= Ahead(x) /\ r.got = c
    BY <1>12
  <2> HIDE DEF c
  <2>0. missing > 0 /\ missing <= Ahead(x) /\ Len(all) \in Nat /\ n \in Nat /\ missing = n - have
    BY ONLY <1>8, <1>9, <2>z, n \in Nat \ {0}
  <2>1. k \in Nat /\ k <= BufSize - 1 /\ k <= Ahead(x) - missing
    <3>1. BufSize - 1 \in Int /\ Ahead(x) - missing \in Int
      BY <1>8
    <3> QED BY <3>1, UpToBoth
  <2>2. /\ n + 1 \in Nat \ {0} /\ n + k \in 0..Len(all) /\ n + 1 <= (n + k) + 1 /\ (n + k) - (n + 1) + 1 = k
        /\ 1 \in Nat \ {0} /\ n \in 0..Len(all) /\ 1 <= n + 1 /\ n - 1 + 1 = n
    BY ONLY <1>8, <1>9, <2>0, <2>1
  <2>3. b \in Seq(Bytes) /\ Len(b) = (n + k) - (n + 1) + 1
    <3>1. PICK m \in 0..Len(all), q \in Nat \ {0} : m = n + k /\ q = n + 1 /\ q <= m + 1
      BY <2>2
    <3>2. SubSeq(all, q, m) \in Seq(Bytes) /\ Len(SubSeq(all, q, m)) = m - q + 1
      BY ONLY <1>2, <3>1, PartFacts
    <3> QED BY <3>1, <3>2
  <2>4c. c \in Seq(Bytes) /\ Len(c) = n - 1 + 1 /\ \A i \in 1..(n - 1 + 1) : c[i] = all[1 + i - 1]
    BY ONLY <1>2, <2>2, PartFacts DEF c
  <2>4. r.got \in Seq(Bytes) /\ Len(r.got) = n - 1 + 1 /\ \A i \in 1..(n - 1 + 1) : r.got[i] = all[1 + i - 1]
    BY ONLY <2>4c, <2>z
  <2> HIDE DEF b
  <2>5. p \in Nat
    BY ONLY <1>8, <2>0, <2>1 DEF p
  <2>nl. Len(r.got) = n /\ Len(b) = k
    BY ONLY <2>2, <2>3, <2>4
  <2> HIDE DEF p
  <2>6. y = [x EXCEPT !.pos = p, !.rbuf = b]
    BY <1>12 DEF p, b
  <2>7. y.file = f /\ y.pos = p /\ y.rbuf = b /\ (y.eof <=> x.eof)
    BY ONLY <1>1, <2>6 DEF IoType, f
  <2>8. ~x.eof
    BY ONLY <1>8, <1>10, <2>0
  <2>9. \A i \in 1..Len(r.got) : r.got[i] = f[a + i]
    <3> SUFFICES ASSUME NEW i \in 1..Len(r.got) PROVE r.got[i] = f[a + i]
      OBVIOUS
    <3>1. i \in 1..(n - 1 + 1) /\ 1 + i - 1 = i /\ i \in 1..Len(all) /\ x.pos - have + i = a + i
      BY ONLY <1>8, <2>0, <2>2, <2>nl, i \in 1..Len(r.got)
    <3> QED BY <1>2, <2>4, <3>1
  <2>10. Len(r.got) = (IF a + n <= Len(f) THEN n ELSE Len(f) - a)
    BY ONLY <1>8, <2>0, <2>nl
  <2>11. r.got = Following(f, a, n)
    BY <1>1, <1>3, <2>4, <2>9, <2>10, FollowingFacts
  <2>12. y.pos - Len(y.rbuf) = a + Len(r.got)
    BY ONLY <1>8, <2>0, <2>1, <2>nl, <2>7 DEF p
  <2> QED BY <2>7, <2>8, <2>11, <2>12 DEF EofOK
<1>13. CASE /\ missing > 0 /\ missing > Ahead(x) /\ r.got = all
            /\ y = [x EXCEPT !.pos = @ + Ahead(x), !.rbuf = << >>, !.eof = TRUE]
  <2>1. y.file = f /\ y.pos = x.pos + Ahead(x) /\ y.rbuf = << >> /\ Len(<< >>) = 0
    BY <1>1, <1>13 DEF IoType, f
  <2>2. y.pos = Len(f) /\ y.pos - Len(y.rbuf) = a + Len(all) /\ y.pos - Len(y.rbuf) = Len(f)
    <3>1. y.pos = x.pos + Ahead(x) /\ Len(y.rbuf) = 0
      BY <2>1
    <3>2. x.pos + Ahead(x) = Len(f) /\ a + Len(all) = Len(f) /\ Len(f) - 0 = Len(f)
      <4>1. x.pos + Ahead(x) = Len(f)
        BY ONLY <1>8
      <4>2. \A q, h, g, l \in Nat : q + g = l => (q - h) + (h + g) = l /\ l - 0 = l
        OBVIOUS
      <4>3. (x.pos - have) + (have + Ahead(x)) = Len(f) /\ Len(f) - 0 = Len(f)
        <5>1. x.pos \in Nat /\ have \in Nat /\ Ahead(x) \in Nat /\ Len(f) \in Nat
          BY <1>8
        <5> QED BY ONLY <4>1, <4>2, <5>1
      <4>4. a = x.pos - have
        BY <1>8
      <4> QED BY ONLY <1>9, <4>1, <4>3, <4>4
    <3> QED BY ONLY <3>1, <3>2
  <2>3. EofOK(y)
    BY <1>5, <2>1, <2>2 DEF EofOK
  <2>4. Len(all) = (IF a + n <= Len(f) THEN n ELSE Len(f) - a)
    <3>1. missing > 0 /\ missing > Ahead(x)
      BY <1>13
    <3> QED BY ONLY <1>8, <1>9, <3>1, n \in Nat \ {0}
  <2>5. \A i \in 1..Len(all) : all[i] = f[a + i]
    BY <1>2, <1>8
  <2>6. all = Following(f, a, n)
    BY <1>1, <1>2, <1>3, <2>4, <2>5, FollowingFacts
  <2> QED BY <1>13, <2>1, <2>2, <2>3, <2>6
<1>14. ASSUME NEW w, w.err, y = w PROVE FALSE
  BY <1>7, <1>14
<1>15. ~(\E k : y = Fault([x EXCEPT !.pos = @ + k, !.rbuf = << >>]))
  BY <1>1, <1>14 DEF Fault, IoType
<1>16. ~(y = Error([x EXCEPT !.rbuf = << >>]))
  BY <1>1, <1>14 DEF Error, IoType
<1> QED BY <1>6, <1>11, <1>12, <1>13, <1>15, <1>16

(* A stream that is only looked at returns what it held.                   *)
LEMMA ReadsSame ==
  ASSUME NEW x \in Io, NEW y \in Io, Same(x, y), NEW n, NEW r, Reads(y, n, r)
  PROVE  Reads(x, n, r)
BY DEF Reads, Same

(* fread, and fgetc, which reads no further after the end of the file.     *)
LEMMA FreadSame ==
  ASSUME NEW x \in Reading, EofOK(x), NEW n \in Nat \ {0}, NEW r,
         r \in fread(x, n) \/ (n = 1 /\ r \in fgetc(x)), ~r.io.err
  PROVE  ~x.err /\ Reads(x, n, r)
<1>1. x \in Io /\ (x.ok \/ x.err)
  BY DEF Reading
<1>2. ~x.err
  BY DEF fread, fgetc, Nothing
<1>3. PICK y \in __stdio_flush_wbuf(x) :
        \/ y.ok /\ r \in ReadBytes(y, n)
        \/ y.ok /\ y.rbuf = << >> /\ y.eof /\ r \in Nothing(y)
        \/ ~y.ok /\ r \in Nothing(y)
  BY <1>2 DEF fread, fgetc
<1>4. y \in Io /\ (y.ok \/ y.err)
  BY <1>1, <1>2, FlushFacts
<1>5. y.ok
  BY <1>3, <1>4 DEF Nothing
<1>6. y.wbuf = << >> /\ Same(x, y) /\ EofOK(y)
  BY <1>1, <1>2, <1>5, FlushSame DEF Same
<1>7. CASE r \in ReadBytes(y, n)
  BY <1>1, <1>2, <1>4, <1>5, <1>6, <1>7, ReadBytesSame, ReadsSame
<1>8. CASE y.rbuf = << >> /\ y.eof /\ r \in Nothing(y)
  <2>1. r.io = y /\ r.got = << >> /\ Place(y) = Len(Whole(y))
    BY <1>6, <1>8 DEF Nothing, EofOK
  <2>2. Whole(y) \in Seq(Bytes) /\ Len(Whole(y)) \in Nat /\ << >> \in Seq(Bytes) /\ Len(<< >>) = 0
    BY <1>4, WholeFacts
  <2>3. << >> = Following(Whole(y), Len(Whole(y)), n)
    <3> DEFINE f == Whole(y)
               l == Len(f)
    <3>1. l \in 0..l /\ (IF l + n <= l THEN n ELSE l - l) = 0 /\ 1..0 = {}
      BY ONLY <2>2, n \in Nat \ {0}
    <3>2. f \in Seq(Bytes) /\ << >> \in Seq(Bytes) /\ Len(<< >>) = 0 /\ n \in Nat
      BY <2>2
    <3>3. \A e \in Seq(Bytes) : Len(e) = 0 => e = Following(f, l, n)
      <4> SUFFICES ASSUME NEW e \in Seq(Bytes), Len(e) = 0 PROVE e = Following(f, l, n)
        OBVIOUS
      <4> HIDE DEF f
      <4>1. /\ l \in 0..Len(f) /\ Len(e) = (IF l + n <= Len(f) THEN n ELSE Len(f) - l)
            /\ \A i \in 1..Len(e) : e[i] = f[l + i]
        BY <3>1
      <4> QED BY ONLY <3>2, <4>1, e \in Seq(Bytes), FollowingFacts
    <3> QED BY <3>2, <3>3
  <2>4. Place(y) = Place(y) + Len(r.got)
    BY <2>1, <2>2
  <2>5. Reads(y, n, r)
    BY <1>6, <2>1, <2>3, <2>4 DEF Reads
  <2> QED BY <1>1, <1>2, <1>4, <1>6, <2>5, ReadsSame
<1> QED BY <1>3, <1>5, <1>7, <1>8

(* The two modules mean the same by the least of a set.                    *)
LEMMA SameMin ==
  \A N : BS!Min(N) = Min(N)
BY DEF BS!Min, Min

(* A line that is known to be one.                                         *)
LEMMA LineOfFacts ==
  ASSUME NEW w \in Seq(Bytes), NEW g \in Seq(Bytes), Len(g) <= Len(w),
         \A i \in 1..Len(g) : g[i] = w[i],
         \A i \in 1..Len(g) : i < Len(g) => g[i] # NL,
         Len(g) = Len(w) \/ (Len(g) > 0 /\ g[Len(g)] = NL)
  PROVE  g = BS!LineOf(w)
<1> DEFINE m == Len(g)
           N == BS!Newlines(w)
<1>1. m \in Nat /\ Len(w) \in Nat /\ m <= Len(w)
  BY LenProperties
<1>2. DOMAIN w = 1..Len(w)
  BY LenProperties
<1>3. N = {i \in 1..Len(w) : w[i] = NL}
  BY <1>2 DEF BS!Newlines
<1> HIDE DEF N
<1>4. \A i \in N : i >= m
  <2> SUFFICES ASSUME NEW i \in N, i < m PROVE FALSE
    BY <1>1, <1>3
  <2>1. i \in 1..m /\ w[i] = NL
    BY <1>1, <1>3
  <2> QED BY <2>1
<1>5. CASE m > 0 /\ g[m] = NL
  <2>1. m \in N
    BY <1>1, <1>3, <1>5
  <2>2. Min(N) = m
    <3>1. \A i \in N : i \in Nat
      BY <1>1, <1>3
    <3>2. \E a \in N : \A b \in N : a <= b
      BY <1>4, <2>1, <3>1
    <3>3. Min(N) \in N /\ \A b \in N : Min(N) <= b
      BY <3>2 DEF Min
    <3> QED BY <1>1, <1>4, <2>1, <3>1, <3>3
  <2> DEFINE h == SubSeq(w, 1, m)
  <2>3. h \in Seq(Bytes) /\ Len(h) = m - 1 + 1 /\ \A i \in 1..(m - 1 + 1) : h[i] = w[1 + i - 1]
    <3>1. m \in 0..Len(w) /\ 1 \in Nat \ {0} /\ 1 <= m + 1
      BY <1>1
    <3> HIDE DEF m
    <3> QED BY <3>1, PartFacts
  <2> HIDE DEF h
  <2>4. Len(h) = m /\ \A i \in 1..m : h[i] = w[i]
    BY <1>1, <2>3
  <2>5. g = h
    BY <2>3, <2>4, SeqEqual
  <2>6. BS!Min(N) = m /\ N # {}
    BY <2>1, <2>2, SameMin
  <2> QED BY <2>5, <2>6 DEF BS!LineOf, N, h
<1>6. CASE ~(m > 0 /\ g[m] = NL)
  <2>1. m = Len(w)
    BY <1>6
  <2>2. N = {}
    <3> SUFFICES ASSUME NEW i \in N PROVE FALSE
      OBVIOUS
    <3>1. i = m /\ m > 0 /\ w[i] = NL /\ m \in 1..m
      BY <1>1, <1>3, <1>4, <2>1
    <3> QED BY <1>6, <3>1
  <2>3. g = w
    BY <2>1, SeqEqual
  <2> QED BY <2>2, <2>3 DEF BS!LineOf, N
<1> QED BY <1>5, <1>6

(* What fgets and getdelim have after i rounds, from position a of f: the  *)
(* bytes of f from there, i of them unless a newline or the end came       *)
(* before, and no newline but the last.                                    *)
LineSoFar(f, a, i, q) ==
  LET m == Len(q.got) IN
  /\ Whole(q.io) = f /\ Place(q.io) = a + m /\ EofOK(q.io)
  /\ m <= i /\ a + m <= Len(f)
  /\ \A j \in 1..m : q.got[j] = f[a + j] /\ (j < m => q.got[j] # NL)
  /\ m < i => a + m = Len(f) \/ (m > 0 /\ q.got[m] = NL)

(* A round that reads adds the next byte, or meets the end.                *)
LEMMA LineStep ==
  ASSUME NEW f \in Seq(Bytes), NEW a \in 0..Len(f), NEW i \in Nat \ {0}, NEW q \in Lines,
         LineSoFar(f, a, i - 1, q), Len(q.got) = i - 1,
         Len(q.got) = 0 \/ q.got[Len(q.got)] # NL,
         NEW by_fread, NEW c, c \in GetByte(q.io, by_fread), ~c.io.err
  PROVE  ~q.io.err /\ LineSoFar(f, a, i, [io |-> c.io, got |-> q.got \o c.got])
<1> DEFINE m == Len(q.got)
           w == Following(f, a + m, 1)
           g == q.got \o c.got
<1>1. q.io \in Reading /\ q.got \in Seq(Bytes)
  BY DEF Lines
<1>2. Len(f) \in Nat /\ a \in Nat /\ m \in Nat /\ a + m <= Len(f) /\ m = i - 1 /\ a + m \in 0..Len(f)
  <2>1. a + m <= Len(f)
    BY DEF LineSoFar
  <2>2. Len(f) \in Nat /\ m \in Nat
    BY <1>1, LenProperties
  <2> QED BY <2>1, <2>2
<1>3. Whole(q.io) = f /\ Place(q.io) = a + m /\ EofOK(q.io)
  BY DEF LineSoFar
<1>4. ~q.io.err /\ Reads(q.io, 1, c)
  <2>1. c \in fread(q.io, 1) \/ c \in fgetc(q.io)
    BY DEF GetByte
  <2>2. 1 \in Nat \ {0}
    OBVIOUS
  <2> QED BY <1>1, <1>3, <2>1, <2>2, FreadSame
<1>5. /\ Whole(c.io) = f /\ Place(c.io) = a + m + Len(c.got) /\ EofOK(c.io)
      /\ c.got = w
  BY <1>3, <1>4 DEF Reads
<1>6. /\ w \in Seq(Bytes) /\ Len(w) = (IF a + m + 1 <= Len(f) THEN 1 ELSE Len(f) - (a + m))
      /\ \A j \in 1..Len(w) : w[j] = f[a + m + j]
  <2>1. 1 \in Nat
    OBVIOUS
  <2> HIDE DEF m
  <2> QED BY ONLY <1>2, <2>1, f \in Seq(Bytes), FollowingBytes DEF w
<1> HIDE DEF w
<1>7. Len(w) = (IF a + m + 1 <= Len(f) THEN 1 ELSE 0) /\ Len(w) \in Nat
  <2>1. Len(w) = (IF a + m + 1 <= Len(f) THEN 1 ELSE Len(f) - (a + m))
    BY <1>6
  <2> HIDE DEF m
  <2> QED BY ONLY <1>2, <2>1
<1>8. /\ g \in Seq(Bytes) /\ Len(g) = m + Len(w)
      /\ \A j \in 1..m : g[j] = q.got[j]
      /\ \A j \in (m + 1)..(m + Len(w)) : g[j] = w[j - m]
  <2>1. g \in Seq(Bytes) /\ Len(g) = m + Len(w)
    <3>1. q.got \in Seq(Bytes) /\ w \in Seq(Bytes) /\ g = q.got \o w
      BY <1>1, <1>5, <1>6
    <3> HIDE DEF g
    <3> QED BY ONLY <3>1, ConcatProperties
  <2>2. \A j \in 1..(m + Len(w)) : g[j] = IF j <= m THEN q.got[j] ELSE w[j - m]
    BY <1>1, <1>5, <1>6, ConcatProperties
  <2> HIDE DEF g, m
  <2> QED BY <1>2, <1>7, <2>1, <2>2
<1>9. \A j \in 1..m : q.got[j] = f[a + j] /\ q.got[j] # NL
  <2>1. \A j \in 1..m : q.got[j] = f[a + j] /\ (j < m => q.got[j] # NL)
    BY DEF LineSoFar
  <2> SUFFICES ASSUME NEW j \in 1..m PROVE q.got[j] # NL
    BY <2>1
  <2>2. j < m \/ (j = m /\ m # 0)
    BY <1>2
  <2> QED BY <2>1, <2>2
<1> HIDE DEF g
<1>10. \A j \in 1..Len(g) : g[j] = f[a + j] /\ (j < Len(g) => g[j] # NL)
  <2> SUFFICES ASSUME NEW j \in 1..Len(g) PROVE g[j] = f[a + j] /\ (j < Len(g) => g[j] # NL)
    OBVIOUS
  <2>1. j \in 1..m \/ (j \in (m + 1)..(m + Len(w)) /\ j - m \in 1..Len(w) /\ a + m + (j - m) = a + j /\ ~(j < Len(g)))
    <3>1. Len(g) = m + Len(w)
      BY <1>8
    <3> HIDE DEF m
    <3> QED BY ONLY <1>2, <1>7, <3>1, j \in 1..Len(g)
  <2> QED BY <1>6, <1>8, <1>9, <2>1
<1>11. /\ Place(c.io) = a + Len(g) /\ Len(g) <= i /\ a + Len(g) <= Len(f)
       /\ Len(g) < i => a + Len(g) = Len(f)
  <2>1. Len(g) = m + Len(w) /\ Place(c.io) = a + m + Len(w)
    BY <1>5, <1>8
  <2> HIDE DEF m
  <2> QED BY ONLY <1>2, <1>7, <2>1, i \in Nat \ {0}
<1>12. \A e : e.io = c.io /\ e.got = g => LineSoFar(f, a, i, e)
  BY <1>5, <1>10, <1>11 DEF LineSoFar
<1> QED BY <1>4, <1>12 DEF g

(* fgets and getdelim return the next line, or as much as they have room   *)
(* for.                                                                    *)
LEMMA GetLineSame ==
  ASSUME NEW x \in Reading, x.ok, EofOK(x), NEW n \in Nat, NEW by_fread
  PROVE  \A r \in GetLine(x, n, by_fread) : ~r.io.err =>
           /\ Whole(r.io) = Whole(x) /\ Place(r.io) = Place(x) + Len(r.got) /\ EofOK(r.io)
           /\ r.got = BS!LineOf(Following(Whole(x), Place(x), n))
<1> DEFINE f == Whole(x)
           a == Place(x)
<1>1. x \in Io /\ x.ok
  BY DEF Reading
<1>2. f \in Seq(Bytes) /\ Len(f) \in Nat /\ a \in 0..Len(f) /\ a \in Nat /\ a + 0 = a
  <2>1. f \in Seq(Bytes) /\ Len(f) \in Nat /\ a \in 0..Len(f)
    BY <1>1, WholeFacts
  <2> HIDE DEF f, a
  <2> QED BY <2>1
<1>3. PICK g : /\ g[0] = Nothing(x) /\ \A i \in 1..n : g[i] = Round(i, g[i - 1], by_fread)
               /\ \A i \in 0..n : g[i] \subseteq Lines
               /\ \A r \in GetLine(x, n, by_fread) : \E q \in g[n] :
                     r = IF q.io.ok THEN q ELSE [q EXCEPT !.got = << >>]
  BY GetLineLoop
<1> DEFINE Good(i) == \A q \in g[i] : ~q.io.err => LineSoFar(f, a, i, q)
           P == {i \in Nat : i <= n => Good(i)}
<1>4. Good(0)
  <2> SUFFICES ASSUME NEW q \in g[0] PROVE LineSoFar(f, a, 0, q)
    OBVIOUS
  <2>1. q.io = x /\ q.got = << >> /\ Len(<< >>) = 0 /\ 1..0 = {}
    BY <1>3 DEF Nothing
  <2> HIDE DEF f, a
  <2>2. Whole(q.io) = f /\ Place(q.io) = a + 0 /\ a + 0 <= Len(f)
    BY <1>2, <2>1 DEF f, a
  <2> QED BY <2>1, <2>2 DEF LineSoFar
<1> HIDE DEF f, a
<1>5. ASSUME NEW k \in Nat, k + 1 <= n, Good(k) PROVE Good(k + 1)
  <2> DEFINE i == k + 1
  <2>1. i \in 1..n /\ i - 1 = k /\ i \in Nat \ {0} /\ k \in 0..n /\ g[i] = Round(i, g[k], by_fread)
    <3>1. k + 1 \in 1..n /\ (k + 1) - 1 = k /\ k + 1 \in Nat \ {0} /\ k \in 0..n
      BY <1>5
    <3> QED BY <1>3, <3>1
  <2> HIDE DEF i
  <2> SUFFICES ASSUME NEW e \in g[i], ~e.io.err PROVE LineSoFar(f, a, i, e)
    BY DEF i
  <2>2. PICK q \in g[k] :
          \/ /\ Len(q.got) = i - 1 /\ (Len(q.got) = 0 \/ Last(q.got) # NL)
             /\ \E c \in GetByte(q.io, by_fread) : e = [io |-> c.io, got |-> q.got \o c.got]
          \/ ~(Len(q.got) = i - 1 /\ (Len(q.got) = 0 \/ Last(q.got) # NL)) /\ e = q
    <3>1. e \in Round(i, g[k], by_fread)
      BY <2>1
    <3>2. PICK q \in g[k] :
            e \in IF Len(q.got) = i - 1 /\ (Len(q.got) = 0 \/ Last(q.got) # NL)
                  THEN {[io |-> p.io, got |-> q.got \o p.got] : p \in GetByte(q.io, by_fread)}
                  ELSE {q}
      BY ONLY <3>1 DEF Round
    <3>3. CASE Len(q.got) = i - 1 /\ (Len(q.got) = 0 \/ Last(q.got) # NL)
      BY <3>2, <3>3
    <3>4. CASE ~(Len(q.got) = i - 1 /\ (Len(q.got) = 0 \/ Last(q.got) # NL))
      BY <3>2, <3>4
    <3> QED BY <3>3, <3>4
  <2>3. q \in Lines /\ (~q.io.err => LineSoFar(f, a, k, q))
    BY <1>3, <1>5, <2>1
  <2>4. ASSUME Len(q.got) = i - 1, Len(q.got) = 0 \/ Last(q.got) # NL,
               NEW c \in GetByte(q.io, by_fread), e = [io |-> c.io, got |-> q.got \o c.got]
        PROVE  LineSoFar(f, a, i, e)
    <3>1. ~c.io.err /\ (Len(q.got) = 0 \/ q.got[Len(q.got)] # NL)
      BY <2>4 DEF Last
    <3>2. ~q.io.err
      <4>1. q.io.err => c.io = q.io
        BY DEF GetByte, fread, fgetc, Nothing
      <4> QED BY <3>1, <4>1
    <3> QED BY ONLY <1>2, <2>1, <2>3, <2>4, <3>1, <3>2, LineStep
  <2>5. CASE ~(Len(q.got) = i - 1 /\ (Len(q.got) = 0 \/ Last(q.got) # NL)) /\ e = q
    <3>1. LineSoFar(f, a, k, q) /\ e = q
      BY <2>3, <2>5
    <3>2. Len(q.got) \in Nat
      BY <2>3, LenProperties DEF Lines
    <3> DEFINE m == Len(q.got)
    <3>3. m <= i /\ (m < i => m < k \/ (m = k /\ m > 0 /\ q.got[m] = NL))
      <4>1. m <= k
        BY <3>1 DEF LineSoFar
      <4>2. ~(m = k /\ (m = 0 \/ q.got[m] # NL))
        BY <2>1, <2>5 DEF Last
      <4> HIDE DEF m
      <4>3. m \in Nat
        BY <3>2 DEF m
      <4>4. m <= i /\ (m < i => m <= k)
        BY ONLY <2>1, <4>1, <4>3, k \in Nat
      <4>5. m < k \/ (m = k /\ m > 0) \/ (m = k /\ m = 0)
        BY ONLY <4>1, <4>3, k \in Nat
      <4> QED BY <4>2, <4>4, <4>5
    <3> QED BY <3>1, <3>3 DEF LineSoFar
  <2> QED BY <2>2, <2>4, <2>5
<1>6. Good(n)
  <2> HIDE DEF Good
  <2>1. P = Nat
    <3>1. P \in SUBSET Nat /\ 0 \in P
      BY <1>4
    <3>2. ASSUME NEW k \in P PROVE k + 1 \in P
      <4>1. k \in Nat /\ (k + 1 <= n => k <= n)
        OBVIOUS
      <4> QED BY <1>5, <4>1
    <3> HIDE DEF P
    <3> QED BY <3>1, <3>2, Induction
  <2>2. n \in P /\ n <= n
    BY <2>1
  <2> QED BY <2>2
<1> SUFFICES ASSUME NEW r \in GetLine(x, n, by_fread), ~r.io.err
             PROVE  /\ Whole(r.io) = f /\ Place(r.io) = a + Len(r.got) /\ EofOK(r.io)
                    /\ r.got = BS!LineOf(Following(f, a, n))
  BY DEF f, a
<1>7. PICK q \in g[n] : r = IF q.io.ok THEN q ELSE [q EXCEPT !.got = << >>]
  BY <1>3
<1>8. q \in Lines /\ n \in 0..n
  BY <1>3
<1>9. r = q /\ LineSoFar(f, a, n, q)
  <2>1. q.io \in Reading /\ r.io = q.io
    BY <1>7, <1>8 DEF Lines
  <2>2. q.io.ok
    BY <2>1 DEF Reading
  <2> QED BY <1>6, <1>7, <2>1, <2>2
<1> DEFINE m == Len(q.got)
           w == Following(f, a, n)
<1>10. m \in Nat /\ q.got \in Seq(Bytes)
  BY <1>8, LenProperties DEF Lines
<1>11. w \in Seq(Bytes) /\ Len(w) = (IF a + n <= Len(f) THEN n ELSE Len(f) - a)
       /\ \A i \in 1..Len(w) : w[i] = f[a + i]
  BY <1>2, FollowingBytes
<1> HIDE DEF w
<1>12. /\ m <= n /\ a + m <= Len(f)
       /\ \A j \in 1..m : q.got[j] = f[a + j] /\ (j < m => q.got[j] # NL)
       /\ m < n => a + m = Len(f) \/ (m > 0 /\ q.got[m] = NL)
  BY <1>9 DEF LineSoFar
<1>13. m <= Len(w) /\ (m = Len(w) \/ (m > 0 /\ q.got[m] = NL))
  <2> HIDE DEF m
  <2>1. Len(w) = (IF a + n <= Len(f) THEN n ELSE Len(f) - a) /\ m \in Nat
    BY <1>10, <1>11
  <2>2. m <= n /\ a + m <= Len(f) /\ (m < n => a + m = Len(f) \/ (m > 0 /\ q.got[m] = NL))
    BY <1>12
  <2> QED BY ONLY <1>2, <2>1, <2>2, n \in Nat
<1>14. \A i \in 1..m : i \in 1..Len(w)
  <2> HIDE DEF m
  <2>1. Len(w) \in Nat
    BY <1>11, LenProperties
  <2> QED BY <1>10, <1>13, <2>1
<1>15. q.got = BS!LineOf(w)
  <2>1. \A i \in 1..m : q.got[i] = w[i] /\ (i < m => q.got[i] # NL)
    BY <1>11, <1>12, <1>14
  <2> QED BY <1>10, <1>11, <1>13, <2>1, LineOfFacts
<1> QED BY <1>9, <1>15 DEF LineSoFar, w

(* The position fseek counts from.                                         *)
Base(x, whence) ==
  CASE whence = "SET" -> 0 [] whence = "CUR" -> Place(x) [] whence = "END" -> Len(Whole(x))

(* fseek moves to where it was asked to, or stays.                         *)
LEMMA FseekSame ==
  ASSUME NEW x \in Io, x.ok, NEW whence \in {"SET", "CUR", "END"}, NEW offset \in Int,
         EofOK(x), NEW y \in fseek(x, whence, offset), ~y.err
  PROVE  /\ EofOK(y) /\ Whole(y) = Whole(x)
         /\ \/ y.ok /\ Place(y) = Base(x, whence) + offset
            \/ ~y.ok /\ Place(y) = Place(x)
<1>1. PICK z \in fflush(x) :
        y = IF ~z.ok \/ Lseek(z, whence, offset) = {} THEN [z EXCEPT !.ok = FALSE]
            ELSE [z EXCEPT !.pos = CHOOSE p \in Lseek(z, whence, offset) : TRUE, !.eof = FALSE]
  BY DEF fseek
<1>2. z \in Io /\ z \in IoType /\ ((z.ok /\ z.wbuf = << >> /\ z.rbuf = << >>) \/ (~z.ok /\ z.err))
  BY <1>1, FflushFacts, IoFacts
<1>3. z.ok
  BY <1>1, <1>2 DEF IoType
<1>4. Whole(z) = Whole(x) /\ Place(z) = Place(x) /\ EofOK(z)
  BY <1>1, <1>3, FflushSame DEF Same
<1>5. Len(<< >>) = 0 /\ z.pos \in Nat /\ Len(z.file) \in Nat
  BY <1>2, IoFacts
<1>6. Whole(z) = z.file /\ Place(z) = z.pos
  <2>1. Whole(z) = z.file /\ Place(z) = z.pos - Len(z.rbuf)
    BY <1>2, <1>3, WholeFacts
  <2>2. z.pos - 0 = z.pos
    BY <1>5
  <2> QED BY <1>2, <1>3, <1>5, <2>1, <2>2
<1>7. CASE Lseek(z, whence, offset) = {}
  <2>1. y = [z EXCEPT !.ok = FALSE]
    BY <1>1, <1>7
  <2>2. /\ y.file = z.file /\ y.pos = z.pos /\ y.wbuf = z.wbuf /\ y.rbuf = z.rbuf /\ (y.eof <=> z.eof)
        /\ ~y.ok
    BY <1>2, <2>1 DEF IoType
  <2>3. Whole(y) = Whole(z) /\ Place(y) = Place(z)
    BY <2>2 DEF Whole, Place, WritePos
  <2> QED BY <1>4, <2>2, <2>3 DEF EofOK
<1>8. CASE Lseek(z, whence, offset) # {}
  <2> DEFINE p == CHOOSE p \in Lseek(z, whence, offset) : TRUE
             base == CASE whence = "SET" -> 0 [] whence = "CUR" -> z.pos [] whence = "END" -> Len(z.file)
  <2>1. p = base + offset /\ p \in 0..Len(z.file)
    <3>1. p \in Lseek(z, whence, offset)
      BY <1>8
    <3> HIDE DEF p
    <3> QED BY <3>1 DEF Lseek
  <2>2. base = Base(x, whence)
    BY <1>4, <1>6 DEF Base
  <2>3. y = [z EXCEPT !.pos = p, !.eof = FALSE]
    BY <1>1, <1>3, <1>8
  <2> HIDE DEF p, base
  <2>4. p \in Nat /\ p - 0 = p /\ p <= Len(z.file)
    BY <1>5, <2>1
  <2>5. y \in IoType /\ y.file = z.file /\ y.pos = p /\ y.wbuf = << >> /\ y.rbuf = << >> /\ ~y.eof /\ y.ok
    BY <1>2, <1>3, <2>3, <2>4 DEF IoType
  <2>6. Place(y) = p
    BY <1>5, <2>4, <2>5 DEF Place
  <2>7. y \in Io
    <3>1. Len(y.wbuf) = 0 /\ Len(y.rbuf) = 0 /\ BufSize \in Nat /\ y.pos <= Len(y.file) /\ y.pos \in Nat
      BY <1>5, <2>4, <2>5, StdioAssumption
    <3> QED BY <2>5, <3>1 DEF Io, Mirrors
  <2>8. Whole(y) = y.file
    BY <2>5, <2>7, WholeFacts
  <2> QED BY <1>4, <1>6, <2>1, <2>2, <2>5, <2>6, <2>8 DEF EofOK
<1> QED BY <1>7, <1>8

(* The same stream with other flags stands for the same bytes.             *)
LEMMA FlagsSame ==
  ASSUME NEW x, NEW y, y.file = x.file, y.pos = x.pos, y.wbuf = x.wbuf, y.rbuf = x.rbuf
  PROVE  Whole(y) = Whole(x) /\ Place(y) = Place(x)
BY DEF Whole, Place, WritePos

(* The descriptor stays what it is while the stream is open.               *)
LEMMA SameDescriptor ==
  ASSUME fd' = fd
  PROVE  /\ Whole(io)' = Whole(io') /\ Place(io)' = Place(io') /\ (EofOK(io)' <=> EofOK(io'))
         /\ Appends' = Appends
<1>1. Appends' = Appends /\ WritePos(io)' = WritePos(io')
  BY DEF Appends, WritePos
<1>2. Whole(io)' = Whole(io')
  BY <1>1 DEF Whole, Splice
<1>3. Place(io)' = Place(io')
  BY <1>1 DEF Place
<1> QED BY <1>1, <1>2, <1>3 DEF EofOK

(* What a call leaves, seen from outside.                                  *)
LEMMA ReturnSame ==
  ASSUME IInv, NEW x \in Io, NEW call, NEW arg, NEW val, Return(call, arg, val, x), fd' = fd
  PROVE  /\ Whole(io)' = Whole(x) /\ Place(io)' = Place(x) /\ (EofOK(io)' <=> EofOK(x))
         /\ Appends' = Appends
         /\ BS!Returns(call, arg, val)
         /\ (failed' <=> failed \/ x.err) /\ (~x.err => failed' = failed)
<1>1. io' = [x EXCEPT !.ok = TRUE] /\ x \in IoType /\ (failed' <=> failed \/ x.err)
  BY DEF Return, Io
<1>2. ~x.err => failed' = failed
  BY Zenon DEF Return, IInv
<1>3. /\ io'.file = x.file /\ io'.pos = x.pos /\ io'.wbuf = x.wbuf /\ io'.rbuf = x.rbuf
      /\ (io'.eof <=> x.eof)
  BY <1>1 DEF IoType
<1>4. Whole(io') = Whole(x) /\ Place(io') = Place(x)
  BY <1>3, FlagsSame
<1>5. EofOK(io') <=> EofOK(x)
  BY <1>3, <1>4 DEF EofOK
<1>6. BS!Returns(call, arg, val)
  BY DEF Return, BS!Returns
<1> QED BY <1>1, <1>2, <1>4, <1>5, <1>6, SameDescriptor

(* The two modules write bytes over a file the same way.                   *)
LEMMA SameSplice ==
  ASSUME NEW f, NEW p, NEW s
  PROVE  BS!Splice(f, p, s) = Splice(f, p, s)
BY DEF BS!Splice, Splice, BS!Max, Max

(* A call maps to a step of the file, if what it leaves and returns does   *)
(* so as long as no error is met.                                          *)
LEMMA CallSame ==
  ASSUME RInv, IInv', NEW x \in Io, NEW call, NEW arg, NEW val, Return(call, arg, val, x),
         fd' = fd, state' # "none",
         ~failed /\ ~x.err => EofOK(x),
         ~failed /\ ~x.err /\ Whole(io)' = Whole(x) /\ Place(io)' = Place(x) /\ BS!Returns(call, arg, val)
           => BS!Works
  PROVE  RInv' /\ BS!Next
<1>1. /\ Whole(io)' = Whole(x) /\ Place(io)' = Place(x) /\ (EofOK(io)' <=> EofOK(x))
      /\ Appends' = Appends
      /\ BS!Returns(call, arg, val)
      /\ (failed' <=> failed \/ x.err) /\ (~x.err => failed' = failed)
  BY ReturnSame DEF RInv
<1>2. RInv'
  BY <1>1 DEF RInv
<1>3. Appends' = Appends /\ (failed \/ failed' \/ (BS!Works /\ failed' = failed))
  BY <1>1
<1>4. BS!Next
  BY ONLY <1>3 DEF BS!Next
<1> QED BY <1>2, <1>4

(* fwrite writes to the file.                                              *)
LEMMA FwriteStep ==
  ASSUME RInv, IInv', NEW s \in Chunks, Fwrite(s)
  PROVE  RInv' /\ BS!Next
<1>1. io \in Io /\ io.ok /\ Clean(io) /\ (~failed => EofOK(io)) /\ s \in Seq(Bytes)
  BY StdioAssumption DEF RInv, IInv, LinesFlushed, Clean, NoNewline
<1>2. PICK x \in __stdio_file_write(io, s) : Return("fwrite", s, IF x.ok THEN Len(s) ELSE 0, x)
  BY DEF Fwrite
<1>3. x \in Io
  BY <1>1, <1>2, FileWriteFacts
<1>4. fd' = fd /\ state' # "none"
  BY DEF Fwrite, Open
<1>5. ASSUME ~failed, ~x.err
      PROVE  /\ x.ok /\ EofOK(x) /\ Whole(x) = Splice(Whole(io), NextAt(io), s)
             /\ Place(x) = IF s = << >> THEN Place(io) ELSE NextAt(io) + Len(s)
  BY <1>1, <1>2, <1>5, FileWriteSame
<1>6. ASSUME ~failed, ~x.err, Whole(io)' = Whole(x), Place(io)' = Place(x),
             BS!Returns("fwrite", s, IF x.ok THEN Len(s) ELSE 0)
      PROVE  BS!Works
  <2>1. BS!Returns("fwrite", s, Len(s))
    BY <1>5, <1>6
  <2>2. NextAt(io) = IF Appends THEN Len(Whole(io)) ELSE Place(io)
    BY DEF NextAt
  <2>3. BS!Write(s)
    BY <1>5, <1>6, <2>1, <2>2, SameSplice DEF BS!Write
  <2> QED BY <2>3 DEF BS!Works
<1> QED BY <1>2, <1>3, <1>4, <1>5, <1>6, CallSame

(* A read returns what follows in the file.                                *)
LEMMA ReadStep ==
  ASSUME RInv, IInv', NEW n \in Counts \cup {MaxLen + 1}, NEW r, r.io \in Reading,
         NEW call, Return(call, n, r.got, r.io), fd' = fd, state' # "none",
         ~failed /\ ~r.io.err =>
           /\ Whole(r.io) = Whole(io) /\ Place(r.io) = Place(io) + Len(r.got) /\ EofOK(r.io)
           /\ \/ call = "fread" /\ r.got = Following(Whole(io), Place(io), n)
              \/ call = "fgets" /\ r.got = BS!LineOf(Following(Whole(io), Place(io), n))
  PROVE  RInv' /\ BS!Next
<1>1. r.io \in Io
  BY DEF Reading
<1>2. BS!Following(n) = Following(Whole(io), Place(io), n)
  BY SameMin DEF BS!Following, Following
<1>3. ASSUME ~failed, ~r.io.err, Whole(io)' = Whole(r.io), Place(io)' = Place(r.io),
             BS!Returns(call, n, r.got)
      PROVE  BS!Works
  <2>1. BS!Read("fread", n, BS!Following(n)) \/ BS!Read("fgets", n, BS!LineOf(BS!Following(n)))
    BY <1>2, <1>3 DEF BS!Read
  <2> QED BY <2>1 DEF BS!Works
<1> QED BY <1>1, <1>3, CallSame

(* A call that moves nothing.                                              *)
LEMMA OtherStep ==
  ASSUME RInv, IInv', NEW x \in Io, Return("other", 0, 0, x), fd' = fd, state' # "none",
         ~failed /\ ~x.err => EofOK(x) /\ Whole(x) = Whole(io) /\ Place(x) = Place(io)
  PROVE  RInv' /\ BS!Next
<1>1. ASSUME ~failed, ~x.err, Whole(io)' = Whole(x), Place(io)' = Place(x), BS!Returns("other", 0, 0)
      PROVE  BS!Works
  <2>1. BS!Other
    BY <1>1 DEF BS!Other
  <2> QED BY <2>1 DEF BS!Works
<1> QED BY <1>1, CallSame

(* fseek and rewind.                                                       *)
LEMMA SeekStep ==
  ASSUME RInv, IInv', NEW y \in Io, y.ok, ~failed => EofOK(y),
         Whole(y) = Whole(io), Place(y) = Place(io),
         NEW whence \in {"SET", "CUR", "END"}, NEW offset \in Offsets \cup {0},
         NEW x \in fseek(y, whence, offset),
         Return("fseek", <<whence, offset>>, IF x.ok THEN 0 ELSE -1, x), fd' = fd, state' # "none"
  PROVE  RInv' /\ BS!Next
<1>1. x \in Io /\ offset \in Int
  BY FseekFacts, StdioAssumption
<1>2. ASSUME ~failed, ~x.err
      PROVE  /\ EofOK(x) /\ Whole(x) = Whole(y)
             /\ \/ x.ok /\ Place(x) = Base(y, whence) + offset
                \/ ~x.ok /\ Place(x) = Place(y)
  BY <1>1, <1>2, FseekSame
<1>3. ASSUME ~failed, ~x.err, Whole(io)' = Whole(x), Place(io)' = Place(x),
             BS!Returns("fseek", <<whence, offset>>, IF x.ok THEN 0 ELSE -1)
      PROVE  BS!Works
  <2> DEFINE base == CASE whence = "SET" -> 0 [] whence = "CUR" -> Place(io)
                       [] whence = "END" -> Len(Whole(io))
  <2>1. base = Base(y, whence)
    BY DEF Base
  <2> HIDE DEF base
  <2>2. Whole(io)' = Whole(io)
    BY <1>2, <1>3
  <2>3. \/ Place(io)' = base + offset /\ BS!Returns("fseek", <<whence, offset>>, 0)
        \/ Place(io)' = Place(io) /\ BS!Returns("fseek", <<whence, offset>>, -1)
    BY <1>2, <1>3, <2>1
  <2>4. BS!Seek(whence, offset)
    BY <2>2, <2>3 DEF BS!Seek, base
  <2> QED BY <2>4 DEF BS!Works
<1> QED BY <1>1, <1>2, <1>3, CallSame

(* fopen shows the file as it is, or empty.                                *)
LEMMA FopenStep ==
  ASSUME RInv, IInv', NEW mode \in Modes, Fopen(mode)
  PROVE  RInv' /\ BS!Next
<1>1. PICK file : /\ file \in {<< >>, io.file} /\ Return("fopen", 0, 0, Fresh(file)) /\ state' = "open"
                  /\ state = "none"
  BY DEF Fopen
<1>2. io \in Io /\ ret.call = "none" /\ io.pos = 0 /\ io.wbuf = << >> /\ io.rbuf = << >>
  BY <1>1 DEF RInv, IInv
<1>3. io.file \in Seq(Bytes) /\ file \in Seq(Bytes) /\ Len(<< >>) = 0 /\ 0 - 0 = 0 /\ 0 \in 0..Len(file)
      /\ Len(file) \in Nat /\ Len(file) \in 0..Len(file)
  <2>1. file \in Seq(Bytes) /\ io.file \in Seq(Bytes)
    BY <1>1, <1>2, IoFacts
  <2>2. Len(file) \in Nat
    BY <2>1, LenProperties
  <2> QED BY <2>1, <2>2
<1>4. Whole(io) = io.file /\ Place(io) = 0
  BY <1>2, <1>3, WholeFacts
<1>5. /\ io'.file = file /\ io'.pos = 0 /\ io'.wbuf = << >> /\ io'.rbuf = << >> /\ io'.eof = FALSE
  BY <1>1 DEF Return, Fresh
<1>6. Whole(io)' = file
  <2>1. WritePos(io)' \in {Len(file), 0}
    BY <1>5 DEF WritePos
  <2>2. WritePos(io)' \in 0..Len(file)
    BY <1>3, <2>1
  <2>3. Splice(io'.file, WritePos(io)', io'.wbuf) = file
    BY <1>3, <1>5, <2>2, SpliceNone
  <2> QED BY <2>3 DEF Whole, Splice
<1>7. Place(io)' = 0
  BY <1>3, <1>5 DEF Place
<1>8. failed' = failed /\ Appends' \in BOOLEAN
  <2>1. Fresh(file).err = FALSE
    BY DEF Fresh
  <2>2. failed' = (failed \/ Fresh(file).err)
    BY <1>1 DEF Return
  <2>3. failed' = failed
    BY Zenon, <2>1, <2>2 DEF RInv, IInv
  <2>4. Appends' \in BOOLEAN
    BY Zenon DEF Appends
  <2> QED BY <2>3, <2>4
<1>9. BS!Returns("fopen", 0, 0)
  BY <1>1 DEF Return, BS!Returns
<1>10. BS!Open
  BY <1>1, <1>2, <1>4, <1>6, <1>7, <1>8, <1>9 DEF BS!Open
<1>11. BS!Next
  BY <1>8, <1>10 DEF BS!Next
<1>12. RInv'
  BY <1>1, <1>5 DEF RInv, EofOK
<1> QED BY <1>11, <1>12

(* Every call of the program is one of the file, or changes nothing.       *)
LEMMA RefinementStep == RInv /\ [Next]_vars => RInv' /\ [BS!Next]_(BS!vars)
<1> SUFFICES ASSUME RInv, [Next]_vars PROVE RInv' /\ [BS!Next]_(BS!vars)
  OBVIOUS
<1>1. IInv'
  BY Step DEF RInv
<1>2. io \in Io /\ io.ok /\ io \in Reading /\ (~failed => EofOK(io))
  BY DEF RInv, IInv, LinesFlushed, Clean, NoNewline, Reading
<1>3. ASSUME NEW x \in fflush(io)
      PROVE  x \in Io /\ (x.ok \/ x.err) /\ (x.ok => x.rbuf = << >> /\ x.wbuf = << >>)
             /\ (~failed /\ ~x.err => EofOK(x) /\ Whole(x) = Whole(io) /\ Place(x) = Place(io))
  <2>1. x \in Io /\ ((x.ok /\ x.wbuf = << >> /\ x.rbuf = << >>) \/ (~x.ok /\ x.err))
    BY <1>2, FflushFacts
  <2> QED BY <1>2, <2>1, FflushSame DEF Same
<1>4. ASSUME NEW n \in Counts, Fread(n) PROVE RInv' /\ BS!Next
  <2>1. PICK r \in fread(io, n) : Return("fread", n, r.got, r.io)
    BY <1>4 DEF Fread
  <2>2. n \in Nat \ {0}
    BY StdioAssumption
  <2>3. r.io \in Reading
    BY <1>2, <2>1, <2>2, FreadFacts
  <2>4. fd' = fd /\ state' # "none"
    BY <1>4 DEF Fread, Open
  <2>5. ASSUME ~failed, ~r.io.err PROVE Reads(io, n, r)
    BY <1>2, <2>1, <2>2, <2>5, FreadSame
  <2> QED BY <1>1, <2>1, <2>3, <2>4, <2>5, ReadStep DEF Reads
<1>5. ASSUME NEW n \in Counts \cup {MaxLen + 1}, NEW by_fread, NEW r \in GetLine(io, n, by_fread),
             Return("fgets", n, r.got, r.io), fd' = fd, state' # "none"
      PROVE  RInv' /\ BS!Next
  <2>1. n \in Nat
    BY StdioAssumption
  <2>2. r.io \in Reading
    BY <1>2, <1>5, <2>1, GetLineFacts
  <2>3. ASSUME ~failed, ~r.io.err
        PROVE  /\ Whole(r.io) = Whole(io) /\ Place(r.io) = Place(io) + Len(r.got) /\ EofOK(r.io)
               /\ r.got = BS!LineOf(Following(Whole(io), Place(io), n))
    BY <1>2, <1>5, <2>1, <2>3, GetLineSame
  <2> QED BY <1>1, <1>5, <2>2, <2>3, ReadStep
<1>6. ASSUME NEW n \in Counts, Fgets(n) PROVE RInv' /\ BS!Next
  <2>1. PICK r \in GetLine(io, n, FALSE) : Return("fgets", n, r.got, r.io)
    BY <1>6 DEF Fgets, fgets
  <2>2. fd' = fd /\ state' # "none"
    BY <1>6 DEF Fgets, Open
  <2> QED BY <1>5, <2>1, <2>2
<1>7. CASE Getdelim
  <2>1. PICK r \in GetLine(io, MaxLen + 1, TRUE) : Return("fgets", MaxLen + 1, r.got, r.io)
    BY <1>7 DEF Getdelim, getdelim
  <2>2. fd' = fd /\ state' # "none"
    BY <1>7 DEF Getdelim, Open
  <2> QED BY <1>5, <2>1, <2>2
<1>8. CASE Fflush
  <2>1. PICK x \in fflush(io) : Return("other", 0, 0, x)
    BY <1>8 DEF Fflush
  <2>2. fd' = fd /\ state' # "none"
    BY <1>8 DEF Fflush, Open
  <2> QED BY <1>1, <1>3, <2>1, <2>2, OtherStep
<1>9. CASE Ftell
  <2>1. PICK x \in fflush(io) : Return("ftell", 0, IF x.ok /\ fd.seek THEN x.pos ELSE -1, x)
    BY <1>9 DEF Ftell
  <2>2. fd' = fd /\ state' # "none"
    BY <1>9 DEF Ftell, Open
  <2>3. ASSUME ~failed, ~x.err, Whole(io)' = Whole(x), Place(io)' = Place(x),
               BS!Returns("ftell", 0, IF x.ok /\ fd.seek THEN x.pos ELSE -1)
        PROVE  BS!Works
    <3>1. Whole(io)' = Whole(io) /\ Place(io)' = Place(io) /\ Place(x) = Place(io)
      BY <1>3, <2>3
    <3>2. x \in Io /\ x.wbuf = << >> /\ x.rbuf = << >>
      BY <1>3, <2>3
    <3>3. Len(<< >>) = 0 /\ x.pos \in Nat
      BY <3>2, IoFacts
    <3>4. Place(x) = x.pos
      BY <3>2, <3>3, WholeFacts
    <3>5. BS!Tell
      BY <2>3, <3>1, <3>4 DEF BS!Tell
    <3> QED BY <3>5 DEF BS!Works
  <2> QED BY <1>1, <1>3, <2>1, <2>2, <2>3, CallSame
<1> DEFINE c == [io EXCEPT !.eof = FALSE, !.err = FALSE]
<1>10. c \in Io /\ c.ok /\ EofOK(c) /\ Whole(c) = Whole(io) /\ Place(c) = Place(io)
  <2>1. c \in Io /\ c.ok
    BY ClearFacts DEF RInv
  <2>2. c.file = io.file /\ c.pos = io.pos /\ c.wbuf = io.wbuf /\ c.rbuf = io.rbuf /\ c.eof = FALSE
    BY <1>2, IoFacts DEF IoType
  <2> HIDE DEF c
  <2> QED BY <2>1, <2>2, FlagsSame DEF EofOK
<1>11. CASE Clearerr
  <2>1. Return("other", 0, 0, c) /\ fd' = fd /\ state' # "none"
    BY <1>11 DEF Clearerr, Open
  <2> HIDE DEF c
  <2> QED BY <1>1, <1>10, <2>1, OtherStep
<1>12. CASE Rewind
  <2>1. PICK x \in fseek(c, "SET", 0) : Return("fseek", <<"SET", 0>>, IF x.ok THEN 0 ELSE -1, x)
    BY <1>12 DEF Rewind
  <2>2. fd' = fd /\ state' # "none"
    BY <1>12 DEF Rewind, Open
  <2>3. 0 \in Offsets \cup {0} /\ "SET" \in {"SET", "CUR", "END"}
    OBVIOUS
  <2> HIDE DEF c
  <2> QED BY <1>1, <1>10, <2>1, <2>2, <2>3, SeekStep
<1> HIDE DEF c
<1>13. ASSUME NEW whence \in {"SET", "CUR", "END"}, NEW offset \in Offsets, Fseek(whence, offset)
       PROVE  RInv' /\ BS!Next
  <2>1. PICK x \in fseek(io, whence, offset) : Return("fseek", <<whence, offset>>, IF x.ok THEN 0 ELSE -1, x)
    BY <1>13 DEF Fseek
  <2>2. fd' = fd /\ state' # "none" /\ offset \in Offsets \cup {0}
    BY <1>13 DEF Fseek, Open
  <2> QED BY <1>1, <1>2, <2>1, <2>2, SeekStep
<1>14. CASE Fclose
  <2>1. PICK x \in fflush(io) : Return("other", 0, 0, x) /\ state' = IF x.ok THEN "closed" ELSE "open"
    BY <1>14 DEF Fclose
  <2>2. fd' = fd /\ state' # "none"
    BY <1>14, <2>1 DEF Fclose, Open
  <2> QED BY <1>1, <1>3, <2>1, <2>2, OtherStep
<1>15. CASE Exit
  <2>1. PICK x \in (IF stream \in {"stdout", "stderr"} THEN fflush(io) ELSE {io}) : Return("other", 0, 0, x)
    BY <1>15 DEF Exit
  <2>2. fd' = fd /\ state' # "none"
    BY <1>15 DEF Exit, Open
  <2>3. x \in Io /\ (~failed /\ ~x.err => EofOK(x) /\ Whole(x) = Whole(io) /\ Place(x) = Place(io))
    BY <1>2, <1>3, <2>1
  <2> QED BY <1>1, <2>1, <2>2, <2>3, OtherStep
<1>16. CASE UNCHANGED vars
  <2>1. fd' = fd /\ io' = io /\ ret' = ret /\ failed' = failed /\ state' = state
    BY <1>16 DEF vars
  <2>2. Whole(io)' = Whole(io) /\ Place(io)' = Place(io) /\ Appends' = Appends /\ (EofOK(io)' <=> EofOK(io))
    BY <2>1, SameDescriptor
  <2>3. UNCHANGED BS!vars
    BY <2>1, <2>2 DEF BS!vars
  <2>4. RInv'
    BY <1>1, <2>1, <2>2 DEF RInv
  <2> QED BY <2>3, <2>4
<1>17. ASSUME NEW mode \in Modes, Fopen(mode) PROVE RInv' /\ BS!Next
  BY <1>1, <1>17, FopenStep
<1>18. ASSUME NEW s \in Chunks, Fwrite(s) PROVE RInv' /\ BS!Next
  BY <1>1, <1>18, FwriteStep
<1> QED BY <1>4, <1>6, <1>7, <1>8, <1>9, <1>11, <1>12, <1>13, <1>14, <1>15, <1>16, <1>17, <1>18 DEF Next

(* The program starts at the beginning of the file.                        *)
LEMMA RefinementInit == Init => RInv /\ BS!Init
<1> SUFFICES ASSUME Init PROVE RInv /\ BS!Init
  OBVIOUS
<1>1. IInv
  BY Initially
<1>2. PICK file \in Contents : io = Fresh(file)
  BY DEF Init
<1>3. io.pos = 0 /\ io.wbuf = << >> /\ io.rbuf = << >> /\ io.eof = FALSE /\ io \in Io
      /\ Len(<< >>) = 0 /\ 0 - 0 = 0
  BY <1>1, <1>2 DEF Fresh, IInv
<1>4. Whole(io) \in Seq(Bytes) /\ Place(io) = 0
  BY <1>3, WholeFacts
<1>5. RInv
  BY <1>1, <1>3 DEF RInv, EofOK, Init
<1>6. Appends \in BOOLEAN
  BY Zenon DEF Appends
<1>7. BS!Init
  BY <1>4, <1>6 DEF BS!Init, Init
<1> QED BY <1>5, <1>7

(* A stream that no error has met behaves like the file itself, whatever   *)
(* the program mixes of the calls of stdio and however short the kernel's  *)
(* transfers are: buffering in libbrkc/stdio cannot be noticed.            *)
THEOREM StreamsAreFiles == Spec => ImplementsByteStream
<1>1. Init => RInv /\ BS!Init
  BY RefinementInit
<1>2. RInv /\ [Next]_vars => RInv' /\ [BS!Next]_(BS!vars)
  BY RefinementStep
<1> QED BY <1>1, <1>2, PTL DEF Spec, ImplementsByteStream, BS!Spec

=============================================================================
