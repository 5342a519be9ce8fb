----------------------------- MODULE ByteStream -----------------------------
(***************************************************************************)
(* What the streams of <stdio.h> promise a program, with no word on        *)
(* buffers: a file with a position.  Reads and writes act on the file at   *)
(* once, in the order of the calls, and every call returns what it would   *)
(* return on the file itself.  After an input or output error nothing is   *)
(* promised.                                                               *)
(***************************************************************************)
EXTENDS Integers, Sequences, SequencesExt, FiniteSetsExt

CONSTANTS NL, Bytes, Chunks, Counts, Offsets

VARIABLES append,     \* whether writes go to the end of the file
          contents,   \* the bytes of the file
          at,         \* the position of the stream
          failed,     \* an input or output error has happened
          ret         \* the last call, its argument and what it returned

vars == <<append, contents, at, failed, ret>>

(* The bytes of s written over those of f at position p.                   *)
Splice(f, p, s) ==
  [i \in 1..Max({Len(f), p + Len(s)}) |->
     IF i > p /\ i <= p + Len(s) THEN s[i - p] ELSE f[i]]

Following(n) == SubSeq(contents, at + 1, Min({at + n, Len(contents)}))

(* A line: up to and including the first newline.                          *)
Newlines(s) == {i \in DOMAIN s : s[i] = NL}
LineOf(s) == IF Newlines(s) = {} THEN s ELSE SubSeq(s, 1, Min(Newlines(s)))

Returns(call, arg, val) == ret' = [call |-> call, arg |-> arg, val |-> val]

Init ==
  /\ append \in BOOLEAN
  /\ contents \in Seq(Bytes)
  /\ at = 0 /\ failed = FALSE
  /\ ret = [call |-> "none", arg |-> 0, val |-> 0]

(* fopen, before any other call, may truncate the file.                    *)
Open ==
  /\ ret.call = "none"
  /\ append' \in BOOLEAN
  /\ contents' \in {contents, << >>}
  /\ UNCHANGED at
  /\ Returns("fopen", 0, 0)

(* Writing nothing leaves the position, where writing goes to the end too. *)
Write(s) ==
  LET p == IF append THEN Len(contents) ELSE at IN
  /\ contents' = Splice(contents, p, s)
  /\ at' = IF s = << >> THEN at ELSE p + Len(s)
  /\ Returns("fwrite", s, Len(s))

Read(call, n, s) ==
  /\ at' = at + Len(s)
  /\ UNCHANGED contents
  /\ Returns(call, n, s)

(* A stream that cannot seek refuses to.                                   *)
Seek(whence, offset) ==
  LET base == CASE whence = "SET" -> 0 [] whence = "CUR" -> at [] whence = "END" -> Len(contents)
  IN /\ UNCHANGED contents
     /\ \/ at' = base + offset /\ Returns("fseek", <<whence, offset>>, 0)
        \/ at' = at /\ Returns("fseek", <<whence, offset>>, -1)

Tell ==
  /\ UNCHANGED <<contents, at>>
  /\ Returns("ftell", 0, at) \/ Returns("ftell", 0, -1)

(* fflush, clearerr, fclose and the end of the program change no byte.     *)
Other == UNCHANGED <<contents, at>> /\ Returns("other", 0, 0)

Works ==
  \/ \E s \in Chunks : Write(s)
  \/ \E n \in Counts : Read("fread", n, Following(n)) \/ Read("fgets", n, LineOf(Following(n)))
  \/ \E whence \in {"SET", "CUR", "END"}, offset \in Offsets : Seek(whence, offset)
  \/ Tell
  \/ Other

Next ==
  \/ Open /\ UNCHANGED failed
  \/ UNCHANGED append /\ (failed \/ failed' \/ (Works /\ UNCHANGED failed))

Spec == Init /\ [][Next]_vars
=============================================================================
