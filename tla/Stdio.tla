------------------------------- MODULE Stdio -------------------------------
(***************************************************************************)
(* The streams of libbrkc (src/src/libbrkc/stdio), and exit() of           *)
(* src/src/libbrkc/stdlib/exit.c.                                          *)
(*                                                                         *)
(* One stream and the file behind its descriptor.  A FILE is the record    *)
(* `io':                                                                   *)
(*   wbuf   the bytes written and not flushed, buf[0..buf_used-1]          *)
(*   rbuf   the bytes read ahead, read_ptr..read_end-1, of the same buf    *)
(*   eof, err   __IO_EOF and __IO_ERR                                      *)
(* together with what the system calls change: the file's bytes and the    *)
(* offset of the descriptor.  `io.ok' is the result of the function at     *)
(* work.  A library call is one step; a system call in it may transfer     *)
(* less than it was asked to, and may fail.                                *)
(***************************************************************************)
EXTENDS Integers, Sequences, SequencesExt, FiniteSetsExt

CONSTANTS
  NL,         \* '\n'
  BufSize,    \* buf_size
  Contents,   \* what the file may hold at first
  Chunks,     \* the byte sequences the program writes
  Counts,     \* the numbers of bytes it asks for
  Offsets,    \* the offsets it seeks to
  Modes,      \* the modes it opens files with, sequences of letters
  MaxLen,     \* the longest the program lets the file grow (bound of the model)
  MaxFaults   \* how often the kernel fails a read or a write (bound of the model)

Bytes == {NL} \cup UNION {Range(s) : s \in Contents \cup Chunks}

ASSUME StdioAssumption ==
  /\ BufSize \in Nat \ {0} /\ MaxLen \in Nat /\ MaxFaults \in Nat
  /\ Contents \subseteq Seq(Bytes) /\ Chunks \subseteq Seq(Bytes)
  /\ Counts \subseteq Nat \ {0} /\ Offsets \subseteq Int

VARIABLES
  stream,   \* "stdin", "stdout", "stderr", or "fopen" for one fopen returns
  fd,       \* what the descriptor allows: [read, write, seek, append]
  io,
  ret,      \* the last call, its argument and what it returned
  failed,   \* history: __IO_ERR has been set
  state     \* "none" before fopen, "open", "closed" by fclose, "exited"

vars == <<stream, fd, io, ret, failed, state>>

sync == stream = "stderr"      \* __IO_SYNC

-----------------------------------------------------------------------------
(* The kernel (external) *)

(* The bytes of s written over those of f at position p.                   *)
Splice(f, p, s) ==
  [i \in 1..Max({Len(f), p + Len(s)}) |->
     IF i > p /\ i <= p + Len(s) THEN s[i - p] ELSE f[i]]

(* Where the next write goes: a file opened to append, and a pipe, grow.   *)
Appends == fd.append \/ ~fd.seek
WritePos(x) == IF Appends THEN Len(x.file) ELSE x.pos

write(x, s) ==
  [x EXCEPT !.file = Splice(x.file, WritePos(x), s), !.pos = WritePos(x) + Len(s)]

(* A read or a write may fail; a bounded number of them does.              *)
Fault(x) == [x EXCEPT !.err = TRUE, !.ok = FALSE, !.faults = @ + 1]
MayFail(x) == x.faults < MaxFaults

(* The bytes read() has yet to return.                                     *)
Ahead(x) == Len(x.file) - x.pos

-----------------------------------------------------------------------------
(* fflush.c *)

Error(x) == [x EXCEPT !.err = TRUE, !.ok = FALSE]

(* After a write that failed the buffer keeps all its bytes, those that    *)
(* were written too.                                                       *)
__stdio_flush_wbuf(x) ==
  IF x.wbuf = << >> THEN {x}
  ELSE IF ~fd.write THEN {Error(x)}
  ELSE {[write(x, x.wbuf) EXCEPT !.wbuf = << >>]}
         \cup {Fault(write(x, SubSeq(x.wbuf, 1, k))) :
                  k \in {k \in 0..(Len(x.wbuf) - 1) : MayFail(x)}}

(* mutant: the read-ahead is dropped and the descriptor is not moved back  *)
MutPurgeNoSeek(x) == [x EXCEPT !.rbuf = << >>]

__stdio_purge_readbuf(x) ==
  IF x.rbuf = << >> THEN x
  ELSE IF fd.seek THEN [x EXCEPT !.pos = @ - Len(x.rbuf), !.rbuf = << >>]
  ELSE Error(x)

fflush(x) == {IF y.ok THEN __stdio_purge_readbuf(y) ELSE y : y \in __stdio_flush_wbuf(x)}

-----------------------------------------------------------------------------
(* fwrite.c *)

(* mutant: a newline waits in the buffer like any other byte *)
MutPutUnflushed(x, c) ==
  LET room == IF Len(x.wbuf) >= BufSize THEN fflush(x) ELSE {x}
  IN {IF y.ok THEN [y EXCEPT !.wbuf = Append(@, c)] ELSE y : y \in room}

(* One round of the loop of file_write, or of file_write_sync, whose       *)
(* memcpy stops where the buffer is full.                                  *)
PutByte(x, c) ==
  LET room == IF Len(x.wbuf) >= BufSize THEN fflush(x) ELSE {x}
      put(y) == [y EXCEPT !.wbuf = Append(@, c)]
      flush(y) == IF sync THEN Len(y.wbuf) >= BufSize ELSE c = NL
  IN UNION {IF y.ok /\ flush(put(y)) THEN fflush(put(y))
            ELSE IF y.ok THEN {put(y)} ELSE {y} : y \in room}

(* The loop stops at the first failure.                                    *)
PutBytes(x, s) ==
  LET put[i \in 0..Len(s)] ==
        IF i = 0 THEN {x}
        ELSE UNION {IF y.ok THEN PutByte(y, s[i]) ELSE {y} : y \in put[i - 1]}
  IN put[Len(s)]

__stdio_file_write(x, s) ==
  LET y == __stdio_purge_readbuf(x)
  IN IF x.err THEN {[x EXCEPT !.ok = FALSE]}
     ELSE IF ~y.ok \/ s = << >> THEN {y}
     ELSE IF sync THEN UNION {IF z.ok THEN fflush(z) ELSE {z} : z \in PutBytes(y, s)}
     ELSE PutBytes(y, s)

-----------------------------------------------------------------------------
(* fread.c, fgetc.c, fgets.c *)

(* The loop of fread once the buffer is flushed: it copies what was read   *)
(* ahead and reads on until it has n bytes, meets the end of the file or   *)
(* fails.  The last read may leave up to BufSize - 1 bytes read ahead.     *)
ReadBytes(x, n) ==
  LET have == Len(x.rbuf)
      all == x.rbuf \o SubSeq(x.file, x.pos + 1, Len(x.file))
      missing == n - have
  IN IF missing <= 0
     THEN {[io |-> [x EXCEPT !.rbuf = SubSeq(@, n + 1, have)], got |-> SubSeq(x.rbuf, 1, n)]}
     ELSE LET done == IF missing > Ahead(x) THEN {}
                      ELSE {[io |-> [x EXCEPT !.pos = @ + missing + k,
                                              !.rbuf = SubSeq(all, n + 1, n + k)],
                             got |-> SubSeq(all, 1, n)] :
                              k \in 0..Min({BufSize - 1, Ahead(x) - missing})}
              eof == IF missing <= Ahead(x) THEN {}
                     ELSE {[io |-> [x EXCEPT !.pos = @ + Ahead(x), !.rbuf = << >>, !.eof = TRUE],
                            got |-> all]}
              error == {[io |-> Fault([x EXCEPT !.pos = @ + k, !.rbuf = << >>]),
                         got |-> SubSeq(all, 1, have + k)] :
                           k \in {k \in 0..Min({missing - 1, Ahead(x)}) : MayFail(x)}}
          IN IF fd.read THEN done \cup eof \cup error
             ELSE {[io |-> Error([x EXCEPT !.rbuf = << >>]), got |-> << >>]}

Nothing(x) == {[io |-> x, got |-> << >>]}

(* mutant: bytes waiting to be written are not written before a read *)
MutReadUnflushed(x, n) == IF x.err THEN Nothing(x) ELSE ReadBytes(x, n)

fread(x, n) ==
  IF x.err THEN Nothing(x)
  ELSE UNION {IF y.ok THEN ReadBytes(y, n) ELSE Nothing(y) : y \in __stdio_flush_wbuf(x)}

(* Unlike fread, fgetc does not read again after the end of the file.      *)
fgetc(x) ==
  IF x.err THEN Nothing(x)
  ELSE UNION {IF y.ok /\ ~(y.rbuf = << >> /\ y.eof) THEN ReadBytes(y, 1) ELSE Nothing(y) :
                y \in __stdio_flush_wbuf(x)}

(* The next byte, as fgets or as getdelim reads it.                        *)
GetByte(x, by_fread) == IF by_fread THEN fread(x, 1) ELSE fgetc(x)

(* Byte after byte until size - 1 bytes, a newline or the end.  An error   *)
(* gives up the bytes that were read.                                      *)
GetLine(x, n, by_fread) ==
  LET more(r) == Len(r.got) = 0 \/ Last(r.got) # NL
      line[i \in 0..n] ==
        IF i = 0 THEN Nothing(x)
        ELSE UNION {IF Len(r.got) = i - 1 /\ more(r)
                    THEN {[io |-> q.io, got |-> r.got \o q.got] : q \in GetByte(r.io, by_fread)}
                    ELSE {r} : r \in line[i - 1]}
  IN {IF r.io.ok THEN r ELSE [r EXCEPT !.got = << >>] : r \in line[n]}

fgets(x, n) == GetLine(x, n, FALSE)

(* getdelim reads with fread, and has room for any line.                   *)
getdelim(x) == GetLine(x, MaxLen + 1, TRUE)

-----------------------------------------------------------------------------
(* fopen.c, fseek.c, ftell.c, clearerr.c, fclose.c, exit.c *)

(* The flags of an fopen mode, a sequence of letters: the last of r, w and *)
(* a counts, b says nothing, and any other letter is refused.              *)
mode_to_flags(mode) ==
  LET access == SelectSeq(mode, LAMBDA c : c \in {"r", "w", "a"})
      plus == "+" \in Range(mode)
      acc == Last(access)
  IN IF ~(Range(mode) \subseteq {"r", "w", "a", "+", "b"}) \/ access = << >> THEN {}
     ELSE {[read |-> acc = "r" \/ plus, write |-> acc # "r" \/ plus,
            append |-> acc = "a", trunc |-> acc = "w"]}

Fresh(file) ==
  [file |-> file, pos |-> 0, wbuf |-> << >>, rbuf |-> << >>, eof |-> FALSE, err |-> FALSE, ok |-> TRUE,
   faults |-> 0]

(* A call of the library returns, with the stream it leaves.               *)
Return(call, arg, val, x) ==
  /\ io' = [x EXCEPT !.ok = TRUE]
  /\ ret' = [call |-> call, arg |-> arg, val |-> val]
  /\ failed' = (failed \/ x.err)

(* open and malloc may fail, and the descriptor is closed again.           *)
Fopen(mode) ==
  /\ state = "none"
  /\ \E flags \in mode_to_flags(mode) :
       /\ fd' = [read |-> flags.read, write |-> flags.write, seek |-> TRUE, append |-> flags.append]
       /\ Return("fopen", 0, 0, Fresh(IF flags.trunc THEN << >> ELSE io.file))
  /\ state' = "open"
  /\ UNCHANGED stream

Open == state = "open" /\ UNCHANGED <<stream, fd>>

(* fputs, fputc, puts, perror and printf reach the file the same way.      *)
Fwrite(s) ==
  /\ Open /\ UNCHANGED state
  /\ Len(io.file) + Len(io.wbuf) + Len(s) <= MaxLen
  /\ \E x \in __stdio_file_write(io, s) :
       Return("fwrite", s, IF x.ok THEN Len(s) ELSE 0, x)

Fread(n) ==
  /\ Open /\ UNCHANGED state
  /\ \E r \in fread(io, n) : Return("fread", n, r.got, r.io)

Fgets(n) ==
  /\ Open /\ UNCHANGED state
  /\ \E r \in fgets(io, n) : Return("fgets", n, r.got, r.io)

Getdelim ==
  /\ Open /\ UNCHANGED state
  /\ \E r \in getdelim(io) : Return("fgets", MaxLen + 1, r.got, r.io)

Fflush ==
  /\ Open /\ UNCHANGED state
  /\ \E x \in fflush(io) : Return("other", 0, 0, x)

(* lseek refuses pipes and, here, positions behind the end of the file.    *)
Lseek(x, whence, offset) ==
  LET base == CASE whence = "SET" -> 0 [] whence = "CUR" -> x.pos [] whence = "END" -> Len(x.file)
  IN IF fd.seek /\ base + offset \in 0..Len(x.file) THEN {base + offset} ELSE {}

fseek(x, whence, offset) ==
  {IF ~y.ok \/ Lseek(y, whence, offset) = {} THEN [y EXCEPT !.ok = FALSE]
   ELSE [y EXCEPT !.pos = CHOOSE p \in Lseek(y, whence, offset) : TRUE, !.eof = FALSE] :
     y \in fflush(x)}

Fseek(whence, offset) ==
  /\ Open /\ UNCHANGED state
  /\ \E x \in fseek(io, whence, offset) :
       Return("fseek", <<whence, offset>>, IF x.ok THEN 0 ELSE -1, x)

Ftell ==
  /\ Open /\ UNCHANGED state
  /\ \E x \in fflush(io) : Return("ftell", 0, IF x.ok /\ fd.seek THEN x.pos ELSE -1, x)

Clearerr ==
  /\ Open /\ UNCHANGED state
  /\ Return("other", 0, 0, [io EXCEPT !.eof = FALSE, !.err = FALSE])

Rewind ==
  /\ Open /\ UNCHANGED state
  /\ \E x \in fseek([io EXCEPT !.eof = FALSE, !.err = FALSE], "SET", 0) :
       Return("fseek", <<"SET", 0>>, IF x.ok THEN 0 ELSE -1, x)

(* mutant: the stream is closed whether or not its bytes were written *)
MutFclose ==
  /\ Open
  /\ stream = "fopen"
  /\ \E x \in fflush(io) : Return("other", 0, 0, x)
  /\ state' = "closed"

(* A stream whose bytes cannot be written stays open.                      *)
Fclose ==
  /\ Open
  /\ stream = "fopen"
  /\ \E x \in fflush(io) :
       Return("other", 0, 0, x) /\ state' = IF x.ok THEN "closed" ELSE "open"

(* exit() flushes stdout and stderr, and no other stream.                  *)
Exit ==
  /\ Open
  /\ \E x \in IF stream \in {"stdout", "stderr"} THEN fflush(io) ELSE {io} : Return("other", 0, 0, x)
  /\ state' = "exited"

Init ==
  /\ \E file \in Contents : io = Fresh(file)
  /\ \/ stream = "fopen" /\ state = "none"
        /\ fd = [read |-> FALSE, write |-> FALSE, seek |-> FALSE, append |-> FALSE]
     \/ stream = "stdin" /\ state = "open"
        /\ fd \in [read : {TRUE}, write : {FALSE}, seek : BOOLEAN, append : {FALSE}]
     \/ stream \in {"stdout", "stderr"} /\ state = "open"
        /\ fd \in [read : {FALSE}, write : {TRUE}, seek : BOOLEAN, append : BOOLEAN]
  /\ ret = [call |-> "none", arg |-> 0, val |-> 0]
  /\ failed = FALSE

Next ==
  \/ \E mode \in Modes : Fopen(mode)
  \/ \E s \in Chunks : Fwrite(s)
  \/ \E n \in Counts : Fread(n) \/ Fgets(n)
  \/ Getdelim \/ Fflush \/ Ftell \/ Clearerr \/ Rewind \/ Fclose \/ Exit
  \/ \E whence \in {"SET", "CUR", "END"}, offset \in Offsets : Fseek(whence, offset)

Spec == Init /\ [][Next]_vars

-----------------------------------------------------------------------------
(* Properties *)

(* One buffer serves both directions: bytes waiting to be written and      *)
(* bytes read ahead never share it, and neither outgrows it.               *)
BufferShared ==
  /\ io.wbuf = << >> \/ io.rbuf = << >>
  /\ Len(io.wbuf) <= BufSize /\ Len(io.rbuf) <= BufSize

(* Streams are line buffered: unless a write has failed, no newline waits  *)
(* in the buffer between two calls, so a program that waits for input has  *)
(* shown every whole line it printed.                                      *)
LinesFlushed == failed \/ NL \notin Range(io.wbuf)

(* Bytes are never lost in the buffer: a stream that fclose closed has     *)
(* none left, even after earlier failures, and exit() leaves none on       *)
(* stdout and stderr unless a write failed.                                *)
NothingPending ==
  \/ state = "closed"
  \/ state = "exited" /\ stream \in {"stdout", "stderr"} /\ ~failed
  => io.wbuf = << >>

(* What the buffers of a stream stand for: the file as it is once they are *)
(* flushed, and the program's position in it.                              *)
Whole(x) == Splice(x.file, WritePos(x), x.wbuf)
Place(x) == IF x.wbuf = << >> THEN x.pos - Len(x.rbuf) ELSE WritePos(x) + Len(x.wbuf)

BS == INSTANCE ByteStream WITH
       Counts <- Counts \cup {MaxLen + 1},
       Offsets <- Offsets \cup {0},
       append <- Appends,
       contents <- Whole(io),
       at <- Place(io)

(* A stream that no error has met behaves like the file itself, whatever   *)
(* the mix of reads, writes and seeks and however short the transfers.     *)
ImplementsByteStream == BS!Spec
=============================================================================
