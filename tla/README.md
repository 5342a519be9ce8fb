# Specifications of the BRK userland

BRK's userland is a C library (`src/src/libbrkc`), a small library for commands
(`src/src/libbrkcmd`) and about a hundred commands (`src/src/cmd`), among them a
shell, a C compiler, editors and network tools, for a RISC-V kernel that is not
in this repository. The modules here model the parts of it that keep state
between steps, fail half-way, or run beside other processes; TLC checks them on
small instances and TLAPS proves the invariants of the allocator, the streams, the
pipelines, the accounts, the test harness and nc for every instance.

    tlc -config MCTlsf.cfg MCTlsf        # a run of PROJECT.json
    tlapm TlsfProofs.tla                 # the proofs

## 1. Inventory

| component | state | operations | interacts with | what is hard | what makes it correct |
|---|---|---|---|---|---|
| heap (`libbrkc/stdlib/malloc.c`) | block headers, free lists, two bitmaps, regions, region cache | malloc, calloc, realloc, free | mmap, munmap; every program | boundary tags under splits and merges; sizes near the limits; mmap failing | blocks tile their region, the index is exact, pointers are disjoint and large enough |
| streams (`libbrkc/stdio`, `exit.c`) | one buffer for both directions, flags, the descriptor's offset | fopen … fclose, exit | read, write, lseek | partial and failing system calls, read after write, flushing at exit | a program sees a stream of bytes; nothing is lost or doubled before the first error |
| shell language (`cmd/sh` lexer, parser, builtins, main) | aliases, environment, working directory | run_line and five builtins | streams, environment, pipelines | quoting, expansion that must end, copies of state | lines mean what the grammar says |
| shell pipelines (`cmd/sh/sh_exec.c`) | pipes, children, descriptors | sh_pipeline_exec, run_child | fork, pipe, waitpid, signals | interleaving of the shell with its children, forgotten pipe ends, Ctrl-C | the shell returns, with every child reaped |
| line editor (`cmd/sh/sh_edit.c`) | line, cursor, history, terminal mode | keys, history | termios, signals | terminal left raw by a signal | the line shown is the line returned |
| cp, mv, rm | the tree of files | one operand after the other | the file system, other processes | partial failure, being killed, symbolic links, two removers | exit status 0 is true; nothing is lost |
| init, login, su, passwd, `libbrkc/pwd`, `crypto/pw.c` | `/etc/passwd`, `/etc/shadow`, the supervised shell | restart, authenticate, rewrite shadow | fork, wait, rename | two writers, a crash while rewriting, orphans | shadow is always whole; a shell is always running |
| brktest harness | the running case, counters | run case, time out, report | fork, waitpid, kill | timeout against exit, process groups | every case is counted once; nothing is left running |
| network (nc, httpd, httpget, resolv, inet) | connections, a query in flight | relay, serve, resolve | poll, sockets | half-closed connections, late answers | every byte is relayed; answers match questions |
| cc | tokens, macros, types, frames, sections, symbols | preprocess, parse, generate, link | streams | evaluation order, stack discipline, recursion of macros | generated code computes what the expression means |
| edit | buffer, cursor, view | keys, save | termios, streams | edits at boundaries, failing save | buffer and file agree after a save |
| xargs, tee | batches, outputs | run batch, copy | fork, wait | limits, merged statuses | every argument is passed once |
| filters (ls, sed, find, dd, grep, sort …), libbrkcmd, string and time functions | little beyond a line | | streams | | tested rather than modelled |

`PROJECT.json` lists every component with its sources and, under `hazards`, what
is hard to test in them at the line where it bites.

## 2. Modules

| module | models | state and steps |
|---|---|---|
| `HeapSpec` | what malloc promises | the live pointers and their sizes |
| `Tlsf` | malloc.c | `heap` is one record; each static function of malloc.c is an operator on it under its C name; `Malloc`, `Calloc`, `Free`, `Realloc` are the actions |
| `UserPrograms` | the seven programs that share nothing (`Harness`, `Xargs`, `Supervisor`, `Accounts`, `Relay`, `Http`, `Resolver`) | one of them runs, the others are at rest |
| `TlsfProofs` | proofs about `Tlsf` | |
| `ByteStream` | what a stream promises | a file, a position, the bytes returned |
| `Stdio` | libbrkc/stdio and exit | `io` is the FILE with the file behind it; one action per library call, each system call in it may be partial or fail |
| `ShExec` | sh_exec.c | the shell's program counter, the children's, who holds which pipe end |
| `ShLex` | sh_lexer.c | the lexer as operators: quotes, backslashes, variables; used by `ShLine`, and by `ShEdit` to say what a completed word means |
| `ShLine` | sh_parser.c, sh_builtin.c, sh_main.c, env.c | a line of characters is lexed, parsed, alias-expanded and run in one step `RunLine` |
| `FileTree` | cp.c, mv.c, rm.c | the tree as a function of paths; the recursion as a stack of frames; one step per system call |
| `Harness` | brktest/harness.c, main.c | the harness' place in its plan, the case's process, its group and the processes it starts, the time limit; the log of results with what is true of each case |
| `Xargs` | xargs.c | options and input, the items, one step per batch |
| `Supervisor` | init.c | the entries of the file system that init sets up, the shell, the orphans |
| `Accounts` | passwd.c, login.c, su.c, libbrkc/pwd, crypto/pw.c | inodes under two names, the passwd processes a system call at a time, a login |
| `Relay` | nc.c | two nc with their sockets; bytes are counted |
| `Http` | httpd.c, httpget.c | the request, the file, the stream between the two cut anywhere |
| `Resolver` | resolv.c, inet.c | per process the query in flight; the queries the server has seen |
| `Editor` | edit.c | `ed` is struct editor, `keys` the escape sequence; the save a system call at a time; the terminal |
| `ShEdit` | sh_edit.c, the interactive loop of sh_main.c | `le` is the line with its cursor, history position and draft |
| `CcMacro`, `CcPre` | cc/preprocess.c | splicing, comments, macro expansion and the evaluator of `#if` are operators; the directives are steps over a stack of files and a stack of conditionals |
| `CcLex`, `CcTypes`, `CcState`, `CcParse` | cc/lexer.c, types.c, util.c, parser.c | operators; the parser's globals are one record that every `parse_*` takes and returns |
| `CcGen`, `CcLink` | cc/codegen.c, emit.c, link.c, the drivers of main.c | operators from nodes to instructions, labels and relocations, and from units or object files to an image |
| `CcCpu` | the processor (external) | one step per instruction |
| `CcRef`, `CcPrograms` | C itself; the programs compiled | what a tree of C means, and how it is written down |
| `StdioProofs`, `ShExecProofs`, `FileTreeProofs`, `HarnessProofs`, `AccountsProofs`, `UserProgramsProofs` | proofs about the module they are named after; the last one has those about `Relay`, `Supervisor` and `Http` too | |
| `NatFacts` | induction and recursion over numbers, as facts the provers can use | |
| `MC…` | constants for TLC | |

`Tlsf`: addresses and sizes are integers; a bitmap word is the set of its one
bits. The constants are the macros of malloc.c. `mmap` is external: it returns
any free address of `Bases`, or fails. The order of the region list and the order
of the cache (which only breaks ties) are abstracted. malloc.c is not
thread-safe and the system has no threads, so a call is one step.

`Stdio`: the read loop of `fread` is summarised by what it can leave behind: how
much was read ahead, at which point it met the end or an error. `io.ok` is the
return code of the internal functions. fputs, fputc, puts, perror and printf
enter through `__stdio_file_write` like `fwrite`.

`ShExec`: a child's two `dup2` are one step, as are its `close` calls: nobody can
tell them apart. `waitpid` does not fail: the shell installs no handler that could
interrupt it and reaps each child once, which `CleanReturn` shows. The
programs are external: they read to the end of input, write a bounded number of
bytes and exit, or exit early, or die of SIGPIPE.

`ShLine`: no allocation fails. A character may be a whole name (`"alias"`), which
keeps the lines short. Running a pipeline is any status: what happens inside is
`ShExec`.

`FileTree`: paths are sequences of names, the first is the device. Symbolic links
are absolute and lead to no link. File modes are left out. Both opens of
`copy_file` are one step; while a copy runs, no other process of the model changes
the tree (only `rm` runs beside `rm`). Any system call may fail, and the number of
failures is bounded. `remove_path` and `move_one` tell a link by a `readlink` that
succeeds: where it fails on a link they go on with `stat`, which follows the link
(`RemoveLook`, `RemoveStat`); the history field `astray` remembers where such a link
leads, and `undone` that mv has begun to take back its copy. A process that is killed is
not an action of its own: every invariant holds in every state, so at every such moment.

`Harness`: what a case does is external.

`UserPrograms` begins each behaviour with one of seven programs, the others being at
rest in a final state: the programs do not share anything, and one run asks the
questions of all of them. Its `Next` is a step of one of them. `MCPrograms` only gives
its constants values.

`Accounts`: a hash is the password itself, since SHA-256 is external and only
equality matters; `"locked"` stands for the `*` of an account without password,
`"empty"` for the empty string. Each call of `update_shadow` is a step of its own, may fail, and
the process may be killed before it; what a killed process leaves in
`/etc/shadow.tmp` stays there. The new file is written through a stream that is flushed at
each new line: a line is written as it is copied (`CopyLine`). A write that fails, with
nothing or a part of the line in the file, leaves the line in the buffer, and `fclose`
writes all of it again (`Flushed`), which may succeed. The copied lines go through
`fwrite`, whose result is looked at (`GiveUp`); the line of the user goes through
`fprintf`, whose result is not. The ghosts `overlap`, `fault` and `spoiled` remember that
two updates ran at once, that a read failed, or that a file was put in place in which such
a line is torn or missing: the code takes no lock, `getline` does not tell an error from
the end, and `update_shadow` ignores `fprintf`, so nothing is promised after any of them.

`Relay`: a socket holds `Queue` bytes in each direction, an end mark and a reset. Every
`read` may return less than there is, the one read of a UDP client too: what it took is
`Datagram`.
`Http`: a byte is a model value, and so is a whole header line.
`Resolver`: names and messages are byte values, because length limits, labels and
compression pointers are what `dns_parse` is about.

`Editor`, `ShEdit`: bytes arrive one by one; the time that passes between two is
a step (`Tick`, the timeout of `poll`). SIGTERM and SIGHUP may come at any point,
also between `set_raw_mode` and the calls of `signal` (`unlucky` has "early" then).
`typed` and `count` bound the bytes that change something; the bytes that a full escape
buffer drops are not counted, so that a user may type them for ever. In `ShEdit` a byte
waits while `ready` holds, and in `Editor` a `burst` goes on within one `read`.

The compiler. Sizes and alignments are those of the code, but a byte has
`ByteBits` bits and an immediate `ImmBits`, so that registers fit TLC's integers
and every immediate limit is met by small programs. `fatal` ends the compiler
and is modelled as a result that nothing follows. The parser and the code
generator are followed function by function, since which registers and labels
are live across a recursive call is the question; the bits of an instruction and
the headers of the ELF file are left out. An array without length is an object of its
own among the parser's aggregates, as the `Type` that C pointers share: its first
initialiser completes it for everything that names it (`Completed`). `CcCpu` executes the image, and checks
that no access leaves the stack or the image.

## 3. Runs

| run | bounds | why they are enough |
|---|---|---|
| `tlsf` | sizes divided by eight, two second-level classes, three places for regions (a large region at the second leaves no room for the third), three live pointers, requests {0, 1, 8, 16, SIZE_MAX} | regions hold up to three blocks, so a block can have two free neighbours; the cache overflows by count and by bytes; mmap runs out |
| `stdio` | buffer of two bytes, files of up to four bytes, two faults | every write wraps the buffer, every read can leave bytes read ahead |
| `shexec` | three commands, pipes of one byte, programs that write two, one Ctrl-C | a middle command has both neighbours and a pipe that is not its own; writers block |
| `shline` | all lines of up to four characters over eleven, 21 script lines in any order | every pair of lexical contexts meets; aliases in circles of two, and chains of up to three that end; the depth limit of 16 becomes 2, which such a chain exceeds; the name buffer of 128 becomes 3 |
| `shlex_errors` | the same and two references to an unset variable | |
| `filetree` | 138 jobs on a tree of two devices, one fault, paths of five components | every kind of operand to every kind of destination: a directory in a directory, an empty one, a link out of the tree, one to nothing, a merge into an existing directory, links at the destination that lead back; two operands of one name; two removers |
| `rm_force` | two `rm -rf` of one directory | |
| `programs` | brktest: three cases in two suites, one process started by a case. xargs: all inputs of up to four bytes. init: two orphans. accounts: two passwd, three passwords. nc: inputs of 0, 1 and 3 bytes, buffers of 2, queues of 1. http: ten requests, three files. resolver: two processes, two ports, three lookups | a case can hang, end at its time limit and leave a process; batches end evenly and not; both queues of nc fill up; a port is used again by another process; a segment ends at every place of a header |
| `httpget_carry` | http alone | |
| `editors` | three bytes or resizes for edit on two files and two windows, four bytes for the shell's editor with a history of two; bytes dropped by a full buffer are not counted | escape sequences of every form are begun, completed, cut off and too long (the buffer of eight becomes three), and fed for ever once it is full; completion meets quotes, blanks, `$`, directories and several matches |
| `cc` | all texts of up to five characters for comments, and texts of two on either side of one comment or around two; texts of up to four for the lexer, of up to six for its operators, and literals of three characters; 105 tables of macros with 31 uses; expressions of `#if` with two operators; every sequence of five of eleven lines with one include; two operators of C in every nesting and type, statements with loops and switches, whole programs of one or more units and initialisers | each recursion of the parser is entered twice; the operands of every operator are themselves calls, conditions or assignments; the depth limits of 100 expansions and 32 includes become 6 and 1 |
| `cc_builtin` | one program of two units | |

What they show:

- `tlsf`: `BoundaryTags`, `NoAdjacentFree`, `IndexExact`, `OwnedBlocks`,
  `CacheAccounting`, `NoIdleRegion` are invariants; `GrowOnlyWhenExhausted` says
  that the bitmaps never hide a block that fits; `ImplementsHeapSpec` is the
  refinement of `HeapSpec`.
- `stdio`: `ImplementsByteStream` is the refinement; it ends at the first error,
  because after one the buffer keeps bytes already written and the next flush
  writes them again. `LinesFlushed` and `NothingPending` say when bytes leave the
  buffer.
- `shexec`: `PipelineFinishes` holds unless fork fails. In that case the shell
  waits before it closes its own pipe ends and may wait for ever; `CleanReturn`
  likewise excepts the pipes that are left open when a later `pipe()` fails.
- `shline`: `ParserExact` compares the parser with a grammar on whole token
  sequences, `QuotingExact` the lexer with an independent scan of the quoting
  context, `AliasesReadBack` composes printer, lexer and parser. `ExpansionSound`: alias
  expansion ends, and fails for exactly three reasons: the aliases run in a circle, one
  of them does not split any more, or the chain is longer than the limit, although it
  would end.
- `shlex_errors` (finding): an unset variable at the start of a word is reported
  as "out of memory", and in double quotes as "unterminated quote".
- `filetree`: `NothingLost`, `SuccessIsReal`, `LinksNotFollowed` and
  `CommandsFinish`. The exceptions they state are the code's:
  - `mv` that cannot remove its source removes the copy, and what was removed of the
    source is in neither place (`undone`);
  - two operands that go to one place, or one that goes where another is (`Apart`): with
    `mv a/x a/d/x b` the second file replaces the first;
  - a copy that writes through a link at the destination, which may lead back to what is
    copied (`PlainGoal`), or reads through one what is written or moved (`ReadsApart`);
  - an empty directory copied onto a file: `mkdir` finds that the name exists, and cp and
    mv go on, make nothing and exit with 0, and mv removes the directory (`OntoOther`);
  - where `readlink` fails on a link, `rm` and `mv` follow it and remove what is behind it
    (`astray`), and `rm -f` takes a link to nothing for a missing file (`Overlooked`);
  - `cp -r` exits with 0 after nested errors it printed, and `cp f f` empties f.
- `rm_force` (finding): `rm -rf` fails on a missing file when it loses a race.

- `programs`: `HarnessSound` (a verdict is true of the case, each case is counted
  once, exit status 0 means all were reported, a timeout leaves no process of a
  case with its own group), `ArgumentsOnce`, `OneShell` (with the permissions in
  place before the first shell), `AccountsSound` (the shadow file is whole
  whatever fails and whoever is killed; a password that is accepted was right
  while it was asked for; the group list is exact or the caller is told),
  `RelayFaithful`, `HttpExact`, `AnswersMatch`, and `ProgramsProgress` for the
  programs that must end or respond. The exceptions they state are the code's:
  two passwd at once, a read error in passwd, a file torn by a failed write whose
  `fprintf` is not looked at and that `fclose` completes and rename puts in place, a UDP
  client that sends what its one read took and not its whole input, two nc that write to
  each other with both queues full, a file that changes while httpd sends it, and a port and an
  identifier that are both used again. An identifier that does not match ends a
  lookup: `AnswersMatch` shows that no wrong address is returned, not that one is.
- `httpget_carry` (finding): a blank line after the headers that is split between
  two `recv` loses the body.
- `editors`: `EditorSound` (cursor in text and window, the file old or new, nothing
  unsaved that is not marked, terminal restored), `ShEditSound` (cursor, history
  and draft; completion inserts what the shell reads back as the name; no command
  finds the terminal raw), `EditorsRespond` (an escape sequence that is not completed is
  given up). The exceptions they state are the code's: a word that begins with a
  backslash is not seen as one by completion; `$` is not protected by
  `sh_complete_escape`, so that the shell expands what completion inserts; a signal
  before the handlers are installed; and a user who never pauses, whose keys an escape
  buffer that is full drops one after the other, or who presses ESC after ESC.
- `cc`: `FrontEndExact` compares comments, tokens with their values, macro expansion and
  `#if` with definitions that are those of C and do not follow the code; where the code
  departs from them it says so by name (see below). `ConditionalsExact` compares which lines
  are active with the conditionals read as a whole; `CodeMeansSource` runs each
  program to the outcome C gives it, checks that the stack pointer comes back, and that what
  C forbids is refused; `ImageSound` is about layout, relocation and object files.
- `cc_builtin` (finding): whether a function is built in is decided per unit.

Where the compiler departs from C it is modelled as it is. Two departures are in what
`FrontEndExact` reads, which excepts them by operators of their own: comments on one
line are replaced by nothing, so that `int/**/x` becomes `intx` (`Joined` of `CcMacro`),
and the lexer takes some literals that are none (`LenientNumber`, `LenientEscape` and
`LenientChar` of `CcLex`: `0x` without a digit, `'''`, any suffix of u and l, a
backslash before any character). The programs of `CcPrograms` stay away from the others;
the manual promises a subset of C and does not speak of these: `-`, `~`, `<<` and `>>`
do not promote char and short; unsigned char stays unsigned in arithmetic; `==` and
`switch` compare the registers of a signed and an unsigned operand; `~` of an unsigned
is not cut to its width; `/=` and `%=` divide signed; the suffix U is ignored; `&&` of
pointers is refused; typedefs and tags have no scope; a typedef of an array without
length is completed by its first use, and keeps that length for every later one; `extern
int a[];` and tentative definitions are refused; `putchar` returns 1; with several
inputs `-E` keeps the macros of the one before; the code after `mv sp,s0` reads the
frame just below the stack pointer, so a signal handler on that stack would overwrite
it.

Deadlock is not checked: in every model the program ends, or a bound on live
pointers, file size, keys or calls is reached.

Fairness. `ShExec`: weak fairness of the shell and of every child, and separately
of a program's reads and writes; this is a scheduler that runs what can run. A
program that can both read and write does both, as the external programs are
assumed to. No fairness for failures, early exits or Ctrl-C. `FileTree`: weak
fairness of each process. `Harness`: the harness runs and time passes; nothing is
assumed of a case. `Supervisor`: init runs, a forked child reaches `execvp`, and
`wait` is strongly fair to each kind of child: whichever order the kernel reports
them in, none is passed over for ever. `Relay`: both sides run and standard input
ends. `Resolver`: only the timer. `Editor` and `ShEdit`: the program runs, its reads time
out, and it takes the byte there is: `[]<>(ready => shpc = "done")` says that no byte waits
for ever, `[]<>(burst => epc # "loop")` that the loop over the bytes of one read ends.
Nothing is assumed of the user, who may go on typing. Nothing else assumes fairness.

## 4. Proofs

`TlsfProofs` proves for every value of the constants that satisfies
`TlsfAssumption` (the static assertions of malloc.c and the types of its macros)
and `PowerAssumption` (what powers of two are, which the provers do not know):

| theorem | statement |
|---|---|
| `Invariance` | `Spec => []Inv` |
| `TypeCorrect`, `TagsCorrect`, `Coalesced` | `TypeOK`, `BoundaryTags`, `NoAdjacentFree`, as in the run |
| `IndexLinked`, `IndexCorrect` | `IndexSound`: the lists are well linked and the bitmaps agree with the heads; `IndexExact`: each list holds all the blocks of its class |
| `NothingLeaks`, `BlocksAreLargeEnough` | `NoLeak`: blocks in use are sentinels or the program's; `OwnedBlocks`: and they are aligned and large enough |
| `CacheBounded`, `CacheCounted` | `CacheLimits`: the cache keeps its limits, regions do not overlap; `CacheAccounting`: its byte counter is exact |
| `RegionsAreBusy` | `NoIdleRegion` |
| `GrowsWhenExhausted` | `GrowOnlyWhenExhausted`, an action property |
| `HeapIsImplemented` | `ImplementsHeapSpec`: the refinement of `HeapSpec` |

These are all the properties of the run, for any alignment, geometry of classes,
region sizes, cache limits and sequence of calls.

The argument. None of the properties is inductive alone: that free() coalesces
correctly needs right boundary tags; that a tag is right after a merge needs the
neighbour to have been unlinked from its list; that unlinking is right needs the
lists to be well linked; and that the block freed is a block needs the program to
hold only blocks in use. `Inv` is therefore the conjunction: the regions are
apart and well formed (`Mapping`), blocks tile each region between its sentinels
(`Phys`), free blocks are linked in their class and no list is a circle (`Linked`),
free blocks are not neighbours, the cache keeps its limits and its counts
(`CacheInv`), blocks and regions start at multiples of the alignment (`OnGrid`), no
active region is one free block (`AllBusy`), the program's pointers are exactly the
blocks in use (`Holds`), and each block has room for its header and the size asked
for (`Roomy`). TLC checked `Inv` on the run's instance (ranks up to 4) before it
was proved. Inside a call the heap passes through states in which one block is on no
list, or has a free neighbour: `SoundBut(h, b)` and `ApartBut(h, b)` are the
invariant with b excepted, and the lemmas follow malloc.c function by function
through them. `TlsfProofs` has the size classes, the lists, cutting and merging
first, then the regions, `tlsf_grow`, the calls and the theorems.

- Good fit. `GoodFit` is the arithmetic of `tlsf_mapping_search`: rounding up moves
  a request to the first class all of whose blocks fit, and a block is as large as
  that class's minimum exactly when its own class is that one or a higher one.
  With `FindExact` (what the two bit scans return) this gives `FindFits`: tlsf_find
  returns a block that fits, or there is none. Both `BlocksAreLargeEnough` and
  `GrowsWhenExhausted` rest on it.
- The list of a class (`IndexExact`) is a recursion along the next links.
  `Linked` says instead that some rank of the blocks falls along them, which the
  list operations preserve; then the block of highest rank is the head
  (`ListHead`), and a set that has the head and is closed under next is the whole
  class (`ClosedIsWhole`). Following the links as often as there are blocks gives
  such a set (`ListedIsClass`), since each round that is not the last adds one.
- The sum of the sizes (`SumSizes`) takes one region after the other in an order
  that CHOOSE decides. `TotalsExist` shows that sums exist which do not depend on an
  order, `TotalsAgree` that `SumSizes` is one of them, and `SumGrows` what one more
  region adds.
- Refinement. `HeapSpec`'s variable is `owned`. `Holds`, `Roomy` and `OnGrid` before and
  after a step say that the ranges are apart, large enough and aligned; that is the
  guard `Fits` of the abstract step.

The other components:

| theorem | statement | for every |
|---|---|---|
| `StdioProofs`: `OneBufferIsEnough`, `WholeLinesAreShown`, `NothingIsForgotten` | `Spec => []BufferShared`, `[]LinesFlushed`, `[]NothingPending` | buffer size, file, sequence of calls, number of faults |
| `StdioProofs`: `StreamsAreFiles` | `Spec => ImplementsByteStream`: a stream that no error has met behaves like the file itself | the same |
| `ShExecProofs`: `ProgramsHoldTheirPipes`, `ShellReturnsClean` | `Spec => []OnlyItsPipes`, `[]CleanReturn` | length of the pipeline, pipe capacity, number of bytes and interrupts |
| `ShExecProofs`: `NeighboursMeetTheEnd` | `Spec => []NoForgottenEnd`: when the shell waits and the children have set themselves up, a pipe is held by its neighbours only. This is why `PipelineFinishes` holds | the same |
| `HarnessProofs`: `HarnessIsSound` | `HarnessConstants => (Spec => []HarnessSound)` | list of suites, target, number of processes a case starts |
| `AccountsProofs`: `AccountsAreSound` | `AccountsConstants => (Spec => []AccountsSound)` | account files, set of processes and of passwords |
| `UserProgramsProofs`: `RelayIsFaithful` | `RelayConstants => (Spec => []RelayFaithful)`, of `Relay` | length of input, buffer, queue |
| `FileTreeProofs`: `RemovesOnlyOperands` | `Spec => [](Removing \/ MovesOne \/ CopiesOnly => LinksNotFollowed)` | tree and links, number of rm or cp that run together, operands, faults |
| `FileTreeProofs`: `RmSuccessIsReal` | `Spec => [](Removing => SuccessIsReal)` | the same |

`StdioAssumption` is an ASSUME of `Stdio`, `FileTreeAssumption` one of `FileTree`: an
entry of a tree is in a directory of it, and a link leads to no other link, because
`Resolve` follows one. `HarnessConstants`, `AccountsConstants`,
`RelayConstants` and `HttpConstants` say what the constants are (sequences of lines,
numbers that are not zero, finite sets); they are hypotheses of the theorems about
one module, and `ProgramsAssumption` of `UserPrograms`, which TLC evaluates, assumes
them of the constants of the run.

`UserProgramsProofs` proves the same of the programs as `MCPrograms` runs them, and
two more:

| theorem | statement | for every |
|---|---|---|
| `ProgramsHarnessSound`, `ProgramsAccountsSound`, `ProgramsRelayFaithful` | `Spec => []HarnessSound`, `[]AccountsSound`, `[]RelayFaithful`, of `UserPrograms` | as above |
| `ProgramsOneShell` | `Spec => []OneShell` | file system that init finds, number of orphans |
| `ProgramsHttpExact` | `Spec => []HttpExact` | request, file, limits of httpd and size of httpget's buffer, and every cut of the stream into segments |

A program that was not started is at rest, where it can take no step and satisfies
its property as it is (`HarnessStays`, `HarnessAtRest` and so on); one that was keeps
its invariant, and `OneAtATime` says that a step of `UserPrograms` is a step of each
of its programs or leaves it alone. The proofs about `Harness` and `Accounts`
extend these modules, so `UserProgramsProofs` takes them as instances `HP`, `AP` beside
the `H`, `A` of `UserPrograms`; `SameHarness` and `SameAccounts` show that both mean the
same. The proofs about `Relay`, `Supervisor` and `Http` are about the instances `R`, `I`
and `W` themselves.

The inductive invariants, each checked by TLC before it was proved and called `IInv`
where no other name is given:

- `StdioProofs`. The three properties hold together: `NothingPending` at exit needs
  that a failed flush is on record, `LinesFlushed` that the buffer is empty or the
  error flag is set after every flush. `IInv` says that the stream is in order
  between calls (`Io`): the bytes read ahead are those the file has before the
  descriptor's offset (`Mirrors`), one of the buffers is empty, and an error flag
  that is set is known to the history variable. Every function of the library is
  shown to take a stream in order to one in order, through the states in the
  middle of a call: `Writing` inside `file_write`, `Reading` inside the loops of
  fgets and getdelim. For the refinement, `Whole(x)` and `Place(x)` of `Stdio` are
  the file and the position that the buffers of a stream x stand for, and `RInv`
  adds to `IInv` that a stream that met the end of its file is still there
  (`EofOK`), without which fgetc could refuse bytes. Flushing and giving back the
  read-ahead leave `Whole` and `Place` as they are (`FlushSame`, `PurgeSame`); a
  byte put in the buffer is one more byte of `Whole` (`AppendSame`), so the loop of
  file_write writes what one write of the file would (`PutBytesSame`); a read
  returns `Following`, the bytes after `Place` (`ReadBytesSame`); the rounds of
  fgets keep the part of the line read so far (`LineSoFar`) and end with the line of
  `ByteStream` (`GetLineSame`). Each action then maps to the action of the same
  name, and every step after an error to any step, as `ByteStream` says.
- `ShExecProofs`. `KidsOK` says of every child which pipe ends it has at each stage
  of its set-up, `ShellOK` for each place of `sh_pipeline_exec` which children exist
  and which are reaped.
- `HarnessProofs`. `Counted` accounts for every case before the one at work: it is
  in the log, or its unit is marked as failed. `ChildOK` ties the place in
  `wait_for_child` to the state of the child and of its group.
- `AccountsProofs`. `IInv` is `Undamaged => Good`: as long as no two updates overlapped, no
  read failed and no torn file was put in place, one process at most is in `update_shadow`
  (`OneUpdate`), and `ProcOK` says what the two files are at each of its calls. `Copies`
  follows the stream: the lines written so far are the first lines of the shadow file with
  the user's replaced, and a line that a failed write left in the buffer (`pending`) is
  the next one, of which the file has nothing or a torn part. A file that is neither torn
  nor short of a line (`Spoilt`) is the whole shadow file with one line replaced when
  rename comes. The temporary file a killed process leaves behind is not excluded.
- `ProgramsOneShell`. `SetUp(i, f)` says what the file system f has once the first i of
  the 28 calls of `setup_users` are made: each line begins at the call that establishes
  it and no later call undoes it (`CallSetsUp`), whichever of the paths exist.
  `InitInv` adds that a shell exists only while init waits.
- `ProgramsHttpExact`. `Sent` is what httpd has sent so far of the answer to a file
  nobody touches. `ClientOK` says that httpget has read its first `received` bytes, that
  the rest is on its way, and that what it has printed begins behind a header end; the
  right one, unless a segment ended inside it. A header end found in a segment is never
  before the real one, and a segment that holds its last four bytes finds it there
  (`WhereHeaderEnds`). The lemmas about `Cut` are the calculus of the pieces of a
  sequence that `Reading` and `Sending` need.
- `RelayIsFaithful`. In `RelayInv`, `Flow` accounts for every byte between one standard
  input and the other standard output, `Unbroken` says how the two sides end when
  nothing fails, `UdpOK` where the one datagram is.
- `FileTreeProofs`. Neither property is inductive: what a removal takes next depends on
  the frames of its stack, and what a frame's path names depends on links that another
  rm may have removed. `astray`, the directories to which links lead that readlink
  failed on, only grows, and `Under` is what lies beneath an operand or beneath one of
  them. `RmInv` says that the tree is rooted and that what is a link in it, or was one,
  is that link in both trees (`Gentle`), that what is missing lies beneath an operand or
  astray (`OnlyOperands`), and that every frame of an rm is in `Removal`: its path led
  to an entry at or beneath the operand, or beneath a directory astray, in the tree rm
  found, and one that lists or removes a directory did not lead to a link that was seen
  to be one. `SameEntry` and `ResolveSame` say that a path still names the entry it
  named at the start, whatever is missing above it; with that `RemovalStep` shows that a
  system call of remove_path removes nothing, or one entry of those that holds no other,
  and that a frame that returns success leaves no such entry (`IsGone`), or is about a
  link to nothing that readlink failed on (`Overlooked`). Other processes can only
  remove more, so it stays gone. `CpInv`: files and directories are added, links stay
  what they are, and a frame that writes has a file open (`Tidy`, `Copying`,
  `CopyStep`). `MvInv` follows move_one through its places: until rename has been tried
  the tree is the one mv found; the copy only adds to it (`Grows`), so that what is
  removed after it, the source or the copy, is `Removal` again. `RenameFacts`: a rename
  takes away only what it moves, which is beneath the operand.

  The scopes are those in which the property is true for every tree.
  `LinksNotFollowed` is false of mv with several operands where one moves a link over
  a link that a later operand is reached through, as in `mv b/l dest/l/x dest`: the
  second operand is then found in another directory than the names meant at first.
  Nothing is wrong with that, but the entry is named after the tree mv found.

`NatFacts`. The induction theorems of the library have an operator as parameter,
which the provers cannot instantiate. `NatFacts` proves induction as a fact about
sets of numbers (from the well-foundedness of finite subsets) and from it that
every recursion over an index has a solution. What loops compute is proved with
it: `run_group`, `getgrouplist` and `setup_users`, the loop of `file_write`, the loop of
`fgets`, the list of a class, the sum of the cache, and where a path leads.

Only model-checked: the rest of `FileTree`; `ShLine`, `Xargs`, `Resolver`, `Editor`,
`ShEdit` and the compiler.

- `FileTree`. `NothingLost`, and `SuccessIsReal` of mv and cp. The properties state for
  which trees and operands they are meant (`Apart`, `PlainGoal`, `ReadsApart`); a theorem
  needs, for cp and mv, that each file copied so far has its data, through a list of
  directories read in any number of parts.
- `ShLine`. Lexer and parser are recursive functions over the text; that they read
  every line as their reference does (`ParserExact`, `QuotingExact`) is an induction
  over that text which follows two programs at once.
- `Xargs` (`ArgumentsOnce`) and `Resolver` (`AnswersMatch`) compare a loop over
  characters, or the bytes of a message, with another definition of the same thing, by
  folds of the community modules that the provers know nothing of.
- `Editor`, `ShEdit`: `EditorSound` is true of files whose lines do not end in CR
  before the save that normalises them, as those of the run; what it is in general is
  a property of the conversion.
- The compiler's lexer, parser, code generator and macro expander are RECURSIVE
  operators, which take the SMT backend away.
- Liveness (`PipelineFinishes`, `CommandsFinish`, `ProgramsProgress`,
  `EditorsRespond`) is out of the prover's reach.

## 5. Plan

Done, in this order: the allocator with its proofs; streams; pipelines; the shell
language; cp, mv, rm; supervision (init, brktest, xargs); accounts; network; the
editors; the compiler.

Left: the shell's read-ahead on stdin (`Stdio` and `ShExec` over one descriptor);
the caller's buffer in `getdelim`; formatted output as operators with a reference.

What is proved and what is not, and why, is in section 4. The theorems that would
come next: `SuccessIsReal` of mv and cp, and `NothingLost` from it, for the trees and operands
they state; `ArgumentsOnce` of `Xargs`, with the loop of
`split_tokens` written as a recursive function so that `NatFacts` applies; then `AnswersMatch` of
`Resolver`.

## 6. Not modelled

The kernel, beyond what the code asks of it. Formatted output, option and number
parsing, and the functions of string.h, ctype.h and time.h: they are functions of
their input and are better tested. The filters (ls, sed, find, dd, grep, sort and
so on) and tee: loops that keep little between two lines. Screen drawing, messages, file
modes other than the ones init sets. Failing allocations outside of the allocator,
the pipelines and edit. The brktest suites, which test the kernel, and the build
scripts. Of the compiler: how the parameters of a `#define` are read, character
constants in `#if`, the driver's options, the bits of instructions and the ELF
headers.
