------------------------------- MODULE CcLink -------------------------------
(***************************************************************************)
(* Units, object files and the linker of the C compiler (cc/link.c, the    *)
(* drivers of cc/main.c): compiled units, or units read back from CCO1     *)
(* object files, laid out in one image with every reference patched.       *)
(***************************************************************************)
EXTENDS CcGen

CONSTANTS UserBase, \* USER_BASE + TEXT_FILE_OFF: where the text starts
          JalRange  \* how far a direct call reaches

ASSUME LinkAssumption == UserBase \in Nat /\ JalRange \in Nat

Indices(q) == [i \in DOMAIN q |-> i]

----------------------------------------------------------------------------
(* finalize_unit: the offsets of the data and bss symbols, and the data.   *)

InSection(y, sec) == y.defined /\ y.sec = sec
\* Mutant: a symbol starts where the one before it ends.
MutOffsets(syms, sec) ==
    FoldLeft(LAMBDA a, y :
        IF InSection(y, sec)
        THEN [end |-> a.end + y.size, syms |-> Append(a.syms, [y EXCEPT !.offset = a.end])]
        ELSE [a EXCEPT !.syms = Append(@, y)],
        [end |-> 0, syms |-> <<>>], syms)
Offsets(syms, sec) ==
    FoldLeft(LAMBDA a, y :
        IF InSection(y, sec)
        THEN [end |-> align_to(a.end, y.align) + y.size,
              syms |-> Append(a.syms, [y EXCEPT !.offset = align_to(a.end, y.align)])]
        ELSE [a EXCEPT !.syms = Append(@, y)],
        [end |-> 0, syms |-> <<>>], syms)
Zeros(n) == [i \in 1 .. n |-> 0]
DataOf(syms) ==
    FoldLeft(LAMBDA d, y :
        IF InSection(y, "data")
        THEN d \o Zeros(align_to(Len(d), y.align) - Len(d))
               \o (IF y.init = <<>> THEN Zeros(y.size) ELSE y.init)
        ELSE d, <<>>, syms)
Finalized(g, data, bss) ==
    [code |-> g.code, syms |-> bss.syms, relocs |-> g.relocs, data |-> data,
     bss_len |-> bss.end, err |-> g.err]
finalize_unit(g) ==
    Finalized(g, DataOf(g.syms), Offsets(Offsets(g.syms, "data").syms, "bss"))

\* compile_source: the functions of the unit, the last declared first.
Functions(s) ==
    SelectSeq(s.order, LAMBDA x : s.globals[x].fn /\ s.globals[x].defined)
CompileUnit(s) ==
    finalize_unit(IF s.err THEN Emitter(s)
                  ELSE FoldLeft(gen_function, make_runtime_refs(Emitter(s)), Functions(s)))
compile_source(toks, unit) == CompileUnit(parse_translation_unit(Start(toks, unit)))
NoUnit == Emitter(Start(<<>>, 0))
RuntimeUnit == finalize_unit(gen_runtime(NoUnit))
StartUnit == finalize_unit(gen_start(NoUnit))

----------------------------------------------------------------------------
(* Object files: the fields of a unit in order, one item for each number,  *)
(* name, byte of data or instruction.                                      *)

HEADER == 8
CCO1 == 79
SymItems(y) == <<y.name, y.sec, y.offset, y.size, y.align, y.defined, y.static>>
Drels(u) ==
    FlattenSeq([i \in DOMAIN u.syms |->
        [j \in DOMAIN u.syms[i].drel |-> <<i, u.syms[i].drel[j]>>]])
write_object(u) ==
    <<CCO1, 1, Len(u.code), Len(u.data), u.bss_len, Len(u.syms), Len(Drels(u)),
      Len(u.relocs)>>
        \o u.code \o u.data \o FlattenSeq([i \in DOMAIN u.syms |-> SymItems(u.syms[i])])
        \o FlattenSeq([i \in DOMAIN Drels(u) |->
               <<Drels(u)[i][1], Drels(u)[i][2].at, Drels(u)[i][2].sym,
                 Drels(u)[i][2].addend>>])
        \o FlattenSeq([i \in DOMAIN u.relocs |->
               <<u.relocs[i].pos, u.relocs[i].kind, u.relocs[i].sym, u.relocs[i].addend>>])

\* Where the parts of a file of that header start.
SymsAt(f) == HEADER + f[3] + f[4]
DrelsAt(f) == SymsAt(f) + 7 * f[6]
RelocsAt(f) == DrelsAt(f) + 4 * f[7]
ReadSym(f, at, drel) ==
    [name |-> f[at + 1], sec |-> f[at + 2], offset |-> f[at + 3], size |-> f[at + 4],
     align |-> f[at + 5], defined |-> f[at + 6], static |-> f[at + 7],
     init |-> <<>>, drel |-> drel]
ReadDrel(f, at) == [at |-> f[at + 2], sym |-> f[at + 3], addend |-> f[at + 4]]
ReadReloc(f, at) ==
    [pos |-> f[at + 1], kind |-> f[at + 2], sym |-> f[at + 3], addend |-> f[at + 4]]
\* Every relocation goes to the front of its list, as the compiler's did.
OwnDrels(f, i) ==
    Reverse(SelectSeq([k \in 1 .. f[7] |-> DrelsAt(f) + 4 * (k - 1)],
                      LAMBDA at : f[at + 1] = i))
SoundObject(f) ==
    /\ Len(f) >= HEADER /\ f[1] = CCO1 /\ f[2] = 1
    /\ Len(f) = RelocsAt(f) + 4 * f[8] \* neither truncated nor trailing data
    /\ \A k \in 1 .. f[7] : /\ f[DrelsAt(f) + 4 * k - 3] <= f[6]
                            /\ f[DrelsAt(f) + 4 * k - 1] <= f[6]
    /\ \A k \in 1 .. f[8] : f[RelocsAt(f) + 4 * k - 1] <= f[6]
read_object(f) ==
    [code |-> SubSeq(f, HEADER + 1, HEADER + f[3]),
     data |-> SubSeq(f, HEADER + f[3] + 1, SymsAt(f)), bss_len |-> f[5],
     syms |-> [i \in 1 .. f[6] |->
                  ReadSym(f, SymsAt(f) + 7 * (i - 1),
                          [k \in DOMAIN OwnDrels(f, i) |-> ReadDrel(f, OwnDrels(f, i)[k])])],
     relocs |-> Reverse([k \in 1 .. f[8] |-> ReadReloc(f, RelocsAt(f) + 4 * (k - 1))]),
     err |-> FALSE]

----------------------------------------------------------------------------
(* link_and_write.                                                         *)

\* The bases of the units in one section, each aligned to 16, and its end.
Bases(lens) ==
    FoldLeft(LAMBDA a, n : [at |-> Append(a.at, align_to(a.end, 16)),
                            end |-> align_to(a.end, 16) + n],
             [at |-> <<>>, end |-> 0], lens)
Layout(text, data, bss) ==
    [text |-> [i \in DOMAIN text.at |-> UserBase + text.at[i]],
     data |-> [i \in DOMAIN data.at |-> align_to(UserBase + text.end, 16) + data.at[i]],
     bss |-> [i \in DOMAIN bss.at |->
                 align_to(align_to(UserBase + text.end, 16) + data.end, 16) + bss.at[i]],
     file_end |-> align_to(UserBase + text.end, 16) + data.end,
     end |-> align_to(align_to(UserBase + text.end, 16) + data.end, 16) + bss.end]
LayoutOf(units) ==
    Layout(Bases([i \in DOMAIN units |-> 4 * Len(units[i].code)]),
           Bases([i \in DOMAIN units |-> Len(units[i].data)]),
           Bases([i \in DOMAIN units |-> units[i].bss_len]))

Addr(lay, i, y) == lay[y.sec][i] + y.offset
\* The external definitions: name, address.  Two of one name are an error.
Exports(units, lay) ==
    UNION {{<<units[i].syms[j].name, i, j, Addr(lay, i, units[i].syms[j])>> :
                j \in {k \in DOMAIN units[i].syms :
                           units[i].syms[k].defined /\ ~units[i].syms[k].static}} :
           i \in DOMAIN units}
Duplicates(exports) == \E a, b \in exports : a[1] = b[1] /\ a # b
\* {the address} of a symbol, or {} if it is undefined everywhere.
resolve_sym(exports, lay, i, y) ==
    IF y.defined THEN {Addr(lay, i, y)} ELSE {e[4] : e \in {x \in exports : x[1] = y.name}}

\* Between two units the file holds zeros: no instruction.
ZeroWord == I("zero", X0, X0, X0, 0)
Lo(v) == v - Hi(v) * 2^ImmBits
\* target gives the address each relocation of the unit refers to.
PatchCode(u, base, target) ==
    FoldLeft(LAMBDA c, r :
        [c EXCEPT ![r.pos \div 4 + 1].imm =
            CASE r.kind = "HI20" -> Hi(target[r])
              [] r.kind = "LO12I" -> Lo(target[r])
              [] r.kind = "JAL" -> target[r] - (base + r.pos)],
        u.code, u.relocs)
PatchData(u, target) ==
    FoldLeft(LAMBDA d, y : FoldLeft(LAMBDA b, r : store_int(b, y.offset + r.at, target[r], 8),
                                    d, y.drel),
             u.data, SelectSeq(u.syms, LAMBDA y : InSection(y, "data")))
DataRelocs(u) == UNION {Range(y.drel) : y \in {x \in Range(u.syms) : InSection(x, "data")}}
\* Every symbol that some relocation of the unit names.
Needed(u) == {r.sym : r \in Range(u.relocs) \cup DataRelocs(u)}
Undefined(units, exports, lay) ==
    \E i \in DOMAIN units : \E j \in Needed(units[i]) :
        resolve_sym(exports, lay, i, units[i].syms[j]) = {}
Target(units, exports, lay, i, r) ==
    (CHOOSE a \in resolve_sym(exports, lay, i, units[i].syms[r.sym]) : TRUE) + r.addend
FarCall(units, exports, lay) ==
    \E i \in DOMAIN units : \E r \in Range(units[i].relocs) :
        /\ r.kind = "JAL"
        /\ Target(units, exports, lay, i, r) - (lay.text[i] + r.pos)
               \notin -JalRange .. JalRange - 1

\* The image: the instructions from UserBase on, the bytes of data and bss.
Padded(q, len, filler) == q \o [i \in 1 .. len - Len(q) |-> filler]
Image(units, exports, lay) ==
    [err |-> FALSE,
     entry |-> CHOOSE a \in {e[4] : e \in {x \in exports : x[1] = <<"__cc_start", 0>>}} : TRUE,
     text |-> FoldLeft(LAMBDA t, i :
                  Padded(t, (lay.text[i] - UserBase) \div 4, ZeroWord)
                      \o PatchCode(units[i], lay.text[i],
                                   [r \in Range(units[i].relocs) |->
                                       Target(units, exports, lay, i, r)]),
                  <<>>, Indices(units)),
     data |-> lay.data[1],
     bytes |-> Padded(FoldLeft(LAMBDA m, i :
                   Padded(m, lay.data[i] - lay.data[1], 0)
                       \o PatchData(units[i], [r \in DataRelocs(units[i]) |->
                                                Target(units, exports, lay, i, r)]),
                   <<>>, Indices(units)), lay.end - lay.data[1], 0)]
NoImage == [err |-> TRUE, entry |-> 0]
Linked(units, exports, lay) ==
    IF \/ \E i \in DOMAIN units : units[i].err
       \/ Duplicates(exports) \/ Undefined(units, exports, lay)
       \/ FarCall(units, exports, lay)
    THEN NoImage ELSE Image(units, exports, lay)
LinkAll(units, lay) == Linked(units, Exports(units, lay), lay)
LinkUnits(units) == LinkAll(units, LayoutOf(units))
WithRuntime(units) == units \o <<RuntimeUnit, StartUnit>>
link_and_write(units) == LinkUnits(WithRuntime(units))
============================================================================
