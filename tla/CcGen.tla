------------------------------- MODULE CcGen -------------------------------
(***************************************************************************)
(* The code generator of the C compiler (cc/codegen.c, cc/emit.c): typed   *)
(* nodes to RISC-V instructions, forward jumps through labels and fixups,  *)
(* references to symbols through relocations.                              *)
(*                                                                         *)
(* The emitter's globals are one record g.  An instruction is a record of  *)
(* its fields; its bit layout (enc_r .. enc_j) is left out.  An operator   *)
(* named i_* gives the instructions the function of that name emits.       *)
(***************************************************************************)
EXTENDS CcParse

X0 == 0
RA == 1
SP == 2
T0 == 5
T1 == 6
T2 == 7
S0 == 8
A0 == 10
A1 == 11
A2 == 12
A7 == 17
T3 == 28
T6 == 31

\* The kernel's numbers (uapi/syscall.h); any distinct ones do.
Syscall == ("exit" :> 1) @@ ("write" :> 2) @@ ("read" :> 3) @@ ("open" :> 4)
               @@ ("close" :> 5)

I(op, rd, rs1, rs2, imm) ==
    [op |-> op, rd |-> rd, rs1 |-> rs1, rs2 |-> rs2, imm |-> imm]
Imm(op, rd, rs, imm) == <<I(op, rd, rs, X0, imm)>>
Reg(op, rd, rs1, rs2) == <<I(op, rd, rs1, rs2, 0)>>
Store(op, rs2, rs1, imm) == <<I(op, X0, rs1, rs2, imm)>>

FitsImm(v) == -(2^(ImmBits - 1)) <= v /\ v < 2^(ImmBits - 1)
ByteOf(v, i) == (Unsigned(v) \div 2^(i * ByteBits)) % 2^ByteBits
\* The eight bytes of v shifted in one by one, the highest first.
Bytewise(rd, v) ==
    Imm("addi", rd, X0, 0)
        \o FlattenSeq([k \in 1 .. 8 |-> Imm("slli", rd, rd, ByteBits)
                                            \o Imm("ori", rd, rd, ByteOf(v, 8 - k))])
i_addi(rd, rs, imm) ==
    IF FitsImm(imm) THEN Imm("addi", rd, rs, imm)
    ELSE Bytewise(T6, imm) \o Reg("add", rd, rs, T6)
Hi(v) == (v + 2^(ImmBits - 1)) \div 2^ImmBits
i_li(rd, v) ==
    IF FitsImm(v) THEN Imm("addi", rd, X0, v)
    ELSE IF Sext(v, 4) = v
    THEN Imm("lui", rd, X0, Hi(v)) \o Imm("addiw", rd, rd, v - Hi(v) * 2^ImmBits)
    ELSE Bytewise(rd, v)
i_mv(rd, rs) == i_addi(rd, rs, 0)
i_seqz(rd, rs) == Imm("sltiu", rd, rs, 1)
i_snez(rd, rs) == Reg("sltu", rd, X0, rs)
i_ret == Imm("jalr", X0, RA, 0)
i_ecall == <<I("ecall", X0, X0, X0, 0)>>
Jal(rd, imm) == Imm("jal", rd, X0, imm)

----------------------------------------------------------------------------
(* Labels, fixups and relocations.                                         *)

\* The unit parsed in s, before any code.
Emitter(s) ==
    [code |-> <<>>, nlabels |-> s.nlabels, labels |-> <<>>, fixups |-> <<>>,
     relocs |-> <<>>, brk |-> -1, cont |-> -1, clabels |-> <<>>, fn |-> "",
     syms |-> s.syms, globals |-> s.globals, aggs |-> s.aggs, err |-> s.err,
     puts |-> 0, memcpy |-> 0, memset |-> 0]
Emit(g, is) == [g EXCEPT !.code = @ \o is]
Here(g) == 4 * Len(g.code)
Stop(g) == [g EXCEPT !.err = TRUE]

NewLabels(g, k) == [g EXCEPT !.nlabels = @ + k]
place_label(g, l) == [g EXCEPT !.labels = (l :> Here(g)) @@ @]
add_fixup(g, l) == Emit([g EXCEPT !.fixups = <<[pos |-> Here(g), label |-> l]>> \o @],
                        Jal(X0, 0))
jump_to(g, l) == add_fixup(g, l)
\* A branch over the jump, so that any distance a jal has can be reached.
jump_if_zero(g, r, l) == add_fixup(Emit(g, <<I("bne", X0, r, X0, 8)>>), l)
jump_if_nonzero(g, r, l) == add_fixup(Emit(g, <<I("beq", X0, r, X0, 8)>>), l)
patch_fixups(g) ==
    IF \E f \in Range(g.fixups) : f.label \notin DOMAIN g.labels THEN Stop(g)
    ELSE [g EXCEPT !.fixups = <<>>,
             !.code = FoldLeft(LAMBDA c, f :
                          [c EXCEPT ![f.pos \div 4 + 1].imm = g.labels[f.label] - f.pos],
                          @, g.fixups)]

add_reloc(g, kind, sym) ==
    [g EXCEPT !.relocs = <<[pos |-> Here(g), kind |-> kind, sym |-> sym, addend |-> 0]>> \o @]
i_la(g, rd, sym) ==
    Emit(add_reloc(Emit(add_reloc(g, "HI20", sym), Imm("lui", rd, X0, 0)), "LO12I", sym),
         Imm("addi", rd, rd, 0))
i_call_sym(g, sym) == Emit(add_reloc(g, "JAL", sym), Jal(RA, 0))

----------------------------------------------------------------------------
(* Values.  The stack grows by 16 for every value pushed.                  *)

push_reg(r) == i_addi(SP, SP, -16) \o Store("sd", r, SP, 0)
pop_reg(r) == Imm("ld", r, SP, 0) \o i_addi(SP, SP, 16)

ShiftPair(bits, right) == Imm("slli", A0, A0, bits) \o Imm(right, A0, A0, bits)
cast_to(ty) ==
    CASE ty.kind \in {"void", "ptr", "array", "func"} \/ ty.size = 8 -> <<>>
      [] ty.size = 1 /\ ty.kind # "void" ->
            IF ty.uns THEN Imm("andi", A0, A0, 2^ByteBits - 1)
            ELSE ShiftPair(7 * ByteBits, "srai")
      [] ty.size = 2 -> ShiftPair(6 * ByteBits, IF ty.uns THEN "srli" ELSE "srai")
      [] ty.size = 4 -> IF ty.uns THEN ShiftPair(4 * ByteBits, "srli")
                        ELSE Imm("addiw", A0, A0, 0)
      [] OTHER -> <<>>

LoadOp(size, uns) == CASE size = 1 -> IF uns THEN "lbu" ELSE "lb"
                       [] size = 2 -> IF uns THEN "lhu" ELSE "lh"
                       [] size = 4 -> IF uns THEN "lwu" ELSE "lw"
                       [] size = 8 -> "ld"
StoreOp(size) == CASE size = 1 -> "sb" [] size = 2 -> "sh" [] size = 4 -> "sw"
                   [] size = 8 -> "sd"
load_value(ty) == IF ty.kind \in {"array", "func", "void", "struct", "union"} THEN <<>>
                  ELSE Imm(LoadOp(ty.size, ty.uns), A0, A0, 0)
store_value(ty) == Store(StoreOp(ty.size), A1, A0, 0)

\* What one step of a pointer adds to it.
type_step(g, ty) == IF decay(ty).kind = "ptr" THEN SizeOf(g.aggs, decay(ty).base) ELSE 1
Scaled(step, r) == IF step = 1 THEN <<>> ELSE i_li(T0, step) \o Reg("mul", r, r, T0)

RECURSIVE gen_expr(_, _), gen_addr(_, _), gen_stmt(_, _)
gen_addr(g, n) ==
    CASE n.kind = "var" -> IF n.local THEN Emit(g, i_addi(A0, S0, -n.off))
                           ELSE i_la(g, A0, g.globals[n.name].sym)
      [] n.kind = "deref" -> gen_expr(g, n.lhs)
      [] n.kind = "member" ->
            Emit(gen_addr(g, n.lhs),
                 IF n.offset # 0 THEN i_addi(A0, A0, n.offset) ELSE <<>>)
      [] OTHER -> Stop(g)

\* Both operands: the left one in a0, the right one in a1.
Operands(g, n) ==
    Emit(gen_expr(Emit(gen_expr(g, n.lhs), push_reg(A0)), n.rhs),
         i_mv(A1, A0) \o pop_reg(A0))

\* The instruction of an operator, by whether it works on unsigned operands.
OpCode(op, uns) ==
    CASE op = "+" -> "add" [] op = "-" -> "sub" [] op = "*" -> "mul"
      [] op = "/" -> IF uns THEN "divu" ELSE "div"
      [] op = "%" -> IF uns THEN "remu" ELSE "rem"
      [] op = "&" -> "and" [] op = "|" -> "or" [] op = "^" -> "xor"
      [] op = "<<" -> "sll" [] op = ">>" -> IF uns THEN "srl" ELSE "sra"
CompareCode(op, slt) ==
    CASE op = "==" -> Reg("xor", A0, A0, A1) \o i_seqz(A0, A0)
      [] op = "!=" -> Reg("xor", A0, A0, A1) \o i_snez(A0, A0)
      [] op = "<" -> Reg(slt, A0, A0, A1)
      [] op = ">" -> Reg(slt, A0, A1, A0)
      [] op = "<=" -> Reg(slt, A0, A1, A0) \o Imm("xori", A0, A0, 1)
      [] op = ">=" -> Reg(slt, A0, A0, A1) \o Imm("xori", A0, A0, 1)

\* Arithmetic on pointers scales the integer, or divides the difference.
PointerCode(g, n, lt, rt) ==
    IF is_ptr_like(lt) /\ is_ptr_like(rt)
    THEN Reg("sub", A0, A0, A1)
             \o (IF type_step(g, lt) = 1 THEN <<>>
                 ELSE i_li(A1, type_step(g, lt)) \o Reg("div", A0, A0, A1))
    ELSE IF is_ptr_like(lt)
    THEN Scaled(type_step(g, lt), A1) \o Reg(OpCode(n.kind, FALSE), A0, A0, A1)
    ELSE Scaled(type_step(g, rt), A0) \o Reg("add", A0, A1, A0)
BinCode(g, n, lt, rt, uns) ==
    CASE n.kind \in CmpOps -> CompareCode(n.kind, IF uns THEN "sltu" ELSE "slt")
      [] n.kind \in {"+", "-"} /\ (is_ptr_like(lt) \/ is_ptr_like(rt)) ->
            PointerCode(g, n, lt, rt) \o cast_to(n.ty)
      [] n.kind = ">>" -> Reg(OpCode(">>", lt.uns), A0, A0, A1) \o cast_to(n.ty)
      [] OTHER -> Reg(OpCode(n.kind, uns), A0, A0, A1) \o cast_to(n.ty)
GenBin(g, n, lt, rt) ==
    Emit(Operands(g, n), BinCode(g, n, lt, rt, lt.uns \/ rt.uns))
gen_bin(g, n) == GenBin(g, n, decay(n.lhs.ty), decay(n.rhs.ty))

gen_assign(g, n) ==
    IF is_aggregate(n.lhs.ty)
    THEN i_call_sym(Emit(gen_expr(Emit(gen_addr(g, n.lhs), push_reg(A0)), n.rhs),
                         i_mv(A1, A0) \o pop_reg(A0)
                             \o i_li(A2, SizeOf(g.aggs, n.lhs.ty))), g.memcpy)
    ELSE Emit(gen_expr(Emit(gen_addr(g, n.lhs), push_reg(A0)), n.rhs),
              i_mv(A1, A0) \o pop_reg(A0) \o store_value(n.lhs.ty)
                  \o i_mv(A0, A1) \o cast_to(n.lhs.ty))

\* Division and remainder in place are the signed ones, whatever the type.
gen_opassign(g, n) ==
    Emit(gen_expr(Emit(gen_addr(g, n.lhs),
                       push_reg(A0) \o load_value(n.lhs.ty) \o push_reg(A0)), n.rhs),
         i_mv(A1, A0) \o pop_reg(A0)
             \o (IF n.op \in {"+", "-"} /\ is_ptr_like(n.lhs.ty)
                 THEN Scaled(type_step(g, n.lhs.ty), A1) ELSE <<>>)
             \o Reg(OpCode(n.op, n.op = ">>" /\ n.lhs.ty.uns), A0, A0, A1)
             \o push_reg(A0) \o pop_reg(A1) \o pop_reg(A0) \o store_value(n.lhs.ty)
             \o i_mv(A0, A1) \o cast_to(n.lhs.ty))

gen_incdec(g, n) ==
    Emit(gen_addr(g, n.lhs),
         push_reg(A0) \o load_value(n.lhs.ty) \o push_reg(A0)
             \o (IF type_step(g, n.lhs.ty) # 1
                 THEN i_li(T0, type_step(g, n.lhs.ty) * n.val) \o Reg("add", A0, A0, T0)
                 ELSE i_addi(A0, A0, n.val))
             \o push_reg(A0) \o pop_reg(A1) \o pop_reg(T0) \o pop_reg(T1)
             \o i_mv(A0, T1) \o store_value(n.lhs.ty)
             \o i_mv(A0, IF n.kind = "preinc" THEN A1 ELSE T0) \o cast_to(n.lhs.ty))

----------------------------------------------------------------------------
(* Calls.  A name this unit does not define, if it is one of a few, is not *)
(* called but expanded in place.                                           *)

SystemCall(name) == i_li(A7, Syscall[name]) \o i_ecall
RECURSIVE GenArgs(_, _)
GenArgs(g, args) ==
    IF args = <<>> THEN g
    ELSE GenArgs(Emit(gen_expr(g, args[1]), push_reg(A0)), Tail(args))
PopArgs(k) == FlattenSeq([i \in 1 .. k |-> pop_reg(A0 + k - i)])
Builtin(g, n, name) == n.direct /\ ~g.globals[n.fn.name].defined /\ n.fn.name = name

putchar(g, n) ==
    IF Len(n.args) # 1 THEN Stop(g)
    ELSE Emit(gen_expr(g, n.args[1]),
              i_addi(SP, SP, -16) \o Store("sb", A0, SP, 0) \o i_li(A0, 1)
                  \o i_mv(A1, SP) \o i_li(A2, 1) \o SystemCall("write")
                  \o i_addi(SP, SP, 16))
puts(g, n) == IF Len(n.args) # 1 THEN Stop(g)
              ELSE i_call_sym(gen_expr(g, n.args[1]), g.puts)
\* The unnamed arguments follow the parameters in the saved registers.
va_start(g) ==
    IF g.fn = "" \/ g.globals[g.fn].va = 0 THEN Stop(g)
    ELSE Emit(g, i_addi(A0, S0, Len(g.globals[g.fn].params) * 8 - g.globals[g.fn].va))
CallSyscall(g, n, name) ==
    Emit(g, (IF name = "exit" /\ n.args = <<>> THEN i_li(A0, 0) ELSE <<>>)
                \o (IF name = "open" /\ Len(n.args) < 3 THEN i_li(A2, 0) ELSE <<>>)
                \o SystemCall(name)
                \o (IF name = "exit" THEN Jal(X0, 0) ELSE <<>>))
Narrow(ty) == IF ty.size < 8 THEN cast_to(ty) ELSE <<>>
\* The return type is the one known now: the call may precede the definition.
CallDirect(g, n) ==
    Emit(i_call_sym(g, g.globals[n.fn.name].sym), Narrow(g.globals[n.fn.name].ty.base))
CallIndirect(g, n) ==
    Emit(g, pop_reg(T2) \o Imm("jalr", RA, T2, 0) \o Narrow(n.ty))
CallWith(g, n) ==
    CASE ~n.direct -> CallIndirect(g, n)
      [] n.direct /\ \E name \in DOMAIN Syscall : Builtin(g, n, name) ->
            CallSyscall(g, n, n.fn.name)
      [] OTHER -> CallDirect(g, n)
gen_call(g, n) ==
    CASE n.direct /\ n.fn.name = "__builtin_va_start" -> va_start(g)
      [] Builtin(g, n, "putchar") -> putchar(g, n)
      [] Builtin(g, n, "puts") -> puts(g, n)
      [] OTHER ->
            CallWith(Emit(GenArgs(IF n.direct THEN g
                                  ELSE Emit(gen_expr(g, n.fn), push_reg(A0)), n.args),
                          PopArgs(Len(n.args))), n)

----------------------------------------------------------------------------
(* Expressions.  l is the first of the labels an operator takes.           *)

gen_cond(g, n, l) ==
    place_label(gen_expr(place_label(jump_to(
        gen_expr(jump_if_zero(gen_expr(NewLabels(g, 2), n.cond), A0, l), n.then),
        l + 1), l), n.els), l + 1)
\* Both operands are tested; `out` is what reaching the first label means.
ShortCircuit(g, l, out) ==
    place_label(Emit(place_label(jump_to(Emit(g, i_li(A0, 1 - out)), l + 1), l),
                     i_li(A0, out)), l + 1)
gen_logand(g, n, l) ==
    ShortCircuit(jump_if_zero(gen_expr(
        jump_if_zero(gen_expr(NewLabels(g, 2), n.lhs), A0, l), n.rhs), A0, l), l, 0)
gen_logor(g, n, l) ==
    ShortCircuit(jump_if_nonzero(gen_expr(
        jump_if_nonzero(gen_expr(NewLabels(g, 2), n.lhs), A0, l), n.rhs), A0, l), l, 1)

gen_expr(g, n) ==
    CASE n.kind \in {"null", "none"} -> g
      [] n.kind = "num" -> Emit(g, i_li(A0, n.val))
      [] n.kind = "str" -> i_la(g, A0, n.sym)
      [] n.kind = "var" -> IF n.fn THEN i_la(g, A0, g.globals[n.name].sym)
                           ELSE Emit(gen_addr(g, n), load_value(n.ty))
      [] n.kind = "deref" -> Emit(gen_expr(g, n.lhs), load_value(n.ty))
      [] n.kind = "member" -> Emit(gen_addr(g, n), load_value(n.ty))
      [] n.kind = "addr" -> gen_addr(g, n.lhs)
      [] n.kind = "assign" -> gen_assign(g, n)
      [] n.kind = "opassign" -> gen_opassign(g, n)
      [] n.kind \in {"preinc", "postinc"} -> gen_incdec(g, n)
      [] n.kind = "cast" -> Emit(gen_expr(g, n.lhs), cast_to(n.ty))
      [] n.kind = "comma" -> gen_expr(gen_expr(g, n.lhs), n.rhs)
      [] n.kind = "cond" -> gen_cond(g, n, g.nlabels)
      [] n.kind = "&&" -> gen_logand(g, n, g.nlabels)
      [] n.kind = "||" -> gen_logor(g, n, g.nlabels)
      [] n.kind = "neg" -> Emit(gen_expr(g, n.lhs), Reg("sub", A0, X0, A0) \o cast_to(n.ty))
      [] n.kind = "not" -> Emit(gen_expr(g, n.lhs), i_seqz(A0, A0))
      [] n.kind = "bitnot" -> Emit(gen_expr(g, n.lhs), Imm("xori", A0, A0, -1))
      [] n.kind = "call" -> gen_call(g, n)
      [] OTHER -> gen_bin(g, n)

----------------------------------------------------------------------------
(* Statements.                                                             *)

\* mv sp, s0 frees the frame before ra and s0 are read back from it.
Epilogue == i_mv(SP, S0) \o Imm("ld", RA, SP, -8) \o Imm("ld", S0, SP, -16) \o i_ret

gen_if(g, n, l) ==
    IF n.els.kind = "none"
    THEN place_label(gen_stmt(jump_if_zero(gen_expr(NewLabels(g, 2), n.cond), A0, l),
                              n.then), l)
    ELSE place_label(gen_stmt(place_label(jump_to(
             gen_stmt(jump_if_zero(gen_expr(NewLabels(g, 2), n.cond), A0, l), n.then),
             l + 1), l), n.els), l + 1)

\* A loop takes k labels; break goes to the last, continue to cont.
InLoop(g, k, cont) == [NewLabels(g, k) EXCEPT !.brk = g.nlabels + k - 1, !.cont = cont]
OutLoop(g, old) == [g EXCEPT !.brk = old.brk, !.cont = old.cont]
gen_while(g, n, l) ==
    OutLoop(place_label(jump_to(gen_stmt(jump_if_zero(gen_expr(
        place_label(InLoop(g, 2, l), l), n.cond), A0, l + 1), n.body), l), l + 1), g)
ForTest(g, n, l) == IF n.cond.kind = "none" THEN g
                    ELSE jump_if_zero(gen_expr(g, n.cond), A0, l + 2)
\* Mutant: continue goes to the test and not to the increment.
MutFor(g, n, l) ==
    OutLoop(place_label(jump_to(gen_expr(place_label(gen_stmt(ForTest(
        place_label(gen_stmt(InLoop(g, 3, l), n.init), l), n, l), n.body), l + 1),
        n.inc), l), l + 2), g)
gen_for(g, n, l) ==
    OutLoop(place_label(jump_to(gen_expr(place_label(gen_stmt(ForTest(
        place_label(gen_stmt(InLoop(g, 3, l + 1), n.init), l), n, l), n.body), l + 1),
        n.inc), l), l + 2), g)
gen_do(g, n, l) ==
    OutLoop(place_label(jump_if_nonzero(gen_expr(place_label(gen_stmt(
        place_label(InLoop(g, 3, l + 1), l), n.body), l + 1), n.cond), A0, l), l + 2), g)

\* The cases are compared newest first, and the default goes last.
CaseTest(g, e) ==
    IF e.kind = "default" THEN g
    ELSE add_fixup(Emit(g, i_li(T0, e.val) \o <<I("bne", X0, A1, T0, 8)>>), e.label)
Defaults(cases) == SelectSeq(cases, LAMBDA e : e.kind = "default")
gen_switch(g, n, l) ==
    OutLoop(place_label(gen_stmt(
        [jump_to(FoldLeft(CaseTest, Emit(gen_expr(NewLabels(g, 1), n.cond), i_mv(A1, A0)),
                          n.cases),
                 IF Defaults(n.cases) = <<>> THEN l ELSE Defaults(n.cases)[1].label)
            EXCEPT !.brk = l], n.body), l), g)

clabel_get(g, name) ==
    IF name \in DOMAIN g.clabels THEN g
    ELSE [NewLabels(g, 1) EXCEPT !.clabels = (name :> g.nlabels) @@ @]
Goto(g, name) == jump_to(g, g.clabels[name])
Label(g, n) == IF g.clabels[n.name] \in DOMAIN g.labels THEN Stop(g)
               ELSE gen_stmt(place_label(g, g.clabels[n.name]), n.body)

gen_stmt(g, n) ==
    CASE n.kind \in {"null", "none"} -> g
      [] n.kind = "memzero" ->
            i_call_sym(Emit(gen_addr(g, n.lhs), i_li(A1, 0) \o i_li(A2, n.val)), g.memset)
      [] n.kind = "block" -> FoldLeft(gen_stmt, g, n.body)
      [] n.kind = "expr" -> gen_expr(g, n.lhs)
      [] n.kind = "return" -> Emit(gen_expr(g, n.lhs), Epilogue)
      [] n.kind = "if" -> gen_if(g, n, g.nlabels)
      [] n.kind = "while" -> gen_while(g, n, g.nlabels)
      [] n.kind = "for" -> gen_for(g, n, g.nlabels)
      [] n.kind = "do" -> gen_do(g, n, g.nlabels)
      [] n.kind = "break" -> IF g.brk < 0 THEN Stop(g) ELSE jump_to(g, g.brk)
      [] n.kind = "continue" -> IF g.cont < 0 THEN Stop(g) ELSE jump_to(g, g.cont)
      [] n.kind = "switch" -> gen_switch(g, n, g.nlabels)
      [] n.kind \in {"case", "default"} -> gen_stmt(place_label(g, n.label), n.body)
      [] n.kind = "goto" -> Goto(clabel_get(g, n.name), n.name)
      [] n.kind = "label" -> Label(clabel_get(g, n.name), n)

----------------------------------------------------------------------------
(* Functions and the runtime.                                              *)

emit_prologue(f) ==
    i_mv(T0, S0) \o i_addi(SP, SP, -f.frame) \o i_addi(S0, SP, f.frame)
        \o Store("sd", RA, S0, -8) \o Store("sd", T0, S0, -16)
        \o FlattenSeq([i \in DOMAIN f.params |->
               i_addi(T0, S0, -f.params[i]) \o Store("sd", A0 + i - 1, T0, 0)])
        \o (IF f.va = 0 THEN <<>>
            ELSE i_addi(T0, S0, -f.va)
                     \o FlattenSeq([i \in 1 .. 8 |->
                            Store("sd", A0 + i - 1, T0, (i - 1) * 8)]))

check_clabels(g) ==
    IF \E name \in DOMAIN g.clabels : g.clabels[name] \notin DOMAIN g.labels THEN Stop(g)
    ELSE g
FunctionEnd(g) == patch_fixups(Emit(check_clabels(g), i_li(A0, 0) \o Epilogue))
gen_function(g, name) ==
    FunctionEnd(gen_stmt(
        Emit([g EXCEPT !.syms[g.globals[name].sym].offset = Here(g), !.clabels = <<>>,
                       !.fn = name], emit_prologue(g.globals[name])),
        g.globals[name].body))

\* A symbol of the runtime, undefined in a unit that only refers to it.
RuntimeSym(g, name, defined) ==
    [g EXCEPT !.syms = Append(@, [name |-> <<name, 0>>, sec |-> "text", size |-> 0, align |-> 4,
        offset |-> Here(g), defined |-> defined, static |-> FALSE, init |-> <<>>,
        drel |-> <<>>])]
make_runtime_refs(g) ==
    [RuntimeSym(RuntimeSym(RuntimeSym(g, "__cc_puts", FALSE), "__cc_memcpy", FALSE),
                "__cc_memset", FALSE)
        EXCEPT !.puts = Len(g.syms) + 1, !.memcpy = Len(g.syms) + 2,
               !.memset = Len(g.syms) + 3]

RuntimePuts(g, l) ==
    patch_fixups(Emit(place_label(jump_to(Emit(jump_if_zero(Emit(place_label(Emit(
        NewLabels(g, 2), i_mv(T0, A0) \o i_li(T1, 0)), l),
        Reg("add", T2, T0, T1) \o Imm("lbu", T3, T2, 0)), T3, l + 1),
        i_addi(T1, T1, 1)), l), l + 1),
        i_li(A0, 1) \o i_mv(A1, T0) \o i_mv(A2, T1) \o SystemCall("write")
            \o i_addi(SP, SP, -16) \o i_li(T0, 10 % 2^ByteBits)
            \o Store("sb", T0, SP, 0) \o i_li(A0, 1) \o i_mv(A1, SP) \o i_li(A2, 1)
            \o SystemCall("write") \o i_addi(SP, SP, 16) \o i_li(A0, 0) \o i_ret))
\* memcpy and memset: a byte at a time, not entered for zero bytes.
RuntimeLoop(g, l, body) ==
    patch_fixups(Emit(place_label(jump_if_nonzero(Emit(place_label(jump_if_zero(Emit(
        NewLabels(g, 2), i_mv(T0, A0)), A2, l + 1), l), body), A2, l), l + 1), i_ret))
CopyByte == Imm("lbu", T1, A1, 0) \o Store("sb", T1, T0, 0) \o i_addi(A1, A1, 1)
                \o i_addi(T0, T0, 1) \o i_addi(A2, A2, -1)
SetByte == Store("sb", A1, T0, 0) \o i_addi(T0, T0, 1) \o i_addi(A2, A2, -1)
LoopSym(g, name, body) == RuntimeLoop(RuntimeSym(g, name, TRUE), g.nlabels, body)
gen_runtime(g) ==
    LoopSym(LoopSym(RuntimePuts(RuntimeSym(g, "__cc_puts", TRUE), g.nlabels),
                    "__cc_memcpy", CopyByte), "__cc_memset", SetByte)

\* main is a symbol of another unit; here a reference to it by name.
gen_start(g) ==
    Emit(i_call_sym(RuntimeSym(RuntimeSym(g, "__cc_start", TRUE), "main", FALSE),
                    Len(g.syms) + 2),
         SystemCall("exit") \o Jal(X0, 0))
============================================================================
