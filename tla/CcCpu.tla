------------------------------- MODULE CcCpu -------------------------------
(***************************************************************************)
(* The machine the compiled programs run on: RV64 cut to the words of      *)
(* CcTypes, and the two system calls the generated code relies on.  n      *)
(* counts the instructions, so that a program that does not end shows.     *)
(***************************************************************************)
EXTENDS CcLink

CONSTANTS StackTop, StackSize, \* the stack: the bytes below StackTop
          Junk                 \* what the stack holds before it is written

ASSUME CpuAssumption == /\ {StackTop, StackSize} \subseteq Nat /\ StackTop % 16 = 0
                        /\ Junk \in 0 .. 2^ByteBits - 1

Boot(image) ==
    [text |-> image.text, pc |-> image.entry, out |-> <<>>, n |-> 0, status |-> "running",
     mem |-> [a \in image.data .. image.data + Len(image.bytes) - 1 |->
                 image.bytes[a - image.data + 1]],
     stack |-> [a \in StackTop - StackSize .. StackTop - 1 |-> Junk],
     x |-> [r \in 0 .. 31 |-> IF r = SP THEN StackTop ELSE 0]]

\* An access to anything else is wild: the model's own check, not a trap.
Mapped(m, a) == a \in DOMAIN m.stack \/ a \in DOMAIN m.mem
Peek(m, a) == IF a \in DOMAIN m.stack THEN m.stack[a] ELSE m.mem[a]
Poke(m, a, v) == IF a \in DOMAIN m.stack THEN [m EXCEPT !.stack[a] = v]
                 ELSE [m EXCEPT !.mem[a] = v]
LoadBytes(m, a, size) ==
    FoldLeft(LAMBDA v, k : v * 2^ByteBits + Peek(m, a + size - k), 0, [k \in 1 .. size |-> k])
StoreBytes(m, a, v, size) ==
    FoldLeft(LAMBDA s, k : Poke(s, a + k - 1, ByteOf(v, k - 1)), m, [k \in 1 .. size |-> k])
Wild(m) == [m EXCEPT !.status = "wild"]

Loads == ("lb" :> <<1, FALSE>>) @@ ("lbu" :> <<1, TRUE>>) @@ ("lh" :> <<2, FALSE>>)
             @@ ("lhu" :> <<2, TRUE>>) @@ ("lw" :> <<4, FALSE>>) @@ ("lwu" :> <<4, TRUE>>)
             @@ ("ld" :> <<8, FALSE>>)
Stores == ("sb" :> 1) @@ ("sh" :> 2) @@ ("sw" :> 4) @@ ("sd" :> 8)

\* The result of an arithmetic instruction on a and b (b a register or imm).
Alu(op, a, b) ==
    CASE op \in {"add", "addi"} -> Word(a + b)
      [] op = "sub" -> Word(a - b)
      [] op = "mul" -> Word(a * b)
      [] op = "div" -> IF b = 0 THEN -1 ELSE Word(Quot(a, b))
      [] op = "divu" -> IF b = 0 THEN -1 ELSE Word(Unsigned(a) \div Unsigned(b))
      [] op = "rem" -> IF b = 0 THEN a ELSE Word(Rem(a, b))
      [] op = "remu" -> IF b = 0 THEN a ELSE Word(Unsigned(a) % Unsigned(b))
      [] op \in {"and", "andi"} -> BitAnd(a, b)
      [] op \in {"or", "ori"} -> BitOr(a, b)
      [] op \in {"xor", "xori"} -> BitXor(a, b)
      [] op \in {"sll", "slli"} -> Word((Unsigned(a) % 2^(8 * ByteBits - b)) * 2^b)
      [] op \in {"srl", "srli"} -> Word(Unsigned(a) \div 2^b)
      [] op \in {"sra", "srai"} -> a \div 2^b
      [] op = "slt" -> Truth(a < b)
      [] op \in {"sltu", "sltiu"} -> Truth(Unsigned(a) < Unsigned(b))
      [] op = "addiw" -> Sext(a + b, 4)
      [] op = "lui" -> Sext(b * 2^ImmBits, 4)
RegOps == {"add", "sub", "mul", "div", "divu", "rem", "remu", "and", "or", "xor", "sll",
           "srl", "sra", "slt", "sltu"}

SetReg(m, r, v) == [m EXCEPT !.pc = @ + 4, !.x[r] = IF r = X0 THEN 0 ELSE v]
Trap(m) ==
    CASE m.x[A7] = Syscall["exit"] -> [m EXCEPT !.status = "exit"]
      [] m.x[A7] = Syscall["write"] ->
            SetReg([m EXCEPT !.out = @ \o [k \in 1 .. m.x[A2] |->
                                              Peek(m, m.x[A1] + k - 1)]], A0, m.x[A2])
      [] OTHER -> SetReg(m, A0, -1)
Execute(m, i) ==
    CASE i.op \in RegOps -> SetReg(m, i.rd, Alu(i.op, m.x[i.rs1], m.x[i.rs2]))
      [] i.op \in DOMAIN Loads ->
            SetReg(m, i.rd, View(LoadBytes(m, m.x[i.rs1] + i.imm, Loads[i.op][1]),
                                 Loads[i.op][1], Loads[i.op][2]))
      [] i.op \in DOMAIN Stores ->
            [StoreBytes(m, m.x[i.rs1] + i.imm, m.x[i.rs2], Stores[i.op])
                EXCEPT !.pc = @ + 4]
      [] i.op \in {"beq", "bne"} ->
            [m EXCEPT !.pc = @ + (IF (m.x[i.rs1] = m.x[i.rs2]) = (i.op = "beq")
                                  THEN i.imm ELSE 4)]
      [] i.op = "jal" -> [SetReg(m, i.rd, m.pc + 4) EXCEPT !.pc = m.pc + i.imm]
      [] i.op = "jalr" -> [SetReg(m, i.rd, m.pc + 4) EXCEPT !.pc = m.x[i.rs1] + i.imm]
      [] i.op = "ecall" -> Trap(m)
      [] OTHER -> SetReg(m, i.rd, Alu(i.op, m.x[i.rs1], i.imm))
\* The bytes an instruction reads or writes.
Touched(m, i) ==
    CASE i.op \in DOMAIN Loads -> {m.x[i.rs1] + i.imm, m.x[i.rs1] + i.imm + Loads[i.op][1] - 1}
      [] i.op \in DOMAIN Stores -> {m.x[i.rs1] + i.imm, m.x[i.rs1] + i.imm + Stores[i.op] - 1}
      [] i.op = "ecall" /\ m.x[A7] = Syscall["write"] /\ m.x[A2] > 0 ->
            {m.x[A1], m.x[A1] + m.x[A2] - 1}
      [] OTHER -> {}
Retire(m, i) ==
    IF i.op = "zero" \/ \E a \in Touched(m, i) : ~Mapped(m, a) THEN Wild(m)
    ELSE [Execute(m, i) EXCEPT !.n = @ + 1]
Slot(m) == (m.pc - UserBase) \div 4 + 1
CpuStep(m) ==
    IF (m.pc - UserBase) % 4 = 0 /\ Slot(m) \in DOMAIN m.text THEN Retire(m, m.text[Slot(m)])
    ELSE Wild(m)
============================================================================
