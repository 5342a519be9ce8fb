------------------------------ MODULE CcTypes ------------------------------
(***************************************************************************)
(* The types, nodes and words of the C compiler (cc/types.c, cc/util.c).   *)
(*                                                                         *)
(* Sizes and alignments are the code's: 1, 2, 4 and 8 bytes.  A byte has   *)
(* ByteBits bits and an immediate ImmBits bits, so that a register fits    *)
(* TLC's integers; every mask, shift and range of the code is stated in    *)
(* those two numbers.  A value of the compiler's long, and of a register,  *)
(* is the signed number Word(v).                                           *)
(*                                                                         *)
(* A struct or union is a reference [kind, id] into the table aggs, since  *)
(* the code completes the type in place after pointers to it were taken;   *)
(* an array declared with [] has a reference as well, to its length.       *)
(***************************************************************************)
EXTENDS Integers, Sequences, TLC

CONSTANTS ByteBits, ImmBits

ASSUME WidthAssumption == ByteBits \in Nat \ {0} /\ ImmBits \in 2 .. 4 * ByteBits

\* Two's complement and zero-extended views of the low `size` bytes of v.
Zext(v, size) == v % 2^(size * ByteBits)
Sext(v, size) == Zext(v + 2^(size * ByteBits - 1), size) - 2^(size * ByteBits - 1)
Word(v) == Sext(v, 8)
View(v, size, uns) == IF uns THEN Zext(v, size) ELSE Sext(v, size)
\* A register has 8 bytes: the same view of one as an unsigned number.
Unsigned(v) == Zext(v, 8)

\* C's division truncates towards zero.
Quot(a, b) == LET q == (IF a < 0 THEN -a ELSE a) \div (IF b < 0 THEN -b ELSE b)
              IN  IF (a < 0) = (b < 0) THEN q ELSE -q
Rem(a, b) == a - b * Quot(a, b)

align_to(n, a) == ((n + a - 1) \div a) * a

NoType == [kind |-> "none", size |-> 0]
new_type(kind, size, align, uns) ==
    [kind |-> kind, size |-> size, align |-> align, uns |-> uns]

ty_void == new_type("void", 1, 1, FALSE)
ty_char == new_type("char", 1, 1, TRUE)
ty_schar == new_type("char", 1, 1, FALSE)
ty_short == new_type("short", 2, 2, FALSE)
ty_ushort == new_type("short", 2, 2, TRUE)
ty_int == new_type("int", 4, 4, FALSE)
ty_uint == new_type("int", 4, 4, TRUE)
ty_long == new_type("long", 8, 8, FALSE)
ty_ulong == new_type("long", 8, 8, TRUE)

is_integer(t) == t.kind \in {"char", "short", "int", "long"}
is_ptr_like(t) == t.kind \in {"ptr", "array"}
is_aggregate(t) == t.kind \in {"struct", "union"}
is_scalar(t) == is_integer(t) \/ t.kind = "ptr"

SizeOf(aggs, t) == IF is_aggregate(t) \/ (t.kind = "array" /\ t.len < 0)
                   THEN aggs[t.id].size ELSE t.size
AlignOf(aggs, t) == IF is_aggregate(t) THEN aggs[t.id].align ELSE t.align
IsComplete(aggs, t) == is_aggregate(t) => aggs[t.id].complete

ty_ptr(base) ==
    [kind |-> "ptr", size |-> 8, align |-> 8, uns |-> TRUE, base |-> base]
\* An array; declared with [], it has the length -1 and the one in aggs.
ty_array(aggs, base, len) ==
    [kind |-> "array", size |-> IF len >= 0 THEN SizeOf(aggs, base) * len ELSE 0,
     align |-> AlignOf(aggs, base), uns |-> FALSE, base |-> base, len |-> len, id |-> 0]
\* The length of an array; -1 while it is not known.
LenOf(aggs, t) == IF t.len < 0 THEN aggs[t.id].len ELSE t.len
ty_func(ret, params, variadic) ==
    [kind |-> "func", size |-> 8, align |-> 8, uns |-> FALSE,
     base |-> ret, params |-> params, variadic |-> variadic]
new_aggregate_type(kind) ==
    [kind |-> kind, complete |-> FALSE, size |-> 0, align |-> 1, members |-> <<>>, len |-> -1]

decay(t) == IF t.kind = "array" THEN ty_ptr(t.base)
            ELSE IF t.kind = "func" THEN ty_ptr(t) ELSE t

\* Nodes: a kind (the operator's text where there is one), a type, operands.
Node(kind, ty) == [kind |-> kind, ty |-> ty]
Unary(kind, ty, lhs) == [kind |-> kind, ty |-> ty, lhs |-> lhs]
Binary(kind, ty, lhs, rhs) == [kind |-> kind, ty |-> ty, lhs |-> lhs, rhs |-> rhs]
new_num(v) ==
    [kind |-> "num", ty |-> IF Sext(v, 4) = v THEN ty_int ELSE ty_long, val |-> v]
============================================================================
