------------------------------ MODULE CcState ------------------------------
(***************************************************************************)
(* What the parser of the C compiler keeps and builds (cc/parser.c, the    *)
(* tables of cc/types.c and cc/util.c): its globals, the names, symbols    *)
(* and scopes, typed nodes and constant expressions.                       *)
(*                                                                         *)
(* The parser's globals are one record s.  fatal ends the compiler: Fatal  *)
(* sets s.err and moves to the end of the tokens, where every consume and  *)
(* every loop of the parser stops.                                         *)
(*                                                                         *)
(* A token is [k, t, v]: its kind, its text and its value (the number, or  *)
(* the bytes of a string with its NUL).                                    *)
(***************************************************************************)
EXTENDS CcTypes, Bitwise, SequencesExt

NoScope == <<>>
Null == [kind |-> "null", ty |-> ty_int]
None == [kind |-> "none"]
EofToken == [k |-> "eof", t |-> "", v |-> 0]

\* The state reset_*_state and compile_source leave before a unit is parsed.
Start(toks, unit) ==
    [toks |-> Append(toks, EofToken), p |-> 1, err |-> FALSE, unit |-> unit,
     n |-> Null, ty |-> NoType, name |-> "", in |-> <<>>,
     stat |-> FALSE, ext |-> FALSE, tdef |-> FALSE,
     typedefs |-> <<>>, tags |-> <<>>, consts |-> <<>>, aggs |-> <<>>,
     scopes |-> NoScope, locals |-> 0, globals |-> <<>>, order |-> <<>>,
     syms |-> <<>>, nlabels |-> 0, switches |-> <<>>]

Fatal(s) == [s EXCEPT !.err = TRUE, !.p = Len(s.toks)]
Check(ok, s) == IF ok THEN s ELSE Fatal(s)

T(s) == s.toks[s.p].t
Is(s, x) == T(s) = x
IsKind(s, k) == s.toks[s.p].k = k
NextIs(s, x) == s.p < Len(s.toks) /\ s.toks[s.p + 1].t = x
Adv(s, k) == IF s.err THEN s ELSE [s EXCEPT !.p = @ + k]
Consume(s, x) == IF Is(s, x) THEN Adv(s, 1) ELSE s
expect(s, x) == IF Is(s, x) THEN Adv(s, 1) ELSE Fatal(s)

Put(s, n) == IF n.kind = "fatal" THEN Fatal(s) ELSE [s EXCEPT !.n = n]
Bad == Node("fatal", ty_int)
TypeKeywords == {"void", "char", "short", "int", "long", "unsigned", "signed",
                 "const", "volatile", "static", "extern", "register", "inline",
                 "struct", "union", "enum", "typedef"}
IsTypename(s, at) ==
    /\ at <= Len(s.toks) /\ s.toks[at].k = "id"
    /\ s.toks[at].t \in TypeKeywords \cup DOMAIN s.typedefs

----------------------------------------------------------------------------
(* Namespaces, symbols and scopes.                                         *)

find_tag(s, kind, name) ==
    IF name \in DOMAIN s.tags
    THEN Check(s.tags[name].kind = kind, [s EXCEPT !.ty = s.tags[name]])
    ELSE IF kind = "enum"
    THEN [s EXCEPT !.tags = (name :> [kind |-> "enum"]) @@ @, !.ty = ty_int]
    ELSE [s EXCEPT !.tags = (name :> [kind |-> kind, id |-> Len(s.aggs) + 1]) @@ @,
                   !.aggs = Append(@, new_aggregate_type(kind)),
                   !.ty = [kind |-> kind, id |-> Len(s.aggs) + 1]]
add_typedef(s, name, ty) == [s EXCEPT !.typedefs = (name :> ty) @@ @]
add_const(s, name, v) ==
    Check(name \notin DOMAIN s.consts, [s EXCEPT !.consts = (name :> v) @@ @])

new_sym(s, name, sec, size, align) ==
    [s EXCEPT !.syms = Append(@, [name |-> <<name, 0>>, sec |-> sec, size |-> size,
        align |-> IF align = 0 THEN 1 ELSE align, offset |-> 0, defined |-> FALSE,
        static |-> FALSE, init |-> <<>>, drel |-> <<>>])]
\* The name gets the unit's number; a symbol's name is the pair of the two.
make_local_sym(s, i) ==
    IF s.syms[i].static THEN s
    ELSE [s EXCEPT !.syms[i].static = TRUE, !.syms[i].name = <<@[1], s.unit>>]
new_global(s, name, ty, fn) ==
    [s EXCEPT !.globals = (name :> [name |-> name, ty |-> ty, fn |-> fn,
                  defined |-> FALSE, sym |-> 0, body |-> Null, params |-> <<>>,
                  va |-> 0, frame |-> 0]) @@ @,
              !.order = <<name>> \o @]

enter_scope(s) == [s EXCEPT !.scopes = <<<<>>>> \o @]
leave_scope(s) == [s EXCEPT !.scopes = IF @ = <<>> THEN @ ELSE Tail(@)]
\* The innermost scope that has the name, and in it the newest declaration.
Locals(s) == FoldLeft(LAMBDA a, b : a \o b, <<>>, s.scopes)
find_local(s, name) ==
    SelectSeq(Locals(s), LAMBDA o : o.name = name)
new_local(s, name, ty, size) ==
    IF size <= 0 THEN Fatal(s)
    ELSE \* every local takes whole 8-byte words
         [s EXCEPT !.locals = @ + (IF size > 8 THEN align_to(size, 8) ELSE 8),
                   !.scopes[1] = <<[name |-> name, ty |-> ty, off |-> s.locals +
                       (IF size > 8 THEN align_to(size, 8) ELSE 8)]>> \o @]

LocalNode(o) == [kind |-> "var", ty |-> o.ty, local |-> TRUE, off |-> o.off,
                 fn |-> FALSE, name |-> o.name]
GlobalNode(o) == [kind |-> "var", ty |-> o.ty, local |-> FALSE, off |-> 0,
                  fn |-> o.fn, name |-> o.name]

----------------------------------------------------------------------------
(* Typed nodes.                                                            *)

is_lvalue(n) ==
    /\ n.kind \in {"var", "member", "deref"}
    /\ n.ty.kind \notin {"array", "func"}
    /\ n.kind = "var" => ~n.fn

new_cast(e, ty) ==
    IF is_aggregate(e.ty) \/ is_aggregate(ty) THEN Bad ELSE Unary("cast", ty, e)

new_assign(s, l, r) ==
    IF \/ ~is_lvalue(l)
       \/ is_aggregate(l.ty) # is_aggregate(r.ty)
       \/ is_aggregate(l.ty) /\ SizeOf(s.aggs, l.ty) # SizeOf(s.aggs, r.ty)
    THEN Bad ELSE Binary("assign", l.ty, l, r)

\* The common integer type: no promotion of char and short, no conversion
\* of the operands; 8 bytes if either has 8, unsigned if either is.
Common(lt, rt) == IF lt.size = 8 \/ rt.size = 8
                  THEN IF lt.uns \/ rt.uns THEN ty_ulong ELSE ty_long
                  ELSE IF lt.uns \/ rt.uns THEN ty_uint ELSE ty_int

Typed(op, l, r, lt, rt) ==
    IF is_aggregate(lt) \/ is_aggregate(rt) THEN Bad
    ELSE IF op \in {"<<", ">>"} THEN Binary(op, lt, l, r)
    ELSE IF op = "+" /\ is_ptr_like(lt) THEN Binary(op, lt, l, r)
    ELSE IF op = "+" /\ is_ptr_like(rt) THEN Binary(op, rt, l, r)
    ELSE IF op = "-" /\ is_ptr_like(lt)
         THEN Binary(op, IF is_ptr_like(rt) THEN ty_long ELSE lt, l, r)
    ELSE IF is_ptr_like(lt) \/ is_ptr_like(rt) THEN Bad
    ELSE Binary(op, Common(lt, rt), l, r)
new_binary(op, l, r) == Typed(op, l, r, decay(l.ty), decay(r.ty))

new_cmp(op, l, r) ==
    IF is_aggregate(decay(l.ty)) \/ is_aggregate(decay(r.ty)) THEN Bad
    ELSE Binary(op, ty_int, l, r)

new_unary(op, e) ==
    IF op \in {"neg", "not", "bitnot"} /\ is_aggregate(e.ty) THEN Bad
    ELSE IF op = "deref"
    THEN IF decay(e.ty).kind = "ptr" THEN Unary(op, decay(e.ty).base, e) ELSE Bad
    ELSE Unary(op, CASE op = "addr" -> ty_ptr(e.ty)
                     [] op = "not" -> ty_int
                     [] OTHER -> e.ty, e)

----------------------------------------------------------------------------
(* Constant expressions, in the compiler's own long whatever their type.   *)

truncate_const(v, ty) ==
    IF ty.kind \in {"ptr", "array", "func"} \/ ty.size >= 8 THEN v
    ELSE View(v, ty.size, ty.uns)

ShiftLeft(a, n) == Word(a * 2^n)
ShiftRight(a, n) == a \div 2^n
Truth(b) == IF b THEN 1 ELSE 0
\* Bitwise operations of two registers.
BitAnd(a, b) == Word(Unsigned(a) & Unsigned(b))
BitOr(a, b) == Word(Unsigned(a) | Unsigned(b))
BitXor(a, b) == Word(Unsigned(a) ^^ Unsigned(b))
Compare(op, a, b) ==
    Truth(CASE op = "==" -> a = b [] op = "!=" -> a # b [] op = "<" -> a < b
            [] op = "<=" -> a <= b [] op = ">" -> a > b [] op = ">=" -> a >= b)
CmpOps == {"==", "!=", "<", "<=", ">", ">="}

\* <<v>>, or <<>> where the code calls fatal.
ConstBinary(op, a, b) ==
    IF a = <<>> \/ b = <<>> \/ (op \in {"/", "%"} /\ b = <<0>>) THEN <<>>
    ELSE <<CASE op = "+" -> Word(a[1] + b[1])
             [] op = "-" -> Word(a[1] - b[1])
             [] op = "*" -> Word(a[1] * b[1])
             [] op = "/" -> Quot(a[1], b[1])
             [] op = "%" -> Rem(a[1], b[1])
             [] op = "&" -> BitAnd(a[1], b[1])
             [] op = "|" -> BitOr(a[1], b[1])
             [] op = "^" -> BitXor(a[1], b[1])
             [] op = "<<" -> ShiftLeft(a[1], b[1])
             [] op = ">>" -> ShiftRight(a[1], b[1])
             [] op \in CmpOps -> Compare(op, a[1], b[1])>>

RECURSIVE eval_const(_)
eval_const(n) ==
    CASE n.kind = "num" -> <<n.val>>
      [] n.kind = "cast" -> [i \in DOMAIN eval_const(n.lhs) |->
                                truncate_const(eval_const(n.lhs)[i], n.ty)]
      [] n.kind = "neg" -> ConstBinary("-", <<0>>, eval_const(n.lhs))
      [] n.kind = "not" -> ConstBinary("==", <<0>>, eval_const(n.lhs))
      [] n.kind = "bitnot" -> ConstBinary("-", <<-1>>, eval_const(n.lhs))
      [] n.kind = "cond" ->
            CASE eval_const(n.cond) = <<>> -> <<>>
              [] eval_const(n.cond) = <<0>> -> eval_const(n.els)
              [] OTHER -> eval_const(n.then)
      [] n.kind \in {"&&", "||"} ->
            IF eval_const(n.lhs) = <<>> THEN <<>>
            ELSE IF (eval_const(n.lhs) = <<0>>) = (n.kind = "&&")
            THEN <<Truth(n.kind = "||")>>
            ELSE ConstBinary("!=", <<0>>, eval_const(n.rhs))
      [] n.kind \in CmpOps \cup {"+", "-", "*", "/", "%", "&", "|", "^", "<<", ">>"} ->
            ConstBinary(n.kind, eval_const(n.lhs), eval_const(n.rhs))
      [] OTHER -> <<>>
============================================================================
