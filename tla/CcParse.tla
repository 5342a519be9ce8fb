------------------------------ MODULE CcParse ------------------------------
(***************************************************************************)
(* The parser of the C compiler (cc/parser.c): from the tokens of one      *)
(* translation unit to typed nodes, symbols and initialised data.          *)
(*                                                                         *)
(* Every parse_* operator takes the state of CcState and returns the state *)
(* after it, with its result in s.n (a node), s.ty and s.name (a type or a *)
(* declarator) or s.in (an initialiser).                                   *)
(***************************************************************************)
EXTENDS CcState

----------------------------------------------------------------------------
(* Declarations.                                                           *)

\* The parser is one recursion: a rule calls another through Parse.
RECURSIVE Parse(_, _, _)
parse_expr(s) == Parse("expr", s, <<>>)
parse_assign(s) == Parse("assign", s, <<>>)
parse_declspec(s) == Parse("declspec", s, <<>>)
parse_declarator(s, base, abstract_ok) == Parse("declarator", s, <<base, abstract_ok>>)
parse_initializer(s, ty) == Parse("initializer", s, ty)
parse_stmt(s) == Parse("stmt", s, <<>>)
parse_translation_unit(s) == Parse("unit", s, <<>>)

RECURSIVE parse_cond(_), parse_unary(_), parse_block(_), parse_local_decl(_)

\* The value of a constant expression, in s.n.val; fatal if it is not one.
ConstOf(s) == IF s.err \/ eval_const(s.n) = <<>> THEN Fatal(s)
              ELSE Put(s, new_num(eval_const(s.n)[1]))

RECURSIVE Qualifiers(_)
Qualifiers(s) == IF T(s) \in {"const", "volatile"} THEN Qualifiers(Adv(s, 1)) ELSE s

BaseType(b) ==
    CASE b.base = "void" -> ty_void
      [] b.base = "char" -> IF b.sign /\ ~b.uns THEN ty_schar ELSE ty_char
      [] b.base = "short" -> IF b.uns THEN ty_ushort ELSE ty_short
      [] b.base = "long" -> IF b.uns THEN ty_ulong ELSE ty_long
      [] OTHER -> IF b.uns THEN ty_uint ELSE ty_int

RECURSIVE Members(_, _, _), Enumerators(_, _), Specifiers(_, _)

RECURSIVE Declarators(_, _, _)
\* add_member and the layout of one more member, at the next aligned offset.
AddMember(s, id, name, ty) ==
    LET a == s.aggs[id]
        at == IF a.kind = "struct" THEN align_to(a.size, AlignOf(s.aggs, ty)) ELSE 0
        end == at + SizeOf(s.aggs, ty)
    IN  IF \/ \E i \in DOMAIN a.members : a.members[i].name = name
           \/ ty.kind \in {"void", "func"} \/ Is(s, ":")
           \/ ty.kind = "array" /\ LenOf(s.aggs, ty) < 0
           \/ ~IsComplete(s.aggs, ty) \/ SizeOf(s.aggs, ty) <= 0
        THEN Fatal(s)
        ELSE [s EXCEPT !.aggs[id].members =
                           Append(@, [name |-> name, ty |-> ty, offset |-> at]),
                       !.aggs[id].size = IF end > @ THEN end ELSE @,
                       !.aggs[id].align = IF AlignOf(s.aggs, ty) > @
                                          THEN AlignOf(s.aggs, ty) ELSE @]
MemberAfter(s, id, base) ==
    IF s.err THEN s
    ELSE IF Is(s, ",") THEN Declarators(Adv(s, 1), id, base)
    ELSE expect(s, ";")
Member(s, id, base) ==
    IF s.err THEN s ELSE MemberAfter(AddMember(s, id, s.name, s.ty), id, base)
Declarators(s, id, base) == Member(parse_declarator(s, base, FALSE), id, base)
MemberDecls(s, id) == IF s.err \/ s.tdef THEN Fatal(s) ELSE Declarators(s, id, s.ty)
Members(s, id, kind) ==
    IF s.err THEN s
    ELSE IF ~Is(s, "}") THEN Members(MemberDecls(parse_declspec(s), id), id, kind)
    ELSE IF s.aggs[id].members = <<>> THEN Fatal(s)
    ELSE [Adv(s, 1) EXCEPT
            !.aggs[id].size = align_to(@, s.aggs[id].align),
            !.aggs[id].complete = TRUE, !.ty = [kind |-> kind, id |-> id]]

Opened(s, kind) == IF s.err \/ s.aggs[s.ty.id].complete THEN Fatal(s)
                   ELSE Members(s, s.ty.id, kind)
parse_struct_spec(s, kind) ==
    IF IsKind(s, "id")
    THEN IF NextIs(s, "{") THEN Opened(find_tag(Adv(s, 2), kind, T(s)), kind)
         ELSE find_tag(Adv(s, 1), kind, T(s))
    ELSE IF Is(s, "{")
    THEN Members([Adv(s, 1) EXCEPT !.aggs = Append(@, new_aggregate_type(kind))],
                 Len(s.aggs) + 1, kind)
    ELSE Fatal(s)

\* An enumerator: its constant is the next value, or the one given.
AfterEnumerator(s, name, v) ==
    IF s.err THEN s
    ELSE IF Is(s, ",") /\ ~NextIs(s, "}")
    THEN Enumerators(Adv(add_const(s, name, v), 1), Word(v + 1))
    ELSE expect(Consume(add_const(s, name, v), ","), "}")
EnumValue(s, name) == IF s.err THEN s ELSE AfterEnumerator(s, name, s.n.val)
Enumerators(s, v) ==
    IF Is(s, "}") THEN Adv(s, 1)
    ELSE IF ~IsKind(s, "id") THEN Fatal(s)
    ELSE IF NextIs(s, "=") THEN EnumValue(ConstOf(parse_assign(Adv(s, 2))), T(s))
    ELSE AfterEnumerator(Adv(s, 1), T(s), v)
parse_enum_spec(s) ==
    IF IsKind(s, "id")
    THEN IF NextIs(s, "{") THEN find_tag(Enumerators(Adv(s, 2), 0), "enum", T(s))
         ELSE find_tag(Adv(s, 1), "enum", T(s))
    ELSE Enumerators(expect(s, "{"), 0)

Flags(s, old) == [s EXCEPT !.stat = old.stat, !.ext = old.ext, !.tdef = old.tdef]
Specifiers(s, b) ==
    CASE s.err -> s
      [] ~s.err /\ ~b.seen /\ IsKind(s, "id") /\ T(s) \in DOMAIN s.typedefs ->
            Qualifiers([Adv(s, 1) EXCEPT !.ty = s.typedefs[T(s)]])
      [] T(s) \in {"void", "char", "short", "long"} ->
            Specifiers(Adv(s, 1), [b EXCEPT !.base = T(s), !.seen = TRUE])
      [] Is(s, "int") ->
            Specifiers(Adv(s, 1), [b EXCEPT !.base = IF @ = "" THEN "int" ELSE @,
                                            !.seen = TRUE])
      [] T(s) \in {"unsigned", "signed"} ->
            Specifiers(Adv(s, 1), [b EXCEPT !.uns = Is(s, "unsigned"), !.sign = TRUE,
                                            !.seen = TRUE])
      [] Is(s, "static") -> Specifiers([Adv(s, 1) EXCEPT !.stat = TRUE], b)
      [] Is(s, "extern") -> Specifiers([Adv(s, 1) EXCEPT !.ext = TRUE], b)
      [] Is(s, "typedef") -> Specifiers([Adv(s, 1) EXCEPT !.tdef = TRUE], b)
      [] T(s) \in {"const", "volatile", "register", "inline"} ->
            Specifiers(Adv(s, 1), b)
      [] T(s) \in {"struct", "union"} ->
            Flags(parse_struct_spec(Adv(s, 1), T(s)), s)
      [] Is(s, "enum") -> Flags([parse_enum_spec(Adv(s, 1)) EXCEPT !.ty = ty_int], s)
      [] T(s) \in {"float", "double"} -> Fatal(s)
      [] OTHER -> IF b.seen THEN [s EXCEPT !.ty = BaseType(b)] ELSE Fatal(s)
DeclspecRule(s) ==
    Specifiers([s EXCEPT !.stat = FALSE, !.ext = FALSE, !.tdef = FALSE],
               [base |-> "", uns |-> FALSE, sign |-> FALSE, seen |-> FALSE])

----------------------------------------------------------------------------
(* Declarators, read inside out: what stands in parentheses is parsed over *)
(* a placeholder, which the suffix after them then replaces.               *)

Placeholder == new_type("placeholder", 0, 0, FALSE)
RECURSIVE replace_placeholder(_, _, _)
replace_placeholder(aggs, t, repl) ==
    CASE t.kind = "placeholder" -> repl
      [] t.kind = "ptr" -> ty_ptr(replace_placeholder(aggs, t.base, repl))
      [] t.kind = "array" ->
            [ty_array(aggs, replace_placeholder(aggs, t.base, repl), t.len) EXCEPT !.id = t.id]
      [] t.kind = "func" ->
            ty_func(replace_placeholder(aggs, t.base, repl), t.params, t.variadic)
      [] OTHER -> t

check_function_type(s) ==
    Check(s.ty.kind = "func" =>
            /\ s.ty.base.kind \notin {"array", "func"} /\ ~is_aggregate(s.ty.base)
            /\ \A i \in DOMAIN s.ty.params : ~is_aggregate(s.ty.params[i].ty), s)

RECURSIVE parse_type_suffix(_, _), Params(_, _, _)
ArrayOf(s, len) == [s EXCEPT !.ty = ty_array(s.aggs, @, len)]
Unsized(s) == IF s.err THEN s
              ELSE [s EXCEPT !.aggs = Append(@, new_aggregate_type("array")),
                             !.ty = [ty_array(s.aggs, @, -1) EXCEPT !.id = Len(s.aggs) + 1]]
FuncOf(s, params, variadic) == [s EXCEPT !.ty = ty_func(@, params, variadic)]
Sized(s, ty) == IF s.err \/ s.n.val < 0 THEN Fatal(s)
                ELSE ArrayOf(parse_type_suffix(expect(s, "]"), ty), s.n.val)
ParamType(t) == IF t.kind = "array" THEN ty_ptr(t.base)
                ELSE IF t.kind = "func" THEN ty_ptr(t) ELSE t
AfterParam(s, ty, params) ==
    IF s.err THEN s
    ELSE IF Is(s, ",") THEN Params(Adv(s, 1), ty, params)
    ELSE FuncOf(parse_type_suffix(expect(s, ")"), ty), params, FALSE)
Param(s, ty, params) ==
    IF s.err THEN s
    ELSE AfterParam(s, ty, Append(params, [name |-> s.name, ty |-> ParamType(s.ty)]))
ParamDecl(s) == IF s.err THEN s ELSE parse_declarator(s, s.ty, TRUE)
Params(s, ty, params) ==
    IF Is(s, "...")
    THEN FuncOf(parse_type_suffix(expect(Adv(s, 1), ")"), ty), params, TRUE)
    ELSE Param(ParamDecl(parse_declspec(s)), ty, params)
parse_type_suffix(s, ty) ==
    CASE Is(s, "[") /\ NextIs(s, "]") -> Unsized(parse_type_suffix(Adv(s, 2), ty))
      [] Is(s, "[") /\ ~NextIs(s, "]") -> Sized(ConstOf(parse_expr(Adv(s, 1))), ty)
      [] Is(s, "(") /\ NextIs(s, ")") ->
            FuncOf(parse_type_suffix(Adv(s, 2), ty), <<>>, FALSE)
      [] Is(s, "(") /\ NextIs(s, "void") /\ s.toks[s.p + 2].t = ")" ->
            FuncOf(parse_type_suffix(Adv(s, 3), ty), <<>>, FALSE)
      [] Is(s, "(") /\ ~NextIs(s, ")")
            /\ ~(NextIs(s, "void") /\ s.toks[s.p + 2].t = ")") ->
            Params(Adv(s, 1), ty, <<>>)
      [] OTHER -> [s EXCEPT !.ty = ty]

Named(s, name) == [s EXCEPT !.name = name]
Around(inner, s) ==
    IF s.err THEN s
    ELSE check_function_type([s EXCEPT !.name = inner.name,
             !.ty = replace_placeholder(s.aggs, inner.ty, @)])
Grouped(inner, base) ==
    IF inner.err THEN inner
    ELSE Around(inner, parse_type_suffix(expect(inner, ")"), base))
DeclaratorRule(s, base, abstract_ok) ==
    CASE s.err -> s
      [] Is(s, "*") -> parse_declarator(Consume(Consume(Adv(s, 1), "const"), "volatile"),
                                       ty_ptr(base), abstract_ok)
      [] Is(s, "(") -> Grouped(parse_declarator(Adv(s, 1), Placeholder, abstract_ok), base)
      [] IsKind(s, "id") /\ ~IsTypename(s, s.p) ->
            check_function_type(Named(parse_type_suffix(Adv(s, 1), base), T(s)))
      [] OTHER -> IF abstract_ok
                  THEN check_function_type(Named(parse_type_suffix(s, base), ""))
                  ELSE Fatal(s)

TypeName(s) == IF s.err THEN s ELSE parse_declarator(s, s.ty, TRUE)
parse_type_name(s) == TypeName(parse_declspec(s))

----------------------------------------------------------------------------
(* Initialisers: an expression, a string, or a list of <<index, item>>.    *)

RECURSIVE Concat(_, _)
\* concat_strings: each literal after the first drops the NUL before it.
Concat(s, bytes) ==
    IF ~IsKind(s, "str") THEN [s EXCEPT !.in = [k |-> "str", b |-> bytes]]
    ELSE Concat(Adv(s, 1), (IF bytes = <<>> THEN <<>> ELSE Front(bytes))
                               \o s.toks[s.p].v)

RECURSIVE parse_flat(_, _), Items(_, _, _, _), FlatItems(_, _, _, _)
InitExpr(s) == [s EXCEPT !.in = [k |-> "expr", e |-> s.n]]
InitList(s, items) == [s EXCEPT !.in = [k |-> "list", items |-> items]]
IsChars(ty) == ty.kind = "array" /\ ty.base.kind = "char"
Braceable(ty) == is_aggregate(ty) \/ ty.kind = "array"

MemberIndex(s, ty, name) ==
    {i \in DOMAIN s.aggs[ty.id].members : s.aggs[ty.id].members[i].name = name}
ElemType(s, ty, idx) == IF ty.kind = "array" THEN ty.base
                        ELSE s.aggs[ty.id].members[idx + 1].ty
InRange(s, ty, idx) ==
    /\ idx >= 0
    /\ IF ty.kind = "array" THEN LenOf(s.aggs, ty) >= 0 => idx < LenOf(s.aggs, ty)
       ELSE idx < Len(s.aggs[ty.id].members)

AfterItem(s, ty, idx, items) ==
    IF s.err THEN s
    ELSE IF Is(s, ",") /\ ~NextIs(s, "}")
    THEN Items(Adv(s, 1), ty, idx + 1, Append(items, <<idx, s.in>>))
    ELSE InitList(expect(Consume(s, ","), "}"), Append(items, <<idx, s.in>>))
Item(s, ty, idx, items) ==
    IF s.err \/ ~InRange(s, ty, idx) \/ (ty.kind = "union" /\ items # <<>>) THEN Fatal(s)
    ELSE AfterItem(IF Braceable(ElemType(s, ty, idx)) /\ ~Is(s, "{")
                   THEN parse_flat(s, ElemType(s, ty, idx))
                   ELSE parse_initializer(s, ElemType(s, ty, idx)), ty, idx, items)
Designated(s, ty, items) ==
    IF s.err \/ ty.kind # "array" THEN Fatal(s)
    ELSE Item(expect(expect(s, "]"), "="), ty, s.n.val, items)
Items(s, ty, idx, items) ==
    CASE Is(s, ".") ->
            IF is_aggregate(ty) /\ IsKind(Adv(s, 1), "id")
                  /\ MemberIndex(s, ty, T(Adv(s, 1))) # {}
            THEN Item(expect(Adv(s, 2), "="), ty,
                      (CHOOSE i \in MemberIndex(s, ty, T(Adv(s, 1))) : TRUE) - 1, items)
            ELSE Fatal(s)
      [] Is(s, "[") -> Designated(ConstOf(parse_expr(Adv(s, 1))), ty, items)
      [] OTHER -> Item(s, ty, idx, items)
InitializerRule(s, ty) ==
    CASE s.err -> s
      [] ~s.err /\ IsChars(ty) /\ IsKind(s, "str") -> Concat(s, <<>>)
      [] Is(s, "{") /\ ~Braceable(ty) ->
            expect(Consume(parse_initializer(Adv(s, 1), ty), ","), "}")
      [] Is(s, "{") /\ Braceable(ty) /\ NextIs(s, "}") -> InitList(Adv(s, 2), <<>>)
      [] Is(s, "{") /\ Braceable(ty) /\ ~NextIs(s, "}") -> Items(Adv(s, 1), ty, 0, <<>>)
      [] OTHER -> InitExpr(parse_assign(s))

\* Without braces an aggregate takes as many items as it has elements.
FlatCount(s, ty) == IF ty.kind = "array" THEN LenOf(s.aggs, ty)
                    ELSE IF ty.kind = "union" THEN 1 ELSE Len(s.aggs[ty.id].members)
AfterFlat(s, ty, idx, items) ==
    IF s.err THEN s
    ELSE IF \/ idx + 1 >= FlatCount(s, ty) \/ Is(s, "}")
            \/ (Is(s, ",") /\ NextIs(s, "}"))
    THEN InitList(IF idx + 1 < FlatCount(s, ty) THEN Consume(s, ",") ELSE s,
                  Append(items, <<idx, s.in>>))
    ELSE FlatItems(expect(s, ","), ty, idx + 1, Append(items, <<idx, s.in>>))
FlatItems(s, ty, idx, items) ==
    IF s.err THEN s
    ELSE AfterFlat(parse_flat(s, ElemType(s, ty, idx)), ty, idx, items)
parse_flat(s, ty) ==
    IF s.err THEN s
    ELSE IF (IsChars(ty) /\ IsKind(s, "str")) \/ Is(s, "{") \/ ~Braceable(ty)
    THEN parse_initializer(s, ty)
    ELSE IF FlatCount(s, ty) < 0 THEN Fatal(s)
    ELSE IF FlatCount(s, ty) = 0 THEN InitList(s, <<>>)
    ELSE FlatItems(s, ty, 0, <<>>)

\* The length of an array declared with [], from its initialiser: the
\* length of the string, or one more than the largest index (max_index).
MaxIndex(items) == FoldLeft(LAMBDA m, it : IF it[1] + 1 > m THEN it[1] + 1 ELSE m,
                            0, items)
Inferred(in) == IF in.k = "str" THEN Len(in.b)
                ELSE IF in.k = "list" THEN MaxIndex(in.items) ELSE 0
\* The type itself is completed, for whatever else refers to it: a typedef
\* of an array without length has the length of its first variable.
Completed(s, ty, in) ==
    IF ty.kind = "array" /\ LenOf(s.aggs, ty) < 0
    THEN [s EXCEPT !.aggs[ty.id].len = Inferred(in),
                   !.aggs[ty.id].size = SizeOf(s.aggs, ty.base) * Inferred(in)]
    ELSE s
NoInit == [k |-> "no"]
InitFits(s, ty, in) == in.k = "str" => IsChars(ty) /\ Len(in.b) - 1 <= LenOf(s.aggs, ty)

Min2(a, b) == IF a < b THEN a ELSE b
----------------------------------------------------------------------------
(* A global's initialiser becomes bytes and data relocations of its symbol *)
(* (materialize_global_init); a local's, stores in the order written.      *)

store_int(bytes, at, v, size) ==
    [i \in DOMAIN bytes |->
        IF i - 1 \in at .. at + size - 1
        THEN (Unsigned(v) \div 2^((i - 1 - at) * ByteBits)) % 2^ByteBits
        ELSE bytes[i]]

\* <<symbol, addend>> of an address the linker can compute, or <<>>.
RECURSIVE global_addr_of(_, _)
global_addr_of(s, e) ==
    CASE e.kind = "var" /\ ~e.local -> <<s.globals[e.name].sym, 0>>
      [] e.kind = "member" ->
            [i \in DOMAIN global_addr_of(s, e.lhs) |->
                global_addr_of(s, e.lhs)[i] + (IF i = 2 THEN e.offset ELSE 0)]
      [] OTHER -> <<>>
RECURSIVE global_pointer_value(_, _)
global_pointer_value(s, e) ==
    CASE e.kind = "str" -> <<e.sym, 0>>
      [] e.kind = "cast" -> global_pointer_value(s, e.lhs)
      [] e.kind = "var" /\ ~e.local /\ (e.fn \/ e.ty.kind = "array") ->
            <<s.globals[e.name].sym, 0>>
      [] e.kind = "addr" -> global_addr_of(s, e.lhs)
      [] OTHER -> <<>>

\* y: the symbol so far, [bytes, drel, ok].
Reloc(y, at, target) ==
    [y EXCEPT !.drel = <<[at |-> at, sym |-> target[1], addend |-> target[2]]>> \o @]
RECURSIVE materialize_global_init(_, _, _, _, _)
MaterializeExpr(s, y, ty, e, at) ==
    IF is_aggregate(ty) THEN [y EXCEPT !.ok = FALSE]
    ELSE IF ty.kind = "ptr" /\ global_pointer_value(s, e) # <<>>
    THEN Reloc(y, at, global_pointer_value(s, e))
    ELSE IF eval_const(e) = <<>> THEN [y EXCEPT !.ok = FALSE]
    ELSE [y EXCEPT !.bytes = store_int(@, at, eval_const(e)[1], ty.size)]
ItemOffset(s, ty, idx) == IF ty.kind = "array" THEN idx * SizeOf(s.aggs, ty.base)
                          ELSE s.aggs[ty.id].members[idx + 1].offset
materialize_global_init(s, y, ty, in, at) ==
    CASE ~y.ok -> y
      [] y.ok /\ in.k = "expr" -> MaterializeExpr(s, y, ty, in.e, at)
      [] y.ok /\ in.k = "str" ->
            IF ~IsChars(ty) THEN [y EXCEPT !.ok = FALSE]
            ELSE [y EXCEPT !.bytes = [i \in DOMAIN @ |->
                     IF i - 1 \in at .. at + Min2(Len(in.b), LenOf(s.aggs, ty)) - 1
                     THEN in.b[i - at] ELSE @[i]]]
      [] y.ok /\ in.k = "list" ->
            FoldLeft(LAMBDA z, it :
                         materialize_global_init(s, z, ElemType(s, ty, it[1]), it[2],
                                                 at + ItemOffset(s, ty, it[1])),
                     y, in.items)

GlobalSym(s, name, ty) ==
    IF s.globals[name].sym # 0 THEN s
    ELSE [new_sym(s, name, "bss", SizeOf(s.aggs, ty), AlignOf(s.aggs, ty)) EXCEPT
             !.globals[name].sym = Len(s.syms) + 1]
LocalName(s, i, is_static) == IF is_static THEN make_local_sym(s, i) ELSE s
Initialised(s, name, i, y) ==
    Check(y.ok, [s EXCEPT !.globals[name].defined = TRUE,
                          !.syms[i] = [@ EXCEPT !.defined = TRUE, !.sec = "data",
                                                !.init = y.bytes, !.drel = y.drel]])
Sized2(s, i, ty) == [s EXCEPT !.syms[i].size = SizeOf(s.aggs, ty),
                              !.syms[i].align = AlignOf(s.aggs, ty)]
Defined(s, name, i, ty, in, is_extern) ==
    IF in.k # "no"
    THEN Initialised(s, name, i,
             materialize_global_init(s, [bytes |-> [b \in 1 .. SizeOf(s.aggs, ty) |-> 0],
                                         drel |-> s.syms[i].drel, ok |-> TRUE], ty, in, 0))
    ELSE [s EXCEPT !.globals[name].defined = ~is_extern,
                   !.syms[i].defined = ~is_extern, !.syms[i].sec = "bss"]
DefineGlobal(s, name, ty, in, is_static, is_extern) ==
    Defined(Sized2(LocalName(s, s.globals[name].sym, is_static), s.globals[name].sym, ty),
            name, s.globals[name].sym, ty, in, is_extern)
GlobalObj(s, name, ty) ==
    GlobalSym(IF name \in DOMAIN s.globals
              THEN [s EXCEPT !.globals[name].ty = ty] ELSE new_global(s, name, ty, FALSE),
              name, ty)
GlobalWith(s, name, ty, in, is_static, is_extern) ==
    IF \/ s.err \/ ~InitFits(s, ty, in)
       \/ ty.kind = "array" /\ LenOf(s.aggs, ty) < 0
       \/ SizeOf(s.aggs, ty) <= 0 /\ ~(is_extern /\ in.k = "no" /\ ty.kind = "array")
    THEN Fatal(s)
    ELSE DefineGlobal(GlobalObj(s, name, ty), name, ty, in, is_static, is_extern)
GlobalInit(s, name, ty, is_static, is_extern) ==
    IF s.err THEN s
    ELSE GlobalWith(Completed(s, ty, s.in), name, ty, s.in, is_static, is_extern)
parse_global_var(s, is_static, is_extern) ==
    LET g == s.name \in DOMAIN s.globals
        done == g /\ s.globals[s.name].defined
    IN  IF s.err \/ s.ty.kind = "void" \/ ~IsComplete(s.aggs, s.ty)
           \/ (g /\ s.globals[s.name].fn)
           \/ (done /\ ~(is_extern /\ ~Is(s, "=")))
        THEN Fatal(s)
        ELSE IF done THEN s
        ELSE IF Is(s, "=")
        THEN GlobalInit(parse_initializer(Adv(s, 1), s.ty), s.name, s.ty,
                        is_static, is_extern)
        ELSE GlobalWith(s, s.name, s.ty, NoInit, is_static, is_extern)

----------------------------------------------------------------------------
(* Functions.                                                              *)

get_function_obj(s, name) ==
    IF name \in DOMAIN s.globals THEN Check(s.globals[name].fn, s)
    ELSE [new_sym(new_global(s, name, ty_func(ty_int, <<>>, TRUE), TRUE),
                  name, "text", 0, 4) EXCEPT !.globals[name].sym = Len(s.syms) + 1]
FunctionName(s, name, is_static) ==
    IF s.err THEN s ELSE LocalName(s, s.globals[name].sym, is_static)
Declared(s, name, ty) ==
    IF s.err \/ s.globals[name].defined THEN s ELSE [s EXCEPT !.globals[name].ty = ty]
declare_function(s, name, ty, is_static) ==
    FunctionName(Declared(get_function_obj(s, name), name, ty), name, is_static)

\* Parameters first, then the area where a variadic function saves a0..a7.
VaArea == [kind |-> "array", size |-> 64, align |-> 8, uns |-> FALSE,
           base |-> ty_ulong, len |-> 8, id |-> 0]
RECURSIVE ParamLocals(_, _)
ParamLocals(s, params) ==
    IF s.err \/ params = <<>> THEN s
    ELSE IF params[1].name = "" \/ Len(s.scopes[1]) >= 8 THEN Fatal(s)
    ELSE ParamLocals(new_local(s, params[1].name, params[1].ty, params[1].ty.size),
                     Tail(params))
VaLocal(s, ty) == IF s.err \/ ~ty.variadic THEN s
                  ELSE new_local(s, "__cc_va_area", VaArea, VaArea.size)
Body(s, name, params) ==
    IF s.err THEN s
    ELSE leave_scope([s EXCEPT !.globals[name].body = s.n,
             !.globals[name].frame = align_to(s.locals, 16),
             !.globals[name].params = params])
VaOffset(s, ty, name) == IF ty.variadic THEN [s EXCEPT !.globals[name].va = s.locals] ELSE s
FunctionBody(s, name, ty) ==
    IF s.err THEN s
    ELSE Body(parse_block(VaOffset(s, ty, name)), name,
              [i \in DOMAIN ty.params |-> \* newest first in its scope
                  s.scopes[1][Len(s.scopes[1]) + 1 - i].off])
Defining(s, name, ty, is_static) ==
    IF s.err \/ s.globals[name].defined THEN Fatal(s)
    ELSE FunctionBody(VaLocal(ParamLocals(enter_scope([FunctionName(s, name, is_static)
             EXCEPT !.globals[name].ty = ty, !.globals[name].defined = TRUE,
                    !.syms[s.globals[name].sym].defined = TRUE, !.locals = 16]),
             ty.params), ty), name, ty)
parse_function(s, name, ty, is_static) ==
    Defining(get_function_obj(s, name), name, ty, is_static)

----------------------------------------------------------------------------
(* Local declarations.                                                     *)

Stmt(e) == [kind |-> "expr", lhs |-> e]
Block(body) == [kind |-> "block", body |-> body]
Element(lv, i) == new_unary("deref", new_binary("+", lv, new_num(i)))
MemberNode(s, lv, i) ==
    [kind |-> "member", lhs |-> lv, ty |-> s.aggs[lv.ty.id].members[i + 1].ty,
     offset |-> s.aggs[lv.ty.id].members[i + 1].offset]
\* The statements that store an initialiser, or one of kind "fatal".
AssignStmt(s, lv, e) == Stmt(new_assign(s, lv, e))
RECURSIVE build_local_init(_, _, _)
build_local_init(s, lv, in) ==
    CASE in.k = "expr" -> <<AssignStmt(s, lv, in.e)>>
      [] in.k = "str" ->
            [i \in 1 .. Min2(Len(in.b), LenOf(s.aggs, lv.ty)) |->
                AssignStmt(s, Element(lv, i - 1), new_num(in.b[i]))]
      [] in.k = "list" ->
            FoldLeft(LAMBDA acc, it : acc \o build_local_init(s,
                         IF lv.ty.kind = "array" THEN Element(lv, it[1])
                         ELSE MemberNode(s, lv, it[1]), it[2]),
                     <<>>, in.items)
LocalInit(s, lv, in) ==
    IF in.k = "expr" THEN <<AssignStmt(s, lv, in.e)>>
    ELSE <<[kind |-> "memzero", lhs |-> lv, val |-> SizeOf(s.aggs, lv.ty)]>>
             \o build_local_init(s, lv, in)

RECURSIVE LocalDecls(_, _, _), TypedefNames(_, _)
AfterLocal(s, base, body) ==
    IF s.err \/ \E i \in DOMAIN body : body[i].lhs.kind = "fatal" THEN Fatal(s)
    ELSE IF Is(s, ",") THEN LocalDecls(Adv(s, 1), base, body)
    ELSE expect([s EXCEPT !.n = Block(body)], ";")
LocalNew(s, base, in, body) ==
    IF s.err THEN s
    ELSE AfterLocal(s, base, IF in.k = "no" THEN body
                             ELSE body \o LocalInit(s, LocalNode(s.scopes[1][1]), in))
LocalWith(s, base, name, ty, in, body) ==
    IF s.err \/ ~InitFits(s, ty, in) \/ (ty.kind = "array" /\ LenOf(s.aggs, ty) < 0)
    THEN Fatal(s)
    ELSE LocalNew(new_local(s, name, ty, SizeOf(s.aggs, ty)), base, in, body)
LocalDone(s, base, name, ty, body) ==
    IF s.err THEN s ELSE LocalWith(Completed(s, ty, s.in), base, name, ty, s.in, body)
LocalDecl(s, base, body) ==
    IF s.err \/ s.ty.kind = "func" THEN Fatal(s)
    ELSE IF Is(s, "=")
    THEN LocalDone(parse_initializer(Adv(s, 1), s.ty), base, s.name, s.ty, body)
    ELSE LocalWith(s, base, s.name, s.ty, NoInit, body)
LocalDecls(s, base, body) == LocalDecl(parse_declarator(s, base, FALSE), base, body)
AfterTypedef(s, base) ==
    IF s.err THEN s
    ELSE IF Is(s, ",") THEN TypedefNames(Adv(add_typedef(s, s.name, s.ty), 1), base)
    ELSE expect(add_typedef([s EXCEPT !.n = Block(<<>>)], s.name, s.ty), ";")
TypedefNames(s, base) == AfterTypedef(parse_declarator(s, base, FALSE), base)
LocalSpec(s) ==
    IF s.err \/ s.stat \/ s.ext \/ (Is(s, ";") /\ s.tdef) THEN Fatal(s)
    ELSE IF Is(s, ";") THEN Adv([s EXCEPT !.n = Block(<<>>)], 1)
    ELSE IF s.tdef THEN TypedefNames(s, s.ty)
    ELSE LocalDecls(s, s.ty, <<>>)
parse_local_decl(s) == LocalSpec(parse_declspec(s))

----------------------------------------------------------------------------
(* Statements.                                                             *)

Paren(s) == expect(parse_expr(expect(s, "(")), ")")
Loop(kind, cond, body) == [kind |-> kind, cond |-> cond, body |-> body]
SetN(s, n) == IF s.err THEN s ELSE [s EXCEPT !.n = n]

\* The cases a switch collects while its body is parsed, newest first.
Labelled(s, kind, label) == SetN(s, [kind |-> kind, body |-> s.n, label |-> label])
CaseLabel(s, kind, v) ==
    IF \/ s.err \/ s.switches = <<>>
       \/ \E i \in DOMAIN s.switches[1] :
             s.switches[1][i].kind = kind /\ s.switches[1][i].val = v
    THEN Fatal(s)
    ELSE Labelled(parse_stmt([s EXCEPT !.nlabels = @ + 1,
             !.switches[1] = <<[kind |-> kind, val |-> v, label |-> s.nlabels]>> \o @]),
             kind, s.nlabels)
Case(s) == CaseLabel(expect(s, ":"), "case", s.n.val)
CloseSwitch(s, cond) ==
    IF s.err THEN s
    ELSE [s EXCEPT !.switches = Tail(@),
                   !.n = [kind |-> "switch", cond |-> cond, body |-> s.n,
                          cases |-> s.switches[1]]]
SwitchBody(s) == IF s.err THEN s
                 ELSE CloseSwitch(parse_stmt([s EXCEPT !.switches = <<<<>>>> \o @]), s.n)

IfNode(s, cond, then, els) ==
    SetN(s, [kind |-> "if", cond |-> cond, then |-> then, els |-> els])
Else(s, cond, then) == IfNode(s, cond, then, s.n)
Then(s, cond) ==
    IF s.err THEN s
    ELSE IF Is(s, "else") THEN Else(parse_stmt(Adv(s, 1)), cond, s.n)
    ELSE IfNode(s, cond, s.n, None)
If(s) == IF s.err THEN s ELSE Then(parse_stmt(s), s.n)
WhileBody(s, cond) == SetN(s, Loop("while", cond, s.n))
While(s) == IF s.err THEN s ELSE WhileBody(parse_stmt(s), s.n)
DoCond(s, body) == SetN(s, Loop("do", s.n, body))
Do(s) == IF s.err THEN s ELSE DoCond(expect(Paren(expect(s, "while")), ";"), s.n)

ForNode(s, init, cond, inc) ==
    leave_scope(SetN(s, [kind |-> "for", init |-> init, cond |-> cond, inc |-> inc,
                         body |-> s.n]))
ForBody(s, init, cond) ==
    IF s.err THEN s ELSE ForNode(parse_stmt(expect(s, ")")), init, cond, s.n)
ForInc(s, init, cond) ==
    ForBody(IF Is(s, ")") THEN SetN(s, None) ELSE parse_expr(s), init, cond)
ForCond(s, init) == IF s.err THEN s ELSE ForInc(s, init, s.n)
ForInit(s, init) ==
    IF s.err THEN s
    ELSE ForCond(IF Is(s, ";") THEN SetN(Adv(s, 1), None) ELSE expect(parse_expr(s), ";"),
                 init)
ForExpr(s) == ForInit(expect(s, ";"), Stmt(s.n))
ForDecl(s) == ForInit(s, s.n)
For(s) == IF Is(s, ";") THEN ForInit(Adv(s, 1), None)
          ELSE IF IsTypename(s, s.p) THEN ForDecl(parse_local_decl(s))
          ELSE ForExpr(parse_expr(s))

Return(s) == SetN(expect(s, ";"), [kind |-> "return", lhs |-> s.n])
LabelBody(s, name) == SetN(s, [kind |-> "label", name |-> name, body |-> s.n])
ExprStmt(s) == SetN(expect(s, ";"), Stmt(s.n))
StmtRule(s) ==
    CASE s.err -> s
      [] Is(s, "{") -> parse_block(s)
      [] Is(s, "switch") -> SwitchBody(Paren(Adv(s, 1)))
      [] Is(s, "case") -> Case(ConstOf(parse_expr(Adv(s, 1))))
      [] Is(s, "default") -> CaseLabel(expect(Adv(s, 1), ":"), "default", 0)
      [] Is(s, "goto") ->
            IF IsKind(Adv(s, 1), "id")
            THEN SetN(expect(Adv(s, 2), ";"), [kind |-> "goto", name |-> T(Adv(s, 1))])
            ELSE Fatal(s)
      [] IsKind(s, "id") /\ NextIs(s, ":") /\ T(s) # "default" ->
            LabelBody(parse_stmt(Adv(s, 2)), T(s))
      [] Is(s, "if") -> If(Paren(Adv(s, 1)))
      [] Is(s, "while") -> While(Paren(Adv(s, 1)))
      [] Is(s, "do") -> Do(parse_stmt(Adv(s, 1)))
      [] Is(s, "for") -> For(enter_scope(expect(Adv(s, 1), "(")))
      [] Is(s, "return") ->
            IF NextIs(s, ";") THEN SetN(Adv(s, 2), [kind |-> "return", lhs |-> new_num(0)])
            ELSE Return(parse_expr(Adv(s, 1)))
      [] T(s) \in {"break", "continue"} ->
            SetN(expect(Adv(s, 1), ";"), [kind |-> T(s)])
      [] Is(s, ";") -> SetN(Adv(s, 1), Null)
      [] IsTypename(s, s.p) -> parse_local_decl(s)
      [] OTHER -> ExprStmt(parse_expr(s))

RECURSIVE Stmts(_, _)
StmtThen(s, body) == IF s.err THEN s ELSE Stmts(s, Append(body, s.n))
Stmts(s, body) ==
    IF s.err \/ IsKind(s, "eof") THEN Fatal(s)
    ELSE IF Is(s, "}") THEN leave_scope(SetN(Adv(s, 1), Block(body)))
    ELSE StmtThen(parse_stmt(s), body)
parse_block(s) == Stmts(enter_scope(expect(s, "{")), <<>>)

----------------------------------------------------------------------------
(* Expressions.                                                            *)

new_string_sym(s) ==
    [new_sym(s, ".Lstr", "data", Len(s.in.b), 1) EXCEPT
        !.syms[Len(s.syms) + 1].name = <<".Lstr", s.unit, Len(s.syms)>>,
        !.syms[Len(s.syms) + 1].defined = TRUE, !.syms[Len(s.syms) + 1].static = TRUE,
        !.syms[Len(s.syms) + 1].init = s.in.b,
        !.n = [kind |-> "str", sym |-> Len(s.syms) + 1,
               ty |-> ty_array(s.aggs, ty_char, Len(s.in.b))]]
FunctionNode(s, name) == IF s.err THEN s ELSE SetN(s, GlobalNode(s.globals[name]))
parse_primary(s) ==
    CASE s.err -> s
      [] IsKind(s, "num") -> SetN(Adv(s, 1), new_num(s.toks[s.p].v))
      [] IsKind(s, "str") -> new_string_sym(Concat(s, <<>>))
      [] IsKind(s, "id") ->
            IF find_local(s, T(s)) # <<>>
            THEN SetN(Adv(s, 1), LocalNode(find_local(s, T(s))[1]))
            ELSE IF T(s) \in DOMAIN s.globals
            THEN SetN(Adv(s, 1), GlobalNode(s.globals[T(s)]))
            ELSE IF T(s) \in DOMAIN s.consts
            THEN SetN(Adv(s, 1), new_num(s.consts[T(s)]))
            ELSE IF NextIs(s, "(")
            THEN FunctionNode(get_function_obj(Adv(s, 1), T(s)), T(s))
            ELSE Fatal(s)
      [] OTHER -> IF Is(s, "(") THEN expect(parse_expr(Adv(s, 1)), ")") ELSE Fatal(s)

RECURSIVE Postfix(_), Args(_, _)
\* A member of an aggregate node.
MemberOf(s, n, name) ==
    IF \/ n.kind = "fatal" \/ ~is_aggregate(n.ty) \/ ~IsComplete(s.aggs, n.ty)
       \/ MemberIndex(s, n.ty, name) = {}
    THEN Bad
    ELSE MemberNode(s, n, (CHOOSE i \in MemberIndex(s, n.ty, name) : TRUE) - 1)
Subscript(s, n) ==
    IF s.err \/ new_binary("+", n, s.n).kind = "fatal" THEN Fatal(s)
    ELSE Put(expect(s, "]"), new_unary("deref", new_binary("+", n, s.n)))
Step(s, kind, delta) ==
    IF is_lvalue(s.n) /\ is_scalar(s.n.ty)
    THEN SetN(s, [kind |-> kind, ty |-> s.n.ty, lhs |-> s.n, val |-> delta])
    ELSE Fatal(s)
Delta(s) == IF Is(s, "++") THEN 1 ELSE -1

FnType(n) == CASE n.kind = "var" /\ n.fn -> n.ty
               [] n.ty.kind = "func" -> n.ty
               [] n.ty.kind = "ptr" -> n.ty.base
               [] OTHER -> n.ty
Call(s, n, args) ==
    IF \/ s.err \/ Len(args) > 8 \/ is_aggregate(FnType(n).base)
       \/ \E i \in DOMAIN args : is_aggregate(args[i].ty)
    THEN Fatal(s)
    ELSE SetN(s, [kind |-> "call", ty |-> FnType(n).base, args |-> args, fn |-> n,
                  direct |-> n.kind = "var" /\ n.fn])
AfterArg(s, n, args) ==
    IF s.err THEN s
    ELSE IF Is(s, ",") THEN Args(Adv([s EXCEPT !.n = n], 1), Append(args, s.n))
    ELSE Call(expect(s, ")"), n, Append(args, s.n))
Args(s, args) == AfterArg(parse_assign(s), s.n, args)
Postfix(s) ==
    CASE s.err -> s
      [] Is(s, "[") -> Postfix(Subscript(parse_expr(Adv(s, 1)), s.n))
      [] T(s) \in {".", "->"} ->
            IF ~IsKind(Adv(s, 1), "id") THEN Fatal(s)
            ELSE Postfix(Put(Adv(s, 2), MemberOf(s, IF Is(s, ".") THEN s.n
                                     ELSE new_unary("deref", s.n), T(Adv(s, 1)))))
      [] Is(s, "(") ->
            IF FnType(s.n).kind # "func" THEN Fatal(s)
            ELSE Postfix(IF NextIs(s, ")") THEN Call(Adv(s, 2), s.n, <<>>)
                         ELSE Args(Adv(s, 1), <<>>))
      [] T(s) \in {"++", "--"} -> Postfix(Step(Adv(s, 1), "postinc", Delta(s)))
      [] OTHER -> s
parse_postfix(s) == Postfix(parse_primary(s))

sizeof_type(s, ty) ==
    IF s.err \/ ~IsComplete(s.aggs, ty) \/ SizeOf(s.aggs, ty) <= 0 THEN Fatal(s)
    ELSE SetN(s, new_num(SizeOf(s.aggs, ty)))
Sizeof(s) == sizeof_type(s, s.n.ty)
SizeofName(s) == sizeof_type(expect(s, ")"), s.ty)
Prefix == ("-" :> "neg") @@ ("!" :> "not") @@ ("~" :> "bitnot") @@ ("&" :> "addr")
              @@ ("*" :> "deref")
UnaryNode(s, op) == IF s.err THEN s ELSE Put(s, new_unary(op, s.n))
Incremented(s, delta) == IF s.err THEN s ELSE Step(s, "preinc", delta)
CastTo(s, ty) == IF s.err THEN s ELSE Put(s, new_cast(s.n, ty))
CastOperand(s) == CastTo(parse_unary(expect(s, ")")), s.ty)
parse_unary(s) ==
    CASE s.err -> s
      [] Is(s, "+") -> parse_unary(Adv(s, 1))
      [] T(s) \in DOMAIN Prefix -> UnaryNode(parse_unary(Adv(s, 1)), Prefix[T(s)])
      [] T(s) \in {"++", "--"} -> Incremented(parse_unary(Adv(s, 1)), Delta(s))
      [] Is(s, "sizeof") ->
            IF NextIs(s, "(") /\ IsTypename(s, s.p + 2)
            THEN SizeofName(parse_type_name(Adv(s, 2)))
            ELSE Sizeof(parse_unary(Adv(s, 1)))
      [] Is(s, "(") /\ IsTypename(s, s.p + 1) -> CastOperand(parse_type_name(Adv(s, 1)))
      [] OTHER -> parse_postfix(s)

\* parse_logor down to parse_mul, loosest first: each a left-associative
\* loop over the next.
BinaryOps == <<{"||"}, {"&&"}, {"|"}, {"^"}, {"&"}, {"==", "!="},
               {"<", "<=", ">", ">="}, {"<<", ">>"}, {"+", "-"}, {"*", "/", "%"}>>
RECURSIVE Level(_, _), LevelRest(_, _)
Combined(s, op, l) ==
    IF s.err THEN s
    ELSE Put(s, IF op \in CmpOps THEN new_cmp(op, l, s.n) ELSE new_binary(op, l, s.n))
Level(k, s) == IF k > Len(BinaryOps) THEN parse_unary(s) ELSE LevelRest(k, Level(k + 1, s))
LevelRest(k, s) ==
    IF s.err \/ T(s) \notin BinaryOps[k] THEN s
    ELSE LevelRest(k, Combined(Level(k + 1, Adv(s, 1)), T(s), s.n))

CondNode(s, cond, then) ==
    IF s.err THEN s
    ELSE SetN(s, [kind |-> "cond", cond |-> cond, then |-> then, els |-> s.n,
                  ty |-> IF SizeOf(s.aggs, then.ty) >= SizeOf(s.aggs, s.n.ty)
                         THEN then.ty ELSE s.n.ty])
CondElse(s, cond) ==
    IF s.err THEN s ELSE CondNode(parse_cond(expect(s, ":")), cond, s.n)
CondRest(s) == IF s.err \/ ~Is(s, "?") THEN s
               ELSE CondElse(parse_expr(Adv(s, 1)), s.n)
parse_cond(s) == CondRest(Level(1, s))

AssignOps == ("+=" :> "+") @@ ("-=" :> "-") @@ ("*=" :> "*") @@ ("/=" :> "/")
                 @@ ("%=" :> "%") @@ ("&=" :> "&") @@ ("|=" :> "|") @@ ("^=" :> "^")
                 @@ ("<<=" :> "<<") @@ (">>=" :> ">>")
Assigned(s, l) == IF s.err THEN s ELSE Put(s, new_assign(s, l, s.n))
OpAssigned(s, l, op) ==
    IF s.err \/ ~is_lvalue(l) \/ ~is_scalar(l.ty) THEN Fatal(s)
    ELSE SetN(s, [kind |-> "opassign", ty |-> l.ty, lhs |-> l, rhs |-> s.n, op |-> op])
AssignRest(s) ==
    CASE s.err -> s
      [] Is(s, "=") -> Assigned(parse_assign(Adv(s, 1)), s.n)
      [] T(s) \in DOMAIN AssignOps ->
            OpAssigned(parse_assign(Adv(s, 1)), s.n, AssignOps[T(s)])
      [] OTHER -> s
AssignRule(s) == AssignRest(parse_cond(s))

RECURSIVE CommaRest(_)
Comma(s, l) == IF s.err THEN s ELSE SetN(s, Binary("comma", s.n.ty, l, s.n))
CommaRest(s) == IF s.err \/ ~Is(s, ",") THEN s
                ELSE CommaRest(Comma(parse_assign(Adv(s, 1)), s.n))
ExprRule(s) == CommaRest(parse_assign(s))

----------------------------------------------------------------------------
(* The translation unit.                                                   *)

RECURSIVE Externals(_, _, _, _)
AfterGlobal(s, base, is_static, is_extern) ==
    IF s.err THEN s
    ELSE IF Is(s, ",") THEN Externals(Adv(s, 1), base, is_static, is_extern)
    ELSE expect(s, ";")
External(s, base, is_static, is_extern) ==
    CASE s.err -> s
      [] ~s.err /\ s.ty.kind = "func" /\ Is(s, "{") ->
            parse_function(s, s.name, s.ty, is_static)
      [] ~s.err /\ s.ty.kind = "func" /\ ~Is(s, "{") ->
            expect(declare_function(s, s.name, s.ty, is_static), ";")
      [] OTHER -> AfterGlobal(parse_global_var(s, is_static, is_extern),
                              base, is_static, is_extern)
Externals(s, base, is_static, is_extern) ==
    External(parse_declarator(s, base, FALSE), base, is_static, is_extern)
TopLevel(s) ==
    IF s.err \/ (Is(s, ";") /\ s.tdef) THEN Fatal(s)
    ELSE IF Is(s, ";") THEN Adv(s, 1)
    ELSE IF s.tdef THEN TypedefNames(s, s.ty)
    ELSE Externals(s, s.ty, s.stat, s.ext)
UnitRule(s) ==
    IF s.err \/ IsKind(s, "eof") THEN s
    ELSE parse_translation_unit(IF Is(s, ";") THEN Adv(s, 1) ELSE TopLevel(parse_declspec(s)))

Parse(rule, s, arg) ==
    CASE rule = "expr" -> ExprRule(s)
      [] rule = "assign" -> AssignRule(s)
      [] rule = "declspec" -> DeclspecRule(s)
      [] rule = "declarator" -> DeclaratorRule(s, arg[1], arg[2])
      [] rule = "initializer" -> InitializerRule(s, arg)
      [] rule = "stmt" -> StmtRule(s)
      [] rule = "unit" -> UnitRule(s)
============================================================================
