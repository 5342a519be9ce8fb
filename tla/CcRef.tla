------------------------------- MODULE CcRef -------------------------------
(***************************************************************************)
(* C as the compiled programs are meant to behave: expression and          *)
(* statement trees over scalar variables, how they are written down with   *)
(* no parenthesis that precedence makes redundant, and what they mean.     *)
(* Nothing here is taken from the compiler; the words are CcTypes'.        *)
(*                                                                         *)
(* A tree is a tuple whose head names its form.  An environment e holds    *)
(* the variables, [ty, v], the signal of a statement that left early, the  *)
(* value returned, and ub, set when C leaves the behaviour undefined.      *)
(***************************************************************************)
EXTENDS CcCpu

Num(v) == <<"num", v>>
Var(x) == <<"var", x>>
Bin(op, a, b) == <<"bin", op, a, b>>

Size == ("schar" :> 1) @@ ("short" :> 2) @@ ("int" :> 4) @@ ("uint" :> 4)
            @@ ("long" :> 8) @@ ("ulong" :> 8)
Uns(ty) == ty \in {"uint", "ulong"}
Conv(v, ty) == View(v, Size[ty], Uns(ty))
Promoted(ty) == IF ty \in {"schar", "short"} THEN "int" ELSE ty
Rank == <<"int", "uint", "long", "ulong">>
Larger(s, t) == CHOOSE r \in {s, t} :
                    \A i, j \in 1 .. 4 : Rank[i] = r /\ Rank[j] \in {s, t} => i >= j
Usual(s, t) == Larger(Promoted(s), Promoted(t))

----------------------------------------------------------------------------
(* Writing a tree down.                                                    *)

Op(t) == <<[k |-> "op", t |-> t, v |-> 0]>>
Id(t) == <<[k |-> "id", t |-> t, v |-> 0]>>
Lit(v) == <<[k |-> "num", t |-> "#", v |-> v]>>
Words(ws) == [i \in DOMAIN ws |-> [k |-> "id", t |-> ws[i], v |-> 0]]
TypeWords == ("schar" :> Words(<<"signed", "char">>)) @@ ("short" :> Words(<<"short">>))
                 @@ ("int" :> Words(<<"int">>)) @@ ("uint" :> Words(<<"unsigned">>))
                 @@ ("long" :> Words(<<"long">>))
                 @@ ("ulong" :> Words(<<"unsigned", "long">>))

OpPrec == ("||" :> 4) @@ ("&&" :> 5) @@ ("|" :> 6) @@ ("^" :> 7) @@ ("&" :> 8)
              @@ ("==" :> 9) @@ ("!=" :> 9) @@ ("<" :> 10) @@ ("<=" :> 10)
              @@ (">" :> 10) @@ (">=" :> 10) @@ ("<<" :> 11) @@ (">>" :> 11)
              @@ ("+" :> 12) @@ ("-" :> 12) @@ ("*" :> 13) @@ ("/" :> 13) @@ ("%" :> 13)
Prec(t) == CASE t[1] = "comma" -> 1 [] t[1] = "asg" -> 2 [] t[1] = "cond" -> 3
             [] t[1] = "bin" -> OpPrec[t[2]] [] t[1] \in {"un", "pre", "cast"} -> 14
             [] t[1] = "post" -> 15 [] OTHER -> 16

RECURSIVE Written(_, _), Text(_)
Written(t, min) == IF Prec(t) < min THEN Op("(") \o Text(t) \o Op(")") ELSE Text(t)
Text(t) ==
    CASE t[1] = "num" -> Lit(t[2])
      [] t[1] = "var" -> Id(t[2])
      [] t[1] = "bin" -> Written(t[3], Prec(t)) \o Op(t[2]) \o Written(t[4], Prec(t) + 1)
      [] t[1] \in {"un", "pre"} -> Op(t[2]) \o Written(t[3], 14)
      [] t[1] = "post" -> Written(t[3], 15) \o Op(t[2])
      [] t[1] = "cast" -> Op("(") \o TypeWords[t[2]] \o Op(")") \o Written(t[3], 14)
      [] t[1] = "asg" -> Written(t[3], 14) \o Op(t[2]) \o Written(t[4], 2)
      [] t[1] = "cond" -> Written(t[2], 4) \o Op("?") \o Written(t[3], 1) \o Op(":")
                              \o Written(t[4], 3)
      [] t[1] = "comma" -> Written(t[2], 1) \o Op(",") \o Written(t[3], 2)

RECURSIVE Code(_)
Code(t) ==
    CASE t[1] = "expr" -> Text(t[2]) \o Op(";")
      [] t[1] = "empty" -> Op(";")
      [] t[1] = "block" -> Op("{") \o FlattenSeq([i \in DOMAIN t[2] |-> Code(t[2][i])])
                               \o Op("}")
      [] t[1] = "if" -> Id("if") \o Op("(") \o Text(t[2]) \o Op(")") \o Code(t[3])
      [] t[1] = "ifelse" -> Id("if") \o Op("(") \o Text(t[2]) \o Op(")") \o Code(t[3])
                                \o Id("else") \o Code(t[4])
      [] t[1] = "while" -> Id("while") \o Op("(") \o Text(t[2]) \o Op(")") \o Code(t[3])
      [] t[1] = "do" -> Id("do") \o Code(t[3]) \o Id("while") \o Op("(") \o Text(t[2])
                            \o Op(")") \o Op(";")
      [] t[1] = "for" -> Id("for") \o Op("(") \o Text(t[2]) \o Op(";") \o Text(t[3])
                             \o Op(";") \o Text(t[4]) \o Op(")") \o Code(t[5])
      [] t[1] = "switch" -> Id("switch") \o Op("(") \o Text(t[2]) \o Op(")") \o Code(t[3])
      [] t[1] = "case" -> Id("case") \o Lit(t[2]) \o Op(":") \o Code(t[3])
      [] t[1] = "default" -> Id("default") \o Op(":") \o Code(t[2])
      [] t[1] \in {"break", "continue"} -> Id(t[1]) \o Op(";")
      [] t[1] = "return" -> Id("return") \o Text(t[2]) \o Op(";")
      [] t[1] = "goto" -> Id("goto") \o Id(t[2]) \o Op(";")
      [] t[1] = "label" -> Id(t[2]) \o Op(":") \o Code(t[3])

----------------------------------------------------------------------------
(* What it means.  The value of an expression is left in e.ty and e.v.     *)

Val(e, v, ty) == [e EXCEPT !.v = v, !.ty = ty]
Undef(e) == [e EXCEPT !.ub = TRUE]
Shiftable(e, n, ty) == n \in 0 .. Size[ty] * ByteBits - 1
Arith(op, a, b, uns) ==
    CASE op = "+" -> a + b [] op = "-" -> a - b [] op = "*" -> a * b
      [] op = "/" -> IF uns THEN a \div b ELSE Quot(a, b)
      [] op = "%" -> IF uns THEN a % b ELSE Rem(a, b)
      [] op = "&" -> BitAnd(a, b) [] op = "|" -> BitOr(a, b) [] op = "^" -> BitXor(a, b)
Small(v) == v \in -(2^(3 * ByteBits)) .. 2^(3 * ByteBits)
Apply(e, op, x, y, s, ty) == \* x of type s, y already in e
    CASE op \in {"<<", ">>"} ->
            IF ~Shiftable(e, y, Promoted(s)) \/ (op = "<<" /\ x < 0) THEN Undef(e)
            ELSE Val(e, Conv(IF op = "<<" THEN (x % 2^(8 * ByteBits - y)) * 2^y
                             ELSE x \div 2^y, Promoted(s)), Promoted(s))
      [] op \in CmpOps -> Val(e, Compare(op, Conv(x, ty), Conv(y, ty)), "int")
      [] op \in {"/", "%"} /\ y = 0 -> Undef(e)
      [] op = "*" /\ ~(Small(x) /\ Small(y)) -> Undef(e)
      [] OTHER -> Val(e, Conv(Arith(op, Conv(x, ty), Conv(y, ty), Uns(ty)), ty), ty)
Applied(e, op, x, s) == IF e.ub THEN e ELSE Apply(e, op, x, e.v, s, Usual(s, e.ty))
SetVar(e, x, v) == [e EXCEPT !.vars[x].v = Conv(v, e.vars[x].ty), !.v = Conv(v, e.vars[x].ty),
                             !.ty = e.vars[x].ty]

RECURSIVE Eval(_, _)
Right(e, t, op) == IF e.ub THEN e ELSE Applied(Eval(t, e), op, e.v, e.ty)
Bool(e) == IF e.ub THEN e ELSE Val(e, Truth(e.v # 0), "int")
Logic(e, op, t) == IF e.ub \/ (e.v = 0) = (op = "&&") THEN Bool(e) ELSE Bool(Eval(t, e))
Minus(e) == IF e.ub THEN e ELSE Val(e, Conv(-e.v, Promoted(e.ty)), Promoted(e.ty))
Complement(e) == IF e.ub THEN e ELSE Val(e, Conv(-1 - e.v, Promoted(e.ty)), Promoted(e.ty))
Negated(e) == IF e.ub THEN e ELSE Val(e, Truth(e.v = 0), "int")
ToType(e, ty) == IF e.ub THEN e ELSE Val(e, Conv(e.v, ty), ty)
Stored(e, x) == IF e.ub THEN e ELSE SetVar(e, x, e.v)
StoredOp(e, x, op) == \* the variable's value is read before the operand
    IF e.ub THEN e ELSE Stored(Applied(e, op, e.vars[x].v, e.vars[x].ty), x)
Bumped(e, x, d, old) ==
    IF old THEN Val(SetVar(e, x, e.vars[x].v + d), e.vars[x].v, e.vars[x].ty)
    ELSE SetVar(e, x, e.vars[x].v + d)
Chosen(e, t) == IF e.ub THEN e ELSE Eval(IF e.v # 0 THEN t[3] ELSE t[4], e)
BaseOp == ("+=" :> "+") @@ ("-=" :> "-") @@ ("*=" :> "*") @@ ("/=" :> "/") @@ ("%=" :> "%")
              @@ ("&=" :> "&") @@ ("|=" :> "|") @@ ("^=" :> "^") @@ ("<<=" :> "<<")
              @@ (">>=" :> ">>")
Sign(op, e) == CASE op = "-" -> Minus(e) [] op = "~" -> Complement(e)
                 [] op = "!" -> Negated(e)
Eval(t, e) ==
    CASE e.ub -> e
      [] t[1] = "num" -> Val(e, t[2], IF Conv(t[2], "int") = t[2] THEN "int" ELSE "long")
      [] t[1] = "var" -> Val(e, e.vars[t[2]].v, e.vars[t[2]].ty)
      [] t[1] = "bin" -> IF t[2] \in {"&&", "||"} THEN Logic(Eval(t[3], e), t[2], t[4])
                         ELSE Right(Eval(t[3], e), t[4], t[2])
      [] t[1] = "un" -> Sign(t[2], Eval(t[3], e))
      [] t[1] = "cast" -> ToType(Eval(t[3], e), t[2])
      [] t[1] = "asg" -> IF t[2] = "=" THEN Stored(Eval(t[4], e), t[3][2])
                         ELSE StoredOp(Eval(t[4], e), t[3][2], BaseOp[t[2]])
      [] t[1] \in {"pre", "post"} ->
            Bumped(e, t[3][2], IF t[2] = "++" THEN 1 ELSE -1, t[1] = "post")
      [] t[1] = "cond" -> Chosen(Eval(t[2], e), t)
      [] t[1] = "comma" -> Eval(t[3], Eval(t[2], e))

\* Statements.  sig: "ok", "break", "continue", "return" or <<"goto", label>>
\* (kept as the label's name).
Sig(e, sig) == [e EXCEPT !.sig = sig]
RECURSIVE Exec(_, _), ExecFrom(_, _, _), Iterate(_, _, _, _)
LabelAt(stmts, name) ==
    {i \in DOMAIN stmts : stmts[i][1] = "label" /\ stmts[i][2] = name}
Continue(e, stmts, i) ==
    IF e.sig = "ok" THEN ExecFrom(e, stmts, i + 1)
    ELSE IF LabelAt(stmts, e.sig) # {}
    THEN ExecFrom(Sig(e, "ok"), stmts, CHOOSE j \in LabelAt(stmts, e.sig) : TRUE)
    ELSE e
ExecFrom(e, stmts, i) ==
    IF e.ub \/ i > Len(stmts) THEN e ELSE Continue(Exec(stmts[i], e), stmts, i)
\* One turn of a loop was taken: leave it, or take the increment and go on.
Turned(e, cond, inc, body) ==
    IF e.ub THEN e
    ELSE IF e.sig = "break" THEN Sig(e, "ok")
    ELSE IF e.sig \in {"ok", "continue"}
    THEN Iterate(Eval(cond, Eval(inc, Sig(e, "ok"))), cond, inc, body)
    ELSE e
Iterate(e, cond, inc, body) ==
    IF e.ub \/ e.v = 0 THEN e ELSE Turned(Exec(body, e), cond, inc, body)
Branch(e, s, t) == IF e.ub THEN e ELSE Exec(IF e.v # 0 THEN s ELSE t, e)
\* The case labels stand directly in the block of the switch.
CaseAt(stmts, v) ==
    LET hit == {i \in DOMAIN stmts : stmts[i][1] = "case" /\ stmts[i][2] = v}
        any == {i \in DOMAIN stmts : stmts[i][1] = "default"}
    IN  IF hit # {} THEN CHOOSE i \in hit : TRUE
        ELSE IF any # {} THEN CHOOSE i \in any : TRUE ELSE Len(stmts) + 1
EndSwitch(e) == IF e.sig = "break" THEN Sig(e, "ok") ELSE e
Select(e, stmts) == IF e.ub THEN e ELSE EndSwitch(ExecFrom(e, stmts, CaseAt(stmts, e.v)))
Returned(e) == IF e.ub THEN e ELSE Sig([e EXCEPT !.ret = e.v], "return")
Exec(t, e) ==
    CASE e.ub -> e
      [] t[1] = "expr" -> Eval(t[2], e)
      [] t[1] = "empty" -> e
      [] t[1] = "block" -> ExecFrom(e, t[2], 1)
      [] t[1] = "if" -> Branch(Eval(t[2], e), t[3], <<"empty">>)
      [] t[1] = "ifelse" -> Branch(Eval(t[2], e), t[3], t[4])
      [] t[1] = "while" -> Iterate(Eval(t[2], e), t[2], Num(0), t[3])
      [] t[1] = "do" -> Turned(Exec(t[3], e), t[2], Num(0), t[3])
      [] t[1] = "for" -> Iterate(Eval(t[3], Eval(t[2], e)), t[3], t[4], t[5])
      [] t[1] = "switch" -> Select(Eval(t[2], e), t[3][2])
      [] t[1] = "case" -> Exec(t[3], e)
      [] t[1] = "default" -> Exec(t[2], e)
      [] t[1] \in {"break", "continue"} -> Sig(e, t[1])
      [] t[1] = "return" -> Returned(Eval(t[2], e))
      [] t[1] = "goto" -> Sig(e, t[2])
      [] t[1] = "label" -> Exec(t[3], e)

Meaning(body, vars) ==
    Exec(body, [vars |-> vars, v |-> 0, ty |-> "int", sig |-> "ok", ret |-> 0, ub |-> FALSE])
============================================================================
