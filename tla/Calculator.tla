------------------------------ MODULE Calculator ------------------------------
(***************************************************************************)
(* The calculator that guides and answers are worked out with              *)
(* (mathx/parse.go): a parser by recursive descent that evaluates as it    *)
(* reads.  What is meant is a tree; it is written down as one would, with  *)
(* no more parentheses than the grammar asks for.                          *)
(*                                                                         *)
(* An expression is a sequence of words: numbers, the unit j and numbers   *)
(* it is fused with, names, operators.  Left out: how words are told       *)
(* apart, a plus that is no sum's, variables, and all functions but three. *)
(*                                                                         *)
(* Bounds: a tree grows MaxGrowth times, by an operand of Operands.        *)
(***************************************************************************)
EXTENDS Values, Sequences, SequencesExt, FiniteSets

CONSTANT MaxGrowth

VARIABLES
  tree, \* what is meant
  grown \* how often it grew

vars == <<tree, grown>>

Num(w) == CASE w = "0" -> 0 [] w = "2" -> 2 [] w = "4" -> 4 [] w = "90" -> 90 [] OTHER -> -1
Named(w) == w \in {"j", "sqrt", "re", "max"}
Opens(w) == Num(w) >= 0 \/ w = "j2" \/ Named(w) \/ w = "("

-----------------------------------------------------------------------------
(* The parser.  What a rule reads, from a place on: its value, and the     *)
(* place after it.  The rules call each other through read.                *)

At(ws, i) == IF i \in 1..Len(ws) THEN ws[i] ELSE "end"
Read(value, at) == [v |-> value, at |-> at]
Failed == Read(Err, 0)

RECURSIVE SumFrom(_, _, _), ProductFrom(_, _, _), PostfixFrom(_, _), Args(_, _, _), Signs(_, _)

\* add
Sum(read, ws, i) == SumFrom(read, ws, read["product", i])
SumFrom(read, ws, left) ==
  IF left.v = Err THEN Failed
  ELSE IF At(ws, left.at) \in {"+", "-"}
    THEN LET right == read["product", left.at + 1]
         IN SumFrom(read, ws, Read(IF At(ws, left.at) = "+" THEN Add(left.v, right.v) ELSE Sub(left.v, right.v),
                                   right.at))
  ELSE left

\* mul: one operand next to another is multiplied.
Product(read, ws, i) == ProductFrom(read, ws, read["angle", i])
ProductFrom(read, ws, left) ==
  LET w == At(ws, left.at)
      right == read["angle", IF w \in {"*", "/"} THEN left.at + 1 ELSE left.at]
  IN IF left.v = Err THEN Failed
     ELSE IF w \in {"*", "/"} \/ Opens(w)
       THEN ProductFrom(read, ws, Read(IF w = "/" THEN Div(left.v, right.v) ELSE Mul(left.v, right.v), right.at))
     ELSE left

\* angle: its right side is in degrees with a degree sign or without.
Angle(read, ws, i) ==
  LET left == read["unary", i]
      right == read["angle operand", left.at + 1]
  IN IF left.v = Err THEN Failed
     ELSE IF At(ws, left.at) # "at" THEN left
     ELSE Read(Polar(left.v, right.v), right.at)

AngleOperand(read, ws, i) ==
  IF At(ws, i) = "-" THEN LET r == read["angle operand", i + 1] IN Read(Neg(r.v), r.at)
  ELSE LET r == read["power", i] IN Read(r.v, Signs(ws, r.at))

Signs(ws, i) == IF At(ws, i) = "deg" THEN Signs(ws, i + 1) ELSE i

Unary(read, ws, i) == IF At(ws, i) = "-" THEN LET r == read["unary", i + 1] IN Read(Neg(r.v), r.at)
                      ELSE read["postfix", i]

\* A degree sign multiplies by pi/180.
Degrees(v) == IF v.kind # "number" THEN v ELSE Value(v.re, v.im, v.deg + 1, FALSE)
Postfix(read, ws, i) == PostfixFrom(ws, read["power", i])
PostfixFrom(ws, r) == IF r.v # Err /\ At(ws, r.at) = "deg" THEN PostfixFrom(ws, Read(Degrees(r.v), r.at + 1))
                      ELSE r

\* pow: its exponent is a unary, so that powers are read from the right.
Power(read, ws, i) ==
  LET base == read["atom", i]
      exponent == read["unary", base.at + 1]
  IN IF base.v = Err \/ At(ws, base.at) # "^" THEN base
     ELSE Read(Pow(base.v, exponent.v), exponent.at)

\* The functions that give values of this kind.
Re(v) == IF v.kind # "number" THEN v ELSE Value(v.re, Zero, v.deg, FALSE)
Greater(a, b) == Both(a, b, IF ~IsReal(a) \/ ~IsReal(b) THEN Err
                            ELSE IF a.deg # b.deg THEN Other
                            ELSE [(IF QLess(a.re, b.re) THEN b ELSE a) EXCEPT !.exact = TRUE])
Call(name, args) ==
  CASE name = "sqrt" /\ Len(args) = 1 -> Sqrt(args[1])
    [] name = "re" /\ Len(args) = 1 -> Re(args[1])
    [] name = "max" /\ args # <<>> -> FoldLeft(Greater, Greater(args[1], args[1]), args)
    [] OTHER -> Err

\* The arguments of a call, and the place of what follows them.
Args(read, ws, i) ==
  LET first == read["sum", i]
      rest == Args(read, ws, first.at + 1)
  IN IF first.v = Err THEN [args |-> <<Err>>, at |-> 0]
     ELSE IF At(ws, first.at) = "," THEN [args |-> <<first.v>> \o rest.args, at |-> rest.at]
     ELSE [args |-> <<first.v>>, at |-> first.at]

Atom(read, ws, i) ==
  LET w == At(ws, i)
      sum == read["sum", i + 1]
      args == IF At(ws, i + 2) = ")" THEN [args |-> <<>>, at |-> i + 2] ELSE Args(read, ws, i + 2)
  IN CASE Num(w) >= 0 -> Read(Rat(<<Num(w), 1>>), i + 1)
       [] w = "j2" -> Read(Complex(Zero, <<2, 1>>), i + 1)
       [] Named(w) /\ At(ws, i + 1) = "(" ->
            IF At(ws, args.at) # ")" THEN Failed ELSE Read(Call(w, args.args), args.at + 1)
       [] w = "j" -> Read(Complex(Zero, One), i + 1)
       [] w = "(" -> IF At(ws, sum.at) # ")" THEN Failed ELSE Read(sum.v, sum.at + 1)
       [] OTHER -> Failed

Rules == {"sum", "product", "angle", "angle operand", "unary", "postfix", "power", "atom"}

Eval(ws) ==
  LET read[rule \in Rules, i \in Nat] ==
        CASE rule = "sum" -> Sum(read, ws, i) [] rule = "product" -> Product(read, ws, i)
          [] rule = "angle" -> Angle(read, ws, i) [] rule = "angle operand" -> AngleOperand(read, ws, i)
          [] rule = "unary" -> Unary(read, ws, i) [] rule = "postfix" -> Postfix(read, ws, i)
          [] rule = "power" -> Power(read, ws, i) [] rule = "atom" -> Atom(read, ws, i)
      whole == read["sum", 1]
  IN IF whole.v = Err \/ whole.at <= Len(ws) THEN Err ELSE whole.v

-----------------------------------------------------------------------------
(* What is meant, and how it is written.                                   *)

Leaf(w) == [op |-> w, of |-> <<>>]
Node(op, of) == [op |-> op, of |-> of]

RECURSIVE Meaning(_), Write(_, _)

Meaning(t) ==
  LET v == [i \in 1..Len(t.of) |-> Meaning(t.of[i])] IN
  CASE t.op = "+" -> Add(v[1], v[2])
    [] t.op = "-" -> Sub(v[1], v[2])
    [] t.op \in {"*", "next"} -> Mul(v[1], v[2])
    [] t.op = "/" -> Div(v[1], v[2])
    [] t.op = "^" -> Pow(v[1], v[2])
    [] t.op \in {"at", "at deg"} -> Polar(v[1], v[2])
    [] t.op = "neg" -> Neg(v[1])
    [] t.op = "deg" -> Degrees(v[1])
    [] t.op \in {"sqrt", "re", "max"} -> IF Err \in ToSet(v) THEN Err ELSE Call(t.op, v)
    [] t.op = "j" -> Complex(Zero, One)
    [] t.op = "j2" -> Complex(Zero, <<2, 1>>)
    [] OTHER -> Rat(<<Num(t.op), 1>>)

\* How tightly a tree's operator binds.
Binds(t) == CASE t.op \in {"+", "-"} -> 1 [] t.op \in {"*", "/", "next"} -> 2 [] t.op \in {"at", "at deg"} -> 3
              [] t.op = "neg" -> 4 [] t.op = "deg" -> 5 [] t.op = "^" -> 6 [] OTHER -> 7

\* Written where something binding as tightly as least is asked for.  A degree sign after
\* a power would be its exponent's; what is next to something must not open with a sign,
\* nor be in parentheses after a name.
Write(t, least) ==
  LET L(b) == Write(t.of[1], b)
      R(b) == Write(t.of[2], b)
      Paren(ws) == <<"(">> \o ws \o <<")">>
      next == IF ~Opens(R(3)[1]) THEN Paren(R(1)) ELSE R(3)
      star == IF Named(Last(L(2))) /\ next[1] = "(" THEN <<"*">> ELSE <<>>
      Angled(b) == IF t.of[2].op = "neg" THEN <<"-">> \o Write(t.of[2].of[1], b) ELSE R(b)
      text ==
        CASE t.op \in {"+", "-"} -> L(1) \o <<t.op>> \o R(2)
          [] t.op \in {"*", "/"} -> L(2) \o <<t.op>> \o R(3)
          [] t.op = "next" -> L(2) \o star \o next
          [] t.op = "at" -> L(4) \o <<"at">> \o Angled(6)
          [] t.op = "at deg" -> L(4) \o <<"at">> \o Angled(7) \o <<"deg">>
          [] t.op = "^" -> L(7) \o <<"^">> \o R(4)
          [] t.op = "neg" -> <<"-">> \o L(4)
          [] t.op = "deg" -> L(IF t.of[1].op = "^" THEN 7 ELSE 5) \o <<"deg">>
          [] t.op \in {"sqrt", "re"} -> <<t.op, "(">> \o L(1) \o <<")">>
          [] t.op = "max" -> <<"max", "(">> \o L(1) \o <<",">> \o R(1) \o <<")">>
          [] OTHER -> <<t.op>>
  IN IF Binds(t) < least THEN Paren(text) ELSE text

Operands == {Leaf("0"), Leaf("2"), Leaf("90"), Leaf("j2"), Node("+", <<Leaf("2"), Leaf("j")>>),
             Node("neg", <<Leaf("2")>>), Node("^", <<Leaf("2"), Leaf("2")>>)}

Grow(t) == grown < MaxGrowth /\ grown' = grown + 1 /\ tree' = t

Init == grown = 0 /\ tree \in {Leaf("2"), Leaf("4"), Leaf("j")}

Next == \/ \E op \in {"neg", "deg", "sqrt", "re"} : Grow(Node(op, <<tree>>))
        \/ \E op \in {"+", "-", "*", "next", "/", "^", "at", "at deg", "max"}, t \in Operands :
             Grow(Node(op, <<tree, t>>)) \/ Grow(Node(op, <<t, tree>>))

Spec == Init /\ [][Next]_vars

-----------------------------------------------------------------------------

TypeOK == grown \in 0..MaxGrowth /\ Meaning(tree).kind \in {"number", "other", "error"}

\* What is written is read as it is meant, to the value and whether it is exact; and
\* refused only if what is meant has no value.
ReadAsMeant == Eval(Write(tree, 1)) = Meaning(tree)

RECURSIVE Rational(_)
Rational(t) == /\ t.op \notin {"j", "j2", "deg", "at", "at deg", "re"}
               /\ \A i \in 1..Len(t.of) : Rational(t.of[i])

RECURSIVE Has(_, _)
Has(t, op) == t.op = op \/ \E i \in 1..Len(t.of) : Has(t.of[i], op)

\* "Arithmetic stays exact (big.Rat) while every operand is rational" (value.go:2), and
\* only then, but for max, which makes what it returns exact.
StaysExact ==
  LET v == Meaning(tree)
  IN v.kind = "number" =>
       /\ Rational(tree) /\ (Has(tree, "sqrt") => v.im = Zero) => v.exact
       /\ v.exact /\ ~Has(tree, "max") => Rational(tree) /\ v.im = Zero

\* The calculator says what an expression means, and that it is exact when it is.
Calculates == ReadAsMeant /\ StaysExact
=============================================================================
