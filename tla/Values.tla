-------------------------------- MODULE Values --------------------------------
(***************************************************************************)
(* The calculator's values and their arithmetic (mathx/value.go): exact    *)
(* while every operand is a rational number, complex and approximate from  *)
(* then on.  Approximations are taken to be right: a value is a complex    *)
(* number with rational parts, times a power of pi/180 (what a degree sign *)
(* multiplies by).  Values that are not of this kind, or that grow past    *)
(* Cap, are Other: what comes of them is Other too, or an error.           *)
(***************************************************************************)
EXTENDS Integers

Cap == 5000
MaxExactPower == 4 \* 4095

Abs(n) == IF n < 0 THEN -n ELSE n
Gcd[a, b \in Nat] == IF b = 0 THEN a ELSE Gcd[b, a % b]

-----------------------------------------------------------------------------
(* Rational numbers, in lowest terms; NaQ is one that is not tracked.      *)

NaQ == <<0, 0>>
Q(n, d) ==
  IF d = 0 THEN NaQ
  ELSE LET g == Gcd[Abs(n), Abs(d)]
           sign == IF d < 0 THEN -1 ELSE 1
           num == (sign * n) \div g
           den == Abs(d) \div g
       IN IF Abs(num) > Cap \/ den > Cap THEN NaQ ELSE <<num, den>>

QAdd(p, q) == Q(p[1] * q[2] + q[1] * p[2], p[2] * q[2])
QMul(p, q) == Q(p[1] * q[1], p[2] * q[2])
QNeg(p) == <<-p[1], p[2]>>
QInv(p) == Q(p[2], p[1])
Zero == <<0, 1>>
One == <<1, 1>>
QLess(p, q) == p[1] * q[2] < q[1] * p[2]

-----------------------------------------------------------------------------

Err == [kind |-> "error"]
Other == [kind |-> "other"]

Value(re, im, deg, exact) ==
  IF re = NaQ \/ im = NaQ THEN Other
  ELSE [kind |-> "number", re |-> re, im |-> im, exact |-> exact,
        deg |-> IF re = Zero /\ im = Zero THEN 0 ELSE deg]

Rat(q) == Value(q, Zero, 0, TRUE)
Complex(re, im) == Value(re, im, 0, FALSE)

IsZero(v) == v.re = Zero /\ v.im = Zero
IsReal(v) == v.im = Zero
Approx(v) == [v EXCEPT !.exact = FALSE]

\* What is made of operands is an error if one of them is, and Other if one of them is.
Both(a, b, made) == IF Err \in {a, b} THEN Err ELSE IF Other \in {a, b} THEN Other ELSE made

Add(a, b) ==
  Both(a, b, IF a.deg # b.deg /\ ~IsZero(a) /\ ~IsZero(b) THEN Other
             ELSE Value(QAdd(a.re, b.re), QAdd(a.im, b.im), IF IsZero(a) THEN b.deg ELSE a.deg,
                        a.exact /\ b.exact))

Neg(a) == IF a.kind # "number" THEN a ELSE Value(QNeg(a.re), QNeg(a.im), a.deg, a.exact)
Sub(a, b) == Add(a, Neg(b))

Mul(a, b) ==
  Both(a, b, Value(QAdd(QMul(a.re, b.re), QNeg(QMul(a.im, b.im))),
                   QAdd(QMul(a.re, b.im), QMul(a.im, b.re)), a.deg + b.deg, a.exact /\ b.exact))

\* The square of a value's length.
Norm(v) == QAdd(QMul(v.re, v.re), QMul(v.im, v.im))

Div(a, b) ==
  IF Err \in {a, b} THEN Err
  ELSE IF b = Other THEN Other
  ELSE IF IsZero(b) THEN Err
  ELSE IF a = Other \/ Norm(b) = NaQ THEN Other
  ELSE LET by == QInv(Norm(b))
           inverse == Value(QMul(b.re, by), QNeg(QMul(b.im, by)), -b.deg, b.exact)
       IN IF inverse = Other THEN Other ELSE Mul(a, inverse)

RECURSIVE Times(_, _)
Times(v, n) == IF n = 0 THEN Rat(One) ELSE Mul(v, Times(v, n - 1))

\* Exact for a small whole power of a rational; nothing is out of range in the model.
Pow(a, b) ==
  Both(a, b,
    LET whole == IsReal(b) /\ b.re[2] = 1 /\ b.deg = 0
        small == whole /\ Abs(b.re[1]) <= MaxExactPower
        power == IF b.re[1] >= 0 THEN Times(a, b.re[1]) ELSE Div(Rat(One), Times(a, -b.re[1]))
    IN IF IsZero(a) /\ whole /\ b.re[1] < 0 THEN Err
       ELSE IF ~small THEN Other
       ELSE IF (a.exact /\ b.exact) \/ power.kind # "number" THEN power
       ELSE Approx(power))

\* r at an angle of degrees, which must be real.  The length is kept where it is r's own,
\* the direction where it is an axis.
Polar(r, theta) ==
  Both(r, theta,
    LET quarter == (theta.re[1] \div 90) % 4
        on == theta.deg = 0 /\ theta.re[2] = 1 /\ theta.re[1] % 90 = 0
        length == IF IsReal(r) THEN Q(Abs(r.re[1]), r.re[2]) ELSE NaQ
        Along(re, im) == Value(QMul(length, re), QMul(length, im), r.deg, FALSE)
    IN IF ~IsReal(theta) THEN Err
       ELSE IF ~on \/ length = NaQ THEN Other
       ELSE CASE quarter = 0 -> Along(One, Zero) [] quarter = 1 -> Along(Zero, One)
              [] quarter = 2 -> Along(<<-1, 1>>, Zero) [] quarter = 3 -> Along(Zero, <<-1, 1>>))

\* Exact for squares of rationals.
Roots(n) == {k \in 0..n : k * k = n}
Sqrt(v) ==
  IF v.kind # "number" THEN v
  ELSE LET n == Roots(Abs(v.re[1]))
           d == Roots(v.re[2])
           root == <<CHOOSE k \in n : TRUE, CHOOSE k \in d : TRUE>>
       IN IF ~IsReal(v) \/ v.deg # 0 \/ n = {} \/ d = {} THEN Other
          ELSE IF v.re[1] < 0 THEN Complex(Zero, root)
          ELSE Value(root, Zero, 0, v.exact)
=============================================================================
