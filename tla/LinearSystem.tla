----------------------------- MODULE LinearSystem -----------------------------
(***************************************************************************)
(* The calculator's linear systems (mathx/solve.go): Gaussian elimination  *)
(* with the largest pivot of each column, exact if every entry is, of      *)
(* complex numbers otherwise.  The two are one algorithm over Values.      *)
(*                                                                         *)
(* Bounds: systems of up to 2 unknowns of -1..Largest and j, equal to one  *)
(* of the Sides, and of 3 unknowns of 0 and 1, but for their first entry.  *)
(***************************************************************************)
EXTENDS Values, Sequences, SequencesExt, FiniteSets

CONSTANT Largest

VARIABLES
  given,   \* the system asked for: its matrix a and its right side b
  matrix,  \* its matrix, so far triangular before column col
  sides,   \* its right side
  col,
  answer   \* <<>>, or the solutions, or Refused

vars == <<given, matrix, sides, col, answer>>

Size == Len(sides)
Refused == <<Err>>
Few == [1..3 -> {Rat(Zero), Rat(One)}]
Entries == {Rat(<<k, 1>>) : k \in -1..Largest} \cup {Complex(Zero, One)}
Sides == {Rat(Zero), Rat(One), Complex(Zero, One)}

Systems == UNION {[a : [1..n -> [1..n -> Entries]], b : [1..n -> Sides]] : n \in 1..2}
           \cup {[s EXCEPT !.a[1][1] = v] : s \in [a : [1..3 -> Few], b : Few], v \in Entries}

AllExact == \A i \in 1..Len(given.b) : given.b[i].exact /\ \A j \in 1..Len(given.b) : given.a[i][j].exact

-----------------------------------------------------------------------------

\* The first row, from col on, with the largest magnitude in col; none if all are zero.
Pivots == {r \in col..Size : ~IsZero(matrix[r][col])}
PickPivot ==
  CHOOSE r \in Pivots :
    \A s \in Pivots \ {r} : \/ QLess(Norm(matrix[s][col]), Norm(matrix[r][col]))
                                \/ (Norm(matrix[s][col]) = Norm(matrix[r][col]) /\ r < s)

Swapped(rows, pivot) == [rows EXCEPT ![col] = rows[pivot], ![pivot] = rows[col]]

\* One column: the pivot's row goes up, and is taken from the rows under it.
Eliminate ==
  /\ answer = <<>> /\ col <= Size /\ Pivots # {}
  /\ LET m == Swapped(matrix, PickPivot)
         s == Swapped(sides, PickPivot)
         Factor(r) == Div(m[r][col], m[col][col])
         Less(v, r, by) == IF r > col THEN Sub(v, Mul(Factor(r), by)) ELSE v
     IN /\ matrix' = [r \in 1..Size |-> [j \in 1..Size |-> IF j < col THEN m[r][j] ELSE Less(m[r][j], r, m[col][j])]]
        /\ sides' = [r \in 1..Size |-> Less(s[r], r, s[col])]
  /\ col' = col + 1 /\ UNCHANGED <<given, answer>>

Singular == /\ answer = <<>> /\ col <= Size /\ Pivots = {}
            /\ answer' = Refused /\ UNCHANGED <<given, matrix, sides, col>>

Total(values) == FoldLeft(Add, Rat(Zero), values)

\* From the last unknown back to the first.
Substitute ==
  /\ answer = <<>> /\ col > Size
  /\ LET x[i \in 1..Size] ==
           Div(Sub(sides[i], Total([j \in 1..(Size - i) |-> Mul(x[i + j], matrix[i][i + j])])), matrix[i][i])
     IN answer' = [i \in 1..Size |-> x[i]]
  /\ UNCHANGED <<given, matrix, sides, col>>

\* Of an entry that is not exact all become complex.
Init == /\ given \in Systems
        /\ LET As(v) == IF AllExact THEN v ELSE Approx(v)
               n == Len(given.b)
           IN /\ matrix = [i \in 1..n |-> [j \in 1..n |-> As(given.a[i][j])]]
              /\ sides = [i \in 1..n |-> As(given.b[i])]
        /\ col = 1 /\ answer = <<>>

Next == Eliminate \/ Singular \/ Substitute

Spec == Init /\ [][Next]_vars

-----------------------------------------------------------------------------

TypeOK == /\ Size \in 1..3 /\ col \in 1..(Size + 1)
          /\ \A i, j \in 1..Size : matrix[i][j].kind = "number" /\ sides[i].kind = "number"

\* By the first column, of the matrix without its row.
RECURSIVE Determinant(_)
Determinant(m) ==
  IF m = <<>> THEN Rat(One)
  ELSE Total([i \in 1..Len(m) |->
         LET minor == Determinant([r \in 1..(Len(m) - 1) |-> Tail(m[IF r < i THEN r ELSE r + 1])])
         IN Mul(IF i % 2 = 1 THEN m[i][1] ELSE Neg(m[i][1]), minor)])

\* A system is refused if it has no unique solution, and only then; what is said to solve
\* it solves it, as it was given, and is exact if every entry is and only then ("one
\* complex entry anywhere drops the system to complex128", solve.go:16).
SolvesTheSystem ==
  /\ answer = Refused => IsZero(Determinant(given.a))
  /\ answer \notin {<<>>, Refused} =>
       /\ ~IsZero(Determinant(given.a))
       /\ \A i \in 1..Size :
            /\ Approx(Total([j \in 1..Size |-> Mul(given.a[i][j], answer[j])])) = Approx(given.b[i])
            /\ answer[i].exact = AllExact
=============================================================================
