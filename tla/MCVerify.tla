------------------------------ MODULE MCVerify ------------------------------
(***************************************************************************)
(* Verification of two faces of two levels of four children: leaf sets of  *)
(* one face with leaves of every level, next to a sparse face, and for two *)
(* of them a wrong answer for any one cell.  Positions that differ in the  *)
(* low bit, in the high bit and in both occur.                             *)
(***************************************************************************)
EXTENDS VerifyDatabase, SequencesExt

Child(c, p) == Cell(c.face, c.level + 1, 4 * c.path + p)

\* The leaf sets of a cell with one and with two levels below it.
Shallow(c) == {{c}} \union (SUBSET {Child(c, 1), Child(c, 2)} \ {{}})
Deep(c) ==
  LET Below(p) == {{}} \union Shallow(Child(c, p))
  IN  {{c}} \union ({l \union m \union r :
                       l \in Below(0), m \in Below(1), r \in Below(3)} \ {{}})

Sparse == {Cell(1, 2, 6)}
Sorted(S) ==
  <<>> \o [i \in 1..Cardinality(S) |->
           CHOOSE c \in S : Cardinality({d \in S : CellId(d) < CellId(c)}) = i - 1]

Answers(L) == [c \in AllCells |-> RightAnswer(L, c)] @@ <<>>
Honest(L) ==
  [strict |-> L, verified |-> L, canonical |-> TRUE, answer |-> Answers(L)]

\* One level too high, or too deep where only the face is right.
Wrong(path) == IF Len(path) > 1 THEN Front(path) ELSE Append(path, 2)
Lying(L, c) == [Honest(L) EXCEPT !.answer[c] = Wrong(@)]

FewLeaves == Sorted({Cell(0, 1, 1), Cell(0, 2, 12)} \union Sparse)
ManyLeaves == Sorted({Cell(0, 1, 0), Cell(0, 2, 4), Cell(0, 2, 7), Cell(0, 1, 3)}
                       \union Sparse)

AllReports ==
  {Honest(Sorted(S \union Sparse)) : S \in Deep(Cell(0, 0, 0))}
    \union {Lying(L, c) : L \in {FewLeaves, ManyLeaves},
                          c \in AllCells}
    \union {[Honest(FewLeaves) EXCEPT !.verified = ManyLeaves],
            [Honest(FewLeaves) EXCEPT !.canonical = FALSE]}
MCReports == AllReports
=============================================================================
