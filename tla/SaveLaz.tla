------------------------------- MODULE SaveLaz -------------------------------
(***************************************************************************)
(* Writing the points of a chunk (src/src/utils/save_laz.cpp): a buffer of  *)
(* very many points is thinned to every Step-th one, and the number of      *)
(* points goes into the file's header before the first one is written.     *)
(***************************************************************************)
EXTENDS Integers, FiniteSets

CONSTANTS
    MostPoints,   \* 4000000: a larger buffer is thinned
    ThinTo        \* 2000000: to at most so many points

ASSUME ThinningAssumption == MostPoints \in Nat /\ ThinTo \in Nat \ {0}

\* Mutant of Step: the quotient is not rounded up.
RoundedDown(size) == IF size > MostPoints THEN size \div ThinTo ELSE 1
Step(size) == IF size > MostPoints THEN (size + ThinTo - 1) \div ThinTo ELSE 1

\* number_of_point_records, set when the header is filled in.
NumPoints(size) == size \div Step(size)

\* The positions the loop visits: for(int i = 0; i < buffer->size(); i += step).
Indices(size) == {i \in 0..(size - 1) : i % Step(size) = 0}

\* How many these are.
PointsWritten(size) == (size + Step(size) - 1) \div Step(size)
=============================================================================
