------------------------------ MODULE MCSudoku ------------------------------
(* Boards for the run of Sudoku: a solved one of four digits with up to    *)
(* six of its first nine cells empty, and the same with another digit in a *)
(* cell that stays, so that some have several solutions and some have none.*)
EXTENDS Sudoku, FiniteSets

Grid == <<<<1, 2, 3, 4>>, <<3, 4, 1, 2>>, <<2, 1, 4, 3>>, <<4, 3, 2, 1>>>>
Changed(d) == <<<<1, 2, 3, 4>>, <<3, 4, 1, 2>>, <<2, 1, 4, 3>>, <<4, d, 2, 1>>>>

FirstNine == {c \in Cell : 4 * c[1] + c[2] < 9}
Without(g, S) == [c \in Cell |-> IF c \in S THEN Empty ELSE g[c[1] + 1][c[2] + 1]]
SomeEmpty == {S \in SUBSET FirstNine : {<<0, 1>>, <<2, 0>>} \subseteq S /\ Cardinality(S) <= 6}
MCPuzzles ==
  {Without(g, S) : g \in {Grid, Changed(1), Changed(2)}, S \in SomeEmpty}
=============================================================================
