------------------------------- MODULE Sudoku -------------------------------
(***************************************************************************)
(* lab9: lab9.cpp asks the puzzle server for its board, solves it by       *)
(* backtracking and enters the result cell by cell.                        *)
(*                                                                         *)
(* An activation of _solver that has found an empty cell is a frame of     *)
(* stack: that cell and the loop variable num.  result is what the         *)
(* activation that returns gives to its caller, str_cli if there is none   *)
(* left.  str_cli does not look at it.                                     *)
(*                                                                         *)
(* The board of the server and what it does on V are external: a value     *)
(* that is no digit changes nothing.  After str_cli the parent process     *)
(* forwards what its user types, and has no state of its own.              *)
(***************************************************************************)
EXTENDS Integers, Sequences

CONSTANTS
  N,           \* the 9 of the code: rows, columns, digits
  B,           \* the 3 of the code: rows and columns of a box
  Puzzles      \* boards the server may start with

Empty == -1
Digit == 1 .. N
Cell == (0 .. N - 1) \X (0 .. N - 1)
Board == [Cell -> {Empty} \cup Digit]

ASSUME SizeAssumption == N \in Nat \ {0} /\ B \in Nat \ {0}
ASSUME PuzzlesAssumption == Puzzles \subseteq Board

VARIABLES
  puzzle,      \* history: the board the server started with
  server,      \* the server's board
  pc,          \* where str_cli or its _solver is
  board,
  stack,       \* the activations of _solver that have a cell, innermost last
  result,
  ans          \* the cells that were empty and are not entered yet

vars == <<puzzle, server, pc, board, stack, result, ans>>

Frame == [cell : Cell, num : 1 .. N + 1]
Top == stack[Len(stack)]
Callers == SubSeq(stack, 1, Len(stack) - 1)

-----------------------------------------------------------------------------
Row(c) == {d \in Cell : d[1] = c[1]}
Column(c) == {d \in Cell : d[2] = c[2]}
Box(c) ==
  LET bx == c[1] - (c[1] % B)
      by == c[2] - (c[2] % B)
  IN {d \in Cell : d[1] - bx \in 0 .. B - 1 /\ d[2] - by \in 0 .. B - 1}

isSafe(c, num) == \A d \in Row(c) \cup Column(c) \cup Box(c) : board[d] # num

(* The first cell of a set, row by row.                                    *)
First(c, S) ==
  /\ c \in S
  /\ \A d \in S : c[1] < d[1] \/ (c[1] = d[1] /\ c[2] <= d[2])

EmptyCells(b) == {c \in Cell : b[c] = Empty}

-----------------------------------------------------------------------------
(* S: the board comes in one reply.                                        *)
Ask ==
  /\ pc = "ask"
  /\ board' = server /\ ans' = EmptyCells(server)
  /\ pc' = "call"
  /\ UNCHANGED <<puzzle, server, stack, result>>

(* _solver is entered.                                                     *)
Full ==
  /\ pc = "call" /\ EmptyCells(board) = {}
  /\ result' = TRUE /\ pc' = "return"
  /\ UNCHANGED <<puzzle, server, board, stack, ans>>

MutantFind ==                  \* int i = 0
  /\ pc = "call"
  /\ \E c \in Cell : /\ First(c, EmptyCells(board))
                     /\ stack' = Append(stack, [cell |-> c, num |-> 0])
  /\ pc' = "try"
  /\ UNCHANGED <<puzzle, server, board, result, ans>>

Find ==
  /\ pc = "call"
  /\ \E c \in Cell : /\ First(c, EmptyCells(board))
                     /\ stack' = Append(stack, [cell |-> c, num |-> 1])
  /\ pc' = "try"
  /\ UNCHANGED <<puzzle, server, board, result, ans>>

(* An iteration of its loop.                                               *)
Fits == isSafe(Top.cell, Top.num) /\ board[Top.cell] = Empty

Place ==
  /\ pc = "try" /\ Top.num \in Digit /\ Fits
  /\ board' = [board EXCEPT ![Top.cell] = Top.num]
  /\ pc' = "call"
  /\ UNCHANGED <<puzzle, server, stack, result, ans>>

Pass ==
  /\ pc = "try" /\ Top.num \in Digit /\ ~Fits
  /\ stack' = [stack EXCEPT ![Len(stack)].num = @ + 1]
  /\ UNCHANGED <<puzzle, server, pc, board, result, ans>>

MutantExhausted ==             \* i < 9
  /\ pc = "try" /\ Top.num >= N
  /\ stack' = Callers /\ result' = FALSE /\ pc' = "return"
  /\ UNCHANGED <<puzzle, server, board, ans>>

Exhausted ==
  /\ pc = "try" /\ Top.num > N
  /\ stack' = Callers /\ result' = FALSE /\ pc' = "return"
  /\ UNCHANGED <<puzzle, server, board, ans>>

(* The caller gets a result.                                               *)
Succeed ==
  /\ pc = "return" /\ stack # <<>> /\ result
  /\ stack' = Callers
  /\ UNCHANGED <<puzzle, server, pc, board, result, ans>>

MutantBacktrack ==             \* board[row][col] = -1 is missing
  /\ pc = "return" /\ stack # <<>> /\ ~result
  /\ stack' = [stack EXCEPT ![Len(stack)].num = @ + 1]
  /\ pc' = "try"
  /\ UNCHANGED <<puzzle, server, board, result, ans>>

Backtrack ==
  /\ pc = "return" /\ stack # <<>> /\ ~result
  /\ board' = [board EXCEPT ![Top.cell] = Empty]
  /\ stack' = [stack EXCEPT ![Len(stack)].num = @ + 1]
  /\ pc' = "try"
  /\ UNCHANGED <<puzzle, server, result, ans>>

Solved ==
  /\ pc = "return" /\ stack = <<>>
  /\ pc' = "moves"
  /\ UNCHANGED <<puzzle, server, board, stack, result, ans>>

(* V, for the next of the cells, whatever result was.                      *)
Move ==
  /\ pc = "moves"
  /\ \E c \in ans :
       /\ First(c, ans)
       /\ server' = IF board[c] \in Digit THEN [server EXCEPT ![c] = board[c]]
                                          ELSE server
       /\ ans' = ans \ {c}
  /\ UNCHANGED <<puzzle, pc, board, stack, result>>

(* P and C, and str_cli returns.                                           *)
Finish ==
  /\ pc = "moves" /\ ans = {}
  /\ pc' = "done"
  /\ UNCHANGED <<puzzle, server, board, stack, result, ans>>

Init ==
  /\ server \in Puzzles /\ puzzle = server
  /\ board = [c \in Cell |-> Empty] /\ ans = {}
  /\ pc = "ask" /\ stack = <<>> /\ result = FALSE

Next ==
  \/ Ask
  \/ Full \/ Find \/ Place \/ Pass \/ Exhausted \/ Succeed \/ Backtrack
  \/ Solved \/ Move \/ Finish

Spec == Init /\ [][Next]_vars

(* The program runs, and the server answers.                               *)
FairSpec == Spec /\ WF_vars(Next)

-----------------------------------------------------------------------------
(***************************************************************************)
(* What a solution is, without reference to the search: the digits given   *)
(* stay, and none of the others meets its equal in a row, column or box.   *)
(* Digits given are not compared with each other, nor does the code.       *)
(***************************************************************************)
SameUnit(c, d) ==
  \/ c[1] = d[1]
  \/ c[2] = d[2]
  \/ c[1] \div B = d[1] \div B /\ c[2] \div B = d[2] \div B

Blank == EmptyCells(puzzle)
Filled(f) == [c \in Cell |-> IF c \in Blank THEN f[c] ELSE puzzle[c]]
Correct(b) ==
  \A c \in Blank, d \in Cell : c # d /\ SameUnit(c, d) => b[c] # b[d]

Solution(b) ==
  /\ \A c \in Cell : b[c] \in Digit
  /\ \A c \in Cell \ Blank : b[c] = puzzle[c]
  /\ Correct(b)

Solvable == \E f \in [Blank -> Digit] : Correct(Filled(f))

TypeOK ==
  /\ puzzle \in Board /\ server \in Board /\ board \in Board
  /\ pc \in {"ask", "call", "try", "return", "moves", "done"}
  /\ stack \in Seq(Frame) /\ (pc = "try" => stack # <<>>)
  /\ result \in BOOLEAN /\ ans \subseteq Cell

(* When the outermost _solver returns, either the board is a solution, or  *)
(* there is none and all digits tried were taken back.  (lines 63-76)      *)
Returned == pc \in {"moves", "done"} \/ (pc = "return" /\ stack = <<>>)
Verdict ==
  Returned => IF result THEN Solution(board) ELSE board = puzzle /\ ~Solvable

(* The program gets to its end, and the server's board is solved then if   *)
(* it can be solved; otherwise it is as it was.  (lines 62-77, 118-126)    *)
Entered == pc = "done" => IF Solvable THEN Solution(server) ELSE server = puzzle
Ends == <>(pc = "done" /\ Entered)
=============================================================================
