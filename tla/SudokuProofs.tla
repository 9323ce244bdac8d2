---------------------------- MODULE SudokuProofs ----------------------------
(***************************************************************************)
(* Theorems about Sudoku for boards of any size, with boxes of any size.   *)
(*                                                                         *)
(* The argument of Verdict: the stack is a prefix of the search.  Every    *)
(* solution that agrees with the digits of the first frames has, in the    *)
(* cell of the next, a digit that this frame has not passed yet (Tried);   *)
(* so when a frame has passed them all, no solution agrees with the frames *)
(* below it (Failed), and none at all when there are no frames.            *)
(***************************************************************************)
EXTENDS Sudoku, SequenceTheorems, TLAPS

Searching == pc \in {"call", "try"} \/ (pc = "return" /\ ~result)

(* The frames whose digit is on the board.                                 *)
Placed == IF pc = "try" THEN 1 .. Len(stack) - 1 ELSE 1 .. Len(stack)

Start == pc = "ask" => server = puzzle /\ stack = <<>>
Given == pc # "ask" => \A c \in Cell \ Blank : board[c] = puzzle[c]

(* The board is the puzzle and the digits placed.                          *)
Frames ==
  Searching =>
    /\ \A k \in 1 .. Len(stack) : stack[k].cell \in Blank
    /\ \A j, k \in 1 .. Len(stack) : j # k => stack[j].cell # stack[k].cell
    /\ \A k \in Placed : /\ stack[k].num \in Digit
                         /\ board[stack[k].cell] = stack[k].num
    /\ \A c \in Blank : board[c] = Empty \/ \E k \in Placed : stack[k].cell = c

Sound ==
  \A c \in Blank, d \in Cell :
    c # d /\ SameUnit(c, d) /\ board[c] # Empty => board[c] # board[d]

Solutions == {f \in [Blank -> Digit] : Correct(Filled(f))}
Agrees(f, k) == \A j \in 1 .. k : f[stack[j].cell] = stack[j].num

Tried ==
  Searching =>
    \A k \in 1 .. Len(stack), f \in Solutions :
      Agrees(f, k - 1) => f[stack[k].cell] >= stack[k].num

Failed == pc = "return" /\ ~result => \A f \in Solutions : ~Agrees(f, Len(stack))
Found == pc = "return" /\ result => Solution(board)

IInv ==
  /\ TypeOK /\ Start /\ Given /\ Frames /\ Sound
  /\ Tried /\ Failed /\ Found /\ Verdict

-----------------------------------------------------------------------------
(* Box is what it is meant to be.                                          *)
LEMMA BoxLine ==
  ASSUME NEW x \in Nat, NEW y \in Nat
  PROVE  y - (x - (x % B)) \in 0 .. B - 1 <=> x \div B = y \div B
<1>1. /\ x \div B \in Nat /\ x % B \in 0 .. B - 1
      /\ x = B * (x \div B) + (x % B)
  BY SizeAssumption
<1>2. /\ y \div B \in Nat /\ y % B \in 0 .. B - 1
      /\ y = B * (y \div B) + (y % B)
  BY SizeAssumption
<1>3. ASSUME NEW p \in Nat, NEW q \in Nat, NEW r \in 0 .. B - 1
      PROVE  (B * p + r) - B * q \in 0 .. B - 1 <=> p = q
  BY SizeAssumption
<1>4. x - (x % B) = B * (x \div B)
  BY <1>1, SizeAssumption
<1>5. y - B * (x \div B) \in 0 .. B - 1 <=> y \div B = x \div B
  BY <1>1, <1>2, <1>3
<1> QED
  BY <1>4, <1>5

LEMMA UnitLemma ==
  ASSUME NEW c \in Cell, NEW d \in Cell
  PROVE  SameUnit(c, d) <=> d \in Row(c) \cup Column(c) \cup Box(c)
<1>1. c[1] \in Nat /\ c[2] \in Nat /\ d[1] \in Nat /\ d[2] \in Nat
  BY SizeAssumption DEF Cell
<1>2. d \in Box(c) <=> c[1] \div B = d[1] \div B /\ c[2] \div B = d[2] \div B
  BY <1>1, BoxLine DEF Box
<1> QED
  BY <1>2 DEF SameUnit, Row, Column

LEMMA SafeLemma ==
  ASSUME NEW c \in Cell, NEW num
  PROVE  isSafe(c, num) <=> \A d \in Cell : SameUnit(c, d) => board[d] # num
<1>1. Row(c) \cup Column(c) \cup Box(c) \subseteq Cell
  BY DEF Row, Column, Box
<1> QED
  BY <1>1, UnitLemma DEF isSafe

LEMMA Symmetric ==
  ASSUME NEW c \in Cell, NEW d \in Cell, SameUnit(c, d)
  PROVE  SameUnit(d, c)
  BY DEF SameUnit

-----------------------------------------------------------------------------
(* The three things the search does to its stack.                          *)
LEMMA PushLemma ==
  ASSUME NEW s \in Seq(Frame), NEW f \in Frame
  PROVE  LET t == Append(s, f)
         IN /\ t \in Seq(Frame) /\ t # <<>>
            /\ Len(t) = Len(s) + 1 /\ t[Len(t)] = f
            /\ \A k \in 1 .. Len(s) : t[k] = s[k]
  BY AppendProperties

LEMMA PopLemma ==
  ASSUME NEW s \in Seq(Frame), s # <<>>
  PROVE  LET t == SubSeq(s, 1, Len(s) - 1)
         IN /\ t \in Seq(Frame)
            /\ Len(t) = Len(s) - 1
            /\ \A k \in 1 .. Len(t) : t[k] = s[k]
<1> DEFINE n == Len(s)
           t == SubSeq(s, 1, n - 1)
<1>1. n \in Nat /\ n > 0
  BY EmptySeq, LenProperties
<1>2. \A i \in 1 .. n - 1 : s[i] \in Frame
  BY <1>1, ElementOfSeq
<1>3. t \in Seq(Frame)
  BY <1>1, <1>2, SubSeqProperties
<1>4. Len(t) = n - 1
  <2>1. Len(t) = IF 1 <= n - 1 THEN (n - 1) - 1 + 1 ELSE 0
    BY <1>1, <1>2, SubSeqProperties
  <2>2. \A l, m \in Int : m > 0 /\ l = (IF 1 <= m - 1 THEN (m - 1) - 1 + 1 ELSE 0)
                          => l = m - 1
    OBVIOUS
  <2>3. Len(t) \in Int
    BY <1>3, LenProperties
  <2> HIDE DEF t, n
  <2> QED
    BY <1>1, <2>1, <2>2, <2>3
<1>5. \A k \in 1 .. n - 1 : t[k] = s[k]
  <2>1. \A k \in 1 .. (n - 1) - 1 + 1 : t[k] = s[1 + k - 1]
    BY <1>1, <1>2, SubSeqProperties
  <2> HIDE DEF t
  <2>2. \A k \in 1 .. n - 1 : 1 + k - 1 = k
    OBVIOUS
  <2> QED
    BY <1>1, <2>1, <2>2
<1> QED
  BY <1>3, <1>4, <1>5

LEMMA BumpLemma ==
  ASSUME NEW s \in Seq(Frame), s # <<>>, s[Len(s)].num \in Digit
  PROVE  LET t == [s EXCEPT ![Len(s)].num = @ + 1]
         IN /\ t \in Seq(Frame) /\ t # <<>> /\ Len(t) = Len(s)
            /\ \A k \in 1 .. Len(s) : t[k].cell = s[k].cell
            /\ \A k \in 1 .. Len(s) - 1 : t[k] = s[k]
            /\ t[Len(s)].num = s[Len(s)].num + 1
<1> DEFINE n == Len(s)
           f == [s[n] EXCEPT !.num = @ + 1]
           t == [s EXCEPT ![n] = f]
<1>1. n \in Nat /\ n > 0 /\ DOMAIN s = 1 .. n /\ s[n] \in Frame
  BY EmptySeq, LenProperties, ElementOfSeq
<1>2. f \in Frame /\ f.cell = s[n].cell /\ f.num = s[n].num + 1
  BY <1>1, SizeAssumption DEF Frame, Digit
<1> HIDE DEF f
<1>3. t \in Seq(Frame) /\ Len(t) = Len(s)
  BY <1>1, <1>2, ExceptSeq
<1>4. \A k \in 1 .. n : t[k] = IF k = n THEN f ELSE s[k]
  <2>1. n \in 1 .. n
    BY <1>1
  <2> QED
    BY <1>2, <2>1, ExceptSeq
<1>5. t # <<>>
  BY <1>1, <1>3, EmptySeq
<1>6. [s EXCEPT ![Len(s)].num = @ + 1] = t
  BY DEF f
<1> HIDE DEF t, n
<1>7. \A k \in 1 .. n - 1 : k \in 1 .. n /\ k # n
  BY <1>1
<1>8. \A k \in 1 .. n : t[k].cell = s[k].cell
  BY <1>2, <1>4
<1> QED
  BY <1>2, <1>3, <1>4, <1>5, <1>6, <1>7, <1>8 DEF n

-----------------------------------------------------------------------------
LEMMA EmptyLemma == Empty \notin Digit
  BY SizeAssumption DEF Empty, Digit

LEMMA InvInit == Init => IInv
<1> SUFFICES ASSUME Init
             PROVE  IInv
  OBVIOUS
<1> USE DEF Init
<1>1. puzzle \in Board /\ server \in Board /\ board \in Board
  BY PuzzlesAssumption DEF Board
<1>2. TypeOK
  BY <1>1, EmptySeq DEF TypeOK
<1>3. Start /\ Given /\ Found /\ Failed /\ Verdict
  BY DEF Start, Given, Found, Failed, Verdict, Returned
<1>4. Frames /\ Tried
  BY DEF Frames, Tried, Searching
<1>5. Sound
  BY DEF Sound, Blank, EmptyCells
<1> QED
  BY <1>2, <1>3, <1>4, <1>5 DEF IInv

(* What is said of the puzzle is said of it for ever.                      *)
LEMMA SamePuzzle ==
  ASSUME puzzle' = puzzle
  PROVE  /\ Blank' = Blank /\ Solutions' = Solutions
         /\ Solvable' = Solvable
         /\ (board' = board => Solution(board)' = Solution(board))
<1>1. Blank' = Blank
  BY DEF Blank, EmptyCells
<1>2. \A f : Filled(f)' = Filled(f)
  BY <1>1 DEF Filled
<1>3. \A b : Correct(b)' = Correct(b)
  BY <1>1 DEF Correct
<1>4. Solutions' = Solutions
  BY <1>1, <1>2, <1>3 DEF Solutions
<1>5. Solvable' = Solvable
  BY <1>1, <1>2, <1>3 DEF Solvable
<1>6. board' = board => Solution(board)' = Solution(board)
  BY <1>1, <1>3 DEF Solution
<1> QED
  BY <1>1, <1>4, <1>5, <1>6

LEMMA AskStep == IInv /\ Ask => IInv'
<1> SUFFICES ASSUME IInv, Ask
             PROVE  IInv'
  OBVIOUS
<1> USE DEF Ask
<1>1. puzzle' = puzzle /\ stack' = <<>> /\ board' = puzzle /\ pc' = "call"
  BY DEF IInv, Start
<1>2. TypeOK'
  BY DEF IInv, TypeOK, EmptyCells
<1>3. (Start /\ Given /\ Found /\ Failed /\ Verdict)'
  BY <1>1 DEF Start, Given, Found, Failed, Verdict, Returned
<1>4. Frames' /\ Tried'
  <2>1. \A c \in Blank : puzzle[c] = Empty
    BY DEF Blank, EmptyCells
  <2> QED
    BY <1>1, <2>1, SamePuzzle, EmptySeq DEF Frames, Tried, Searching, Placed
<1>5. Sound'
  BY <1>1, SamePuzzle DEF Sound, Blank, EmptyCells
<1> QED
  BY <1>2, <1>3, <1>4, <1>5 DEF IInv

(* A board that is full is a solution.                                     *)
LEMMA FullStep == IInv /\ Full => IInv'
<1> SUFFICES ASSUME IInv, Full
             PROVE  IInv'
  OBVIOUS
<1> USE DEF Full
<1>1. TypeOK'
  BY DEF IInv, TypeOK
<1>2. Solution(board)
  <2>1. \A c \in Cell : board[c] \in Digit
    BY DEF IInv, TypeOK, Board, EmptyCells
  <2>2. \A c \in Cell \ Blank : board[c] = puzzle[c]
    BY DEF IInv, Given
  <2>3. Blank \subseteq Cell
    BY DEF Blank, EmptyCells
  <2>4. Correct(board)
    BY <2>1, <2>3, EmptyLemma DEF IInv, Sound, Correct
  <2> QED
    BY <2>1, <2>2, <2>4 DEF Solution
<1>3. Found' /\ Verdict'
  BY <1>2, SamePuzzle DEF Found, Verdict
<1>4. (Start /\ Given /\ Sound)'
  BY SamePuzzle DEF IInv, Start, Given, Sound
<1>5. (Frames /\ Tried /\ Failed)'
  BY DEF Frames, Tried, Failed, Searching
<1> QED
  BY <1>1, <1>3, <1>4, <1>5 DEF IInv

(* The new frame has passed no digit.                                      *)
LEMMA FindStep == IInv /\ Find => IInv'
<1> SUFFICES ASSUME IInv, Find
             PROVE  IInv'
  OBVIOUS
<1>1. PICK c \in Cell :
        First(c, EmptyCells(board)) /\ stack' = Append(stack, [cell |-> c, num |-> 1])
  BY DEF Find
<1> DEFINE n == Len(stack)
<1>2. stack \in Seq(Frame) /\ n \in Nat
  BY LenProperties DEF IInv, TypeOK
<1>3. [cell |-> c, num |-> 1] \in Frame
  BY SizeAssumption DEF Frame
<1>4. /\ stack' \in Seq(Frame) /\ stack' # <<>> /\ Len(stack') = n + 1
      /\ stack'[n + 1] = [cell |-> c, num |-> 1]
      /\ \A k \in 1 .. n : stack'[k] = stack[k]
  BY <1>1, <1>2, <1>3, PushLemma
<1>5. /\ pc = "call" /\ pc' = "try" /\ board' = board /\ puzzle' = puzzle
      /\ UNCHANGED <<server, result, ans>>
  BY DEF Find
<1>6. TypeOK'
  BY <1>4, <1>5 DEF IInv, TypeOK
<1>7. c \in Blank /\ board[c] = Empty
  <2>1. board[c] = Empty
    BY <1>1 DEF First, EmptyCells
  <2>2. c \notin Blank => board[c] # Empty
    BY <1>5 DEF IInv, Given, Blank, EmptyCells
  <2> QED
    BY <2>1, <2>2
<1>8. Placed' = 1 .. n /\ Placed = 1 .. n
  BY <1>2, <1>4, <1>5 DEF Placed
<1>9. Searching /\ Searching' /\ Blank' = Blank /\ Solutions' = Solutions
  BY <1>5, SamePuzzle DEF Searching
<1>10. \A k \in 1 .. n : stack[k].cell # c
  BY <1>7, <1>8, <1>9, EmptyLemma DEF IInv, Frames
<1>11. \A k \in 1 .. n + 1 : k \in 1 .. n \/ k = n + 1
  BY <1>2
<1>12. Frames'
  <2>1. \A k \in 1 .. n + 1 : stack'[k].cell \in Blank
    BY <1>4, <1>7, <1>9, <1>11 DEF IInv, Frames
  <2>2. \A j, k \in 1 .. n + 1 : j # k => stack'[j].cell # stack'[k].cell
    BY <1>4, <1>9, <1>10, <1>11 DEF IInv, Frames
  <2>3. \A k \in 1 .. n : /\ stack'[k].num \in Digit
                          /\ board[stack'[k].cell] = stack'[k].num
    BY <1>4, <1>8, <1>9 DEF IInv, Frames
  <2>4. \A d \in Blank : board[d] = Empty \/ \E k \in 1 .. n : stack'[k].cell = d
    BY <1>4, <1>8, <1>9 DEF IInv, Frames
  <2> QED
    <3>1. \A k \in 1 .. Len(stack') : stack'[k].cell \in Blank'
      BY <1>4, <1>5, <1>8, <1>9, <2>1
    <3>2. \A j, k \in 1 .. Len(stack') : j # k => stack'[j].cell # stack'[k].cell
      BY <1>4, <1>5, <1>8, <1>9, <2>2
    <3>3. \A k \in Placed' : /\ stack'[k].num \in Digit
                             /\ board'[stack'[k].cell] = stack'[k].num
      BY <1>4, <1>5, <1>8, <1>9, <2>3
    <3>4. \A d \in Blank' : board'[d] = Empty \/ \E k \in Placed' : stack'[k].cell = d
      BY <1>4, <1>5, <1>8, <1>9, <2>4
    <3> QED
      BY <3>1, <3>2, <3>3, <3>4 DEF Frames
<1>13. Tried'
  <2> SUFFICES ASSUME NEW k \in 1 .. n + 1, NEW f \in Solutions,
                      \A j \in 1 .. k - 1 : f[stack'[j].cell] = stack'[j].num
               PROVE  f[stack'[k].cell] >= stack'[k].num
    BY <1>4, <1>9 DEF Tried, Agrees
  <2>1. CASE k \in 1 .. n
    <3>1. \A j \in 1 .. k - 1 : j \in 1 .. n
      BY <1>2, <2>1
    <3>2. Agrees(f, k - 1)
      BY <1>4, <3>1 DEF Agrees
    <3> QED
      BY <1>4, <1>9, <2>1, <3>2 DEF IInv, Tried
  <2>2. CASE k = n + 1
    <3>1. f[c] \in Digit
      BY <1>7 DEF Solutions
    <3> QED
      BY <1>4, <2>2, <3>1 DEF Digit
  <2> QED
    BY <1>11, <2>1, <2>2
<1>14. (Start /\ Given /\ Sound /\ Failed /\ Found /\ Verdict)'
  BY <1>5, <1>9
     DEF IInv, Start, Given, Sound, Failed, Found, Verdict, Returned
<1> QED
  BY <1>6, <1>12, <1>13, <1>14 DEF IInv

(* A digit that is passed meets its equal, in every solution left.         *)
LEMMA PassStep == IInv /\ Pass => IInv'
<1> SUFFICES ASSUME IInv, Pass
             PROVE  IInv'
  OBVIOUS
<1> DEFINE n == Len(stack)
           c == Top.cell
           v == Top.num
<1>1. /\ pc = "try" /\ v \in Digit /\ ~(isSafe(c, v) /\ board[c] = Empty)
      /\ stack' = [stack EXCEPT ![n].num = @ + 1]
      /\ UNCHANGED <<puzzle, server, pc, board, result, ans>>
  BY DEF Pass, Fits
<1>2. stack \in Seq(Frame) /\ stack # <<>> /\ n \in Nat \ {0}
  BY <1>1, EmptySeq DEF IInv, TypeOK
<1>3. Top = stack[n] /\ n \in 1 .. n
  BY <1>2 DEF Top
<1>4. /\ stack' \in Seq(Frame) /\ stack' # <<>> /\ Len(stack') = n
      /\ \A k \in 1 .. n : stack'[k].cell = stack[k].cell
      /\ \A k \in 1 .. n - 1 : stack'[k] = stack[k]
      /\ stack'[n].num = v + 1
  BY <1>1, <1>2, <1>3, BumpLemma
<1>5. TypeOK'
  BY <1>1, <1>4 DEF IInv, TypeOK
<1>6. Placed' = 1 .. n - 1 /\ Placed = 1 .. n - 1
  BY <1>1, <1>4 DEF Placed
<1>7. Searching /\ Searching' /\ Blank' = Blank /\ Solutions' = Solutions
  BY <1>1, SamePuzzle DEF Searching
<1>8. \A k \in 1 .. n - 1 : k \in 1 .. n /\ k # n
  BY <1>2
<1>9. Frames'
  <2>1. \A k \in 1 .. n : stack'[k].cell \in Blank
    BY <1>4, <1>7 DEF IInv, Frames
  <2>2. \A j, k \in 1 .. n : j # k => stack'[j].cell # stack'[k].cell
    BY <1>4, <1>7 DEF IInv, Frames
  <2>3. \A k \in 1 .. n - 1 : /\ stack'[k].num \in Digit
                              /\ board[stack'[k].cell] = stack'[k].num
    BY <1>4, <1>6, <1>7 DEF IInv, Frames
  <2>4. \A d \in Blank : board[d] = Empty \/ \E k \in 1 .. n - 1 : stack'[k].cell = d
    BY <1>4, <1>6, <1>7 DEF IInv, Frames
  <2> QED
    <3>1. \A k \in 1 .. Len(stack') : stack'[k].cell \in Blank'
      BY <1>1, <1>4, <1>6, <1>7, <2>1
    <3>2. \A j, k \in 1 .. Len(stack') : j # k => stack'[j].cell # stack'[k].cell
      BY <1>1, <1>4, <1>6, <1>7, <2>2
    <3>3. \A k \in Placed' : /\ stack'[k].num \in Digit
                             /\ board'[stack'[k].cell] = stack'[k].num
      BY <1>1, <1>4, <1>6, <1>7, <2>3
    <3>4. \A d \in Blank' : board'[d] = Empty \/ \E k \in Placed' : stack'[k].cell = d
      BY <1>1, <1>4, <1>6, <1>7, <2>4
    <3> QED
      BY <3>1, <3>2, <3>3, <3>4 DEF Frames
<1>10. c \in Blank /\ c \in Cell
  BY <1>3, <1>7 DEF IInv, Frames, Blank, EmptyCells
<1>11. board[c] = Empty
  BY <1>3, <1>6, <1>7, <1>8, <1>10 DEF IInv, Frames
<1>12. PICK d \in Cell : SameUnit(c, d) /\ board[d] = v
  BY <1>1, <1>10, <1>11, SafeLemma
<1>13. c # d
  BY <1>1, <1>11, <1>12, EmptyLemma
<1>14. ASSUME NEW f \in Solutions, Agrees(f, n - 1)
       PROVE  f[c] # v
  <2>1. f[c] # Filled(f)[d]
    <3>1. Filled(f)[c] # Filled(f)[d]
      BY <1>10, <1>12, <1>13 DEF Solutions, Correct
    <3> QED
      BY <3>1, <1>10 DEF Filled
  <2>2. CASE d \notin Blank
    BY <1>1, <1>12, <2>1, <2>2 DEF Filled, IInv, Given
  <2>3. CASE d \in Blank
    <3>1. PICK k \in 1 .. n - 1 : stack[k].cell = d
      BY <1>1, <1>6, <1>7, <1>12, <2>3, EmptyLemma DEF IInv, Frames
    <3>2. stack[k].num = v
      BY <1>6, <1>7, <1>12, <3>1 DEF IInv, Frames
    <3>3. f[d] = v
      BY <1>14, <3>1, <3>2 DEF Agrees
    <3> QED
      BY <2>1, <2>3, <3>3 DEF Filled
  <2> QED
    BY <2>2, <2>3
<1>15. Tried'
  <2> SUFFICES ASSUME NEW k \in 1 .. n, NEW f \in Solutions,
                      \A j \in 1 .. k - 1 : f[stack'[j].cell] = stack'[j].num
               PROVE  f[stack'[k].cell] >= stack'[k].num
    BY <1>4, <1>7 DEF Tried, Agrees
  <2>1. \A j \in 1 .. k - 1 : j \in 1 .. n - 1
    BY <1>2
  <2>2. Agrees(f, k - 1)
    BY <1>4, <2>1 DEF Agrees
  <2>3. f[stack[k].cell] >= stack[k].num
    BY <1>7, <2>2 DEF IInv, Tried
  <2>4. CASE k = n
    <3>1. f[c] \in Digit
      BY <1>10 DEF Solutions
    <3>2. f[c] >= v /\ f[c] # v
      BY <1>3, <1>14, <2>2, <2>3, <2>4
    <3>3. f[c] >= v + 1
      BY <1>1, <3>1, <3>2 DEF Digit
    <3> QED
      BY <1>3, <1>4, <2>4, <3>3
  <2>5. CASE k # n
    <3>1. k \in 1 .. n - 1
      BY <1>2, <2>5
    <3> QED
      BY <1>4, <2>3, <3>1
  <2> QED
    BY <2>4, <2>5
<1>16. (Start /\ Given /\ Sound /\ Failed /\ Found /\ Verdict)'
  BY <1>1, <1>7
     DEF IInv, Start, Given, Sound, Failed, Found, Verdict, Returned
<1> QED
  BY <1>5, <1>9, <1>15, <1>16 DEF IInv

(* A digit that is placed meets none.                                      *)
LEMMA PlaceStep == IInv /\ Place => IInv'
<1> SUFFICES ASSUME IInv, Place
             PROVE  IInv'
  OBVIOUS
<1> DEFINE n == Len(stack)
           c == Top.cell
           v == Top.num
<1>1. /\ pc = "try" /\ v \in Digit /\ isSafe(c, v) /\ board[c] = Empty
      /\ board' = [board EXCEPT ![c] = v] /\ pc' = "call"
      /\ UNCHANGED <<puzzle, server, stack, result, ans>>
  BY DEF Place, Fits
<1>2. stack \in Seq(Frame) /\ stack # <<>> /\ n \in Nat \ {0}
  BY <1>1, EmptySeq DEF IInv, TypeOK
<1>3. Top = stack[n] /\ n \in 1 .. n
  BY <1>2 DEF Top
<1>4. Placed = 1 .. n - 1 /\ Placed' = 1 .. n
  BY <1>1 DEF Placed
<1>5. Searching /\ Searching' /\ Blank' = Blank /\ Solutions' = Solutions
  BY <1>1, SamePuzzle DEF Searching
<1>6. c \in Blank /\ c \in Cell /\ Blank \subseteq Cell
  BY <1>3, <1>5 DEF IInv, Frames, Blank, EmptyCells
<1>7. /\ board \in Board /\ board' \in Board
      /\ board'[c] = v /\ \A d \in Cell : d # c => board'[d] = board[d]
  BY <1>1, <1>6 DEF IInv, TypeOK, Board
<1>8. TypeOK'
  BY <1>1, <1>7 DEF IInv, TypeOK
<1>9. \A k \in 1 .. n : k \in 1 .. n - 1 \/ k = n
  BY <1>2
<1>10. Frames'
  <2>1. \A k \in 1 .. n - 1 : k \in 1 .. n /\ k # n
    BY <1>2
  <2>2. \A k \in 1 .. n - 1 : /\ stack[k].cell \in Cell /\ stack[k].cell # c
                              /\ board'[stack[k].cell] = board[stack[k].cell]
    BY <1>3, <1>5, <1>6, <1>7, <2>1 DEF IInv, Frames
  <2>3. \A k \in 1 .. n : /\ stack[k].num \in Digit
                          /\ board'[stack[k].cell] = stack[k].num
    BY <1>1, <1>3, <1>4, <1>5, <1>7, <1>9, <2>2 DEF IInv, Frames
  <2>4. \A d \in Blank : board'[d] = Empty \/ \E k \in 1 .. n : stack[k].cell = d
    BY <1>3, <1>4, <1>5, <1>6, <1>7, <2>1 DEF IInv, Frames
  <2> QED
    BY <1>1, <1>4, <1>5, <2>3, <2>4 DEF IInv, Frames
<1>11. \A d \in Cell : SameUnit(c, d) => board[d] # v
  BY <1>1, <1>6, SafeLemma
<1>12. Sound'
  <2> SUFFICES ASSUME NEW d \in Blank, NEW e \in Cell,
                      d # e, SameUnit(d, e), board'[d] # Empty
               PROVE  board'[d] # board'[e]
    BY <1>5 DEF Sound
  <2>1. CASE d = c
    BY <1>7, <1>11, <2>1
  <2>2. CASE e = c
    <3>1. SameUnit(c, d)
      BY <1>6, <2>2, Symmetric
    <3> QED
      BY <1>6, <1>7, <1>11, <2>2, <3>1
  <2>3. CASE d # c /\ e # c
    BY <1>6, <1>7, <2>3 DEF IInv, Sound
  <2> QED
    BY <2>1, <2>2, <2>3
<1>13. Given'
  BY <1>1, <1>5, <1>6, <1>7 DEF IInv, Given
<1>14. Tried'
  BY <1>1, <1>5 DEF IInv, Tried, Agrees
<1>15. (Start /\ Failed /\ Found /\ Verdict)'
  BY <1>1 DEF Start, Failed, Found, Verdict, Returned
<1> QED
  BY <1>8, <1>10, <1>12, <1>13, <1>14, <1>15 DEF IInv

(* With every digit passed, there is no solution for the frames below.     *)
LEMMA ExhaustedStep == IInv /\ Exhausted => IInv'
<1> SUFFICES ASSUME IInv, Exhausted
             PROVE  IInv'
  OBVIOUS
<1> DEFINE n == Len(stack)
<1>1. /\ pc = "try" /\ Top.num > N /\ stack' = Callers
      /\ result' = FALSE /\ pc' = "return"
      /\ UNCHANGED <<puzzle, server, board, ans>>
  BY DEF Exhausted
<1>2. stack \in Seq(Frame) /\ stack # <<>> /\ n \in Nat \ {0}
  BY <1>1, EmptySeq DEF IInv, TypeOK
<1>3. /\ Top = stack[n] /\ n \in 1 .. n
      /\ \A k \in 1 .. n - 1 : k \in 1 .. n
  BY <1>2 DEF Top
<1>4. /\ stack' \in Seq(Frame) /\ Len(stack') = n - 1
      /\ \A k \in 1 .. n - 1 : stack'[k] = stack[k]
  BY <1>1, <1>2, PopLemma DEF Callers
<1>5. TypeOK'
  BY <1>1, <1>4 DEF IInv, TypeOK
<1>6. Placed = 1 .. n - 1 /\ Placed' = 1 .. n - 1
  BY <1>1, <1>4 DEF Placed
<1>7. Searching /\ Searching' /\ Blank' = Blank /\ Solutions' = Solutions
  BY <1>1, SamePuzzle DEF Searching
<1>8. Frames'
  <2>1. \A k \in 1 .. n - 1 : stack'[k].cell \in Blank
    BY <1>3, <1>4, <1>7 DEF IInv, Frames
  <2>2. \A j, k \in 1 .. n - 1 : j # k => stack'[j].cell # stack'[k].cell
    BY <1>3, <1>4, <1>7 DEF IInv, Frames
  <2>3. \A k \in 1 .. n - 1 : /\ stack'[k].num \in Digit
                              /\ board[stack'[k].cell] = stack'[k].num
    BY <1>4, <1>6, <1>7 DEF IInv, Frames
  <2>4. \A d \in Blank : board[d] = Empty \/ \E k \in 1 .. n - 1 : stack'[k].cell = d
    BY <1>4, <1>6, <1>7 DEF IInv, Frames
  <2> QED
    <3>1. \A k \in 1 .. Len(stack') : stack'[k].cell \in Blank'
      BY <1>1, <1>4, <1>6, <1>7, <2>1
    <3>2. \A j, k \in 1 .. Len(stack') : j # k => stack'[j].cell # stack'[k].cell
      BY <1>1, <1>4, <1>6, <1>7, <2>2
    <3>3. \A k \in Placed' : /\ stack'[k].num \in Digit
                             /\ board'[stack'[k].cell] = stack'[k].num
      BY <1>1, <1>4, <1>6, <1>7, <2>3
    <3>4. \A d \in Blank' : board'[d] = Empty \/ \E k \in Placed' : stack'[k].cell = d
      BY <1>1, <1>4, <1>6, <1>7, <2>4
    <3> QED
      BY <3>1, <3>2, <3>3, <3>4 DEF Frames
<1>9. Tried'
  <2> SUFFICES ASSUME NEW k \in 1 .. n - 1, NEW f \in Solutions,
                      \A j \in 1 .. k - 1 : f[stack'[j].cell] = stack'[j].num
               PROVE  f[stack'[k].cell] >= stack'[k].num
    BY <1>4, <1>7 DEF Tried, Agrees
  <2>1. \A j \in 1 .. k - 1 : j \in 1 .. n - 1
    BY <1>2
  <2>2. Agrees(f, k - 1)
    BY <1>4, <2>1 DEF Agrees
  <2> QED
    BY <1>3, <1>4, <1>7, <2>2 DEF IInv, Tried
<1>10. ASSUME NEW f \in Solutions
       PROVE  ~Agrees(f, n - 1)
  <2>1. stack[n].cell \in Blank
    BY <1>3, <1>7 DEF IInv, Frames
  <2>2. f[stack[n].cell] \in Digit
    BY <2>1 DEF Solutions
  <2>3. SUFFICES ASSUME Agrees(f, n - 1)
                 PROVE  FALSE
    OBVIOUS
  <2>4. f[stack[n].cell] >= stack[n].num
    BY <1>3, <1>7, <2>3 DEF IInv, Tried
  <2>5. stack[n].num > N /\ stack[n].num \in Int
    <3>1. stack[n] \in Frame
      BY <1>2, <1>3, ElementOfSeq
    <3> QED
      BY <1>1, <1>3, <3>1 DEF Frame
  <2> QED
    BY <2>2, <2>4, <2>5, SizeAssumption DEF Digit
<1>11. Failed'
  BY <1>1, <1>4, <1>7, <1>10 DEF Failed, Agrees
<1>12. (Start /\ Given /\ Sound /\ Found)'
  BY <1>1, <1>7 DEF IInv, Start, Given, Sound, Found
<1>13. Verdict'
  <2> SUFFICES ASSUME stack' = <<>>
               PROVE  board = puzzle /\ ~Solvable
    BY <1>1, SamePuzzle DEF Verdict, Returned
  <2>1. n - 1 = 0
    BY <1>4, EmptySeq
  <2>2. Solutions = {}
    <3>1. \A f : Agrees(f, 0)
      BY DEF Agrees
    <3>2. \A f \in Solutions : ~Agrees(f, 0)
      BY <1>10, <2>1
    <3> QED
      BY <3>1, <3>2
  <2>3. ~Solvable
    BY <2>2 DEF Solutions, Solvable
  <2>4. \A d \in Blank : board[d] = Empty /\ puzzle[d] = Empty
    <3>1. \A d \in Blank : board[d] = Empty \/ \E k \in Placed : stack[k].cell = d
      BY <1>7 DEF IInv, Frames
    <3>2. Placed = {}
      <4>1. \A m \in Int : m = 0 => 1 .. m = {}
        OBVIOUS
      <4> HIDE DEF n
      <4> QED
        BY <1>2, <1>6, <2>1, <4>1
    <3> QED
      BY <3>1, <3>2 DEF Blank, EmptyCells
  <2>5. \A d \in Cell : board[d] = puzzle[d]
    BY <1>1, <2>4 DEF IInv, Given
  <2> QED
    BY <2>3, <2>5 DEF IInv, TypeOK, Board
<1> QED
  BY <1>5, <1>8, <1>9, <1>11, <1>12, <1>13 DEF IInv

LEMMA SucceedStep == IInv /\ Succeed => IInv'
<1> SUFFICES ASSUME IInv, Succeed
             PROVE  IInv'
  OBVIOUS
<1>1. /\ pc = "return" /\ stack # <<>> /\ result /\ stack' = Callers
      /\ UNCHANGED <<puzzle, server, pc, board, result, ans>>
  BY DEF Succeed
<1>2. TypeOK'
  BY <1>1, PopLemma DEF IInv, TypeOK, Callers
<1>3. (Start /\ Given /\ Sound)'
  BY <1>1, SamePuzzle DEF IInv, Start, Given, Sound
<1>4. (Frames /\ Tried /\ Failed)'
  BY <1>1 DEF Frames, Tried, Failed, Searching
<1>5. Found' /\ Verdict'
  BY <1>1, SamePuzzle DEF IInv, Found, Verdict
<1> QED
  BY <1>2, <1>3, <1>4, <1>5 DEF IInv

(* A digit that is taken back belongs to no solution left.                 *)
LEMMA BacktrackStep == IInv /\ Backtrack => IInv'
<1> SUFFICES ASSUME IInv, Backtrack
             PROVE  IInv'
  OBVIOUS
<1> DEFINE n == Len(stack)
           c == Top.cell
           v == Top.num
<1>1. /\ pc = "return" /\ stack # <<>> /\ ~result /\ pc' = "try"
      /\ board' = [board EXCEPT ![c] = Empty]
      /\ stack' = [stack EXCEPT ![n].num = @ + 1]
      /\ UNCHANGED <<puzzle, server, result, ans>>
  BY DEF Backtrack
<1>2. stack \in Seq(Frame) /\ stack # <<>> /\ n \in Nat \ {0}
  BY <1>1, EmptySeq DEF IInv, TypeOK
<1>3. /\ Top = stack[n] /\ n \in 1 .. n
      /\ \A k \in 1 .. n - 1 : k \in 1 .. n /\ k # n
      /\ \A k \in 1 .. n : k \in 1 .. n - 1 \/ k = n
  BY <1>2 DEF Top
<1>4. Searching /\ Searching' /\ Blank' = Blank /\ Solutions' = Solutions
  BY <1>1, SamePuzzle DEF Searching
<1>5. Placed = 1 .. n
  BY <1>1 DEF Placed
<1>6. c \in Blank /\ c \in Cell /\ Blank \subseteq Cell /\ v \in Digit
  BY <1>3, <1>4, <1>5 DEF IInv, Frames, Blank, EmptyCells
<1>7. /\ stack' \in Seq(Frame) /\ stack' # <<>> /\ Len(stack') = n
      /\ \A k \in 1 .. n : stack'[k].cell = stack[k].cell
      /\ \A k \in 1 .. n - 1 : stack'[k] = stack[k]
      /\ stack'[n].num = v + 1
  BY <1>1, <1>2, <1>3, <1>6, BumpLemma
<1>8. /\ board \in Board /\ board' \in Board
      /\ board'[c] = Empty /\ \A d \in Cell : d # c => board'[d] = board[d]
  BY <1>1, <1>6 DEF IInv, TypeOK, Board
<1>9. TypeOK'
  BY <1>1, <1>7, <1>8 DEF IInv, TypeOK
<1>10. Placed' = 1 .. n - 1
  BY <1>1, <1>7 DEF Placed
<1>11. Frames'
  <2>1. \A k \in 1 .. n : stack'[k].cell \in Blank
    BY <1>4, <1>7 DEF IInv, Frames
  <2>2. \A j, k \in 1 .. n : j # k => stack'[j].cell # stack'[k].cell
    BY <1>4, <1>7 DEF IInv, Frames
  <2>3. \A k \in 1 .. n - 1 : stack[k].cell \in Cell /\ stack[k].cell # c
    BY <1>3, <1>4, <1>6 DEF IInv, Frames
  <2>4. \A k \in 1 .. n - 1 : /\ stack'[k].num \in Digit
                              /\ board'[stack'[k].cell] = stack'[k].num
    <3>1. \A k \in 1 .. n : /\ stack[k].num \in Digit
                            /\ board[stack[k].cell] = stack[k].num
      BY <1>4, <1>5 DEF IInv, Frames
    <3> SUFFICES ASSUME NEW k \in 1 .. n - 1
                 PROVE  /\ stack'[k].num \in Digit
                        /\ board'[stack'[k].cell] = stack'[k].num
      OBVIOUS
    <3>2. stack'[k] = stack[k] /\ k \in 1 .. n
      BY <1>3, <1>7
    <3>3. board'[stack[k].cell] = board[stack[k].cell]
      BY <1>8, <2>3
    <3> QED
      BY <3>1, <3>2, <3>3
  <2>5. \A d \in Blank : board'[d] = Empty \/ \E k \in 1 .. n - 1 : stack'[k].cell = d
    <3>1. \A d \in Blank : board[d] = Empty \/ \E k \in 1 .. n : stack[k].cell = d
      BY <1>4, <1>5 DEF IInv, Frames
    <3>2. \A k \in 1 .. n : stack[k].cell # c => k \in 1 .. n - 1
      BY <1>3
    <3> QED
      BY <1>6, <1>7, <1>8, <3>1, <3>2
  <2> QED
    <3>1. \A k \in 1 .. Len(stack') : stack'[k].cell \in Blank'
      BY <1>4, <1>7, <1>10, <2>1
    <3>2. \A j, k \in 1 .. Len(stack') : j # k => stack'[j].cell # stack'[k].cell
      BY <1>4, <1>7, <1>10, <2>2
    <3>3. \A k \in Placed' : /\ stack'[k].num \in Digit
                             /\ board'[stack'[k].cell] = stack'[k].num
      BY <1>4, <1>7, <1>10, <2>4
    <3>4. \A d \in Blank' : board'[d] = Empty \/ \E k \in Placed' : stack'[k].cell = d
      BY <1>4, <1>7, <1>10, <2>5
    <3> QED
      BY <3>1, <3>2, <3>3, <3>4 DEF Frames
<1>12. Tried'
  <2> SUFFICES ASSUME NEW k \in 1 .. n, NEW f \in Solutions,
                      \A j \in 1 .. k - 1 : f[stack'[j].cell] = stack'[j].num
               PROVE  f[stack'[k].cell] >= stack'[k].num
    BY <1>4, <1>7 DEF Tried, Agrees
  <2>1. \A j \in 1 .. k - 1 : j \in 1 .. n - 1
    BY <1>2
  <2>2. Agrees(f, k - 1)
    BY <1>7, <2>1 DEF Agrees
  <2>3. f[stack[k].cell] >= stack[k].num
    BY <1>4, <2>2 DEF IInv, Tried
  <2>4. CASE k = n
    <3>1. f[c] \in Digit
      BY <1>6 DEF Solutions
    <3>2. f[c] # v
      <4>1. ~Agrees(f, n)
        BY <1>1 DEF IInv, Failed
      <4> QED
        BY <1>3, <2>2, <2>4, <4>1 DEF Agrees
    <3>3. f[c] >= v
      BY <1>3, <2>3, <2>4
    <3>4. f[c] >= v + 1
      BY <1>6, <3>1, <3>2, <3>3 DEF Digit
    <3> QED
      BY <1>3, <1>7, <2>4, <3>4
  <2>5. CASE k # n
    <3>1. k \in 1 .. n - 1
      BY <1>3, <2>5
    <3> QED
      BY <1>7, <2>3, <3>1
  <2> QED
    BY <2>4, <2>5
<1>13. Sound'
  BY <1>4, <1>6, <1>8 DEF IInv, Sound
<1>14. Given'
  BY <1>1, <1>4, <1>6, <1>8 DEF IInv, Given
<1>15. (Start /\ Failed /\ Found /\ Verdict)'
  BY <1>1 DEF Start, Failed, Found, Verdict, Returned
<1> QED
  BY <1>9, <1>11, <1>12, <1>13, <1>14, <1>15 DEF IInv

(* After the search.                                                       *)
LEMMA RestStep == IInv /\ (Solved \/ Move \/ Finish) => IInv'
<1> SUFFICES ASSUME IInv, Solved \/ Move \/ Finish
             PROVE  IInv'
  OBVIOUS
<1>1. /\ UNCHANGED <<puzzle, board, stack, result>>
      /\ Returned /\ pc # "ask" /\ pc' \in {"moves", "done"}
  BY DEF Solved, Move, Finish, Returned
<1>2. TypeOK'
  <2>1. ans' \subseteq Cell
    BY DEF IInv, TypeOK, Solved, Move, Finish
  <2>2. server' \in Board
    BY DEF IInv, TypeOK, Board, Solved, Move, Finish
  <2> QED
    BY <1>1, <2>1, <2>2 DEF IInv, TypeOK
<1>3. (Start /\ Given /\ Sound)'
  BY <1>1, SamePuzzle DEF IInv, Start, Given, Sound
<1>4. (Frames /\ Tried /\ Failed /\ Found)'
  BY <1>1 DEF Frames, Tried, Failed, Found, Searching
<1>5. Verdict'
  BY <1>1, SamePuzzle DEF IInv, Verdict
<1> QED
  BY <1>2, <1>3, <1>4, <1>5 DEF IInv

LEMMA InvStep == IInv /\ [Next]_vars => IInv'
<1> SUFFICES ASSUME IInv, [Next]_vars
             PROVE  IInv'
  OBVIOUS
<1>1. CASE Next
  BY <1>1, AskStep, FullStep, FindStep, PlaceStep, PassStep, ExhaustedStep,
     SucceedStep, BacktrackStep, RestStep DEF Next
<1>2. CASE UNCHANGED vars
  <2> USE <1>2 DEF vars
  <2>1. (TypeOK /\ Start /\ Given /\ Sound)'
    BY SamePuzzle DEF IInv, TypeOK, Start, Given, Sound
  <2>2. (Frames /\ Tried /\ Failed)'
    BY SamePuzzle DEF IInv, Frames, Tried, Failed, Agrees, Searching, Placed
  <2>3. (Found /\ Verdict)'
    BY SamePuzzle DEF IInv, Found, Verdict, Returned
  <2> QED
    BY <2>1, <2>2, <2>3 DEF IInv
<1> QED
  BY <1>1, <1>2

LEMMA Invariant == Spec => []IInv
  BY InvInit, InvStep, PTL DEF Spec

(* The type invariant: a frame's number is a digit, or just past the last. *)
THEOREM TypeCorrect == Spec => []TypeOK
<1>1. IInv => TypeOK
  BY DEF IInv
<1> QED
  BY <1>1, Invariant, PTL

(* _solver finds a solution exactly if there is one, and otherwise leaves  *)
(* the board as it got it.                                                 *)
THEOREM SearchComplete == Spec => []Verdict
<1>1. IInv => Verdict
  BY DEF IInv
<1> QED
  BY <1>1, Invariant, PTL

-----------------------------------------------------------------------------
(* What is not entered yet is as the server had it.                        *)
Entries ==
  /\ pc \in {"call", "try", "return"} => server = puzzle /\ ans = Blank
  /\ pc \in {"moves", "done"} =>
       /\ ans \subseteq Blank
       /\ \A c \in Cell : server[c] = IF c \in ans THEN puzzle[c] ELSE board[c]
  /\ pc = "done" => ans = {}

LEMMA EntriesStep == IInv /\ Entries /\ [Next]_vars => Entries'
<1> SUFFICES ASSUME IInv, Entries, [Next]_vars
             PROVE  Entries'
  OBVIOUS
<1>1. puzzle' = puzzle /\ Blank' = Blank
  <2>1. puzzle' = puzzle
    BY DEF Next, vars, Ask, Full, Find, Place, Pass, Exhausted, Succeed,
           Backtrack, Solved, Move, Finish
  <2> QED
    BY <2>1, SamePuzzle
<1>2. CASE Ask
  BY <1>1, <1>2 DEF Ask, IInv, Start, Entries, Blank
<1>3. CASE Full \/ Find \/ Place \/ Pass \/ Exhausted \/ Succeed \/ Backtrack
  BY <1>1, <1>3 DEF Full, Find, Place, Pass, Exhausted, Succeed, Backtrack, Entries
<1>4. CASE Solved
  <2>1. \A c \in Cell : server[c] = IF c \in ans THEN puzzle[c] ELSE board[c]
    BY <1>4 DEF Solved, Entries, IInv, Given
  <2> QED
    BY <1>1, <1>4, <2>1 DEF Solved, Entries
<1>5. CASE Move
  <2>1. PICK c \in ans :
          /\ server' = IF board[c] \in Digit THEN [server EXCEPT ![c] = board[c]]
                                             ELSE server
          /\ ans' = ans \ {c}
    BY <1>5 DEF Move
  <2>2. pc = "moves" /\ UNCHANGED <<pc, board>>
    BY <1>5 DEF Move
  <2>3. c \in Blank /\ c \in Cell /\ server[c] = puzzle[c] /\ puzzle[c] = Empty
    BY <2>2 DEF Entries, Blank, EmptyCells
  <2>4. server'[c] = board[c]
    BY <2>1, <2>3 DEF IInv, TypeOK, Board
  <2>5. \A d \in Cell : d # c => server'[d] = server[d]
    BY <2>1 DEF IInv, TypeOK, Board
  <2> QED
    BY <1>1, <2>1, <2>2, <2>4, <2>5 DEF Entries
<1>6. CASE Finish
  BY <1>1, <1>6 DEF Finish, Entries
<1>7. CASE UNCHANGED vars
  BY <1>1, <1>7 DEF vars, Entries
<1> QED
  BY <1>2, <1>3, <1>4, <1>5, <1>6, <1>7 DEF Next

LEMMA EntriesInvariant == Spec => []Entries
<1>1. Init => Entries
  BY DEF Init, Entries
<1> QED
  BY <1>1, EntriesStep, Invariant, PTL DEF Spec

(* When the program has come to its end, the server's board is solved, or  *)
(* cannot be and is as it was.  (That the end comes is Ends.)              *)
THEOREM RightBoardEntered == Spec => []Entered
<1>1. IInv /\ Entries => Entered
  <2> SUFFICES ASSUME IInv, Entries, pc = "done"
               PROVE  IF Solvable THEN Solution(server) ELSE server = puzzle
    BY DEF Entered
  <2>1. server = board
    BY DEF Entries, IInv, TypeOK, Board
  <2>2. IF result THEN Solution(board) ELSE board = puzzle /\ ~Solvable
    BY DEF IInv, Verdict, Returned
  <2>3. Solution(board) => Solvable
    <3> SUFFICES ASSUME Solution(board)
                 PROVE  Solvable
      OBVIOUS
    <3> DEFINE f == [c \in Blank |-> board[c]]
    <3>1. f \in [Blank -> Digit]
      BY DEF Solution, Blank, EmptyCells
    <3>2. Filled(f) = board
      BY DEF Filled, Solution, IInv, TypeOK, Board
    <3> QED
      BY <3>1, <3>2 DEF Solvable, Solution
  <2> QED
    BY <2>1, <2>2, <2>3
<1> QED
  BY <1>1, Invariant, EntriesInvariant, PTL
=============================================================================
