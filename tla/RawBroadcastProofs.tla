------------------------- MODULE RawBroadcastProofs -------------------------
(***************************************************************************)
(* Theorems about RawBroadcast for any files, any fragments and a socket   *)
(* buffer of any size: no fragment is written twice, and a file whose      *)
(* predecessors' ENDOFFILEs came through is written with all of its own    *)
(* fragments that were not dropped and with nothing else.                  *)
(*                                                                         *)
(* The server knows nothing of files, so everything rests on the order of  *)
(* the datagrams: what is in the queue is sorted, what the server has in   *)
(* its buffer or on its disk came before all of that, and all of it before *)
(* what the client sends next.                                             *)
(***************************************************************************)
EXTENDS RawBroadcast, SequenceTheorems, TLAPS

(* The order in which the client sends: ENDOFFILE is a file's last.        *)
Rank(d) == IF d[2] = End THEN Len(Frags[d[1]]) ELSE d[2]
Before(d, e) == d[1] < e[1] \/ (d[1] = e[1] /\ Rank(d) < Rank(e))

(* Nothing is sent from a torn file on.                                    *)
Sent(d) ==
  /\ d[1] \in Sendable
  /\ d[1] < i \/ (d[1] = i /\ d[2] # End /\ d[2] < next)
Queued(d) == \E k \in 1 .. Len(queue) : queue[k] = d
Passed(d) == Sent(d) /\ \A k \in 1 .. Len(queue) : Before(d, queue[k])

Position ==
  /\ i \notin Present \ Torn => next = 0
  /\ i \in File => \A g \in Torn : i <= g

InOrder ==
  /\ \A d \in Datagram : Queued(d) => Sent(d) /\ d \notin lost
  /\ \A d \in lost : Sent(d)
  /\ \A j, k \in 1 .. Len(queue) : j < k => Before(queue[j], queue[k])

(* The server's fragments, and what made its files.                        *)
Held ==
  /\ \A d \in output_buf : Passed(d) /\ d \notin lost
  /\ \A f \in File : disk[f] # NoFile => /\ Passed(<<f, End>>) /\ <<f, End>> \notin lost
                                         /\ \A d \in disk[f] : Passed(d)

(* The ENDOFFILE of a fragment on its way or in the buffer is still to     *)
(* come, or it was dropped.                                                *)
EndAhead ==
  \A d \in Fragment : d \in output_buf \/ Queued(d) =>
    <<d[1], End>> \in lost \/ d[1] = i \/ Queued(<<d[1], End>>)

EndsThrough(f) == \A g \in 1 .. f - 1 : <<g, End>> \notin lost

(* What became of a fragment that was sent.                                *)
Kept ==
  \A d \in Fragment :
    Sent(d) /\ ~Queued(d) /\ d \notin lost /\ <<d[1], End>> \notin lost =>
      d \in IF disk[d[1]] = NoFile THEN output_buf ELSE disk[d[1]]

(* A file's own, and nothing that was dropped.                             *)
Pure ==
  \A f \in File : disk[f] # NoFile /\ EndsThrough(f) =>
    \A d \in disk[f] : d[1] = f /\ d \notin lost

IInv == /\ TypeOK /\ Position /\ InOrder /\ Held /\ EndAhead /\ Kept /\ Pure
        /\ WrittenOnce

-----------------------------------------------------------------------------
(* Datagrams and their order.                                              *)
LEMMA FragmentIs ==
  ASSUME NEW d
  PROVE  d \in Fragment <=> /\ d = <<d[1], d[2]>> /\ d[1] \in File
                            /\ d[2] \in 0 .. (Len(Frags[d[1]]) - 1)
<1>1. ASSUME d \in Fragment
      PROVE  /\ d = <<d[1], d[2]>> /\ d[1] \in File
             /\ d[2] \in 0 .. (Len(Frags[d[1]]) - 1)
  <2>1. PICK f \in File : d \in {f} \X (0 .. Len(Frags[f]) - 1)
    BY <1>1 DEF Fragment
  <2> QED
    BY <2>1
<1>2. ASSUME d = <<d[1], d[2]>>, d[1] \in File, d[2] \in 0 .. (Len(Frags[d[1]]) - 1)
      PROVE  d \in Fragment
  <2>1. d \in {d[1]} \X (0 .. Len(Frags[d[1]]) - 1)
    BY <1>2
  <2> QED
    BY <1>2, <2>1 DEF Fragment
<1> QED
  BY <1>1, <1>2

LEMMA FragsLength ==
  ASSUME NEW f \in File
  PROVE  Frags[f] \in Seq(Nat) /\ Len(Frags[f]) \in Nat
BY FilesAssumption

LEMMA DatagramIs ==
  ASSUME NEW d \in Datagram
  PROVE  /\ d = <<d[1], d[2]>> /\ d[1] \in File /\ d[1] \in Nat /\ Rank(d) \in Nat
         /\ d[2] \in Int /\ (d[2] = End \/ d \in Fragment)
         /\ d \in Fragment => d[2] # End /\ d[2] \in Nat
<1>1. CASE d \in Fragment
  BY <1>1, FragmentIs, FragsLength DEF Rank, End, File
<1>2. CASE d \in File \X {End}
  <2>1. d = <<d[1], d[2]>> /\ d[1] \in File /\ d[2] = End
    BY <1>2
  <2>2. d \notin Fragment
    BY <2>1, FragmentIs, FragsLength DEF End
  <2> QED
    BY <2>1, <2>2, FragsLength DEF Rank, End, File
<1> QED
  BY <1>1, <1>2 DEF Datagram

LEMMA EndIs ==
  ASSUME NEW f \in File
  PROVE  /\ <<f, End>> \in Datagram /\ <<f, End>> \notin Fragment
         /\ Rank(<<f, End>>) = Len(Frags[f])
BY FragmentIs, FragsLength DEF Datagram, Rank, End

LEMMA BeforeEnd ==
  ASSUME NEW d \in Fragment
  PROVE  Before(d, <<d[1], End>>)
<1>1. d[1] \in File /\ d[2] \in 0 .. (Len(Frags[d[1]]) - 1)
  BY FragmentIs
<1>2. Len(Frags[d[1]]) \in Nat
  BY <1>1, FragsLength
<1> QED
  BY <1>1, <1>2 DEF Before, Rank, End

LEMMA BeforeIsOrder ==
  ASSUME NEW d \in Datagram, NEW e \in Datagram
  PROVE  /\ ~Before(d, d)
         /\ Before(d, e) => ~Before(e, d)
         /\ \A g \in Datagram : Before(d, g) /\ Before(g, e) => Before(d, e)
<1>1. /\ d[1] \in Nat /\ Rank(d) \in Nat
      /\ e[1] \in Nat /\ Rank(e) \in Nat
      /\ \A g \in Datagram : g[1] \in Nat /\ Rank(g) \in Nat
  BY DatagramIs
<1> QED
  BY <1>1 DEF Before

LEMMA SizeType ==
  ASSUME NEW d \in Datagram
  PROVE  Size(d) \in Nat
<1>1. CASE d[2] = End
  BY <1>1 DEF Size, EndSize
<1>2. CASE d[2] # End
  <2>1. d[1] \in File /\ d[2] \in 0 .. (Len(Frags[d[1]]) - 1)
    BY <1>2, DatagramIs, FragmentIs
  <2>2. Frags[d[1]] \in Seq(Nat) /\ Len(Frags[d[1]]) \in Nat
    BY <2>1, FragsLength
  <2>3. d[2] + 1 \in 1 .. Len(Frags[d[1]])
    BY <2>1, <2>2
  <2>4. Frags[d[1]][d[2] + 1] \in Nat
    BY <2>2, <2>3
  <2> QED
    BY <1>2, <2>4 DEF Size
<1> QED
  BY <1>1, <1>2

-----------------------------------------------------------------------------
(* The client sends d next: d comes after all it sent before.              *)
Extends(d) ==
  /\ d \in Datagram /\ ~Sent(d)
  /\ \A e \in Datagram : /\ Sent(e)' <=> Sent(e) \/ e = d
                         /\ Sent(e) => Before(e, d)

LEMMA AppendFacts ==
  ASSUME NEW d \in Datagram, queue \in Seq(Datagram), queue' = Append(queue, d)
  PROVE  /\ queue' \in Seq(Datagram) /\ Len(queue) \in Nat
         /\ Len(queue') = Len(queue) + 1
         /\ \A k \in 1 .. Len(queue) : queue'[k] = queue[k]
         /\ queue'[Len(queue) + 1] = d
         /\ \A e : Queued(e)' <=> Queued(e) \/ e = d
<1>1. /\ queue' \in Seq(Datagram) /\ Len(queue) \in Nat
      /\ Len(queue') = Len(queue) + 1
      /\ \A k \in 1 .. Len(queue) : queue'[k] = queue[k]
      /\ queue'[Len(queue) + 1] = d
  BY AppendProperties, LenProperties
<1>2. \A k \in 1 .. Len(queue') : k \in 1 .. Len(queue) \/ k = Len(queue) + 1
  BY <1>1
<1>3. /\ 1 .. Len(queue) \subseteq 1 .. Len(queue')
      /\ Len(queue) + 1 \in 1 .. Len(queue')
  BY <1>1
<1>4. \A e : Queued(e)' <=> Queued(e) \/ e = d
  BY <1>1, <1>2, <1>3 DEF Queued
<1> QED
  BY <1>1, <1>4

LEMMA SendKeeps ==
  ASSUME IInv, NEW d, Extends(d), SendTo(d), UNCHANGED <<output_buf, disk>>
  PROVE  InOrder' /\ Held' /\ Kept' /\ Pure' /\ WrittenOnce'
<1>1. d \in Datagram /\ queue \in Seq(Datagram) /\ Len(queue) \in Nat
  BY LenProperties DEF Extends, IInv, TypeOK
<1>2. /\ \A e \in output_buf : e \in Datagram /\ Sent(e)
      /\ \A f \in File : disk[f] # NoFile =>
           /\ <<f, End>> \in Datagram /\ Sent(<<f, End>>)
           /\ \A e \in disk[f] : e \in Datagram /\ Sent(e)
      /\ \A e \in lost : e \in Datagram
  <2>1. \A f \in File : disk[f] # NoFile => disk[f] \subseteq Fragment
    BY DEF IInv, TypeOK
  <2> QED
    BY <2>1, EndIs DEF IInv, TypeOK, Held, Passed, Datagram
<1>3. lost' = lost \/ lost' = lost \cup {d}
  BY DEF SendTo
<1>4. \A e \in Datagram : Sent(e) => Sent(e)' /\ e # d
  BY DEF Extends
<1>5. InOrder'
  <2>1. CASE queue' = Append(queue, d) /\ UNCHANGED lost
    <3>1. /\ Len(queue') = Len(queue) + 1
          /\ \A k \in 1 .. Len(queue) : queue'[k] = queue[k] /\ queue[k] \in Datagram
          /\ queue'[Len(queue) + 1] = d
          /\ \A e : Queued(e)' <=> Queued(e) \/ e = d
      BY <1>1, <2>1, AppendFacts
    <3>2. \A k \in 1 .. Len(queue') : k \in 1 .. Len(queue) \/ k = Len(queue) + 1
      BY <1>1, <3>1
    <3>3. d \notin lost /\ Sent(d)'
      BY DEF Extends, IInv, InOrder
    <3>4. \A e \in Datagram : Queued(e)' => Sent(e)' /\ e \notin lost'
      BY <1>4, <2>1, <3>1, <3>3 DEF IInv, InOrder
    <3>5. ASSUME NEW j \in 1 .. Len(queue'), NEW k \in 1 .. Len(queue'), j < k
          PROVE  Before(queue'[j], queue'[k])
      <4>1. j \in 1 .. Len(queue)
        BY <1>1, <3>1, <3>2, <3>5
      <4>2. CASE k \in 1 .. Len(queue)
        BY <3>1, <3>5, <4>1, <4>2 DEF IInv, InOrder
      <4>3. CASE k = Len(queue) + 1
        <5>1. Queued(queue[j]) /\ queue[j] \in Datagram
          BY <3>1, <4>1 DEF Queued
        <5>2. Before(queue[j], d)
          BY <5>1 DEF IInv, InOrder, Extends
        <5> QED
          BY <3>1, <4>1, <4>3, <5>2
      <4> QED
        BY <3>2, <4>2, <4>3
    <3>6. \A e \in lost' : Sent(e)'
      BY <1>2, <1>4, <2>1 DEF IInv, InOrder
    <3>7. (\A j, k \in 1 .. Len(queue) : j < k => Before(queue[j], queue[k]))'
      BY <3>5 DEF Before, Rank
    <3> QED
      BY <3>4, <3>6, <3>7 DEF InOrder
  <2>2. CASE lost' = lost \cup {d} /\ UNCHANGED queue
    <3>1. \A e \in Datagram : Queued(e)' => Sent(e)' /\ e \notin lost'
      BY <1>4, <2>2 DEF IInv, InOrder, Queued
    <3>2. \A e \in lost' : Sent(e)'
      BY <1>2, <1>4, <2>2 DEF IInv, InOrder, Extends
    <3> QED
      BY <2>2, <3>1, <3>2 DEF IInv, InOrder, Before, Rank
  <2> QED
    BY <2>1, <2>2 DEF SendTo
<1>6. ASSUME NEW e \in Datagram, Passed(e)
      PROVE  Passed(e)' /\ e # d
  <2>1. Sent(e)' /\ e # d /\ Before(e, d)
    BY <1>6 DEF Passed, Extends
  <2>2. \A k \in 1 .. Len(queue) : Before(e, queue[k])
    BY <1>6 DEF Passed
  <2>3. CASE queue' = Append(queue, d)
    <3>1. /\ Len(queue') = Len(queue) + 1
          /\ \A k \in 1 .. Len(queue) : queue'[k] = queue[k]
          /\ queue'[Len(queue) + 1] = d
      BY <1>1, <2>3, AppendFacts
    <3>2. \A k \in 1 .. Len(queue') : k \in 1 .. Len(queue) \/ k = Len(queue) + 1
      BY <1>1, <3>1
    <3>3. \A k \in 1 .. Len(queue') : Before(e, queue'[k])
      BY <2>1, <2>2, <3>1, <3>2
    <3> QED
      BY <2>1, <3>3 DEF Passed, Before, Rank
  <2>4. CASE UNCHANGED queue
    BY <2>1, <2>2, <2>4 DEF Passed, Before, Rank
  <2> QED
    BY <2>3, <2>4 DEF SendTo
<1>7. Held'
  <2>1. \A e \in output_buf' : Passed(e)' /\ e \notin lost'
    BY <1>2, <1>3, <1>6 DEF IInv, Held
  <2>2. \A f \in File : disk'[f] # NoFile =>
           /\ Passed(<<f, End>>)' /\ <<f, End>> \notin lost'
           /\ \A e \in disk'[f] : Passed(e)'
    BY <1>2, <1>3, <1>6 DEF IInv, Held
  <2> QED
    BY <2>1, <2>2 DEF Held
<1>8. Kept'
  <2> SUFFICES ASSUME NEW e \in Fragment, Sent(e)', ~Queued(e)', e \notin lost',
                      <<e[1], End>> \notin lost'
               PROVE  e \in IF disk'[e[1]] = NoFile THEN output_buf' ELSE disk'[e[1]]
    BY DEF Kept
  <2>1. e \in Datagram
    BY DEF Datagram
  <2>2. e # d /\ ~Queued(e)
    <3>1. CASE queue' = Append(queue, d) /\ UNCHANGED lost
      BY <1>1, <3>1, AppendFacts
    <3>2. CASE lost' = lost \cup {d} /\ UNCHANGED queue
      BY <3>2 DEF Queued
    <3> QED
      BY <3>1, <3>2 DEF SendTo
  <2>3. Sent(e)
    BY <2>1, <2>2 DEF Extends
  <2>4. e \notin lost /\ <<e[1], End>> \notin lost
    BY <1>3
  <2> QED
    BY <2>2, <2>3, <2>4 DEF IInv, Kept
<1>9. Pure'
  BY <1>2, <1>3, <1>4 DEF IInv, Pure, EndsThrough
<1>10. WrittenOnce'
  BY DEF IInv, WrittenOnce
<1> QED
  BY <1>5, <1>7, <1>8, <1>9, <1>10

(* The client turns to another file without having sent anything of this. *)
LEMMA MoveOnKeeps ==
  ASSUME IInv, i \notin Sendable, UNCHANGED <<queue, output_buf, disk, lost>>,
         \A e \in Datagram : Sent(e)' <=> Sent(e)
  PROVE  InOrder' /\ Held' /\ EndAhead' /\ Kept' /\ Pure' /\ WrittenOnce'
<1>1. /\ output_buf \subseteq Datagram /\ lost \subseteq Datagram
      /\ \A f \in File : /\ disk[f] # NoFile => disk[f] \subseteq Datagram
                         /\ <<f, End>> \in Datagram
  BY EndIs DEF IInv, TypeOK, Datagram
<1>2. \A e \in Datagram : Queued(e)' <=> Queued(e)
  BY DEF Queued
<1>3. InOrder'
  BY <1>1, <1>2 DEF IInv, InOrder, Before, Rank
<1>4. \A e \in Datagram : Passed(e) => Passed(e)'
  BY DEF Passed, Before, Rank
<1>5. Held'
  <2>1. \A e \in output_buf' : Passed(e)' /\ e \notin lost'
    BY <1>1, <1>4 DEF IInv, Held
  <2>2. \A f \in File : disk'[f] # NoFile =>
           /\ Passed(<<f, End>>)' /\ <<f, End>> \notin lost'
           /\ \A e \in disk'[f] : Passed(e)'
    BY <1>1, <1>4 DEF IInv, Held
  <2> QED
    BY <2>1, <2>2 DEF Held
<1>6. EndAhead'
  <2> SUFFICES ASSUME NEW e \in Fragment, e \in output_buf \/ Queued(e)
               PROVE  <<e[1], End>> \in lost \/ Queued(<<e[1], End>>)
    BY DEF EndAhead, Queued
  <2>1. Sent(e)
    BY DEF IInv, InOrder, Held, Passed, Datagram
  <2>2. e[1] # i
    BY <2>1 DEF Sent
  <2> QED
    BY <2>2 DEF IInv, EndAhead
<1>7. Kept'
  BY <1>2 DEF IInv, Kept, Datagram
<1>8. Pure' /\ WrittenOnce'
  BY DEF IInv, Pure, EndsThrough, WrittenOnce
<1> QED
  BY <1>3, <1>5, <1>6, <1>7, <1>8

(* The file that the client sends lies before every torn one.              *)
LEMMA AtSendable ==
  ASSUME IInv, i \in Present \ Torn
  PROVE  i \in Sendable /\ i \in File /\ i \in Nat /\ Frags[i] \in Seq(Nat)
BY FilesAssumption DEF IInv, TypeOK, Position, Sendable, File

LEMMA SkipFileKeeps ==
  ASSUME IInv, SkipFile \/ TearFile
  PROVE  IInv'
<1>1. UNCHANGED <<queue, next, output_buf, longest, disk, lost>>
  BY DEF SkipFile, TearFile
<1>2. i \in File /\ i \notin Present \ Torn /\ i \in Nat /\ NFiles \in Nat
  <2>1. i \in File /\ i \notin Present \ Torn
    BY FilesAssumption DEF SkipFile, TearFile
  <2> QED
    BY <2>1, FilesAssumption DEF File
<1>3. next = 0 /\ i \notin Sendable
  BY <1>2 DEF IInv, TypeOK, Position, SkipFile, TearFile, Sendable
<1>4. i' \in 1 .. (NFiles + 1) /\ i' > i
  BY <1>2 DEF SkipFile, TearFile, File
<1>5. \A e \in Datagram : Sent(e)' <=> Sent(e)
  <2> SUFFICES ASSUME NEW e \in Datagram
               PROVE  Sent(e)' <=> Sent(e)
    OBVIOUS
  <2>1. e[1] \in Nat /\ e[2] \in Int /\ (e[2] # End => e[2] >= 0)
    BY DatagramIs
  <2>2. Sent(e) => Sent(e)'
    BY <1>1, <1>2, <1>3, <1>4, <2>1 DEF Sent
  <2>3. CASE TearFile
    <3>1. e[1] \in Sendable => e[1] < i
      BY <2>3 DEF TearFile, Sendable
    <3> QED
      BY <1>2, <2>1, <2>2, <3>1 DEF Sent
  <2>4. CASE SkipFile
    <3>1. i' = i + 1 /\ next' = 0
      BY <1>3, <2>4 DEF SkipFile
    <3>2. e[1] < i + 1 => e[1] < i \/ e[1] = i
      BY <1>2, <2>1
    <3> QED
      BY <1>2, <1>3, <2>1, <2>2, <3>1, <3>2 DEF Sent
  <2> QED
    BY <2>3, <2>4
<1>6. Position'
  <2>1. CASE TearFile
    BY <1>1, <1>2, <1>3, <2>1 DEF TearFile, Position, File
  <2>2. CASE SkipFile
    <3>1. \A g \in Torn : i <= g /\ i # g /\ g \in Nat
      BY <1>2, <2>2, FilesAssumption DEF IInv, Position, SkipFile, File
    <3>2. \A g \in Torn : i + 1 <= g
      BY <1>2, <3>1
    <3> QED
      BY <1>1, <1>3, <2>2, <3>2 DEF SkipFile, Position
  <2> QED
    BY <2>1, <2>2
<1>7. TypeOK'
  <2>1. i' \in File => Len(Frags[i']) \in Nat
    BY FragsLength
  <2> QED
    BY <1>1, <1>3, <1>4, <2>1 DEF IInv, TypeOK
<1> QED
  BY <1>1, <1>3, <1>5, <1>6, <1>7, MoveOnKeeps DEF IInv

LEMMA SendFragmentKeeps ==
  ASSUME IInv, SendFragment
  PROVE  IInv'
<1>0. PICK d : d = <<i, next>>
  OBVIOUS
<1>1. /\ i \in Sendable /\ i \in File /\ i \in Nat /\ next \in Nat
      /\ i \in Present \ Torn
  BY AtSendable DEF SendFragment, IInv, TypeOK
<1>2. Len(Frags[i]) \in Nat /\ next < Len(Frags[i])
  BY <1>1, FragsLength DEF SendFragment
<1>3. d[1] = i /\ d[2] = next /\ d \in Fragment /\ d \in Datagram
  BY <1>0, <1>1, <1>2, FragmentIs DEF Datagram
<1>4. i' = i /\ next' = next + 1 /\ SendTo(d) /\ UNCHANGED <<output_buf, longest, disk>>
  BY <1>0 DEF SendFragment
<1>5. Extends(d)
  <2>1. ~Sent(d)
    BY <1>1, <1>3 DEF Sent
  <2>2. ASSUME NEW e \in Datagram
        PROVE  /\ Sent(e)' <=> Sent(e) \/ e = d
               /\ Sent(e) => Before(e, d)
    <3>1. e[1] \in Nat /\ e[2] \in Int /\ e = <<e[1], e[2]>>
      BY DatagramIs
    <3>2. e = d <=> e[1] = i /\ e[2] = next
      BY <1>0, <3>1
    <3>3. Sent(e)' <=> Sent(e) \/ (e[1] = i /\ e[2] = next)
      BY <1>1, <1>4, <3>1 DEF Sent, End
    <3>4. Sent(e) => Before(e, d)
      BY <1>1, <1>3, <3>1 DEF Sent, Before, Rank, End
    <3> QED
      BY <3>2, <3>3, <3>4
  <2> QED
    BY <1>3, <2>1, <2>2 DEF Extends
<1>6. InOrder' /\ Held' /\ Kept' /\ Pure' /\ WrittenOnce'
  BY <1>4, <1>5, SendKeeps
<1>7. /\ lost \subseteq lost' /\ lost' \subseteq Datagram
      /\ queue' \in Seq(Datagram) /\ Len(queue') <= RcvBuf
      /\ \A e : Queued(e) => Queued(e)'
      /\ \A e : Queued(e)' => Queued(e) \/ e = d
  <2>1. CASE queue' = Append(queue, d) /\ UNCHANGED lost /\ ~Full
    <3>1. queue \in Seq(Datagram)
      BY DEF IInv, TypeOK
    <3>2. Len(queue') = Len(queue) + 1 /\ queue' \in Seq(Datagram) /\ Len(queue) \in Nat
      BY <1>3, <2>1, <3>1, AppendFacts
    <3>3. Len(queue') <= RcvBuf
      BY <2>1, <3>2, ParametersAssumption DEF Full
    <3>4. \A e : Queued(e)' <=> Queued(e) \/ e = d
      BY <1>3, <2>1, <3>1, AppendFacts
    <3> QED
      BY <2>1, <3>2, <3>3, <3>4 DEF IInv, TypeOK
  <2>2. CASE lost' = lost \cup {d} /\ UNCHANGED queue
    BY <1>3, <2>2 DEF IInv, TypeOK, Queued
  <2> QED
    BY <1>4, <2>1, <2>2 DEF SendTo
<1>8. EndAhead'
  <2> SUFFICES ASSUME NEW e \in Fragment, e \in output_buf' \/ Queued(e)'
               PROVE  <<e[1], End>> \in lost' \/ e[1] = i' \/ Queued(<<e[1], End>>)'
    BY DEF EndAhead
  <2>1. e = d \/ e \in output_buf \/ Queued(e)
    BY <1>4, <1>7
  <2> QED
    BY <1>3, <1>4, <1>7, <2>1 DEF IInv, EndAhead
<1>9. Position' /\ TypeOK'
  BY <1>1, <1>2, <1>4, <1>7 DEF IInv, Position, TypeOK
<1> QED
  BY <1>6, <1>8, <1>9 DEF IInv

LEMMA SendEndKeeps ==
  ASSUME IInv, SendEnd
  PROVE  IInv'
<1>0. PICK d : d = <<i, End>>
  OBVIOUS
<1>1. /\ i \in Sendable /\ i \in File /\ i \in Nat /\ next \in Nat
      /\ i \in Present \ Torn
  BY AtSendable DEF SendEnd, IInv, TypeOK
<1>2. Len(Frags[i]) \in Nat /\ next = Len(Frags[i])
  BY <1>1, FragsLength DEF SendEnd
<1>3. d[1] = i /\ d[2] = End /\ d \notin Fragment /\ d \in Datagram
  BY <1>0, <1>1, EndIs
<1>4. i' = i + 1 /\ next' = 0 /\ SendTo(d) /\ UNCHANGED <<output_buf, longest, disk>>
  BY <1>0 DEF SendEnd
<1>5. Extends(d)
  <2>1. ~Sent(d)
    BY <1>1, <1>3 DEF Sent
  <2>2. ASSUME NEW e \in Datagram
        PROVE  /\ Sent(e)' <=> Sent(e) \/ e = d
               /\ Sent(e) => Before(e, d)
    <3>1. /\ e[1] \in Nat /\ e[2] \in Int /\ e = <<e[1], e[2]>>
          /\ e[2] # End => e[2] >= 0 /\ e \in Fragment
      BY DatagramIs
    <3>2. e = d <=> e[1] = i /\ e[2] = End
      BY <1>0, <3>1
    <3>3. e[2] # End => e[2] < Len(Frags[e[1]])
      BY <3>1, FragmentIs, FragsLength
    <3>4. Sent(e)' <=> Sent(e) \/ (e[1] = i /\ e[2] = End)
      BY <1>1, <1>2, <1>4, <3>1, <3>3 DEF Sent
    <3>5. Sent(e) => Before(e, d)
      BY <1>1, <1>2, <1>3, <3>1 DEF Sent, Before, Rank
    <3> QED
      BY <3>2, <3>4, <3>5
  <2> QED
    BY <1>3, <2>1, <2>2 DEF Extends
<1>6. InOrder' /\ Held' /\ Kept' /\ Pure' /\ WrittenOnce'
  BY <1>4, <1>5, SendKeeps
<1>7. /\ lost \subseteq lost' /\ lost' \subseteq Datagram
      /\ queue' \in Seq(Datagram) /\ Len(queue') <= RcvBuf
      /\ \A e : Queued(e) => Queued(e)'
      /\ \A e : Queued(e)' => Queued(e) \/ e = d
      /\ Queued(d)' \/ d \in lost'
  <2>1. CASE queue' = Append(queue, d) /\ UNCHANGED lost /\ ~Full
    <3>1. queue \in Seq(Datagram)
      BY DEF IInv, TypeOK
    <3>2. Len(queue') = Len(queue) + 1 /\ queue' \in Seq(Datagram) /\ Len(queue) \in Nat
      BY <1>3, <2>1, <3>1, AppendFacts
    <3>3. Len(queue') <= RcvBuf
      BY <2>1, <3>2, ParametersAssumption DEF Full
    <3>4. \A e : Queued(e)' <=> Queued(e) \/ e = d
      BY <1>3, <2>1, <3>1, AppendFacts
    <3> QED
      BY <2>1, <3>2, <3>3, <3>4 DEF IInv, TypeOK
  <2>2. CASE lost' = lost \cup {d} /\ UNCHANGED queue
    BY <1>3, <2>2 DEF IInv, TypeOK, Queued
  <2> QED
    BY <1>4, <2>1, <2>2 DEF SendTo
<1>8. EndAhead'
  <2> SUFFICES ASSUME NEW e \in Fragment, e \in output_buf' \/ Queued(e)'
               PROVE  <<e[1], End>> \in lost' \/ Queued(<<e[1], End>>)'
    BY DEF EndAhead
  <2>1. e \in output_buf \/ Queued(e)
    BY <1>3, <1>4, <1>7
  <2>2. <<e[1], End>> \in lost \/ e[1] = i \/ Queued(<<e[1], End>>)
    BY <2>1 DEF IInv, EndAhead
  <2>3. e[1] = i => <<e[1], End>> = d
    BY <1>0
  <2> QED
    BY <1>7, <2>2, <2>3
<1>9. Position'
  <2>1. \A g \in Torn : i < g /\ g \in Nat
    BY <1>1, FilesAssumption DEF Sendable, File
  <2>2. \A g \in Torn : i + 1 <= g
    BY <1>1, <2>1
  <2> QED
    BY <1>4, <2>2 DEF Position
<1>10. TypeOK'
  <2>1. i' \in 1 .. (NFiles + 1)
    BY <1>1, <1>4, FilesAssumption DEF File
  <2>2. i' \in File => Len(Frags[i']) \in Nat
    BY FragsLength
  <2> QED
    BY <1>4, <1>7, <2>1, <2>2 DEF IInv, TypeOK
<1> QED
  BY <1>6, <1>8, <1>9, <1>10 DEF IInv

-----------------------------------------------------------------------------
(* The server takes the head: it came after all that the server has.       *)
LEMMA ReceiveFacts ==
  ASSUME IInv, NEW d, Receive(d), UNCHANGED <<i, next>>
  PROVE  /\ d \in Datagram /\ Queued(d) /\ Sent(d) /\ d \notin lost
         /\ queue' \in Seq(Datagram) /\ Len(queue') <= RcvBuf /\ longest' \in Nat
         /\ \A e : Queued(e) <=> e = d \/ Queued(e)'
         /\ \A e \in Datagram : /\ Sent(e)' <=> Sent(e)
                                /\ Passed(e) => Passed(e)' /\ Before(e, d)
                                /\ Queued(e)' => Before(d, e)
         /\ Passed(d)'
         /\ (\A j, k \in 1 .. Len(queue) : j < k => Before(queue[j], queue[k]))'
<1>1. queue \in Seq(Datagram) /\ queue # <<>> /\ d = Head(queue) /\ queue' = Tail(queue)
  BY DEF IInv, TypeOK, Receive
<1>2. /\ queue' \in Seq(Datagram) /\ Len(queue) \in Nat \ {0}
      /\ Len(queue') = Len(queue) - 1
      /\ \A k \in 1 .. Len(queue') : queue'[k] = queue[k + 1]
      /\ queue[1] = d /\ d \in Datagram
  BY <1>1, HeadTailProperties, LenProperties, EmptySeq
<1>3. /\ \A k \in 1 .. Len(queue) : k = 1 \/ (k - 1 \in 1 .. Len(queue') /\ queue[k] = queue'[k - 1])
      /\ \A k \in 1 .. Len(queue') : k + 1 \in 1 .. Len(queue)
      /\ 1 \in 1 .. Len(queue)
  BY <1>2
<1>4. \A e : Queued(e) <=> e = d \/ Queued(e)'
  BY <1>2, <1>3 DEF Queued
<1>5. Sent(d) /\ d \notin lost
  BY <1>2, <1>4 DEF IInv, InOrder
<1>6. \A e \in Datagram : Sent(e)' <=> Sent(e)
  BY DEF Sent
<1>7. \A k \in 1 .. Len(queue') : Before(d, queue'[k])
  <2> SUFFICES ASSUME NEW k \in 1 .. Len(queue')
               PROVE  Before(d, queue'[k])
    OBVIOUS
  <2>1. 1 < k + 1
    BY <1>2
  <2>2. Before(queue[1], queue[k + 1])
    BY <1>3, <2>1 DEF IInv, InOrder
  <2> QED
    BY <1>2, <2>2
<1>8. ASSUME NEW e \in Datagram, Passed(e)
      PROVE  Passed(e)' /\ Before(e, d)
  <2>1. \A k \in 1 .. Len(queue) : Before(e, queue[k])
    BY <1>8 DEF Passed
  <2>2. Before(e, d)
    BY <1>2, <1>3, <2>1
  <2>3. (\A k \in 1 .. Len(queue) : Before(e, queue[k]))'
    BY <1>2, <1>3, <2>1 DEF Before, Rank
  <2>4. Sent(e)'
    BY <1>6, <1>8 DEF Passed
  <2> QED
    BY <2>2, <2>3, <2>4 DEF Passed
<1>9. Passed(d)'
  <2>1. (\A k \in 1 .. Len(queue) : Before(d, queue[k]))'
    BY <1>7 DEF Before, Rank
  <2>2. Sent(d)'
    BY <1>2, <1>5, <1>6
  <2> QED
    BY <2>1, <2>2 DEF Passed
<1>10. \A e \in Datagram : Queued(e)' => Before(d, e)
  BY <1>7 DEF Queued
<1>11. (\A j, k \in 1 .. Len(queue) : j < k => Before(queue[j], queue[k]))'
  <2> SUFFICES ASSUME NEW j \in 1 .. Len(queue'), NEW k \in 1 .. Len(queue'), j < k
               PROVE  Before(queue'[j], queue'[k])
    BY DEF Before, Rank
  <2>1. j + 1 < k + 1
    BY <1>2
  <2>2. Before(queue[j + 1], queue[k + 1])
    BY <1>3, <2>1 DEF IInv, InOrder
  <2> QED
    BY <1>2, <2>2
<1>12. Len(queue') <= RcvBuf /\ longest' \in Nat
  BY <1>2, SizeType, ParametersAssumption DEF IInv, TypeOK, Receive
<1> QED
  BY <1>2, <1>4, <1>5, <1>6, <1>8, <1>9, <1>10, <1>11, <1>12

(* A fragment in the buffer when a later file's datagram comes has lost    *)
(* its ENDOFFILE.                                                          *)
LEMMA LeftBehind ==
  ASSUME IInv, NEW d, Receive(d), UNCHANGED <<i, next>>,
         NEW e \in output_buf, e[1] < d[1]
  PROVE  <<e[1], End>> \in lost
<1>1. e \in Fragment /\ e \in Datagram /\ e[1] \in File /\ e[1] \in Nat
  BY DatagramIs DEF IInv, TypeOK, Datagram
<1>2. d \in Datagram /\ Sent(d) /\ d[1] \in Nat /\ i \in Nat
  BY ReceiveFacts, DatagramIs DEF IInv, TypeOK
<1>3. e[1] # i
  BY <1>1, <1>2 DEF Sent
<1>4. ASSUME Queued(<<e[1], End>>)
      PROVE  FALSE
  <2>1. PICK x \in Datagram : x = <<e[1], End>> /\ x[1] = e[1]
    BY <1>1, EndIs
  <2>2. x = d \/ Before(d, x)
    BY <1>4, <2>1, ReceiveFacts
  <2> QED
    BY <1>1, <1>2, <2>1, <2>2 DEF Before
<1> QED
  BY <1>1, <1>3, <1>4 DEF IInv, EndAhead

LEMMA Unordered ==
  ASSUME NEW d \in Datagram
  PROVE  ~Before(d, d)
BY BeforeIsOrder

LEMMA RecvDataKeeps ==
  ASSUME IInv, NEW d \in Fragment, RecvData(d)
  PROVE  IInv'
<1>1. Receive(d) /\ UNCHANGED <<i, next, disk>>
  BY DEF RecvData
<1>2. \/ Store(d) /\ UNCHANGED lost
      \/ lost' = lost \cup {d} /\ UNCHANGED output_buf
  BY DEF RecvData
<1>3. /\ d \in Datagram /\ Queued(d) /\ Sent(d) /\ d \notin lost
      /\ \A e : Queued(e) <=> e = d \/ Queued(e)'
      /\ \A e \in Datagram : /\ Sent(e)' <=> Sent(e)
                             /\ Passed(e) => Passed(e)' /\ Before(e, d)
                             /\ Queued(e)' => Before(d, e)
      /\ Passed(d)'
  BY <1>1, ReceiveFacts
<1>4. TypeOK'
  BY <1>1, <1>2, <1>3, ReceiveFacts DEF IInv, TypeOK, Store
<1>5. Position'
  BY <1>1 DEF IInv, Position
<1>6. /\ \A e \in output_buf : e \in Datagram /\ e # d
      /\ \A f \in File : disk[f] # NoFile => \A e \in disk[f] : e \in Datagram /\ e # d
      /\ \A e \in lost : e \in Datagram
      /\ \A f \in File : <<f, End>> \in Datagram /\ <<f, End>> # d
  <2>1. \A e \in Datagram : Passed(e) => e # d
    BY <1>3, Unordered
  <2>2. \A e \in output_buf : e \in Datagram
    BY DEF IInv, TypeOK, Datagram
  <2>3. \A f \in File : disk[f] # NoFile => \A e \in disk[f] : e \in Datagram
    BY DEF IInv, TypeOK, Datagram
  <2>4. \A e \in lost : e \in Datagram
    BY DEF IInv, TypeOK
  <2>5. \A f \in File : <<f, End>> \in Datagram /\ <<f, End>> # d
    BY EndIs
  <2> QED
    BY <2>1, <2>2, <2>3, <2>4, <2>5 DEF IInv, Held
<1>7. lost' \subseteq lost \cup {d} /\ output_buf' \subseteq output_buf \cup {d}
  BY <1>2 DEF Store
<1>8. InOrder'
  <2>1. \A e \in Datagram : Queued(e)' => Sent(e)' /\ e \notin lost'
    BY <1>3, <1>7, Unordered DEF IInv, InOrder
  <2>2. \A e \in lost' : Sent(e)'
    BY <1>3, <1>6, <1>7 DEF IInv, InOrder
  <2> QED
    BY <1>1, <2>1, <2>2, ReceiveFacts DEF InOrder
<1>9. Held'
  <2>1. \A e \in output_buf' : Passed(e)' /\ e \notin lost'
    <3>1. \A e \in output_buf : Passed(e)' /\ e \notin lost'
      BY <1>3, <1>6, <1>7 DEF IInv, Held
    <3>2. d \in output_buf' => d \notin lost'
      BY <1>2, <1>3, <1>6 DEF Store
    <3> QED
      BY <1>3, <1>7, <3>1, <3>2
  <2>2. \A f \in File : disk'[f] # NoFile =>
           /\ Passed(<<f, End>>)' /\ <<f, End>> \notin lost'
           /\ \A e \in disk'[f] : Passed(e)'
    BY <1>1, <1>3, <1>6, <1>7 DEF IInv, Held
  <2> QED
    BY <2>1, <2>2 DEF Held
<1>10. EndAhead'
  <2> SUFFICES ASSUME NEW e \in Fragment, e \in output_buf' \/ Queued(e)'
               PROVE  <<e[1], End>> \in lost' \/ e[1] = i' \/ Queued(<<e[1], End>>)'
    BY DEF EndAhead
  <2>1. e \in output_buf \/ Queued(e)
    BY <1>3, <1>7
  <2>2. <<e[1], End>> \in lost \/ e[1] = i \/ Queued(<<e[1], End>>)
    BY <2>1 DEF IInv, EndAhead
  <2>3. <<e[1], End>> # d
    BY <1>6, FragmentIs
  <2>4. lost \subseteq lost'
    BY <1>2
  <2> QED
    BY <1>1, <1>3, <2>2, <2>3, <2>4
<1>11. Kept'
  <2> SUFFICES ASSUME NEW e \in Fragment, Sent(e)', ~Queued(e)', e \notin lost',
                      <<e[1], End>> \notin lost'
               PROVE  e \in IF disk'[e[1]] = NoFile THEN output_buf' ELSE disk'[e[1]]
    BY DEF Kept
  <2>1. /\ e \in Datagram /\ e[1] \in File /\ e[1] \in Nat /\ d[1] \in Nat
        /\ e = <<e[1], e[2]>> /\ d = <<d[1], d[2]>>
    BY <1>3, FragmentIs, DatagramIs DEF Datagram
  <2>2. <<e[1], End>> \notin lost /\ e \notin lost /\ Sent(e)
    BY <1>2, <1>3, <2>1
  <2>3. CASE e = d
    <3>1. Store(d) /\ d \in output_buf'
      BY <1>2, <2>3 DEF Store
    <3>2. ASSUME disk[d[1]] # NoFile
          PROVE  FALSE
      <4>1. PICK x \in Datagram : x = <<d[1], End>>
        BY <2>1, <2>3, EndIs
      <4>2. Passed(x)
        BY <2>1, <2>3, <3>2, <4>1 DEF IInv, Held
      <4>3. Before(x, d) /\ Before(d, x)
        BY <1>3, <4>1, <4>2, BeforeEnd
      <4> QED
        BY <1>3, <4>3, BeforeIsOrder
    <3> QED
      BY <1>1, <2>3, <3>1, <3>2
  <2>4. CASE e # d
    <3>1. ~Queued(e)
      BY <1>3, <2>4
    <3>2. e \in IF disk[e[1]] = NoFile THEN output_buf ELSE disk[e[1]]
      BY <2>2, <3>1 DEF IInv, Kept
    <3>3. ASSUME e \in output_buf
          PROVE  e \in output_buf'
      <4>1. Passed(e) /\ Before(e, d)
        BY <1>3, <2>1, <3>3 DEF IInv, Held
      <4>2. ~(e[1] < d[1])
        BY <1>1, <2>2, <3>3, LeftBehind
      <4>3. e[1] = d[1]
        BY <4>1, <4>2 DEF Before
      <4>4. e[2] # d[2]
        BY <2>1, <2>4, <4>3
      <4> QED
        BY <1>2, <3>3, <4>4 DEF Store
    <3> QED
      BY <1>1, <3>2, <3>3
  <2> QED
    BY <2>3, <2>4
<1>12. Pure'
  <2> SUFFICES ASSUME NEW f \in File, disk'[f] # NoFile, EndsThrough(f)',
                      NEW e \in disk'[f]
               PROVE  e[1] = f /\ e \notin lost'
    BY DEF Pure
  <2>1. EndsThrough(f)
    BY <1>2 DEF EndsThrough
  <2>2. disk[f] # NoFile /\ e \in disk[f] /\ e # d
    BY <1>1, <1>6
  <2> QED
    BY <1>7, <2>1, <2>2 DEF IInv, Pure
<1>13. WrittenOnce'
  <2>1. \A x, y \in output_buf' : x[2] = y[2] => x = y
    BY <1>2 DEF IInv, WrittenOnce, Store
  <2>2. \A f \in File : disk'[f] # NoFile => disk'[f] \cap output_buf' = {}
    BY <1>1, <1>6, <1>7 DEF IInv, WrittenOnce
  <2> QED
    BY <1>1, <2>1, <2>2 DEF IInv, WrittenOnce
<1> QED
  BY <1>4, <1>5, <1>8, <1>9, <1>10, <1>11, <1>12, <1>13 DEF IInv

LEMMA RecvEndKeeps ==
  ASSUME IInv, NEW f \in File, RecvEnd(f)
  PROVE  IInv'
<1>0. PICK d : d = <<f, End>>
  OBVIOUS
<1>1. /\ Receive(d) /\ UNCHANGED <<i, next, lost>> /\ output_buf' = {}
      /\ disk' = [disk EXCEPT ![f] = output_buf]
  BY <1>0 DEF RecvEnd
<1>2. /\ d \in Datagram /\ d \notin Fragment /\ d[1] = f /\ f \in Nat
      /\ output_buf \subseteq Fragment /\ output_buf # NoFile
      /\ disk \in [File -> {NoFile} \cup SUBSET Fragment]
  BY <1>0, EndIs, FilesAssumption DEF IInv, TypeOK, File
<1>3. /\ Sent(d) /\ d \notin lost
      /\ \A e : Queued(e) <=> e = d \/ Queued(e)'
      /\ \A e \in Datagram : (Sent(e)' <=> Sent(e)) /\ (Queued(e)' => Before(d, e))
      /\ \A e \in Datagram : Passed(e) => Passed(e)' /\ Before(e, d)
      /\ Passed(d)'
  BY <1>1, ReceiveFacts
<1>4. \A g \in File : disk'[g] = IF g = f THEN output_buf ELSE disk[g]
  BY <1>1, <1>2
<1>5. /\ \A e \in output_buf : e \in Datagram
      /\ \A g \in File : disk[g] # NoFile => \A e \in disk[g] : e \in Datagram
      /\ \A g \in File : <<g, End>> \in Datagram
  BY <1>2, EndIs DEF Datagram
<1>6. disk[f] = NoFile
  <2>1. ASSUME disk[f] # NoFile
        PROVE  FALSE
    <3>1. Passed(d)
      BY <1>0, <2>1 DEF IInv, Held
    <3> QED
      BY <1>2, <1>3, <3>1, Unordered
  <2> QED
    BY <2>1
(* Of the fragments in the buffer, the others' ENDOFFILEs are lost.        *)
<1>7. ASSUME NEW e \in output_buf, <<e[1], End>> \notin lost
      PROVE  e[1] = f
  <2>1. e[1] \in Nat /\ Before(e, d)
    BY <1>3, <1>5, DatagramIs DEF IInv, Held
  <2>2. ~(e[1] < f)
    BY <1>1, <1>2, <1>7, LeftBehind
  <2> QED
    BY <1>2, <2>1, <2>2 DEF Before
<1>8. TypeOK'
  BY <1>1, <1>2, ReceiveFacts DEF IInv, TypeOK
<1>9. Position'
  BY <1>1 DEF IInv, Position
<1>10. InOrder'
  <2>1. \A e \in Datagram : Queued(e)' => Sent(e)' /\ e \notin lost'
    BY <1>1, <1>3 DEF IInv, InOrder
  <2>2. \A e \in lost' : Sent(e)'
    BY <1>1, <1>3 DEF IInv, TypeOK, InOrder
  <2> QED
    BY <1>1, <2>1, <2>2, ReceiveFacts DEF InOrder
<1>11. Held'
  <2> SUFFICES ASSUME NEW g \in File, disk'[g] # NoFile
               PROVE  /\ Passed(<<g, End>>)' /\ <<g, End>> \notin lost'
                      /\ \A e \in disk'[g] : Passed(e)'
    BY <1>1 DEF Held
  <2>1. CASE g = f
    BY <1>0, <1>1, <1>3, <1>4, <1>5, <2>1 DEF IInv, Held
  <2>2. CASE g # f
    BY <1>1, <1>3, <1>4, <1>5, <2>2 DEF IInv, Held
  <2> QED
    BY <2>1, <2>2
<1>12. EndAhead'
  <2> SUFFICES ASSUME NEW e \in Fragment, Queued(e)'
               PROVE  <<e[1], End>> \in lost \/ e[1] = i \/ Queued(<<e[1], End>>)'
    BY <1>1 DEF EndAhead
  <2>1. e \in Datagram /\ Queued(e) /\ Before(d, e)
    BY <1>3 DEF Datagram
  <2>2. <<e[1], End>> # d
    BY <1>2, <2>1, BeforeEnd, BeforeIsOrder
  <2> QED
    BY <1>3, <2>1, <2>2 DEF IInv, EndAhead
<1>13. Kept'
  <2> SUFFICES ASSUME NEW e \in Fragment, Sent(e)', ~Queued(e)', e \notin lost',
                      <<e[1], End>> \notin lost'
               PROVE  e \in IF disk'[e[1]] = NoFile THEN output_buf' ELSE disk'[e[1]]
    BY DEF Kept
  <2>1. e \in Datagram /\ e[1] \in File
    BY FragmentIs DEF Datagram
  <2>2. e \in IF disk[e[1]] = NoFile THEN output_buf ELSE disk[e[1]]
    BY <1>1, <1>2, <1>3, <2>1 DEF IInv, Kept
  <2>3. CASE disk[e[1]] = NoFile
    BY <1>1, <1>2, <1>4, <1>7, <2>1, <2>2, <2>3
  <2>4. CASE disk[e[1]] # NoFile
    BY <1>4, <1>6, <2>1, <2>2, <2>4
  <2> QED
    BY <2>3, <2>4
<1>14. Pure'
  <2> SUFFICES ASSUME NEW g \in File, disk'[g] # NoFile, EndsThrough(g)',
                      NEW e \in disk'[g]
               PROVE  e[1] = g /\ e \notin lost
    BY <1>1 DEF Pure
  <2>1. EndsThrough(g)
    BY <1>1 DEF EndsThrough
  <2>2. CASE g # f
    BY <1>4, <2>1, <2>2 DEF IInv, Pure
  <2>3. CASE g = f
    <3>1. e \in output_buf /\ e \notin lost /\ e \in Datagram
      BY <1>4, <1>5, <2>3 DEF IInv, Held
    <3>2. e[1] \in File /\ e[1] \in Nat /\ e[1] >= 1 /\ Before(e, d)
      BY <1>3, <3>1, DatagramIs DEF IInv, Held, File
    <3>3. CASE e[1] = f
      BY <2>3, <3>1, <3>3
    <3>4. CASE e[1] < f
      <4>1. e[1] \in 1 .. f - 1
        BY <1>2, <3>2, <3>4
      <4> QED
        BY <1>7, <2>1, <2>3, <3>1, <4>1 DEF EndsThrough
    <3> QED
      BY <1>2, <3>2, <3>3, <3>4 DEF Before
  <2> QED
    BY <2>2, <2>3
<1>15. WrittenOnce'
  <2> SUFFICES ASSUME NEW g \in File, disk'[g] # NoFile,
                      NEW h \in File \ {g}, disk'[h] # NoFile
               PROVE  disk'[g] \cap disk'[h] = {}
    BY <1>1 DEF WrittenOnce
  <2> QED
    BY <1>4 DEF IInv, WrittenOnce
<1> QED
  BY <1>8, <1>9, <1>10, <1>11, <1>12, <1>13, <1>14, <1>15 DEF IInv

-----------------------------------------------------------------------------
LEMMA InitHolds == Init => IInv
<1> SUFFICES ASSUME Init
             PROVE  IInv
  OBVIOUS
<1>1. NFiles \in Nat /\ NFiles >= 1
  BY FilesAssumption
<1>2. queue = <<>> /\ Len(queue) = 0 /\ queue \in Seq(Datagram)
  BY DEF Init
<1>3. \A f \in File : Len(Frags[f]) \in Nat /\ f \in Nat /\ f >= 1
  BY FragsLength DEF File
<1>4. TypeOK
  BY <1>1, <1>2, <1>3, ParametersAssumption DEF Init, TypeOK
<1>5. Position
  BY <1>3, FilesAssumption DEF Init, Position
<1>6. /\ \A e : ~Queued(e)
      /\ output_buf = {} /\ lost = {} /\ \A f \in File : disk[f] = NoFile
  BY <1>2 DEF Init, Queued
<1>7. \A e \in Fragment : ~Sent(e)
  BY <1>3, FragmentIs DEF Init, Sent
<1>8. InOrder
  BY <1>2, <1>6 DEF InOrder
<1>9. Held /\ EndAhead /\ Kept /\ Pure /\ WrittenOnce
  BY <1>6, <1>7 DEF Held, EndAhead, Kept, Pure, WrittenOnce
<1> QED
  BY <1>4, <1>5, <1>8, <1>9 DEF IInv

LEMMA StepKeeps ==
  ASSUME IInv, [Next]_vars
  PROVE  IInv'
<1>1. CASE SkipFile \/ TearFile
  BY <1>1, SkipFileKeeps
<1>2. CASE SendFragment
  BY <1>2, SendFragmentKeeps
<1>3. CASE SendEnd
  BY <1>3, SendEndKeeps
<1>4. ASSUME NEW d \in Fragment, RecvData(d)
      PROVE  IInv'
  BY <1>4, RecvDataKeeps
<1>5. ASSUME NEW f \in File, RecvEnd(f)
      PROVE  IInv'
  BY <1>5, RecvEndKeeps
<1>6. CASE UNCHANGED vars
  <2>1. UNCHANGED <<queue, i, next, output_buf, longest, disk, lost>>
    BY <1>6 DEF vars
  <2>2. TypeOK' /\ Position' /\ Pure' /\ WrittenOnce'
    BY <2>1 DEF IInv, TypeOK, Position, Pure, EndsThrough, WrittenOnce
  <2>3. InOrder'
    BY <2>1 DEF IInv, InOrder, Sent, Queued, Before, Rank
  <2>4. Held'
    BY <2>1 DEF IInv, Held, Passed, Sent, Before, Rank
  <2>5. EndAhead' /\ Kept'
    BY <2>1 DEF IInv, EndAhead, Kept, Sent, Queued
  <2> QED
    BY <2>2, <2>3, <2>4, <2>5 DEF IInv
<1> QED
  BY <1>1, <1>2, <1>3, <1>4, <1>5, <1>6 DEF Next, Client, Server

LEMMA Invariance == Spec => []IInv
<1>1. IInv /\ [Next]_vars => IInv'
  BY StepKeeps
<1> QED
  BY InitHolds, <1>1, PTL DEF Spec

(* A file that is on disk was sent whole, and all of that came before what *)
(* is still in the queue.                                                  *)
LEMMA WholeFromInvariant ==
  ASSUME IInv
  PROVE  WrittenWhole
<1> SUFFICES ASSUME NEW f \in File, disk[f] # NoFile, EndsThrough(f)
             PROVE  disk[f] = Content[f] \ lost
  BY DEF WrittenWhole, EndsThrough
<1>1. PICK x \in Datagram : x = <<f, End>> /\ x[1] = f /\ Passed(x) /\ x \notin lost
  BY EndIs DEF IInv, Held
<1>2. Content[f] = {d \in Fragment : d[1] = f}
  BY DEF Content
<1>3. disk[f] \subseteq Content[f] \ lost
  BY <1>2 DEF IInv, TypeOK, Pure
<1>4. ASSUME NEW d \in Content[f], d \notin lost
      PROVE  d \in disk[f]
  <2>1. d \in Fragment /\ d \in Datagram /\ d[1] = f /\ Before(d, x)
    BY <1>1, <1>2, <1>4, BeforeEnd DEF Datagram
  <2>2. Sent(d)
    <3>1. f \in Sendable /\ f < i
      BY <1>1 DEF Passed, Sent
    <3> QED
      BY <2>1, <3>1 DEF Sent
  <2>3. ~Queued(d)
    <3>1. ASSUME NEW k \in 1 .. Len(queue), queue[k] = d
          PROVE  FALSE
      <4>1. Before(x, d)
        BY <1>1, <3>1 DEF Passed
      <4> QED
        BY <1>1, <2>1, <4>1, BeforeIsOrder
    <3> QED
      BY <3>1 DEF Queued
  <2> QED
    BY <1>1, <1>4, <2>1, <2>2, <2>3 DEF IInv, Kept
<1> QED
  BY <1>3, <1>4

(* Every variable keeps its type, for any files, fragments and buffer.     *)
THEOREM TypeCorrect == Spec => []TypeOK
<1>1. IInv => TypeOK
  BY DEF IInv
<1> QED
  BY Invariance, <1>1, PTL

(* However many datagrams the socket drops: the server keeps one fragment  *)
(* of a number, and none is written into two files or left for a later     *)
(* one after it was written.  (lab10srv.cpp:141, 162)                      *)
THEOREM NothingTwice == Spec => []WrittenOnce
<1>1. IInv => WrittenOnce
  BY DEF IInv
<1> QED
  BY Invariance, <1>1, PTL

(* A file before which every ENDOFFILE came through has exactly those of   *)
(* its own fragments that were not dropped.  (lab10srv.cpp:116, 133)       *)
THEOREM FilesAreWhole == Spec => []WrittenWhole
<1>1. IInv => WrittenWhole
  BY WholeFromInvariant
<1> QED
  BY Invariance, <1>1, PTL

-----------------------------------------------------------------------------
(* What AllArrive needs beside fairness.  An ENDOFFILE that was sent is    *)
(* still on its way, or it was dropped, or the server has written a file.  *)
Delivered ==
  \A f \in File :
    Sent(<<f, End>>) /\ ~Queued(<<f, End>>) /\ <<f, End>> \notin lost =>
      disk[f] # NoFile

LEMMA DeliveredStep ==
  ASSUME IInv, Delivered, [Next]_vars
  PROVE  Delivered'
<1> SUFFICES ASSUME NEW f \in File, NEW e, e = <<f, End>>,
                    Sent(e)', ~Queued(e)', e \notin lost'
             PROVE  disk'[f] # NoFile
  BY DEF Delivered
<1>1. /\ e \in Datagram /\ e \notin Fragment /\ e[1] = f /\ e[2] = End
      /\ f \in Nat /\ i \in Nat /\ f \in Sendable
  BY EndIs DEF File, Sent, IInv, TypeOK
<1>2. f < i'
  BY <1>1 DEF Sent
<1>3. ASSUME f < i, ~Queued(e), e \notin lost
      PROVE  disk[f] # NoFile
  <2>1. Sent(e)
    BY <1>1, <1>3 DEF Sent
  <2> QED
    BY <1>3, <2>1 DEF Delivered
<1>4. CASE SkipFile
  <2>1. i' = i + 1 /\ i \notin Present /\ UNCHANGED <<queue, disk, lost>>
    BY <1>4 DEF SkipFile
  <2>2. f # i
    BY <1>1, <2>1 DEF Sendable
  <2> QED
    BY <1>1, <1>2, <1>3, <2>1, <2>2 DEF Queued
<1>5. CASE TearFile
  <2>1. i \in Torn /\ UNCHANGED <<queue, disk, lost>>
    BY <1>5 DEF TearFile
  <2>2. f < i
    BY <1>1, <2>1 DEF Sendable
  <2> QED
    BY <1>3, <2>1, <2>2 DEF Queued
<1>6. ASSUME NEW d \in Datagram, SendTo(d)
      PROVE  /\ lost \subseteq lost' /\ ~Queued(e)
             /\ e # d
  <2>1. CASE queue' = Append(queue, d) /\ UNCHANGED lost
    <3>1. queue \in Seq(Datagram)
      BY DEF IInv, TypeOK
    <3>2. \A x : Queued(x)' <=> Queued(x) \/ x = d
      BY <2>1, <3>1, AppendFacts
    <3> QED
      BY <2>1, <3>2
  <2>2. CASE lost' = lost \cup {d} /\ UNCHANGED queue
    BY <2>2 DEF Queued
  <2> QED
    BY <1>6, <2>1, <2>2 DEF SendTo
<1>7. CASE SendFragment
  <2>1. i' = i /\ disk' = disk /\ SendTo(<<i, next>>)
    BY <1>7 DEF SendFragment
  <2>2. <<i, next>> \in Datagram
    <3>1. i \in Present \ Torn /\ next < Len(Frags[i]) /\ next \in Nat
      BY <1>7 DEF SendFragment, IInv, TypeOK
    <3>2. i \in File /\ Len(Frags[i]) \in Nat
      BY <3>1, AtSendable, FragsLength
    <3> QED
      BY <3>1, <3>2, FragmentIs DEF Datagram
  <2> QED
    BY <1>2, <1>3, <1>6, <2>1, <2>2
<1>8. CASE SendEnd
  <2>1. i' = i + 1 /\ disk' = disk /\ SendTo(<<i, End>>) /\ i \in File
    BY <1>8, AtSendable DEF SendEnd
  <2>2. e # <<i, End>> /\ ~Queued(e) /\ e \notin lost
    BY <1>6, <2>1, EndIs
  <2> QED
    BY <1>1, <1>2, <1>3, <2>1, <2>2
<1>9. ASSUME NEW d \in Fragment, RecvData(d)
      PROVE  disk'[f] # NoFile
  <2>1. Receive(d) /\ UNCHANGED <<i, next, disk>> /\ lost \subseteq lost'
    BY <1>9 DEF RecvData
  <2>2. ~Queued(e)
    BY <1>1, <2>1, ReceiveFacts
  <2> QED
    BY <1>2, <1>3, <2>1, <2>2
<1>10. ASSUME NEW g \in File, RecvEnd(g)
       PROVE  disk'[f] # NoFile
  <2>1. /\ Receive(<<g, End>>) /\ UNCHANGED <<i, next, lost>>
        /\ disk' = [disk EXCEPT ![g] = output_buf]
        /\ disk \in [File -> {NoFile} \cup SUBSET Fragment]
        /\ output_buf # NoFile
    BY <1>10, FilesAssumption DEF RecvEnd, IInv, TypeOK
  <2>2. CASE g # f
    <3>1. ~Queued(e)
      <4>1. \A x : Queued(x) <=> x = <<g, End>> \/ Queued(x)'
        BY <2>1, ReceiveFacts
      <4> QED
        BY <2>2, <4>1
    <3> QED
      BY <1>2, <1>3, <2>1, <2>2, <3>1
  <2> QED
    BY <2>1, <2>2
<1>11. CASE UNCHANGED vars
  BY <1>2, <1>3, <1>11 DEF vars, Queued
<1> QED
  BY <1>4, <1>5, <1>7, <1>8, <1>9, <1>10, <1>11 DEF Next, Client, Server

Arrived ==
  \A f \in Sendable :
    f < i /\ ~Queued(<<f, End>>) /\ (\A g \in 1 .. f : <<g, End>> \notin lost) =>
      disk[f] = Content[f] \ lost

LEMMA ArrivedFromInvariant ==
  ASSUME IInv, Delivered
  PROVE  Arrived
<1> SUFFICES ASSUME NEW f \in Sendable, f < i, ~Queued(<<f, End>>),
                    \A g \in 1 .. f : <<g, End>> \notin lost
             PROVE  disk[f] = Content[f] \ lost
  BY DEF Arrived
<1>1. f \in File /\ f \in Nat /\ f >= 1
  BY FilesAssumption DEF Sendable, File
<1>2. <<f, End>> \notin lost
  BY <1>1
<1>3. Sent(<<f, End>>)
  BY DEF Sent
<1>4. disk[f] # NoFile
  BY <1>1, <1>2, <1>3 DEF Delivered
<1>5. \A g \in 1 .. f - 1 : <<g, End>> \notin lost
  BY <1>1
<1> QED
  BY <1>1, <1>4, <1>5, WholeFromInvariant DEF WrittenWhole

(* A file that the client has ended is on the server's disk with all of    *)
(* its fragments but the dropped ones, as soon as its ENDOFFILE has left   *)
(* the queue, if neither that nor an earlier one was dropped: no other     *)
(* file, empty, missing or torn, keeps it from there.                      *)
(* (lab10cli.cpp:216, lab10srv.cpp:128)                                    *)
THEOREM EveryFileArrives == Spec => []Arrived
<1>1. Init => Delivered
  BY FilesAssumption DEF Init, Delivered, Sent, File
<1>2. IInv /\ Delivered /\ [Next]_vars => Delivered'
  BY DeliveredStep
<1>3. IInv /\ Delivered => Arrived
  BY ArrivedFromInvariant
<1> QED
  BY Invariance, <1>1, <1>2, <1>3, PTL DEF Spec
=============================================================================
