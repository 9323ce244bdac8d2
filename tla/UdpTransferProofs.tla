------------------------- MODULE UdpTransferProofs -------------------------
(***************************************************************************)
(* Theorems about UdpTransfer for any number of files, any fragmentation   *)
(* and any number of copies in flight: a file once on the server's disk    *)
(* stays there unchanged, whatever the network does; if no answer outlives *)
(* the client's timeout, it is whole, and the transfer implements          *)
(* FileTransfer.  TimelyInv is what makes the second inductive: nothing of *)
(* an earlier file is in flight while a file is being sent.                *)
(***************************************************************************)
EXTENDS UdpTransfer, FiniteSetTheorems, TLAPS

IInv == TypeOK /\ ClosedForGood /\ TimelyInv

-----------------------------------------------------------------------------
(* A sequence number is below the number of fragments of its file.         *)
LEMMA SeqsFacts ==
  ASSUME NEW f \in File
  PROVE  /\ Frags[f] \in Nat
         /\ Seqs(f) \subseteq AllSeqs
         /\ \A s \in Seqs(f) : s \in Nat /\ s < Frags[f]
         /\ IsFiniteSet(Seqs(f)) /\ Cardinality(Seqs(f)) = Frags[f]
<1>1. Frags[f] \in Nat
  BY FilesAssumption
<1>2. Seqs(f) \subseteq AllSeqs
  BY DEF AllSeqs
<1>3. \A s \in Seqs(f) : s \in Nat /\ s < Frags[f]
  BY <1>1 DEF Seqs
<1>4. IsFiniteSet(Seqs(f)) /\ Cardinality(Seqs(f)) = Frags[f]
  <2>1. PICK n \in Nat : n = Frags[f]
    BY <1>1
  <2>2. /\ IsFiniteSet(0 .. (n - 1))
        /\ Cardinality(0 .. (n - 1)) = IF 0 > n - 1 THEN 0 ELSE n - 1 - 0 + 1
    BY 0 \in Int, n - 1 \in Int, FS_Interval
  <2>3. Cardinality(0 .. (n - 1)) = n
    BY <2>2
  <2> QED
    BY <2>1, <2>2, <2>3 DEF Seqs
<1> QED
  BY <1>1, <1>2, <1>3, <1>4

LEMMA AllSeqsFacts == AllSeqs \subseteq Nat
BY FilesAssumption DEF AllSeqs, Seqs

(* Sending and taking keep counters natural; only the message's own counter *)
(* changes, and a positive one was positive or has just been sent.          *)
LEMMA PutFacts ==
  ASSUME NEW D, NEW q \in [D -> Nat], NEW m \in D, NEW n \in Nat
  PROVE  /\ Put(q, m, n) \in [D -> Nat]
         /\ \A d \in D : d # m => Put(q, m, n)[d] = q[d]
         /\ n = 0 => \A d \in D : Put(q, m, n)[d] > 0 => q[d] > 0
BY ParametersAssumption DEF Put

LEMMA TakeFacts ==
  ASSUME NEW D, NEW q \in [D -> Nat], NEW m \in D, q[m] > 0
  PROVE  /\ Take(q, m) \in [D -> Nat]
         /\ \A d \in D : Take(q, m)[d] > 0 => q[d] > 0
BY DEF Take

(* The entry of fin_file that ACKEF of file f marks.                       *)
LEMMA FinFacts ==
  ASSUME NEW f \in File
  PROVE  (Start + f - 1) % FinMod \in Nat
<1>1. Start + f - 1 \in Int /\ FinMod \in Nat /\ FinMod > 0
  BY FilesAssumption, ParametersAssumption DEF File
<1> QED
  BY <1>1

LEMMA GetAckEfType ==
  ASSUME TypeOK, GetAckEf
  PROVE  ackefs' \in [File -> Nat] /\ fin' \subseteq Nat /\ UNCHANGED <<data, ends, acks>>
<1> PICK f \in File : /\ ackefs[f] > 0 /\ ackefs' = Take(ackefs, f)
                      /\ fin' = fin \cup {(Start + f - 1) % FinMod}
                      /\ UNCHANGED <<data, ends, acks>>
  BY DEF GetAckEf
<1>1. ackefs' \in [File -> Nat]
  BY DEF TypeOK, Take
<1>2. fin' \subseteq Nat
  BY FinFacts DEF TypeOK
<1> QED
  BY <1>1, <1>2

LEMMA GetAckType ==
  ASSUME TypeOK, NEW s \in AllSeqs, GetAck(s)
  PROVE  acks' \in [AllSeqs -> Nat] /\ UNCHANGED <<data, ends, ackefs>>
BY DEF TypeOK, GetAck, Take

LEMMA NextFileType ==
  ASSUME TypeOK, pc # "done", NextFile
  PROVE  /\ i' \in 1 .. (NFiles + 1) /\ (pc' # "done" => i' \in File)
         /\ pc' \in {"drain", "done"}
BY FilesAssumption DEF TypeOK, NextFile, File

(* What a datagram does to the server's state.                             *)
LEMMA ServerType ==
  ASSUME TypeOK, NEW f \in File, RecvEnd(f) \/ \E s \in AllSeqs : RecvData(f, s)
  PROVE  /\ output_buf' \in [File -> SUBSET AllSeqs] /\ written' \subseteq File
         /\ disk' \in [File -> {NoFile} \cup SUBSET AllSeqs]
<1> USE DEF TypeOK
<1>1. CASE UNCHANGED server
  BY <1>1 DEF server
<1>2. CASE /\ disk' = [disk EXCEPT ![f] = output_buf[f]]
           /\ written' = written \cup {f}
           /\ output_buf' = [output_buf EXCEPT ![f] = {}]
  <2>1. output_buf[f] \in SUBSET AllSeqs /\ {} \in SUBSET AllSeqs
    OBVIOUS
  <2>2. disk' \in [File -> {NoFile} \cup SUBSET AllSeqs]
    BY <1>2, <2>1
  <2>3. output_buf' \in [File -> SUBSET AllSeqs]
    BY <1>2, <2>1
  <2> QED
    BY <1>2, <2>2, <2>3
<1>3. CASE \E s \in AllSeqs : /\ output_buf' = [output_buf EXCEPT ![f] = @ \cup {s}]
                              /\ UNCHANGED <<written, disk>>
  <2> PICK s \in AllSeqs : output_buf' = [output_buf EXCEPT ![f] = @ \cup {s}]
    BY <1>3
  <2>1. output_buf[f] \cup {s} \in SUBSET AllSeqs
    OBVIOUS
  <2>2. output_buf' \in [File -> SUBSET AllSeqs]
    BY <2>1
  <2> QED
    BY <1>3, <2>2
<1> QED
  BY <1>1, <1>2, <1>3 DEF RecvEnd, RecvData

(* How many ENDOFFILE are sent is a natural number.                        *)
LEMMA EndsFacts == Cardinality((0 .. (NFiles - 1)) \ fin) \in Nat
<1>1. IsFiniteSet(0 .. (NFiles - 1))
  BY FilesAssumption, FS_Interval
<1> QED
  BY <1>1, FS_Difference, FS_CardinalityType

-----------------------------------------------------------------------------
(* Every variable keeps its type.                                          *)
THEOREM TypeCorrect == Spec => []TypeOK
<1>1. Init => TypeOK
  BY FilesAssumption DEF Init, TypeOK, File
<1>2. TypeOK /\ [Next]_vars => TypeOK'
  <2> SUFFICES ASSUME TypeOK, [Next]_vars
               PROVE  TypeOK'
    OBVIOUS
  <2> USE DEF TypeOK
  <2>1. CASE DrainReceive
    <3>1. CASE GetAckEf
      BY <2>1, <3>1, GetAckEfType DEF DrainReceive, server
    <3>2. ASSUME NEW s \in AllSeqs, GetAck(s), UNCHANGED fin
          PROVE  TypeOK'
      BY <2>1, <3>2, GetAckType DEF DrainReceive, server
    <3> QED
      BY <2>1, <3>1, <3>2 DEF DrainReceive
  <2>2. CASE SkipFile
    BY <2>2, NextFileType DEF SkipFile, net, server
  <2>3. CASE OpenFile
    BY <2>3 DEF OpenFile, net, server
  <2>4. CASE SendFragment
    <3> PICK s \in Unsent : data' = Put(data, <<i, s>>, 1) /\ next' = s + 1
      BY <2>4 DEF SendFragment
    <3>1. i \in File /\ s \in Seqs(i)
      BY <2>4 DEF SendFragment, Unsent
    <3>2. s \in Nat /\ <<i, s>> \in Datagram
      BY <3>1, SeqsFacts DEF Datagram
    <3> QED
      <4>1. data' \in [Datagram -> Nat]
        BY <3>2, PutFacts
      <4> QED
        BY <2>4, <4>1, <3>2 DEF SendFragment, server
  <2>5. CASE PassEnd
    BY <2>5 DEF PassEnd, net, server
  <2>6. CASE ReceiveAckEf
    BY <2>6, GetAckEfType DEF ReceiveAckEf, Resume, server
  <2>7. ASSUME NEW s \in AllSeqs, ReceiveAck(s)
        PROVE  TypeOK'
    BY <2>7, GetAckType DEF ReceiveAck, Acknowledge, Resume, server
  <2>8. CASE AwaitTimeout
    BY <2>8 DEF AwaitTimeout, net, server
  <2>9. CASE FlushEnd
    BY <2>9 DEF FlushEnd, net, server
  <2>10. CASE SendEnd
    <3>1. i \in File
      BY <2>10 DEF SendEnd
    <3>2. ends' \in [File -> Nat]
      BY <2>10, <3>1, PutFacts, EndsFacts DEF SendEnd
    <3> QED
      BY <2>10, <3>2, NextFileType DEF SendEnd, server
  <2>11. ASSUME NEW f \in File, RecvEnd(f)
         PROVE  TypeOK'
    <3>1. ends' \in [File -> Nat]
      BY <2>11, TakeFacts DEF RecvEnd
    <3>2. ackefs' \in [File -> Nat]
      <4>1. /\ Put(ackefs, f, 1) \in [File -> Nat]
            /\ Put(ackefs, f, 3) \in [File -> Nat]
        BY PutFacts
      <4> QED
        BY <2>11, <4>1 DEF RecvEnd
    <3>3. /\ output_buf' \in [File -> SUBSET AllSeqs] /\ written' \subseteq File
          /\ disk' \in [File -> {NoFile} \cup SUBSET AllSeqs]
      BY <2>11, ServerType
    <3> QED
      BY <2>11, <3>1, <3>2, <3>3 DEF RecvEnd, client
  <2>12. ASSUME NEW f \in File, NEW s \in AllSeqs, RecvData(f, s)
         PROVE  TypeOK'
    <3> DEFINE d == <<f, s>>
    <3>1. d \in Datagram
      BY DEF Datagram
    <3>2. data' \in [Datagram -> Nat]
      <4> HIDE DEF d
      <4> QED
        BY <2>12, <3>1, TakeFacts DEF RecvData, d
    <3>3. ackefs' \in [File -> Nat] /\ acks' \in [AllSeqs -> Nat]
      <4>1. /\ Put(ackefs, f, 5) \in [File -> Nat]
            /\ Put(acks, s, 5) \in [AllSeqs -> Nat]
        BY PutFacts
      <4> QED
        BY <2>12, <4>1 DEF RecvData
    <3>4. /\ output_buf' \in [File -> SUBSET AllSeqs] /\ written' \subseteq File
          /\ disk' \in [File -> {NoFile} \cup SUBSET AllSeqs]
      BY <2>12, ServerType
    <3> QED
      BY <2>12, <3>2, <3>3, <3>4 DEF RecvData, client
  <2>13. CASE Lose
    BY <2>13, TakeFacts DEF Lose, client, server
  <2>14. CASE UNCHANGED vars
    BY <2>14 DEF vars, net, client, server
  <2>15. CASE TearFile
    BY <2>15 DEF TearFile, net, server
  <2>16. CASE Restart
    BY <2>16, FilesAssumption DEF Restart, net, server, File
  <2> QED
    BY <2>1, <2>2, <2>3, <2>4, <2>5, <2>6, <2>7, <2>8, <2>9, <2>10, <2>11, <2>12,
       <2>13, <2>14, <2>15, <2>16 DEF Next, Client, Server
<1> QED
  BY <1>1, <1>2, PTL DEF Spec

(* Steps of the client and of the network do not touch the server.         *)
LEMMA OthersKeepServer ==
  ASSUME Client \/ Lose \/ Restart \/ UNCHANGED vars
  PROVE  UNCHANGED server
BY DEF Client, Lose, Restart, vars, DrainReceive, SkipFile, TearFile, OpenFile, SendFragment, PassEnd,
       ReceiveAckEf, ReceiveAck, AwaitTimeout, FlushEnd, SendEnd

(* One step keeps written, disk and the buffers in agreement.              *)
LEMMA ClosedStep ==
  ASSUME TypeOK, ClosedForGood, [Next]_vars
  PROVE  ClosedForGood'
<1> USE DEF TypeOK, ClosedForGood
<1>1. CASE Client \/ Lose \/ Restart \/ UNCHANGED vars
  BY <1>1, OthersKeepServer DEF server
<1>2. ASSUME NEW f \in File, RecvEnd(f)
      PROVE  ClosedForGood'
  <2>1. CASE output_buf[f] = {}
    BY <1>2, <2>1 DEF RecvEnd, server
  <2>2. CASE output_buf[f] # {}
    <3>1. /\ disk' = [disk EXCEPT ![f] = output_buf[f]]
          /\ written' = written \cup {f}
          /\ output_buf' = [output_buf EXCEPT ![f] = {}]
      BY <1>2, <2>2 DEF RecvEnd
    <3> SUFFICES ASSUME NEW g \in File
                 PROVE  /\ g \in written' <=> disk'[g] # NoFile
                        /\ g \in written' => output_buf'[g] = {}
      OBVIOUS
    <3>2. CASE g = f
      BY <3>1, <3>2, <2>2, FilesAssumption
    <3>3. CASE g # f
      BY <3>1, <3>3
    <3> QED
      BY <3>2, <3>3
  <2> QED
    BY <2>1, <2>2
<1>3. ASSUME NEW f \in File, NEW s \in AllSeqs, RecvData(f, s)
      PROVE  ClosedForGood'
  BY <1>3 DEF RecvData, server
<1> QED
  BY <1>1, <1>2, <1>3 DEF Next, Server

(* A file is on disk exactly when it is marked written, and its buffer is  *)
(* closed from then on, for any loss, delay and order of datagrams.        *)
THEOREM WrittenIsClosed == Spec => []ClosedForGood
<1>1. Init => ClosedForGood
  BY DEF Init, ClosedForGood
<1>2. TypeOK /\ ClosedForGood /\ [Next]_vars => ClosedForGood'
  BY ClosedStep
<1> QED
  BY <1>1, <1>2, TypeCorrect, PTL DEF Spec

LEMMA DiskStep ==
  ASSUME TypeOK, ClosedForGood, [Next]_vars, NEW f \in File, disk[f] # NoFile
  PROVE  disk'[f] = disk[f]
<1> USE DEF TypeOK
<1>1. CASE Client \/ Lose \/ Restart \/ UNCHANGED vars
  BY <1>1, OthersKeepServer DEF server
<1>2. ASSUME NEW g \in File, RecvEnd(g)
      PROVE  disk'[f] = disk[f]
  <2>1. output_buf[f] = {}
    BY DEF ClosedForGood
  <2> QED
    BY <1>2, <2>1 DEF RecvEnd, server
<1>3. ASSUME NEW g \in File, NEW s \in AllSeqs, RecvData(g, s)
      PROVE  disk'[f] = disk[f]
  BY <1>3 DEF RecvData, server
<1> QED
  BY <1>1, <1>2, <1>3 DEF Next, Server

(* Whatever is lost, late or repeated, a file on disk does not change.     *)
THEOREM FilesAreKept == Spec => FileKept
<1>1. TypeOK /\ ClosedForGood /\ [Next]_vars
        => [\A f \in File : disk[f] # NoFile => disk'[f] = disk[f]]_vars
  BY DiskStep
<1> QED
  BY <1>1, TypeCorrect, WrittenIsClosed, PTL DEF Spec, FileKept

-----------------------------------------------------------------------------
(***************************************************************************)
(* Timely answers.  Each lemma below is one kind of step; their common     *)
(* hypotheses are those of TimelyStep.                                     *)
(***************************************************************************)
Sound == BufferSound /\ EndsBehind /\ NothingStale /\ WrittenWhole /\ AckedStored

(* What was set aside: the network holds nothing that TimedOut allows.     *)
LEMMA QuietFacts ==
  ASSUME Timely, TypeOK, TimedOut
  PROVE  /\ \A d \in Datagram : ~(data[d] > 0)
         /\ \A f \in File : ~(ends[f] > 0)
         /\ \A s \in AllSeqs : ~(acks[s] > 0)
BY DEF TimedOut, Quiet, TypeOK

(* A file whose fragments are all acknowledged is in the buffer.           *)
LEMMA AllAcked ==
  ASSUME Timely, TypeOK, Sound, Sending, ack_num >= Frags[i]
  PROVE  output_buf[i] = Seqs(i) /\ acked = Seqs(i)
<1>1. i \in File
  BY DEF TypeOK, Sending
<1>2. acked \subseteq Seqs(i) /\ ack_num = Cardinality(acked)
  BY DEF Sound, NothingStale, AckedStored
<1>3. acked = Seqs(i)
  <2>1. IsFiniteSet(Seqs(i)) /\ Cardinality(Seqs(i)) = Frags[i] /\ Frags[i] \in Nat
    BY <1>1, SeqsFacts
  <2>2. /\ Cardinality(acked) <= Cardinality(Seqs(i))
        /\ Cardinality(Seqs(i)) = Cardinality(acked) => Seqs(i) = acked
    BY <1>2, <2>1, FS_Subset
  <2> QED
    BY <1>2, <2>1, <2>2 DEF TypeOK
<1> QED
  BY <1>1, <1>3 DEF Sound, BufferSound, AckedStored

(* Losing or receiving a message takes one away.                           *)
LEMMA LoseStep ==
  ASSUME Timely, TypeOK, Sound, Lose
  PROVE  Sound'
<1>1. UNCHANGED <<client, server>>
  BY DEF Lose
<1>2. /\ \A d \in Datagram : data'[d] > 0 => data[d] > 0
      /\ \A f \in File : ends'[f] > 0 => ends[f] > 0
      /\ \A s \in AllSeqs : acks'[s] > 0 => acks[s] > 0
  BY TakeFacts DEF Lose, TypeOK
<1>3. UNCHANGED <<pc, i, acked, ack_num, output_buf, written, disk>>
  BY <1>1 DEF client, server
<1>4. BufferSound' /\ EndsBehind'
  BY <1>2, <1>3 DEF Sound, BufferSound, EndsBehind
<1>5. NothingStale'
  BY <1>2, <1>3 DEF Sound, NothingStale, Sending
<1>6. WrittenWhole' /\ AckedStored'
  BY <1>3 DEF Sound, WrittenWhole, AckedStored, Sending
<1> QED
  BY <1>4, <1>5, <1>6 DEF Sound

(* A new run starts with nothing in flight, whatever the server has.       *)
LEMMA RestartStep ==
  ASSUME Timely, TypeOK, Sound, Restart
  PROVE  Sound'
<1>1. /\ UNCHANGED <<data, ends, acks, output_buf, written, disk>>
      /\ pc' = "drain"
  BY DEF Restart, net, server
<1>2. TimedOut
  BY DEF Restart, TimedOut
<1>3. /\ \A d \in Datagram : ~(data'[d] > 0)
      /\ \A f \in File : ~(ends'[f] > 0)
  BY <1>1, <1>2, QuietFacts
<1> QED
  BY <1>1, <1>3 DEF Sound, BufferSound, EndsBehind, NothingStale, WrittenWhole,
                    AckedStored, Sending

LEMMA DrainStep ==
  ASSUME Timely, TypeOK, Sound, DrainReceive
  PROVE  Sound'
<1>1. /\ UNCHANGED <<pc, i, acked, ack_num, output_buf, written, disk>>
      /\ UNCHANGED <<data, ends>>
  BY DEF DrainReceive, GetAck, GetAckEf, server
<1>2. pc = "drain"
  BY DEF DrainReceive
<1> QED
  BY <1>1, <1>2 DEF Sound, BufferSound, EndsBehind, NothingStale, WrittenWhole,
                    AckedStored, Sending

(* The client goes on to its next file without one to send.                *)
LEMMA SkipStep ==
  ASSUME Timely, TypeOK, Sound, SkipFile
  PROVE  Sound'
<1>1. /\ UNCHANGED <<data, ends, acked, ack_num, output_buf, written, disk>>
      /\ i' = i + 1 /\ pc' \in {"drain", "done"} /\ pc = "drain"
  BY DEF SkipFile, NextFile, server, net
<1>2. /\ \A d \in Datagram : ~(data'[d] > 0)
      /\ \A f \in File : ~(ends'[f] > 0)
  BY <1>1, QuietFacts DEF SkipFile
<1> QED
  BY <1>1, <1>2 DEF Sound, BufferSound, EndsBehind, NothingStale, WrittenWhole,
                          AckedStored, Sending, TypeOK

(* The process ends before the file, and leaves the server as it is.       *)
LEMMA TearStep ==
  ASSUME Timely, TypeOK, Sound, TearFile
  PROVE  Sound'
<1>1. /\ UNCHANGED <<data, ends, acks, i, acked, ack_num, output_buf, written, disk>>
      /\ pc = "drain" /\ pc' = "done"
  BY DEF TearFile, server, net
<1> QED
  BY <1>1 DEF Sound, BufferSound, EndsBehind, NothingStale, WrittenWhole,
              AckedStored, Sending

(* A new file starts with nothing in flight and nothing acknowledged.      *)
LEMMA OpenStep ==
  ASSUME Timely, TypeOK, Sound, OpenFile
  PROVE  Sound'
<1>1. /\ UNCHANGED <<data, ends, acks, i, output_buf, written, disk>>
      /\ acked' = {} /\ ack_num' = 0
      /\ pc' = IF Frags[i] > 0 THEN "send" ELSE "end"
  BY DEF OpenFile, net, server
<1>2. /\ \A d \in Datagram : ~(data'[d] > 0)
      /\ \A f \in File : ~(ends'[f] > 0)
      /\ \A s \in AllSeqs : ~(acks'[s] > 0)
  BY <1>1, QuietFacts DEF OpenFile
<1>3. i \in File
  BY DEF TypeOK, OpenFile
<1>4. pc' = "end" => output_buf'[i'] = Seqs(i')
  <2> SUFFICES ASSUME pc' = "end"
               PROVE  output_buf[i] = Seqs(i)
    BY <1>1
  <2>1. Frags[i] = 0
    BY <1>1, <1>3, SeqsFacts
  <2>2. Seqs(i) = {}
    BY <2>1 DEF Seqs
  <2> QED
    BY <1>3, <2>2 DEF Sound, BufferSound
<1>5. ack_num' = Cardinality(acked')
  BY <1>1, FS_EmptySet
<1> QED
  BY <1>1, <1>2, <1>4, <1>5 DEF Sound, BufferSound, EndsBehind, NothingStale,
                                WrittenWhole, AckedStored, Sending

LEMMA SendStep ==
  ASSUME Timely, TypeOK, Sound, SendFragment
  PROVE  Sound'
<1> PICK s \in Unsent : data' = Put(data, <<i, s>>, 1)
  BY DEF SendFragment
<1>1. /\ UNCHANGED <<ends, acks, i, acked, ack_num, output_buf, written, disk>>
      /\ pc = "send" /\ pc' = "await"
  BY DEF SendFragment, server
<1>2. i \in File /\ s \in Seqs(i)
  BY <1>1 DEF TypeOK, Unsent
<1>3. <<i, s>> \in Datagram
  BY <1>2, SeqsFacts DEF Datagram
<1>4. \A d \in Datagram : d # <<i, s>> => data'[d] = data[d]
  <2> DEFINE m == <<i, s>>
  <2> HIDE DEF m
  <2> QED
    BY <1>3 DEF TypeOK, m, Put
<1>5. \A d \in Datagram : data'[d] > 0 => d[1] = i /\ d[2] \in Seqs(d[1])
  <2> SUFFICES ASSUME NEW d \in Datagram, data'[d] > 0
               PROVE  d[1] = i /\ d[2] \in Seqs(d[1])
    OBVIOUS
  <2>1. CASE d = <<i, s>>
    BY <1>2, <2>1
  <2>2. CASE d # <<i, s>>
    BY <1>1, <1>4, <2>2 DEF Sound, NothingStale, Sending
  <2> QED
    BY <2>1, <2>2
<1>6. NothingStale'
  <2>1. i' = i /\ i <= i
    BY <1>1 DEF TypeOK
  <2>2. \A d \in Datagram : data'[d] > 0 => /\ d[2] \in Seqs(d[1])
                                            /\ d[1] <= i'
                                            /\ Sending' => d[1] = i'
                                            /\ pc' # "end"
    BY <1>1, <1>5, <2>1
  <2> QED
    <3>1. Sending /\ Sending' /\ pc' # "end"
      BY <1>1 DEF Sending
    <3>2. \A r \in AllSeqs : acks'[r] > 0 => r \in output_buf'[i']
      BY <1>1, <3>1 DEF Sound, NothingStale
    <3>3. acked' \subseteq Seqs(i')
      BY <1>1, <3>1 DEF Sound, NothingStale
    <3> QED
      BY <2>2, <3>1, <3>2, <3>3 DEF NothingStale
<1> QED
  BY <1>1, <1>6 DEF Sound, BufferSound, EndsBehind, WrittenWhole, AckedStored, Sending

(* Steps that only move the client within the sending of a file.           *)
LEMMA MoveStep ==
  ASSUME Timely, TypeOK, Sound, PassEnd \/ ReceiveAckEf \/ AwaitTimeout
  PROVE  Sound'
<1>1. /\ UNCHANGED <<data, ends, acks, i, acked, ack_num, output_buf, written, disk>>
      /\ Sending /\ Sending' /\ pc' # "end"
  BY DEF PassEnd, ReceiveAckEf, GetAckEf, Resume, AwaitTimeout, net, server, Sending
<1> QED
  BY <1>1 DEF Sound, BufferSound, EndsBehind, NothingStale, WrittenWhole, AckedStored,
              Sending

(* A timely ACK is for a fragment the server holds, so it is counted once  *)
(* and for the right file.                                                 *)
LEMMA AckStep ==
  ASSUME Timely, TypeOK, Sound, NEW s \in AllSeqs, ReceiveAck(s)
  PROVE  Sound'
<1>1. /\ UNCHANGED <<data, ends, i, output_buf, written, disk>>
      /\ Sending /\ Sending' /\ pc' # "end" /\ i \in File
      /\ acks[s] > 0
      /\ \A r \in AllSeqs : acks'[r] > 0 => acks[r] > 0
  BY TakeFacts DEF ReceiveAck, GetAck, Resume, server, Sending, TypeOK
<1>2. s \in output_buf[i] /\ s \in Seqs(i)
  BY <1>1 DEF Sound, NothingStale, BufferSound
<1>3. /\ acked' = acked \cup {s}
      /\ ack_num' = IF s \in acked THEN ack_num ELSE ack_num + 1
  BY <1>2 DEF ReceiveAck, Acknowledge
<1>4. /\ acked \subseteq Seqs(i) /\ acked \subseteq output_buf[i]
      /\ ack_num = Cardinality(acked)
  BY <1>1 DEF Sound, NothingStale, AckedStored
<1>5. IsFiniteSet(acked)
  BY <1>1, <1>4, SeqsFacts, FS_Subset
<1>6. ack_num' = Cardinality(acked')
  BY <1>3, <1>4, <1>5, FS_AddElement
<1>7. acked' \subseteq Seqs(i) /\ acked' \subseteq output_buf[i]
  BY <1>2, <1>3, <1>4
<1>8. NothingStale' /\ AckedStored'
  BY <1>1, <1>6, <1>7 DEF Sound, NothingStale, AckedStored
<1>9. pc # "drain" /\ pc # "done"
  BY <1>1 DEF Sending
<1>10. BufferSound' /\ EndsBehind' /\ WrittenWhole'
  BY <1>1, <1>9 DEF Sound, BufferSound, EndsBehind, WrittenWhole
<1> QED
  BY <1>8, <1>10 DEF Sound

(* The loop ends when everything is acknowledged and nothing in flight.    *)
LEMMA FlushStep ==
  ASSUME Timely, TypeOK, Sound, FlushEnd
  PROVE  Sound'
<1>1. /\ UNCHANGED <<data, ends, acks, i, acked, ack_num, output_buf, written, disk>>
      /\ Sending /\ pc' \in {"send", "end"}
      /\ pc' = "end" => ack_num >= Frags[i]
  BY DEF FlushEnd, net, server, Sending
<1>2. /\ \A d \in Datagram : ~(data'[d] > 0)
      /\ \A f \in File : ~(ends'[f] > 0)
      /\ \A s \in AllSeqs : ~(acks'[s] > 0)
  BY <1>1, QuietFacts DEF FlushEnd
<1>3. pc' = "end" => output_buf'[i'] = Seqs(i')
  BY <1>1, AllAcked
<1>4. NothingStale'
  BY <1>1, <1>2, <1>3 DEF Sound, NothingStale
<1>5. EndsBehind'
  BY <1>1, <1>2 DEF Sound, EndsBehind
<1> QED
  BY <1>1, <1>4, <1>5 DEF Sound, BufferSound, WrittenWhole, AckedStored

(* ENDOFFILE follows the complete file.                                    *)
LEMMA EndStep ==
  ASSUME Timely, TypeOK, Sound, SendEnd
  PROVE  Sound'
<1>1. /\ UNCHANGED <<data, acks, output_buf, written, disk>>
      /\ i' = i + 1 /\ pc' \in {"drain", "done"} /\ pc = "end" /\ i \in File
  BY DEF SendEnd, NextFile, server, TypeOK
<1>2. \A f \in File : f # i => ends'[f] = ends[f]
  BY <1>1 DEF SendEnd, TypeOK, Put
<1>3. \A f \in File : ~(ends[f] > 0)
  BY <1>1 DEF Sound, EndsBehind
<1>4. output_buf[i] = Seqs(i)
  BY <1>1 DEF Sound, NothingStale
<1>5. i \in Int /\ i < i'
  BY <1>1 DEF TypeOK, File
<1>6. EndsBehind'
  BY <1>1, <1>2, <1>3, <1>4, <1>5 DEF EndsBehind
<1>7. NothingStale'
  BY <1>1 DEF Sound, NothingStale, Sending
<1> QED
  BY <1>1, <1>6, <1>7 DEF Sound, BufferSound, WrittenWhole, AckedStored, Sending

(* The server stores a fragment before it can be acknowledged.             *)
LEMMA DataStep ==
  ASSUME Timely, TypeOK, Sound, NEW f \in File, NEW s \in AllSeqs, RecvData(f, s)
  PROVE  Sound'
<1>1. /\ UNCHANGED <<ends, pc, i, acked, ack_num, written, disk>>
      /\ data[<<f, s>>] > 0 /\ <<f, s>> \in Datagram
      /\ data' = Take(data, <<f, s>>)
  BY DEF RecvData, client, server, Datagram
<1>2. \A d \in Datagram : data'[d] > 0 => data[d] > 0
  <2> DEFINE m == <<f, s>>
  <2> HIDE DEF m
  <2> QED
    BY <1>1, TakeFacts DEF TypeOK, m
<1>3. s \in Seqs(f) /\ (Sending => f = i) /\ pc # "end"
  BY <1>1 DEF Sound, NothingStale
<1>4. \A g \in File : /\ output_buf[g] \subseteq output_buf'[g]
                      /\ output_buf'[g] \subseteq Seqs(g)
  BY <1>3 DEF RecvData, server, Sound, BufferSound, TypeOK
<1>5. \A r \in AllSeqs : Sending /\ acks'[r] > 0 => r \in output_buf'[i]
  <2> SUFFICES ASSUME NEW r \in AllSeqs, Sending, acks'[r] > 0
               PROVE  r \in output_buf'[i]
    OBVIOUS
  <2>1. i = f
    BY <1>3
  <2>2. CASE f \in written
    BY <1>4, <2>1, <2>2 DEF RecvData, server, Sound, NothingStale
  <2>3. CASE f \notin written
    <3>1. acks' = Put(acks, s, 5) /\ s \in output_buf'[f]
      BY <2>3 DEF RecvData, TypeOK
    <3>2. CASE r = s
      BY <2>1, <3>1, <3>2
    <3>3. CASE r # s
      <4>1. acks'[r] = acks[r]
        BY <3>1, <3>3 DEF TypeOK, Put
      <4> QED
        BY <1>4, <2>1, <4>1 DEF Sound, NothingStale
    <3> QED
      BY <3>2, <3>3
  <2> QED
    BY <2>2, <2>3
<1>6. NothingStale'
  BY <1>1, <1>2, <1>3, <1>5 DEF Sound, NothingStale, Sending
<1>7. EndsBehind'
  BY <1>1, <1>4 DEF Sound, EndsBehind
<1>8. AckedStored'
  BY <1>1, <1>3, <1>4 DEF Sound, AckedStored, Sending, TypeOK
<1> QED
  BY <1>1, <1>4, <1>6, <1>7, <1>8 DEF Sound, BufferSound, WrittenWhole

(* What ENDOFFILE writes is the whole file.                                *)
LEMMA RecvEndStep ==
  ASSUME Timely, TypeOK, ClosedForGood, Sound, NEW f \in File, RecvEnd(f)
  PROVE  Sound'
<1>1. /\ UNCHANGED <<data, acks, pc, i, acked, ack_num>>
      /\ ends[f] > 0 /\ ends' = Take(ends, f)
  BY DEF RecvEnd, client
<1>2. \A g \in File : ends'[g] > 0 => ends[g] > 0
  BY <1>1, TakeFacts DEF TypeOK
<1>3. f < i /\ pc \in {"drain", "done"} /\ (f \in written \/ output_buf[f] = Seqs(f))
  BY <1>1 DEF Sound, EndsBehind
<1>4. CASE UNCHANGED server
  BY <1>1, <1>2, <1>4 DEF server, Sound, BufferSound, EndsBehind, NothingStale,
                          WrittenWhole, AckedStored, Sending
<1>5. CASE /\ output_buf[f] # {}
           /\ disk' = [disk EXCEPT ![f] = output_buf[f]]
           /\ written' = written \cup {f}
           /\ output_buf' = [output_buf EXCEPT ![f] = {}]
  <2>1. output_buf[f] = Seqs(f)
    BY <1>3, <1>5 DEF ClosedForGood
  <2>2. BufferSound'
    BY <1>5 DEF Sound, BufferSound, TypeOK
  <2>3. EndsBehind'
    BY <1>1, <1>2, <1>3, <1>5 DEF Sound, EndsBehind, TypeOK
  <2>4. NothingStale'
    BY <1>1, <1>3 DEF Sound, NothingStale, Sending
  <2>5. WrittenWhole'
    BY <1>5, <2>1 DEF Sound, WrittenWhole, Content, TypeOK
  <2>6. AckedStored'
    BY <1>1, <1>3 DEF AckedStored, Sending
  <2> QED
    BY <2>2, <2>3, <2>4, <2>5, <2>6 DEF Sound
<1> QED
  BY <1>4, <1>5 DEF RecvEnd

(* TimelyInv is inductive, with the type and the closed buffers.           *)
LEMMA TimelyStep ==
  ASSUME TypeOK, ClosedForGood, TimelyInv, [Next]_vars
  PROVE  TimelyInv'
<1> SUFFICES ASSUME Timely
             PROVE  Sound'
  BY DEF TimelyInv, Sound
<1>1. Sound
  BY DEF TimelyInv, Sound
<1>2. CASE UNCHANGED vars
  BY <1>1, <1>2 DEF vars, net, client, server, Sound, BufferSound, EndsBehind,
                    NothingStale, WrittenWhole, AckedStored, Sending
<1>3. CASE Client
  BY <1>1, <1>3, DrainStep, SkipStep, TearStep, OpenStep, SendStep, MoveStep, AckStep,
     FlushStep, EndStep DEF Client
<1>4. CASE Server
  BY <1>1, <1>4, DataStep, RecvEndStep DEF Server
<1>5. CASE Lose
  BY <1>1, <1>5, LoseStep
<1>6. CASE Restart
  BY <1>1, <1>6, RestartStep
<1> QED
  BY <1>2, <1>3, <1>4, <1>5, <1>6 DEF Next

LEMMA Inductive == Spec => []IInv
<1>1. Init => TimelyInv
  <2> SUFFICES ASSUME Init
               PROVE  TimelyInv
    OBVIOUS
  <2>1. BufferSound /\ EndsBehind
    BY DEF Init, BufferSound, EndsBehind
  <2>2. NothingStale
    BY DEF Init, NothingStale, Sending
  <2>3. WrittenWhole /\ AckedStored
    BY DEF Init, WrittenWhole, AckedStored, Sending
  <2> QED
    BY <2>1, <2>2, <2>3 DEF TimelyInv
<1>2. TypeOK /\ ClosedForGood /\ TimelyInv /\ [Next]_vars => TimelyInv'
  BY TimelyStep
<1>3. Spec => []TimelyInv
  BY <1>1, <1>2, TypeCorrect, WrittenIsClosed, PTL DEF Spec
<1> QED
  BY <1>3, TypeCorrect, WrittenIsClosed, PTL DEF IInv

(* If answers are timely, every file on the server's disk is whole.        *)
THEOREM FilesAreWhole == Spec => []WrittenWhole
<1>1. IInv => WrittenWhole
  BY DEF IInv, TimelyInv, WrittenWhole
<1> QED
  BY <1>1, Inductive, PTL

(* If answers are timely, ack_num counts fragments that the server holds.  *)
THEOREM AcksAreTrue == Spec => []AckedStored
<1>1. IInv => AckedStored
  BY DEF IInv, TimelyInv, AckedStored
<1> QED
  BY <1>1, Inductive, PTL

LEMMA RefinementStep ==
  ASSUME Timely, IInv, IInv', [Next]_vars
  PROVE  [Transfer!Next]_disk
<1>1. \A f \in File : disk[f] # NoFile => disk'[f] = disk[f]
  BY DiskStep DEF IInv
<1>2. \A f \in File : disk'[f] = NoFile \/ disk'[f] = Content[f]
  BY DEF IInv, TimelyInv, WrittenWhole
<1>3. disk \in [File -> {NoFile} \cup SUBSET AllSeqs]
      /\ disk' \in [File -> {NoFile} \cup SUBSET AllSeqs]
  BY DEF IInv, TypeOK
<1>4. CASE Client \/ Lose \/ Restart \/ UNCHANGED vars
  BY <1>4, OthersKeepServer DEF server
<1>5. ASSUME NEW f \in File, RecvEnd(f)
      PROVE  [Transfer!Next]_disk
  <2>1. CASE disk' = disk
    BY <2>1
  <2>2. CASE disk' = [disk EXCEPT ![f] = output_buf[f]] /\ disk' # disk
    <3>1. disk[f] = NoFile /\ disk'[f] = Content[f]
      BY <1>1, <1>2, <1>3, <2>2
    <3>2. disk' = [disk EXCEPT ![f] = Content[f]]
      BY <1>3, <2>2, <3>1
    <3> QED
      BY <3>1, <3>2 DEF Transfer!Next, Transfer!Deliver
  <2> QED
    BY <1>5, <2>1, <2>2 DEF RecvEnd, server
<1>6. ASSUME NEW f \in File, NEW s \in AllSeqs, RecvData(f, s)
      PROVE  [Transfer!Next]_disk
  BY <1>6 DEF RecvData, server
<1> QED
  BY <1>4, <1>5, <1>6 DEF Next, Server

(* If answers are timely, the transfer implements FileTransfer: each file  *)
(* is delivered at most once, whole, and stays.                            *)
THEOREM Implements == ASSUME Timely PROVE Spec => TransferSpec
<1>1. Init => Transfer!Init
  BY DEF Init, Transfer!Init
<1>2. IInv /\ IInv' /\ [Next]_vars => [Transfer!Next]_disk
  BY RefinementStep
<1> QED
  BY <1>1, <1>2, Inductive, PTL DEF Spec, TransferSpec, Transfer!Spec
=============================================================================
