---------------------------- MODULE UdpTransfer ----------------------------
(***************************************************************************)
(* lab8: one process of robust_udpcli.cpp sends its files to               *)
(* robust_udpsrv.cpp over UDP.  A file is sent as numbered fragments; the  *)
(* server answers a fragment with ACK<number>, the file's name is not in   *)
(* it; when all are acknowledged the client sends ENDOFFILE<name> and      *)
(* goes on to its next file without waiting for the answer, ACKEF<name>.   *)
(*                                                                         *)
(* The network loses and reorders, and both ends send several copies of    *)
(* most messages.  It holds at most MaxCopies of a message; further copies *)
(* count as lost.  A corrupted datagram fails the UDP checksum or the      *)
(* length check and counts as lost too, and so does the server's first     *)
(* answer, which its zero clilen sends nowhere.                            *)
(*                                                                         *)
(* The fifteen processes of the client have disjoint files and sockets of  *)
(* their own, and the server keeps its state per file: they do not meet.   *)
(* The server keeps that state for ever, so a client that is killed and    *)
(* started again, or run twice, meets what its earlier runs left there.    *)
(***************************************************************************)
EXTENDS Integers, FiniteSets

CONSTANTS
  NFiles,      \* k_file, the files of this process
  Frags,       \* howmanyfragment of each file
  Present,     \* the files the client can open
  Torn,        \* those it cannot cut into fragments
  Start,       \* start, the number of this process's first file
  FinMod,      \* the 60 of fin_file[fID % 60]
  MaxCopies,   \* bound: copies of one message in flight
  Timely,      \* TRUE: no answer takes longer than the client's timeout
  NoFile       \* the server has written no such file

File == 1 .. NFiles
Seqs(f) == 0 .. (Frags[f] - 1)
Content == [f \in File |-> Seqs(f)]
AllSeqs == UNION {Seqs(f) : f \in File}
Datagram == File \X AllSeqs

ASSUME FilesAssumption ==
  /\ NFiles \in Nat \ {0} /\ Frags \in [File -> Nat] /\ Present \subseteq File
  /\ Torn \subseteq Present
  /\ \A S \in SUBSET AllSeqs : NoFile # S
ASSUME ParametersAssumption ==
  Start \in Nat /\ FinMod \in 1 .. NFiles /\ MaxCopies \in Nat \ {0} /\ Timely \in BOOLEAN

VARIABLES
  \* copies in flight of FILENAME<f>SEQNUM<s>, ENDOFFILE<f>, ACK<s>, ACKEF<f>
  data, ends, acks, ackefs,
  \* the client, dg_cli
  pc, i,       \* where it is, and in which file
  next,        \* loop variable of the sending pass
  acked,       \* fragments with send_idx_buffer[.] = -1
  ack_num,
  fin,         \* indices set in fin_file
  \* the server, dg_echo
  output_buf, written,
  disk         \* the files it wrote

net == <<data, ends, acks, ackefs>>
client == <<pc, i, next, acked, ack_num, fin>>
server == <<output_buf, written, disk>>
vars == <<net, client, server>>

-----------------------------------------------------------------------------
Put(q, m, n) ==
  [q EXCEPT ![m] = IF @ + n > MaxCopies THEN MaxCopies ELSE @ + n]
Take(q, m) == [q EXCEPT ![m] = @ - 1]

Quiet ==
  /\ \A d \in Datagram : data[d] = 0
  /\ \A f \in File : ends[f] = 0 /\ ackefs[f] = 0
  /\ \A s \in AllSeqs : acks[s] = 0

Lose ==
  /\ \/ \E d \in Datagram : data[d] > 0 /\ data' = Take(data, d)
                            /\ UNCHANGED <<ends, acks, ackefs>>
     \/ \E f \in File : ends[f] > 0 /\ ends' = Take(ends, f)
                        /\ UNCHANGED <<data, acks, ackefs>>
     \/ \E s \in AllSeqs : acks[s] > 0 /\ acks' = Take(acks, s)
                           /\ UNCHANGED <<data, ends, ackefs>>
     \/ \E f \in File : ackefs[f] > 0 /\ ackefs' = Take(ackefs, f)
                        /\ UNCHANGED <<data, ends, acks>>
  /\ UNCHANGED <<client, server>>

-----------------------------------------------------------------------------
(***************************************************************************)
(* The client.  getresponse returns a message or, after SO_RCVTIMEO, -1.   *)
(***************************************************************************)
TimedOut == Timely => Quiet

GetAck(s) ==
  acks[s] > 0 /\ acks' = Take(acks, s) /\ UNCHANGED <<data, ends, ackefs>>

(* Wherever it is read, ACKEF only marks an entry of fin_file.             *)
GetAckEf ==
  \E f \in File :
    /\ ackefs[f] > 0 /\ ackefs' = Take(ackefs, f)
    /\ fin' = fin \cup {(Start + f - 1) % FinMod}
    /\ UNCHANGED <<data, ends, acks>>

MutantNextFile == /\ i' = i + 1
                  /\ pc' = IF i <= NFiles THEN "drain" ELSE "done"

NextFile == /\ i' = i + 1
            /\ pc' = IF i < NFiles THEN "drain" ELSE "done"

(* The loop that clears the socket before a file.                          *)
DrainReceive ==
  /\ pc = "drain"
  /\ \/ (\E s \in AllSeqs : GetAck(s)) /\ UNCHANGED fin
     \/ GetAckEf
  /\ UNCHANGED <<pc, i, next, acked, ack_num, server>>

SkipFile ==
  /\ pc = "drain" /\ TimedOut /\ i \notin Present
  /\ NextFile
  /\ UNCHANGED <<net, next, acked, ack_num, fin, server>>

(* A file of several words, one of them after the first no multiple of 900 *)
(* octets: substr is asked for a place beyond that word's end and throws,  *)
(* nobody catches it, and the process ends.                                *)
TearFile ==
  /\ pc = "drain" /\ TimedOut /\ i \in Torn
  /\ pc' = "done"
  /\ UNCHANGED <<net, i, next, acked, ack_num, fin, server>>

(* An empty file has no fragment, and nothing to wait for.                 *)
OpenFile ==
  /\ pc = "drain" /\ TimedOut /\ i \in Present \ Torn
  /\ next' = 0 /\ acked' = {} /\ ack_num' = 0
  /\ pc' = IF Frags[i] > 0 THEN "send" ELSE "end"
  /\ UNCHANGED <<net, i, fin, server>>

(* One pass over the fragments not acknowledged yet.                       *)
Unsent == {s \in Seqs(i) : s >= next /\ s \notin acked}

SendFragment ==
  /\ pc = "send"
  /\ \E s \in Unsent :
       /\ \A r \in Unsent : s <= r
       /\ data' = Put(data, <<i, s>>, 1)
       /\ next' = s + 1
  /\ pc' = "await"
  /\ UNCHANGED <<ends, acks, ackefs, i, acked, ack_num, fin, server>>

PassEnd ==
  /\ pc = "send" /\ Unsent = {}
  /\ pc' = "flush"
  /\ UNCHANGED <<net, i, next, acked, ack_num, fin, server>>

MutantAcknowledge(s) ==
  /\ acked' = acked \cup {s}
  /\ ack_num' = ack_num + 1

(* An ACK counts for the fragment of that number in the current file; one  *)
(* beyond its last fragment reads and writes past send_idx_buffer, and     *)
(* whether it counts depends on what lies there.                           *)
Acknowledge(s) ==
  \/ /\ s \in Seqs(i)
     /\ acked' = acked \cup {s}
     /\ ack_num' = IF s \in acked THEN ack_num ELSE ack_num + 1
  \/ /\ s \notin Seqs(i)
     /\ UNCHANGED acked
     /\ ack_num' \in {ack_num, ack_num + 1}

Resume == pc' = IF pc = "await" THEN "send" ELSE "flush"

ReceiveAck(s) ==
  /\ pc \in {"await", "flush"}
  /\ GetAck(s) /\ Acknowledge(s) /\ Resume
  /\ UNCHANGED <<i, next, fin, server>>

ReceiveAckEf ==
  /\ pc \in {"await", "flush"}
  /\ GetAckEf /\ Resume
  /\ UNCHANGED <<i, next, acked, ack_num, server>>

AwaitTimeout ==
  /\ pc = "await" /\ TimedOut
  /\ pc' = "send"
  /\ UNCHANGED <<net, i, next, acked, ack_num, fin, server>>

MutantNoReset ==
  /\ pc = "flush" /\ TimedOut
  /\ pc' = IF ack_num < Frags[i] THEN "send" ELSE "end"
  /\ UNCHANGED <<net, i, next, acked, ack_num, fin, server>>

(* while (ack_num < howmanyfragment)                                       *)
FlushEnd ==
  /\ pc = "flush" /\ TimedOut
  /\ \/ ack_num < Frags[i] /\ pc' = "send" /\ next' = 0
     \/ ack_num >= Frags[i] /\ pc' = "end" /\ UNCHANGED next
  /\ UNCHANGED <<net, i, acked, ack_num, fin, server>>

(* One ENDOFFILE of the current file for every entry of fin_file not set.  *)
SendEnd ==
  /\ pc = "end"
  /\ ends' = Put(ends, i, Cardinality((0 .. (NFiles - 1)) \ fin))
  /\ NextFile
  /\ UNCHANGED <<data, acks, ackefs, next, acked, ack_num, fin, server>>

(* The process is killed, or has ended, and after a while the client is    *)
(* started again: with new sockets, and nothing in flight from before.     *)
Restart ==
  /\ Quiet
  /\ pc' = "drain" /\ i' = 1 /\ next' = 0
  /\ acked' = {} /\ ack_num' = 0 /\ fin' = {}
  /\ UNCHANGED <<net, server>>

Client ==
  \/ DrainReceive \/ SkipFile \/ TearFile \/ OpenFile
  \/ SendFragment \/ PassEnd \/ ReceiveAckEf \/ \E s \in AllSeqs : ReceiveAck(s)
  \/ AwaitTimeout \/ FlushEnd \/ SendEnd

-----------------------------------------------------------------------------
(***************************************************************************)
(* The server, one datagram at a time.                                     *)
(***************************************************************************)
MutantRecvData(f, s) ==
  /\ data[<<f, s>>] > 0 /\ data' = Take(data, <<f, s>>)
  /\ acks' = Put(acks, s, 5)
  /\ output_buf' = [output_buf EXCEPT ![f] = @ \cup {s}]
  /\ UNCHANGED <<ends, ackefs, written, disk, client>>

RecvData(f, s) ==
  /\ data[<<f, s>>] > 0 /\ data' = Take(data, <<f, s>>)
  /\ \/ /\ f \in written
        /\ ackefs' = Put(ackefs, f, 5)
        /\ UNCHANGED <<acks, server>>
     \/ /\ f \notin written
        /\ acks' = Put(acks, s, 5)
        /\ output_buf' = [output_buf EXCEPT ![f] = @ \cup {s}]
        /\ UNCHANGED <<ackefs, written, disk>>
  /\ UNCHANGED <<ends, client>>

MutantRecvEnd(f) ==
  /\ ends[f] > 0 /\ ends' = Take(ends, f)
  /\ disk' = [disk EXCEPT ![f] = output_buf[f]]
  /\ written' = written \cup {f}
  /\ ackefs' = Put(ackefs, f, 3)
  /\ output_buf' = [output_buf EXCEPT ![f] = {}]
  /\ UNCHANGED <<data, acks, client>>

RecvEnd(f) ==
  /\ ends[f] > 0 /\ ends' = Take(ends, f)
  /\ \/ /\ output_buf[f] = {}
        /\ ackefs' = Put(ackefs, f, 1)
        /\ UNCHANGED server
     \/ /\ output_buf[f] # {}
        /\ disk' = [disk EXCEPT ![f] = output_buf[f]]
        /\ written' = written \cup {f}
        /\ ackefs' = Put(ackefs, f, 3)
        /\ output_buf' = [output_buf EXCEPT ![f] = {}]
  /\ UNCHANGED <<data, acks, client>>

Server == \E f \in File : RecvEnd(f) \/ \E s \in AllSeqs : RecvData(f, s)

-----------------------------------------------------------------------------
Init ==
  /\ data = [d \in Datagram |-> 0] /\ ends = [f \in File |-> 0]
  /\ acks = [s \in AllSeqs |-> 0] /\ ackefs = [f \in File |-> 0]
  /\ pc = "drain" /\ i = 1 /\ next = 0
  /\ acked = {} /\ ack_num = 0 /\ fin = {}
  /\ output_buf = [f \in File |-> {}] /\ written = {}
  /\ disk = [f \in File |-> NoFile]

Next == Client \/ Server \/ Lose \/ Restart

Spec == Init /\ [][Next]_vars

(* The link loses datagrams but not for ever: one sent again and again is  *)
(* received.  The programs run, and their timers expire.                   *)
FairSpec ==
  /\ Spec
  /\ WF_vars(Client) /\ WF_vars(Server)
  /\ \A f \in File : \A s \in Seqs(f) : SF_vars(RecvData(f, s))
  /\ \A s \in AllSeqs : SF_vars(ReceiveAck(s))

-----------------------------------------------------------------------------
Sending == pc \in {"send", "await", "flush"}

TypeOK ==
  /\ data \in [Datagram -> Nat] /\ acks \in [AllSeqs -> Nat]
  /\ ends \in [File -> Nat] /\ ackefs \in [File -> Nat]
  /\ pc \in {"drain", "send", "await", "flush", "end", "done"}
  /\ i \in 1 .. (NFiles + 1) /\ (pc # "done" => i \in File)
  /\ next \in Nat /\ acked \subseteq AllSeqs /\ ack_num \in Nat /\ fin \subseteq Nat
  /\ output_buf \in [File -> SUBSET AllSeqs] /\ written \subseteq File
  /\ disk \in [File -> {NoFile} \cup SUBSET AllSeqs]

(* A file is on the disk exactly when the server marked it written, and    *)
(* from then on its buffer stays empty: a late fragment cannot start a     *)
(* second copy.  (robust_udpsrv.cpp:121, 126, 144)                         *)
ClosedForGood ==
  \A f \in File : /\ f \in written <=> disk[f] # NoFile
                  /\ f \in written => output_buf[f] = {}

(* A file once written is never written again, by whatever late, lost or   *)
(* repeated datagram.                                                      *)
FileKept ==
  [][\A f \in File : disk[f] # NoFile => disk'[f] = disk[f]]_vars

(* If answers are timely, what the client takes as acknowledged is in the  *)
(* server's buffer for this very file, although ACK does not name it, and  *)
(* ack_num counts it exactly.  (robust_udpcli.cpp:169, 188)                *)
AckedStored ==
  Timely /\ (Sending \/ pc = "end")
    => /\ acked \subseteq output_buf[i]
       /\ ack_num = Cardinality(acked)

(* If answers are timely, a file on the server's disk is whole.            *)
WrittenWhole ==
  Timely => \A f \in File : disk[f] # NoFile => disk[f] = Content[f]

(* The promise of the labs, for timely answers: every file appears at most *)
(* once, whole, and stays.                                                 *)
Transfer == INSTANCE FileTransfer WITH copy <- disk
TransferSpec == Transfer!Spec

(* Over a link that keeps losing datagrams the client gets through its     *)
(* files, or to the first that it cannot cut, as long as it is not started *)
(* again and again; but a run may meet a file that the server has from an  *)
(* earlier one, and then it sends that file for ever, since ACKEF is no    *)
(* acknowledgement to it.  (robust_udpcli.cpp:137, 159-166;                *)
(* robust_udpsrv.cpp:144)                                                  *)
Terminates ==
  \/ []<><<Restart>>_vars
  \/ <>[](pc = "done")
  \/ <>[](Sending /\ i \in written)

(* "the files should also present in the server side" (README.md:55), and  *)
(* "correctly transmitted" (README.md:42): whatever the server wrote is    *)
(* the file.  Not restricted to timely answers.                            *)
ReceivedCorrectly == \A f \in File : disk[f] # NoFile => disk[f] = Content[f]

-----------------------------------------------------------------------------
(* Why WrittenWhole holds; the conjuncts of an inductive invariant.        *)
(* Fragments are stored under their own file.                              *)
BufferSound == \A f \in File : output_buf[f] \subseteq Seqs(f)

(* Only files that this run of the client is done with are about to be     *)
(* written.                                                                *)
EndsBehind ==
  \A f \in File : /\ ends[f] > 0 => f < i /\ pc \in {"drain", "done"}
                  /\ ends[f] > 0 => f \in written \/ output_buf[f] = Seqs(f)

(* Nothing of an earlier file is in flight while a file is being sent.     *)
NothingStale ==
  /\ \A d \in Datagram : data[d] > 0 => /\ d[2] \in Seqs(d[1])
                                        /\ d[1] <= i
                                        /\ Sending => d[1] = i
                                        /\ pc # "end"
  /\ \A s \in AllSeqs : Sending /\ acks[s] > 0 => s \in output_buf[i]
  /\ Sending \/ pc = "end" => acked \subseteq Seqs(i)
  /\ pc = "end" => output_buf[i] = Seqs(i)

(* The inductive invariant for timely answers.                             *)
TimelyInv ==
  Timely => BufferSound /\ EndsBehind /\ NothingStale /\ WrittenWhole /\ AckedStored
=============================================================================
