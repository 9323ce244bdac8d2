---------------------------- MODULE RawBroadcast ----------------------------
(***************************************************************************)
(* lab10: lab10cli.cpp broadcasts its files over a raw socket, fragment by *)
(* fragment and then ENDOFFILE<name>, and nobody answers.  lab10srv.cpp    *)
(* keeps the fragments of the current file by number only and writes them  *)
(* under the name that ENDOFFILE gives.                                    *)
(*                                                                         *)
(* The link keeps the order and loses nothing, but the socket of the       *)
(* server buffers no more than RcvBuf datagrams and drops the others; the  *)
(* client sleeps now and then so that this does not happen.                *)
(*                                                                         *)
(* A datagram is padded to a multiple of 32 octets.  A fragment that fills *)
(* its last 32 exactly is sent without the zero that ends its text, so the *)
(* server reads on in what earlier, longer datagrams left in its buffer,   *)
(* finds a length other than the announced one and drops the fragment; if  *)
(* no longer one came before, the stack decides.                           *)
(***************************************************************************)
EXTENDS Integers, Sequences

CONSTANTS
  NFiles,      \* kfile
  Frags,       \* Frags[f]: the size of each fragment of f, in blocks of 32
  Exact,       \* the fragments <<f, s>> that fill their last block
  Present,     \* the files the client can open
  Torn,        \* those it cannot cut into fragments
  RcvBuf,      \* SO_RCVBUF, in datagrams
  NoFile       \* the server has written no such file

File == 1 .. NFiles
Fragment == UNION {{f} \X (0 .. Len(Frags[f]) - 1) : f \in File}
Content == [f \in File |-> {d \in Fragment : d[1] = f}]
End == -1                      \* in place of a fragment's number: ENDOFFILE
EndSize == 2
Datagram == Fragment \cup (File \X {End})

ASSUME FilesAssumption ==
  /\ NFiles \in Nat \ {0} /\ Frags \in [File -> Seq(Nat)]
  /\ Exact \subseteq Fragment /\ Present \subseteq File
  /\ Torn \subseteq Present
  /\ \A S \in SUBSET Fragment : NoFile # S
ASSUME ParametersAssumption == RcvBuf \in Nat \ {0}

VARIABLES
  queue,       \* datagrams <<f, s>> and <<f, End>> in the server's socket
  i, next,     \* the client: its file, and the fragment to send
  output_buf,  \* the server: fragments since the last ENDOFFILE, by number
  longest,     \* size of the longest datagram its buffer has held
  disk,        \* the files it wrote
  lost         \* history: what the socket dropped or the server discarded

vars == <<queue, i, next, output_buf, longest, disk, lost>>

-----------------------------------------------------------------------------
Full == Len(queue) >= RcvBuf
SendTo(d) ==
  \/ ~Full /\ queue' = Append(queue, d) /\ UNCHANGED lost
  \/ Full /\ lost' = lost \cup {d} /\ UNCHANGED queue

MutantSkipFile ==              \* return, not continue
  /\ i \in File \ Present
  /\ i' = NFiles + 1
  /\ UNCHANGED <<queue, next, output_buf, longest, disk, lost>>

SkipFile ==
  /\ i \in File \ Present
  /\ i' = i + 1
  /\ UNCHANGED <<queue, next, output_buf, longest, disk, lost>>

(* substr throws, as in lab8, and the client ends.                         *)
TearFile ==
  /\ i \in Torn
  /\ i' = NFiles + 1
  /\ UNCHANGED <<queue, next, output_buf, longest, disk, lost>>

SendFragment ==
  /\ i \in Present \ Torn /\ next < Len(Frags[i])
  /\ SendTo(<<i, next>>)
  /\ next' = next + 1
  /\ UNCHANGED <<i, output_buf, longest, disk>>

MutantSendEnd ==
  /\ i \in Present \ Torn /\ next = Len(Frags[i])
  /\ SendTo(<<i, End>>)
  /\ i' = i + 1
  /\ UNCHANGED <<next, output_buf, longest, disk>>

MutantEarlyEnd ==
  /\ i \in Present \ Torn /\ next + 1 >= Len(Frags[i])
  /\ SendTo(<<i, End>>)
  /\ i' = i + 1 /\ next' = 0
  /\ UNCHANGED <<output_buf, longest, disk>>

SendEnd ==
  /\ i \in Present \ Torn /\ next = Len(Frags[i])
  /\ SendTo(<<i, End>>)
  /\ i' = i + 1 /\ next' = 0
  /\ UNCHANGED <<output_buf, longest, disk>>

Client == SkipFile \/ TearFile \/ SendFragment \/ SendEnd

-----------------------------------------------------------------------------
Size(d) == IF d[2] = End THEN EndSize ELSE Frags[d[1]][d[2] + 1]

Receive(d) ==
  /\ queue # <<>> /\ d = Head(queue) /\ queue' = Tail(queue)
  /\ longest' = IF Size(d) > longest THEN Size(d) ELSE longest

(* output_buf[seq_num] = data                                              *)
Store(d) == output_buf' = {e \in output_buf : e[2] # d[2]} \cup {d}

RecvData(d) ==
  /\ Receive(d)
  /\ \/ d \notin Exact /\ Store(d) /\ UNCHANGED lost
     \/ d \in Exact /\ longest <= Size(d) /\ Store(d) /\ UNCHANGED lost
     \/ d \in Exact /\ lost' = lost \cup {d} /\ UNCHANGED output_buf
  /\ UNCHANGED <<i, next, disk>>

MutantRecvEnd(f) ==
  /\ Receive(<<f, End>>)
  /\ disk' = [disk EXCEPT ![f] = output_buf]
  /\ UNCHANGED <<i, next, output_buf, lost>>

RecvEnd(f) ==
  /\ Receive(<<f, End>>)
  /\ disk' = [disk EXCEPT ![f] = output_buf]
  /\ output_buf' = {}
  /\ UNCHANGED <<i, next, lost>>

Server == (\E d \in Fragment : RecvData(d)) \/ (\E f \in File : RecvEnd(f))

-----------------------------------------------------------------------------
Init ==
  /\ queue = <<>> /\ i = 1 /\ next = 0
  /\ output_buf = {} /\ longest = 0 /\ disk = [f \in File |-> NoFile]
  /\ lost = {}

Next == Client \/ Server

Spec == Init /\ [][Next]_vars

(* Both programs run on; the server waits for nothing but datagrams.       *)
FairSpec == Spec /\ WF_vars(Client) /\ WF_vars(Server)

-----------------------------------------------------------------------------
TypeOK ==
  /\ queue \in Seq(Datagram) /\ Len(queue) <= RcvBuf
  /\ i \in 1 .. (NFiles + 1)
  /\ next \in Nat /\ (i \in File => next <= Len(Frags[i]))
  /\ output_buf \subseteq Fragment /\ longest \in Nat
  /\ disk \in [File -> {NoFile} \cup SUBSET Fragment]
  /\ lost \subseteq Datagram

(* Whatever the socket buffer drops: the server keeps one fragment of a    *)
(* number, and no fragment ends up in two files although the server does   *)
(* not know whose fragments it holds.  (lab10srv.cpp:141, 162)             *)
WrittenOnce ==
  /\ \A d, e \in output_buf : d[2] = e[2] => d = e
  /\ \A f \in File : disk[f] # NoFile =>
       /\ disk[f] \cap output_buf = {}
       /\ \A g \in File \ {f} : disk[g] # NoFile => disk[f] \cap disk[g] = {}

(* A file on the server's disk has every fragment of its own that was not  *)
(* dropped, and nothing of another file, as long as the ENDOFFILE of each  *)
(* file before it came through.  (lab10srv.cpp:116, 133)                   *)
WrittenWhole ==
  \A f \in File :
    disk[f] # NoFile /\ (\A g \in 1 .. f - 1 : <<g, End>> \notin lost)
    => disk[f] = Content[f] \ lost

(* Although the server never answers, every file arrives if nothing is     *)
(* dropped, up to the first file that the client cannot cut.               *)
Sendable == {f \in Present : \A g \in Torn : f < g}
AllArrive == <>[](lost = {} => \A f \in Sendable : disk[f] = Content[f])
=============================================================================
