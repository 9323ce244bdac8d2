----------------------------- MODULE ChatServer -----------------------------
(***************************************************************************)
(* lab05: the chat server of lab05-1.cpp, a poll() loop over the table     *)
(* client[], in which entry 0 is the listening socket.  An entry has a     *)
(* connection (peer is not "none") or its descriptor is -1.                *)
(*                                                                         *)
(* A line is a sequence of characters, and so are the contents of buf and  *)
(* newname, in which Nul is the octet 0: neither array is cleared between  *)
(* two lines, and what is left in them becomes part of commands and names. *)
(* The text of messages is left out; who is told of an arrival or a        *)
(* departure is not.                                                       *)
(*                                                                         *)
(* The sockets block.  A step that writes to a client which does not read, *)
(* its socket buffer being full, is taken when there is room again; till   *)
(* then the process does nothing.                                          *)
(***************************************************************************)
EXTENDS Integers, Sequences, FiniteSets, SequencesExt

CONSTANTS
  MAXUSER,     \* entries of client[]
  MaxFds,      \* connections for which the process has descriptors
  NAMELEN,     \* length of newname
  Char,
  Name, Who,   \* the commands "/name" and "/who"
  Slash, NL, Nul,
  Default,     \* the name "kkmelon"
  Lines,       \* what a client may send; the last may lack its newline
  MaxUnread,   \* bound: lines of one client waiting to be read
  Deaf,        \* bound: entries whose clients may stop reading
  MaxConns,    \* bound: connections in a behaviour
  MaxSent      \* bound: lines in a behaviour

Slot == 1 .. (MAXUSER - 1)

ASSUME SizesAssumption ==
  MAXUSER \in Nat \ {0} /\ MaxFds \in Nat /\ NAMELEN \in Nat
ASSUME CharsAssumption ==
  /\ Slash \in Char /\ NL \in Char \ {Slash} /\ Nul \notin Char
  /\ {Name, Who} \subseteq Seq(Char \ {NL}) \ {<<>>}
  /\ Name[1] = Slash /\ Who[1] = Slash /\ Default \in Seq(Char)
  /\ Lines \subseteq Seq(Char) \ {<<>>}
ASSUME BoundsAssumption ==
  /\ MaxUnread \in 1 .. 2 /\ MaxConns \in Nat /\ MaxSent \in Nat
  /\ Deaf \subseteq Slot

VARIABLES
  fate,        \* "running", or how the process ended
  pc, scan,    \* where the loop is; entries below scan are done
  nready, revents, maxi,
  nameStr, newname, buf,
  howManyUsers,
  backlog,     \* connections the kernel has completed, not yet accepted
  peer,        \* per entry: the state of its connection
  unread,      \* per entry: what was sent and not yet read
  stalled,     \* entries to which a write blocks
  conns, sent, \* connections made, lines sent (bounded)
  asked,       \* history, per entry: the last name its client asked for
  view,        \* history, per entry: who is there, as its client was told
  dropped,     \* history: entries whose last client was reset
  resets       \* history: clients that were reset

loop == <<pc, scan, nready, revents, maxi>>
names == <<nameStr, newname, buf, asked>>
net == <<backlog, peer, unread, conns, sent>>
people == <<howManyUsers, view, dropped, resets>>
vars == <<fate, loop, names, net, people, stalled>>

Live == {k \in Slot : peer[k] # "none"}

(* Whom the loops of Notify reach: for (k = 1; k <= maxi; k++).            *)
MutantAudience(i) == {k \in Live : k < maxi /\ k # i}
Audience(i) == {k \in Live : k <= maxi /\ k # i}

(* A write to a connection in error reports the error, which is ignored,   *)
(* and clears it: the next read returns 0.  SIGPIPE is caught.             *)
Tell(S, p) ==
  [k \in Slot |-> IF k \in S /\ p[k] \in {"reset", "timedout"} THEN "over" ELSE p[k]]

(* dprintf to all of S comes to its end.                                   *)
Room(S) == S \cap stalled = {} /\ UNCHANGED stalled

-----------------------------------------------------------------------------
(***************************************************************************)
(* One round of main's loop.                                               *)
(***************************************************************************)
Readable(k) == unread[k] # <<>> \/ peer[k] \in {"fin", "reset", "timedout", "over"}
Ready == {k \in Live : k <= maxi /\ Readable(k)}

(* What is left of the loop over the clients, from entry k.                *)
Pending(k) == {j \in Live \cap revents : j >= k}

MyPoll ==
  /\ fate = "running" /\ pc = "poll" /\ (backlog > 0 \/ Ready # {})
  /\ revents' = Ready
  /\ nready' = Cardinality(Ready) + (IF backlog > 0 THEN 1 ELSE 0)
  /\ pc' = IF backlog > 0 THEN "accept" ELSE "scan"
  /\ UNCHANGED <<fate, scan, maxi, names, net, people, stalled>>

Seated(i) == i \in Slot \ Live /\ \A j \in Slot \ Live : i <= j

(* WELCOME goes to the new client, ARRIVE to the others.                   *)
Arrive(i) ==
  /\ howManyUsers' = howManyUsers + 1
  /\ peer' = [Tell(Audience(i), peer) EXCEPT ![i] = "up"]
  /\ view' = [k \in Slot |-> IF k = i THEN Live
                             ELSE IF k \in Audience(i) THEN view[k] \cup {i}
                             ELSE view[k]]
  /\ dropped' = dropped \ {i} /\ UNCHANGED resets

MutantRaise(i) == maxi' = maxi                     \* not raised
MutantCountRaise(i) == maxi' = i + 1              \* a number of entries
Raise(i) == maxi' = IF i > maxi THEN i ELSE maxi

MutantAccepted ==              \* --nready is missing
  nready' = nready /\ pc' = "scan"
Accepted ==
  nready' = nready - 1 /\ pc' = IF nready' > 0 THEN "scan" ELSE "poll"

AcceptClient ==
  /\ fate = "running" /\ pc = "accept" /\ Cardinality(Live) < MaxFds
  /\ backlog' = backlog - 1
  /\ \E i \in Slot :
       /\ Seated(i) /\ Raise(i) /\ Room(Audience(i))
       /\ nameStr' = [nameStr EXCEPT ![i] = Default]
       /\ asked' = [asked EXCEPT ![i] = Default]
       /\ Arrive(i)
  /\ Accepted
  /\ UNCHANGED <<fate, scan, revents, newname, buf, unread, conns, sent>>

(* accept fails for want of a descriptor, or all entries are taken.        *)
TooMany ==
  /\ fate = "running" /\ pc = "accept"
  /\ Cardinality(Live) >= MaxFds \/ Live = Slot
  /\ fate' = "exited"
  /\ UNCHANGED <<loop, names, net, people, stalled>>

Turn(i) == i \in Pending(scan) /\ \A j \in Pending(scan) : i <= j

(* --nready, and the loop goes on while something is left of it.           *)
Served(i) ==
  /\ nready' = nready - 1
  /\ IF nready' > 0 /\ Pending(i + 1) # {}
     THEN pc' = "scan" /\ scan' = i + 1
     ELSE pc' = "poll" /\ scan' = 1
  /\ UNCHANGED <<revents, maxi>>

-----------------------------------------------------------------------------
(***************************************************************************)
(* Text in an array: the array is b, a string in it ends at the first Nul, *)
(* and all is Nul beyond Len(b).                                           *)
(***************************************************************************)
StrLen(b) == CHOOSE n \in 0 .. Len(b) : /\ n < Len(b) => b[n + 1] = Nul
                                        /\ \A m \in 1 .. n : b[m] # Nul
Over(b, t) == t \o SubSeq(b, Len(t) + 1, Len(b))
Cut(b, n) == [b EXCEPT ![n] = Nul]

(* The name in a line whose command is whole and whose end has come.       *)
Argument(t) ==
  LET from == Len(Name) + 2
      ends == {n \in from .. Len(t) : t[n] = NL}
  IN IF ends = {} \/ t[from - 1] = NL THEN <<>>
     ELSE SubSeq(t, from, (CHOOSE n \in ends : \A m \in ends : n <= m) - 1)

(* strncmp looks at all of buf: a line that ends inside a command is       *)
(* completed by what an earlier one left there.                            *)
IsName(b) == IsPrefix(Name, b)
IsWho(b) == IsPrefix(Who, b) /\ ~IsName(b)

(* /name: what follows the command and the blank, &buf[6].                 *)
MutantSource(b) == SubSeq(b, Len(Name) + 1, StrLen(b))     \* &buf[5]
Source(b) == SubSeq(b, Len(Name) + 2, StrLen(b))
Renamed(b) == Over(newname, Source(b))

Rename(i, t, b) ==
  LET n == StrLen(Renamed(b)) IN
  /\ IsName(b) /\ StrLen(b) > Len(Name) /\ Len(Source(b)) < NAMELEN
  /\ newname' = IF n = 0 THEN newname ELSE Cut(Renamed(b), n)
  /\ nameStr' = [nameStr EXCEPT ![i] = SubSeq(newname', 1, StrLen(newname'))]
  /\ asked' = [asked EXCEPT ![i] = Argument(t)]
  /\ buf' = b
  /\ Room(Audience(i) \cup {i}) /\ peer' = Tell(Audience(i) \cup {i}, peer)
  /\ UNCHANGED fate

(* strlen(buf) - 6 below 0, or a name that does not end inside newname.    *)
RenameOverflows(b) ==
  /\ IsName(b) /\ (StrLen(b) = Len(Name) \/ Len(Source(b)) >= NAMELEN)
  /\ fate' = "overflow"
  /\ UNCHANGED <<names, peer, stalled>>

ListNames(i, b) ==
  /\ IsWho(b)
  /\ buf' = b /\ Room({i}) /\ peer' = Tell({i}, peer)
  /\ UNCHANGED <<fate, newname, nameStr, asked>>

WrongCommand(i, t, b) ==
  /\ b[1] = Slash /\ ~IsName(b) /\ ~IsWho(b)
  /\ buf' = Cut(b, Len(t)) /\ Room({i}) /\ peer' = Tell({i}, peer)
  /\ UNCHANGED <<fate, newname, nameStr, asked>>

Chat(i, t, b) ==
  /\ b[1] # Slash
  /\ buf' = Cut(b, Len(t))
  /\ Room(Audience(i)) /\ peer' = Tell(Audience(i), peer)
  /\ UNCHANGED <<fate, newname, nameStr, asked>>

(* One read takes all that waits.                                          *)
ReadLine(i) ==
  /\ fate = "running" /\ pc = "scan" /\ Turn(i) /\ unread[i] # <<>>
  /\ LET t == unread[i]
         b == Over(buf, t)
     IN \/ Rename(i, t, b) \/ RenameOverflows(b)
        \/ ListNames(i, b) \/ WrongCommand(i, t, b) \/ Chat(i, t, b)
  /\ unread' = [unread EXCEPT ![i] = <<>>]
  /\ Served(i)
  /\ UNCHANGED <<backlog, conns, sent, people>>

MutantReadEof(i) ==            \* leaves as after a reset
  /\ fate = "running" /\ pc = "scan" /\ Turn(i) /\ unread[i] = <<>>
  /\ peer[i] \in {"fin", "over"}
  /\ peer' = [peer EXCEPT ![i] = "none"] /\ stalled' = stalled \ {i}
  /\ Served(i)
  /\ UNCHANGED <<fate, names, backlog, unread, conns, sent, people>>

(* read returns 0: LEAVE is sent, and the client no longer counted.        *)
ReadEof(i) ==
  /\ fate = "running" /\ pc = "scan" /\ Turn(i) /\ unread[i] = <<>>
  /\ peer[i] \in {"fin", "over"}
  /\ Audience(i) \cap stalled = {} /\ stalled' = stalled \ {i}
  /\ peer' = [Tell(Audience(i), peer) EXCEPT ![i] = "none"]
  /\ view' = [k \in Slot |-> IF k \in Audience(i) THEN view[k] \ {i} ELSE view[k]]
  /\ howManyUsers' = howManyUsers - 1
  /\ Served(i)
  /\ UNCHANGED <<fate, names, backlog, unread, conns, sent, dropped, resets>>

(* ECONNRESET: the entry is freed and nobody told.                         *)
ReadReset(i) ==
  /\ fate = "running" /\ pc = "scan" /\ Turn(i) /\ unread[i] = <<>>
  /\ peer[i] = "reset"
  /\ peer' = [peer EXCEPT ![i] = "none"] /\ UNCHANGED stalled
  /\ dropped' = dropped \cup {i} /\ resets' = resets + 1
  /\ Served(i)
  /\ UNCHANGED <<fate, names, backlog, unread, conns, sent, howManyUsers, view>>

(* Any other error ends the server.                                        *)
ReadError(i) ==
  /\ fate = "running" /\ pc = "scan" /\ Turn(i) /\ unread[i] = <<>>
  /\ peer[i] = "timedout"
  /\ fate' = "exited"
  /\ UNCHANGED <<loop, names, net, people, stalled>>

Server ==
  \/ MyPoll \/ AcceptClient \/ TooMany
  \/ \E i \in Slot : ReadLine(i) \/ ReadEof(i) \/ ReadReset(i) \/ ReadError(i)

-----------------------------------------------------------------------------
(* The clients and the network.                                            *)
Connect ==
  /\ fate = "running" /\ conns < MaxConns
  /\ backlog' = backlog + 1 /\ conns' = conns + 1
  /\ UNCHANGED <<fate, loop, names, peer, unread, sent, people, stalled>>

(* Lines are joined in one read, but none to a line without its newline.    *)
Waiting(k) == Cardinality({n \in 1 .. Len(unread[k]) : unread[k][n] = NL})
Complete(k) == unread[k] # <<>> => unread[k][Len(unread[k])] = NL

Send(k, t) ==
  /\ fate = "running" /\ peer[k] = "up" /\ sent < MaxSent
  /\ Complete(k) /\ Waiting(k) < MaxUnread
  /\ unread' = [unread EXCEPT ![k] = @ \o t] /\ sent' = sent + 1
  /\ UNCHANGED <<fate, loop, names, backlog, peer, conns, people, stalled>>

(* It shuts its side down, resets the connection, or is no longer heard    *)
(* of; in the last two cases a write returns the error.                    *)
Depart(k) ==
  /\ fate = "running" /\ peer[k] = "up"
  /\ \/ peer' = [peer EXCEPT ![k] = "fin"] /\ UNCHANGED stalled
     \/ /\ \E state \in {"reset", "timedout"} : peer' = [peer EXCEPT ![k] = state]
        /\ stalled' = stalled \ {k}
  /\ UNCHANGED <<fate, loop, names, backlog, unread, conns, sent, people>>

Stall(k) ==
  /\ fate = "running" /\ peer[k] = "up" /\ k \notin stalled
  /\ stalled' = stalled \cup {k}
  /\ UNCHANGED <<fate, loop, names, net, people>>

(* It reads again, or is gone.                                             *)
Drain(k) ==
  /\ fate = "running" /\ k \in stalled
  /\ stalled' = stalled \ {k}
  /\ UNCHANGED <<fate, loop, names, net, people>>

Clients ==
  \/ Connect
  \/ \E k \in Slot : Depart(k) \/ Drain(k) \/ \E t \in Lines : Send(k, t)
  \/ \E k \in Deaf : Stall(k)

Init ==
  /\ fate = "running" /\ pc = "poll" /\ scan = 1
  /\ nready = 0 /\ revents = {} /\ maxi = 0
  /\ nameStr = [k \in Slot |-> <<>>] /\ newname = <<>> /\ buf = <<>>
  /\ howManyUsers = 0 /\ resets = 0
  /\ backlog = 0 /\ conns = 0 /\ sent = 0
  /\ peer = [k \in Slot |-> "none"] /\ unread = [k \in Slot |-> <<>>]
  /\ asked = [k \in Slot |-> <<>>] /\ view = [k \in Slot |-> {}] /\ dropped = {}
  /\ stalled = {}

Next == Server \/ Clients

Spec == Init /\ [][Next]_vars

(* The process runs, and a write that finds room now and then gets through.*)
(* No client owes it anything.                                             *)
FairSpec == Spec /\ SF_vars(Server)

-----------------------------------------------------------------------------
TypeOK ==
  /\ fate \in {"running", "exited", "overflow"}
  /\ pc \in {"poll", "accept", "scan"} /\ scan \in Nat \ {0}
  /\ nready \in Int /\ revents \subseteq Slot /\ maxi \in {0} \cup Slot
  /\ nameStr \in [Slot -> Seq(Char)] /\ asked \in [Slot -> Seq(Char)]
  /\ newname \in Seq(Char \cup {Nul}) /\ buf \in Seq(Char \cup {Nul})
  /\ howManyUsers \in Int /\ resets \in Nat
  /\ backlog \in Nat /\ conns \in Nat /\ sent \in Nat
  /\ peer \in [Slot -> {"none", "up", "fin", "reset", "timedout", "over"}]
  /\ unread \in [Slot -> Seq(Char)] /\ stalled \subseteq Slot
  /\ view \in [Slot -> SUBSET Slot] /\ dropped \subseteq Slot

(* Who reads all announcements knows who is there, except for clients that *)
(* were reset: everybody there was announced, everybody gone too.          *)
(* (Notify:42-59, 150, 174)                                                *)
ViewCurrent ==
  \A k \in Live : /\ Live \ {k} \subseteq view[k]
                  /\ view[k] \subseteq (Live \ {k}) \cup dropped

(* "Total %d users online now" counts everybody there and, for good, every  *)
(* client that was reset; it is never lower.  (lines 141, 165, 175)        *)
CountDrift == howManyUsers = Cardinality(Live) + resets

(* The name of a client begins with the one it asked for, if the line that *)
(* last renamed it had come with the whole command and argument, whatever  *)
(* earlier lines left behind it in buf and newname; and a client in an     *)
(* entry used before starts with the default.  A line that ends inside     *)
(* /name may rename its client all the same, and promises nothing.         *)
(* (lines 99-104, 149)                                                     *)
NameBegins ==
  \A k \in Live : SubSeq(nameStr[k], 1, Len(asked[k])) = asked[k]

(* The round goes on exactly while something of it is left, although it    *)
(* stops by a count, and no accept or read of it blocks.  (lines 153, 186) *)
RoundComplete ==
  fate = "running" =>
    /\ pc = "accept" => backlog > 0
    /\ pc = "scan" => /\ nready = Cardinality(Pending(scan))
                      /\ \A k \in Pending(scan) : Readable(k)

(* Every client there is polled, so what it sends is read and, when it is  *)
(* gone, its entry is freed, as long as the process runs - unless from     *)
(* some time on there is always a client that does not read, who may keep  *)
(* the one process in dprintf for ever.  (lines 92, 157-160)               *)
Attended ==
  \/ <>[](stalled # {})
  \/ \A k \in Slot : []<>(~Readable(k) \/ fate # "running")
=============================================================================
