----------------------------- MODULE IrcServer -----------------------------
(***************************************************************************)
(* The IRC server of HW1/src/server.cpp: one process, one thread, a        *)
(* select() loop over a table of clients, and the clients' side of each    *)
(* TCP connection.  One round of the loop is MySelect, then IncommingReq   *)
(* (accept one client and read its first two lines, blocking), then        *)
(* ConnectedReq (one read for every descriptor that select reported).      *)
(*                                                                         *)
(* A line is the sequence of its tokens, the verb first.  What a client    *)
(* sent is a number of unread lines; which lines they are is chosen when   *)
(* the server reads them.  A reply is the descriptor it is written to:     *)
(* its text is left out, because only the write itself can change the      *)
(* state (a write to a connection the peer has reset raises SIGPIPE, which *)
(* the program does not handle).  client[i] is an element of UserInfo or   *)
(* NoClient (nullptr); chanID is one more than the code's, so 0 is its -1. *)
(***************************************************************************)
EXTENDS Integers, Sequences, FiniteSets

CONSTANTS
  FdLimit,        \* open descriptors are 0 .. FdLimit - 1 (RLIMIT_NOFILE)
  FdSetSize,      \* FD_SETSIZE, the length of client[]
  MaxChan,        \* MAXCHAN, the length of channels[]
  Token,          \* words of a line
  NoName,         \* the empty string
  Glued,          \* the word "x\r\nVERB" of two lines returned by one read
  Trailing,       \* the words that stand for a last argument ":..."
  FirstLines,     \* lines a client may send first ...
  SecondLines,    \* ... second ...
  Lines,          \* ... and later
  NoClient,
  MaxUnread,      \* bound: lines of one client waiting to be read
  MaxConns,       \* bound: connections in a behaviour
  MaxSent         \* bound: lines in a behaviour

ListenFd == 3
ClientFds == (ListenFd + 1) .. (FdLimit - 1)
Slots == 0 .. (FdSetSize - 1)

Verbs == {"QUIT", "NICK", "USER", "USERS", "JOIN", "LIST", "TOPIC", "PING",
          "NAMES", "PART", "PRIVMSG"}

UserInfo == [fd : ClientFds, chanID : Nat, nickname : Token, isLogin : BOOLEAN]
Channel == [name : Token, topic : Token, nusers : Int]

NewUser(f) == [fd |-> f, chanID |-> 0, nickname |-> NoName, isLogin |-> FALSE]
NewChannel(name) == [name |-> name, topic |-> NoName, nusers |-> 1]

PeerState == {"none", "up", "fin", "abort", "gone"}

(* No more clients than slots.  (FD_SET needs the stronger FdLimit <=      *)
(* FdSetSize, the usual 1024 and 1024; the table needs only this.)         *)
ASSUME SizesAssumption ==
  /\ FdLimit \in Nat /\ FdSetSize \in Nat \ {0} /\ MaxChan \in Nat
  /\ ListenFd < FdLimit /\ FdLimit - (ListenFd + 1) <= FdSetSize
ASSUME BoundsAssumption ==
  MaxUnread \in 1 .. 2 /\ MaxConns \in Nat /\ MaxSent \in Nat
ASSUME LinesAssumption ==
  /\ FirstLines \cup SecondLines \cup Lines \subseteq Seq(Token)
  /\ << >> \notin FirstLines \cup SecondLines \cup Lines
  /\ NoName \in Token /\ Glued \in Token \ Verbs
ASSUME NoClientAssumption == NoClient \notin UserInfo

VARIABLES
  fate,       \* "running", or how the process ended
  pc,         \* where the loop of start() is
  cur,        \* the slot whose handshake Connection() reads
  left,       \* words of line 1 that its command did not consume
  scan,       \* ConnectedReq: slots below scan are done
  nready, rset, allset, maxfd, maxconn,
  client, channels, kusers,
  backlog,    \* connections the kernel has completed, not yet accepted
  peer,       \* per descriptor: the state of the connection, "none" if closed
  unread,     \* per descriptor: lines sent and not yet read
  conns, sent \* connections made, lines sent (bounded)

loopVars == <<pc, cur, left, scan>>
selectVars == <<nready, rset, allset, maxfd, maxconn>>
tableVars == <<client, channels, kusers>>
netVars == <<backlog, peer, unread, conns, sent>>
vars == <<fate, loopVars, selectVars, tableVars, netVars>>

(* Definitions named Mutant... are faults that the properties must notice;  *)
(* no specification uses them.                                             *)
MutantScanned == {i \in Slots : i < maxconn}

Live == {i \in Slots : client[i] # NoClient}
FdsOf(S) == {client[i].fd : i \in S}
Scanned == {i \in Slots : i <= maxconn}       \* for (i = 0; i <= maxconn; i++)
Holes == Scanned \ Live

-----------------------------------------------------------------------------
(***************************************************************************)
(* Replies.  w[f] is the number of dprintf calls on descriptor f, 2 for    *)
(* two or more.  The first write to a peer that closed may or may not meet *)
(* the peer's RST; the first after an RST nobody has read fails with       *)
(* ECONNRESET and is ignored; any write after that is SIGPIPE.             *)
(***************************************************************************)
Silent == [f \in ClientFds |-> 0]
To(u, n) == [f \in ClientFds |-> IF f = client[u].fd THEN n ELSE 0]
ToAll(S) == [f \in ClientFds |-> IF f \in FdsOf(S) THEN 1 ELSE 0]

Deliver(w) ==
  \/ /\ \A f \in ClientFds : /\ peer[f] = "gone" => w[f] = 0
                             /\ peer[f] = "abort" => w[f] < 2
     /\ \E R \in SUBSET {f \in ClientFds : w[f] > 0 /\ peer[f] = "fin"} :
          peer' = [f \in ClientFds |->
                     IF f \in R \/ (w[f] > 0 /\ peer[f] = "abort")
                     THEN "gone" ELSE peer[f]]
     /\ UNCHANGED fate
  \/ /\ \E f \in ClientFds : \/ w[f] > 0 /\ peer[f] = "gone"
                             \/ w[f] > 1 /\ peer[f] \in {"fin", "abort"}
     /\ fate' = "sigpipe"
     /\ UNCHANGED peer

-----------------------------------------------------------------------------
(***************************************************************************)
(* The commands.  u is the slot of the client that sent the line, a the    *)
(* words after the verb.                                                   *)
(***************************************************************************)
MutantNamed(name) == {c \in 1 .. Len(channels) - 1 : channels[c].name = name}
Named(name) == {c \in 1 .. Len(channels) : channels[c].name = name}
Members(c) == {i \in Scanned \cap Live : client[i].chanID = c}

(* checkNickExist and join's second loop read client[i] without a null     *)
(* check: an empty slot they reach ends the process.                       *)
Segfault(where) ==
  fate' = where /\ UNCHANGED <<client, channels, kusers, peer>>

(* A command that only writes n replies to its sender. *)
ReplyOnly(u, n) == Deliver(To(u, n)) /\ UNCHANGED tableVars

Nick(u, a) ==
  \/ a = << >> /\ ReplyOnly(u, 1)
  \/ /\ a # << >>
     /\ LET Same == {i \in Scanned \cap Live : client[i].nickname = a[1]}
            Before(i) == {j \in Holes : j < i}
        IN \/ (\E i \in Same : Before(i) = {}) /\ ReplyOnly(u, 1)
           \/ /\ Holes # {}
              /\ \A i \in Same : Before(i) # {}
              /\ Segfault("nullNick")
           \/ /\ Holes = {} /\ Same = {}
              /\ client' = [client EXCEPT ![u].nickname = a[1]]
              /\ UNCHANGED <<channels, kusers, peer, fate>>

User(u, a) ==
  \/ Len(a) < 4 /\ ReplyOnly(u, 1)
  \/ /\ Len(a) >= 4
     /\ client' = [client EXCEPT ![u].isLogin = TRUE]
     /\ kusers' = IF client[u].isLogin THEN kusers ELSE kusers + 1
     /\ Deliver(To(u, 2))
     /\ UNCHANGED channels

(* Start line, one line per client, end line; PONG or "no origin".         *)
Users(u, a) == ReplyOnly(u, 2)
Ping(u, a) == ReplyOnly(u, 1)

(* Nothing at all while there is no channel.                               *)
List(u, a) == ReplyOnly(u, IF channels = << >> THEN 0 ELSE 2)

(* The channel is entered before the reply loops run.                      *)
Enter(u, c, table) ==
  \/ Holes # {} /\ Segfault("nullJoin")
  \/ /\ Holes = {}
     /\ client' = [client EXCEPT ![u].chanID = c]
     /\ channels' = table
     /\ Deliver([f \in ClientFds |-> IF f = client[u].fd THEN 2
                                     ELSE ToAll(Members(c))[f]])
     /\ UNCHANGED kusers

Join(u, a) ==
  \/ a = << >> /\ ReplyOnly(u, 1)
  \/ /\ a # << >>
     /\ \/ \E c \in Named(a[1]) :
             Enter(u, c, [channels EXCEPT ![c].nusers = @ + 1])
        \/ /\ Named(a[1]) = {}
           /\ Len(channels) < MaxChan
           /\ Enter(u, Len(channels) + 1, Append(channels, NewChannel(a[1])))
        \/ /\ Named(a[1]) = {}
           /\ Len(channels) = MaxChan          \* channels[MAXCHAN] is written
           /\ Segfault("overflow")

(* 461, 403, 442, the topic or its absence: one reply on every path.       *)
Topic(u, a) ==
  /\ Deliver(To(u, 1))
  /\ channels' = IF Len(a) >= 2 /\ client[u].chanID \in Named(a[1])
                 THEN [channels EXCEPT ![client[u].chanID].topic = a[2]]
                 ELSE channels
  /\ UNCHANGED <<client, kusers>>

(* One RPL_NAMREPLY per member, then RPL_ENDOFNAMES.                       *)
Names(u, a) ==
  LET replies(c) == IF Members(c) = {} THEN 1 ELSE 2 IN
  \/ a = << >> /\ ReplyOnly(u, IF client[u].chanID = 0 THEN 0
                               ELSE replies(client[u].chanID))
  \/ /\ a # << >>
     /\ \/ Named(a[1]) = {} /\ ReplyOnly(u, 1)
        \/ \E c \in Named(a[1]) : ReplyOnly(u, replies(c))

(* Without an argument, without that channel or off it: one error reply.   *)
OnChannel(u, a) == a # << >> /\ client[u].chanID \in Named(a[1])

MutantPart(u, a) ==      \* chanID is not reset
  \/ ~OnChannel(u, a) /\ ReplyOnly(u, 1)
  \/ /\ OnChannel(u, a)
     /\ Deliver(ToAll(Members(client[u].chanID)))
     /\ channels' = [channels EXCEPT ![client[u].chanID].nusers = @ - 1]
     /\ UNCHANGED <<client, kusers>>

Part(u, a) ==
  \/ ~OnChannel(u, a) /\ ReplyOnly(u, 1)
  \/ /\ OnChannel(u, a)
     /\ Deliver(ToAll(Members(client[u].chanID)))
     /\ client' = [client EXCEPT ![u].chanID = 0]
     /\ channels' = [channels EXCEPT ![client[u].chanID].nusers = @ - 1]
     /\ UNCHANGED kusers

Privmsg(u, a) ==
  \/ (Len(a) < 2 \/ ~OnChannel(u, a)) /\ ReplyOnly(u, 1)
  \/ /\ Len(a) >= 2 /\ OnChannel(u, a)
     /\ Deliver(ToAll(Members(client[u].chanID) \ {u}))
     /\ UNCHANGED tableVars

(* The counters only: whether the connection is closed is the caller's.    *)
Quit(u) ==
  /\ kusers' = kusers - 1
  /\ channels' = IF client[u].chanID = 0 THEN channels
                 ELSE [channels EXCEPT ![client[u].chanID].nusers = @ - 1]

(* ParseCommand on the words t, for every verb but QUIT.                   *)
Command(u, t) ==
  LET v == Head(t)  a == Tail(t) IN
  \/ v = "NICK" /\ Nick(u, a)
  \/ v = "USER" /\ User(u, a)
  \/ v = "USERS" /\ Users(u, a)
  \/ v = "JOIN" /\ Join(u, a)
  \/ v = "LIST" /\ List(u, a)
  \/ v = "TOPIC" /\ Topic(u, a)
  \/ v = "PING" /\ Ping(u, a)
  \/ v = "NAMES" /\ Names(u, a)
  \/ v = "PART" /\ Part(u, a)
  \/ v = "PRIVMSG" /\ Privmsg(u, a)
  \/ v \notin Verbs /\ ReplyOnly(u, 1)

(* The words of t that the command leaves in the list cmd.                 *)
Leftover(u, t) ==
  LET v == Head(t)
      a == Tail(t)
      without(n) == SubSeq(a, n + 1, Len(a))
  IN CASE v \in {"QUIT", "PART"} -> << >>
       [] v \in {"NICK", "JOIN", "NAMES"} -> without(1)
       [] v = "USER" -> IF Len(a) < 4 THEN a ELSE without(4)
       [] v = "PING" -> IF Len(a) = 2 THEN << >> ELSE without(1)
       [] v = "LIST" -> IF channels # << >> THEN without(IF Len(a) = 1 THEN 1 ELSE 0)
                        ELSE a
       [] v = "TOPIC" -> without(IF OnChannel(u, a) THEN 2 ELSE 1)
       [] v = "PRIVMSG" -> without(IF a # << >> /\ Named(a[1]) # {} THEN 2 ELSE 1)
       [] OTHER -> a

(* Two lines returned by one read: Parser splits at blanks only, so the    *)
(* last word of the first line swallows the verb of the second, and a      *)
(* trailing argument swallows all of it.                                   *)
Glue(l, m) ==
  IF l[Len(l)] \in Trailing THEN l
  ELSE SubSeq(l, 1, Len(l) - 1) \o <<Glued>> \o Tail(m)
Received(n) == IF n = 1 THEN Lines ELSE {Glue(l, m) : l, m \in Lines}

-----------------------------------------------------------------------------
(* Server::Server and setup().                                             *)
Init ==
  /\ fate = "running" /\ pc = "select" /\ cur = 0 /\ left = << >> /\ scan = 0
  /\ nready = 0 /\ rset = {} /\ allset = {ListenFd}
  /\ maxfd = ListenFd /\ maxconn = -1
  /\ client = [i \in Slots |-> NoClient] /\ channels = << >> /\ kusers = 0
  /\ backlog = 0 /\ conns = 0 /\ sent = 0
  /\ peer = [f \in ClientFds |-> "none"]
  /\ unread = [f \in ClientFds |-> 0]

(***************************************************************************)
(* One round of start().                                                   *)
(***************************************************************************)
Readable(f) ==
  IF f = ListenFd THEN backlog > 0
  ELSE unread[f] > 0 \/ peer[f] \in {"fin", "abort", "gone"}
Ready == {f \in allset : f <= maxfd /\ Readable(f)}

(* Slots below k are done: what is left of ConnectedReq's loop.            *)
Pending(k) == {i \in Scanned \cap Live : i >= k /\ client[i].fd \in rset}

MySelect ==
  /\ fate = "running" /\ pc = "select" /\ Ready # {}
  /\ rset' = Ready /\ nready' = Cardinality(Ready)
  /\ pc' = IF ListenFd \in Ready THEN "accept" ELSE "scan"
  /\ UNCHANGED <<fate, cur, left, scan, allset, maxfd, maxconn, tableVars, netVars>>

IncommingReq ==
  /\ fate = "running" /\ pc = "accept"
  /\ \E f \in ClientFds, i \in Slots :
       /\ peer[f] = "none" /\ \A g \in ClientFds : peer[g] = "none" => f <= g
       /\ i \notin Live /\ \A j \in Slots \ Live : i <= j
       /\ peer' = [peer EXCEPT ![f] = "up"]
       /\ client' = [client EXCEPT ![i] = NewUser(f)]
       /\ allset' = allset \cup {f}
       /\ cur' = i
  /\ backlog' = backlog - 1
  /\ pc' = "line1"
  /\ UNCHANGED <<fate, left, scan, nready, rset, maxfd, maxconn, channels,
                 kusers, unread, conns, sent>>

(* accept fails for want of a descriptor: err_sys ends the process.        *)
AcceptFails ==
  /\ fate = "running" /\ pc = "accept"
  /\ \A f \in ClientFds : peer[f] # "none"
  /\ fate' = "exited"
  /\ UNCHANGED <<loopVars, selectVars, tableVars, netVars>>

(* ParseCommand in a handshake: its result is not looked at, so QUIT only  *)
(* counts.                                                                 *)
HandshakeCommand(t) ==
  \/ Head(t) = "QUIT" /\ Quit(cur) /\ UNCHANGED <<client, peer, fate>>
  \/ Head(t) # "QUIT" /\ Command(cur, t)

Leave == pc' = IF nready' > 0 THEN "scan" ELSE "select"
MutantUncounted ==       \* --nready is missing
  /\ maxfd' = IF client[cur].fd > maxfd THEN client[cur].fd ELSE maxfd
  /\ maxconn' = IF cur > maxconn THEN cur ELSE maxconn
  /\ nready' = nready /\ pc' = "scan" /\ cur' = 0 /\ left' = << >>
  /\ UNCHANGED <<scan, rset, allset>>
MutantNfds ==            \* maxfd is taken for select's first argument
  /\ maxfd' = client[cur].fd + 1
  /\ maxconn' = IF cur > maxconn THEN cur ELSE maxconn
  /\ nready' = nready - 1 /\ Leave /\ cur' = 0 /\ left' = << >>
  /\ UNCHANGED <<scan, rset, allset>>
MutantMaxfd ==           \* maxfd is not raised
  /\ maxconn' = IF cur > maxconn THEN cur ELSE maxconn
  /\ nready' = nready - 1 /\ Leave /\ cur' = 0 /\ left' = << >>
  /\ UNCHANGED <<scan, rset, allset, maxfd>>
MutantMaxconn ==         \* maxconn is not raised
  /\ maxfd' = IF client[cur].fd > maxfd THEN client[cur].fd ELSE maxfd
  /\ nready' = nready - 1 /\ Leave /\ cur' = 0 /\ left' = << >>
  /\ UNCHANGED <<scan, rset, allset, maxconn>>

(* After Connection returns: the rest of IncommingReq.                     *)
Connected ==
  /\ maxfd' = IF client[cur].fd > maxfd THEN client[cur].fd ELSE maxfd
  /\ maxconn' = IF cur > maxconn THEN cur ELSE maxconn
  /\ nready' = nready - 1 /\ Leave
  /\ cur' = 0 /\ left' = << >>
  /\ UNCHANGED <<scan, rset, allset>>

HandshakeFd == client[cur].fd
TakeLine(f, n) == unread' = [unread EXCEPT ![f] = @ - n]

FirstLine ==
  /\ fate = "running" /\ pc = "line1" /\ unread[HandshakeFd] > 0
  /\ TakeLine(HandshakeFd, 1)
  /\ \E t \in FirstLines : HandshakeCommand(t) /\ left' = Leftover(cur, t)
  /\ pc' = "line2"
  /\ UNCHANGED <<cur, scan, selectVars, backlog, conns, sent>>

(* Readline returns 0 and ParseCommand finds no words.                     *)
FirstLineEof ==
  /\ fate = "running" /\ pc = "line1" /\ unread[HandshakeFd] = 0
  /\ peer[HandshakeFd] \in {"fin", "gone"}
  /\ pc' = "line2"
  /\ UNCHANGED <<fate, cur, left, scan, selectVars, tableVars, netVars>>

SecondLine ==
  /\ fate = "running" /\ pc = "line2" /\ unread[HandshakeFd] > 0
  /\ TakeLine(HandshakeFd, 1)
  /\ \E t \in SecondLines : HandshakeCommand(left \o t)
  /\ Connected
  /\ UNCHANGED <<backlog, conns, sent>>

SecondLineEof ==
  /\ fate = "running" /\ pc = "line2" /\ unread[HandshakeFd] = 0
  /\ peer[HandshakeFd] \in {"fin", "gone"}
  /\ Connected
  /\ UNCHANGED <<fate, tableVars, netVars>>

(* Readline calls err_sys when read fails: one reset ends the server.      *)
HandshakeError ==
  /\ fate = "running" /\ pc \in {"line1", "line2"}
  /\ unread[HandshakeFd] = 0 /\ peer[HandshakeFd] = "abort"
  /\ fate' = "exited"
  /\ UNCHANGED <<loopVars, selectVars, tableVars, netVars>>

(***************************************************************************)
(* ConnectedReq: the next slot whose descriptor select reported.           *)
(***************************************************************************)
Turn(i) == i \in Pending(scan) /\ \A j \in Pending(scan) : i <= j

(* --nready, and the loop goes on while something is left of it.           *)
Served(i) ==
  /\ nready' = nready - 1
  /\ IF nready' > 0 /\ Pending(i + 1) # {}
     THEN pc' = "scan" /\ scan' = i + 1
     ELSE pc' = "select" /\ scan' = 0
  /\ UNCHANGED <<cur, left, rset, maxfd, maxconn>>

MutantNoFdClr(i) ==
  /\ client' = [client EXCEPT ![i] = NoClient]
  /\ peer' = [peer EXCEPT ![client[i].fd] = "none"]
  /\ UNCHANGED <<fate, allset>>

CloseConnection(i) ==
  /\ allset' = allset \ {client[i].fd}
  /\ client' = [client EXCEPT ![i] = NoClient]
  /\ peer' = [peer EXCEPT ![client[i].fd] = "none"]
  /\ UNCHANGED fate

Serve(i) ==
  /\ fate = "running" /\ pc = "scan" /\ Turn(i) /\ unread[client[i].fd] > 0
  /\ TakeLine(client[i].fd, unread[client[i].fd])
  /\ \E t \in Received(unread[client[i].fd]) :
       Head(t) # "QUIT" /\ Command(i, t)
  /\ Served(i)
  /\ UNCHANGED <<allset, backlog, conns, sent>>

ServeQuit(i) ==
  /\ fate = "running" /\ pc = "scan" /\ Turn(i) /\ unread[client[i].fd] > 0
  /\ TakeLine(client[i].fd, unread[client[i].fd])
  /\ \E t \in Received(unread[client[i].fd]) : Head(t) = "QUIT"
  /\ Quit(i)
  /\ CloseConnection(i)
  /\ Served(i)
  /\ UNCHANGED <<backlog, conns, sent>>

ServeEof(i) ==
  /\ fate = "running" /\ pc = "scan" /\ Turn(i) /\ unread[client[i].fd] = 0
  /\ peer[client[i].fd] \in {"fin", "gone"}
  /\ CloseConnection(i)
  /\ Served(i)
  /\ UNCHANGED <<channels, kusers, backlog, unread, conns, sent>>

(* read returns -1, buf stays empty, so does the list of words; the error  *)
(* is reported once, the next read returns 0.                              *)
ServeError(i) ==
  /\ fate = "running" /\ pc = "scan" /\ Turn(i) /\ unread[client[i].fd] = 0
  /\ peer[client[i].fd] = "abort"
  /\ peer' = [peer EXCEPT ![client[i].fd] = "gone"]
  /\ Served(i)
  /\ UNCHANGED <<fate, allset, tableVars, backlog, unread, conns, sent>>

Server ==
  \/ MySelect \/ IncommingReq \/ AcceptFails
  \/ FirstLine \/ FirstLineEof \/ SecondLine \/ SecondLineEof \/ HandshakeError
  \/ \E i \in Slots : Serve(i) \/ ServeQuit(i) \/ ServeEof(i) \/ ServeError(i)

-----------------------------------------------------------------------------
(* The clients.                                                            *)
Connect ==
  /\ fate = "running" /\ conns < MaxConns
  /\ backlog' = backlog + 1 /\ conns' = conns + 1
  /\ UNCHANGED <<fate, loopVars, selectVars, tableVars, peer, unread, sent>>

Send(f) ==
  /\ fate = "running" /\ peer[f] = "up" /\ unread[f] < MaxUnread /\ sent < MaxSent
  /\ unread' = [unread EXCEPT ![f] = @ + 1] /\ sent' = sent + 1
  /\ UNCHANGED <<fate, loopVars, selectVars, tableVars, backlog, peer, conns>>

Hangup(f) ==
  /\ fate = "running" /\ peer[f] = "up"
  /\ peer' = [peer EXCEPT ![f] = "fin"]
  /\ UNCHANGED <<fate, loopVars, selectVars, tableVars, backlog, unread, conns, sent>>

(* A reset; after a FIN the kernel reports it to writers only.             *)
Reset(f) ==
  /\ fate = "running" /\ peer[f] \in {"up", "fin"}
  /\ peer' = [peer EXCEPT ![f] = IF @ = "up" THEN "abort" ELSE "gone"]
  /\ UNCHANGED <<fate, loopVars, selectVars, tableVars, backlog, unread, conns, sent>>

Clients == Connect \/ \E f \in ClientFds : Send(f) \/ Hangup(f) \/ Reset(f)

Next == Server \/ Clients

Spec == Init /\ [][Next]_vars

(* The one client the server waits for sends its line or hangs up.  This   *)
(* is an assumption about the clients: Connection() has no time limit.     *)
Answer ==
  /\ pc \in {"line1", "line2"} /\ unread[HandshakeFd] = 0
  /\ Send(HandshakeFd) \/ Hangup(HandshakeFd)

FairSpec == Spec /\ WF_vars(Server) /\ WF_vars(Answer)

-----------------------------------------------------------------------------
InHandshake == pc \in {"line1", "line2"}
LoggedIn == {i \in Live : client[i].isLogin}
On(c) == {i \in Live : client[i].chanID = c}

(* Every variable stays in the range the code's declarations give it.      *)
TypeOK ==
  /\ fate \in {"running", "exited", "sigpipe", "nullNick", "nullJoin", "overflow"}
  /\ pc \in {"select", "accept", "line1", "line2", "scan"}
  /\ cur \in Slots /\ left \in Seq(Token) /\ scan \in Nat
  /\ nready \in Int /\ rset \subseteq {ListenFd} \cup ClientFds
  /\ allset \subseteq {ListenFd} \cup ClientFds
  /\ maxfd \in {ListenFd} \cup ClientFds /\ maxconn \in {-1} \cup Slots
  /\ client \in [Slots -> UserInfo \cup {NoClient}]
  /\ channels \in Seq(Channel) /\ kusers \in Int
  /\ backlog \in Nat /\ conns \in Nat /\ sent \in Nat
  /\ peer \in [ClientFds -> PeerState]
  /\ unread \in [ClientFds -> Nat]

(* The table, allset and the kernel agree: a descriptor is open, watched   *)
(* by select and owned by exactly one slot, or none of the three; and the  *)
(* bounds maxfd and maxconn of the loops cover every client whose          *)
(* handshake is over.  (IncommingReq:220, CloseConnection:306)             *)
TableSound ==
  /\ \A f \in ClientFds : /\ f \in allset <=> peer[f] # "none"
                          /\ f \in allset <=> f \in FdsOf(Live)
                          /\ peer[f] = "none" => unread[f] = 0
  /\ ListenFd \in allset
  /\ \A i, j \in Live : client[i].fd = client[j].fd => i = j
  /\ \A i \in Live : \/ InHandshake /\ i = cur
                     \/ i <= maxconn /\ client[i].fd <= maxfd
  /\ InHandshake => cur \in Live

(* No two connected clients hold the same nickname, whatever lines they    *)
(* send and in whatever order they come and go.  (checkNickExist:314)      *)
NickUnique ==
  \A i, j \in Live : client[i].nickname = client[j].nickname
                     => i = j \/ client[i].nickname = NoName

(* channels[] never holds a name twice, so the first match that            *)
(* FindChannel stops at is the only one, and every client's chanID is -1   *)
(* or the index of a channel that exists.  (join:452, FindChannel:437)     *)
ChannelsSound ==
  /\ \A c, d \in 1 .. Len(channels) : channels[c].name = channels[d].name => c = d
  /\ \A i \in Live : client[i].chanID <= Len(channels)

(* accept is called only when a connection waits.  (IncommingReq:231)      *)
AcceptReady == pc = "accept" => backlog > 0

(* ConnectedReq stops at --nready <= 0; it never stops before every        *)
(* descriptor of the round was served: nready is the number still to do,   *)
(* although IncommingReq, accepts and closes change the table in between,  *)
(* and what select reported of each is still there when its turn comes, so *)
(* that no accept and no read of a round blocks.  (ConnectedReq:270-294)   *)
RoundComplete ==
  /\ AcceptReady
  /\ fate = "running" /\ pc = "scan" =>
       /\ nready = Cardinality(Pending(scan))
       /\ \A i \in Pending(scan) : Readable(client[i].fd)

(* Where every handshake is NICK then USER, the counters LIST and the      *)
(* greeting report are never below the clients really there.               *)
(* (quit:551, part:683, join:472)                                          *)
CountsCover ==
  /\ Cardinality(LoggedIn) <= kusers
  /\ \A c \in 1 .. Len(channels) : Cardinality(On(c)) <= channels[c].nusers

(* A client that went away gets its descriptor and slot reclaimed, as long *)
(* as the process lives.                                                   *)
HangupReclaimed ==
  \A f \in ClientFds :
    peer[f] \in {"fin", "abort", "gone"} ~> (peer[f] = "none" \/ fate # "running")

(* A line that reached the server is read, as long as the process lives.   *)
LinesRead ==
  \A f \in ClientFds : unread[f] > 0 ~> (unread[f] = 0 \/ fate # "running")

(* "join & privmsg is always right" (server.cpp:30): JOIN finds or makes   *)
(* its channel and never fails.                                            *)
JoinAlwaysRight == fate # "nullJoin"
=============================================================================
